SPECIFICATION Spec
CONSTANTS
    Task = {"CheckSystem", "Updates"}
    Handler = {"exporter", "nrpe", "admin"}
    Rank <- MCRank
    Tcp = {"nrpe"}
    Admin = {"admin"}
    Port = {"p1", "p2"}
    NoPort = NoPort
    Config = {"one", "two", "three", "bad"}
    Valid = {"one", "two", "three"}
    Managed = {"two"}
    Enabled <- MCEnabled
    Bind <- MCBind
    ForeignPort = {"p1"}
    Conn = {c1}
    MaxGen = 3
    MaxSignals = 2
INVARIANTS
    IdleIsCoherent
    NoLeakedSocket
    IdleServes
    StartedIsReachable
    TaskRunsOnce
    RequestRunSet
    DownMeansReleased
PROPERTIES
    SwitchesCleanly
CHECK_DEADLOCK FALSE
