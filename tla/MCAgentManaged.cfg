SPECIFICATION Spec
CONSTANTS
    Task = {"CheckSystem"}
    Handler = {"exporter", "admin"}
    Rank <- MCRank
    Tcp = {}
    Admin = {"admin"}
    Port = {"p1", "p2"}
    NoPort = NoPort
    Config = {"one", "two"}
    Valid = {"one", "two"}
    Managed = {"two"}
    Enabled <- MCEnabled
    Bind <- MCBind
    ForeignPort = {}
    Conn = {}
    MaxGen = 3
    MaxSignals = 2
PROPERTIES
    ReloadKeepsRunning
CHECK_DEADLOCK FALSE
