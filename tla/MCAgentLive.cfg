SPECIFICATION FairSpec
CONSTANTS
    Task = {"CheckSystem"}
    Handler = {"exporter", "admin"}
    Rank <- MCRank
    Tcp = {}
    Admin = {"admin"}
    Port = {"p2"}
    NoPort = NoPort
    Config = {"one"}
    Valid = {"one"}
    Managed = {}
    Enabled <- MCEnabled
    Bind <- MCBind
    ForeignPort = {"p2"}
    Conn = {c1}
    MaxGen = 4
    MaxSignals = 3
PROPERTIES
    ReloadKeepsRunning
    StopIsObeyed
    AdminReloadSent
    ReloadCompletes
CHECK_DEADLOCK FALSE
