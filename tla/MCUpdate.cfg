SPECIFICATION FairSpec
CONSTANTS
    None = None
    First = 1
    MaxVersion = 3
    Sizes <- MCSizes
    Channels = {"release", "url"}
    Fetchers = {"auto", "admin", "command"}
    MaxManual = 1
    MaxCrashes = 2
INVARIANT NeverStuckAlone
PROPERTY UpdateArrives
CHECK_DEADLOCK FALSE
