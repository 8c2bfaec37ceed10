SPECIFICATION FairSpec
CONSTANTS
    Levels = {"info", "debug"}
    FirstLevel = "info"
    None = None
    Nobody = Nobody
    MaxGeneration = 3
    MaxEvents = 3
INVARIANT LogsIntoFile
PROPERTY TimedLevelEnds ExporterServes
CHECK_DEADLOCK FALSE
