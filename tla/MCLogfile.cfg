SPECIFICATION FairSpec
CONSTANTS
    c1 = c1
    c2 = c2
    i1 = i1
    i2 = i2
    None = None
    FirstInodes <- MCFirst
    Names = {"a"}
    Rank <- MCRank
    Inodes = {i1, i2}
    Calls = {c1, c2}
    Offsets <- MCOffsets
    MaxLines = 1
    IgnoreMissing = FALSE
    LineEnds = {1, 2, 4}
    MaxWrites = 4
    MaxFaults = 1
INVARIANT SkipsOnlyAccounted
 
CHECK_DEADLOCK FALSE
