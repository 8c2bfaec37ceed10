CONSTANTS
    Size = 3
    Reader = {r}
    MaxNow = 3
    MaxSets = 7
SPECIFICATION Spec
INVARIANTS
    RingIsHistory
    LookupsMatchHistory
    PointerReadsOneEntry
