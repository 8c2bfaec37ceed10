SPECIFICATION Spec
CONSTANTS
    Module = {m1, m2}
    Conn = {c1, c2}
    Kinds = {"http"}
    Allowed = {c1, c2}
    Requests <- MCRequests
    OutLen = {4, 5, 9}
    AcceptFails = TRUE
    V2Data = 5
    V4Data = 9
INVARIANTS
    KeepsListening
CHECK_DEADLOCK FALSE
