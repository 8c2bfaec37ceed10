SPECIFICATION Spec
CONSTANTS
    Module = {m1, m2}
    Conn = {c1, c2, c3}
    Kinds = {"tcp", "http"}
    Allowed = {c1, c2}
    Requests <- MCRequests
    OutLen = {4, 5, 9}
    AcceptFails = TRUE
    V2Data = 5
    V4Data = 9
INVARIANTS
    AnswerIsReadable
    TcpKeepsListening
PROPERTIES
    StopEndsLoop
    ConnectionsEnd
CHECK_DEADLOCK FALSE
