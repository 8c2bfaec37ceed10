SPECIFICATION Spec
CONSTANTS
    k1 = k1
    k2 = k2
    k3 = k3
    r1 = r1
    r2 = r2
    None = None
    Keys = {k1, k2, k3}
    FirstKey = k1
    Requests = {r1, r2}
    MaxRequests = 3
PROPERTY UpdatedOnlyIfMatching
CHECK_DEADLOCK FALSE
