SPECIFICATION Spec
CONSTANTS
    r1 = r1
    r2 = r2
    a1 = a1
    a2 = a2
    a3 = a3
    Request <- MCRequest
    IP <- MCIP
    MaxSessions = 2
    SessionMaxAge = 2
    RateWindow = 2
    RateLimit = 1
    MaxTrackedIPs = 2
    MaxTime = 3
    MaxIssued = 4
SYMMETRY PanelSymmetry
INVARIANTS
    TypeOK
    TablesBounded
    OverrunBounded
PROPERTIES
    SessionsEndForAReason
