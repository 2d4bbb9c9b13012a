CONSTANTS
    p1 = p1
    c1 = c1
    c2 = c2
    s1 = s1
    s2 = s2
    NoService = NoService
    Nobody = Nobody
    Setup = Setup
    Ping = Ping
    Pages = {p1}
    Calls = {c1, c2}
    PageOf <- BothOnOne
    KindsOf <- OneReads
    Services = {s1, s2}
    MaxTroubles = 1
    MaxInits = 2
SPECIFICATION WorkerFairSpec
INVARIANTS
    HandledOnce
    StraysHaveACause
PROPERTIES
    CallsEnd
CHECK_DEADLOCK FALSE
