CONSTANTS
    s1 = s1
    t1 = t1
    t2 = t2
    Swaps = {s1}
    Kinds = {"reverse", "submarine", "chainToArk", "chainToBtc"}
    Tasks = {t1, t2}
    AutoActions = TRUE
    MaxWs = 1
    MaxEmitted = 1
    Events <- AllEvents
SYMMETRY Symmetry
SPECIFICATION Spec
INVARIANTS
    LockIsExact
    FinalIsTrue
PROPERTIES
    LockIsImplemented
CHECK_DEADLOCK FALSE
