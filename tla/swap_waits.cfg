CONSTANTS
    Kinds = {"reverse", "submarine", "chainToArk", "chainToBtc"}
    MaxFails = 2
    MaxLost = 1
SPECIFICATION FairSpec
INVARIANTS
    ResolvedIsDone
    ClaimsOnce
    NothingLeftLocked
PROPERTIES
    WaitEnds
CHECK_DEADLOCK FALSE
