CONSTANTS
    s1 = s1
    t1 = t1
    t2 = t2
    Swaps = {s1}
    Kinds = {"reverse", "submarine", "chainToBtc"}
    Tasks = {t1, t2}
    AutoActions = TRUE
    MaxWs = 1
    MaxEmitted = 1
    Events <- Losses
SPECIFICATION FairSpec
PROPERTIES
    EndedSwapsLeave
    PayoutIsCollected
CHECK_DEADLOCK FALSE
