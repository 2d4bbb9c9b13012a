CONSTANTS
    s1 = s1
    t1 = t1
    t2 = t2
    t3 = t3
    t4 = t4
    App = App
    Background = Background
    NoTask = NoTask
    NoSwap = NoSwap
    StoredSwaps = {s1}
    Kinds <- PolledKinds
    Tasks = {t1, t2, t3, t4}
    AppRunsTasks = FALSE
    MostTroubles = 1
SPECIFICATION TaskFairSpec
INVARIANTS
    DoneIsRight
PROPERTIES
    StoredCatchesUp
    ClaimsFollow
CHECK_DEADLOCK FALSE
