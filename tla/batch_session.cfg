CONSTANTS
    root = root
    leaf = leaf
    Callers = {"settle", "settleRecoverable", "exit", "vhtlc", "vhtlcRecoverable"}
    Providers = {"rest", "expo"}
    Txs = {root, leaf}
    Root = root
    MaxBatches = 3
    MaxEvents = 1
    Events = {"error", "break", "stale"}
SPECIFICATION FairSpec
INVARIANTS
    SignsItsTree
    ForfeitsComeLast
    ResolvesSettled
PROPERTIES
    SettleEnds
CHECK_DEADLOCK FALSE
