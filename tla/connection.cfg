CONSTANTS
    w1 = w1
    w2 = w2
    w3 = w3
    s1 = s1
    s2 = s2
    NoSocket = NoSocket
    Sockets = {w1, w2}
    Swaps = {s1, s2}
    Runtimes = {"without", "with", "throws"}
    PollInterval = 3
    MaxPollInterval = 4
    PollRetryDelay = 1
    MaxPollRetryDelay = 4
    ReconnectDelay = 1
    MaxReconnectDelay = 2
    Intervals = {2}
    MaxRounds = 1
    Events = {"add", "interval", "limit", "stop"}
SPECIFICATION FairSpec
INVARIANTS
    ReportedOnce
    StoppedStaysDown
PROPERTIES
    KeepsLooking
CHECK_DEADLOCK FALSE
