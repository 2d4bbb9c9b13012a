CONSTANTS
    p1 = p1
    p2 = p2
    c1 = c1
    c2 = c2
    j1 = j1
    j2 = j2
    v1 = v1
    v2 = v2
    v3 = v3
    NoWallet = NoWallet
    Nobody = Nobody
    Setup = Setup
    Ping = Ping
    Pages = {p1}
    Calls = {c1, c2}
    PageOf <- BothOnOne
    Jobs = {j1, j2}
    Wallets = {v1, v2}
    Requests = {"read", "clear"}
    MaxKills = 1
    MaxFeeds = 2
    MaxInbox = 3
    Events = {"kill", "close", "fail", "slow"}
SPECIFICATION FairSpec
INVARIANTS
    HandledOnce
    OneWalletReports
PROPERTIES
    CallsEnd
CHECK_DEADLOCK FALSE
