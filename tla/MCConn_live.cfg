CONSTANTS
    A = A
    B = B
    c1 = c1
    s1 = s1
    Calls = {c1}
    Streams = {s1}
    Origin <- BothWays
    Servers = {A, B}
    Emitters = {}
    Subscribers = {}
    Expiring = {A}
    Oversize = {c1}
    MayReset = TRUE
    Chunks = 5
    MaxEvents = 0
    MaxSubs = 0
    OutCap = 1
    WireCap = 1
    InCap = 1
    ChanCap = 1
SPECIFICATION FairSpec
CHECK_DEADLOCK FALSE
PROPERTY NobodyIsHeldUp
PROPERTY AtMostOnceRpc
