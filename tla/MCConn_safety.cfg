CONSTANTS
    A = A
    B = B
    c1 = c1
    s1 = s1
    Calls = {c1}
    Streams = {s1}
    Origin <- FromA
    Servers = {B}
    Emitters = {B}
    Subscribers = {A}
    Expiring = {}
    Oversize = {c1}
    MayReset = FALSE
    Chunks = 3
    MaxEvents = 2
    MaxSubs = 2
    OutCap = 1
    WireCap = 1
    InCap = 1
    ChanCap = 1
SPECIFICATION Spec
CHECK_DEADLOCK FALSE
INVARIANT TypeOK
INVARIANT PendingIsExact
INVARIANT CutNeverThinned
INVARIANT EventsInOrder
