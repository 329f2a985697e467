CONSTANTS
    a = a
    b = b
    ini = ini
    res = res
    Ids = {a, b}
    Ends = {ini, res}
    Dialer = ini
    Expected <- PinB
    Timed = {ini}
    Patience = 1
    Lifetimes = {0, 2}
    Windows <- Late
    Payload = 2
    Plaintexts <- TwoThenThree
    MaxTime = 2
    MaxKeys = 2
    MaxEndorsed = 2
    MaxFaults = 1
SPECIFICATION FairSpec
CHECK_DEADLOCK FALSE
INVARIANT TypeOK
INVARIANT AuthenticatedPeer
INVARIANT MutualBeforeData
INVARIANT FramesIntact
INVARIANT RefusedForAReason
PROPERTY AttemptsSettle
