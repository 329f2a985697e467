CONSTANTS
    t1 = t1
    t2 = t2
    t3 = t3
    k1 = k1
    k2 = k2
    f1 = f1
    f2 = f2
    p1 = p1
    p2 = p2
    Calls = {t1, t2, t3}
    Streamed = {t3}
    Keys = {k1, k2}
    Key <- MCKey
    Fibers = {f1, f2}
    Hits <- MCHits
    Ports = {p1, p2}
    MaxChannels = 3
    MaxStops = 1
SYMMETRY Perms
SPECIFICATION Spec
INVARIANT NeverCrashesConnection
CHECK_DEADLOCK FALSE
