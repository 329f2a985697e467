CONSTANTS
    here = here
    there = there
    t1 = t1
    a = a
    b = b
    read = read
    any = any
    Targets = {here, there}
    Here = here
    TargetKeys = {t1}
    Holders = {a, b}
    Caps = {read}
    Star = any
    Pairs <- MCPairs
    NotBefore <- MCNotBefore
    NotAfter <- MCNotAfter
    Asked <- MCAsked
    Requests <- MCRequests
    MaxTime = 1
    MaxSigned = 3
    MaxElsewhere = 1
    MaxLinks = 3
    MaxRevoked = 1
SYMMETRY Perms
SPECIFICATION Spec
INVARIANT TypeOK
INVARIANT HonouredAsGranted
INVARIANT HeldGrantUsable
PROPERTY RevokedRefused
