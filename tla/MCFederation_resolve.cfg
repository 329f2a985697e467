CONSTANTS
    o1 = o1
    o2 = o2
    r1 = r1
    r2 = r2
    r3 = r3
    k1 = k1
    k2 = k2
    k3 = k3
    Owners = {o1, o2}
    Registries = {r1, r2, r3}
    Keys = {k1, k2, k3}
    KeyOwner <- MCKeyOwner
    NotBefore <- MCNotBefore
    NotAfter <- MCNotAfter
    Signable <- MCSignable
    Score <- MCScore
    Ttls = {1}
    Tops = {2}
    MaxPeers = 2
    DefaultTtl = 2
    Width = 16
    MaxTime = 2
SYMMETRY Perms
SPECIFICATION Spec
INVARIANT TypeOK
INVARIANT AnswersAreSound
INVARIANT BoundedStaleness
PROPERTY AnswersAreServed
