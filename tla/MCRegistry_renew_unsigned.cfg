CONSTANTS
    o1 = o1
    o2 = o2
    p1 = p1
    p2 = p2
    p3 = p3
    k1 = k1
    k2 = k2
    k3 = k3
    Owners = {o1, o2}
    Conns = {p1, p2, p3}
    Owner <- MCOwner
    Keys = {k1, k2, k3}
    KeyOwner <- MCKeyOwner
    NotBefore <- MCNotBefore
    NotAfter <- MCNotAfter
    Signable <- MCSignable
    Ttls = {1}
    Tops = {1}
    Score <- MCScore
    Width = 8
    MaxTime = 1
    Checked = FALSE
SPECIFICATION Spec
INVARIANT ServedRecordsVerify
