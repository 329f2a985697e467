----------------------------- MODULE MCRegistry -----------------------------
(* Values of the constants of Registry for model checking. *)
EXTENDS Registry, TLC

CONSTANTS o1, o2, p1, p2, p3, k1, k2, k3

(* o1 has two connections, so that its requests overtake each other.       *)
MCOwner == p1 :> o1 @@ p2 :> o1 @@ p3 :> o2
Perms   == Permutations({p1, p2})

(* o1 rotates from k1 to k2; k1 expires before the clock's bound.          *)
MCKeyOwner == [k \in Keys |-> IF k = k3 THEN o2 ELSE o1]
MCNotAfter == [k \in Keys |-> IF k = k1 THEN 0 ELSE 9]
MCNotBefore == [k \in Keys |-> IF k = k3 THEN 1 ELSE 0]
MCScore    == [k \in Keys |-> IF k = k3 THEN 1 ELSE 2]

Rec(o, ver, key, vis, lease) ==
    [id |-> o, ver |-> ver, key |-> key, vis |-> vis, lease |-> lease, signed |-> lease]
Until(t) == [at |-> 0, ttl |-> t, exp |-> t]

(* o1 publishes a short-lived public record, then an unlisted one without  *)
(* a lease under its new key; the record of o2 is private.                 *)
MCSignable ==
    {Rec(o1, 1, k1, "Public", Until(0)), Rec(o1, 2, k2, "Unlisted", NoLease),
     Rec(o2, 1, k3, "Private", Until(1))}
=============================================================================
