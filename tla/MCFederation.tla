---------------------------- MODULE MCFederation ----------------------------
(* Values of the constants of Federation for model checking. *)
EXTENDS Federation, TLC

CONSTANTS o1, o2, r1, r2, r3, k1, k2, k3

(* o1 rotates from k1 to k2, and k1 expires before the clock's bound.      *)
MCKeyOwner == [k \in Keys |-> IF k = k3 THEN o2 ELSE o1]
MCNotAfter == [k \in Keys |-> IF k = k1 THEN 0 ELSE 9]
MCNotBefore == [k \in Keys |-> IF k = k3 THEN 1 ELSE 0]
MCScore    == [k \in Keys |-> IF k = k3 THEN 2 ELSE 1]

Rec(o, ver, key, vis, lease) ==
    [id |-> o, ver |-> ver, key |-> key, vis |-> vis, lease |-> lease, signed |-> lease]
Until(t) == [at |-> 0, ttl |-> t, exp |-> t]

(* o1 publishes a short-lived record and then one without a lease, o2 a    *)
(* private one.                                                            *)
MCSignable ==
    {Rec(o1, 1, k1, "Public", Until(1)), Rec(o1, 2, k2, "Public", NoLease),
     Rec(o2, 1, k3, "Private", NoLease)}

(* Registries are interchangeable. *)
Perms == Permutations(Registries)
=============================================================================
