------------------------------ MODULE MCClient ------------------------------
(* Values of the constants of Client for model checking. *)
EXTENDS Client, TLC

CONSTANTS t1, t2, t3, k1, k2, f1, f2, p1, p2

(* Two calls of one capability and a stream of another, for which a search *)
(* may also put the first one's fiber first; each fiber is at either port. *)
MCKey    == t1 :> k1 @@ t2 :> k1 @@ t3 :> k2
Perms    == Permutations({t1, t2}) \cup Permutations({p1, p2})
MCHits   == k1 :> {f1} @@ k2 :> {f1, f2}
=============================================================================
