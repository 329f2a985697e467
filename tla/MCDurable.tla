----------------------------- MODULE MCDurable ------------------------------
(* Values of the constants of Durable for model checking. *)
EXTENDS Durable, TLC

CONSTANTS w1, w2

(* Two steps made at once and one that uses both.                          *)
MCBatch == 1 :> 1 @@ 2 :> 1 @@ 3 :> 2

(* The weaves are alike.                                                   *)
MCSymmetry == Permutations({w1, w2})
=============================================================================
