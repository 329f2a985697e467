------------------------------- MODULE MCConn -------------------------------
(* Values of the constants of Conn for model checking. *)
EXTENDS Conn, TLC

CONSTANTS c1, s1

(* Every request comes from the end A. *)
FromA == [x \in Ids |-> A]

(* Both ends call each other: c1 comes from A and s1 from B. *)
BothWays == [x \in Ids |-> IF x = c1 THEN A ELSE B]
=============================================================================
