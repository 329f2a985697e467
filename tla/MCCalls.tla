------------------------------ MODULE MCCalls ------------------------------
(* Values of the constants of Calls for model checking. *)
EXTENDS Calls, TLC

CONSTANTS f, g, s1, s2

(* f's capability costs two and g, a stream, reports to a sink of its own. *)
CostOfTwo == f :> 2 @@ g :> 1
OwnSinkOfG == f :> None @@ g :> s2

(* A trace with a sink whose time and budget run out, and an app that      *)
(* meters its calls but traces nothing.                                    *)
Contexts == {[deadline |-> 0, budget |-> 2, sink |-> s1, trace |-> 0],
             [deadline |-> None, budget |-> 2, sink |-> None, trace |-> None]}
=============================================================================
