---------------------------- MODULE MCHandshake ----------------------------
(* Values of the constants of Handshake for model checking. *)
EXTENDS Handshake, TLC

CONSTANTS a, b, ini, res

(* The dialer pins b; the listener, a server, accepts every identity. *)
PinB == [e \in Ends |-> IF e = ini THEN {b} ELSE Ids]

(* A window that starts when the short lifetime of a fresh key is over. *)
Late == {[from |-> 1, until |-> 2]}

(* One full chunk, then a full and a partial one. *)
TwoThenThree == <<2, 3>>
=============================================================================
