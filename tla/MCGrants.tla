------------------------------ MODULE MCGrants ------------------------------
(* Values of the constants of Grants for model checking. *)
EXTENDS Grants, TLC

CONSTANTS here, there, t1, a, b, read, any

MCPairs     == {<<"path", "p">>}
MCNotBefore == t1 :> 0
MCNotAfter  == t1 :> 0

(* Reading at 0 only, and everything below one path until 1.               *)
MCAsked ==
    here :> {[caps |-> {read}, until |-> 0, cons |-> {}],
             [caps |-> {any}, until |-> 1, cons |-> MCPairs]} @@
    there :> {[caps |-> {any}, until |-> 1, cons |-> {}]}

MCRequests == [cap : {read}, attrs : SUBSET MCPairs]
Perms == Permutations({a, b})
=============================================================================
