-------------------------------- MODULE Rpc ---------------------------------
(***************************************************************************)
(* What a channel promises to the callers of Conn::call, without frames or *)
(* tasks: at-most-once execution with three outcomes. Ok means the handler *)
(* was started, Closed means it was not and never will be (the caller may  *)
(* safely retry elsewhere), Timeout says nothing.                          *)
(***************************************************************************)
CONSTANT Calls

VARIABLES
    status,     \* per call: not issued, open, or how it returned
    ran         \* per call: how often its handler was started

Init ==
    /\ status = [c \in Calls |-> "idle"]
    /\ ran = [c \in Calls |-> 0]

Return(c, outcome) ==
    /\ status[c] = "open"
    /\ status' = [status EXCEPT ![c] = outcome]
    /\ UNCHANGED ran

Invoke(c) ==
    /\ status[c] = "idle"
    /\ status' = [status EXCEPT ![c] = "open"]
    /\ UNCHANGED ran

(* The handler may still be started after the caller gave up.              *)
Run(c) ==
    /\ status[c] \in {"open", "timeout"} /\ ran[c] = 0
    /\ ran' = [ran EXCEPT ![c] = 1]
    /\ UNCHANGED status

ReturnOk(c)      == ran[c] = 1 /\ Return(c, "ok")
ReturnTimeout(c) == Return(c, "timeout")
ReturnClosed(c)  == ran[c] = 0 /\ Return(c, "closed")

Next == \E c \in Calls : \/ Invoke(c) \/ Run(c)
                         \/ ReturnOk(c) \/ ReturnTimeout(c) \/ ReturnClosed(c)

Spec == Init /\ [][Next]_<<status, ran>>
=============================================================================
