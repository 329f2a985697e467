------------------------------ MODULE Durable -------------------------------
(***************************************************************************)
(* A durable handler: sdk/py/thicket/checkpoint.py under the handler of    *)
(* app.py, with its checkpoints on a `state` fiber (FiberCheckpointStore   *)
(* over Client.call, fibers/py/state/state.py). All attempts carry one     *)
(* trace id, so they share one checkpoint; each is a handler invocation in *)
(* some weave process. The handler makes its steps in batches: `ctx.call`  *)
(* one by one, or several at once with `gather_all`.                       *)
(*                                                                         *)
(* A step's value is abstracted to the attempt that computed it, 0 where   *)
(* there is none: a checkpoint maps each step to a value.                  *)
(***************************************************************************)
EXTENDS Integers, Sequences, FiniteSets

CONSTANTS
    Last,       \* the attempts are 1..Last, in the order they begin
    Steps,      \* the steps of the handler: its positional keys
    Batch,      \* per step: the number of the batch that makes it
    Weaves,     \* processes that serve the capability
    Patient,    \* the caller retries only once the attempt before has ended
    MaxChannels,\* bound on the channels a weave opens to the state fiber
    MaxCrashes  \* bound on the crashes of weaves

Attempts == 1..Last
Checkpoint == [Steps -> 0..Last]

ASSUME DurableAssumption ==
    /\ Last \in Nat /\ MaxChannels \in Nat /\ MaxCrashes \in Nat
    /\ 0 \notin Steps /\ Batch \in [Steps -> Nat]
    /\ Patient \in BOOLEAN

VARIABLES
    stored,     \* the checkpoint the state fiber holds
    wire,       \* per channel: requests the state fiber has not served
    channel,    \* per weave: the channel its store's client caches, 0 if none
    opened,     \* per weave: how many channels it has opened
    replies,    \* replies of the state fiber
    home,       \* per attempt: the weave it runs in
    phase,      \* per attempt: where its handler is
    steps,      \* per attempt: Checkpoint._steps
    task,       \* per attempt and step: where Checkpoint.step is
    saw,        \* per attempt and step it executed: the values it had then
    ran,        \* per attempt: the steps it executed
    crashes,    \* how many weaves have crashed
    calm        \* no attempt has begun while another one had work left, and
                \* no other run has taken a channel with requests of this one

netVars == <<wire, channel, opened, replies>>
runVars == <<home, phase, steps, task, saw, ran>>
vars == <<stored, netVars, runVars, crashes, calm>>

Nothing == [s \in Steps |-> 0]
Channels == Weaves \X (1..MaxChannels)
StoreRequest == [op : {"get", "set"}, at : Attempts, step : Steps \cup {0}, blob : Checkpoint]
StoreReply   == [at : Attempts, step : Steps \cup {0}, blob : Checkpoint]

TypeOK ==
    /\ stored \in Checkpoint
    /\ wire \in [Channels -> Seq(StoreRequest)]
    /\ channel \in [Weaves -> 0..MaxChannels]
    /\ opened \in [Weaves -> 0..MaxChannels]
    /\ replies \subseteq StoreReply
    /\ home \in [Attempts -> Weaves]
    /\ phase \in [Attempts -> {"idle", "opening", "running", "answered", "failed"}]
    /\ steps \in [Attempts -> Checkpoint]
    /\ task \in [Attempts -> [Steps -> {"none", "exec", "saving", "done", "failed", "late"}]]
    /\ saw \in [Attempts -> [Steps -> Checkpoint]]
    /\ ran \in [Attempts -> SUBSET Steps]
    /\ crashes \in 0..MaxCrashes
    /\ calm \in BOOLEAN

Init ==
    /\ stored = Nothing
    /\ wire = [c \in Channels |-> <<>>]
    /\ channel = [w \in Weaves |-> 0]
    /\ opened = [w \in Weaves |-> 0]
    /\ replies = {}
    /\ home \in [Attempts -> Weaves]
    /\ phase = [a \in Attempts |-> "idle"]
    /\ steps = [a \in Attempts |-> Nothing]
    /\ task = [a \in Attempts |-> [s \in Steps |-> "none"]]
    /\ saw = [a \in Attempts |-> [s \in Steps |-> Nothing]]
    /\ ran = [a \in Attempts |-> {}]
    /\ crashes = 0
    /\ calm = TRUE

-----------------------------------------------------------------------------
(* The store's client, which all runs of the weave share: one cached       *)
(* channel, replaced after a failed call (Client._evict); the old one      *)
(* stays open and its requests are served.                                 *)

Send(w, q) ==
    LET c == IF channel[w] = 0 THEN opened[w] + 1 ELSE channel[w]
    IN /\ c <= MaxChannels
       /\ channel' = [channel EXCEPT ![w] = c]
       /\ opened' = [opened EXCEPT ![w] = IF c > @ THEN c ELSE @]
       /\ wire' = [wire EXCEPT ![<<w, c>>] = Append(@, q)]

(* Mutant: the client goes back to the channel before.                     *)
EvictLast(w) == channel' = [channel EXCEPT ![w] = @ - 1]

Evict(w) == channel' = [channel EXCEPT ![w] = 0]

ReplyTo(a, s) == {r \in replies : r.at = a /\ r.step = s}

(* Mutant: a save is merged into what is stored.                           *)
ServeMerges(c) ==
    /\ wire[c] # <<>>
    /\ wire' = [wire EXCEPT ![c] = Tail(@)]
    /\ LET q == Head(wire[c])
       IN /\ stored' = [s \in Steps |-> IF q.blob[s] # 0 THEN q.blob[s] ELSE stored[s]]
          /\ replies' = replies \cup {[at |-> q.at, step |-> q.step, blob |-> stored']}
    /\ UNCHANGED <<channel, opened, runVars, crashes, calm>>

(* state.get and state.set: one request of a channel after the other.      *)
Serve(c) ==
    /\ wire[c] # <<>>
    /\ wire' = [wire EXCEPT ![c] = Tail(@)]
    /\ LET q == Head(wire[c])
       IN /\ stored' = IF q.op = "set" THEN q.blob ELSE stored
          /\ replies' = replies \cup {[at |-> q.at, step |-> q.step, blob |-> stored']}
    /\ UNCHANGED <<channel, opened, runVars, crashes, calm>>

(* A channel that breaks loses what the state fiber has not read.          *)
Lose(c) ==
    /\ wire[c] # <<>>
    /\ wire' = [wire EXCEPT ![c] = <<>>]
    /\ UNCHANGED <<stored, channel, opened, replies, runVars, crashes, calm>>

-----------------------------------------------------------------------------
(* An attempt *)

SetPhase(a, p) == phase' = [phase EXCEPT ![a] = p]
SetTask(a, s, t) == task' = [task EXCEPT ![a][s] = t]

Busy(a) == phase[a] \in {"opening", "running"} \/ \E s \in Steps : task[a][s] \in {"exec", "saving"}
Quiet == (\A a \in Attempts : ~Busy(a)) /\ (\A c \in Channels : wire[c] = <<>>)

(* A request with the run's trace id arrives: the checkpoint is opened.    *)
Begin(a) ==
    /\ phase[a] = "idle"
    /\ \A b \in 1..(a - 1) : phase[b] \in IF Patient THEN {"answered", "failed"}
                                          ELSE {"opening", "running", "answered", "failed"}
    /\ SetPhase(a, "opening")
    /\ Send(home[a], [op |-> "get", at |-> a, step |-> 0, blob |-> Nothing])
    /\ calm' = (calm /\ Quiet)
    /\ UNCHANGED <<stored, replies, home, steps, task, saw, ran, crashes>>

Opened(a) ==
    /\ phase[a] = "opening"
    /\ \E r \in ReplyTo(a, 0) : /\ steps' = [steps EXCEPT ![a] = r.blob]
                                /\ replies' = replies \ {r}
    /\ SetPhase(a, "running")
    /\ UNCHANGED <<stored, wire, channel, opened, home, task, saw, ran, crashes, calm>>

(* Mutant: an attempt that cannot load starts afresh.                      *)
OpenFailsEmpty(a) ==
    /\ phase[a] = "opening"
    /\ SetPhase(a, "running")
    /\ Evict(home[a])
    /\ UNCHANGED <<stored, wire, opened, replies, home, steps, task, saw, ran, crashes, calm>>

(* The load times out or its channel breaks: the caller's channel closes.  *)
OpenFails(a) ==
    /\ phase[a] = "opening"
    /\ SetPhase(a, "failed")
    /\ Evict(home[a])
    /\ UNCHANGED <<stored, wire, opened, replies, home, steps, task, saw, ran, crashes, calm>>

(* The steps of the next batch take their keys in order; a recorded one is *)
(* replayed at once, the others are executed with the values of the        *)
(* batches before.                                                         *)
Ready(a) == {s \in Steps : /\ task[a][s] = "none"
                           /\ \A t \in Steps : Batch[t] < Batch[s] => task[a][t] = "done"}
Before(b, s) == [t \in Steps |-> IF Batch[t] < Batch[s] THEN b[t] ELSE 0]

StartBatch(a) ==
    /\ phase[a] = "running" /\ Ready(a) # {}
    /\ LET fresh == {s \in Ready(a) : steps[a][s] = 0}
       IN /\ task' = [task EXCEPT ![a] = [s \in Steps |->
                        IF s \in fresh THEN "exec" ELSE IF s \in Ready(a) THEN "done" ELSE @[s]]]
          /\ saw' = [saw EXCEPT ![a] = [s \in Steps |->
                        IF s \in fresh THEN Before(steps[a], s) ELSE @[s]]]
          /\ ran' = [ran EXCEPT ![a] = @ \cup fresh]
    /\ UNCHANGED <<stored, netVars, home, phase, steps, crashes, calm>>

(* fn returns: the value is recorded and the whole checkpoint is saved.    *)
FnDone(a, s) ==
    /\ task[a][s] = "exec"
    /\ steps' = [steps EXCEPT ![a][s] = a]
    /\ Send(home[a], [op |-> "set", at |-> a, step |-> s, blob |-> steps'[a]])
    /\ SetTask(a, s, "saving")
    /\ UNCHANGED <<stored, replies, home, phase, saw, ran, crashes, calm>>

(* A step that fails ends a running handler with an error; the other steps *)
(* of its batch are not cancelled and run on after it.                     *)
StepFails(a, s) ==
    /\ SetTask(a, s, "failed")
    /\ SetPhase(a, IF phase[a] = "running" THEN "failed" ELSE phase[a])

FnFails(a, s) ==
    /\ task[a][s] = "exec"
    /\ StepFails(a, s)
    /\ UNCHANGED <<stored, netVars, home, steps, saw, ran, crashes, calm>>

SaveFails(a, s) ==
    /\ task[a][s] = "saving"
    /\ StepFails(a, s)
    /\ Evict(home[a])
    /\ UNCHANGED <<stored, wire, opened, replies, home, steps, saw, ran, crashes, calm>>

(* Mutant: the step does not wait for its save.                            *)
SaveOkEarly(a, s) ==
    /\ task[a][s] = "saving"
    /\ SetTask(a, s, IF phase[a] = "running" THEN "done" ELSE "late")
    /\ UNCHANGED <<stored, netVars, home, phase, steps, saw, ran, crashes, calm>>

(* The step returns, to its handler if that still runs.                    *)
SaveOk(a, s) ==
    /\ task[a][s] = "saving" /\ ReplyTo(a, s) # {}
    /\ replies' = replies \ ReplyTo(a, s)
    /\ SetTask(a, s, IF phase[a] = "running" THEN "done" ELSE "late")
    /\ UNCHANGED <<stored, wire, channel, opened, home, phase, steps, saw, ran, crashes, calm>>

Answer(a) ==
    /\ phase[a] = "running" /\ \A s \in Steps : task[a][s] = "done"
    /\ SetPhase(a, "answered")
    /\ UNCHANGED <<stored, netVars, home, steps, task, saw, ran, crashes, calm>>

(* A weave dies with its attempts and the steps that outlived them; what   *)
(* it has sent may still be served.                                        *)
Crash(w) ==
    /\ crashes < MaxCrashes /\ \E a \in Attempts : home[a] = w /\ Busy(a)
    /\ crashes' = crashes + 1
    /\ phase' = [a \in Attempts |->
                    IF home[a] = w /\ phase[a] \in {"opening", "running"} THEN "failed" ELSE phase[a]]
    /\ task' = [a \in Attempts |-> [s \in Steps |->
                    IF home[a] = w /\ task[a][s] \in {"exec", "saving"} THEN "failed" ELSE task[a][s]]]
    /\ Evict(w)
    /\ UNCHANGED <<stored, wire, opened, replies, home, steps, saw, ran, calm>>

(* A call of another run in the same weave fails: whatever channel the     *)
(* client has cached goes, and this run's next request overtakes the ones  *)
(* still in it.                                                            *)
OtherEvicts(w) ==
    /\ channel[w] # 0
    /\ Evict(w)
    /\ calm' = (calm /\ wire[<<w, channel[w]>>] = <<>>)
    /\ UNCHANGED <<stored, wire, opened, replies, runVars, crashes>>

Next ==
    \/ \E a \in Attempts :
          \/ Begin(a) \/ Opened(a) \/ OpenFails(a) \/ StartBatch(a) \/ Answer(a)
          \/ \E s \in Steps : FnDone(a, s) \/ FnFails(a, s) \/ SaveFails(a, s) \/ SaveOk(a, s)
    \/ \E c \in Channels : Serve(c) \/ Lose(c)
    \/ \E w \in Weaves : Crash(w) \/ OtherEvicts(w)

Spec == Init /\ [][Next]_vars

-----------------------------------------------------------------------------
(* Properties *)

(* A checkpoint is one history: each value was computed by an attempt that *)
(* had exactly the earlier values the checkpoint holds, none missing.      *)
OneHistory(b) ==
    \A s \in Steps : b[s] # 0 =>
        /\ s \in ran[b[s]] /\ saw[b[s]][s] = Before(b, s)
        /\ \A t \in Steps : Batch[t] < Batch[s] => b[t] # 0

(* However attempts overlap and saves are delayed or lost, what is stored, *)
(* and what a handler works with and answers from, never mixes the         *)
(* histories of two attempts: a save replaces the whole checkpoint.        *)
HistoriesDontMix == OneHistory(stored) /\ \A a \in Attempts : OneHistory(steps[a])

Completed(a) == {s \in Steps : task[a][s] = "done"}

(* app.py:321-324: "a retry with the same trace resumes without re-running *)
(* completed steps". A step that returned to its running handler is not    *)
(* executed by a later attempt.                                            *)
CompletedStepsReplay ==
    \A a, b \in Attempts : a < b => Completed(a) \cap ran[b] = {}

(* That holds across failures and crashes as long as each retry waits for  *)
(* all that earlier attempts left running or in flight, and no other run's *)
(* failure replaces the channel that requests of this run are waiting in.  *)
CalmRetriesReplay == calm => CompletedStepsReplay

(* Such retries of a run that answered give the same answer.               *)
AnswersAgree ==
    calm => \A a, b \in Attempts :
               phase[a] = "answered" /\ phase[b] = "answered" => steps[a] = steps[b]
=============================================================================
