--------------------------- MODULE DurableProofs ----------------------------
(***************************************************************************)
(* Proofs about Durable, for any number of attempts, weaves, channels and  *)
(* crashes, and any steps in any batches.                                  *)
(***************************************************************************)
EXTENDS Durable, TLAPS

(* The empty checkpoint, and one with one more value, are checkpoints.     *)
LEMMA Checkpoints ==
  /\ Nothing \in Checkpoint
  /\ \A b \in Checkpoint, s \in Steps, a \in Attempts : [b EXCEPT ![s] = a] \in Checkpoint
  /\ \A b \in Checkpoint, s \in Steps : Before(b, s) \in Checkpoint
BY DurableAssumption DEF Nothing, Checkpoint, Attempts, Before

(* Sending keeps the channels of the store's client well formed.           *)
LEMMA SendType ==
  ASSUME TypeOK, NEW w \in Weaves, NEW q \in StoreRequest, Send(w, q)
  PROVE  /\ wire' \in [Channels -> Seq(StoreRequest)]
         /\ channel' \in [Weaves -> 0..MaxChannels]
         /\ opened' \in [Weaves -> 0..MaxChannels]
<1>. DEFINE c == IF channel[w] = 0 THEN opened[w] + 1 ELSE channel[w]
<1>1. c \in 1..MaxChannels
  BY DurableAssumption DEF TypeOK, Send
<1>2. wire' = [wire EXCEPT ![<<w, c>>] = Append(@, q)]
  BY DEF Send
<1>3. <<w, c>> \in Channels
  BY <1>1 DEF Channels
<1>4. Append(wire[<<w, c>>], q) \in Seq(StoreRequest)
  BY <1>3 DEF TypeOK
<1>5. wire' \in [Channels -> Seq(StoreRequest)]
  BY <1>2, <1>3, <1>4 DEF TypeOK
<1>6. channel' = [channel EXCEPT ![w] = c] /\ opened' = [opened EXCEPT ![w] = IF c > @ THEN c ELSE @]
  BY DEF Send
<1>7. channel' \in [Weaves -> 0..MaxChannels] /\ opened' \in [Weaves -> 0..MaxChannels]
  BY <1>1, <1>6, DurableAssumption DEF TypeOK
<1>. QED  BY <1>5, <1>7

(* What waits in a channel after sending was there before, or was sent.    *)
LEMMA SendQueue ==
  ASSUME TypeOK, NEW w \in Weaves, NEW q \in StoreRequest, Send(w, q),
         NEW c \in Channels, NEW i \in 1..Len(wire'[c])
  PROVE  wire'[c][i] = q \/ (i \in 1..Len(wire[c]) /\ wire'[c][i] = wire[c][i])
<1>. DEFINE d == IF channel[w] = 0 THEN opened[w] + 1 ELSE channel[w]
<1>1. wire' = [wire EXCEPT ![<<w, d>>] = Append(@, q)]
  BY DEF Send
<1>2. wire[c] \in Seq(StoreRequest)
  BY DEF TypeOK
<1>3. wire'[c] = wire[c] \/ wire'[c] = Append(wire[c], q)
  BY <1>1 DEF TypeOK
<1>. QED  BY <1>2, <1>3

-----------------------------------------------------------------------------
(* Type correctness *)

LEMMA InitType == Init => TypeOK
BY Checkpoints, DurableAssumption DEF Init, TypeOK

(* The state fiber and its channels.                                       *)
LEMMA StoreType ==
  ASSUME TypeOK, NEW c \in Channels, Serve(c) \/ Lose(c)
  PROVE  TypeOK'
<1>1. CASE Lose(c)
  <2>1. wire' \in [Channels -> Seq(StoreRequest)]
    BY <1>1 DEF TypeOK, Lose
  <2>. QED  BY <1>1, <2>1 DEF TypeOK, Lose, runVars
<1>2. CASE Serve(c)
  <2>. DEFINE q == Head(wire[c])
  <2>1. wire[c] \in Seq(StoreRequest) /\ wire[c] # <<>>
    BY <1>2 DEF TypeOK, Serve
  <2>2. q \in StoreRequest /\ Tail(wire[c]) \in Seq(StoreRequest)
    BY <2>1
  <2>3. q.blob \in Checkpoint /\ q.at \in Attempts /\ q.step \in Steps \cup {0}
    BY <2>2 DEF StoreRequest
  <2>4. stored' = (IF q.op = "set" THEN q.blob ELSE stored)
        /\ replies' = replies \cup {[at |-> q.at, step |-> q.step, blob |-> stored']}
    BY <1>2 DEF Serve
  <2>5. stored' \in Checkpoint
    BY <2>3, <2>4 DEF TypeOK
  <2>6. replies' \subseteq StoreReply
    BY <2>3, <2>4, <2>5 DEF TypeOK, StoreReply
  <2>7. wire' \in [Channels -> Seq(StoreRequest)]
    BY <1>2, <2>2 DEF TypeOK, Serve
  <2>. QED  BY <1>2, <2>5, <2>6, <2>7 DEF TypeOK, Serve, runVars
<1>. QED  BY <1>1, <1>2

(* The handler: opening its checkpoint, starting a batch, answering.       *)
LEMMA HandlerType ==
  ASSUME TypeOK, NEW a \in Attempts,
         Begin(a) \/ Opened(a) \/ OpenFails(a) \/ StartBatch(a) \/ Answer(a)
  PROVE  TypeOK'
<1>0. home[a] \in Weaves
  BY DEF TypeOK
<1>1. CASE Begin(a)
  <2>. DEFINE q == [op |-> "get", at |-> a, step |-> 0, blob |-> Nothing]
  <2>1. q \in StoreRequest
    BY Checkpoints DEF StoreRequest
  <2>2. Send(home[a], q)
    BY <1>1 DEF Begin
  <2>3. phase' \in [Attempts -> {"idle", "opening", "running", "answered", "failed"}]
    BY <1>1 DEF TypeOK, Begin, SetPhase
  <2>4. calm' \in BOOLEAN
    BY <1>1 DEF Begin
  <2>. HIDE DEF q
  <2>. QED  BY <1>0, <1>1, <2>1, <2>2, <2>3, <2>4, SendType DEF TypeOK, Begin
<1>2. CASE Opened(a)
  <2>1. PICK r \in ReplyTo(a, 0) : steps' = [steps EXCEPT ![a] = r.blob] /\ replies' = replies \ {r}
    BY <1>2 DEF Opened
  <2>2. r.blob \in Checkpoint
    BY <2>1 DEF TypeOK, ReplyTo, StoreReply
  <2>. QED  BY <1>2, <2>1, <2>2 DEF TypeOK, Opened, SetPhase
<1>3. CASE OpenFails(a)
  BY <1>0, <1>3, DurableAssumption DEF TypeOK, OpenFails, SetPhase, Evict
<1>4. CASE StartBatch(a)
  <2>. DEFINE fresh == {s \in Ready(a) : steps[a][s] = 0}
  <2>1. fresh \subseteq Steps
    BY DEF Ready
  <2>2. /\ task' = [task EXCEPT ![a] = [s \in Steps |->
                IF s \in fresh THEN "exec" ELSE IF s \in Ready(a) THEN "done" ELSE @[s]]]
        /\ saw' = [saw EXCEPT ![a] = [s \in Steps |->
                IF s \in fresh THEN Before(steps[a], s) ELSE @[s]]]
        /\ ran' = [ran EXCEPT ![a] = @ \cup fresh]
    BY <1>4 DEF StartBatch
  <2>. HIDE DEF fresh
  <2>3. steps[a] \in Checkpoint
    BY DEF TypeOK
  <2>4. saw' \in [Attempts -> [Steps -> Checkpoint]]
    BY <2>2, <2>3, Checkpoints DEF TypeOK
  <2>5. task' \in [Attempts -> [Steps -> {"none", "exec", "saving", "done", "failed", "late"}]]
    BY <2>2 DEF TypeOK
  <2>6. ran' \in [Attempts -> SUBSET Steps]
    BY <2>1, <2>2 DEF TypeOK
  <2>. QED  BY <1>4, <2>4, <2>5, <2>6 DEF TypeOK, StartBatch, netVars
<1>5. CASE Answer(a)
  BY <1>5 DEF TypeOK, Answer, SetPhase, netVars
<1>. QED  BY <1>1, <1>2, <1>3, <1>4, <1>5

(* One step of the handler.                                                *)
LEMMA StepType ==
  ASSUME TypeOK, NEW a \in Attempts, NEW s \in Steps,
         FnDone(a, s) \/ FnFails(a, s) \/ SaveFails(a, s) \/ SaveOk(a, s)
  PROVE  TypeOK'
<1>0. home[a] \in Weaves /\ steps[a] \in Checkpoint
  BY DEF TypeOK
<1>1. CASE FnDone(a, s)
  <2>. DEFINE q == [op |-> "set", at |-> a, step |-> s, blob |-> steps'[a]]
  <2>1. steps' = [steps EXCEPT ![a] = [steps[a] EXCEPT ![s] = a]]
    BY <1>1 DEF FnDone
  <2>2. steps' \in [Attempts -> Checkpoint] /\ steps'[a] \in Checkpoint
    BY <1>0, <2>1, Checkpoints DEF TypeOK
  <2>3. q \in StoreRequest
    BY <2>2 DEF StoreRequest
  <2>4. Send(home[a], q)
    BY <1>1 DEF FnDone
  <2>5. task' \in [Attempts -> [Steps -> {"none", "exec", "saving", "done", "failed", "late"}]]
    BY <1>1 DEF TypeOK, FnDone, SetTask
  <2>. HIDE DEF q
  <2>. QED  BY <1>0, <1>1, <2>2, <2>3, <2>4, <2>5, SendType DEF TypeOK, FnDone
<1>2. CASE FnFails(a, s)
  BY <1>2 DEF TypeOK, FnFails, StepFails, SetTask, SetPhase, netVars
<1>3. CASE SaveFails(a, s)
  BY <1>0, <1>3, DurableAssumption DEF TypeOK, SaveFails, StepFails, SetTask, SetPhase, Evict
<1>4. CASE SaveOk(a, s)
  BY <1>4 DEF TypeOK, SaveOk, SetTask
<1>. QED  BY <1>1, <1>2, <1>3, <1>4

LEMMA CrashType == ASSUME TypeOK, NEW w \in Weaves, Crash(w) PROVE TypeOK'
<1>1. crashes' \in 0..MaxCrashes
  BY DurableAssumption DEF TypeOK, Crash
<1>2. channel' \in [Weaves -> 0..MaxChannels]
  BY DurableAssumption DEF TypeOK, Crash, Evict
<1>3. phase' \in [Attempts -> {"idle", "opening", "running", "answered", "failed"}]
  BY DEF TypeOK, Crash
<1>4. task' \in [Attempts -> [Steps -> {"none", "exec", "saving", "done", "failed", "late"}]]
  BY DEF TypeOK, Crash
<1>. QED  BY <1>1, <1>2, <1>3, <1>4 DEF TypeOK, Crash

LEMMA OtherEvictsType == ASSUME TypeOK, NEW w \in Weaves, OtherEvicts(w) PROVE TypeOK'
<1>1. channel' \in [Weaves -> 0..MaxChannels] /\ calm' \in BOOLEAN
  BY DurableAssumption DEF TypeOK, OtherEvicts, Evict
<1>. QED  BY <1>1 DEF TypeOK, OtherEvicts, runVars

LEMMA NextType == TypeOK /\ [Next]_vars => TypeOK'
<1>. SUFFICES ASSUME TypeOK, [Next]_vars PROVE TypeOK'
  OBVIOUS
<1>1. CASE UNCHANGED vars
  BY <1>1 DEF TypeOK, vars, netVars, runVars
<1>2. CASE Next
  BY <1>2, StoreType, HandlerType, StepType, CrashType, OtherEvictsType DEF Next
<1>. QED  BY <1>1, <1>2

(* Checkpoints, requests, replies and the channels of the store's client   *)
(* stay well formed, whatever the shape of the handler.                    *)
THEOREM DurableTypeCorrect == Spec => []TypeOK
<1>. QED  BY InitType, NextType, PTL DEF Spec

-----------------------------------------------------------------------------
(* Histories *)

(* OneHistory over given executions, so that it can be carried to the next *)
(* state with the checkpoint left alone.                                   *)
HistoryIn(b, r, w) ==
    \A s \in Steps : b[s] # 0 =>
        /\ s \in r[b[s]] /\ w[b[s]][s] = Before(b, s)
        /\ \A t \in Steps : Batch[t] < Batch[s] => b[t] # 0

(* What is in transit to and from the state fiber is one history as well.  *)
TransitInv ==
    /\ \A c \in Channels : \A i \in 1..Len(wire[c]) : OneHistory(wire[c][i].blob)
    /\ \A r \in replies : OneHistory(r.blob)

(* A step is executed at most once by its attempt, with the values that    *)
(* its checkpoint still has when the execution ends.                       *)
TaskInv ==
    \A a \in Attempts, s \in Steps :
        /\ task[a][s] = "none" => s \notin ran[a]
        /\ phase[a] \in {"idle", "opening"} => task[a][s] = "none"
        /\ task[a][s] \in {"saving", "done"} => steps[a][s] # 0
        /\ task[a][s] = "exec" =>
              /\ s \in ran[a] /\ steps[a][s] = 0 /\ saw[a][s] = Before(steps[a], s)
              /\ \A t \in Steps : Batch[t] < Batch[s] => steps[a][t] # 0

DurableInv == TypeOK /\ HistoriesDontMix /\ TransitInv /\ TaskInv

LEMMA InitDurableInv == Init => DurableInv
<1>. SUFFICES ASSUME Init PROVE DurableInv
  OBVIOUS
<1>1. OneHistory(Nothing)
  BY DEF OneHistory, Nothing
<1>2. HistoriesDontMix
  BY <1>1 DEF Init, HistoriesDontMix
<1>3. TransitInv
  BY DEF Init, TransitInv
<1>4. TaskInv
  BY DEF Init, TaskInv
<1>. QED  BY <1>2, <1>3, <1>4, InitType DEF DurableInv

(* Steps that execute nothing new leave every history as it was.           *)
LEMMA SameExecutions ==
  ASSUME UNCHANGED <<saw, ran>>, NEW b, OneHistory(b)
  PROVE  HistoryIn(b, ran', saw')
BY DEF OneHistory, HistoryIn

(* The state fiber replaces its checkpoint by one that was sent.           *)
LEMMA StoreInv ==
  ASSUME DurableInv, NEW c \in Channels, Serve(c) \/ Lose(c)
  PROVE  DurableInv'
<1>. USE DEF DurableInv
<1>1. TypeOK'
  BY StoreType
<1>2. UNCHANGED <<saw, ran, steps, task, phase>>
  BY DEF Serve, Lose, runVars
<1>3. TaskInv'
  BY <1>2 DEF TaskInv, Before
<1>4. \A a \in Attempts : HistoryIn(steps[a], ran', saw')
  BY <1>2, SameExecutions DEF HistoriesDontMix
<1>5. wire[c] \in Seq(StoreRequest) /\ wire[c] # <<>>
  BY DEF TypeOK, Serve, Lose
<1>6. \A d \in Channels : \A i \in 1..Len(wire'[d]) :
        \E j \in 1..Len(wire[d]) : wire'[d][i] = wire[d][j]
  <2>. SUFFICES ASSUME NEW d \in Channels, NEW i \in 1..Len(wire'[d])
                PROVE  \E j \in 1..Len(wire[d]) : wire'[d][i] = wire[d][j]
    OBVIOUS
  <2>1. CASE d # c
    BY <2>1 DEF TypeOK, Serve, Lose
  <2>2. CASE d = c /\ Serve(c)
    <3>1. wire'[c] = Tail(wire[c])
      BY <2>2 DEF TypeOK, Serve
    <3>2. i + 1 \in 1..Len(wire[c]) /\ wire'[c][i] = wire[c][i + 1]
      BY <1>5, <2>2, <3>1
    <3>. QED  BY <2>2, <3>2
  <2>3. CASE d = c /\ Lose(c)
    BY <2>3 DEF TypeOK, Lose
  <2>. QED  BY <2>1, <2>2, <2>3
<1>7. \A d \in Channels : \A i \in 1..Len(wire'[d]) : HistoryIn(wire'[d][i].blob, ran', saw')
  BY <1>2, <1>6, SameExecutions DEF TransitInv
<1>8. OneHistory(Head(wire[c]).blob)
  BY <1>5 DEF TransitInv
<1>9. HistoryIn(stored', ran', saw')
  BY <1>2, <1>8, SameExecutions DEF Serve, Lose, HistoriesDontMix
<1>10. \A r \in replies' : HistoryIn(r.blob, ran', saw')
  BY <1>2, <1>9, SameExecutions DEF Serve, Lose, TransitInv
<1>11. HistoriesDontMix' /\ TransitInv'
  BY <1>2, <1>4, <1>7, <1>9, <1>10 DEF HistoriesDontMix, TransitInv, OneHistory, HistoryIn
<1>. QED  BY <1>1, <1>3, <1>11

(* Steps that move only the handlers, or open a checkpoint from a reply.   *)
LEMMA QuietInv ==
  ASSUME DurableInv, TypeOK', UNCHANGED <<stored, saw, ran>>,
         \A d \in Channels : \A i \in 1..Len(wire'[d]) : OneHistory(wire'[d][i].blob),
         \A r \in replies' : r \in replies,
         \A a \in Attempts : OneHistory(steps'[a])
  PROVE  HistoriesDontMix' /\ TransitInv'
<1>1. HistoryIn(stored', ran', saw') /\ \A a \in Attempts : HistoryIn(steps'[a], ran', saw')
  BY SameExecutions DEF DurableInv, HistoriesDontMix
<1>2. \A d \in Channels : \A i \in 1..Len(wire'[d]) : HistoryIn(wire'[d][i].blob, ran', saw')
  BY SameExecutions
<1>3. \A r \in replies' : HistoryIn(r.blob, ran', saw')
  BY SameExecutions DEF DurableInv, TransitInv
<1>. QED  BY <1>1, <1>2, <1>3 DEF HistoriesDontMix, TransitInv, OneHistory, HistoryIn

LEMMA BeginInv == ASSUME DurableInv, NEW a \in Attempts, Begin(a) PROVE DurableInv'
<1>. USE DEF DurableInv
<1>. DEFINE q == [op |-> "get", at |-> a, step |-> 0, blob |-> Nothing]
<1>1. TypeOK'
  BY HandlerType
<1>2. q \in StoreRequest /\ OneHistory(q.blob)
  BY Checkpoints DEF StoreRequest, OneHistory, Nothing
<1>3. Send(home[a], q) /\ home[a] \in Weaves
  BY DEF Begin, TypeOK
<1>. HIDE DEF q
<1>4. \A d \in Channels : \A i \in 1..Len(wire'[d]) : OneHistory(wire'[d][i].blob)
  BY <1>2, <1>3, SendQueue DEF TransitInv
<1>5. UNCHANGED <<stored, replies, saw, ran, steps, task>>
  BY DEF Begin
<1>6. HistoriesDontMix' /\ TransitInv'
  BY <1>1, <1>4, <1>5, QuietInv DEF HistoriesDontMix
<1>7. TaskInv'
  BY <1>5 DEF TaskInv, Begin, SetPhase, TypeOK, Before
<1>. QED  BY <1>1, <1>6, <1>7

LEMMA OpenedInv == ASSUME DurableInv, NEW a \in Attempts, Opened(a) PROVE DurableInv'
<1>. USE DEF DurableInv
<1>1. TypeOK'
  BY HandlerType
<1>2. PICK r \in replies : steps' = [steps EXCEPT ![a] = r.blob] /\ replies' = replies \ {r}
  BY DEF Opened, ReplyTo
<1>3. UNCHANGED <<stored, wire, saw, ran, task>>
  BY DEF Opened
<1>4. \A b \in Attempts : OneHistory(steps'[b])
  BY <1>2 DEF HistoriesDontMix, TransitInv, TypeOK
<1>5. HistoriesDontMix' /\ TransitInv'
  BY <1>1, <1>2, <1>3, <1>4, QuietInv DEF TransitInv
<1>6. \A s \in Steps : task[a][s] = "none"
  BY DEF Opened, TaskInv
<1>7. \A b \in Attempts : b # a => steps'[b] = steps[b] /\ phase'[b] = phase[b]
  BY <1>2 DEF Opened, SetPhase, TypeOK
<1>8. ASSUME NEW b \in Attempts, NEW s \in Steps
      PROVE  /\ task'[b][s] = "none" => s \notin ran'[b]
             /\ phase'[b] \in {"idle", "opening"} => task'[b][s] = "none"
             /\ task'[b][s] \in {"saving", "done"} => steps'[b][s] # 0
             /\ task'[b][s] = "exec" =>
                   /\ s \in ran'[b] /\ steps'[b][s] = 0
                   /\ saw'[b][s] = Before(steps'[b], s)
                   /\ \A t \in Steps : Batch[t] < Batch[s] => steps'[b][t] # 0
  <2>1. CASE b = a
    BY <1>3, <1>6, <2>1 DEF TaskInv
  <2>2. CASE b # a
    BY <1>3, <1>7, <2>2 DEF TaskInv
  <2>. QED  BY <2>1, <2>2
<1>9. TaskInv'
  BY <1>8 DEF TaskInv, Before
<1>. QED  BY <1>1, <1>5, <1>9

(* Steps that end a handler or a step of it without a value.               *)
LEMMA EndInv ==
  ASSUME DurableInv, TypeOK', UNCHANGED <<stored, wire, steps, saw, ran>>,
         replies' \subseteq replies,
         \A b \in Attempts : phase'[b] = phase[b] \/ phase'[b] \notin {"idle", "opening"},
         \A b \in Attempts, t \in Steps : task'[b][t] = task[b][t]
              \/ (task[b][t] \in {"exec", "saving"} /\ task'[b][t] \in {"failed", "late"})
              \/ (task[b][t] = "saving" /\ task'[b][t] = "done")
  PROVE  DurableInv'
<1>. USE DEF DurableInv
<1>1. HistoriesDontMix' /\ TransitInv'
  BY QuietInv DEF HistoriesDontMix, TransitInv
<1>2. TaskInv'
  BY DEF TaskInv, Before
<1>. QED  BY <1>1, <1>2

LEMMA EndsInv ==
  ASSUME DurableInv, NEW a \in Attempts, OpenFails(a) \/ Answer(a)
  PROVE  DurableInv'
<1>1. TypeOK'
  BY HandlerType DEF DurableInv
<1>2. UNCHANGED <<stored, wire, steps, saw, ran, replies, task>>
  BY DEF OpenFails, Answer, netVars
<1>3. \A b \in Attempts : phase'[b] = phase[b] \/ phase'[b] \notin {"idle", "opening"}
  BY DEF OpenFails, Answer, SetPhase, DurableInv, TypeOK
<1>. QED  BY <1>1, <1>2, <1>3, EndInv

LEMMA StepEndsInv ==
  ASSUME DurableInv, NEW a \in Attempts, NEW s \in Steps,
         FnFails(a, s) \/ SaveFails(a, s) \/ SaveOk(a, s)
  PROVE  DurableInv'
<1>1. TypeOK'
  BY StepType DEF DurableInv
<1>2. UNCHANGED <<stored, wire, steps, saw, ran>> /\ replies' \subseteq replies
  BY DEF FnFails, SaveFails, SaveOk, netVars
<1>3. \A b \in Attempts : phase'[b] = phase[b] \/ phase'[b] \notin {"idle", "opening"}
  BY DEF FnFails, SaveFails, SaveOk, StepFails, SetPhase, DurableInv, TypeOK
<1>4. \A b \in Attempts, t \in Steps : task'[b][t] = task[b][t]
          \/ (task[b][t] \in {"exec", "saving"} /\ task'[b][t] \in {"failed", "late"})
          \/ (task[b][t] = "saving" /\ task'[b][t] = "done")
  <2>1. PICK new \in {"failed", "late", "done"} :
          /\ task' = [task EXCEPT ![a][s] = new]
          /\ task[a][s] \in {"exec", "saving"} /\ (new = "done" => task[a][s] = "saving")
    BY DEF FnFails, SaveFails, SaveOk, StepFails, SetTask
  <2>2. task \in [Attempts -> [Steps -> {"none", "exec", "saving", "done", "failed", "late"}]]
    BY DEF DurableInv, TypeOK
  <2>. QED  BY <2>1, <2>2
<1>. QED  BY <1>1, <1>2, <1>3, <1>4, EndInv

LEMMA CrashInv == ASSUME DurableInv, NEW w \in Weaves, Crash(w) PROVE DurableInv'
<1>1. TypeOK'
  BY CrashType DEF DurableInv
<1>2. UNCHANGED <<stored, wire, steps, saw, ran, replies>>
  BY DEF Crash
<1>3. \A b \in Attempts : phase'[b] = phase[b] \/ phase'[b] \notin {"idle", "opening"}
  BY DEF Crash
<1>4. \A b \in Attempts, t \in Steps : task'[b][t] = task[b][t]
          \/ (task[b][t] \in {"exec", "saving"} /\ task'[b][t] = "failed")
  BY DEF Crash
<1>. QED  BY <1>1, <1>2, <1>3, <1>4, EndInv

LEMMA OtherEvictsInv == ASSUME DurableInv, NEW w \in Weaves, OtherEvicts(w) PROVE DurableInv'
<1>1. TypeOK'
  BY OtherEvictsType DEF DurableInv
<1>2. UNCHANGED <<stored, wire, steps, saw, ran, replies, phase, task>>
  BY DEF OtherEvicts, runVars
<1>. QED  BY <1>1, <1>2, EndInv

(* A batch executes only steps that its attempt never executed: no value   *)
(* of an existing checkpoint was computed by them.                         *)
LEMMA StartBatchInv == ASSUME DurableInv, NEW a \in Attempts, StartBatch(a) PROVE DurableInv'
<1>. USE DEF DurableInv
<1>. DEFINE fresh == {s \in Ready(a) : steps[a][s] = 0}
<1>1. TypeOK'
  BY HandlerType
<1>2. UNCHANGED <<stored, wire, replies, steps, phase>> /\ phase[a] = "running"
  BY DEF StartBatch, netVars
<1>3. /\ task' = [task EXCEPT ![a] = [s \in Steps |->
              IF s \in fresh THEN "exec" ELSE IF s \in Ready(a) THEN "done" ELSE @[s]]]
      /\ saw' = [saw EXCEPT ![a] = [s \in Steps |->
              IF s \in fresh THEN Before(steps[a], s) ELSE @[s]]]
      /\ ran' = [ran EXCEPT ![a] = @ \cup fresh]
  BY DEF StartBatch
<1>4. \A s \in fresh : s \in Ready(a) /\ steps[a][s] = 0 /\ s \notin ran[a]
  BY DEF Ready, TaskInv
<1>5. ASSUME NEW b \in Checkpoint, OneHistory(b) PROVE HistoryIn(b, ran', saw')
  <2>. SUFFICES ASSUME NEW s \in Steps, b[s] # 0
                PROVE  s \in ran'[b[s]] /\ saw'[b[s]][s] = saw[b[s]][s]
    BY <1>5 DEF OneHistory, HistoryIn
  <2>1. b[s] \in Attempts /\ s \in ran[b[s]]
    BY <1>5 DEF OneHistory, Checkpoint, Attempts
  <2>2. ~(b[s] = a /\ s \in fresh)
    BY <2>1, <1>4
  <2>. HIDE DEF fresh
  <2>. QED  BY <1>3, <2>1, <2>2 DEF TypeOK
<1>6. stored \in Checkpoint /\ \A b \in Attempts : steps[b] \in Checkpoint
  BY DEF TypeOK
<1>7. \A d \in Channels : \A i \in 1..Len(wire[d]) : wire[d][i].blob \in Checkpoint
  <2>. SUFFICES ASSUME NEW d \in Channels, NEW i \in 1..Len(wire[d])
                PROVE  wire[d][i].blob \in Checkpoint
    OBVIOUS
  <2>1. wire[d][i] \in StoreRequest
    BY DEF TypeOK
  <2>. QED  BY <2>1 DEF StoreRequest
<1>8. \A r \in replies : r.blob \in Checkpoint
  BY DEF TypeOK, StoreReply
<1>9. HistoriesDontMix'
  BY <1>2, <1>5, <1>6 DEF HistoriesDontMix, OneHistory, HistoryIn
<1>10. TransitInv'
  BY <1>2, <1>5, <1>7, <1>8 DEF TransitInv, OneHistory, HistoryIn
<1>11. TaskInv'
  <2>. SUFFICES ASSUME NEW b \in Attempts, NEW s \in Steps
                PROVE  /\ task'[b][s] = "none" => s \notin ran'[b]
                       /\ phase'[b] \in {"idle", "opening"} => task'[b][s] = "none"
                       /\ task'[b][s] \in {"saving", "done"} => steps'[b][s] # 0
                       /\ task'[b][s] = "exec" =>
                             /\ s \in ran'[b] /\ steps'[b][s] = 0
                             /\ saw'[b][s] = Before(steps'[b], s)
                             /\ \A t \in Steps : Batch[t] < Batch[s] => steps'[b][t] # 0
    BY DEF TaskInv, Before
  <2>1. CASE b # a \/ s \notin Ready(a)
    <3>1. s \notin fresh \/ b # a
      BY <2>1
    <3>2. task'[b][s] = task[b][s] /\ saw'[b][s] = saw[b][s] /\ (s \in ran'[b] <=> s \in ran[b])
      <4>. HIDE DEF fresh
      <4>. QED  BY <1>3, <2>1, <3>1 DEF TypeOK
    <3>. QED  BY <1>2, <3>2 DEF TaskInv
  <2>2. CASE b = a /\ s \in Ready(a)
    <3>1. \A t \in Steps : Batch[t] < Batch[s] => steps[a][t] # 0
      BY <2>2 DEF Ready, TaskInv
    <3>2. CASE s \in fresh
      <4>1. task'[a][s] = "exec" /\ saw'[a][s] = Before(steps[a], s) /\ s \in ran'[a]
        <5>. HIDE DEF fresh
        <5>. QED  BY <1>3, <3>2 DEF TypeOK
      <4>. QED  BY <1>2, <2>2, <3>1, <3>2, <4>1
    <3>3. CASE s \notin fresh
      <4>1. task'[a][s] = "done" /\ steps[a][s] # 0
        BY <1>3, <2>2, <3>3 DEF TypeOK
      <4>. QED  BY <1>2, <2>2, <4>1
    <3>. QED  BY <3>2, <3>3
  <2>. QED  BY <2>1, <2>2
<1>. QED  BY <1>1, <1>9, <1>10, <1>11

(* What a step computed joins the history that it was computed from.       *)
LEMMA FnDoneInv ==
  ASSUME DurableInv, NEW a \in Attempts, NEW s \in Steps, FnDone(a, s)
  PROVE  DurableInv'
<1>. USE DEF DurableInv
<1>. DEFINE b == [steps[a] EXCEPT ![s] = a]
<1>1. TypeOK'
  BY StepType
<1>2. UNCHANGED <<stored, replies, saw, ran, phase>>
  BY DEF FnDone
<1>3. steps' = [steps EXCEPT ![a] = b] /\ steps'[a] = b
  BY DEF FnDone, TypeOK
<1>4. steps[a] \in Checkpoint /\ b \in Checkpoint /\ a # 0
  <2>1. steps[a] \in Checkpoint
    BY DEF TypeOK
  <2>2. a # 0
    BY DEF Attempts
  <2>. QED  BY <2>1, <2>2, Checkpoints
<1>5. /\ s \in ran[a] /\ steps[a][s] = 0 /\ saw[a][s] = Before(steps[a], s)
      /\ \A t \in Steps : Batch[t] < Batch[s] => steps[a][t] # 0
  BY DEF FnDone, TaskInv
<1>6. b[s] = a /\ \A t \in Steps : t # s => b[t] = steps[a][t]
  BY <1>4 DEF Checkpoint
<1>7. \A u \in Steps : ~(Batch[s] < Batch[u]) => Before(b, u) = Before(steps[a], u)
  BY <1>6 DEF Before
<1>8. OneHistory(b)
  <2>. SUFFICES ASSUME NEW u \in Steps, b[u] # 0
                PROVE  /\ u \in ran[b[u]] /\ saw[b[u]][u] = Before(b, u)
                       /\ \A t \in Steps : Batch[t] < Batch[u] => b[t] # 0
    BY DEF OneHistory
  <2>. HIDE DEF b
  <2>1. CASE u = s
    <3>1. ~(Batch[s] < Batch[s])
      BY DurableAssumption
    <3>. QED  BY <1>5, <1>6, <1>7, <2>1, <3>1
  <2>2. CASE u # s
    <3>1. /\ u \in ran[b[u]] /\ saw[b[u]][u] = Before(steps[a], u)
          /\ \A t \in Steps : Batch[t] < Batch[u] => steps[a][t] # 0
      BY <1>6, <2>2 DEF HistoriesDontMix, OneHistory
    <3>2. ~(Batch[s] < Batch[u])
      BY <1>5, <3>1
    <3>. QED  BY <1>4, <1>6, <1>7, <3>1, <3>2
  <2>. QED  BY <2>1, <2>2
<1>. DEFINE q == [op |-> "set", at |-> a, step |-> s, blob |-> steps'[a]]
<1>9. q \in StoreRequest /\ q.blob = b
  BY <1>3, <1>4 DEF StoreRequest
<1>10. Send(home[a], q) /\ home[a] \in Weaves
  BY DEF FnDone, TypeOK
<1>. HIDE DEF b, q
<1>11. \A d \in Channels : \A i \in 1..Len(wire'[d]) : OneHistory(wire'[d][i].blob)
  BY <1>8, <1>9, <1>10, SendQueue DEF TransitInv
<1>12. \A c \in Attempts : OneHistory(steps'[c])
  BY <1>3, <1>8 DEF HistoriesDontMix, TypeOK
<1>13. HistoriesDontMix' /\ TransitInv'
  BY <1>1, <1>2, <1>11, <1>12, QuietInv
<1>14. /\ task'[a][s] = "saving"
       /\ \A c \in Attempts, u \in Steps : (c # a \/ u # s) => task'[c][u] = task[c][u]
  BY DEF FnDone, SetTask, TypeOK
<1>15. TaskInv'
  <2>. SUFFICES ASSUME NEW c \in Attempts, NEW u \in Steps
                PROVE  /\ task'[c][u] = "none" => u \notin ran'[c]
                       /\ phase'[c] \in {"idle", "opening"} => task'[c][u] = "none"
                       /\ task'[c][u] \in {"saving", "done"} => steps'[c][u] # 0
                       /\ task'[c][u] = "exec" =>
                             /\ u \in ran'[c] /\ steps'[c][u] = 0
                             /\ saw'[c][u] = Before(steps'[c], u)
                             /\ \A t \in Steps : Batch[t] < Batch[u] => steps'[c][t] # 0
    BY DEF TaskInv, Before
  <2>1. CASE c # a
    <3>1. steps'[c] = steps[c] /\ task'[c][u] = task[c][u]
      BY <1>3, <1>14, <2>1 DEF TypeOK
    <3>. QED  BY <1>2, <3>1 DEF TaskInv
  <2>2. CASE c = a /\ u = s
    <3>1. phase[a] \notin {"idle", "opening"}
      BY DEF FnDone, TaskInv
    <3>. QED  BY <1>2, <1>3, <1>4, <1>6, <1>14, <2>2, <3>1
  <2>3. CASE c = a /\ u # s
    <3>1. task'[a][u] = task[a][u] /\ b[u] = steps[a][u]
      BY <1>6, <1>14, <2>3
    <3>2. CASE task[a][u] = "exec"
      <4>1. /\ u \in ran[a] /\ steps[a][u] = 0 /\ saw[a][u] = Before(steps[a], u)
            /\ \A t \in Steps : Batch[t] < Batch[u] => steps[a][t] # 0
        BY <3>2 DEF TaskInv
      <4>2. ~(Batch[s] < Batch[u])
        BY <1>5, <4>1
      <4>3. \A t \in Steps : Batch[t] < Batch[u] => b[t] # 0
        BY <1>4, <1>6, <4>1
      <4>4. phase[a] \notin {"idle", "opening"}
        BY <3>2 DEF TaskInv
      <4>. QED  BY <1>2, <1>3, <1>7, <2>3, <3>1, <3>2, <4>1, <4>2, <4>3, <4>4
    <3>3. CASE task[a][u] # "exec"
      BY <1>2, <1>3, <2>3, <3>1, <3>3 DEF TaskInv
    <3>. QED  BY <3>2, <3>3
  <2>. QED  BY <2>1, <2>2, <2>3
<1>. QED  BY <1>1, <1>13, <1>15

LEMMA NextDurableInv == DurableInv /\ [Next]_vars => DurableInv'
<1>. SUFFICES ASSUME DurableInv, [Next]_vars PROVE DurableInv'
  OBVIOUS
<1>1. CASE UNCHANGED vars
  <2>1. TypeOK'
    BY <1>1, NextType DEF DurableInv
  <2>. QED  BY <1>1, <2>1, EndInv DEF vars, netVars, runVars
<1>2. CASE Next
  BY <1>2, StoreInv, BeginInv, OpenedInv, EndsInv, StartBatchInv, FnDoneInv, StepEndsInv, CrashInv,
     OtherEvictsInv DEF Next
<1>. QED  BY <1>1, <1>2

(* However attempts overlap, and whatever saves are delayed or lost, no    *)
(* checkpoint mixes the histories of two attempts.                         *)
THEOREM OneHistoryEach == Spec => []HistoriesDontMix
<1>1. DurableInv => HistoriesDontMix
  BY DEF DurableInv
<1>. QED  BY <1>1, InitDurableInv, NextDurableInv, PTL DEF Spec
-----------------------------------------------------------------------------
(* Retries that wait for what earlier attempts left behind                 *)

(* The attempts begin in their order; one that answered has all its steps. *)
Begun == \A a, b \in Attempts : a < b /\ phase[b] # "idle" => phase[a] # "idle"
Complete == \A a \in Attempts : phase[a] = "answered" => \A s \in Steps : task[a][s] = "done"

(* A request asks for the checkpoint or saves the value of a step, of an   *)
(* attempt that has begun; and so it is with a reply.                      *)
Queued == UNION {{wire[c][i] : i \in 1..Len(wire[c])} : c \in Channels}
Requests == \A q \in Queued :
              /\ phase[q.at] # "idle"
              /\ IF q.op = "get" THEN q.step = 0 ELSE q.step \in Steps /\ q.blob[q.step] # 0
Replies == \A r \in replies : phase[r.at] # "idle"

(* Nothing takes a value of b back when it is replaced by d.               *)
Within(b, d) == \A s \in Steps : b[s] # 0 => d[s] = b[s]

(* The value v of s is stored, and no save on its way takes it back.       *)
Kept(s, v) ==
    /\ v # 0 /\ stored[s] = v
    /\ \A q \in Queued : q.op = "set" => q.blob[s] = v

(* Only the last attempt has work left or something in transit.            *)
LastBusy == \A a, b \in Attempts : a < b /\ phase[b] # "idle" =>
              ~Busy(a) /\ \A q \in Queued : q.at # a

(* As long as its handler runs, what it has sent lies in one channel.      *)
OneChannel == \A a \in Attempts : phase[a] \in {"opening", "running"} =>
                \A c \in Channels : wire[c] # <<>> => c = <<home[a], channel[home[a]]>>

(* The saves of a channel grow: its last one leaves the most.              *)
SavesGrow == \A c \in Channels : \A i, j \in 1..Len(wire[c]) :
               i < j /\ wire[c][i].op = "set" /\ wire[c][j].op = "set" =>
                 Within(wire[c][i].blob, wire[c][j].blob)

(* Until a checkpoint is opened it does not change.                        *)
Loads == \A a \in Attempts : phase[a] = "opening" =>
           /\ \A q \in Queued : q.op = "get"
           /\ \A r \in replies : r.at = a => r.step = 0 /\ r.blob = stored

(* Whoever may still save has every value that is stored or on its way.    *)
Working(a) == phase[a] = "running" \/ \E s \in Steps : task[a][s] \in {"exec", "saving"}
Outgrown == \A a \in Attempts : Working(a) =>
              /\ Within(stored, steps[a])
              /\ \A q \in Queued : q.op = "set" => Within(q.blob, steps[a])

(* What a running handler loaded is kept, and so is what it knows saved.   *)
Loaded == \A a \in Attempts, s \in Steps :
            phase[a] = "running" /\ steps[a][s] # 0 /\ s \notin ran[a] => Kept(s, steps[a][s])
Saved == \A a \in Attempts : \A r \in replies :
           phase[a] = "running" /\ r.at = a /\ r.step # 0 => Kept(r.step, steps[a][r.step])

(* A completed step is kept, by whatever attempts come after.              *)
DoneKept == \A a \in Attempts, s \in Steps : task[a][s] = "done" => Kept(s, steps[a][s])

OrderInv == Begun /\ Complete /\ Requests /\ Replies
RetryInv == LastBusy /\ OneChannel /\ SavesGrow /\ Loads /\ Outgrown /\ Loaded /\ Saved /\ DoneKept
CalmInv == DurableInv /\ OrderInv /\ (calm => RetryInv /\ CompletedStepsReplay)
(* What is queued is a request, and a channel is a queue of them.          *)
LEMMA QueuedType ==
  ASSUME TypeOK
  PROVE  /\ Queued \subseteq StoreRequest
         /\ \A c \in Channels : wire[c] \in Seq(StoreRequest)
         /\ \A c \in Channels : \A i \in 1..Len(wire[c]) : wire[c][i] \in Queued
<1>1. \A c \in Channels : wire[c] \in Seq(StoreRequest)
  BY DEF TypeOK
<1>. QED  BY <1>1 DEF Queued

LEMMA QueuedSend ==
  ASSUME TypeOK, TypeOK', NEW w \in Weaves, NEW q \in StoreRequest, Send(w, q)
  PROVE  Queued' \subseteq Queued \cup {q}
<1>1. \A c \in Channels : \A i \in 1..Len(wire'[c]) :
        wire'[c][i] = q \/ (i \in 1..Len(wire[c]) /\ wire'[c][i] = wire[c][i])
  BY SendQueue
<1>. QED  BY <1>1 DEF Queued

(* The state fiber takes the first request of a channel.                   *)
LEMMA QueuedServe ==
  ASSUME TypeOK, NEW c \in Channels, Serve(c)
  PROVE  /\ Head(wire[c]) \in Queued /\ Queued' \subseteq Queued
         /\ wire[c] # <<>> /\ Head(wire[c]) = wire[c][1] /\ 1 \in 1..Len(wire[c])
         /\ \A d \in Channels : d # c => wire'[d] = wire[d]
         /\ Len(wire'[c]) = Len(wire[c]) - 1
         /\ \A i \in 1..Len(wire'[c]) : /\ i + 1 \in 1..Len(wire[c])
                                        /\ wire'[c][i] = wire[c][i + 1]
<1>1. wire[c] \in Seq(StoreRequest) /\ wire[c] # <<>> /\ wire'[c] = Tail(wire[c])
  BY DEF TypeOK, Serve
<1>2. \A d \in Channels : d # c => wire'[d] = wire[d]
  BY DEF TypeOK, Serve
<1>3. /\ Head(wire[c]) = wire[c][1] /\ 1 \in 1..Len(wire[c])
      /\ Len(wire'[c]) = Len(wire[c]) - 1
      /\ \A i \in 1..Len(wire'[c]) : i + 1 \in 1..Len(wire[c]) /\ wire'[c][i] = wire[c][i + 1]
  BY <1>1
<1>4. \A d \in Channels : \A i \in 1..Len(wire'[d]) : \E j \in 1..Len(wire[d]) : wire'[d][i] = wire[d][j]
  BY <1>2, <1>3
<1>. QED  BY <1>1, <1>2, <1>3, <1>4 DEF Queued

LEMMA QueuedLose ==
  ASSUME TypeOK, NEW c \in Channels, Lose(c)
  PROVE  /\ Queued' \subseteq Queued
         /\ \A d \in Channels : wire'[d] = wire[d] \/ wire'[d] = <<>>
<1>1. \A d \in Channels : wire'[d] = wire[d] \/ wire'[d] = <<>>
  BY DEF TypeOK, Lose
<1>2. \A d \in Channels : \A i \in 1..Len(wire'[d]) : i \in 1..Len(wire[d]) /\ wire'[d][i] = wire[d][i]
  BY <1>1
<1>. QED  BY <1>1, <1>2 DEF Queued

LEMMA Attempted == ASSUME TypeOK, NEW q \in Queued PROVE q.at \in Attempts /\ q.op \in {"get", "set"}
BY QueuedType DEF StoreRequest

-----------------------------------------------------------------------------
(* The order in which attempts begin, and what is sent for them            *)

LEMMA InitOrderInv == Init => OrderInv
BY DEF Init, OrderInv, Begun, Complete, Requests, Replies, Queued

LEMMA StoreOrderInv ==
  ASSUME DurableInv, OrderInv, NEW c \in Channels, Serve(c) \/ Lose(c)
  PROVE  OrderInv'
<1>. USE DEF DurableInv, OrderInv
<1>1. UNCHANGED <<phase, task>>
  BY DEF Serve, Lose, runVars
<1>2. Queued' \subseteq Queued
  BY QueuedServe, QueuedLose
<1>3. Replies'
  <2>1. CASE Lose(c)
    BY <1>1, <2>1 DEF Replies, Lose
  <2>2. CASE Serve(c)
    <3>1. replies' = replies \cup {[at |-> Head(wire[c]).at, step |-> Head(wire[c]).step, blob |-> stored']}
      BY <2>2 DEF Serve
    <3>2. phase[Head(wire[c]).at] # "idle"
      BY <2>2, QueuedServe DEF Requests
    <3>. QED  BY <1>1, <3>1, <3>2 DEF Replies
  <2>. QED  BY <2>1, <2>2
<1>4. Requests'
  BY <1>1, <1>2 DEF Requests
<1>. QED  BY <1>1, <1>3, <1>4 DEF Begun, Complete

LEMMA BeginOrderInv ==
  ASSUME DurableInv, OrderInv, NEW a \in Attempts, Begin(a)
  PROVE  OrderInv'
<1>. USE DEF DurableInv, OrderInv
<1>. DEFINE q == [op |-> "get", at |-> a, step |-> 0, blob |-> Nothing]
<1>1. q \in StoreRequest /\ q.op = "get" /\ q.at = a /\ q.step = 0
  BY Checkpoints DEF StoreRequest
<1>2. Send(home[a], q) /\ home[a] \in Weaves /\ UNCHANGED <<replies, task>>
  BY DEF Begin, TypeOK
<1>3. TypeOK'
  BY HandlerType
<1>. HIDE DEF q
<1>4. Queued' \subseteq Queued \cup {q}
  BY <1>1, <1>2, <1>3, QueuedSend
<1>5. phase' = [phase EXCEPT ![a] = "opening"] /\ \A b \in 1..(a - 1) : phase[b] # "idle"
  BY DEF Begin, SetPhase
<1>6. \A b \in Attempts : phase'[b] = "opening" \/ phase'[b] = phase[b]
  BY <1>5 DEF TypeOK
<1>7. \A b \in Attempts : b # a => phase'[b] = phase[b]
  BY <1>5 DEF TypeOK
<1>8. phase'[a] = "opening"
  BY <1>5 DEF TypeOK
<1>9. Begun'
  <2>. SUFFICES ASSUME NEW x \in Attempts, NEW y \in Attempts, x < y, phase'[y] # "idle"
                PROVE  phase'[x] # "idle"
    BY DEF Begun
  <2>1. CASE y = a
    BY <1>5, <1>7, <2>1, DurableAssumption DEF Attempts
  <2>2. CASE y # a
    BY <1>6, <1>7, <2>2 DEF Begun
  <2>. QED  BY <2>1, <2>2
<1>10. Complete'
  BY <1>2, <1>6 DEF Complete
<1>11. Requests'
  BY <1>1, <1>4, <1>6, <1>8, QueuedType DEF Requests, StoreRequest
<1>12. Replies'
  BY <1>2, <1>6 DEF Replies, TypeOK, StoreReply
<1>. QED  BY <1>9, <1>10, <1>11, <1>12

(* A handler that goes on or ends, and sends nothing.                      *)
LEMMA GoesOnOrderInv ==
  ASSUME DurableInv, OrderInv, NEW a \in Attempts,
         \/ Opened(a) \/ OpenFails(a) \/ StartBatch(a) \/ Answer(a)
         \/ \E s \in Steps : FnFails(a, s) \/ SaveFails(a, s) \/ SaveOk(a, s)
  PROVE  OrderInv'
<1>. USE DEF DurableInv, OrderInv
<1>1. wire' = wire /\ replies' \subseteq replies
  BY DEF Opened, OpenFails, StartBatch, Answer, FnFails, SaveFails, SaveOk, netVars
<1>2. PICK p : phase' = [phase EXCEPT ![a] = p] /\ p # "idle" /\ (p = phase[a] \/ p # "answered" \/ Answer(a))
  <2>1. CASE StartBatch(a) \/ \E s \in Steps : SaveOk(a, s)
    <3>1. phase' = phase /\ phase = [phase EXCEPT ![a] = phase[a]]
      BY <2>1 DEF StartBatch, SaveOk, TypeOK
    <3>2. phase[a] # "idle"
      BY <2>1 DEF StartBatch, SaveOk, TaskInv
    <3>. QED  BY <3>1, <3>2
  <2>2. ASSUME NEW s \in Steps, FnFails(a, s) \/ SaveFails(a, s)
        PROVE  \E p : phase' = [phase EXCEPT ![a] = p] /\ p # "idle" /\ (p = phase[a] \/ p # "answered")
    <3>1. phase' = [phase EXCEPT ![a] = IF phase[a] = "running" THEN "failed" ELSE phase[a]]
      BY <2>2 DEF FnFails, SaveFails, StepFails, SetPhase
    <3>2. phase[a] # "idle"
      BY <2>2 DEF FnFails, SaveFails, TaskInv
    <3>3. \E p : /\ p = IF phase[a] = "running" THEN "failed" ELSE phase[a]
                 /\ p # "idle" /\ (p = phase[a] \/ p # "answered")
      BY <3>2
    <3>. QED  BY <3>1, <3>3
  <2>3. CASE Opened(a) \/ OpenFails(a)
    BY <2>3 DEF Opened, OpenFails, SetPhase
  <2>4. CASE Answer(a)
    BY <2>4 DEF Answer, SetPhase
  <2>. QED  BY <2>1, <2>2, <2>3, <2>4
<1>3. \A b \in Attempts : /\ phase[b] # "idle" => phase'[b] # "idle"
                          /\ b # a => phase'[b] = phase[b]
  BY <1>2 DEF TypeOK
<1>4. phase[a] # "idle"
  BY DEF Opened, OpenFails, StartBatch, Answer, FnFails, SaveFails, SaveOk, TaskInv
<1>5. Begun'
  BY <1>3, <1>4 DEF Begun
<1>6. \A b \in Attempts, s \in Steps : task[b][s] = "done" => task'[b][s] = "done"
  <2>. task \in [Attempts -> [Steps -> {"none", "exec", "saving", "done", "failed", "late"}]]
    BY DEF TypeOK
  <2>1. CASE Opened(a) \/ OpenFails(a) \/ Answer(a)
    BY <2>1 DEF Opened, OpenFails, Answer
  <2>2. CASE StartBatch(a)
    <3>. DEFINE fresh == {s \in Ready(a) : steps[a][s] = 0}
    <3>1. task' = [task EXCEPT ![a] = [s \in Steps |->
              IF s \in fresh THEN "exec" ELSE IF s \in Ready(a) THEN "done" ELSE @[s]]]
      BY <2>2 DEF StartBatch
    <3>2. \A s \in fresh : task[a][s] = "none"
      BY DEF Ready
    <3>. HIDE DEF fresh
    <3>. QED  BY <3>1, <3>2
  <2>3. ASSUME NEW t \in Steps, FnFails(a, t) \/ SaveFails(a, t) \/ SaveOk(a, t)
        PROVE  \A b \in Attempts, s \in Steps : task[b][s] = "done" => task'[b][s] = "done"
    BY <2>3 DEF FnFails, SaveFails, SaveOk, StepFails, SetTask
  <2>. QED  BY <2>1, <2>2, <2>3
<1>7. Complete'
  <2>1. phase'[a] = "answered" => \A s \in Steps : task[a][s] = "done"
    BY <1>2 DEF Answer, Complete, TypeOK
  <2>. QED  BY <1>3, <1>6, <2>1 DEF Complete
<1>8. Queued' = Queued
  BY <1>1 DEF Queued
<1>9. Requests'
  BY <1>3, <1>8, Attempted DEF Requests
<1>10. Replies'
  BY <1>1, <1>3 DEF Replies, TypeOK, StoreReply
<1>. QED  BY <1>5, <1>7, <1>9, <1>10

LEMMA FnDoneOrderInv ==
  ASSUME DurableInv, OrderInv, NEW a \in Attempts, NEW s \in Steps, FnDone(a, s)
  PROVE  OrderInv'
<1>. USE DEF DurableInv, OrderInv
<1>. DEFINE q == [op |-> "set", at |-> a, step |-> s, blob |-> steps'[a]]
<1>1. TypeOK' /\ UNCHANGED <<phase, replies>>
  BY StepType DEF FnDone
<1>2. q \in StoreRequest /\ q.op = "set" /\ q.at = a /\ q.step = s /\ q.blob[s] = a
  BY <1>1 DEF StoreRequest, FnDone, TypeOK, Checkpoint
<1>3. Send(home[a], q) /\ home[a] \in Weaves
  BY DEF FnDone, TypeOK
<1>. HIDE DEF q
<1>4. Queued' \subseteq Queued \cup {q}
  BY <1>1, <1>2, <1>3, QueuedSend
<1>5. phase[a] # "idle" /\ a # 0
  BY DEF FnDone, TaskInv, Attempts
<1>6. \A b \in Attempts, t \in Steps : task[b][t] = "done" => task'[b][t] = "done"
  BY DEF FnDone, SetTask, TypeOK
<1>7. Requests'
  BY <1>1, <1>2, <1>4, <1>5 DEF Requests
<1>. QED  BY <1>1, <1>6, <1>7 DEF Begun, Complete, Replies

LEMMA CrashOrderInv ==
  ASSUME DurableInv, OrderInv, NEW w \in Weaves, Crash(w)
  PROVE  OrderInv'
<1>1. wire' = wire /\ replies' = replies
  BY DEF Crash
<1>2. \A b \in Attempts : /\ phase[b] # "idle" <=> phase'[b] # "idle"
                          /\ phase'[b] = "answered" => phase[b] = "answered"
  BY DEF Crash
<1>3. \A b \in Attempts, s \in Steps : task[b][s] = "done" => task'[b][s] = "done"
  BY DEF Crash
<1>4. Begun' /\ Complete'
  BY <1>2, <1>3 DEF OrderInv, Begun, Complete
<1>5. Queued' = Queued
  BY <1>1 DEF Queued
<1>6. Requests'
  BY <1>2, <1>5, Attempted DEF OrderInv, Requests, DurableInv
<1>7. Replies'
  BY <1>1, <1>2 DEF OrderInv, Replies, DurableInv, TypeOK, StoreReply
<1>. QED  BY <1>4, <1>6, <1>7 DEF OrderInv

LEMMA OtherEvictsOrderInv ==
  ASSUME OrderInv, NEW w \in Weaves, OtherEvicts(w)
  PROVE  OrderInv'
BY DEF OtherEvicts, runVars, OrderInv, Begun, Complete, Requests, Replies, Queued

LEMMA NextOrderInv == DurableInv /\ OrderInv /\ [Next]_vars => OrderInv'
<1>. SUFFICES ASSUME DurableInv, OrderInv, [Next]_vars PROVE OrderInv'
  OBVIOUS
<1>1. CASE UNCHANGED vars
  BY <1>1 DEF vars, netVars, runVars, OrderInv, Begun, Complete, Requests, Replies, Queued
<1>2. CASE Next
  BY <1>2, StoreOrderInv, BeginOrderInv, GoesOnOrderInv, FnDoneOrderInv, CrashOrderInv,
     OtherEvictsOrderInv DEF Next
<1>. QED  BY <1>1, <1>2

-----------------------------------------------------------------------------
(* One attempt at a time                                                   *)

(* While the attempts are calm only one has work left, and all that is     *)
(* queued is of that attempt.                                              *)
LEMMA OnlyBusy ==
  ASSUME DurableInv, OrderInv, LastBusy, NEW a \in Attempts, Busy(a)
  PROVE  /\ phase[a] # "idle"
         /\ \A b \in Attempts : Busy(b) => b = a
         /\ \A q \in Queued : q.at = a
<1>1. \A b \in Attempts : Busy(b) => phase[b] # "idle"
  BY DEF Busy, DurableInv, TaskInv
<1>2. \A b \in Attempts : b # a => a < b \/ b < a
  BY DurableAssumption DEF Attempts
<1>3. \A q \in Queued : q.at \in Attempts /\ phase[q.at] # "idle"
  BY Attempted DEF DurableInv, OrderInv, Requests
<1>. QED  BY <1>1, <1>2, <1>3 DEF LastBusy

(* A value stays kept while nothing is sent.                               *)
LEMMA KeptOn ==
  ASSUME stored' = stored, Queued' \subseteq Queued, NEW s, NEW v, Kept(s, v)
  PROVE  Kept(s, v)'
BY DEF Kept

LEMMA InitRetryInv == Init => RetryInv /\ CompletedStepsReplay
<1>. SUFFICES ASSUME Init PROVE RetryInv /\ CompletedStepsReplay
  OBVIOUS
<1>1. Queued = {}
  BY DEF Init, Queued
<1>2. \A a \in Attempts : ~Busy(a) /\ ~Working(a) /\ phase[a] = "idle"
  BY DEF Init, Busy, Working
<1>3. \A a \in Attempts, s \in Steps : task[a][s] = "none"
  BY DEF Init
<1>4. \A c \in Channels : wire[c] = <<>>
  BY DEF Init
<1>. QED
  BY <1>1, <1>2, <1>3, <1>4
     DEF RetryInv, CompletedStepsReplay, Completed, LastBusy, OneChannel, SavesGrow, Loads,
         Outgrown, Loaded, Saved, DoneKept

(* The state fiber serves a save: whoever is busy has sent it, and it      *)
(* leaves everything that was kept.                                        *)
LEMMA ServeRetryInv ==
  ASSUME DurableInv, OrderInv, RetryInv, NEW c \in Channels, Serve(c)
  PROVE  RetryInv'
<1>. USE DEF DurableInv, OrderInv, RetryInv
<1>. DEFINE q == Head(wire[c])
<1>1. UNCHANGED <<channel, home, phase, steps, task, ran>>
  BY DEF Serve, runVars
<1>2. /\ stored' = (IF q.op = "set" THEN q.blob ELSE stored)
      /\ replies' = replies \cup {[at |-> q.at, step |-> q.step, blob |-> stored']}
  BY DEF Serve
<1>3. /\ q \in Queued /\ Queued' \subseteq Queued
      /\ wire[c] # <<>> /\ q = wire[c][1] /\ 1 \in 1..Len(wire[c])
      /\ \A d \in Channels : d # c => wire'[d] = wire[d]
      /\ \A i \in 1..Len(wire'[c]) : i + 1 \in 1..Len(wire[c]) /\ wire'[c][i] = wire[c][i + 1]
  BY QueuedServe
<1>. HIDE DEF q
<1>4. \A s \in Steps : \A v : Kept(s, v) => Kept(s, v)'
  BY <1>2, <1>3 DEF Kept
<1>5. LastBusy'
  BY <1>1, <1>3 DEF LastBusy, Busy
<1>6. OneChannel'
  BY <1>1, <1>3 DEF OneChannel
<1>7. SavesGrow'
  <2>. SUFFICES ASSUME NEW d \in Channels, NEW i \in 1..Len(wire'[d]), NEW j \in 1..Len(wire'[d]),
                       i < j, wire'[d][i].op = "set", wire'[d][j].op = "set"
                PROVE  Within(wire'[d][i].blob, wire'[d][j].blob)
    BY DEF SavesGrow, Within
  <2>1. CASE d # c
    BY <1>3, <2>1 DEF SavesGrow
  <2>2. CASE d = c
    <3>1. /\ i + 1 \in 1..Len(wire[c]) /\ j + 1 \in 1..Len(wire[c]) /\ i + 1 < j + 1
          /\ wire'[c][i] = wire[c][i + 1] /\ wire'[c][j] = wire[c][j + 1]
      BY <1>3, <2>2
    <3>. QED  BY <2>2, <3>1 DEF SavesGrow
  <2>. QED  BY <2>1, <2>2
<1>8. Loads'
  <2>. SUFFICES ASSUME NEW a \in Attempts, phase'[a] = "opening"
                PROVE  /\ \A p \in Queued' : p.op = "get"
                       /\ \A r \in replies' : r.at = a => r.step = 0 /\ r.blob = stored'
    BY DEF Loads
  <2>1. /\ \A p \in Queued : p.op = "get"
        /\ \A r \in replies : r.at = a => r.step = 0 /\ r.blob = stored
    BY <1>1 DEF Loads
  <2>2. stored' = stored /\ q.step = 0
    BY <1>2, <1>3, <2>1 DEF Requests
  <2>. QED  BY <1>2, <1>3, <2>1, <2>2
<1>9. Outgrown'
  BY <1>1, <1>2, <1>3 DEF Outgrown, Working, Within
<1>10. Loaded' /\ DoneKept'
  BY <1>1, <1>4 DEF Loaded, DoneKept
<1>11. Saved'
  <2>. SUFFICES ASSUME NEW a \in Attempts, NEW r \in replies',
                       phase[a] = "running", r.at = a, r.step # 0
                PROVE  Kept(r.step, steps[a][r.step])'
    BY <1>1 DEF Saved
  <2>1. CASE r \in replies
    <3>1. r.step \in Steps
      BY <2>1 DEF TypeOK, StoreReply
    <3>. QED  BY <1>1, <1>4, <2>1, <3>1 DEF Saved
  <2>2. CASE r \notin replies
    <3>1. r.at = q.at /\ r.step = q.step
      BY <1>2, <2>2
    <3>2. q.op = "set" /\ q.step \in Steps /\ q.blob[q.step] # 0
      BY <1>3, <3>1, Attempted DEF Requests
    <3>3. Working(a) /\ Busy(a)
      BY DEF Working, Busy
    <3>4. steps[a][q.step] = q.blob[q.step]
      BY <1>3, <3>2, <3>3 DEF Outgrown, Within
    <3>5. \A d \in Channels : wire[d] # <<>> => d = c
      BY <1>3 DEF OneChannel
    <3>6. ASSUME NEW p \in Queued', p.op = "set" PROVE p.blob[q.step] = q.blob[q.step]
      <4>1. PICK d \in Channels : \E i \in 1..Len(wire'[d]) : p = wire'[d][i]
        BY DEF Queued
      <4>2. PICK i \in 1..Len(wire'[d]) : p = wire'[d][i]
        BY <4>1
      <4>3. d = c
        <5>1. CASE d # c
          <6>1. Len(wire[d]) # 0 /\ wire[d] \in Seq(StoreRequest)
            BY <1>3, <4>2, <5>1 DEF TypeOK
          <6>. QED  BY <3>5, <6>1
        <5>. QED  BY <5>1
      <4>4. i + 1 \in 1..Len(wire[c]) /\ 1 < i + 1 /\ p = wire[c][i + 1]
        BY <1>3, <4>2, <4>3
      <4>5. Within(q.blob, p.blob)
        BY <1>3, <3>2, <3>6, <4>2, <4>4 DEF SavesGrow
      <4>. QED  BY <3>2, <4>5 DEF Within
    <3>7. stored'[q.step] = q.blob[q.step]
      BY <1>2, <3>2
    <3>. QED  BY <1>1, <3>1, <3>2, <3>4, <3>6, <3>7 DEF Kept
  <2>. QED  BY <2>1, <2>2
<1>. QED  BY <1>5, <1>6, <1>7, <1>8, <1>9, <1>10, <1>11

LEMMA LoseRetryInv ==
  ASSUME DurableInv, OrderInv, RetryInv, NEW c \in Channels, Lose(c)
  PROVE  RetryInv'
<1>. USE DEF DurableInv, RetryInv
<1>1. UNCHANGED <<stored, channel, home, phase, steps, task, ran, replies>>
  BY DEF Lose, runVars
<1>2. Queued' \subseteq Queued /\ \A d \in Channels : wire'[d] = wire[d] \/ wire'[d] = <<>>
  BY QueuedLose
<1>3. \A s, v : Kept(s, v) => Kept(s, v)'
  BY <1>1, <1>2, KeptOn
<1>4. LastBusy' /\ OneChannel'
  BY <1>1, <1>2 DEF LastBusy, Busy, OneChannel
<1>5. SavesGrow'
  BY <1>2 DEF SavesGrow, Within
<1>6. Loads' /\ Outgrown'
  BY <1>1, <1>2 DEF Loads, Outgrown, Working, Within
<1>7. Loaded' /\ Saved' /\ DoneKept'
  BY <1>1, <1>3 DEF Loaded, Saved, DoneKept
<1>. QED  BY <1>4, <1>5, <1>6, <1>7

(* An attempt that begins when nothing is left to do finds every value     *)
(* where it will look for it.                                              *)
LEMMA BeginRetryInv ==
  ASSUME DurableInv, OrderInv, RetryInv, NEW a \in Attempts, Begin(a), Quiet
  PROVE  RetryInv'
<1>. USE DEF DurableInv, OrderInv, RetryInv
<1>. DEFINE q == [op |-> "get", at |-> a, step |-> 0, blob |-> Nothing]
<1>1. q \in StoreRequest /\ q.op = "get" /\ q.at = a
  BY Checkpoints DEF StoreRequest
<1>2. Send(home[a], q) /\ home[a] \in Weaves
  BY DEF Begin, TypeOK
<1>3. TypeOK'
  BY HandlerType
<1>. HIDE DEF q
<1>4. Queued = {}
  BY DEF Quiet, Queued
<1>5. Queued' \subseteq {q}
  BY <1>1, <1>2, <1>3, <1>4, QueuedSend
<1>6. UNCHANGED <<stored, replies, home, steps, task, ran>>
  BY DEF Begin
<1>7. phase[a] = "idle" /\ phase' = [phase EXCEPT ![a] = "opening"]
  BY DEF Begin, SetPhase
<1>8. phase'[a] = "opening" /\ \A b \in Attempts : b # a => phase'[b] = phase[b]
  BY <1>7 DEF TypeOK
<1>9. \A b \in Attempts : ~Busy(b)
  BY DEF Quiet
<1>10. \A b \in Attempts : b # a => phase'[b] \notin {"opening", "running"} /\ ~Busy(b)'
  BY <1>6, <1>8, <1>9 DEF Busy
<1>11. \A s \in Steps : task[a][s] = "none"
  BY <1>7 DEF TaskInv
<1>12. LastBusy'
  <2>. SUFFICES ASSUME NEW x \in Attempts, NEW y \in Attempts, x < y, phase'[y] # "idle"
                PROVE  x # a
    BY <1>1, <1>5, <1>10 DEF LastBusy
  <2>. SUFFICES ASSUME x = a PROVE FALSE
    OBVIOUS
  <2>1. y # a
    BY DurableAssumption DEF Attempts
  <2>. QED  BY <1>7, <1>8, <2>1 DEF Begun
<1>13. OneChannel'
  <2>1. \A d \in Channels : wire[d] = <<>>
    BY DEF Quiet
  <2>2. \A d \in Channels : wire'[d] # <<>> => d = <<home[a], channel'[home[a]]>>
    BY <1>2, <2>1 DEF Send, TypeOK
  <2>. QED  BY <1>6, <1>10, <2>2 DEF OneChannel
<1>14. SavesGrow'
  <2>1. \A d \in Channels : \A i \in 1..Len(wire'[d]) : wire'[d][i] \in Queued'
    BY DEF Queued
  <2>. QED  BY <1>1, <1>5, <2>1 DEF SavesGrow
<1>15. Loads'
  BY <1>1, <1>5, <1>6, <1>7, <1>10 DEF Loads, Replies
<1>16. \A b \in Attempts : ~Working(b)'
  BY <1>6, <1>8, <1>10, <1>11 DEF Working, Busy
<1>17. Outgrown' /\ Loaded' /\ Saved'
  BY <1>16 DEF Outgrown, Loaded, Saved, Working
<1>18. DoneKept'
  BY <1>1, <1>5, <1>6 DEF DoneKept, Kept
<1>. QED  BY <1>12, <1>13, <1>14, <1>15, <1>17, <1>18

LEMMA OpenedRetryInv ==
  ASSUME DurableInv, OrderInv, RetryInv, NEW a \in Attempts, Opened(a)
  PROVE  RetryInv'
<1>. USE DEF DurableInv, OrderInv, RetryInv
<1>1. /\ UNCHANGED <<stored, wire, channel, home, task, ran>> /\ replies' \subseteq replies
      /\ phase[a] = "opening" /\ phase' = [phase EXCEPT ![a] = "running"]
  BY DEF Opened, SetPhase
<1>2. PICK r \in replies : r.at = a /\ steps' = [steps EXCEPT ![a] = r.blob]
  BY DEF Opened, ReplyTo
<1>3. /\ \A q \in Queued : q.op = "get"
      /\ \A p \in replies : p.at = a => p.step = 0 /\ p.blob = stored
  BY <1>1 DEF Loads
<1>4. /\ steps'[a] = stored /\ phase'[a] = "running"
      /\ \A b \in Attempts : b # a => steps'[b] = steps[b] /\ phase'[b] = phase[b]
  BY <1>1, <1>2, <1>3 DEF TypeOK
<1>5. Queued' = Queued
  BY <1>1 DEF Queued
<1>6. \A s \in Steps : task[a][s] = "none"
  BY <1>1 DEF TaskInv
<1>7. Busy(a)
  BY <1>1 DEF Busy
<1>8. \A b \in Attempts : b # a => ~Busy(b) /\ ~Working(b)' /\ phase'[b] \notin {"opening", "running"}
  BY <1>1, <1>4, <1>7, OnlyBusy DEF Busy, Working
<1>9. \A s, v : Kept(s, v) => Kept(s, v)'
  BY <1>1, <1>5, KeptOn
<1>10. \A b \in Attempts : /\ phase'[b] # "idle" => phase[b] # "idle"
                           /\ Busy(b)' => Busy(b)
  BY <1>1, <1>4, <1>7 DEF Busy
<1>11. LastBusy'
  BY <1>5, <1>10 DEF LastBusy
<1>12. OneChannel' /\ SavesGrow'
  BY <1>1, <1>8 DEF OneChannel, SavesGrow
<1>13. Loads'
  BY <1>4, <1>8 DEF Loads
<1>14. Outgrown'
  BY <1>1, <1>3, <1>4, <1>5, <1>8 DEF Outgrown, Within
<1>15. Loaded'
  BY <1>1, <1>3, <1>4, <1>5, <1>8 DEF Loaded, Kept
<1>16. Saved'
  BY <1>1, <1>3, <1>8 DEF Saved
<1>17. DoneKept'
  BY <1>1, <1>4, <1>6, <1>9 DEF DoneKept
<1>. QED  BY <1>11, <1>12, <1>13, <1>14, <1>15, <1>16, <1>17

(* Steps that only end: a handler, or a step of it that fails, comes too   *)
(* late or has been saved.                                                 *)
LEMMA EndRetryInv ==
  ASSUME DurableInv, OrderInv, RetryInv, UNCHANGED <<stored, wire, steps, ran, home>>,
         replies' \subseteq replies,
         \A b \in Attempts : phase'[b] = phase[b]
              \/ (phase[b] \in {"opening", "running"} /\ phase'[b] \in {"failed", "answered"}),
         \A b \in Attempts, s \in Steps : task'[b][s] = task[b][s]
              \/ (task[b][s] \in {"exec", "saving"} /\ task'[b][s] \in {"failed", "late"})
              \/ (task'[b][s] = "done" /\ Kept(s, steps[b][s])),
         \A b \in Attempts : phase'[b] \in {"opening", "running"} =>
              channel'[home[b]] = channel[home[b]]
  PROVE  RetryInv'
<1>. USE DEF RetryInv
<1>1. Queued' = Queued
  BY DEF Queued
<1>2. \A s, v : Kept(s, v) => Kept(s, v)'
  BY <1>1, KeptOn
<1>3. \A b \in Attempts : /\ phase'[b] # "idle" => phase[b] # "idle"
                          /\ phase'[b] = "running" => phase[b] = "running"
                          /\ phase'[b] = "opening" => phase[b] = "opening"
  OBVIOUS
<1>4. \A b \in Attempts, s \in Steps : task'[b][s] \in {"exec", "saving"} =>
                                         task[b][s] \in {"exec", "saving"}
  OBVIOUS
<1>5. \A b \in Attempts : (Busy(b)' => Busy(b)) /\ (Working(b)' => Working(b))
  BY <1>3, <1>4 DEF Busy, Working
<1>6. LastBusy'
  BY <1>1, <1>3, <1>5 DEF LastBusy
<1>7. OneChannel' /\ SavesGrow'
  BY <1>3 DEF OneChannel, SavesGrow
<1>8. Loads' /\ Outgrown'
  BY <1>1, <1>3, <1>5 DEF Loads, Outgrown
<1>9. Loaded' /\ Saved'
  BY <1>2, <1>3 DEF Loaded, Saved
<1>10. DoneKept'
  BY <1>2 DEF DoneKept
<1>. QED  BY <1>6, <1>7, <1>8, <1>9, <1>10

(* A store's client gives its channel up for the one attempt that is busy, *)
(* which ends with it.                                                     *)
LEMMA HandlerEndsRetryInv ==
  ASSUME DurableInv, OrderInv, RetryInv, NEW a \in Attempts, OpenFails(a) \/ Answer(a)
  PROVE  RetryInv'
<1>1. UNCHANGED <<stored, wire, steps, ran, home, replies, task>>
  BY DEF OpenFails, Answer, netVars
<1>2. PICK p \in {"failed", "answered"} :
        phase[a] \in {"opening", "running"} /\ phase' = [phase EXCEPT ![a] = p]
  BY DEF OpenFails, Answer, SetPhase
<1>3. \A b \in Attempts : b # a => phase'[b] = phase[b]
  BY <1>2 DEF DurableInv, TypeOK
<1>4. phase'[a] = p
  BY <1>2 DEF DurableInv, TypeOK
<1>5. \A b \in Attempts : phase'[b] \notin {"opening", "running"}
  <2>1. Busy(a)
    BY <1>2 DEF Busy
  <2>2. \A b \in Attempts : b # a => ~Busy(b)
    BY <2>1, OnlyBusy DEF RetryInv
  <2>. QED  BY <1>3, <1>4, <2>2 DEF Busy
<1>. QED  BY <1>1, <1>2, <1>3, <1>4, <1>5, EndRetryInv

LEMMA StepEndsRetryInv ==
  ASSUME DurableInv, OrderInv, RetryInv, NEW a \in Attempts, NEW s \in Steps,
         FnFails(a, s) \/ SaveFails(a, s) \/ SaveOk(a, s)
  PROVE  RetryInv'
<1>. USE DEF DurableInv
<1>1. UNCHANGED <<stored, wire, steps, ran, home>> /\ replies' \subseteq replies
  BY DEF FnFails, SaveFails, SaveOk, netVars
<1>2. task[a][s] \in {"exec", "saving"} /\ Busy(a)
  BY DEF FnFails, SaveFails, SaveOk, Busy
<1>3. \A b \in Attempts : phase'[b] = phase[b] \/ (phase[b] = "running" /\ phase'[b] = "failed")
  BY DEF FnFails, SaveFails, SaveOk, StepFails, SetPhase, TypeOK
<1>4. \A b \in Attempts, t \in Steps : b # a \/ t # s => task'[b][t] = task[b][t]
  BY DEF FnFails, SaveFails, SaveOk, StepFails, SetTask, TypeOK
<1>5. task'[a][s] \in {"failed", "late"} \/ (task'[a][s] = "done" /\ Kept(s, steps[a][s]))
  <2>1. CASE FnFails(a, s) \/ SaveFails(a, s)
    BY <2>1 DEF FnFails, SaveFails, StepFails, SetTask, TypeOK
  <2>2. CASE SaveOk(a, s)
    <3>1. task'[a][s] = IF phase[a] = "running" THEN "done" ELSE "late"
      BY <2>2 DEF SaveOk, SetTask, TypeOK
    <3>2. PICK r \in replies : r.at = a /\ r.step = s
      BY <2>2 DEF SaveOk, ReplyTo
    <3>3. s # 0
      BY DurableAssumption
    <3>4. phase[a] = "running" => Kept(s, steps[a][s])
      BY <3>2, <3>3 DEF RetryInv, Saved
    <3>. QED  BY <3>1, <3>4
  <2>. QED  BY <2>1, <2>2
<1>6. \A b \in Attempts : phase'[b] \in {"opening", "running"} => channel'[home[b]] = channel[home[b]]
  <2>1. CASE FnFails(a, s) \/ SaveOk(a, s)
    BY <2>1 DEF FnFails, SaveOk, netVars
  <2>2. CASE SaveFails(a, s)
    <3>1. phase'[a] \notin {"opening", "running"}
      BY <2>2 DEF SaveFails, StepFails, SetPhase, TypeOK, TaskInv
    <3>2. \A b \in Attempts : b # a => phase'[b] = phase[b] /\ phase[b] \notin {"opening", "running"}
      BY <1>2, <2>2, OnlyBusy DEF RetryInv, Busy, SaveFails, StepFails, SetPhase, TypeOK
    <3>. QED  BY <3>1, <3>2
  <2>. QED  BY <2>1, <2>2
<1>. QED  BY <1>1, <1>2, <1>3, <1>4, <1>5, <1>6, EndRetryInv

LEMMA CrashRetryInv ==
  ASSUME DurableInv, OrderInv, RetryInv, NEW w \in Weaves, Crash(w)
  PROVE  RetryInv'
<1>1. UNCHANGED <<stored, wire, steps, ran, home, replies>>
  BY DEF Crash
<1>2. \A b \in Attempts : phase'[b] = phase[b]
        \/ (phase[b] \in {"opening", "running"} /\ phase'[b] = "failed")
  BY DEF Crash
<1>3. \A b \in Attempts, s \in Steps : task'[b][s] = task[b][s]
        \/ (task[b][s] \in {"exec", "saving"} /\ task'[b][s] = "failed")
  BY DEF Crash
<1>4. \A b \in Attempts : phase'[b] \notin {"opening", "running"}
  <2>1. PICK a \in Attempts : home[a] = w /\ Busy(a)
    BY DEF Crash
  <2>2. \A b \in Attempts : b # a => phase[b] \notin {"opening", "running"}
    BY <2>1, OnlyBusy DEF RetryInv, Busy
  <2>3. phase'[a] \notin {"opening", "running"}
    BY <2>1 DEF Crash
  <2>. QED  BY <1>2, <2>2, <2>3
<1>. QED  BY <1>1, <1>2, <1>3, <1>4, EndRetryInv

(* Without its requests in the channel, no request of the attempt is left  *)
(* anywhere, and the next one may take another channel.                    *)
LEMMA OtherEvictsRetryInv ==
  ASSUME DurableInv, OrderInv, RetryInv, NEW w \in Weaves, OtherEvicts(w),
         wire[<<w, channel[w]>>] = <<>>
  PROVE  RetryInv'
<1>. USE DEF RetryInv
<1>1. UNCHANGED <<stored, wire, steps, ran, home, replies, phase, task>>
  BY DEF OtherEvicts, runVars
<1>2. Queued' = Queued
  BY <1>1 DEF Queued
<1>3. \A s, v : Kept(s, v) => Kept(s, v)'
  BY <1>1, <1>2, KeptOn
<1>4. LastBusy' /\ Loads' /\ Outgrown' /\ SavesGrow'
  BY <1>1, <1>2 DEF LastBusy, Loads, Outgrown, SavesGrow, Busy, Working
<1>5. Loaded' /\ Saved' /\ DoneKept'
  BY <1>1, <1>3 DEF Loaded, Saved, DoneKept
<1>6. OneChannel'
  <2>. SUFFICES ASSUME NEW a \in Attempts, phase[a] \in {"opening", "running"},
                       NEW c \in Channels, wire[c] # <<>>
                PROVE  c = <<home[a], channel'[home[a]]>>
    BY <1>1 DEF OneChannel
  <2>1. c = <<home[a], channel[home[a]]>>
    BY DEF OneChannel
  <2>2. home[a] # w /\ home[a] \in Weaves
    BY <2>1 DEF DurableInv, TypeOK
  <2>3. channel'[home[a]] = channel[home[a]]
    BY <2>2 DEF OtherEvicts, Evict, DurableInv, TypeOK
  <2>. QED  BY <2>1, <2>3
<1>. QED  BY <1>4, <1>5, <1>6

(* A step that is replayed was loaded.                                     *)
LEMMA StartBatchRetryInv ==
  ASSUME DurableInv, OrderInv, RetryInv, NEW a \in Attempts, StartBatch(a)
  PROVE  RetryInv'
<1>. USE DEF DurableInv, RetryInv
<1>. DEFINE fresh == {s \in Ready(a) : steps[a][s] = 0}
<1>1. UNCHANGED <<stored, wire, channel, replies, steps, home, phase>> /\ phase[a] = "running"
  BY DEF StartBatch, netVars
<1>2. /\ task' = [task EXCEPT ![a] = [s \in Steps |->
              IF s \in fresh THEN "exec" ELSE IF s \in Ready(a) THEN "done" ELSE @[s]]]
      /\ ran' = [ran EXCEPT ![a] = @ \cup fresh]
  BY DEF StartBatch
<1>3. \A b \in Attempts : b # a => task'[b] = task[b]
  BY <1>2 DEF TypeOK
<1>4. \A b \in Attempts : ran[b] \subseteq ran'[b]
  BY <1>2 DEF TypeOK
<1>5. \A s \in Steps : task'[a][s] = "done" => task[a][s] = "done" \/ Kept(s, steps[a][s])
  <2>. SUFFICES ASSUME NEW s \in Steps, task'[a][s] = "done", task[a][s] # "done"
                PROVE  Kept(s, steps[a][s])
    OBVIOUS
  <2>1. task'[a][s] = IF s \in fresh THEN "exec" ELSE IF s \in Ready(a) THEN "done" ELSE task[a][s]
    BY <1>2 DEF TypeOK
  <2>2. s \in Ready(a) /\ steps[a][s] # 0
    BY <2>1
  <2>3. s \notin ran[a]
    BY <2>2 DEF Ready, TaskInv
  <2>. QED  BY <1>1, <2>2, <2>3 DEF Loaded
<1>. HIDE DEF fresh
<1>6. Queued' = Queued
  BY <1>1 DEF Queued
<1>7. \A s, v : Kept(s, v) => Kept(s, v)'
  BY <1>1, <1>6, KeptOn
<1>8. \A b \in Attempts : (Busy(b)' => Busy(b)) /\ (Working(b)' => Working(b))
  BY <1>1, <1>3 DEF Busy, Working
<1>9. LastBusy'
  BY <1>1, <1>6, <1>8 DEF LastBusy
<1>10. OneChannel' /\ SavesGrow' /\ Loads'
  BY <1>1, <1>6 DEF OneChannel, SavesGrow, Loads
<1>11. Outgrown'
  BY <1>1, <1>6, <1>8 DEF Outgrown
<1>12. Loaded' /\ Saved'
  BY <1>1, <1>4, <1>7 DEF Loaded, Saved
<1>13. DoneKept'
  BY <1>1, <1>3, <1>5, <1>7 DEF DoneKept
<1>. QED  BY <1>9, <1>10, <1>11, <1>12, <1>13

(* A save carries all that is stored or on its way, and one value more.    *)
LEMMA FnDoneRetryInv ==
  ASSUME DurableInv, OrderInv, RetryInv, NEW a \in Attempts, NEW s \in Steps, FnDone(a, s)
  PROVE  RetryInv'
<1>. USE DEF DurableInv, OrderInv, RetryInv
<1>. DEFINE d == [steps[a] EXCEPT ![s] = a]
            q == [op |-> "set", at |-> a, step |-> s, blob |-> steps'[a]]
<1>1. UNCHANGED <<stored, replies, home, phase, ran>> /\ task[a][s] = "exec"
  BY DEF FnDone
<1>2. steps' = [steps EXCEPT ![a] = d] /\ steps'[a] = d /\ d \in Checkpoint
  <2>1. steps[a] \in Checkpoint
    BY DEF TypeOK
  <2>. QED  BY <2>1, Checkpoints DEF FnDone, TypeOK
<1>3. q \in StoreRequest /\ q.op = "set" /\ q.at = a /\ q.blob = d
  BY <1>2 DEF StoreRequest
<1>4. Send(home[a], q) /\ home[a] \in Weaves
  BY DEF FnDone, TypeOK
<1>5. TypeOK'
  BY StepType
<1>6. s \in ran[a] /\ steps[a][s] = 0 /\ phase[a] \notin {"idle", "opening"}
  BY <1>1 DEF TaskInv
<1>7. \A t \in Steps : t # s => d[t] = steps[a][t]
  BY DEF TypeOK, Checkpoint
<1>. HIDE DEF d, q
<1>8. Queued' \subseteq Queued \cup {q}
  BY <1>3, <1>4, <1>5, QueuedSend
<1>9. Busy(a) /\ Working(a)
  BY <1>1 DEF Busy, Working
<1>10. \A b \in Attempts : Busy(b) => b = a
  BY <1>9, OnlyBusy
<1>11. \A x : Within(x, steps[a]) => Within(x, d)
  BY <1>6, <1>7 DEF Within
<1>12. Within(stored, d) /\ \A p \in Queued : p.op = "set" => Within(p.blob, d)
  BY <1>9, <1>11 DEF Outgrown
<1>13. \A t \in Steps : \A v : Kept(t, v) => Kept(t, v)' /\ d[t] = v /\ (steps[a][t] = v)
  <2>. SUFFICES ASSUME NEW t \in Steps, NEW v, Kept(t, v)
                PROVE  Kept(t, v)' /\ d[t] = v /\ steps[a][t] = v
    OBVIOUS
  <2>1. d[t] = v
    BY <1>12 DEF Kept, Within
  <2>2. steps[a][t] = v
    BY <1>9 DEF Kept, Within, Outgrown
  <2>. QED  BY <1>1, <1>3, <1>8, <2>1, <2>2 DEF Kept
<1>14. \A b \in Attempts, t \in Steps :
         /\ b # a \/ t # s => task'[b][t] = task[b][t]
         /\ b # a => steps'[b] = steps[b]
  BY <1>2 DEF FnDone, SetTask, TypeOK
<1>15. task'[a][s] = "saving"
  BY DEF FnDone, SetTask, TypeOK
<1>16. \A b \in Attempts : Busy(b)' => Busy(b)
  BY <1>1, <1>9, <1>14 DEF Busy
<1>17. LastBusy'
  BY <1>1, <1>3, <1>8, <1>9, <1>16 DEF LastBusy
<1>18. OneChannel'
  <2>. SUFFICES ASSUME phase[a] = "running", NEW c \in Channels, wire'[c] # <<>>
                PROVE  c = <<home[a], channel'[home[a]]>>
    BY <1>1, <1>6, <1>10 DEF OneChannel, Busy
  <2>1. \A e \in Channels : wire[e] # <<>> => e = <<home[a], channel[home[a]]>>
    BY DEF OneChannel
  <2>2. channel[home[a]] # 0 \/ \A e \in Channels : wire[e] = <<>>
    BY <1>4, <2>1, DurableAssumption DEF Channels, TypeOK
  <2>. DEFINE n == IF channel[home[a]] = 0 THEN opened[home[a]] + 1 ELSE channel[home[a]]
  <2>3. wire' = [wire EXCEPT ![<<home[a], n>>] = Append(@, q)] /\ channel' = [channel EXCEPT ![home[a]] = n]
    BY <1>4 DEF Send
  <2>4. c # <<home[a], n>> => wire'[c] = wire[c]
    BY <2>3 DEF TypeOK
  <2>5. channel'[home[a]] = n
    BY <1>4, <2>3 DEF TypeOK
  <2>. QED  BY <2>1, <2>2, <2>4, <2>5
<1>19. SavesGrow'
  <2>. SUFFICES ASSUME NEW c \in Channels, NEW i \in 1..Len(wire'[c]), NEW j \in 1..Len(wire'[c]),
                       i < j, wire'[c][i].op = "set", wire'[c][j].op = "set"
                PROVE  Within(wire'[c][i].blob, wire'[c][j].blob)
    BY DEF SavesGrow, Within
  <2>. DEFINE n == IF channel[home[a]] = 0 THEN opened[home[a]] + 1 ELSE channel[home[a]]
  <2>1. wire' = [wire EXCEPT ![<<home[a], n>>] = Append(@, q)]
    BY <1>4 DEF Send
  <2>2. wire'[c] = wire[c] \/ wire'[c] = Append(wire[c], q)
    BY <2>1 DEF TypeOK
  <2>3. wire[c] \in Seq(StoreRequest) /\ \A k \in 1..Len(wire[c]) : wire[c][k] \in Queued
    BY QueuedType
  <2>4. CASE j \in 1..Len(wire[c])
    <3>1. i \in 1..Len(wire[c]) /\ wire'[c][i] = wire[c][i] /\ wire'[c][j] = wire[c][j]
      BY <2>2, <2>3, <2>4
    <3>. QED  BY <2>4, <3>1 DEF SavesGrow
  <2>5. CASE j \notin 1..Len(wire[c])
    <3>1. wire'[c][j] = q /\ i \in 1..Len(wire[c]) /\ wire'[c][i] = wire[c][i]
      BY <2>2, <2>3, <2>5
    <3>. QED  BY <1>3, <1>12, <2>3, <3>1
  <2>. QED  BY <2>4, <2>5
<1>20. Loads'
  <2>1. \A b \in Attempts : phase[b] # "opening"
    BY <1>6, <1>10 DEF Busy
  <2>. QED  BY <1>1, <2>1 DEF Loads
<1>21. Outgrown'
  <2>1. \A b \in Attempts : Working(b)' => b = a
    BY <1>10, <1>16 DEF Working, Busy
  <2>2. \A p \in Queued' : p.op = "set" => Within(p.blob, d)
    BY <1>3, <1>8, <1>12 DEF Within
  <2>. QED  BY <1>1, <1>2, <1>12, <2>1, <2>2 DEF Outgrown, Within
<1>22. \A t \in Steps : t # s /\ Kept(t, steps[a][t]) =>
          /\ d[t] # 0 /\ stored'[t] = d[t]
          /\ \A p \in Queued' : p.op = "set" => p.blob[t] = d[t]
  BY <1>7, <1>13 DEF Kept
<1>23. Loaded'
  <2>. SUFFICES ASSUME NEW t \in Steps, phase[a] = "running", d[t] # 0, t \notin ran[a]
                PROVE  /\ stored'[t] = d[t]
                       /\ \A p \in Queued' : p.op = "set" => p.blob[t] = d[t]
    BY <1>1, <1>2, <1>10 DEF Loaded, Busy, Kept
  <2>. QED  BY <1>6, <1>7, <1>22 DEF Loaded
<1>24. Saved'
  <2>. SUFFICES ASSUME NEW r \in replies, phase[a] = "running", r.at = a, r.step # 0
                PROVE  /\ d[r.step] # 0 /\ stored'[r.step] = d[r.step]
                       /\ \A p \in Queued' : p.op = "set" => p.blob[r.step] = d[r.step]
    BY <1>1, <1>2, <1>10 DEF Saved, Busy, Kept
  <2>1. r.step \in Steps
    BY DEF TypeOK, StoreReply
  <2>2. Kept(r.step, steps[a][r.step])
    BY DEF Saved
  <2>3. r.step # s
    BY <1>6, <2>2 DEF Kept
  <2>. QED  BY <1>22, <2>1, <2>2, <2>3
<1>25. DoneKept'
  <2>. SUFFICES ASSUME NEW b \in Attempts, NEW t \in Steps, task'[b][t] = "done"
                PROVE  Kept(t, steps[b][t])'
    BY DEF DoneKept
  <2>1. task[b][t] = "done" /\ steps'[b][t] = steps[b][t]
    BY <1>2, <1>7, <1>14, <1>15
  <2>2. Kept(t, steps[b][t])
    BY <2>1 DEF DoneKept
  <2>. QED  BY <1>13, <2>1, <2>2 DEF Kept
<1>. QED  BY <1>17, <1>18, <1>19, <1>20, <1>21, <1>23, <1>24, <1>25

(* No step is executed that an earlier attempt has completed: its value is *)
(* stored, hence loaded.                                                   *)
LEMMA ReplayInv ==
  ASSUME DurableInv, OrderInv, RetryInv, CompletedStepsReplay,
         \A b \in Attempts, s \in Steps : task'[b][s] = "done" => task[b][s] = "done" \/ Busy(b),
         \A b \in Attempts, s \in Steps : s \in ran'[b] => s \in ran[b] \/ (Working(b) /\ steps[b][s] = 0)
  PROVE  CompletedStepsReplay'
<1>. SUFFICES ASSUME NEW a \in Attempts, NEW b \in Attempts, a < b,
                     NEW s \in Steps, task'[a][s] = "done", s \in ran'[b]
              PROVE  FALSE
  BY DEF CompletedStepsReplay, Completed
<1>1. CASE Busy(a)
  <2>1. phase[b] = "idle"
    BY <1>1 DEF RetryInv, LastBusy
  <2>2. \A t \in Steps : task[b][t] = "none" /\ t \notin ran[b]
    BY <2>1 DEF DurableInv, TaskInv
  <2>. QED  BY <2>1, <2>2 DEF Working
<1>2. CASE ~Busy(a)
  <2>1. task[a][s] = "done"
    BY <1>2
  <2>2. s \notin ran[b]
    BY <2>1 DEF CompletedStepsReplay, Completed
  <2>3. Working(b) /\ steps[b][s] = 0
    BY <2>2
  <2>4. stored[s] # 0
    BY <2>1 DEF RetryInv, DoneKept, Kept
  <2>. QED  BY <2>3, <2>4 DEF RetryInv, Outgrown, Within
<1>. QED  BY <1>1, <1>2

LEMMA NextReplayInv ==
  ASSUME DurableInv, OrderInv, RetryInv, CompletedStepsReplay, Next
  PROVE  CompletedStepsReplay'
<1>. USE DEF DurableInv
<1>. task \in [Attempts -> [Steps -> {"none", "exec", "saving", "done", "failed", "late"}]]
  BY DEF TypeOK
<1>1. ASSUME NEW a \in Attempts, StartBatch(a) PROVE CompletedStepsReplay'
  <2>. DEFINE fresh == {s \in Ready(a) : steps[a][s] = 0}
  <2>1. /\ task' = [task EXCEPT ![a] = [s \in Steps |->
              IF s \in fresh THEN "exec" ELSE IF s \in Ready(a) THEN "done" ELSE @[s]]]
        /\ ran' = [ran EXCEPT ![a] = @ \cup fresh]
        /\ phase[a] = "running"
    BY <1>1 DEF StartBatch
  <2>2. Busy(a) /\ Working(a) /\ \A s \in fresh : steps[a][s] = 0
    BY <2>1 DEF Busy, Working
  <2>. HIDE DEF fresh
  <2>3. \A b \in Attempts, s \in Steps : task'[b][s] = "done" => task[b][s] = "done" \/ Busy(b)
    BY <2>1, <2>2
  <2>4. \A b \in Attempts, s \in Steps : s \in ran'[b] => s \in ran[b] \/ (Working(b) /\ steps[b][s] = 0)
    BY <2>1, <2>2 DEF TypeOK
  <2>. QED  BY <2>3, <2>4, ReplayInv
<1>2. ASSUME UNCHANGED ran,
             \A b \in Attempts, s \in Steps : task'[b][s] = "done" => task[b][s] = "done" \/ Busy(b)
      PROVE  CompletedStepsReplay'
  BY <1>2, ReplayInv
<1>3. ASSUME NEW a \in Attempts, Begin(a) \/ Opened(a) \/ OpenFails(a) \/ Answer(a)
      PROVE  CompletedStepsReplay'
  BY <1>2, <1>3 DEF Begin, Opened, OpenFails, Answer
<1>4. ASSUME NEW a \in Attempts, NEW s \in Steps,
             FnDone(a, s) \/ FnFails(a, s) \/ SaveFails(a, s) \/ SaveOk(a, s)
      PROVE  CompletedStepsReplay'
  <2>1. UNCHANGED ran /\ task[a][s] \in {"exec", "saving"}
    BY <1>4 DEF FnDone, FnFails, SaveFails, SaveOk
  <2>2. \A b \in Attempts, t \in Steps : b # a => task'[b] = task[b]
    BY <1>4 DEF FnDone, FnFails, SaveFails, SaveOk, StepFails, SetTask
  <2>. QED  BY <1>2, <2>1, <2>2 DEF Busy
<1>5. ASSUME NEW c \in Channels, Serve(c) \/ Lose(c) PROVE CompletedStepsReplay'
  BY <1>2, <1>5 DEF Serve, Lose, runVars
<1>6. ASSUME NEW w \in Weaves, Crash(w) PROVE CompletedStepsReplay'
  BY <1>2, <1>6 DEF Crash
<1>7. ASSUME NEW w \in Weaves, OtherEvicts(w) PROVE CompletedStepsReplay'
  BY <1>2, <1>7 DEF OtherEvicts, runVars
<1>. QED  BY <1>1, <1>3, <1>4, <1>5, <1>6, <1>7 DEF Next

LEMMA InitCalmInv == Init => CalmInv
BY InitDurableInv, InitOrderInv, InitRetryInv DEF CalmInv

LEMMA NextCalmInv == CalmInv /\ [Next]_vars => CalmInv'
<1>. SUFFICES ASSUME CalmInv, [Next]_vars, calm' PROVE RetryInv' /\ CompletedStepsReplay'
  BY NextDurableInv, NextOrderInv DEF CalmInv
<1>. USE DEF CalmInv
<1>1. CASE UNCHANGED vars
  <2>1. calm
    BY <1>1 DEF vars
  <2>2. UNCHANGED <<stored, wire, steps, ran, home, replies, phase, task, channel>>
    BY <1>1 DEF vars, netVars, runVars
  <2>3. RetryInv'
    BY <2>1, <2>2, EndRetryInv
  <2>4. CompletedStepsReplay'
    BY <2>1, <2>2, ReplayInv
  <2>. QED  BY <2>3, <2>4
<1>2. CASE Next
  <2>1. /\ calm /\ \A a \in Attempts : Begin(a) => Quiet
        /\ \A w \in Weaves : OtherEvicts(w) => wire[<<w, channel[w]>>] = <<>>
    BY <1>2 DEF Next, Begin, Opened, OpenFails, StartBatch, Answer, FnDone, FnFails, SaveFails,
                SaveOk, Serve, Lose, Crash, OtherEvicts
  <2>2. CompletedStepsReplay'
    BY <1>2, <2>1, NextReplayInv
  <2>3. RetryInv'
    BY <1>2, <2>1, ServeRetryInv, LoseRetryInv, BeginRetryInv, OpenedRetryInv,
       HandlerEndsRetryInv, StepEndsRetryInv, CrashRetryInv, OtherEvictsRetryInv, StartBatchRetryInv,
       FnDoneRetryInv DEF Next
  <2>. QED  BY <2>2, <2>3
<1>. QED  BY <1>1, <1>2

(* As long as every retry waits for what earlier attempts have left        *)
(* running or in flight, and no other run's failure takes the channel with *)
(* requests of this one in it, whatever failed, was lost or crashed, no    *)
(* step that returned to its handler is executed again.                    *)
THEOREM CalmRetriesResume == Spec => []CalmRetriesReplay
<1>1. CalmInv => CalmRetriesReplay
  BY DEF CalmInv, CalmRetriesReplay
<1>. QED  BY <1>1, InitCalmInv, NextCalmInv, PTL DEF Spec

(* All such attempts of a run that answer give the same answer.            *)
THEOREM CalmAnswersAgree == Spec => []AnswersAgree
<1>1. ASSUME CalmInv, calm, NEW a \in Attempts, NEW b \in Attempts,
             phase[a] = "answered", phase[b] = "answered"
      PROVE  steps[a] = steps[b]
  <2>1. \A s \in Steps : steps[a][s] = stored[s] /\ steps[b][s] = stored[s]
    BY <1>1 DEF CalmInv, OrderInv, Complete, RetryInv, DoneKept, Kept
  <2>2. steps[a] \in Checkpoint /\ steps[b] \in Checkpoint
    BY <1>1 DEF CalmInv, DurableInv, TypeOK
  <2>. QED  BY <2>1, <2>2 DEF Checkpoint
<1>2. CalmInv => AnswersAgree
  BY <1>1 DEF AnswersAgree
<1>. QED  BY <1>2, InitCalmInv, NextCalmInv, PTL DEF Spec
=============================================================================
