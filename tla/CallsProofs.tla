---------------------------- MODULE CallsProofs ----------------------------
(***************************************************************************)
(* Proofs about Calls, for any fibers, costs, sinks, contexts, limits and  *)
(* trees: what a context says of the contexts it descends from, and where  *)
(* spans go.                                                               *)
(***************************************************************************)
EXTENDS Calls, TLAPS

LEMMA Numbers ==
  /\ MaxCalls \in Nat /\ MaxTime \in Nat
  /\ 0 \in Nodes /\ Calls \subseteq Nodes /\ 0 \notin Calls /\ Nodes = Calls \cup {0}
  /\ Nodes \subseteq Nat /\ Time \subseteq Nat /\ 0 \in Time
BY CallsAssumption DEF Nodes, Calls, Time

(***************************************************************************)
(* Contexts.                                                               *)
(***************************************************************************)
(* The earlier of two optional deadlines.                                  *)
LEMMA EarliestOfTwo ==
  ASSUME NEW a \in Nat \cup {None}, NEW b \in Nat \cup {None}
  PROVE  LET e == Earliest({a, b} \ {None}) IN
         /\ e \in Nat \cup {None}
         /\ a # None => e \in Nat /\ e <= a
<1>. DEFINE D == {a, b} \ {None}
            e == Earliest(D)
<1>1. CASE D = {}
  BY <1>1 DEF Earliest
<1>2. CASE D # {}
  <2>1. D \subseteq Nat
    OBVIOUS
  <2>2. \E d \in D : \A x \in D : d <= x
    <3>1. CASE a = None
      BY <1>2, <3>1
    <3>2. CASE b = None
      BY <1>2, <3>2
    <3>3. CASE a \in Nat /\ b \in Nat
      <4>1. a \in D /\ b \in D /\ D = {a, b}
        BY <3>3, CallsAssumption
      <4>2. a <= b \/ b <= a
        BY <3>3
      <4>. QED  BY <3>3, <4>1, <4>2
    <3>. QED  BY <3>1, <3>2, <3>3
  <2>3. e \in D /\ \A x \in D : e <= x
    BY <1>2, <2>2 DEF Earliest
  <2>4. a # None => a \in D
    OBVIOUS
  <2>. QED  BY <2>1, <2>3, <2>4
<1>. QED  BY <1>1, <1>2

(* Context::child: the deadline is no later, the budget debited, the sink  *)
(* the same.                                                               *)
LEMMA ChildShrinks ==
  ASSUME NEW c \in Context, NEW limit \in Limits, NEW spent \in Spent, NEW n \in Nodes
  PROVE  LET d == Child(c, limit, spent, n) IN
         /\ d \in Context
         /\ c.deadline # None => d.deadline \in Nat /\ d.deadline <= c.deadline
         /\ c.budget # None => d.budget \in Nat /\ (d.budget = 0 \/ d.budget < c.budget)
         /\ d.sink = c.sink
<1>1. limit \in Nat \cup {None} /\ spent \in Nat \ {0} /\ None \notin Nat
  BY CallsAssumption
<1>2. /\ c.deadline \in Nat \cup {None} /\ c.budget \in Nat \cup {None} /\ c.sink \in Sinks \cup {None}
      /\ c.trace \in Nodes \cup {None}
  BY DEF Context
<1>. DEFINE e == Earliest({c.deadline, limit} \ {None})
            b == Debited(c.budget, spent)
            t == TraceOf(c, n)
<1>3. e \in Nat \cup {None} /\ (c.deadline # None => e \in Nat /\ e <= c.deadline)
  BY <1>1, <1>2, EarliestOfTwo
<1>4. b \in Nat \cup {None} /\ (c.budget # None => b \in Nat /\ (b = 0 \/ b < c.budget))
  BY <1>1, <1>2 DEF Debited
<1>5. t \in Nodes \cup {None}
  BY <1>2 DEF TraceOf
<1>6. Child(c, limit, spent, n) = [deadline |-> e, budget |-> b, sink |-> c.sink, trace |-> t]
  BY DEF Child
<1>. HIDE DEF e, b, t
<1>. QED  BY <1>2, <1>3, <1>4, <1>5, <1>6 DEF Context

(* A handler's own context differs from its caller's in the sink alone.    *)
LEMMA SelfContextFacts ==
  ASSUME NEW r \in Requests
  PROVE  /\ SelfContext(r) \in Context
         /\ SelfContext(r).deadline = r.ctx.deadline
         /\ SelfContext(r).budget = r.ctx.budget
<1>1. r.ctx \in Context /\ r.fiber \in Fibers \cup {None}
  BY DEF Requests
<1>2. r.fiber # None => OwnSink[r.fiber] \in Sinks \cup {None}
  BY <1>1, CallsAssumption
<1>. QED  BY <1>1, <1>2 DEF SelfContext, Context

(***************************************************************************)
(* Requests are made by calls alone, by an invocation that runs, and are   *)
(* then what they are.                                                     *)
(***************************************************************************)
NewContext(p, limit, spent, n) ==
  IF p = 0 THEN req[0].ctx ELSE Child(SelfContext(req[p]), limit, spent, n)

Calling ==
  \E n \in Calls, p \in Nodes, f \in Fibers, limit \in Limits, spent \in Spent : Call(p, n, f, limit, spent)

LEMMA OnlyCallsSend ==
  ASSUME [Next]_vars
  PROVE  req' = req \/ Calling
BY DEF Next, vars, Calling, Tick, CloseApp, Deliver, Timeout, Fail, Start, Opened, OpenFails, Refuse,
       Return, Raise, Cut, Finish

LEMMA CachedFacts ==
  ASSUME TypeOK, NEW p \in Nodes
  PROVE  Cached(p) \subseteq Calls /\ \A c \in Cached(p) : req[c] # None
BY DEF TypeOK, Cached

LEMMA CallFacts ==
  ASSUME TypeOK, NEW n \in Calls, NEW p \in Nodes, NEW f \in Fibers,
         NEW limit \in Limits, NEW spent \in Spent, Call(p, n, f, limit, spent)
  PROVE  /\ req[n] = None /\ srv[n] = "none" /\ Served(p) /\ n # p /\ n # 0
         /\ req[p] \in Requests /\ req[p] # None
         /\ NewContext(p, limit, spent, n) \in Context
         /\ req'[n] \in Requests /\ req'[n] # None
         /\ req'[n].fiber = f /\ req'[n].parent = p /\ req'[n].line = Append(req[p].line, p)
         /\ req'[n].ctx = NewContext(p, limit, spent, n) /\ req'[n].via \in Calls
         /\ req'[n].via = n \/ req[req'[n].via] # None
         /\ req' \in [Nodes -> Requests \cup {None}]
         /\ \A m \in Nodes : m # n => req'[m] = req[m]
         /\ chan' \in [Calls -> ChanStates]
         /\ \A c \in Calls : chan'[c] = chan[c] \/ c = n
<1>1. n \in Nodes /\ n # 0 /\ 0 \in Nodes
  BY Numbers
<1>2. req \in [Nodes -> Requests \cup {None}] /\ req[0] # None /\ chan \in [Calls -> ChanStates]
  BY DEF TypeOK
<1>3. req[n] = None /\ srv[n] = "none" /\ Served(p) /\ n # p
  BY <1>1 DEF Call, TypeOK, Served
<1>4. req[p] # None /\ req[p] \in Requests
  <2>1. CASE p = 0
    BY <1>2, <2>1
  <2>2. CASE p # 0
    BY <1>2, <1>3, <2>2, Numbers DEF TypeOK, Served
  <2>. QED  BY <2>1, <2>2
<1>. DEFINE c == NewContext(p, limit, spent, n)
<1>5. c \in Context
  <2>1. CASE p = 0
    BY <1>4, <2>1 DEF NewContext, Requests
  <2>2. CASE p # 0
    BY <1>1, <1>4, <2>2, SelfContextFacts, ChildShrinks DEF NewContext
  <2>. QED  BY <2>1, <2>2
<1>6. PICK via \in IF CachedFor(p, f) = {} THEN {n} ELSE CachedFor(p, f) :
        /\ req' = [req EXCEPT ![n] = Request(p, f, c, via)]
        /\ chan' = [chan EXCEPT ![via] = IF via # n THEN @ ELSE IF srv[p] = "ended" THEN "kept" ELSE "cached"]
  BY DEF Call, NewContext
<1>7. via \in Calls /\ (via = n \/ req[via] # None)
  <2>1. CachedFor(p, f) \subseteq Cached(p)
    BY DEF CachedFor
  <2>. QED  BY <1>6, <2>1, CachedFacts
<1>. DEFINE r == Request(p, f, c, via)
<1>. HIDE DEF c
<1>8. r \in Requests
  <2>1. req[p].line \in Seq(Nodes)
    BY <1>4 DEF Requests
  <2>2. Append(req[p].line, p) \in Seq(Nodes) /\ via \in Nodes
    BY <1>7, <2>1, Numbers
  <2>. QED  BY <1>5, <2>2 DEF Request, Requests
<1>9. r # None
  BY <1>8, CallsAssumption
<1>10. r.fiber = f /\ r.parent = p /\ r.line = Append(req[p].line, p) /\ r.ctx = c /\ r.via = via
  BY DEF Request
<1>11. chan' \in [Calls -> ChanStates] /\ \A d \in Calls : chan'[d] = chan[d] \/ d = n
  BY <1>2, <1>6, <1>7 DEF ChanStates
<1>. HIDE DEF r
<1>12. /\ req'[n] = r /\ req' \in [Nodes -> Requests \cup {None}]
       /\ \A m \in Nodes : m # n => req'[m] = req[m]
  BY <1>1, <1>2, <1>6, <1>8 DEF r
<1>. QED  BY <1>1, <1>3, <1>4, <1>5, <1>7, <1>8, <1>9, <1>10, <1>11, <1>12 DEF c

(***************************************************************************)
(* Type correctness.                                                       *)
(***************************************************************************)
LEMMA InitTyped ==
  ASSUME Init
  PROVE  TypeOK
<1>. DEFINE root(c) == [fiber |-> None, parent |-> 0, ctx |-> c, line |-> <<>>, via |-> 0]
<1>1. PICK c \in Roots : req = [n \in Nodes |-> IF n = 0 THEN root(c) ELSE None]
  BY DEF Init
<1>2. root(c) \in Requests
  BY CallsAssumption, Numbers DEF Requests
<1>. HIDE DEF root
<1>3. req \in [Nodes -> Requests \cup {None}] /\ req[0] # None /\ \A n \in Calls : req[n] = None
  BY <1>1, <1>2, CallsAssumption, Numbers
<1>. QED  BY <1>3, Numbers DEF Init, TypeOK, SrvStates, ChanStates

(* What the rest of TypeOK needs of the callers of calls.                  *)
LEMMA CallerFacts ==
  ASSUME TypeOK, NEW n \in Calls, req[n] # None
  PROVE  /\ req[n] \in Requests /\ req[n].fiber \in Fibers
         /\ req[n].parent \in Nodes /\ req[n].parent # n /\ req[req[n].parent] # None
         /\ Served(req[n].parent) /\ srv[n] # "none"
         /\ req[n].via \in Calls /\ req[req[n].via] # None
         /\ req[n].ctx \in Context /\ req[n].line \in Seq(Nodes)
BY Numbers DEF TypeOK, Requests

LEMMA AbandonedType ==
  ASSUME TypeOK, NEW C
  PROVE  /\ Abandoned(C) \in [Nodes -> {"none", "waiting", "ok", "error"}]
         /\ \A n \in Calls : req[n] = None => Abandoned(C)[n] = "none"
BY Numbers DEF TypeOK, Abandoned, Unanswered

LEMMA EvictedType ==
  ASSUME TypeOK, NEW n \in Calls, req[n] # None
  PROVE  /\ Evicted(n) \in [Calls -> ChanStates]
         /\ \A c \in Calls : req[c] = None => Evicted(n)[c] = "none"
<1>1. CachedFor(req[n].parent, req[n].fiber) \subseteq Cached(req[n].parent)
  BY DEF CachedFor
<1>2. req[n].parent \in Nodes
  BY CallerFacts
<1>. QED  BY <1>1, <1>2, CachedFacts DEF TypeOK, Evicted, ChanStates

LEMMA ShutType ==
  ASSUME TypeOK, NEW C \in SUBSET Calls, NEW M \in SUBSET Calls, \A c \in C \cup M : req[c] # None
  PROVE  /\ Shut(C, M) \in [Calls -> ChanStates]
         /\ \A c \in Calls : req[c] = None => Shut(C, M)[c] = "none"
BY DEF TypeOK, Shut, ChanStates

LEMMA OverType ==
  ASSUME TypeOK, NEW n \in Calls, req[n] # None, NEW raises \in BOOLEAN, NEW how \in {"ended", "unserved"},
         srv[n] \in {"queued", "opening"} \/ how = "ended"
  PROVE  /\ Over(n, how, raises) \in [Nodes -> SrvStates]
         /\ \A m \in Nodes :
              \/ Over(n, how, raises)[m] = srv[m]
              \/ /\ Over(n, how, raises)[m] \in {"ended", "unserved"} /\ srv[m] # "none"
                 /\ srv[m] \notin {"running", "answered", "failing", "ended"} \/ Over(n, how, raises)[m] = "ended"
<1>1. n \in Nodes /\ srv[n] # "none"
  BY CallerFacts, Numbers
<1>. QED  BY <1>1 DEF TypeOK, Over, SrvStates

LEMMA SpanType ==
  ASSUME NEW n \in Calls, req[n] \in Requests
  PROVE  Span(n) \subseteq Calls \X Sinks
<1>1. SelfContext(req[n]).sink \in Sinks \cup {None}
  BY SelfContextFacts DEF Context
<1>. QED  BY <1>1 DEF Span

(* A step that sends no request keeps the types if it keeps those of what  *)
(* it changes, unmakes no handler and touches only nodes with a request.   *)
LEMMA TypedStep ==
  ASSUME TypeOK, req' = req, clock' \in Time,
         call' \in [Nodes -> {"none", "waiting", "ok", "error"}],
         srv' \in [Nodes -> SrvStates],
         rep' \in [Nodes -> {"none", "ok", "error"}],
         chan' \in [Calls -> ChanStates],
         spans' \subseteq Calls \X Sinks,
         \A n \in Nodes : srv[n] = "none" <=> srv'[n] = "none",
         \A n \in Nodes : Served(n) => srv'[n] \in {"running", "answered", "failing", "ended"},
         \A n \in Calls : req[n] = None => call'[n] = "none" /\ rep'[n] = "none" /\ chan'[n] = "none"
  PROVE  TypeOK'
<1>1. ASSUME NEW n \in Calls
      PROVE  /\ req[n] = None <=> srv'[n] = "none"
             /\ req[n] # None => /\ req[n].fiber \in Fibers /\ req[req[n].parent] # None
                                 /\ srv'[req[n].parent] \in {"running", "answered", "failing", "ended"} /\ req[n].parent # n
                                 /\ req[n].via \in Calls /\ req[req[n].via] # None
  <2>1. n \in Nodes
    BY Numbers
  <2>2. req[n] = None <=> srv'[n] = "none"
    BY <2>1 DEF TypeOK
  <2>3. ASSUME req[n] # None PROVE srv'[req[n].parent] \in {"running", "answered", "failing", "ended"}
    <3>1. Served(req[n].parent) /\ req[n].parent \in Nodes
      BY <2>3, CallerFacts
    <3>. QED  BY <3>1 DEF Served
  <2>. QED  BY <2>2, <2>3, CallerFacts
<1>. QED  BY <1>1 DEF TypeOK, Served

LEMMA TypedCall ==
  ASSUME TypeOK, Calling
  PROVE  TypeOK'
<1>1. PICK n \in Calls, p \in Nodes, f \in Fibers, limit \in Limits, spent \in Spent :
        Call(p, n, f, limit, spent)
  BY DEF Calling
<1>2. /\ req[n] = None /\ srv[n] = "none" /\ Served(p) /\ n # p /\ n # 0
      /\ req[p] # None
      /\ req'[n].fiber = f /\ req'[n].parent = p
      /\ req'[n].via \in Calls /\ (req'[n].via = n \/ req[req'[n].via] # None)
      /\ req' \in [Nodes -> Requests \cup {None}] /\ req'[n] # None
      /\ \A m \in Nodes : m # n => req'[m] = req[m]
      /\ chan' \in [Calls -> ChanStates] /\ \A c \in Calls : chan'[c] = chan[c] \/ c = n
  BY <1>1, CallFacts
<1>3. n \in Nodes /\ Calls \subseteq Nodes
  BY Numbers
<1>4. /\ clock' = clock /\ rep' = rep /\ spans' = spans
      /\ call' = [call EXCEPT ![n] = "waiting"]
      /\ srv' = [srv EXCEPT ![n] = "queued"]
  BY <1>1 DEF Call
<1>5. /\ clock' \in Time
      /\ call' \in [Nodes -> {"none", "waiting", "ok", "error"}]
      /\ srv' \in [Nodes -> SrvStates]
      /\ rep' \in [Nodes -> {"none", "ok", "error"}] /\ spans' \subseteq Calls \X Sinks
      /\ req'[0] # None
  BY <1>2, <1>4, Numbers DEF TypeOK, SrvStates
<1>6. ASSUME NEW m \in Calls
      PROVE  /\ req'[m] = None <=> srv'[m] = "none"
             /\ req'[m] = None => call'[m] = "none" /\ rep'[m] = "none" /\ chan'[m] = "none"
             /\ req'[m] # None => /\ req'[m].fiber \in Fibers /\ req'[req'[m].parent] # None
                                  /\ srv'[req'[m].parent] \in {"running", "answered", "failing", "ended"} /\ req'[m].parent # m
                                  /\ req'[m].via \in Calls /\ req'[req'[m].via] # None
  <2>1. CASE m = n
    <3>1. req'[p] = req[p] /\ srv'[p] = srv[p] /\ srv'[n] = "queued"
      BY <1>2, <1>3, <1>4 DEF TypeOK
    <3>2. srv'[p] \in {"running", "answered", "failing", "ended"}
      BY <1>2, <3>1 DEF Served
    <3>3. req'[req'[n].via] # None
      <4>1. CASE req'[n].via = n
        BY <1>2, <4>1
      <4>2. CASE req'[n].via # n
        BY <1>2, <1>3, <4>2
      <4>. QED  BY <4>1, <4>2
    <3>. QED  BY <1>2, <2>1, <3>1, <3>2, <3>3
  <2>2. CASE m # n
    <3>1. m \in Nodes
      BY Numbers
    <3>2. /\ req'[m] = req[m] /\ srv'[m] = srv[m] /\ call'[m] = call[m] /\ rep'[m] = rep[m]
          /\ chan'[m] = chan[m]
      BY <1>2, <1>3, <1>4, <2>2, <3>1 DEF TypeOK
    <3>3. CASE req[m] = None
      BY <3>2, <3>3 DEF TypeOK
    <3>4. CASE req[m] # None
      <4>. DEFINE q == req[m].parent
      <4>1. /\ q \in Nodes /\ q # m /\ req[q] # None /\ Served(q) /\ req[m].fiber \in Fibers
            /\ srv[m] # "none" /\ req[m].via \in Calls /\ req[req[m].via] # None
        BY <3>4, CallerFacts
      <4>2. q # n /\ req[m].via # n
        BY <1>2, <4>1
      <4>3. req'[q] = req[q] /\ srv'[q] = srv[q] /\ req'[req[m].via] = req[req[m].via]
        BY <1>2, <1>3, <1>4, <4>1, <4>2 DEF TypeOK
      <4>4. srv'[q] \in {"running", "answered", "failing", "ended"}
        BY <4>1, <4>3 DEF Served
      <4>. QED  BY <3>2, <3>4, <4>1, <4>3, <4>4
    <3>. QED  BY <3>3, <3>4
  <2>. QED  BY <2>1, <2>2
<1>. QED  BY <1>2, <1>5, <1>6 DEF TypeOK, Served

(* Ends of handlers.                                                       *)
LEMMA TypedEnd ==
  ASSUME TypeOK, NEW n \in Calls, req[n] # None, NEW raises \in BOOLEAN, NEW how \in {"ended", "unserved"},
         srv[n] \in {"queued", "opening"} \/ how = "ended",
         req' = req, clock' = clock, srv' = Over(n, how, raises),
         call' \in [Nodes -> {"none", "waiting", "ok", "error"}],
         rep' \in [Nodes -> {"none", "ok", "error"}],
         chan' \in [Calls -> ChanStates],
         spans' \subseteq Calls \X Sinks,
         \A m \in Calls : req[m] = None => call'[m] = "none" /\ rep'[m] = "none" /\ chan'[m] = "none"
  PROVE  TypeOK'
<1>1. /\ srv' \in [Nodes -> SrvStates]
      /\ \A m \in Nodes :
           \/ srv'[m] = srv[m]
           \/ /\ srv'[m] \in {"ended", "unserved"} /\ srv[m] # "none"
              /\ srv[m] \notin {"running", "answered", "failing", "ended"} \/ srv'[m] = "ended"
  BY OverType
<1>2. \A m \in Nodes : srv[m] = "none" <=> srv'[m] = "none"
  BY <1>1
<1>3. \A m \in Nodes : Served(m) => srv'[m] \in {"running", "answered", "failing", "ended"}
  BY <1>1 DEF Served
<1>4. clock' \in Time
  BY DEF TypeOK
<1>. QED  BY <1>1, <1>2, <1>3, <1>4, TypedStep

(* Deliveries, timeouts and failures.                                      *)
LEMMA TypedReturn ==
  ASSUME TypeOK, NEW n \in Calls, call[n] = "waiting",
         req' = req, clock' = clock, srv' = srv, rep' = rep, spans' = spans,
         NEW v \in {"ok", "error"}, call' = [call EXCEPT ![n] = v],
         chan' = chan \/ chan' = Evicted(n)
  PROVE  TypeOK'
<1>1. req[n] # None
  BY DEF TypeOK
<1>2. chan' \in [Calls -> ChanStates] /\ \A c \in Calls : req[c] = None => chan'[c] = "none"
  BY <1>1, EvictedType DEF TypeOK
<1>3. call' \in [Nodes -> {"none", "waiting", "ok", "error"}] /\ \A c \in Calls : req[c] = None => call'[c] = "none"
  BY <1>1, Numbers DEF TypeOK
<1>4. \A m \in Nodes : Served(m) => srv'[m] \in {"running", "answered", "failing", "ended"}
  BY DEF Served
<1>. QED  BY <1>2, <1>3, <1>4, TypedStep DEF TypeOK

LEMMA StepTyped ==
  ASSUME TypeOK, [Next]_vars
  PROVE  TypeOK'
<1>. USE Numbers
<1>1. CASE UNCHANGED vars
  BY <1>1 DEF vars, TypeOK, Served
<1>2. CASE Calling
  BY <1>2, TypedCall
<1>3. CASE Tick
  <2>1. clock' \in Time
    BY <1>3 DEF Tick, Time, TypeOK
  <2>. QED  BY <1>3, <2>1, TypedStep DEF Tick, TypeOK, Served
<1>4. ASSUME NEW missed \in SUBSET Cached(0), CloseApp(missed) PROVE TypeOK'
  <2>1. /\ srv' = [srv EXCEPT ![0] = "ended"] /\ srv[0] = "running" /\ call' = Abandoned(Closes(0, missed))
        /\ chan' = Shut(Closes(0, missed), missed)
        /\ clock' = clock /\ req' = req /\ rep' = rep /\ spans' = spans
    BY <1>4 DEF CloseApp
  <2>2. /\ Closes(0, missed) \in SUBSET Calls /\ missed \in SUBSET Calls
        /\ \A c \in Closes(0, missed) \cup missed : req[c] # None
    BY CachedFacts DEF Closes
  <2>3. chan' \in [Calls -> ChanStates] /\ \A c \in Calls : req[c] = None => chan'[c] = "none"
    BY <2>1, <2>2, ShutType
  <2>4. /\ call' \in [Nodes -> {"none", "waiting", "ok", "error"}]
        /\ \A c \in Calls : req[c] = None => call'[c] = "none"
    BY <2>1, AbandonedType
  <2>5. srv' \in [Nodes -> SrvStates] /\ \A m \in Nodes : (Served(m) => srv'[m] \in {"running", "answered", "failing", "ended"}) /\ (srv[m] = "none" <=> srv'[m] = "none")
    BY <2>1 DEF TypeOK, SrvStates, Served
  <2>. QED  BY <2>1, <2>3, <2>4, <2>5, TypedStep DEF TypeOK
<1>5. ASSUME NEW n \in Calls, Deliver(n) PROVE TypeOK'
  <2>1. rep[n] \in {"ok", "error"}
    BY <1>5 DEF Deliver, TypeOK
  <2>. QED  BY <1>5, <2>1, TypedReturn DEF Deliver
<1>6. ASSUME NEW n \in Calls, Timeout(n) PROVE TypeOK'
  BY <1>6, TypedReturn DEF Timeout
<1>7. ASSUME NEW n \in Calls, Fail(n) PROVE TypeOK'
  <2>1. Unanswered(n) \in {"ok", "error"}
    BY DEF Unanswered
  <2>. QED  BY <1>7, <2>1, TypedReturn DEF Fail
<1>8. ASSUME NEW n \in Calls, Start(n) \/ Opened(n) \/ Return(n) \/ Raise(n) PROVE TypeOK'
  <2>1. /\ req' = req /\ clock' = clock /\ call' = call /\ chan' = chan /\ spans' = spans
        /\ rep' \in [Nodes -> {"none", "ok", "error"}]
        /\ \A m \in Calls : req[m] = None => rep'[m] = "none"
        /\ srv' \in [Nodes -> SrvStates]
        /\ \A m \in Nodes : (srv[m] = "none" <=> srv'[m] = "none") /\ (Served(m) => srv'[m] \in {"running", "answered", "failing", "ended"})
    BY <1>8 DEF Start, IsNext, Opened, Return, Raise, TypeOK, SrvStates, Served
  <2>. QED  BY <2>1, TypedStep DEF TypeOK
<1>9. ASSUME NEW n \in Calls, OpenFails(n) PROVE TypeOK'
  <2>1. /\ srv[n] = "opening" /\ srv' = Over(n, "unserved", TRUE) /\ chan' = Shut(ServedOn(n, TRUE), {})
        /\ req' = req /\ clock' = clock /\ call' = call /\ rep' = rep /\ spans' = spans
    BY <1>9 DEF OpenFails
  <2>2. req[n] # None
    BY <2>1 DEF TypeOK
  <2>3. ServedOn(n, TRUE) \in SUBSET Calls /\ \A c \in ServedOn(n, TRUE) \cup {} : req[c] # None
    BY <2>2, CallerFacts DEF ServedOn
  <2>4. chan' \in [Calls -> ChanStates] /\ \A c \in Calls : req[c] = None => chan'[c] = "none"
    BY <2>1, <2>3, ShutType
  <2>. QED  BY <2>1, <2>2, <2>4, TypedEnd DEF TypeOK
<1>10. ASSUME NEW n \in Calls, NEW raises \in BOOLEAN, Refuse(n, raises) PROVE TypeOK'
  <2>1. /\ srv[n] = "queued" /\ srv' = Over(n, "unserved", raises) /\ rep' = [rep EXCEPT ![n] = "error"]
        /\ req' = req /\ clock' = clock /\ call' = call /\ chan' = chan /\ spans' = spans
    BY <1>10 DEF Refuse, IsNext
  <2>2. req[n] # None
    BY <2>1 DEF TypeOK
  <2>. QED  BY <2>1, <2>2, TypedEnd DEF TypeOK
<1>11. ASSUME NEW n \in Calls, Cut(n) PROVE TypeOK'
  <2>1. /\ srv[n] = "running" /\ srv' = [srv EXCEPT ![n] = "answered"]
        /\ req' = req /\ clock' = clock /\ rep' = rep /\ chan' = chan /\ spans' = spans
    BY <1>11 DEF Cut
  <2>2. PICK cancelled \in SUBSET {m \in Calls : call[m] = "waiting" /\ req[m].parent = n} :
          call' = [m \in Nodes |-> IF m \in cancelled THEN "error" ELSE call[m]]
    BY <1>11 DEF Cut
  <2>3. /\ call' \in [Nodes -> {"none", "waiting", "ok", "error"}]
        /\ \A c \in Calls : req[c] = None => call'[c] = "none"
    BY <2>2 DEF TypeOK
  <2>4. srv' \in [Nodes -> SrvStates] /\ \A m \in Nodes : (Served(m) => srv'[m] \in {"running", "answered", "failing", "ended"}) /\ (srv[m] = "none" <=> srv'[m] = "none")
    BY <2>1 DEF TypeOK, SrvStates, Served
  <2>. QED  BY <2>1, <2>3, <2>4, TypedStep DEF TypeOK
<1>12. ASSUME NEW n \in Calls, NEW raises \in BOOLEAN, NEW missed \in SUBSET Cached(n), Finish(n, missed, raises)
       PROVE  TypeOK'
  <2>1. /\ srv[n] \in {"answered", "failing"} /\ srv' = Over(n, "ended", raises) /\ spans' = spans \cup Span(n)
        /\ rep' = [rep EXCEPT ![n] = IF srv[n] = "failing" THEN "error" ELSE @]
        /\ call' = Abandoned(Closes(n, missed))
        /\ chan' = Shut(Closes(n, missed) \cup ServedOn(n, raises), missed)
        /\ req' = req /\ clock' = clock
    BY <1>12 DEF Finish
  <2>2. req[n] # None
    BY <2>1 DEF TypeOK
  <2>3. spans' \subseteq Calls \X Sinks
    BY <2>1, <2>2, CallerFacts, SpanType DEF TypeOK
  <2>4. rep' \in [Nodes -> {"none", "ok", "error"}] /\ \A m \in Calls : req[m] = None => rep'[m] = "none"
    BY <2>1, <2>2 DEF TypeOK
  <2>5. /\ Closes(n, missed) \cup ServedOn(n, raises) \in SUBSET Calls /\ missed \in SUBSET Calls
        /\ \A c \in (Closes(n, missed) \cup ServedOn(n, raises)) \cup missed : req[c] # None
    BY <2>2, CachedFacts, CallerFacts DEF Closes, ServedOn
  <2>6. chan' \in [Calls -> ChanStates] /\ \A c \in Calls : req[c] = None => chan'[c] = "none"
    BY <2>1, <2>5, ShutType
  <2>7. /\ call' \in [Nodes -> {"none", "waiting", "ok", "error"}]
        /\ \A c \in Calls : req[c] = None => call'[c] = "none"
    BY <2>1, AbandonedType
  <2>. QED  BY <2>1, <2>2, <2>3, <2>4, <2>6, <2>7, TypedEnd
<1>. QED  BY <1>1, <1>2, <1>3, <1>4, <1>5, <1>6, <1>7, <1>8, <1>9, <1>10, <1>11, <1>12 DEF Next, Calling

(* TypeOK: budgets are never overdrawn (Context::child, envelope.rs:110)   *)
(* and every request has a caller that was served and a channel.           *)
THEOREM CallsTypeCorrect == Spec => []TypeOK
<1>1. Init => TypeOK
  BY InitTyped
<1>2. TypeOK /\ [Next]_vars => TypeOK'
  BY StepTyped
<1>. QED  BY <1>1, <1>2, PTL DEF Spec

(***************************************************************************)
(* A request against those it descends from. RootInv: the app's context is *)
(* no call's. Descent: the line of a request is made of requests, and no   *)
(* deadline on it is earlier than its own. Metered: with a budget at the   *)
(* root, what is left of it and the length of the line add up to no more   *)
(* than it was, once there is anything left.                               *)
(***************************************************************************)
RootInv == req[0].fiber = None /\ req[0].line = <<>>

NoLater(c, d) == d.deadline # None => c.deadline \in Nat /\ c.deadline <= d.deadline

Descends(n) ==
  \A k \in DOMAIN req[n].line : req[req[n].line[k]] # None /\ NoLater(req[n].ctx, req[req[n].line[k]].ctx)

Descent == \A n \in Nodes : req[n] # None => Descends(n)

WithinBudget(r, root) ==
  root.ctx.budget # None =>
    /\ r.ctx.budget \in Nat
    /\ r.ctx.budget = 0 \/ r.ctx.budget + Len(r.line) <= root.ctx.budget + 1

Metered == \A n \in Nodes : req[n] # None => WithinBudget(req[n], req[0])

ContextInv == TypeOK /\ RootInv /\ Descent /\ Metered /\ BudgetBoundsDepth

LEMMA LineGrows ==
  ASSUME NEW s \in Seq(Nodes), NEW p \in Nodes
  PROVE  /\ Append(s, p) \in Seq(Nodes) /\ Len(s) \in Nat /\ Len(Append(s, p)) = Len(s) + 1
         /\ DOMAIN s = 1..Len(s) /\ DOMAIN Append(s, p) = 1..(Len(s) + 1)
         /\ \A k \in DOMAIN s : Append(s, p)[k] = s[k]
         /\ Append(s, p)[Len(s) + 1] = p
OBVIOUS

LEMMA InitContexts ==
  ASSUME Init
  PROVE  ContextInv
<1>1. TypeOK
  BY InitTyped
<1>2. PICK c \in Roots :
        req = [n \in Nodes |-> IF n = 0 THEN [fiber |-> None, parent |-> 0, ctx |-> c, line |-> <<>>, via |-> 0] ELSE None]
  BY DEF Init
<1>. DEFINE root == [fiber |-> None, parent |-> 0, ctx |-> c, line |-> <<>>, via |-> 0]
<1>3. req[0] = root /\ \A n \in Calls : req[n] = None
  <2>. HIDE DEF root
  <2>. QED  BY <1>2, Numbers DEF root
<1>4. req[0].fiber = None /\ req[0].line = <<>> /\ req[0].ctx = c
  BY <1>3
<1>. HIDE DEF root
<1>5. RootInv /\ Descent
  <2>1. Descends(0)
    BY <1>4 DEF Descends
  <2>. QED  BY <1>3, <1>4, <2>1, Numbers DEF RootInv, Descent
<1>6. c.budget \in Nat \cup {None}
  BY CallsAssumption DEF Context
<1>7. Metered
  <2>1. WithinBudget(req[0], req[0])
    <3>1. Len(req[0].line) = 0
      BY <1>4
    <3>. QED  BY <1>4, <1>6, <3>1 DEF WithinBudget
  <2>. QED  BY <1>3, <2>1, Numbers DEF Metered
<1>8. BudgetBoundsDepth
  BY Numbers DEF BudgetBoundsDepth, Serving, Init
<1>. QED  BY <1>1, <1>5, <1>7, <1>8 DEF ContextInv

(* A call's context is derived from its caller's.                          *)
LEMMA NewContextFacts ==
  ASSUME TypeOK, NEW n \in Calls, NEW p \in Nodes, NEW f \in Fibers,
         NEW limit \in Limits, NEW spent \in Spent, Call(p, n, f, limit, spent)
  PROVE  LET c == NewContext(p, limit, spent, n) IN
         /\ NoLater(c, req[p].ctx)
         /\ req[p].ctx.budget # None =>
              c.budget \in Nat /\ (c.budget = 0 \/ c.budget < req[p].ctx.budget
                                    \/ (p = 0 /\ c.budget = req[p].ctx.budget))
<1>1. req[p] \in Requests
  BY CallFacts
<1>2. req[p].ctx \in Context
  BY <1>1 DEF Requests
<1>3. req[p].ctx.deadline \in Nat \cup {None} /\ req[p].ctx.budget \in Nat \cup {None}
  BY <1>2 DEF Context
<1>4. CASE p = 0
  BY <1>3, <1>4 DEF NewContext, NoLater
<1>5. CASE p # 0
  <2>. DEFINE s == SelfContext(req[p])
              d == Child(s, limit, spent, n)
  <2>1. s \in Context /\ s.deadline = req[p].ctx.deadline /\ s.budget = req[p].ctx.budget
    BY <1>1, SelfContextFacts
  <2>2. /\ s.deadline # None => d.deadline \in Nat /\ d.deadline <= s.deadline
        /\ s.budget # None => d.budget \in Nat /\ (d.budget = 0 \/ d.budget < s.budget)
    BY <2>1, ChildShrinks, Numbers
  <2>3. NewContext(p, limit, spent, n) = d
    BY <1>5 DEF NewContext
  <2>4. /\ req[p].ctx.deadline # None => d.deadline \in Nat /\ d.deadline <= req[p].ctx.deadline
        /\ req[p].ctx.budget # None => d.budget \in Nat /\ (d.budget = 0 \/ d.budget < req[p].ctx.budget)
    BY <2>1, <2>2
  <2>. HIDE DEF d
  <2>5. NoLater(d, req[p].ctx)
    BY <2>4 DEF NoLater
  <2>6. NoLater(NewContext(p, limit, spent, n), req[p].ctx)
    BY <2>3, <2>5
  <2>. QED  BY <2>3, <2>4, <2>6
<1>. QED  BY <1>4, <1>5

LEMMA CallKeepsContexts ==
  ASSUME ContextInv, Calling
  PROVE  RootInv' /\ Descent' /\ Metered'
<1>1. PICK n \in Calls, p \in Nodes, f \in Fibers, limit \in Limits, spent \in Spent :
        Call(p, n, f, limit, spent)
  BY DEF Calling
<1>. DEFINE c == NewContext(p, limit, spent, n)
            line == Append(req[p].line, p)
<1>2. TypeOK /\ RootInv /\ Descent /\ Metered
  BY DEF ContextInv
<1>3. /\ req[n] = None /\ n # p /\ n # 0 /\ req[p] \in Requests /\ req[p] # None
      /\ req'[n].ctx = c /\ req'[n].line = line /\ req'[n] # None
      /\ \A m \in Nodes : m # n => req'[m] = req[m]
  BY <1>1, <1>2, CallFacts
<1>4. /\ NoLater(c, req[p].ctx)
      /\ req[p].ctx.budget # None =>
           c.budget \in Nat /\ (c.budget = 0 \/ c.budget < req[p].ctx.budget
                                 \/ (p = 0 /\ c.budget = req[p].ctx.budget))
  BY <1>1, <1>2, NewContextFacts
<1>5. req'[n].ctx = c /\ req'[n].line = line
  BY <1>3
<1>. HIDE DEF c
<1>6. req'[0] = req[0] /\ req[0] \in Requests
  BY <1>2, <1>3, Numbers DEF TypeOK
<1>7. /\ req[p].line \in Seq(Nodes) /\ req[p].ctx.deadline \in Nat \cup {None}
      /\ req[p].ctx.budget \in Nat \cup {None} /\ req[0].ctx.budget \in Nat \cup {None}
  BY <1>3, <1>6 DEF Requests, Context
<1>8. RootInv'
  BY <1>2, <1>6 DEF RootInv
<1>9. ASSUME NEW m \in Nodes, req'[m] # None PROVE Descends(m)'
  <2>1. CASE m # n
    <3>1. req'[m] = req[m] /\ Descends(m)
      BY <1>2, <1>3, <1>9, <2>1 DEF Descent
    <3>2. req[m].line \in Seq(Nodes)
      BY <1>2, <1>9, <3>1 DEF TypeOK, Requests
    <3>3. ASSUME NEW k \in DOMAIN req[m].line
          PROVE  req'[req[m].line[k]] = req[req[m].line[k]]
      <4>1. req[m].line[k] \in Nodes /\ req[req[m].line[k]] # None
        BY <3>1, <3>2 DEF Descends
      <4>. QED  BY <1>3, <4>1
    <3>. QED  BY <3>1, <3>3 DEF Descends
  <2>2. CASE m = n
    <3>1. Descends(p)
      BY <1>2, <1>3 DEF Descent
    <3>2. ASSUME NEW k \in DOMAIN line
          PROVE  req'[line[k]] # None /\ NoLater(c, req'[line[k]].ctx)
      <4>1. CASE k = Len(req[p].line) + 1
        <5>1. line[k] = p
          BY <1>7, <4>1, LineGrows
        <5>. QED  BY <1>3, <1>4, <5>1
      <4>2. CASE k # Len(req[p].line) + 1
        <5>1. k \in DOMAIN req[p].line
          BY <1>7, <4>2, LineGrows
        <5>. DEFINE q == req[p].line[k]
        <5>2. line[k] = q
          BY <1>7, <5>1, LineGrows
        <5>3. q \in Nodes /\ req[q] # None /\ NoLater(req[p].ctx, req[q].ctx)
          BY <1>7, <3>1, <5>1 DEF Descends
        <5>4. req'[q] = req[q]
          BY <1>3, <5>3
        <5>5. req[q].ctx.deadline \in Nat \cup {None}
          BY <1>2, <5>3 DEF TypeOK, Requests, Context
        <5>6. NoLater(c, req[q].ctx)
          <6>. HIDE DEF q
          <6>. QED  BY <1>4, <5>3, <5>5, CallsAssumption DEF NoLater
        <5>. QED  BY <5>2, <5>3, <5>4, <5>6
      <4>. QED  BY <4>1, <4>2
    <3>. QED  BY <1>5, <2>2, <3>2 DEF Descends
  <2>. QED  BY <2>1, <2>2
<1>10. Descent'
  BY <1>9 DEF Descent
<1>11. ASSUME NEW m \in Nodes, req'[m] # None PROVE WithinBudget(req'[m], req'[0])
  <2>1. CASE m # n
    BY <1>2, <1>3, <1>6, <1>11, <2>1 DEF Metered
  <2>2. CASE m = n
    <3>1. WithinBudget(req[p], req[0])
      BY <1>2, <1>3 DEF Metered
    <3>2. Len(line) = Len(req[p].line) + 1 /\ Len(req[p].line) \in Nat
      BY <1>7, LineGrows
    <3>3. p = 0 => req[p].line = <<>>
      BY <1>2 DEF RootInv
    <3>. HIDE DEF line
    <3>4. ASSUME req[0].ctx.budget # None
          PROVE  c.budget \in Nat /\ (c.budget = 0 \/ c.budget + Len(line) <= req[0].ctx.budget + 1)
      <4>1. req[0].ctx.budget \in Nat /\ req[p].ctx.budget \in Nat
            /\ (req[p].ctx.budget = 0 \/ req[p].ctx.budget + Len(req[p].line) <= req[0].ctx.budget + 1)
        BY <1>7, <3>1, <3>4, CallsAssumption DEF WithinBudget
      <4>2. c.budget \in Nat /\ (c.budget = 0 \/ c.budget < req[p].ctx.budget
                                  \/ (p = 0 /\ c.budget = req[p].ctx.budget))
        BY <1>4, <4>1, CallsAssumption
      <4>3. CASE p = 0
        <5>1. Len(req[p].line) = 0
          BY <3>3, <4>3
        <5>2. req[p].ctx.budget = req[0].ctx.budget
          BY <4>3
        <5>. QED  BY <3>2, <4>1, <4>2, <5>1, <5>2
      <4>4. CASE p # 0
        <5>1. \A b, d, l, root \in Nat :
                (b = 0 \/ b + l <= root + 1) /\ (d = 0 \/ d < b) => d = 0 \/ d + (l + 1) <= root + 1
          OBVIOUS
        <5>. QED  BY <3>2, <4>1, <4>2, <4>4, <5>1
      <4>. QED  BY <4>3, <4>4
    <3>. QED  BY <1>5, <1>6, <2>2, <3>4 DEF WithinBudget
  <2>. QED  BY <2>1, <2>2
<1>12. Metered'
  BY <1>11 DEF Metered
<1>. QED  BY <1>8, <1>10, <1>12

(* A handler serves only after the gates.                                  *)
LEMMA OnlyStartServes ==
  ASSUME TypeOK, [Next]_vars, NEW m \in Calls, Serving(m)', ~Serving(m)
  PROVE  Start(m)
<1>. USE DEF Serving
<1>1. m \in Nodes /\ m # 0
  BY Numbers
<1>2. CASE UNCHANGED vars
  BY <1>2 DEF vars
<1>3. ASSUME NEW missed, Tick \/ CloseApp(missed) PROVE FALSE
  BY <1>1, <1>3 DEF Tick, CloseApp, TypeOK
<1>4. ASSUME NEW n \in Calls, NEW p \in Nodes, NEW f \in Fibers,
             NEW limit \in Limits, NEW spent \in Spent, Call(p, n, f, limit, spent)
      PROVE  FALSE
  BY <1>1, <1>4 DEF Call, TypeOK
<1>5. ASSUME NEW n \in Calls,
             Deliver(n) \/ Timeout(n) \/ Fail(n) \/ Opened(n) \/ Return(n) \/ Raise(n) \/ Cut(n)
      PROVE  FALSE
  BY <1>1, <1>5 DEF Deliver, Timeout, Fail, Opened, Return, Raise, Cut, TypeOK
<1>6. ASSUME NEW n \in Calls, NEW raises, NEW missed,
             OpenFails(n) \/ Refuse(n, raises) \/ Finish(n, missed, raises)
      PROVE  FALSE
  <2>1. PICK how \in {"ended", "unserved"} : \E r : srv' = Over(n, how, r)
    BY <1>6 DEF OpenFails, Refuse, Finish
  <2>2. srv'[m] \in {"ended", "unserved", srv[m]}
    BY <1>1, <2>1 DEF Over
  <2>. QED  BY <2>2
<1>7. ASSUME NEW n \in Calls, Start(n) PROVE Start(m)
  BY <1>1, <1>7 DEF Start, TypeOK
<1>. QED  BY <1>2, <1>3, <1>4, <1>5, <1>6, <1>7 DEF Next

(* A handler starts with a budget left, so its line is within the root's.  *)
LEMMA StepKeepsDepth ==
  ASSUME ContextInv, [Next]_vars
  PROVE  BudgetBoundsDepth'
<1>1. TypeOK /\ RootInv /\ Metered /\ BudgetBoundsDepth /\ req \in [Nodes -> Requests \cup {None}]
  BY DEF ContextInv, TypeOK
<1>2. req'[0] = req[0] /\ \A m \in Calls : req[m] # None => req'[m] = req[m]
  <2>1. CASE req' = req
    BY <2>1
  <2>2. CASE Calling
    <3>1. PICK n \in Calls, p \in Nodes, f \in Fibers, limit \in Limits, spent \in Spent :
            Call(p, n, f, limit, spent)
      BY <2>2 DEF Calling
    <3>. QED  BY <1>1, <3>1, CallFacts, Numbers
  <2>. QED  BY <2>1, <2>2, OnlyCallsSend
<1>3. \A m \in Calls : Serving(m)' /\ ~Serving(m) => Start(m)
  BY <1>1, OnlyStartServes
<1>4. ASSUME NEW m \in Calls, Serving(m)', req[0].ctx.budget # None
      PROVE  Len(req'[m].line) <= req[0].ctx.budget
  <2>1. CASE Serving(m)
    <3>1. req[m] # None
      BY <1>1, <2>1 DEF TypeOK, Serving
    <3>. QED  BY <1>1, <1>2, <1>4, <2>1, <3>1 DEF BudgetBoundsDepth
  <2>2. CASE ~Serving(m)
    <3>1. Start(m)
      BY <1>3, <1>4, <2>2
    <3>2. m \in Nodes /\ req[m] # None /\ Admitted(req[m].ctx, req[m].fiber, clock)
      BY <1>1, <3>1, Numbers DEF Start, IsNext, TypeOK
    <3>3. WithinBudget(req[m], req[0])
      BY <1>1, <3>2 DEF Metered
    <3>4. req[m].ctx.budget \in Nat /\ req[m].ctx.budget > 0
      <4>1. req[m].ctx.budget \in Nat
        BY <1>4, <3>3 DEF WithinBudget
      <4>. QED  BY <3>2, <4>1, CallsAssumption DEF Admitted
    <3>5. req[m].line \in Seq(Nodes) /\ req[0].ctx.budget \in Nat
      BY <1>1, <1>4, <3>2, Numbers DEF TypeOK, Requests, Context
    <3>6. Len(req[m].line) \in Nat
      BY <3>5
    <3>7. req[m].ctx.budget + Len(req[m].line) <= req[0].ctx.budget + 1
      <4>1. req[m].ctx.budget # 0
        BY <3>4
      <4>. QED  BY <1>4, <3>3, <4>1 DEF WithinBudget
    <3>8. Len(req[m].line) <= req[0].ctx.budget
      <4>1. \A b, l, root \in Nat : b > 0 /\ b + l <= root + 1 => l <= root
        OBVIOUS
      <4>. QED  BY <3>4, <3>5, <3>6, <3>7, <4>1
    <3>. QED  BY <1>2, <3>2, <3>8
  <2>. QED  BY <2>1, <2>2
<1>. QED  BY <1>2, <1>4 DEF BudgetBoundsDepth

LEMMA StepKeepsContexts ==
  ASSUME ContextInv, [Next]_vars
  PROVE  ContextInv'
<1>1. TypeOK'
  BY StepTyped DEF ContextInv
<1>2. BudgetBoundsDepth'
  BY StepKeepsDepth
<1>3. RootInv' /\ Descent' /\ Metered'
  <2>1. CASE req' = req
    BY <2>1 DEF ContextInv, RootInv, Descent, Descends, Metered
  <2>2. CASE Calling
    BY <2>2, CallKeepsContexts
  <2>. QED  BY <2>1, <2>2, OnlyCallsSend
<1>. QED  BY <1>1, <1>2, <1>3 DEF ContextInv

(* BudgetBoundsDepth: a chain of handlers, or a loop of fibers that call   *)
(* each other (app.py:346), is no longer than the budget of the app.       *)
THEOREM BudgetBoundsChains == Spec => []BudgetBoundsDepth
<1>1. Init => ContextInv
  BY InitContexts
<1>2. ContextInv /\ [Next]_vars => ContextInv'
  BY StepKeepsContexts
<1>3. ContextInv => BudgetBoundsDepth
  BY DEF ContextInv
<1>. QED  BY <1>1, <1>2, <1>3, PTL DEF Spec

(* AdmittedInTime: however long a request waited behind others of its      *)
(* channel, its handler is admitted within the deadline of every           *)
(* invocation it descends from (app.py:346, envelope.rs:96).               *)
THEOREM HandlersAdmittedInTime == Spec => AdmittedInTime
<1>1. ContextInv /\ [Next]_vars =>
        [\A n \in Calls : srv[n] = "queued" /\ srv'[n] \in {"opening", "running"} =>
            \A k \in DOMAIN req[n].line : ~DeadlinePassed(req[req[n].line[k]].ctx, clock)]_vars
  <2>. SUFFICES ASSUME ContextInv, [Next]_vars, NEW n \in Calls, srv[n] = "queued", srv'[n] \in {"opening", "running"},
                       NEW k \in DOMAIN req[n].line
                PROVE  ~DeadlinePassed(req[req[n].line[k]].ctx, clock)
    OBVIOUS
  <2>. DEFINE a == req[n].line[k]
  <2>1. Start(n)
    BY OnlyStartServes DEF ContextInv, Serving
  <2>2. TypeOK /\ Descent /\ n \in Nodes /\ req[n] # None /\ clock \in Nat
    BY Numbers DEF ContextInv, TypeOK
  <2>3. ~DeadlinePassed(req[n].ctx, clock)
    BY <2>1 DEF Start, Admitted
  <2>4. req[n].line \in Seq(Nodes) /\ req[n].ctx.deadline \in Nat \cup {None}
    BY <2>2 DEF TypeOK, Requests, Context
  <2>5. a \in Nodes /\ req[a] # None /\ NoLater(req[n].ctx, req[a].ctx)
    BY <2>2, <2>4 DEF Descent, Descends
  <2>6. req[a].ctx.deadline \in Nat \cup {None}
    BY <2>2, <2>5 DEF TypeOK, Requests, Context
  <2>. HIDE DEF a
  <2>7. ~DeadlinePassed(req[a].ctx, clock)
    BY <2>2, <2>3, <2>4, <2>5, <2>6, CallsAssumption DEF DeadlinePassed, NoLater
  <2>. QED  BY <2>7 DEF a
<1>2. Init => ContextInv
  BY InitContexts
<1>3. ContextInv /\ [Next]_vars => ContextInv'
  BY StepKeepsContexts
<1>. QED  BY <1>1, <1>2, <1>3, PTL DEF Spec, AdmittedInTime

(***************************************************************************)
(* The sink of a trace. OwnIn: the places of a path whose fiber has a sink *)
(* of its own, in given requests; the last of them chooses.                *)
(***************************************************************************)
OwnIn(r, path) == {k \in DOMAIN path : r[path[k]].fiber # None /\ OwnSink[r[path[k]].fiber] # None}

HasLast(K) == K = {} \/ \E k \in K : \A j \in K : j <= k

ChosenBy(r, path) ==
  IF OwnIn(r, path) = {} THEN r[0].ctx.sink
  ELSE OwnSink[r[path[CHOOSE k \in OwnIn(r, path) : \A j \in OwnIn(r, path) : j <= k]].fiber]

LEMMA ChosenIsBy ==
  ASSUME NEW path
  PROVE  Chosen(path) = ChosenBy(req, path)
BY DEF Chosen, ChosenBy, OwnIn, Configured

LEMMA ChosenStable ==
  ASSUME NEW r, NEW q, NEW path, r[0] = q[0], \A k \in DOMAIN path : r[path[k]] = q[path[k]],
         HasLast(OwnIn(r, path))
  PROVE  HasLast(OwnIn(q, path)) /\ ChosenBy(q, path) = ChosenBy(r, path)
<1>. DEFINE K == OwnIn(r, path)
            last == CHOOSE k \in K : \A j \in K : j <= k
<1>1. OwnIn(q, path) = K
  BY DEF OwnIn
<1>2. CASE K = {}
  BY <1>1, <1>2 DEF ChosenBy, HasLast
<1>3. CASE K # {}
  <2>1. last \in K
    BY <1>3 DEF HasLast
  <2>2. last \in DOMAIN path
    BY <2>1 DEF OwnIn
  <2>3. r[path[last]] = q[path[last]]
    BY <2>2
  <2>. QED  BY <1>1, <1>3, <2>3 DEF ChosenBy
<1>. QED  BY <1>2, <1>3

LEMMA ChosenAppend ==
  ASSUME NEW r, NEW path \in Seq(Nodes), NEW n \in Nodes, HasLast(OwnIn(r, path))
  PROVE  /\ HasLast(OwnIn(r, Append(path, n)))
         /\ ChosenBy(r, Append(path, n)) =
              IF r[n].fiber # None /\ OwnSink[r[n].fiber] # None THEN OwnSink[r[n].fiber]
              ELSE ChosenBy(r, path)
<1>. DEFINE own(m) == r[m].fiber # None /\ OwnSink[r[m].fiber] # None
            K == OwnIn(r, path)
            L == OwnIn(r, Append(path, n))
            z == Len(path) + 1
            last(M) == CHOOSE k \in M : \A j \in M : j <= k
<1>1. /\ Len(path) \in Nat /\ DOMAIN path = 1..Len(path) /\ DOMAIN Append(path, n) = 1..z
      /\ \A k \in DOMAIN path : Append(path, n)[k] = path[k]
      /\ Append(path, n)[z] = n
  BY LineGrows
<1>2. K \subseteq 1..Len(path) /\ L \subseteq 1..z
  BY <1>1 DEF OwnIn
<1>3. \A k \in 1..Len(path) : k \in L <=> k \in K
  BY <1>1 DEF OwnIn
<1>4. z \in L <=> own(n)
  BY <1>1 DEF OwnIn
<1>5. CASE own(n)
  <2>1. z \in L /\ \A j \in L : j <= z
    BY <1>1, <1>2, <1>4, <1>5
  <2>2. last(L) \in L /\ \A j \in L : j <= last(L)
    BY <2>1
  <2>3. last(L) = z
    <3>1. z <= last(L) /\ last(L) <= z /\ last(L) \in Nat /\ z \in Nat
      BY <1>1, <1>2, <2>1, <2>2
    <3>. QED  BY <3>1
  <2>4. HasLast(L)
    BY <2>1 DEF HasLast
  <2>5. ChosenBy(r, Append(path, n)) = OwnSink[r[Append(path, n)[last(L)]].fiber]
    BY <2>1 DEF ChosenBy
  <2>. QED  BY <1>1, <1>5, <2>3, <2>4, <2>5
<1>6. CASE ~own(n)
  <2>1. L = K
    <3>1. \A k \in 1..z : k = z \/ k \in 1..Len(path)
      BY <1>1
    <3>2. z \notin L
      BY <1>4, <1>6
    <3>3. L \subseteq K
      BY <1>2, <1>3, <3>1, <3>2
    <3>4. K \subseteq L
      BY <1>2, <1>3
    <3>. QED  BY <3>3, <3>4
  <2>2. CASE K = {}
    BY <1>6, <2>1, <2>2 DEF ChosenBy, HasLast
  <2>3. CASE K # {}
    <3>1. last(K) \in K
      BY <2>3 DEF HasLast
    <3>2. last(K) \in DOMAIN path
      BY <1>1, <1>2, <3>1
    <3>3. Append(path, n)[last(K)] = path[last(K)]
      BY <1>1, <3>2
    <3>4. ChosenBy(r, path) = OwnSink[r[path[last(K)]].fiber]
      BY <2>3 DEF ChosenBy
    <3>5. ChosenBy(r, Append(path, n)) = OwnSink[r[Append(path, n)[last(K)]].fiber]
      BY <2>1, <2>3 DEF ChosenBy
    <3>6. ChosenBy(r, Append(path, n)) = ChosenBy(r, path)
      BY <3>3, <3>4, <3>5
    <3>7. HasLast(L)
      BY <2>1
    <3>. QED  BY <1>6, <3>6, <3>7
  <2>. QED  BY <2>2, <2>3
<1>. QED  BY <1>5, <1>6

(***************************************************************************)
(* SinkInv: a request carries the sink chosen on its way. SpanInv: spans   *)
(* go where their handler's context says. EndedInv: a handler that made    *)
(* calls has reported when it has ended.                                   *)
(***************************************************************************)
SinkInv ==
  \A n \in Nodes : req[n] # None =>
    HasLast(OwnIn(req, req[n].line)) /\ req[n].ctx.sink = ChosenBy(req, req[n].line)

SpanInv ==
  \A n \in Calls, s \in Sinks : <<n, s>> \in spans =>
    req[n] # None /\ s = SelfContext(req[n]).sink /\ s # None /\ req[n].ctx.trace # None

Report(r, n) ==
  LET s == SelfContext(r).sink IN IF s = None \/ r.ctx.trace = None THEN {} ELSE {<<n, s>>}

EndedInv == \A n \in Calls : srv[n] = "ended" => req[n] # None /\ Report(req[n], n) \subseteq spans

TraceInv == ContextInv /\ SinkInv /\ SpanInv /\ EndedInv

LEMMA OwnSinkOf ==
  ASSUME TypeOK, NEW n \in Nodes, req[n] # None
  PROVE  SelfContext(req[n]).sink =
           IF req[n].fiber # None /\ OwnSink[req[n].fiber] # None THEN OwnSink[req[n].fiber]
           ELSE req[n].ctx.sink
<1>1. req[n] \in Requests /\ req[n].ctx \in Context
  BY DEF TypeOK, Requests
<1>. QED  BY <1>1 DEF SelfContext, Requests, Context

LEMMA InitTraces ==
  ASSUME Init
  PROVE  TraceInv
<1>1. ContextInv
  BY InitContexts
<1>2. \A n \in Calls : req[n] = None
  BY Numbers DEF Init
<1>3. req[0].line = <<>> /\ OwnIn(req, <<>>) = {}
  BY <1>1 DEF ContextInv, RootInv, OwnIn
<1>4. SinkInv
  BY <1>2, <1>3, Numbers DEF SinkInv, HasLast, ChosenBy
<1>5. SpanInv
  BY DEF SpanInv, Init
<1>6. EndedInv
  BY Numbers DEF EndedInv, Init
<1>. QED  BY <1>1, <1>4, <1>5, <1>6 DEF TraceInv

(* A call hands the sink of its caller on.                                 *)
LEMMA CallKeepsSinks ==
  ASSUME TraceInv, Calling
  PROVE  SinkInv'
<1>1. PICK n \in Calls, p \in Nodes, f \in Fibers, limit \in Limits, spent \in Spent :
        Call(p, n, f, limit, spent)
  BY DEF Calling
<1>. DEFINE c == NewContext(p, limit, spent, n)
<1>2. TypeOK /\ RootInv /\ Descent /\ SinkInv
  BY DEF TraceInv, ContextInv
<1>3. /\ req[n] = None /\ n # 0 /\ n # p /\ req[p] \in Requests /\ req[p] # None
      /\ req'[n].ctx = c /\ req'[n].line = Append(req[p].line, p) /\ req'[n] # None
      /\ \A m \in Nodes : m # n => req'[m] = req[m]
  BY <1>1, <1>2, CallFacts
<1>4. req'[0] = req[0]
  BY <1>3, Numbers
<1>5. ASSUME NEW m \in Nodes, req[m] # None
      PROVE  /\ HasLast(OwnIn(req', req[m].line)) /\ ChosenBy(req', req[m].line) = req[m].ctx.sink
             /\ req'[m] = req[m]
  <2>1. req[m].line \in Seq(Nodes) /\ m # n
    BY <1>2, <1>3, <1>5 DEF TypeOK, Requests
  <2>2. \A k \in DOMAIN req[m].line : req[req[m].line[k]] = req'[req[m].line[k]]
    <3>1. ASSUME NEW k \in DOMAIN req[m].line
          PROVE  req[m].line[k] \in Nodes /\ req[req[m].line[k]] # None
      BY <1>2, <1>5, <2>1 DEF Descent, Descends
    <3>. QED  BY <1>3, <3>1
  <2>3. HasLast(OwnIn(req, req[m].line)) /\ req[m].ctx.sink = ChosenBy(req, req[m].line)
    BY <1>2, <1>5 DEF SinkInv
  <2>4. /\ HasLast(OwnIn(req', req[m].line))
        /\ ChosenBy(req', req[m].line) = ChosenBy(req, req[m].line)
    BY <1>4, <2>2, <2>3, ChosenStable
  <2>. QED  BY <1>3, <2>1, <2>3, <2>4
<1>6. c.sink = SelfContext(req[p]).sink
  <2>1. SelfContext(req[p]) \in Context
    BY <1>3, SelfContextFacts
  <2>2. CASE p = 0
    BY <1>2, <2>2 DEF RootInv, NewContext, SelfContext
  <2>3. CASE p # 0
    BY <2>1, <2>3, ChildShrinks, Numbers DEF NewContext
  <2>. QED  BY <2>2, <2>3
<1>7. /\ HasLast(OwnIn(req', Append(req[p].line, p)))
      /\ ChosenBy(req', Append(req[p].line, p)) = SelfContext(req[p]).sink
  <2>1. /\ HasLast(OwnIn(req', req[p].line)) /\ ChosenBy(req', req[p].line) = req[p].ctx.sink
        /\ req'[p] = req[p]
    BY <1>3, <1>5
  <2>2. req[p].line \in Seq(Nodes)
    BY <1>3 DEF Requests
  <2>3. /\ HasLast(OwnIn(req', Append(req[p].line, p)))
        /\ ChosenBy(req', Append(req[p].line, p)) =
             IF req'[p].fiber # None /\ OwnSink[req'[p].fiber] # None THEN OwnSink[req'[p].fiber]
             ELSE ChosenBy(req', req[p].line)
    BY <2>1, <2>2, ChosenAppend
  <2>. QED  BY <1>2, <1>3, <2>1, <2>3, OwnSinkOf
<1>8. req'[n].ctx = c /\ req'[n].line = Append(req[p].line, p)
  BY <1>3
<1>9. ASSUME NEW m \in Nodes, req'[m] # None
      PROVE  HasLast(OwnIn(req', req'[m].line)) /\ req'[m].ctx.sink = ChosenBy(req', req'[m].line)
  <2>1. CASE m = n
    BY <1>6, <1>7, <1>8, <2>1
  <2>2. CASE m # n
    BY <1>3, <1>5, <1>9, <2>2
  <2>. QED  BY <2>1, <2>2
<1>10. \A m \in Nodes : req'[m] # None =>
         HasLast(OwnIn(req', req'[m].line)) /\ req'[m].ctx.sink = ChosenBy(req', req'[m].line)
  BY <1>9
<1>. QED  BY <1>10 DEF SinkInv, HasLast, ChosenBy, OwnIn

(* Spans are reported, and served handlers end, by Finish alone.           *)
LEMMA OnlyFinishReports ==
  ASSUME [Next]_vars
  PROVE  \/ spans' = spans
         \/ \E n \in Calls, raises \in BOOLEAN : \E missed \in SUBSET Cached(n) : Finish(n, missed, raises)
<1>1. CASE \/ UNCHANGED vars \/ Tick
           \/ \E missed \in SUBSET Cached(0) : CloseApp(missed)
  BY <1>1 DEF vars, Tick, CloseApp
<1>2. ASSUME NEW n \in Calls, NEW p \in Nodes, NEW f \in Fibers,
             NEW limit \in Limits, NEW spent \in Spent, Call(p, n, f, limit, spent)
      PROVE  spans' = spans
  BY <1>2 DEF Call
<1>3. ASSUME NEW n \in Calls,
             \/ Deliver(n) \/ Timeout(n) \/ Fail(n) \/ Start(n) \/ Opened(n) \/ OpenFails(n)
             \/ Return(n) \/ Raise(n) \/ Cut(n)
      PROVE  spans' = spans
  BY <1>3 DEF Deliver, Timeout, Fail, Start, Opened, OpenFails, Return, Raise, Cut
<1>4. ASSUME NEW n \in Calls, NEW raises \in BOOLEAN, Refuse(n, raises)
      PROVE  spans' = spans
  BY <1>4 DEF Refuse
<1>. QED  BY <1>1, <1>2, <1>3, <1>4 DEF Next

LEMMA OnlyFinishEnds ==
  ASSUME TypeOK, [Next]_vars, NEW m \in Calls, srv[m] # "ended", srv'[m] = "ended"
  PROVE  \E missed, raises : Finish(m, missed, raises)
<1>1. m \in Nodes /\ m # 0
  BY Numbers
<1>2. CASE UNCHANGED vars
  BY <1>2 DEF vars
<1>3. ASSUME NEW missed, Tick \/ CloseApp(missed) PROVE FALSE
  BY <1>1, <1>3 DEF Tick, CloseApp, TypeOK
<1>4. ASSUME NEW n \in Calls, NEW p \in Nodes, NEW f \in Fibers,
             NEW limit \in Limits, NEW spent \in Spent, Call(p, n, f, limit, spent)
      PROVE  FALSE
  BY <1>1, <1>4 DEF Call, TypeOK
<1>5. ASSUME NEW n \in Calls,
             \/ Deliver(n) \/ Timeout(n) \/ Fail(n) \/ Start(n) \/ Opened(n)
             \/ Return(n) \/ Raise(n) \/ Cut(n)
      PROVE  FALSE
  BY <1>1, <1>5 DEF Deliver, Timeout, Fail, Start, Opened, Return, Raise, Cut, TypeOK
<1>6. ASSUME NEW n \in Calls, NEW raises, OpenFails(n) \/ Refuse(n, raises)
      PROVE  FALSE
  <2>1. PICK r : srv' = Over(n, "unserved", r)
    BY <1>6 DEF OpenFails, Refuse
  <2>2. srv'[m] \in {"unserved", srv[m]}
    BY <1>1, <2>1 DEF Over
  <2>. QED  BY <2>2
<1>7. ASSUME NEW n \in Calls, NEW raises, NEW missed, Finish(n, missed, raises)
      PROVE  m = n
  BY <1>1, <1>7 DEF Finish, Over, TypeOK
<1>. QED  BY <1>2, <1>3, <1>4, <1>5, <1>6, <1>7 DEF Next

LEMMA StepKeepsRequests ==
  ASSUME TypeOK, [Next]_vars, NEW m \in Nodes, req[m] # None
  PROVE  req'[m] = req[m]
<1>1. CASE req' = req
  BY <1>1
<1>2. CASE Calling
  <2>1. PICK n \in Calls, p \in Nodes, f \in Fibers, limit \in Limits, spent \in Spent :
          Call(p, n, f, limit, spent)
    BY <1>2 DEF Calling
  <2>. QED  BY <2>1, CallFacts
<1>. QED  BY <1>1, <1>2, OnlyCallsSend

LEMMA StepKeepsSpans ==
  ASSUME TraceInv, [Next]_vars
  PROVE  SpanInv'
<1>1. TypeOK /\ SpanInv
  BY DEF TraceInv, ContextInv
<1>2. ASSUME NEW n \in Calls, NEW s \in Sinks, <<n, s>> \in spans'
      PROVE  req'[n] # None /\ s = SelfContext(req'[n]).sink /\ s # None /\ req'[n].ctx.trace # None
  <2>1. n \in Nodes
    BY Numbers
  <2>2. req[n] # None /\ s = SelfContext(req[n]).sink /\ s # None /\ req[n].ctx.trace # None
    <3>1. CASE <<n, s>> \in spans
      BY <1>1, <3>1 DEF SpanInv
    <3>2. CASE <<n, s>> \notin spans
      <4>1. PICK m \in Calls, raises \in BOOLEAN : \E missed \in SUBSET Cached(m) : Finish(m, missed, raises)
        BY <1>2, <3>2, OnlyFinishReports
      <4>2. <<n, s>> \in Span(m) /\ srv[m] \in {"answered", "failing"}
        BY <1>2, <3>2, <4>1 DEF Finish
      <4>3. n = m /\ s = SelfContext(req[m]).sink /\ s # None /\ req[m].ctx.trace # None
        BY <4>2 DEF Span
      <4>4. req[m] # None
        BY <1>1, <4>2 DEF TypeOK
      <4>. QED  BY <4>3, <4>4
    <3>. QED  BY <3>1, <3>2
  <2>3. req'[n] = req[n]
    BY <1>1, <2>1, <2>2, StepKeepsRequests
  <2>. QED  BY <2>2, <2>3
<1>3. \A n \in Calls, s \in Sinks : <<n, s>> \in spans' =>
        req'[n] # None /\ s = SelfContext(req'[n]).sink /\ s # None /\ req'[n].ctx.trace # None
  BY <1>2
<1>. QED  BY <1>3 DEF SpanInv, SelfContext

LEMMA StepKeepsEnded ==
  ASSUME TraceInv, [Next]_vars
  PROVE  EndedInv'
<1>1. TypeOK /\ EndedInv
  BY DEF TraceInv, ContextInv
<1>2. ASSUME NEW n \in Calls, srv'[n] = "ended"
      PROVE  req'[n] # None /\ Report(req'[n], n) \subseteq spans'
  <2>1. n \in Nodes
    BY Numbers
  <2>2. req[n] # None /\ Report(req[n], n) \subseteq spans'
    <3>1. CASE srv[n] = "ended"
      <4>1. req[n] # None /\ Report(req[n], n) \subseteq spans
        BY <1>1, <3>1 DEF EndedInv
      <4>2. spans \subseteq spans'
        BY OnlyFinishReports DEF Finish
      <4>. QED  BY <4>1, <4>2
    <3>2. CASE srv[n] # "ended"
      <4>1. PICK missed, raises : Finish(n, missed, raises)
        BY <1>1, <1>2, <3>2, OnlyFinishEnds
      <4>2. req[n] # None
        BY <1>1, <4>1 DEF Finish, TypeOK
      <4>. QED  BY <4>1, <4>2 DEF Finish, Span, Report
    <3>. QED  BY <3>1, <3>2
  <2>3. req'[n] = req[n]
    BY <1>1, <2>1, <2>2, StepKeepsRequests
  <2>. QED  BY <2>2, <2>3
<1>3. \A n \in Calls : srv'[n] = "ended" => req'[n] # None /\ Report(req'[n], n) \subseteq spans'
  BY <1>2
<1>. QED  BY <1>3 DEF EndedInv, Report, SelfContext

LEMMA StepKeepsTraces ==
  ASSUME TraceInv, [Next]_vars
  PROVE  TraceInv'
<1>1. ContextInv'
  BY StepKeepsContexts DEF TraceInv
<1>2. SinkInv'
  <2>1. CASE req' = req
    BY <2>1 DEF TraceInv, SinkInv, HasLast, ChosenBy, OwnIn
  <2>2. CASE Calling
    BY <2>2, CallKeepsSinks
  <2>. QED  BY <2>1, <2>2, OnlyCallsSend
<1>. QED  BY <1>1, <1>2, StepKeepsSpans, StepKeepsEnded DEF TraceInv

LEMMA TracesCohere ==
  ASSUME TraceInv
  PROVE  CoherentTrace
<1>. SUFFICES ASSUME NEW n \in Calls, NEW s \in Sinks, <<n, s>> \in spans
              PROVE  /\ s = Chosen(Append(req[n].line, n))
                     /\ LET p == req[n].parent IN
                        /\ p # 0 /\ srv[p] = "ended" /\ req[p].ctx.trace = req[n].ctx.trace
                        /\ SelfContext(req[p]).sink = s
                        => <<p, s>> \in spans
  BY DEF CoherentTrace
<1>1. TypeOK /\ SinkInv /\ SpanInv /\ EndedInv
  BY DEF TraceInv, ContextInv
<1>2. n \in Nodes /\ req[n] # None /\ s = SelfContext(req[n]).sink /\ s # None /\ req[n].ctx.trace # None
  BY <1>1, Numbers DEF SpanInv
<1>3. req[n].line \in Seq(Nodes) /\ req[n].parent \in Nodes
  BY <1>1, <1>2, CallerFacts
<1>4. HasLast(OwnIn(req, req[n].line)) /\ req[n].ctx.sink = ChosenBy(req, req[n].line)
  BY <1>1, <1>2 DEF SinkInv
<1>5. s = ChosenBy(req, Append(req[n].line, n))
  BY <1>1, <1>2, <1>3, <1>4, ChosenAppend, OwnSinkOf
<1>6. ASSUME req[n].parent # 0, srv[req[n].parent] = "ended",
             req[req[n].parent].ctx.trace = req[n].ctx.trace, SelfContext(req[req[n].parent]).sink = s
      PROVE  <<req[n].parent, s>> \in spans
  <2>. DEFINE p == req[n].parent
  <2>1. p \in Calls
    BY <1>3, <1>6, Numbers
  <2>2. Report(req[p], p) \subseteq spans
    BY <1>1, <1>6, <2>1 DEF EndedInv
  <2>. QED  BY <1>2, <1>6, <2>2 DEF Report
<1>. QED  BY <1>5, <1>6, ChosenIsBy

(* CoherentTrace: spans go to the sink chosen on the way down, and a       *)
(* caller's span is there by the time it has ended (app.py:372, 392).      *)
THEOREM TracesAreCoherent == Spec => []CoherentTrace
<1>1. Init => TraceInv
  BY InitTraces
<1>2. TraceInv /\ [Next]_vars => TraceInv'
  BY StepKeepsTraces
<1>3. TraceInv => CoherentTrace
  BY TracesCohere
<1>. QED  BY <1>1, <1>2, <1>3, PTL DEF Spec
=============================================================================
