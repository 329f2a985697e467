------------------------------- MODULE Calls -------------------------------
(***************************************************************************)
(* Calls that make calls: an app calls a fiber, whose handler calls others *)
(* with the context it derives from its own (Context::child of             *)
(* crates/thicket-interconnect/src/envelope.rs, child_context of           *)
(* sdk/py/thicket/tracing.py). The handlers of app.py, with their gates,   *)
(* checkpoints, streams and spans, behind the serving loop of server.py,   *)
(* which takes the requests of one channel one at a time. Every handler    *)
(* has its own client: its channels are opened, shared, evicted and closed *)
(* here; how they carry frames is in Conn, how one is found in Client, and *)
(* the grant gate in Grants.                                               *)
(***************************************************************************)
EXTENDS Naturals, Sequences

CONSTANTS
    None,
    MaxCalls,   \* bound on the calls of the tree
    Fibers,     \* the fibers that can be called, one capability each
    Streaming,  \* those whose handler is an async generator
    Durable,    \* those that are durable and run with a checkpoint store
    Cost,       \* the cost of each one's capability
    OwnSink,    \* the sink each one is configured with, or None
    Sinks,
    Roots,      \* contexts the app may start with
    Limits,     \* deadlines a handler may impose on a call, None among them
    Spent,      \* what a handler may debit for a call
    Patience,   \* timeout of a call, for a stream between chunks
    MaxTime     \* bound on the clock

Time == 0..MaxTime
Calls == 1..MaxCalls
Nodes == 0..MaxCalls  \* the app is 0

(* A trace is named by the node that minted its id.                        *)
Context == [deadline : Nat \cup {None}, budget : Nat \cup {None}, sink : Sinks \cup {None},
            trace : Nodes \cup {None}]

(* `line` keeps the invocations a request descends from, the app first,    *)
(* and `via` names its channel by the call that opened it.                 *)
Requests == [fiber : Fibers \cup {None}, parent : Nodes, ctx : Context, line : Seq(Nodes), via : Nodes]

ASSUME CallsAssumption ==
    /\ None \notin Nat \cup Requests
    /\ MaxCalls \in Nat /\ MaxTime \in Nat /\ Patience \in 1..MaxTime
    /\ Streaming \subseteq Fibers /\ Durable \subseteq Fibers
    /\ Cost \in [Fibers -> Nat]
    /\ OwnSink \in [Fibers -> Sinks \cup {None}]
    /\ Roots \subseteq Context
    /\ Limits \subseteq Nat \cup {None}
    /\ Spent \subseteq Nat \ {0}

VARIABLES
    clock,
    req,    \* per node: the request it answers, None before it is sent
    call,   \* per node: what its caller knows of it
    srv,    \* per node: where its handler is
    rep,    \* per node: the terminal frame sent to its caller
    chan,   \* per call: the channel it opened, if any
    spans   \* the spans reported: node and sink

vars == <<clock, req, call, srv, rep, chan, spans>>

(* "kept": a channel its client still holds but will never close again.    *)
(* "lost": one that no client holds, though it is open.                    *)
ChanStates == {"none", "cached", "kept", "lost", "closed"}

(* "unserved": refused, without its checkpoint, or never taken.            *)
SrvStates == {"none", "queued", "opening", "running", "answered", "failing", "ended", "unserved"}

(***************************************************************************)
(* Contexts.                                                               *)
(***************************************************************************)
Debited(b, spent) == IF b = None THEN None ELSE IF spent <= b THEN b - spent ELSE 0

(* A call without a trace gets one of its own.                             *)
TraceOf(c, n) == IF c.trace = None THEN n ELSE c.trace

(* Children whose deadline is the limit when there is one, and whose budget*)
(* is not debited.                                                         *)
ChildLoosens(c, limit, spent, n) ==
    [deadline |-> IF limit = None THEN c.deadline ELSE limit,
     budget   |-> Debited(c.budget, spent), sink |-> c.sink, trace |-> TraceOf(c, n)]

Earliest(D) == IF D = {} THEN None ELSE CHOOSE d \in D : \A x \in D : d <= x

ChildUndebited(c, limit, spent, n) ==
    [deadline |-> Earliest({c.deadline, limit} \ {None}),
     budget   |-> c.budget, sink |-> c.sink, trace |-> TraceOf(c, n)]

Child(c, limit, spent, n) ==
    [deadline |-> Earliest({c.deadline, limit} \ {None}),
     budget   |-> Debited(c.budget, spent), sink |-> c.sink, trace |-> TraceOf(c, n)]

DeadlinePassed(c, now) == c.deadline # None /\ now > c.deadline

(* The gates before a handler, but for the grant.                          *)
Admitted(c, f, now) ==
    /\ ~DeadlinePassed(c, now)
    /\ c.budget # None => c.budget > 0 /\ c.budget >= Cost[f]

(* The context of a handler: a configured sink overrides the caller's.     *)
SelfContext(r) ==
    IF r.fiber # None /\ OwnSink[r.fiber] # None THEN [r.ctx EXCEPT !.sink = OwnSink[r.fiber]] ELSE r.ctx

(***************************************************************************)
(* The app starts with a context, or with none at all.                     *)
(***************************************************************************)
Request(p, f, c, via) ==
    [fiber |-> f, parent |-> p, ctx |-> c, line |-> Append(req[p].line, p), via |-> via]

Init ==
    /\ clock = 0
    /\ \E c \in Roots :
          req = [n \in Nodes |->
                    IF n = 0 THEN [fiber |-> None, parent |-> 0, ctx |-> c, line |-> <<>>, via |-> 0]
                    ELSE None]
    /\ call = [n \in Nodes |-> "none"]
    /\ srv = [n \in Nodes |-> IF n = 0 THEN "running" ELSE "none"]
    /\ rep = [n \in Nodes |-> "none"]
    /\ chan = [n \in Calls |-> "none"]
    /\ spans = {}

(***************************************************************************)
(* The calling side: Context.call and gather in a handler, Client.call and *)
(* gather in the app, which hands its own context on as it is. A handler   *)
(* may leave tasks behind that call on after it has answered, and after    *)
(* its client was closed (the siblings of a call of gather_all that        *)
(* failed).                                                                *)
(***************************************************************************)
Streams(n) == req[n].fiber \in Streaming
Served(p) == srv[p] \in {"running", "answered", "failing", "ended"}

Cached(p) == {c \in Calls : chan[c] \in {"cached", "kept"} /\ req[c].parent = p}
CachedFor(p, f) == {c \in Cached(p) : req[c].fiber = f}

Call(p, n, f, limit, spent) ==
    /\ Served(p)
    /\ req[n] = None /\ \A m \in Calls : m < n => req[m] # None
    /\ \E via \in IF CachedFor(p, f) = {} THEN {n} ELSE CachedFor(p, f) :
        /\ req' = [req EXCEPT ![n] = Request(p, f,
                       IF p = 0 THEN req[0].ctx ELSE Child(SelfContext(req[p]), limit, spent, n), via)]
        /\ chan' = [chan EXCEPT ![via] = IF via # n THEN @ ELSE IF srv[p] = "ended" THEN "kept" ELSE "cached"]
    /\ call' = [call EXCEPT ![n] = "waiting"]
    /\ srv' = [srv EXCEPT ![n] = "queued"]
    /\ UNCHANGED <<clock, rep, spans>>

(* Whatever channel is cached for the fiber by then is forgotten, not      *)
(* closed.                                                                 *)
Evicted(n) ==
    [c \in Calls |-> IF c \in CachedFor(req[n].parent, req[n].fiber) THEN "lost" ELSE chan[c]]

(* gather raises a ConnectionError for an error frame and evicts; call     *)
(* raises what the frame says.                                             *)
Deliver(n) ==
    /\ call[n] = "waiting" /\ rep[n] # "none"
    /\ call' = [call EXCEPT ![n] = rep[n]]
    /\ chan' = IF Streams(n) /\ rep[n] = "error" THEN Evicted(n) ELSE chan
    /\ UNCHANGED <<clock, req, srv, rep, spans>>

(* A timer that starts with the handler.                                   *)
TimeoutOnceServed(n) ==
    /\ call[n] = "waiting" /\ clock >= Patience
    /\ srv[n] # "queued"
    /\ call' = [call EXCEPT ![n] = "error"]
    /\ chan' = Evicted(n)
    /\ UNCHANGED <<clock, req, srv, rep, spans>>

(* No timer fires before Patience has passed; the chunks of a stream put   *)
(* its timer off, for ever if they go on. A TimeoutError is an OSError.    *)
Timeout(n) ==
    /\ call[n] = "waiting" /\ clock >= Patience
    /\ call' = [call EXCEPT ![n] = "error"]
    /\ chan' = Evicted(n)
    /\ UNCHANGED <<clock, req, srv, rep, spans>>

(* A call whose channel closes fails; a stream just ends, as if complete.  *)
Unanswered(n) == IF Streams(n) THEN "ok" ELSE "error"

(* The serving side has closed the channel without an answer.              *)
Fail(n) ==
    /\ call[n] = "waiting" /\ rep[n] = "none" /\ chan[req[n].via] = "closed"
    /\ call' = [call EXCEPT ![n] = Unanswered(n)]
    /\ chan' = IF Streams(n) THEN chan ELSE Evicted(n)
    /\ UNCHANGED <<clock, req, srv, rep, spans>>

(***************************************************************************)
(* Client.close. It awaits while it goes through its channels: what a call *)
(* does meanwhile can make it raise midway, and the channels it has missed *)
(* stay open.                                                              *)
(***************************************************************************)
Interrupts(p, missed) == missed \subseteq Cached(p) /\ missed # Cached(p)

(* A close that leaves out the clients of handlers.                        *)
ClosesApps(p, missed) == IF p = 0 THEN Cached(p) \ missed ELSE {}

Closes(p, missed) == Cached(p) \ missed

(* A close that fails every call, also those of others and none at all.    *)
AbandonedAll(C) == [n \in Nodes |-> IF n # 0 /\ call[n] # "ok" THEN "error" ELSE call[n]]

(* close ends the calls that wait on the channels it closes.               *)
Abandoned(C) ==
    [n \in Nodes |-> IF call[n] = "waiting" /\ req[n].via \in C THEN Unanswered(n) ELSE call[n]]

Shut(C, missed) ==
    [c \in Calls |-> IF c \in C THEN "closed" ELSE IF c \in missed THEN "kept" ELSE chan[c]]

CloseApp(missed) ==
    /\ srv[0] = "running"
    /\ missed = {} \/ Interrupts(0, missed)
    /\ srv' = [srv EXCEPT ![0] = "ended"]
    /\ call' = Abandoned(Closes(0, missed))
    /\ chan' = Shut(Closes(0, missed), missed)
    /\ UNCHANGED <<clock, req, rep, spans>>

(***************************************************************************)
(* The serving side. When a handler raises, the loop ends, closes the      *)
(* channel, and what is queued on it is never served.                      *)
(***************************************************************************)
SameChannel(m, n) == req[m] # None /\ req[m].via = req[n].via

IsNext(n) ==
    srv[n] = "queued" /\ \A m \in Calls : m < n /\ SameChannel(m, n) => srv[m] \in {"ended", "unserved"}

Over(n, how, raises) ==
    [m \in Nodes |-> IF m = n THEN how
                     ELSE IF raises /\ m # 0 /\ SameChannel(m, n) /\ srv[m] = "queued" THEN "unserved"
                     ELSE srv[m]]

ServedOn(n, raises) == IF raises THEN {req[n].via} ELSE {}

(* A durable handler first loads its checkpoint, if its caller has a trace.*)
Start(n) ==
    /\ IsNext(n) /\ Admitted(req[n].ctx, req[n].fiber, clock)
    /\ srv' = [srv EXCEPT ![n] =
                  IF req[n].fiber \in Durable /\ req[n].ctx.trace # None THEN "opening" ELSE "running"]
    /\ UNCHANGED <<clock, req, call, rep, chan, spans>>

(* The store has answered, however late.                                   *)
Opened(n) ==
    /\ srv[n] = "opening"
    /\ srv' = [srv EXCEPT ![n] = "running"]
    /\ UNCHANGED <<clock, req, call, rep, chan, spans>>

(* Nothing catches what Checkpoint.open raises.                            *)
OpenFails(n) ==
    /\ srv[n] = "opening"
    /\ srv' = Over(n, "unserved", TRUE)
    /\ chan' = Shut(ServedOn(n, TRUE), {})
    /\ UNCHANGED <<clock, req, call, rep, spans>>

(* A reply on a channel that its caller has closed may raise.              *)
Refuse(n, raises) ==
    /\ IsNext(n) /\ ~Admitted(req[n].ctx, req[n].fiber, clock)
    /\ raises => chan[req[n].via] = "closed"
    /\ srv' = Over(n, "unserved", raises)
    /\ rep' = [rep EXCEPT ![n] = "error"]
    /\ UNCHANGED <<clock, req, call, chan, spans>>

(* The handler returns, or its generator is exhausted: the answer goes out *)
(* before the span is reported.                                            *)
Return(n) ==
    /\ srv[n] = "running"
    /\ srv' = [srv EXCEPT ![n] = "answered"]
    /\ rep' = [rep EXCEPT ![n] = "ok"]
    /\ UNCHANGED <<clock, req, call, chan, spans>>

(* It raises, possibly because one of several calls failed: the error goes *)
(* out after the span. _stream suppresses what a generator raises.         *)
Raise(n) ==
    /\ srv[n] = "running"
    /\ srv' = [srv EXCEPT ![n] = IF Streams(n) THEN "answered" ELSE "failing"]
    /\ UNCHANGED <<clock, req, call, rep, chan, spans>>

(* The subscriber has gone: the pump is cancelled, with the calls the      *)
(* generator may be waiting for, and the generator closed.                 *)
Cut(n) ==
    /\ srv[n] = "running" /\ Streams(n) /\ chan[req[n].via] = "closed"
    /\ srv' = [srv EXCEPT ![n] = "answered"]
    /\ \E cancelled \in SUBSET {m \in Calls : call[m] = "waiting" /\ req[m].parent = n} :
        call' = [m \in Nodes |-> IF m \in cancelled THEN "error" ELSE call[m]]
    /\ UNCHANGED <<clock, req, rep, chan, spans>>

(* A handler that reports where its caller does.                           *)
SpanToCaller(n) ==
    IF req[n].ctx.sink = None \/ req[n].ctx.trace = None THEN {} ELSE {<<n, req[n].ctx.sink>>}

(* No span without a sink or without a trace.                              *)
Span(n) ==
    LET s == SelfContext(req[n]).sink IN IF s = None \/ req[n].ctx.trace = None THEN {} ELSE {<<n, s>>}

(* The span, then the error of a failed handler, then the handler's client *)
(* is closed. It raises if a reply does or the close is interrupted.       *)
Finish(n, missed, raises) ==
    /\ srv[n] \in {"answered", "failing"}
    /\ missed = {} \/ (raises /\ Interrupts(n, missed))
    /\ raises => chan[req[n].via] = "closed" \/ Cached(n) # {}
    /\ srv' = Over(n, "ended", raises)
    /\ spans' = spans \cup Span(n)
    /\ rep' = [rep EXCEPT ![n] = IF srv[n] = "failing" THEN "error" ELSE @]
    /\ call' = Abandoned(Closes(n, missed))
    /\ chan' = Shut(Closes(n, missed) \cup ServedOn(n, raises), missed)
    /\ UNCHANGED <<clock, req>>

Tick ==
    /\ clock < MaxTime /\ clock' = clock + 1
    /\ UNCHANGED <<req, call, srv, rep, chan, spans>>

Next ==
    \/ Tick \/ \E missed \in SUBSET Cached(0) : CloseApp(missed)
    \/ \E n \in Calls :
        \/ \E p \in Nodes, f \in Fibers, limit \in Limits, spent \in Spent : Call(p, n, f, limit, spent)
        \/ Deliver(n) \/ Timeout(n) \/ Fail(n)
        \/ Start(n) \/ Opened(n) \/ OpenFails(n) \/ Return(n) \/ Raise(n) \/ Cut(n)
        \/ \E raises \in BOOLEAN :
            Refuse(n, raises) \/ \E missed \in SUBSET Cached(n) : Finish(n, missed, raises)

Spec == Init /\ [][Next]_vars

(* Time passes; the event loops of caller and fiber run what is ready, and *)
(* a sink takes or refuses a span. Each of these steps happens at most once*)
(* for a node or an hour, so that one fairness condition keeps any of them*)
(* from being put off for ever. Nothing is asked of the code of handlers,  *)
(* of the store, nor of the timers of streams.                             *)
Runs(n) ==
    \/ (Timeout(n) /\ ~Streams(n)) \/ Fail(n) \/ Cut(n)
    \/ \E raises \in BOOLEAN, missed \in SUBSET Cached(n) : Finish(n, missed, raises)

FairSpec == Spec /\ WF_vars(Tick \/ \E n \in Calls : Runs(n))

(***************************************************************************)
(* Properties.                                                             *)
(***************************************************************************)
(* Requests, contexts and frames are well formed: a budget is never        *)
(* overdrawn (Context::child, envelope.rs:110), and a node has a handler,  *)
(* an answer, a channel or a caller only once its request was sent.        *)
TypeOK ==
    /\ clock \in Time
    /\ req \in [Nodes -> Requests \cup {None}]
    /\ req[0] # None
    /\ call \in [Nodes -> {"none", "waiting", "ok", "error"}]
    /\ srv \in [Nodes -> SrvStates]
    /\ rep \in [Nodes -> {"none", "ok", "error"}]
    /\ chan \in [Calls -> ChanStates]
    /\ spans \subseteq Calls \X Sinks
    /\ \A n \in Calls :
        /\ req[n] = None <=> srv[n] = "none"
        /\ req[n] = None => call[n] = "none" /\ rep[n] = "none" /\ chan[n] = "none"
        /\ req[n] # None => /\ req[n].fiber \in Fibers /\ req[req[n].parent] # None
                            /\ Served(req[n].parent) /\ req[n].parent # n
                            /\ req[n].via \in Calls /\ req[req[n].via] # None

(* "a child's deadline/budget can only shrink" (envelope.rs:61): a handler *)
(* is admitted only while the deadline of every invocation it descends from*)
(* lasts, however late its request was served. A durable one starts when   *)
(* its checkpoint has been loaded, and nothing looks at the clock again.   *)
AdmittedInTime ==
    [][\A n \in Calls : srv[n] = "queued" /\ srv'[n] \in {"opening", "running"} =>
          \A k \in DOMAIN req[n].line : ~DeadlinePassed(req[req[n].line[k]].ctx, clock)]_vars

(* The same of the budget: since every call costs at least one, a chain of *)
(* handlers that call each other, a loop among fibers too, is never longer *)
(* than the budget the app started with.                                   *)
Serving(n) == srv[n] \in {"opening", "running", "answered", "failing"}

BudgetBoundsDepth ==
    req[0].ctx.budget # None =>
        \A n \in Calls : Serving(n) => Len(req[n].line) <= req[0].ctx.budget

(* SpanEmitter (tracing.py:72): "every fiber in a trace reports to the     *)
(* place the initiator chose", or the last one configured on the way down, *)
(* "and the tree assembles coherently": once a handler has ended, no span  *)
(* of a call it made in its trace is without its own in that sink. A       *)
(* handler that was called without a trace reports nothing, and the calls  *)
(* it makes are roots of traces of their own.                              *)
Configured(n) == req[n].fiber # None /\ OwnSink[req[n].fiber] # None

Chosen(path) ==
    LET own == {k \in DOMAIN path : Configured(path[k])} IN
    IF own = {} THEN req[0].ctx.sink
    ELSE OwnSink[req[path[CHOOSE k \in own : \A j \in own : j <= k]].fiber]

CoherentTrace ==
    \A n \in Calls, s \in Sinks : <<n, s>> \in spans =>
        /\ s = Chosen(Append(req[n].line, n))
        /\ LET p == req[n].parent IN
           /\ p # 0 /\ srv[p] = "ended" /\ req[p].ctx.trace = req[n].ctx.trace
           /\ SelfContext(req[p]).sink = s
           => <<p, s>> \in spans

(* A call of conn.py returns whatever its handler does: one that is queued *)
(* behind a handler that never ends, refused, lost with its channel, or    *)
(* left behind by a handler. Since the calls of a tree are bounded, all of *)
(* them have returned at last. A stream that goes on has no such bound.    *)
InCall == {n \in Calls : call[n] = "waiting" /\ ~Streams(n)}

EveryCallReturns == InCall # {} ~> InCall = {}

(* _stream (app.py:399): "the whole thing is cancelled if the subscriber   *)
(* disconnects (so an infinite stream ends cleanly)": when the app closes, *)
(* streams that feed streams end one after the other, all the way down,    *)
(* but for what hangs on a channel that nobody closes any more.            *)
Above(n) == ({n} \cup {req[n].line[k] : k \in DOMAIN req[n].line}) \ {0}

StreamsUnwind ==
    srv[0] = "ended" ~>
        \A n \in Calls : srv[n] = "running" /\ (\A m \in Above(n) : Streams(m)) =>
            \E m \in Above(n) : chan[req[m].via] \in {"kept", "lost"}
=============================================================================
