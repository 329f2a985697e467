------------------------------- MODULE Client -------------------------------
(***************************************************************************)
(* The Python client inside a handler: Client and Context of               *)
(* sdk/py/thicket/app.py over the channels of conn.py, with the fibers     *)
(* they reach (server.py, fiber.py). A handler makes calls, concurrently   *)
(* when it likes (`gather_all`); its client caches what discovery answered *)
(* and one channel per fiber, and is closed when the handler ends. Fibers  *)
(* stop and start at ports that others have used.                          *)
(*                                                                         *)
(* Code between two awaits is one action. The queue of a streamed call and *)
(* the future of a unary one are both `inbox`; a stream's chunks before    *)
(* its end change nothing here and are left out.                           *)
(***************************************************************************)
EXTENDS Integers, Sequences, FiniteSets

CONSTANTS
    Calls,      \* the calls the handler makes
    Streamed,   \* those made with `gather`, the others with `call`
    Keys, Key,  \* the (kind, capability) of each call
    Fibers, Hits,       \* per key: the fibers a search may put first
    Ports,
    MaxChannels, MaxStops   \* bounds: channels opened, fibers stopped

None == 0
Chans == 1..MaxChannels
Target == [fiber : Fibers, port : Ports]
NoTarget == [fiber |-> None, port |-> None]

ASSUME ClientAssumption ==
    /\ Streamed \subseteq Calls /\ Key \in [Calls -> Keys]
    /\ Hits \in [Keys -> SUBSET Fibers] /\ IsFiniteSet(Fibers)
    /\ None \notin Calls \cup Fibers \cup Ports
    /\ MaxChannels \in Nat /\ MaxStops \in Nat

VARIABLES
    at, listed, stops,  \* where a fiber listens, what the directory has of it
    disc, conns, lock,  \* Client._disc, _conns, _lock
    net,                \* the channels
    pc, target, chan, inbox,    \* per call: where it is, and with whom
    starts,             \* per call: the fibers that started its handler
    owner, size, visited        \* the handler; the iteration of Client.close

envVars == <<at, listed, stops>>
cacheVars == <<disc, conns, lock>>
callVars == <<pc, target, chan, inbox>>
ownVars == <<owner, size, visited>>
vars == <<envVars, cacheVars, net, callVars, starts, ownVars>>

Frame == [call : Calls, kind : {"ok", "error"}]
Channel == [peer : Fibers \cup {None}, cli : {"new", "open", "dead", "closed"}, srv : BOOLEAN,
            reqs : Seq(Calls), busy : Calls \cup {None}, back : Seq(Frame)]
Unopened == [peer |-> None, cli |-> "new", srv |-> FALSE,
             reqs |-> <<>>, busy |-> None, back |-> <<>>]

Failed == {"unsent", "error", "closed", "timeout"}
Ended == Failed \cup {"ok", "cut"}

TypeOK ==
    /\ at \in [Fibers -> Ports \cup {None}]
    /\ listed \in [Fibers -> Ports \cup {None}]
    /\ stops \in 0..MaxStops
    /\ disc \in [Keys -> Target \cup {NoTarget}]
    /\ conns \in [Fibers -> 0..MaxChannels]
    /\ lock \in Calls \cup {None}
    /\ net \in [Chans -> Channel]
    /\ pc \in [Calls -> {"new", "searching", "locking", "opening", "waiting"} \cup Ended]
    /\ target \in [Calls -> Target \cup {NoTarget}]
    /\ chan \in [Calls -> 0..MaxChannels]
    /\ inbox \in [Calls -> Seq({"ok", "error", "closed"})]
    /\ starts \in [Calls -> Seq(Fibers)]
    /\ owner \in {"running", "closing", "closed", "crashed"}
    /\ size \in Nat /\ visited \subseteq Chans

Init ==
    /\ at \in [Fibers -> Ports \cup {None}]
    /\ \A f, g \in Fibers : at[f] = at[g] /\ at[f] # None => f = g
    /\ listed = at
    /\ stops = 0
    /\ disc = [k \in Keys |-> NoTarget]
    /\ conns = [f \in Fibers |-> None]
    /\ lock = None
    /\ net = [c \in Chans |-> Unopened]
    /\ pc = [t \in Calls |-> "new"]
    /\ target = [t \in Calls |-> NoTarget]
    /\ chan = [t \in Calls |-> None]
    /\ inbox = [t \in Calls |-> <<>>]
    /\ starts = [t \in Calls |-> <<>>]
    /\ owner = "running" /\ size = 0 /\ visited = {}

-----------------------------------------------------------------------------
(* Fibers, their channels and the network *)

(* A fiber dies, and its ends of its channels with it. *)
Stop(f) ==
    /\ at[f] # None /\ stops < MaxStops
    /\ at' = [at EXCEPT ![f] = None]
    /\ stops' = stops + 1
    /\ net' = [c \in Chans |-> IF net[c].peer = f
                  THEN [net[c] EXCEPT !.srv = FALSE, !.reqs = <<>>, !.busy = None] ELSE net[c]]
    /\ UNCHANGED <<listed, cacheVars, callVars, starts, ownVars>>

(* run_fiber: it listens first and registers then. *)
Start(f, p) ==
    /\ at[f] = None /\ \A g \in Fibers : at[g] # p
    /\ at' = [at EXCEPT ![f] = p]
    /\ UNCHANGED <<listed, stops, cacheVars, net, callVars, starts, ownVars>>

Register(f) ==
    /\ at[f] # None
    /\ listed' = [listed EXCEPT ![f] = at[f]]
    /\ UNCHANGED <<at, stops, cacheVars, net, callVars, starts, ownVars>>

(* A channel breaks; the client's end finds out later. *)
Break(c) ==
    /\ net[c].srv
    /\ net' = [net EXCEPT ![c].srv = FALSE, ![c].reqs = <<>>, ![c].busy = None, ![c].back = <<>>]
    /\ UNCHANGED <<envVars, cacheVars, callVars, starts, ownVars>>

(* on_client: one request after the other. *)
ServeTake(c) ==
    /\ net[c].srv /\ net[c].busy = None /\ net[c].reqs # <<>>
    /\ LET t == Head(net[c].reqs)
       IN /\ net' = [net EXCEPT ![c].busy = t, ![c].reqs = Tail(@)]
          /\ starts' = [starts EXCEPT ![t] = Append(@, net[c].peer)]
    /\ UNCHANGED <<envVars, cacheVars, callVars, ownVars>>

(* Mutant: the request is forgotten before it is answered.                 *)
ServeReplyCleared(c, kind) ==
    /\ net[c].srv /\ net[c].busy # None
    /\ net' = [net EXCEPT ![c].busy = None,
                          ![c].back = IF net[c].cli = "open"
                                      THEN Append(@, [call |-> None, kind |-> kind]) ELSE @]
    /\ UNCHANGED <<envVars, cacheVars, callVars, starts, ownVars>>

(* The handler: its gates answer with an error before anything runs, what  *)
(* it raises is an error too, and a stream's last frame is its end.        *)
ServeReply(c, kind) ==
    /\ net[c].srv /\ net[c].busy # None
    /\ net' = [net EXCEPT ![c].busy = None,
                          ![c].back = IF net[c].cli = "open"
                                      THEN Append(@, [call |-> net[c].busy, kind |-> kind]) ELSE @]
    /\ UNCHANGED <<envVars, cacheVars, callVars, starts, ownVars>>

(* It ends with its client's end. *)
ServeEnd(c) ==
    /\ net[c].srv /\ net[c].cli = "closed"
    /\ net' = [net EXCEPT ![c].srv = FALSE, ![c].reqs = <<>>, ![c].busy = None]
    /\ UNCHANGED <<envVars, cacheVars, callVars, starts, ownVars>>

-----------------------------------------------------------------------------
(* The client's end of a channel *)

(* Mutant: only the streams are told.                                      *)
TeardownStreams(c) ==
    inbox' = [t \in Calls |->
                 IF pc[t] = "waiting" /\ chan[t] = c /\ t \in Streamed
                 THEN Append(inbox[t], "closed") ELSE inbox[t]]

(* _teardown: whoever waits for an answer is told. *)
Teardown(c) ==
    inbox' = [t \in Calls |->
                 IF pc[t] = "waiting" /\ chan[t] = c /\ (t \in Streamed \/ inbox[t] = <<>>)
                 THEN Append(inbox[t], "closed") ELSE inbox[t]]

(* _reader_loop and _route; an answer nobody waits for is dropped. *)
ReaderRoute(c) ==
    /\ net[c].cli = "open" /\ net[c].back # <<>>
    /\ net' = [net EXCEPT ![c].back = Tail(@)]
    /\ LET f == Head(net[c].back)
       IN inbox' = IF pc[f.call] = "waiting" THEN [inbox EXCEPT ![f.call] = Append(@, f.kind)]
                                             ELSE inbox
    /\ UNCHANGED <<envVars, cacheVars, pc, target, chan, starts, ownVars>>

ReaderEof(c) ==
    /\ net[c].cli = "open" /\ net[c].back = <<>> /\ ~net[c].srv
    /\ net' = [net EXCEPT ![c].cli = "dead"]
    /\ Teardown(c)
    /\ UNCHANGED <<envVars, cacheVars, pc, target, chan, starts, ownVars>>

-----------------------------------------------------------------------------
(* A call *)

(* Conn.call and call_stream up to the wait: registered and sent, which    *)
(* comes to nothing when the other end has gone. `n` is the network so far.*)
(* Their check of closed_event cannot fail here: there is no await between *)
(* it and the look, or the connection, that gave the caller this channel.  *)
SendOn(t, c, n) ==
    /\ pc' = [pc EXCEPT ![t] = "waiting"]
    /\ chan' = [chan EXCEPT ![t] = c]
    /\ net' = IF n[c].srv THEN [n EXCEPT ![c].reqs = Append(@, t)] ELSE n

(* _live; one that died is dropped. *)
Live(f) == conns[f] # None /\ net[conns[f]].cli = "open"

(* Mutant: the channel is not looked up again under the lock.              *)
OpenFirst(t, f) ==
    /\ lock' = t
    /\ pc' = [pc EXCEPT ![t] = "opening"]
    /\ conns' = [conns EXCEPT ![f] = None]
    /\ UNCHANGED <<net, chan>>

LookAgain(t, f) ==
    IF Live(f) THEN SendOn(t, conns[f], net) /\ UNCHANGED <<conns, lock>>
    ELSE /\ lock' = t
         /\ pc' = [pc EXCEPT ![t] = "opening"]
         /\ conns' = [conns EXCEPT ![f] = None]
         /\ UNCHANGED <<net, chan>>

(* _channel, up to its lock. *)
Look(t, f) ==
    /\ IF Live(f) THEN SendOn(t, conns[f], net) /\ UNCHANGED conns
       ELSE /\ pc' = [pc EXCEPT ![t] = "locking"]
            /\ conns' = [conns EXCEPT ![f] = None]
            /\ UNCHANGED <<net, chan>>
    /\ UNCHANGED lock

Begin(t) ==
    /\ pc[t] = "new" /\ owner = "running"
    /\ IF disc[Key[t]] = NoTarget
       THEN /\ pc' = [pc EXCEPT ![t] = "searching"]
            /\ UNCHANGED <<conns, lock, net, target, chan>>
       ELSE /\ target' = [target EXCEPT ![t] = disc[Key[t]]]
            /\ Look(t, disc[Key[t]].fiber)
    /\ UNCHANGED <<envVars, disc, inbox, starts, ownVars>>

(* _discover: the top hit as it comes. The directory answers with records  *)
(* that may be out of date, and a fiber that does not serve the capability *)
(* may come first: its answer is an error then, like that of any gate.     *)
Found(t) ==
    /\ pc[t] = "searching"
    /\ \E f \in Hits[Key[t]] :
          /\ listed[f] # None
          /\ LET d == [fiber |-> f, port |-> listed[f]]
             IN /\ disc' = [disc EXCEPT ![Key[t]] = d]
                /\ target' = [target EXCEPT ![t] = d]
          /\ Look(t, f)
    /\ UNCHANGED <<envVars, inbox, starts, ownVars>>

NotFound(t) ==
    /\ pc[t] = "searching"
    /\ pc' = [pc EXCEPT ![t] = "unsent"]
    /\ UNCHANGED <<envVars, cacheVars, net, target, chan, inbox, starts, ownVars>>

Lock(t) ==
    /\ pc[t] = "locking" /\ lock = None
    /\ LookAgain(t, target[t].fiber)
    /\ UNCHANGED <<envVars, disc, target, inbox, starts, ownVars>>

(* Conn.connect returned: a channel to whoever listens at the port.        *)
OpenedTo(t, f, g) ==
    \E c \in Chans :
       /\ net[c].cli = "new" /\ \A b \in 1..(c - 1) : net[b].cli # "new"
       /\ conns' = [conns EXCEPT ![f] = c]
       /\ SendOn(t, c, [net EXCEPT ![c] = [Unopened EXCEPT !.peer = g, !.cli = "open", !.srv = TRUE]])
       /\ lock' = None

Connected(t) ==
    /\ pc[t] = "opening" /\ at[target[t].fiber] = target[t].port
    /\ OpenedTo(t, target[t].fiber, target[t].fiber)
    /\ UNCHANGED <<envVars, disc, target, inbox, starts, ownVars>>

(* Another fiber listens there: a ValueError, which no caller handles.     *)
WrongPeer(t) ==
    /\ pc[t] = "opening"
    /\ \E g \in Fibers \ {target[t].fiber} : at[g] = target[t].port
    /\ pc' = [pc EXCEPT ![t] = "unsent"]
    /\ lock' = None
    /\ UNCHANGED <<envVars, disc, conns, net, target, chan, inbox, starts, ownVars>>

(* _evict: whatever channel is cached by now is forgotten, none is closed. *)
Evict(t) ==
    /\ disc' = [disc EXCEPT ![Key[t]] = NoTarget]
    /\ conns' = [conns EXCEPT ![target[t].fiber] = None]

(* The connection fails. `gather` opens its channel outside its try.       *)
Refused(t) ==
    /\ pc[t] = "opening"
    /\ pc' = [pc EXCEPT ![t] = "unsent"]
    /\ IF t \in Streamed THEN UNCHANGED <<disc, conns>> ELSE Evict(t)
    /\ lock' = None
    /\ UNCHANGED <<envVars, net, target, chan, inbox, starts, ownVars>>

Finish(t, outcome) ==
    /\ pc' = [pc EXCEPT ![t] = outcome]
    /\ chan' = [chan EXCEPT ![t] = None]
    /\ inbox' = [inbox EXCEPT ![t] = <<>>]
    /\ UNCHANGED target

Return(t) ==
    /\ pc[t] = "waiting" /\ inbox[t] # <<>> /\ Head(inbox[t]) = "ok"
    /\ Finish(t, "ok")
    /\ UNCHANGED <<envVars, cacheVars, net, starts, ownVars>>

(* A remote error is a ThicketError for `call`, but a ConnectionError for  *)
(* `gather`, which evicts.                                                 *)
RemoteError(t) ==
    /\ pc[t] = "waiting" /\ inbox[t] # <<>> /\ Head(inbox[t]) = "error"
    /\ IF t \in Streamed THEN Finish(t, "closed") /\ Evict(t)
                         ELSE Finish(t, "error") /\ UNCHANGED <<disc, conns>>
    /\ UNCHANGED <<envVars, lock, net, starts, ownVars>>

(* Mutant: an error of the connection is retried at once.                  *)
ClosedRetries(t) ==
    /\ pc[t] = "waiting" /\ inbox[t] # <<>> /\ Head(inbox[t]) = "closed"
    /\ pc' = [pc EXCEPT ![t] = "searching"]
    /\ inbox' = [inbox EXCEPT ![t] = <<>>]
    /\ Evict(t)
    /\ UNCHANGED <<envVars, lock, net, target, chan, starts, ownVars>>

(* The channel closed: `call` fails, `gather` returns what it has so far.  *)
Closed(t) ==
    /\ pc[t] = "waiting" /\ inbox[t] # <<>> /\ Head(inbox[t]) = "closed"
    /\ IF t \in Streamed THEN Finish(t, "cut") /\ UNCHANGED <<disc, conns>>
                         ELSE Finish(t, "closed") /\ Evict(t)
    /\ UNCHANGED <<envVars, lock, net, starts, ownVars>>

(* TimeoutError is an OSError: it evicts, even when an answer has come.    *)
Timeout(t) ==
    /\ pc[t] = "waiting"
    /\ Finish(t, "timeout") /\ Evict(t)
    /\ UNCHANGED <<envVars, lock, net, starts, ownVars>>

-----------------------------------------------------------------------------
(* Client.close, at the end of the handler: once all its calls have ended, *)
(* or as soon as one has failed, while those made with it run on. It       *)
(* awaits in an iteration over _conns, where a change of size is an error; *)
(* that error leaves the handler, and on_client closes the channel of the  *)
(* handler's own caller.                                                   *)

Cached == {f \in Fibers : conns[f] # None}

Visit(done) ==
    \E f \in Cached :
       /\ conns[f] \notin done
       /\ net' = [net EXCEPT ![conns[f]].cli = "closed", ![conns[f]].back = <<>>]
       /\ IF net[conns[f]].cli = "open" THEN Teardown(conns[f]) ELSE UNCHANGED inbox
       /\ owner' = "closing" /\ size' = Cardinality(Cached) /\ visited' = done \cup {conns[f]}
       /\ UNCHANGED <<disc, conns>>

Visited(done) ==
    /\ \A f \in Cached : conns[f] \in done
    /\ conns' = [f \in Fibers |-> None]
    /\ disc' = [k \in Keys |-> NoTarget]
    /\ owner' = "closed" /\ size' = 0 /\ visited' = {}
    /\ UNCHANGED <<net, inbox>>

Close ==
    /\ owner = "running"
    /\ \/ \E t \in Calls : pc[t] \in Failed
       \/ \A t \in Calls : pc[t] \in Ended \cup {"new"}
    /\ Visit({}) \/ Visited({})
    /\ UNCHANGED <<envVars, lock, pc, target, chan, starts>>

CloseOn ==
    /\ owner = "closing" /\ Cardinality(Cached) = size
    /\ Visit(visited) \/ Visited(visited)
    /\ UNCHANGED <<envVars, lock, pc, target, chan, starts>>

CloseRaises ==
    /\ owner = "closing" /\ Cardinality(Cached) # size
    /\ owner' = "crashed" /\ size' = 0 /\ visited' = {}
    /\ UNCHANGED <<envVars, cacheVars, net, callVars, starts>>

Next ==
    \/ \E f \in Fibers : Stop(f) \/ Register(f) \/ \E p \in Ports : Start(f, p)
    \/ \E c \in Chans : \/ Break(c) \/ ServeTake(c) \/ ServeEnd(c)
                        \/ \E kind \in {"ok", "error"} : ServeReply(c, kind)
                        \/ ReaderRoute(c) \/ ReaderEof(c)
    \/ \E t \in Calls : \/ Begin(t) \/ Found(t) \/ NotFound(t) \/ Lock(t)
                        \/ Connected(t) \/ WrongPeer(t) \/ Refused(t)
                        \/ Return(t) \/ RemoteError(t) \/ Closed(t) \/ Timeout(t)
    \/ Close \/ CloseOn \/ CloseRaises

Spec == Init /\ [][Next]_vars

-----------------------------------------------------------------------------
(* Properties *)

(* app.py:121-122, "reconnecting before sending - safe, no                 *)
(* double-execution": a handler is started at most once for a call. Its    *)
(* answer says that it was, and a call that failed without having been     *)
(* sent never is.                                                          *)
AtMostOnce ==
    \A t \in Calls : /\ Len(starts[t]) <= 1
                     /\ pc[t] \in {"ok", "error"} => Len(starts[t]) = 1
                     /\ pc[t] = "unsent" => starts[t] = <<>>

(* A call is only ever executed by the fiber that discovery named for it,  *)
(* whoever listens at its port by then.                                    *)
ServedAsDiscovered ==
    \A t \in Calls : \A i \in 1..Len(starts[t]) : starts[t][i] = target[t].fiber

(* What a call may do in the world, whatever happens to the channels on    *)
(* its way: at most one start of a handler, at the fiber it was meant for. *)
CalledOnceAsDiscovered == AtMostOnce /\ ServedAsDiscovered

(* Nobody waits on a channel whose reader has ended: whether a call began  *)
(* before or after, it has been told.                                      *)
NobodyWaitsOnDead ==
    \A t \in Calls : pc[t] = "waiting" /\ net[chan[t]].cli # "open" => inbox[t] # <<>>

(* app.py:125, "one live channel per fiber": true of a fiber until a call  *)
(* to it has failed (a late failure evicts a channel that is in use).      *)
Evicted(f) == \E t \in Calls : target[t].fiber = f /\ pc[t] \in {"closed", "timeout"}
OpenTo(f) == {c \in Chans : net[c].peer = f /\ net[c].cli = "open"}
OneLiveChannel == \A f \in Fibers : ~Evicted(f) => \A c, d \in OpenTo(f) : c = d

(* app.py:390, "never crash the connection": the handler returns to        *)
(* on_client whatever its calls do. Violated: CloseRaises.                 *)
NeverCrashesConnection == owner # "crashed"
=============================================================================
