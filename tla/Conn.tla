-------------------------------- MODULE Conn --------------------------------
(***************************************************************************)
(* One authenticated channel of thicket-net: the two Conn objects of       *)
(* crates/thicket-net/src/conn.rs over one byte stream, their writer and   *)
(* reader tasks, the callers of `call` and `call_stream`, a subscriber,    *)
(* and the serving loop of server.rs. Encryption, signatures and CBOR are  *)
(* abstracted: both ends are honest, so every frame decodes and verifies.  *)
(* A correlation id is a member of Calls or Streams and is used once.      *)
(***************************************************************************)
EXTENDS Integers, Sequences

CONSTANTS
    A, B,        \* the two ends of the channel
    Calls,       \* correlation ids of unary requests
    Streams,     \* correlation ids of streaming requests
    Origin,      \* the end that issues each request
    Servers,     \* ends that run a serving loop
    Emitters,    \* ends that emit events on the one topic modelled
    Subscribers, \* ends that may subscribe to that topic
    Expiring,    \* ends whose endorsed working key may expire
    Oversize,    \* ids and emitters whose frames may exceed MAX_FRAME
    MayReset,    \* whether the network may reset the connection
    Chunks,      \* chunks a streaming handler sends, the last has stream_end
    MaxEvents,   \* bound on the events one end emits
    MaxSubs,     \* bound on the subscriptions one end makes
    OutCap,      \* capacity of out_tx (256 in the code)
    WireCap,     \* frames the transport buffers in one direction
    InCap,       \* capacity of inbound_tx (256 in the code)
    ChanCap      \* capacity of a stream's or subscriber's channel (64)

Ends == {A, B}
Peer(e) == IF e = A THEN B ELSE A
Ids == Calls \cup Streams
Receivers == Ends \X (1..MaxSubs)    \* <<e, k>>: the k-th that e was given

ASSUME ConnAssumption ==
    /\ A # B
    /\ Calls \cap Streams = {}
    /\ Ids \cap Ends = {}
    /\ Origin \in [Ids -> Ends]
    /\ {Servers, Emitters, Subscribers, Expiring} \subseteq SUBSET Ends
    /\ Oversize \subseteq Ids \cup Ends
    /\ MayReset \in BOOLEAN
    /\ {Chunks, OutCap, WireCap, InCap, ChanCap} \subseteq Nat \ {0}
    /\ {MaxEvents, MaxSubs} \subseteq Nat

VARIABLES
    link,       \* the byte stream works in both directions
    held,       \* per end: some task still holds an Arc of the Conn
    writer,     \* per end: the writer task runs
    reader,     \* per end: the reader task runs
    fresh,      \* per end: its working key is before key_not_after
    outq,       \* per end: frames queued in out_tx
    hand,       \* per end: the frame the writer took and has not written
    wire,       \* per end: frames it has written and the peer has not read
    pending,    \* per end: correlations with a registered oneshot sender
    streams,    \* per end: correlations with a registered chunk sender
    inbound,    \* per end: frames queued for recv_request
    serving,    \* per end: where the serving loop is
    call,       \* per unary call: where its future is
    answered,   \* unary calls whose oneshot was completed
    stream,     \* per streaming call: where it and its receiver are
    chan,       \* per streaming call: chunks queued in its channel
    got,        \* per streaming call: chunks its consumer received
    emitted,    \* per end: number of events it has sent
    sub,        \* per end: subscriptions made, the last is in event_subs
    evq,        \* per receiver: events queued in its channel
    seen,       \* per receiver: events its subscriber received
    dropped,    \* receivers their subscriber has dropped
    runs        \* per request: how often a handler was started for it

taskVars == <<link, fresh, held, writer, reader>>
ioVars   == <<outq, hand, wire>>
mapVars  == <<pending, streams>>
callVars == <<call, answered>>
strVars  == <<stream, chan, got>>
evVars   == <<emitted, sub, evq, seen, dropped>>
srvVars  == <<inbound, serving, runs>>
appVars  == <<mapVars, callVars, strVars, evVars, srvVars>>
vars == <<taskVars, ioVars, appVars>>

notCall   == <<taskVars, strVars, evVars, srvVars>>
notStream == <<taskVars, callVars, evVars, srvVars>>
notEvent  == <<taskVars, mapVars, callVars, strVars, srvVars>>
notServe  == <<taskVars, mapVars, callVars, strVars, evVars>>

-----------------------------------------------------------------------------
(* Frames: the fields of an envelope that the channel looks at. *)

Frame == [typ : {"request", "response", "chunk", "event"},
          id : Ids \cup Ends, seq : Nat]

Request(x)  == [typ |-> "request",  id |-> x, seq |-> 0]
Response(c) == [typ |-> "response", id |-> c, seq |-> 0]
Chunk(s, n) == [typ |-> "chunk",    id |-> s, seq |-> n]
Event(e, n) == [typ |-> "event",    id |-> e, seq |-> n]

StreamEnd(f) == f.seq = Chunks

Idle == [at |-> "recv", id |-> A, seq |-> 0]
ServingState == [at : {"none", "recv", "handler", "send", "done"},
                 id : Ids \cup Ends, seq : Nat]

(* A socket is closed once both halves of the split stream are dropped. *)
SocketClosed(e) == ~reader[e] /\ ~writer[e]

(* Per element of D a queue of elements of S that holds at most cap.       *)
Queues(D, S, cap) == {q \in [D -> Seq(S)] : \A d \in D : Len(q[d]) <= cap}

TypeOK ==
    /\ link \in BOOLEAN
    /\ held \in [Ends -> BOOLEAN]
    /\ writer \in [Ends -> BOOLEAN]
    /\ reader \in [Ends -> BOOLEAN]
    /\ fresh \in [Ends -> BOOLEAN]
    /\ outq \in Queues(Ends, Frame, OutCap)
    /\ hand \in Queues(Ends, Frame, 1)
    /\ wire \in Queues(Ends, Frame, WireCap)
    /\ inbound \in Queues(Ends, Frame, InCap)
    /\ pending \in [Ends -> SUBSET Calls]
    /\ streams \in [Ends -> SUBSET Streams]
    /\ serving \in [Ends -> ServingState]
    /\ call \in [Calls -> {"idle", "sending", "waiting", "elapsed",
                           "ok", "timeout", "closed"}]
    /\ answered \subseteq Calls
    /\ stream \in [Streams -> {"idle", "sending", "open", "gone", "ended", "closed"}]
    /\ chan \in Queues(Streams, Nat, ChanCap)
    /\ got \in [Streams -> Seq(Nat)]
    /\ emitted \in [Ends -> 0..MaxEvents]
    /\ sub \in [Ends -> 0..MaxSubs]
    /\ evq \in Queues(Receivers, Nat, ChanCap)
    /\ seen \in [Receivers -> Seq(Nat)]
    /\ dropped \subseteq Receivers
    /\ runs \in [Ids -> Nat]

(* Conn::establish has succeeded at both ends; a server's loop is started. *)
Init ==
    /\ link = TRUE
    /\ held = [e \in Ends |-> TRUE]
    /\ writer = [e \in Ends |-> TRUE]
    /\ reader = [e \in Ends |-> TRUE]
    /\ fresh = [e \in Ends |-> TRUE]
    /\ outq = [e \in Ends |-> <<>>]
    /\ hand = [e \in Ends |-> <<>>]
    /\ wire = [e \in Ends |-> <<>>]
    /\ pending = [e \in Ends |-> {}]
    /\ streams = [e \in Ends |-> {}]
    /\ inbound = [e \in Ends |-> <<>>]
    /\ serving = [e \in Ends |-> IF e \in Servers THEN Idle
                                 ELSE [Idle EXCEPT !.at = "none"]]
    /\ call = [c \in Calls |-> "idle"]
    /\ answered = {}
    /\ stream = [s \in Streams |-> "idle"]
    /\ chan = [s \in Streams |-> <<>>]
    /\ got = [s \in Streams |-> <<>>]
    /\ emitted = [e \in Ends |-> 0]
    /\ sub = [e \in Ends |-> 0]
    /\ evq = [r \in Receivers |-> <<>>]
    /\ seen = [r \in Receivers |-> <<>>]
    /\ dropped = {}
    /\ runs = [x \in Ids |-> 0]

-----------------------------------------------------------------------------
(* out_tx.send(frame).await: completes when the queue has room, fails once *)
(* the writer task has dropped the receiver, and otherwise waits.          *)

CanEnqueue(e) == writer[e] /\ Len(outq[e]) < OutCap
Enqueue(e, f) == outq' = [outq EXCEPT ![e] = Append(@, f)]

(* The writer task. *)

WriterTake(e) ==
    /\ writer[e] /\ hand[e] = <<>> /\ outq[e] # <<>>
    /\ hand' = [hand EXCEPT ![e] = <<Head(outq[e])>>]
    /\ outq' = [outq EXCEPT ![e] = Tail(@)]
    /\ UNCHANGED <<taskVars, wire, appVars>>

(* The size of a body is not modelled: a request, a reply, a chunk or an   *)
(* event of these may be too large.                                        *)
MayBeTooLarge(f) == f.id \in Oversize

(* Mutant: a frame that was written is kept and written again.             *)
WriterWriteTwice(e) ==
    /\ writer[e] /\ hand[e] # <<>> /\ link
    /\ Len(wire[e]) < WireCap
    /\ wire' = [wire EXCEPT ![e] = Append(@, Head(hand[e]))]
    /\ hand' = [hand EXCEPT ![e] = IF Head(@).typ = "request" THEN @ ELSE <<>>]
    /\ UNCHANGED <<taskVars, outq, appVars>>

WriterWrite(e) ==
    /\ writer[e] /\ hand[e] # <<>> /\ link
    /\ Len(wire[e]) < WireCap
    /\ wire' = [wire EXCEPT ![e] = Append(@, Head(hand[e]))]
    /\ hand' = [hand EXCEPT ![e] = <<>>]
    /\ UNCHANGED <<taskVars, outq, appVars>>

(* write_frame fails: FrameTooLarge, or the stream is reset or closed. The *)
(* task ends and the receiver of out_tx is dropped with what it holds.     *)
WriterFail(e) ==
    /\ writer[e] /\ hand[e] # <<>>
    /\ MayBeTooLarge(Head(hand[e])) \/ ~link \/ SocketClosed(Peer(e))
    /\ writer' = [writer EXCEPT ![e] = FALSE]
    /\ hand' = [hand EXCEPT ![e] = <<>>]
    /\ outq' = [outq EXCEPT ![e] = <<>>]
    /\ UNCHANGED <<link, fresh, held, reader, wire, appVars>>

-----------------------------------------------------------------------------
(* route: what the reader task does with one envelope. It never waits.     *)

(* Mutant: a queue without a bound.                                        *)
PushInboundUnbounded(e, f) == inbound' = [inbound EXCEPT ![e] = Append(@, f)]

PushInbound(e, f) ==
    inbound' = IF Len(inbound[e]) < InCap
               THEN [inbound EXCEPT ![e] = Append(@, f)] ELSE inbound

RouteResponse(e, f) ==
    /\ f.typ = "response"
    /\ pending' = [pending EXCEPT ![e] = @ \ {f.id}]
    /\ answered' = answered \cup ({f.id} \cap pending[e])
    /\ UNCHANGED <<streams, chan, evq, inbound>>

(* try_send succeeds while the receiver exists and its channel has room.   *)
Accepts(s) == stream[s] \in {"sending", "open"} /\ Len(chan[s]) < ChanCap

(* Mutants: overflow drops a chunk but keeps the stream; the reader waits. *)
RouteChunkThins(e, f) ==
    /\ f.typ = "chunk"
    /\ LET found == f.id \in streams[e]
       IN /\ chan' = IF found /\ Accepts(f.id)
                     THEN [chan EXCEPT ![f.id] = Append(@, f.seq)] ELSE chan
          /\ streams' = IF found /\ StreamEnd(f)
                        THEN [streams EXCEPT ![e] = @ \ {f.id}] ELSE streams
    /\ UNCHANGED <<pending, answered, evq, inbound>>

RouteChunkWaits(e, f) ==
    /\ f.typ = "chunk"
    /\ f.id \in streams[e] => Accepts(f.id)
    /\ chan' = IF f.id \in streams[e] THEN [chan EXCEPT ![f.id] = Append(@, f.seq)] ELSE chan
    /\ streams' = IF StreamEnd(f) THEN [streams EXCEPT ![e] = @ \ {f.id}] ELSE streams
    /\ UNCHANGED <<pending, answered, evq, inbound>>

RouteChunk(e, f) ==
    /\ f.typ = "chunk"
    /\ LET found  == f.id \in streams[e]
           pushed == found /\ Accepts(f.id)
       IN /\ chan' = IF pushed THEN [chan EXCEPT ![f.id] = Append(@, f.seq)] ELSE chan
          /\ streams' = IF found /\ (~pushed \/ StreamEnd(f))
                        THEN [streams EXCEPT ![e] = @ \ {f.id}] ELSE streams
    /\ UNCHANGED <<pending, answered, evq, inbound>>

(* The one subscription that event_subs holds for the topic.               *)
LastReceiver(e) == <<e, sub[e]>>

(* Mutant: a new subscription joins the one before instead of replacing it.*)
RouteEventToAll(e, f) ==
    /\ f.typ = "event"
    /\ IF sub[e] = 0
       THEN PushInbound(e, f) /\ UNCHANGED evq
       ELSE /\ evq' = [r \in DOMAIN evq |->
                        IF r[1] = e /\ r[2] <= sub[e] /\ r \notin dropped /\ Len(evq[r]) < ChanCap
                        THEN Append(evq[r], f.seq) ELSE evq[r]]
            /\ UNCHANGED inbound
    /\ UNCHANGED <<pending, answered, streams, chan>>

(* It stays there after its receiver is dropped.                           *)
RouteEvent(e, f) ==
    /\ f.typ = "event"
    /\ IF sub[e] = 0
       THEN PushInbound(e, f) /\ UNCHANGED evq
       ELSE LET r == LastReceiver(e)
            IN /\ evq' = IF r \notin dropped /\ Len(evq[r]) < ChanCap
                         THEN [evq EXCEPT ![r] = Append(@, f.seq)] ELSE evq
               /\ UNCHANGED inbound
    /\ UNCHANGED <<pending, answered, streams, chan>>

RouteRequest(e, f) ==
    /\ f.typ = "request"
    /\ PushInbound(e, f)
    /\ UNCHANGED <<pending, answered, streams, chan, evq>>

Route(e, f) ==
    RouteResponse(e, f) \/ RouteChunk(e, f) \/ RouteEvent(e, f) \/ RouteRequest(e, f)

(* The reader task: one frame at a time, with the per-message freshness    *)
(* check of the peer's key before it is routed.                            *)
ReaderRoute(e) ==
    LET p == Peer(e) IN
    /\ reader[e] /\ wire[p] # <<>> /\ fresh[p]
    /\ wire' = [wire EXCEPT ![p] = Tail(@)]
    /\ Route(e, Head(wire[p]))
    /\ UNCHANGED <<taskVars, outq, hand, call, stream, got, emitted, sub,
                   seen, dropped, serving, runs>>

StopReader(e) == reader' = [reader EXCEPT ![e] = FALSE]

ReaderStale(e) ==
    LET p == Peer(e) IN
    /\ reader[e] /\ wire[p] # <<>> /\ ~fresh[p]
    /\ wire' = [wire EXCEPT ![p] = Tail(@)]
    /\ StopReader(e)
    /\ UNCHANGED <<link, fresh, held, writer, outq, hand, appVars>>

ReaderEof(e) ==
    /\ reader[e] /\ wire[Peer(e)] = <<>>
    /\ ~link \/ SocketClosed(Peer(e))
    /\ StopReader(e)
    /\ UNCHANGED <<link, fresh, held, writer, ioVars, appVars>>

-----------------------------------------------------------------------------
(* Conn::call *)

SetCall(c, st) == call' = [call EXCEPT ![c] = st]

(* The oneshot is registered before the first await.                       *)
CallRegister(c) ==
    /\ call[c] = "idle" /\ held[Origin[c]]
    /\ pending' = [pending EXCEPT ![Origin[c]] = @ \cup {c}]
    /\ SetCall(c, "sending")
    /\ UNCHANGED <<notCall, ioVars, streams, answered>>

CallSend(c) ==
    /\ call[c] = "sending" /\ CanEnqueue(Origin[c])
    /\ Enqueue(Origin[c], Request(c))
    /\ SetCall(c, "waiting")
    /\ UNCHANGED <<notCall, hand, wire, mapVars, answered>>

(* `?` on the failed send returns early: the oneshot stays registered.     *)
CallClosed(c) ==
    /\ call[c] = "sending" /\ ~writer[Origin[c]]
    /\ SetCall(c, "closed")
    /\ UNCHANGED <<notCall, ioVars, mapVars, answered>>

CallOk(c) ==
    /\ call[c] = "waiting" /\ c \in answered
    /\ SetCall(c, "ok")
    /\ UNCHANGED <<notCall, ioVars, mapVars, answered>>

(* The timer fires; the reader may still pop the entry before the cleanup. *)
CallElapsed(c) ==
    /\ call[c] = "waiting" /\ c \notin answered
    /\ SetCall(c, "elapsed")
    /\ UNCHANGED <<notCall, ioVars, mapVars, answered>>

CallTimeout(c) ==
    /\ call[c] = "elapsed"
    /\ pending' = [pending EXCEPT ![Origin[c]] = @ \ {c}]
    /\ SetCall(c, "timeout")
    /\ UNCHANGED <<notCall, ioVars, streams, answered>>

-----------------------------------------------------------------------------
(* Conn::call_stream and the consumer of the receiver it returns *)

SetStream(s, st) == stream' = [stream EXCEPT ![s] = st]

StreamRegister(s) ==
    /\ stream[s] = "idle" /\ held[Origin[s]]
    /\ streams' = [streams EXCEPT ![Origin[s]] = @ \cup {s}]
    /\ SetStream(s, "sending")
    /\ UNCHANGED <<notStream, ioVars, pending, chan, got>>

StreamSend(s) ==
    /\ stream[s] = "sending" /\ CanEnqueue(Origin[s])
    /\ Enqueue(Origin[s], Request(s))
    /\ SetStream(s, "open")
    /\ UNCHANGED <<notStream, hand, wire, mapVars, chan, got>>

StreamClosed(s) ==
    /\ stream[s] = "sending" /\ ~writer[Origin[s]]
    /\ SetStream(s, "closed")
    /\ UNCHANGED <<notStream, ioVars, mapVars, chan, got>>

ChunkRecv(s) ==
    /\ stream[s] = "open" /\ chan[s] # <<>>
    /\ got' = [got EXCEPT ![s] = Append(@, Head(chan[s]))]
    /\ chan' = [chan EXCEPT ![s] = Tail(@)]
    /\ UNCHANGED <<notStream, ioVars, mapVars, stream>>

(* recv returns None: every sender is dropped and the channel is drained.  *)
StreamEnded(s) ==
    /\ stream[s] = "open" /\ chan[s] = <<>> /\ s \notin streams[Origin[s]]
    /\ SetStream(s, "ended")
    /\ UNCHANGED <<notStream, ioVars, mapVars, chan, got>>

(* The consumer drops its receiver before the end.                         *)
StreamAbandon(s) ==
    /\ stream[s] = "open"
    /\ SetStream(s, "gone")
    /\ UNCHANGED <<notStream, ioVars, mapVars, chan, got>>

-----------------------------------------------------------------------------
(* Events: emit, subscribe and the subscriber *)

Emit(e) ==
    /\ e \in Emitters /\ held[e] /\ emitted[e] < MaxEvents /\ CanEnqueue(e)
    /\ emitted' = [emitted EXCEPT ![e] = @ + 1]
    /\ Enqueue(e, Event(e, emitted[e] + 1))
    /\ UNCHANGED <<notEvent, hand, wire, sub, evq, seen, dropped>>

(* insert replaces the sender of an earlier subscription, whose receiver   *)
(* keeps what is queued and gets nothing more.                             *)
Subscribe(e) ==
    /\ e \in Subscribers /\ held[e] /\ sub[e] < MaxSubs
    /\ sub' = [sub EXCEPT ![e] = @ + 1]
    /\ UNCHANGED <<notEvent, ioVars, emitted, evq, seen, dropped>>

EventRecv(r) ==
    /\ evq[r] # <<>>
    /\ seen' = [seen EXCEPT ![r] = Append(@, Head(evq[r]))]
    /\ evq' = [evq EXCEPT ![r] = Tail(@)]
    /\ UNCHANGED <<notEvent, ioVars, emitted, sub, dropped>>

SubscriberGone(r) ==
    /\ r[2] <= sub[r[1]] /\ r \notin dropped
    /\ dropped' = dropped \cup {r}
    /\ evq' = [evq EXCEPT ![r] = <<>>]
    /\ UNCHANGED <<notEvent, ioVars, emitted, sub, seen>>

-----------------------------------------------------------------------------
(* The serving loop: serve_conn for a unary request; a streaming handler   *)
(* sends Chunks chunks instead, as tests/net.rs does.                      *)

SetServing(e, st) == serving' = [serving EXCEPT ![e] = st]

ServeRecv(e) ==
    /\ serving[e].at = "recv" /\ inbound[e] # <<>>
    /\ LET f == Head(inbound[e]) IN
         IF f.typ = "request"
         THEN /\ SetServing(e, [at |-> "handler", id |-> f.id, seq |-> 1])
              /\ runs' = [runs EXCEPT ![f.id] = @ + 1]
         ELSE UNCHANGED <<serving, runs>>
    /\ inbound' = [inbound EXCEPT ![e] = Tail(@)]
    /\ UNCHANGED <<notServe, ioVars>>

HandlerDone(e) ==
    /\ serving[e].at = "handler"
    /\ SetServing(e, [serving[e] EXCEPT !.at = "send"])
    /\ UNCHANGED <<notServe, ioVars, inbound, runs>>

Reply(w) == IF w.id \in Streams THEN Chunk(w.id, w.seq) ELSE Response(w.id)
LastReply(w) == w.id \in Streams => w.seq = Chunks
AfterReply(w) == IF LastReply(w) THEN Idle ELSE [w EXCEPT !.seq = @ + 1]

ServeReply(e) ==
    /\ serving[e].at = "send" /\ CanEnqueue(e)
    /\ Enqueue(e, Reply(serving[e]))
    /\ SetServing(e, AfterReply(serving[e]))
    /\ UNCHANGED <<notServe, hand, wire, inbound, runs>>

(* `let _ = conn.send(resp).await`: a failed reply is ignored.             *)
ServeReplyLost(e) ==
    /\ serving[e].at = "send" /\ ~writer[e]
    /\ SetServing(e, AfterReply(serving[e]))
    /\ UNCHANGED <<notServe, ioVars, inbound, runs>>

(* recv_request returns None once the reader is gone and nothing is queued. *)
ServeEnd(e) ==
    /\ serving[e].at = "recv" /\ inbound[e] = <<>> /\ ~reader[e]
    /\ SetServing(e, [serving[e] EXCEPT !.at = "done"])
    /\ UNCHANGED <<notServe, ioVars, inbound, runs>>

-----------------------------------------------------------------------------
(* Drop for Conn, once no future borrows it; expiry; network reset *)

(* Mutant: the Conn is dropped under a call that waits for its reply.      *)
InUseUntilSent(e) ==
    \/ \E c \in Calls : Origin[c] = e /\ call[c] = "sending"
    \/ \E s \in Streams : Origin[s] = e /\ stream[s] = "sending"
    \/ serving[e].at \in {"recv", "handler", "send"}

InUse(e) ==
    \/ \E c \in Calls : Origin[c] = e /\ call[c] \in {"sending", "waiting", "elapsed"}
    \/ \E s \in Streams : Origin[s] = e /\ stream[s] = "sending"
    \/ serving[e].at \in {"recv", "handler", "send"}

DropConn(e) ==
    /\ held[e] /\ ~InUse(e)
    /\ held' = [held EXCEPT ![e] = FALSE]
    /\ writer' = [writer EXCEPT ![e] = FALSE]
    /\ reader' = [reader EXCEPT ![e] = FALSE]
    /\ outq' = [outq EXCEPT ![e] = <<>>]
    /\ hand' = [hand EXCEPT ![e] = <<>>]
    /\ inbound' = [inbound EXCEPT ![e] = <<>>]
    /\ pending' = [pending EXCEPT ![e] = {}]
    /\ streams' = [streams EXCEPT ![e] = {}]
    /\ UNCHANGED <<link, fresh, wire, callVars, strVars, evVars, serving, runs>>

KeyExpires(e) ==
    /\ e \in Expiring /\ fresh[e]
    /\ fresh' = [fresh EXCEPT ![e] = FALSE]
    /\ UNCHANGED <<link, held, writer, reader, ioVars, appVars>>

Reset ==
    /\ MayReset /\ link
    /\ link' = FALSE
    /\ wire' = [e \in Ends |-> <<>>]
    /\ UNCHANGED <<fresh, held, writer, reader, outq, hand, appVars>>

-----------------------------------------------------------------------------
WriterStep(e) == WriterTake(e) \/ WriterWrite(e) \/ WriterFail(e)
ReaderStep(e) == ReaderRoute(e) \/ ReaderStale(e) \/ ReaderEof(e)
CallStep(c) == CallSend(c) \/ CallClosed(c) \/ CallOk(c) \/ CallElapsed(c) \/ CallTimeout(c)
StreamStep(s) == StreamSend(s) \/ StreamClosed(s)
ConsumerStep(s) == ChunkRecv(s) \/ StreamEnded(s)
LoopStep(e) == ServeRecv(e) \/ ServeReply(e) \/ ServeReplyLost(e) \/ ServeEnd(e)

Next ==
    \/ \E e \in Ends : \/ WriterStep(e) \/ ReaderStep(e) \/ LoopStep(e)
                       \/ HandlerDone(e) \/ DropConn(e) \/ KeyExpires(e)
                       \/ Emit(e) \/ Subscribe(e)
    \/ \E r \in Receivers : EventRecv(r) \/ SubscriberGone(r)
    \/ \E c \in Calls : CallRegister(c) \/ CallStep(c)
    \/ \E s \in Streams : StreamRegister(s) \/ StreamStep(s) \/ ConsumerStep(s)
                          \/ StreamAbandon(s)
    \/ Reset

Spec == Init /\ [][Next]_vars

(***************************************************************************)
(* Fairness: tokio polls every runnable task again, so the I/O tasks, the  *)
(* futures of calls (with their timers) and the serving loop do not stop   *)
(* while they can step. Handlers, consumers and subscribers are the        *)
(* application's, and so is every Arc of a Conn: nothing is assumed of     *)
(* them, nor of the drop of a Conn, unless a property says so.             *)
(***************************************************************************)
Fairness(E) ==
    /\ \A e \in E : /\ WF_vars(WriterStep(e)) /\ WF_vars(ReaderStep(e))
                    /\ WF_vars(LoopStep(e))
    /\ \A c \in Calls : Origin[c] \in E => WF_vars(CallStep(c))
    /\ \A s \in Streams : Origin[s] \in E => WF_vars(StreamStep(s))

FairSpec == Spec /\ Fairness(Ends)

-----------------------------------------------------------------------------
(* Safety *)

(* A call that waits for its reply is still registered with the reader:    *)
(* the oneshot is inserted before the request can be answered, and nothing *)
(* but the reply, the timeout or the drop of the Conn takes it out.        *)
RegisteredWhileWaiting ==
    \A c \in Calls : call[c] \in {"sending", "waiting"} /\ c \notin answered
                        => c \in pending[Origin[c]]

(* A call that returned a reply or timed out leaves nothing in the pending *)
(* map, whichever of the late reply and the timer came first; only a call  *)
(* that returned Closed leaves its entry behind.                           *)
NoStaleEntry ==
    \A e \in Ends : \A c \in pending[e] :
        /\ Origin[c] = e
        /\ c \notin answered
        /\ call[c] \in {"sending", "waiting", "elapsed", "closed"}

(* The pending map is exact: a reply always finds the caller that waits    *)
(* for it, and never one that has gone, but for the entries of calls that  *)
(* were told Closed.                                                       *)
PendingIsExact == RegisteredWhileWaiting /\ NoStaleEntry

(* A reply is only accepted for a call that was issued; with the type      *)
(* invariant and the two above it is preserved by every step.              *)
AnsweredWasIssued == \A c \in answered : call[c] # "idle"

CallInv == TypeOK /\ RegisteredWhileWaiting /\ NoStaleEntry /\ AnsweredWasIssued

(* What a consumer has received and will receive is a gap-free prefix of   *)
(* what the handler sent: an overflowing stream is cut, never thinned.     *)
StreamPrefix ==
    \A s \in Streams : LET all == got[s] \o chan[s]
                       IN all = [i \in 1..Len(all) |-> i]

(* The entry of a stream is removed with its last chunk, so a complete     *)
(* stream closes its receiver.                                             *)
CompleteStreamCloses ==
    \A s \in Streams : Len(got[s]) + Len(chan[s]) = Chunks => s \notin streams[Origin[s]]

(* `route` on a full stream channel: the stream is cut there and closed; a *)
(* consumer cannot mistake what it got for the whole, or miss its middle.  *)
CutNeverThinned == StreamPrefix /\ CompleteStreamCloses

(* Events reach the subscribers of an end in the order they were emitted,  *)
(* each at most once, whatever overflow drops: within one receiver, and    *)
(* from the receiver of an earlier subscription to that of a later one.    *)
EventsInOrder ==
    LET all(r) == seen[r] \o evq[r] IN
    \A e \in Ends : \A k, l \in 1..MaxSubs :
        \A i \in DOMAIN all(<<e, k>>), j \in DOMAIN all(<<e, l>>) :
            k < l \/ (k = l /\ i < j) => all(<<e, k>>)[i] < all(<<e, l>>)[j]

(* The calls of the channel implement Rpc: at-most-once execution, and an   *)
(* outcome that tells the caller the truth about it. A handler started     *)
(* twice for one request would be no step of Rpc.                          *)
rpcStatus == [c \in Calls |-> IF call[c] \in {"sending", "waiting", "elapsed"}
                               THEN "open" ELSE call[c]]
RPC == INSTANCE Rpc WITH status <- rpcStatus, ran <- [c \in Calls |-> runs[c]]
AtMostOnceRpc == RPC!Spec

(* Liveness *)

(* Whatever e writes is read or refused. While the key of e is fresh its   *)
(* peer reads. Once it has expired the peer's reader ends, but the peer's  *)
(* writer keeps the socket open, with nobody to read it, until the last    *)
(* Arc of the peer's Conn goes: the loop lets go of its own when a handler *)
(* has returned and its replies are gone, which takes a reader at e, and   *)
(* somebody else may keep another.                                         *)
Drained(e) ==
    \/ []fresh[e]
    \/ /\ Peer(e) \in Servers /\ WF_vars(HandlerDone(Peer(e))) /\ WF_vars(DropConn(Peer(e)))
       /\ []fresh[Peer(e)]

(* Every call returns, even when handlers hang, consumers stop reading and *)
(* queues overflow: no task waits on the application with the reader held. *)
(* The timeout of a call does not cover the queue in front of it.          *)
EveryCallReturns ==
    \A c \in Calls : Drained(Origin[c]) =>
        (call[c] = "sending" ~> call[c] \in {"ok", "timeout", "closed"})

(* A serving loop that has replies to send gets to its next request.       *)
ServeLoopAdvances ==
    \A e \in Ends : Drained(e) =>
        (serving[e].at = "send" ~> serving[e].at \in {"recv", "done"})

(* Nobody who is scheduled is held up by somebody who is not: a call gets  *)
(* its outcome and a serving loop its next request, whoever has stopped    *)
(* reading a stream or an event topic of the same channel.                 *)
NobodyIsHeldUp == EveryCallReturns /\ ServeLoopAdvances
=============================================================================
