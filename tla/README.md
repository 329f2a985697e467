# Thicket in TLA+

Thicket is a network of *fibers*: processes with a root-key identity that publish signed
records in directories, find each other by kind and intent, talk over authenticated
channels, delegate authority with grants and compose into weaves. This directory holds a
formal model of the parts of it where concurrency, failure and ordering decide whether it
is correct: TLA+ modules translated from the Rust crates and the Python SDK, TLC
configurations that check them on small instances, and TLAPS proofs for every value of
their constants. `PROJECT.json` maps each definition to the source lines it stands for and
lists every run, mutant, hazard, finding and theorem.

To repeat the checks, in this directory:

    tlc -config MCConn_safety.cfg MCConn        (and so on: the .cfg is named after its run)
    tlapm ConnProofs.tla                        (and the other *Proofs.tla)

## 1. The system

| component | state | operations | what is hard about it | modelled in |
|---|---|---|---|---|
| Channel, `thicket-net/src/conn.rs`, `framing.rs`, `secure.rs` | per end: queue to the writer task, pending map, stream map, event subscriptions, inbound queue | `call`, `call_stream`, `send`, `emit`, `subscribe`, `recv_request`, drop | two tasks and any number of callers per end; replies, timers and drops race; five bounded queues; the peer's key may expire in between | `Conn`, `Rpc` |
| Serving loop, `thicket-net/src/server.rs` | the request in the handler | receive, run the handler, reply | one handler at a time; the reply may fail | `Conn` |
| Channel establishment, `secure.rs`, `conn.rs`, `identity.rs` | the Noise state, the verified peer | connect, accept, `establish`, 10 s timeout, encrypt and decrypt frames | a peer that stalls half way; keys that rotate, expire or are endorsed again; the initiator is up before it is accepted | `Handshake` |
| Registry, `thicket-registry/src/registry.rs` | the stored records, the revocation set | register, resolve, search, renew, revoke, deregister, sweep | leases, versions and revocations applied in any order | `Registry` |
| Directory server, `thicket-directory/src/server.rs` | the registry behind a lock | a handler per connection | `now` is read before the lock is awaited; identity gate; panics | `Registry` |
| Records, `thicket-core/src/record.rs`, `identity.rs`, `capability.rs` | none | sign, verify, leases | a renewal changes a signed payload | `Records` |
| Federation, `thicket-federation/src/*.rs` | peers, their profiles, the cache | add peer, search, resolve | replicas in several versions, stale cache entries, partial fan-out | `Federation` |
| Grants, `thicket-interconnect/src/grant.rs`, `sdk/py/thicket/grant.py`, `app.py` | none (chains travel with requests) | issue, attenuate, delegate, verify | chains of any length put together by their holders; revocation in the middle | `Grants` |
| Durable steps, `sdk/py/thicket/checkpoint.py`, `app.py`, `fibers/py/state/state.py` | a checkpoint per run, one copy per attempt | open, step, gather_all, save | overlapping retries, late saves, orphaned steps, crashes | `Durable` |
| Python channel, `sdk/py/thicket/conn.py` | pending futures, stream queues, inbound queue, all unbounded | as above | one event loop; teardown against timeouts; a cut stream looks complete | `Client` (the caller's side; events are planned) |
| Python client and context, `app.py`, `tracing.py`, `directory.py`, `federation.py` | discovery cache, channel cache and its lock, span sinks | `call`, `gather`, `gather_all`, eviction, `close` | cached entries that went stale, calls that share a channel or look for one at a time, a close under running calls | `Client`, and `Calls` for contexts and span sinks |
| Python fiber serving, `app.py`, `fiber.py`, `server.py` | capabilities, running handlers | gates (deadline, budget, cost, grant), streaming pump, registration | fibers that come back at another's port; a stream that ends while its channel closes | `Client` (listening, registering, one request after the other), `Grants` (the grant gate), `Calls` (the other gates, streams, spans) |
| Envelopes and contexts, `thicket-interconnect/src/envelope.rs`, `tracing.py` | trace id, deadline, budget and sink of each request | `Context::child`, request, reply, chunk | limits that must hold along chains of calls, retried, queued or looping | `Calls` |
| Trigger, collector, memory, router fibers | subscriber queues, spans, sessions | emit, subscribe, report, trace | fan-out against disconnects | planned |
| Trust, `thicket-trust/src/*.rs` | none | attest, score | arithmetic over sets of attestations | planned as operators |
| Embedder, crypto, CBOR, framing of bytes, conformance vectors, LLM, tools, CLI, demo | | | numeric, byte-level or I/O | not modelled |

How they interact: a fiber opens a channel to the directory and registers its record;
clients search, verify the record, open a channel to the endpoint in it and call. Every
request of a channel is an envelope with a fresh correlation id; it may carry a grant,
which the resource verifies against its own endorsed keys, and a context with trace id,
deadline and budget. A weave calls other fibers in its handler; when the handler is
durable each call is a step of a checkpoint stored, through the same client, on a state
fiber. A federation node asks several registries and caches what it resolves.

What makes each part correct, in one line each:

- channel: a caller learns the truth about its request, at most one execution, nothing
  leaks, streams are prefixes, no task blocks another;
- registry: one current record per identity, versions do not go back, revoked keys are gone,
  only the owner changes its record, discovery respects visibility;
- federation: an answer verifies, names each identity once and comes from a member (now, or
  within the ttl);
- grants: authority only narrows, custody is one chain, revocation ends it at any depth;
- client: a call is executed at most once, by the fiber that discovery named, and hears when
  its channel ends; one open channel per fiber;
- durable steps: a checkpoint is one history, and a retry repeats nothing that completed;
- establishment: no plaintext before each end knows the other, and every attempt ends;
- calls that make calls: limits only tighten on the way down, every call returns, streams
  end with their reader, spans form a tree.

## 2. The modules

Each component module has its state as variables, one action per operation or step of a
task, a specification `Spec` and its properties. `MC*` modules only give constants their
values. Operators named *Mutant* in a comment are faulty variants of the definition that
follows them; they are used by no specification, and `PROJECT.json` says which property
each one breaks.

### Conn and Rpc

`Conn` is one channel: both ends, `A` and `B`, with the writer task (`WriterTake`,
`WriterWrite`, `WriterFail`), the reader task (`ReaderRoute` with `Route`, `ReaderStale`,
`ReaderEof`), the futures of `call` and `call_stream` split at each `await` (`CallRegister`,
`CallSend`, `CallOk`, `CallElapsed`, `CallTimeout`, ...), the consumer of a stream, the
subscribers of one event topic, the serving loop (`ServeRecv`, `HandlerDone`, `ServeReply`,
`ServeEnd`), `DropConn` for `impl Drop`, and the environment (`KeyExpires`, `Reset`). A
correlation id is the name of its request. Both ends are honest, so decryption and signature
checks succeed and are left out; what they guard against, an expired endorsement, is
`ReaderStale`. The `hand` of a writer is the frame that it has taken from its queue and not
yet written, which is why a dropped Conn can lose one frame more than its queue holds.
`Subscribe` may be called again at any time and replaces the sender of the one before, whose
receiver keeps what it holds: every subscription has a receiver of its own, and `told` is
what each was told. A frame of any type may be oversized (`Oversize` names the requests,
with their replies and chunks, and the ends whose events may be). The timer of a call is
split in two (`CallElapsed`, `CallTimeout`) because the reader may pop the entry between
them.

`Rpc` says what a channel promises the callers of `call`: the handler is started at most
once; `ok` means it was started, `closed` that it was not and never will be, `timeout`
says nothing. `AtMostOnceRpc` is the refinement: `status` is the call's state with
the three states of an outstanding future merged, `ran` the number of handler starts.

### Records and Registry

`Records` has the record type and the pure functions of `thicket-core` that more than one
module needs. A signature is a fact about content: the lease that was signed is kept in
`signed`, and a record verifies when it still equals `lease` and its key is within the
window of its endorsement (`NotBefore`, `NotAfter`) and not revoked. Everything else in a
payload is fixed once signed. `TopK` gives every selection that ranking by score may leave,
since ties are not ordered.

`Registry` is the registry behind the directory's handler. A request is *begun* (the
handler has read the clock and waits for the lock) and later *applied* with that clock:
`Begin` then one of `Register`, `Resolve`, `Search`, `Renew`, `RenewPanics`, `Deregister`.
The operator's `Revoke` and `SweepExpired` take the lock in between. `Checked` selects the
build profile: in a dev build `now + ttl` panics after two of three fields of the lease
were assigned (`RenewPanics`), in a release build it wraps (`Renewed` takes `% Width`).

### Federation

`Federation` is a node over registries. Each peer is an instance of `Registry` over its own
store (`Home(p)!Resolvable`, `Home(p)!SearchResults`), whose owners publish, renew and
withdraw independently. `AddPeer` takes the profile once (only whether it was empty
matters), `Search` asks at most `MaxPeers` peers and merges, `ResolveFound` and
`ResolveMissed` go through the peers in the order they were added, `ResolveCached` answers
from the cache. `seen` is history: when a member last served what the cache holds of an
identity. The centroid arithmetic that ranks peers is a free choice among those that
keep blank peers last.

### Grants

A signature covers its link, the id of the resource it is for and the signature before it,
so a signature *is* the chain of links that it closes and `signed` is the set of signatures
that exist. `Here` is the resource that verifies; another one is a holder like any other,
which signs in the name of its own id. Holders issue, attenuate, delegate and `AuthFor`
(what `ctx.call` sends), but may also sign any link of their own (`SignAny`), and a
presented grant is any sequence of existing signatures (`Present`, which refuses at once
what fails before the loop or at its first link): only the loop of `Grant::verify`
(`VerifyLink`, one step per link) and the final checks (`Serve`, `Refuse`) keep authority
narrow. Nothing else moves during a verification because it is synchronous code.

### Durable

The attempts of one run (one trace id), each an invocation of a durable handler in some
weave. A step's value is abstracted to the attempt that computed it, so a checkpoint maps
each step to the attempt its value comes from, and 0 where it has none. The handler makes
its steps in batches: a batch of one is `ctx.call`, a larger one `gather_all`. `StartBatch`
replays the recorded steps and executes the others, `FnDone` records the value and sends the
whole checkpoint, `SaveOk` returns to the handler. The store is `FiberCheckpointStore`: its
client caches one channel to the state fiber, forgets it when a call fails (`Evict`) and
leaves it open, so a save that was given up can still be served later, after newer ones. All
runs of a weave share that client, so the failure of a foreign run evicts the channel too
(`OtherEvicts`), in the middle of an attempt to which nothing has happened. `calm` says that
no attempt began while another had work left, and that no foreign eviction came while
requests of this run were waiting in the channel. A step that fails ends its handler while
the other steps of its batch run on (`asyncio.gather` cancels nothing). `saw` and `ran` are
history: what each execution was computed from. The in-process stores (`DictStore`,
`FileCheckpointStore`) are the case where `Serve` and `SaveOk` follow `FnDone` at once.

### Client

`Client` is what a Python handler does to the network: a set of calls, made one after the
other or at once (`gather_all`), some of them streamed (`gather`), through one
`app.Client`. The event loop runs the code between two awaits as one action, so a call is
`Begin`, `Found` or `NotFound` (the directory's answer; the top hit is taken as it comes,
and `Hits` are the fibers that may be it), `Lock` (the second look under
`_lock`), `Connected`, `WrongPeer` or `Refused`, and `Return`, `RemoteError`, `Closed` or
`Timeout`. `disc`, `conns` and `lock` are `_disc`, `_conns` and `_lock`. The future of a
call and the queue of a stream are both `inbox`, the channel's end at the client is `cli`,
its end at the fiber `srv`; `reqs`, `busy` and `back` are the requests on their way, the one
in the handler and the answers on their way back. `Client.close` is split at its awaits
(`Close`, `CloseOn`), with Python's check that a dictionary does not change its size under
an iteration (`CloseRaises`). Fibers stop, start at any free port and register afterwards,
so a record may name a port where nobody, or somebody else, listens. The gates of a handler,
and the answer of a fiber that does not serve the capability, are the free choice of an error
in `ServeReply`. The check of `closed_event` in `Conn.call` is left out: there is no await
between it and the look, or the connection, that gave the caller its channel, so it cannot
fail here. Left out: the chunks of a stream before
its end, the client's channel to the directory, and spans.

### Handshake

One attempt of a dialer to open a channel to whoever answers at an endpoint, and the frames
of the channel. Each end has a state `st` (`new`, a wait for the first, second or third
message, `up` or `down`) and a queue of messages towards it. `Dial`, `Accept`, `Answer`,
`Finish` and `Conclude` are the code of `establish` between two reads, `Decide` the check of
`expected_id` that follows it. A working key is a number of its node; before the connection
its owner may `Rotate` it or endorse it again with another window, so an identity carries a
sequence of endorsements, and `VerifyWorkingKey` looks up the first that names the key, as
`identity.rs:274` does. `HandshakeFails` and `HandshakeTimeout` are the two ways to give up;
`Timed` says which ends are Rust's: those have a timeout, and check that the peer's key is
fresh before they decrypt. `ReaderEnds` ends the reader task and no more; the Conn and its
stream stay until the owner drops them (`Close`), which nothing obliges it to do. `Garble`,
`Stall` and `Crash` are the environment's, `MaxFaults` times. The Noise pattern is taken to
do what it promises: a message can be read by the other end in its place or not at all, so a
proof is made for the peer's static key and a frame carries its nonce. A frame of `len`
bytes is a sequence of chunks of at most `Payload` bytes (`EncryptFrame`), and what comes
out of `decrypt_frame` is kept in `got`.

### Calls

What a tree of calls does with the context that travels in its envelopes. A node is an
invocation; the app is node 0. `req` is the request with its context, its `line` (the
invocations above it) and `via`, the channel it goes by, named by the call that opened it;
`call` is what the caller knows, `srv` where the handler is, `rep` what was sent back,
`spans` what the sinks have. `Child` is `Context::child` (`child_context` in Python): the
deadline only tightens, the budget is debited and stops at 0, the sink is handed on, and a
call without a trace gets one of its own (`tracing.py:45`), named by the node that minted
it. `Limits` are the values of its `local_deadline`, which `ctx.call` leaves at None, and
`Spent` excludes 0, which a handler could pass and thereby make calls for nothing.

`Start` and `Refuse` are the gates of `Fiber._handler`; `Opened` and `OpenFails` are the
await of `Checkpoint.open` (`app.py:377`) between the gates and the handler, where a fiber in
`Durable` is called with a trace; `Return`, `Raise` and `Cut` are the handler and the
pump of `_stream`; `Finish` is what follows: the span (none without a trace,
`tracing.py:102`), the error of a failed handler, the close of the handler's client and the
release of the serving loop, which the next request of the channel waits for (`IsNext`). A
loop in which a reply, a load or a close raises closes its channel and serves nothing more
(`Over`, `ServedOn`).

Every handler, and the app, has its own client with one channel per fiber. `chan` follows
each channel: `cached`, `closed`, `lost` when a failed call evicted it from the cache
(`Evicted`, `app.py:134`; it stays open and nobody closes it), or `kept` when the client
still holds it but will never close it: a close that is interrupted (`Interrupts`) misses
channels, and a task that a failed `gather_all` left behind can call, and open one, after
the close. What the app's channels close, `Abandoned` fails or ends.

## 3. The runs

All runs finish in less than three minutes with two workers.

| run | what it asks | bounds |
|---|---|---|
| `MCConn_safety` | the invariants of a channel and the refinement of `Rpc` | one call, one stream and one event source sharing a channel; three chunks, two events, two subscriptions; queues of 1, so that each of them overflows; oversized requests and replies; drop of either end |
| `MCConn_live` | calls return, the serving loop goes on, and the refinement of `Rpc` | a call in one direction and a five-chunk stream in the other between two ends that serve; queues of 1; an oversized call or reply, a reset, a key that expires |
| `MCRegistry_store` | the registry's invariants and action properties | two owners, one with two connections and a rotated key that expires, the other with a key that is not yet valid; public, unlisted and private records; leases that run out; a renewal that overflows and panics |
| `MCRegistry_renew_unsigned` | *violated*: served records verify | the same, with a renewal that does not overflow |
| `MCFederation_resolve` | answers, the cache and how old its copies get | three registries of which two are asked, replicas in two versions, a key that expires or is not yet valid, a lease and a default of the cache that run out, two ticks |
| `MCGrants_chains` | authority, custody, revocation, usability | three signatures and links, one of them for another resource, two holders, one revocation, capability with and without wildcard, one constraint, three expiries |
| `MCDurable_retries` | histories, replay, equal answers | two attempts, two weaves, two concurrent steps and one that follows, two channels each, one crash, evictions by other runs; the weaves are interchangeable (symmetry) |
| `MCDurable_orphan_save` | *violated*: completed steps are never run again | three attempts of a caller that waits for each outcome |
| `MCClient_calls` | at most once, by whom, one channel, nobody waits for ever on a dead one | two calls of one capability and a streamed one of another, for which a search may name the wrong fiber; two fibers, two ports, one stop, two channels |
| `MCHandshake_establish` | who the peer is, when data may flow, why an attempt is refused and that it ends, half-open channels are noticed | a Rust dialer with a pinned peer and a listener without a timeout; two keys and two endorsements each, one fault, two envelopes of up to two chunks in each direction |
| `MCCalls_tree` | limits and spans along a tree of calls, every call returns, streams unwind | an app and three calls, side by side or nested, to a durable unary fiber and a streaming one that has a sink of its own; two contexts (deadline 0, budget 2, a sink and a trace; budget 2 only), handlers that impose a deadline of 1, costs 1 and 2 |
| `MCClient_close_crashes` | *violated*: a handler never takes its connection down | the same, with three channels |

Why the bounds are enough. In `Conn`, correlation ids are never reused and the entries of
the maps are independent, so calls interact only through the queues, the tasks and the
lifetime of the Conn: one call, one stream and one event source already compete for each of
them, and the queues are shorter than the traffic. The proofs cover more calls. In
`Registry`, identities interact only in rankings; two connections of one owner give every
overtaking of two requests. In `Federation`, three peers are the least where a peer that is
not asked holds something different from two that are; TLC sees copies outlive a withdrawal,
and the proof covers any ttl against any expiry. In `Grants`, three links are the least with
one in the middle; the proofs cover every length. In `Durable`, two attempts give every
overlap of one attempt with another, and the three steps every order of a concurrent and a
dependent step; that histories do not mix is also proved for any number. In `Client`, calls
meet only in the caches of their fiber and the lock, which all calls share: two calls of one
capability race for one channel, a third one to another fiber competes for the lock and is
what `close` finds in its iteration; two ports are the least where a fiber can come back at
the other's; two channels are one to each fiber, or one that was lost and its replacement.
The proofs cover any number of each. In `Handshake`, an attempt has two ends and three
messages; two keys and two endorsements are the least where the first one found is the wrong
one, and a frame of two chunks the least with a boundary in it. In `Calls`, three calls are
the least with a caller, a call of it and a call beneath that, or two of them that share a
channel; a clock of two values has a time before and after each deadline. The proofs cover
every depth.

Named bounds that cut behaviour off rather than model it: `MaxEvents`, `MaxTime`, `MaxSubs`,
`MaxSigned`, `MaxElsewhere`, `MaxLinks`, `MaxRevoked`, `MaxChannels`, `MaxCrashes`,
`MaxStops`, `Last`, `MaxKeys`, `MaxCalls`. All other limits (`OutCap`, `InCap`, `ChanCap`,
`MaxPeers`, `Width`, `Tops`) exist in the code with larger values. `CHECK_DEADLOCK FALSE` is
set for `Conn`, `Durable`, `Client`, `Handshake` and `Calls` only, where everything may
legitimately be finished (a dropped channel, a run with no attempt left, a handler whose
calls have ended, an attempt that failed, a tree that is done).

### The properties

- `PendingIsExact` = `RegisteredWhileWaiting` and `NoStaleEntry` (`conn.rs` `call`): no
  reply can miss its waiter, and no outcome but Closed leaves an entry in the map.
- `CutNeverThinned` = `StreamPrefix` and `CompleteStreamCloses` (`route`): overflow cuts a
  stream and never thins it, and the last chunk closes it.
- `EventsInOrder` (`route`, `subscribe`): overflow drops events, never reorders them, within
  one receiver and from that of one subscription to that of the next.
- `AtMostOnceRpc`: see `Rpc` above.
- `NobodyIsHeldUp` = `EveryCallReturns` and `ServeLoopAdvances`, under `FairSpec`, for an end
  whose frames are read or refused (`Drained`): its key stays fresh, or else its peer serves,
  ends its handlers, has a fresh key and lets go of its Conn once its loop has ended (a
  premise, not a promise of the code). Otherwise the peer's reader stops (`conn.rs:161`)
  while its writer and a handler that hangs keep the socket open, and whoever writes waits for
  room that never comes; TLC finds that behaviour when `Drained` is left out. Nothing is said
  of the consumer of a stream whose reader has ended: only the drop of the Conn releases it
  (section 5).
- `StoreIsSound` = `StoreIsMap` and `NoRevokedSigner`, `VersionsAdvance`,
  `OwnerControls`, `VisibilityRespected` (`registry.rs`, `server.rs`). `VersionsAdvance` is
  about records that stay stored; one that was removed may come back in an older version.
- `AnswersAreSound` = `AnswersVerify` and `OnePerIdentity`, `AnswersAreServed`
  (`federation.rs`), and `BoundedStaleness` (`plan.md:423`): what a hit can answer was served
  by a member, with a live lease, less than its ttl ago. A copy may outlive its lease or its
  withdrawal, but by no more than that, however often it is asked for.
- `HonouredAsGranted` = `WithinAuthority` and `ChainOfCustody`, `RevokedRefused`,
  `HeldGrantUsable` (`grant.rs`, `app.py`).
- `HistoriesDontMix`, `CalmRetriesReplay`, `AnswersAgree` (`checkpoint.py`, `app.py`): the
  first whatever happens, the others for a calm run. Without the part of `calm` that is about
  foreign evictions TLC finds the violation: a save is overtaken by the next one, which goes
  by a new channel, is served last, and the step of the newer one runs again.
- `CalledOnceAsDiscovered` = `AtMostOnce` and `ServedAsDiscovered`, `NobodyWaitsOnDead`,
  `OneLiveChannel` (`app.py`, `conn.py`): the channel is replaced before a request is sent,
  never after; the peer is the fiber that discovery named; whoever waits hears of the
  channel's end; the second look under the lock finds the channel that another call has
  opened. `OneLiveChannel` says nothing of a fiber once a call to it has failed: such a call
  evicts a channel without closing it.
- `AuthenticatedPeer`, `RefusedForAReason` (`secure.rs`, `identity.rs`): an end that is up
  knows who is at the other, by a key endorsed when the attempt began; and without a fault
  nobody is turned away but because the first endorsement of its working key is not valid
  (`FirstIsValid`, re-endorsed keys included: the code, not its comment, see section 5), it is
  not expected, or a timer fired.
- `MutualBeforeData`, `FramesIntact` (`secure.rs`): the initiator may send before it is
  accepted, but nothing of it comes out before; a frame comes out whole and in its place or
  ends the channel.
- `AttemptsSettle` = `EveryAttemptEnds` and `HalfOpenIsNoticed` (`conn.rs`): an attempt with
  a timeout ends whatever the peer does, and the reader of an end that is up ends when the
  other is down, whether or not anybody drops the Conn.
- `BudgetBoundsDepth`, `AdmittedInTime` (`envelope.rs`, `app.py`): no handler is admitted
  after the deadline of an invocation above it, and a chain of handlers is no longer than the
  budget. A durable handler starts when its checkpoint has been loaded, perhaps later.
- `CoherentTrace` (`tracing.py`, `app.py`): spans go to the sink chosen on the way down and
  no span is without its parent's once the parent has ended, if both are of one trace. A
  handler that was called without a trace reports no span, and its calls are roots of traces
  of their own.
- `EveryCallReturns`, `StreamsUnwind` of `Calls` (`conn.py`, `app.py`): timers end calls that
  no handler answers; when the app closes, streams that feed on streams end all the way down,
  but for those that hang on a channel which was evicted, missed by a close or opened after
  it. `EveryCallReturns` is of calls that have a channel: connecting (`conn.py:36`) and the
  send before the wait (`conn.py:136`) have no timer.

### Fairness

`FairSpec` asks weak fairness of the writer and reader tasks, of the futures of calls with
their timers, and of the serving loop: tokio polls a woken task again, and a timer always
fires. It asks nothing of handlers, stream consumers, subscribers, or of whoever might drop
a Conn: those are application code. `Handshake` asks that an end whose process is alive goes
on with what it has received, and that time passes; it asks nothing of a stalled one, nor
that anybody drops a Conn. `Calls` asks that time passes and that the event loops run what
is ready: timers, the pump of a stream whose channel is closed, and the end of a handler
that has returned or raised, its span included, which supposes that a sink answers or
refuses in the end. It never asks that a handler returns or that a checkpoint store answers.
The other modules state safety only.

## 4. The proofs

TLAPS checks `Spec => []Inv` or `Spec => [][A]_vars` for every value of the constants that
satisfies the named assumption of the module (`ConnAssumption`, `RecordsAssumption`,
`RegistryAssumption`, `FederationAssumption`, `GrantsAssumption`, `DurableAssumption`,
`ClientAssumption`, `HandshakeAssumption`, `CallsAssumption`: the constants have their
types, ends are distinct, capacities are positive). TLC evaluates these assumptions in the
runs.

| module | theorems | inductive invariant, and why it is needed |
|---|---|---|
| `ConnProofs` | `TypeCorrect` (every queue keeps its capacity), `PendingStaysExact` | `CallInv`: the two parts need each other, and `AnsweredWasIssued`, since a reply removes an entry and answers a call in one step |
| | `EventsStayInOrder` | `EventInv`: the path of a frame is the reader's wire, the writer's hand and the outbound queue, in this order (`Path`), and nothing is written after a reset (`LinkInv`, `PathInv`). The events on it are in the order of emission (`PathInOrder`) and later than all that a subscriber was told (`ToldInOrder`) |
| | `CallsImplementRpc` | `RequestInv`: what is due, on the path to a reader or in its inbound queue, was sent and has not run, and nothing is due twice (`RequestsDue`, `DueOnce`); what a serving loop works at, or answers on the path back, has run (`AtWork`, `Replies`). Each step of `Conn` is then a step of `Rpc` or none |
| | `StreamsAreCutNeverThinned` | `ChunkInv` = `RequestInv` and: the chunks of a stream are in order on the path, the last one sent at its end (`ChunksInOrder`, `ChunksSent`), and as long as the reader has the entry of the stream they continue what its receiver was given (`NoGap`, `TookPrefix`, `OpenStreams`) |
| `RegistryProofs` | `RegistryTypeCorrect`, `StoreStaysSound`, `VersionsOnlyAdvance` | `StoreInv` = type, map and revocation: that a registration replaces exactly one record needs the map, and a renewal keeps the signer |
| | `VisibilityIsRespected`, `OwnersStayInControl` | the same: a reply repeats stored records, each of which is the only one of its identity and not revoked, so what a write removes belongs to the identity of its channel, and what a revocation removes to the key it adds |
| `FederationProofs` | `FederationTypeCorrect`, `AnswersStaySound`, `ClosedFederation` | `FedInv`: a cached answer repeats what an earlier step put into the cache, so the cache must hold one record of the right identity (`CacheInv`) |
| | `StalenessBounded` | `StaleInv`: an entry runs out a ttl after it was taken from a member that served it alive, and `seen` is no earlier than that (and never in the future, `SeenPast`) |
| `GrantsProofs` | `GrantsTypeCorrect`, `GrantsAreChains`, `RevocationEndsGrants` | `GrantsInv` with `CheckInv`, the loop invariant of `Grant::verify`: the links passed so far are one chain, unrevoked, and each constraint of an earlier link is one of the last. Chains of any length, for any resources |
| | `HeldGrantsStayUsable` | `TypeOK` alone: a chain with one more link, by the holder to itself, passes the loop of `Grant::verify` wherever the chain does, at every index |
| `DurableProofs` | `DurableTypeCorrect`, `OneHistoryEach` | `DurableInv`: what is in transit is a history too (`TransitInv`), and an execution in progress still has the values it started from and was never begun before (`TaskInv`) |
| | `CalmRetriesResume`, `CalmAnswersAgree` | `CalmInv`. While retries wait for each other only the last attempt has anything left to do (`LastBusy`); as long as its handler runs, all it has sent lies in one channel (`OneChannel`), where every save contains the one before (`SavesGrow`), and what it works with contains all that is stored or on its way (`Outgrown`). So a value that was loaded, or whose save was answered, is stored and no save in flight takes it back (`Loaded`, `Saved`), and that of a completed step never goes (`DoneKept`). A foreign eviction keeps all this when nothing waits in the channel it takes away (lemma `OtherEvictsRetryInv`), and ends the calm otherwise |
| `ClientProofs` | `ClientTypeCorrect`, `DeadChannelsAreTold` | `TypeInv`: a waiting call has a channel and a target (`Told`, `Named`), and a cached channel leads to its fiber (`Wired`) |
| | `CalledOnceAsTold` | `ClientInv`: a request lies in one place of one channel, to the fiber its call names, and is of a call that was not started (`Asked`); whatever says that a call was answered is of one that was (`Answered`, `StartedFor`) |
| | `OneLiveChannelEach` | `LockInv`: whoever opens a channel holds the lock and no channel is cached for its fiber (`Locked`), and `close` forgets only what it closed (`Visits`) |
| `HandshakeProofs` | `HandshakeTypeCorrect`, `PeersAreAuthentic`, `DataAfterMutualProof`, `RefusalsHaveReasons` | `HandshakeInv`: what lies in a queue says who wrote it and for which key (`WireInv`), an end that has written nothing has nothing on the way (`NewInv`), and an identity's endorsements are its own (`OwnInv`); `CalmInv` for the refusals of attempts without a fault |
| | `FramesComeOutWhole` | `FrameInv`. Nothing numbers the messages of a stream, so that an end decrypts the next plaintext and not a later one needs a count: of what was written to it, everything is decrypted, still on its wire, or the one message of the handshake it has yet to read (`Turns`, which needs to know how far the other end can be, `Phases`). With that the last messages on a wire are the plaintexts not yet decrypted, in order, unless garbled (`WireInOrder`), and what was decrypted is the first ones (`FramesInOrder`). That the chunks of one frame add up to its plaintext, at any length and chunk size, is the lemma `FrameIsWhole`: the recursive sum agrees with a closed form, since there is no least place where the two differ |
| `CallsProofs` | `CallsTypeCorrect`, `BudgetBoundsChains`, `HandlersAdmittedInTime` | `ContextInv`: the line of a request is made of requests, none with an earlier deadline (`Descent`), and the budget left and the length of the line add up to what the app had (`Metered`) |
| | `TracesAreCoherent` | `TraceInv`: a request carries the sink that the last configured invocation above it chose (`SinkInv`), every span went to that sink (`SpanInv`), and whoever has ended reported what it had to (`EndedInv`) |

Each proof has one lemma per action or group of actions, and a last one for `Next`.

Only model-checked: the liveness properties and everything under fairness, which are out
of the prover's reach. Every safety property of a run is a theorem.

## 5. Where the code and its documents differ

Each of these has a run whose counterexample shows it.

1. A renewal changes the signed payload (`registry.rs:181`): a renewed record no longer
   verifies at the client that resolves it, against `plan.md:94` (`MCRegistry_renew_unsigned`).
2. A failed `gather_all` leaves its siblings running; one that finishes later saves its
   old checkpoint over the retry's, and the next retry runs a completed step again, against
   `app.py:322-324` (`MCDurable_orphan_save`). Overlapping retries and late saves have the
   same effect; `CalmRetriesReplay` says when it cannot happen.
3. `app.py:390` promises to "never crash the connection". When a call of `gather_all` fails,
   the handler ends and `Client.close` (`app.py:177`) closes the channels that the siblings
   still wait on; a sibling that fails evicts its entry (`app.py:134`), the iteration raises
   RuntimeError out of the handler's `finally` (`app.py:393`), `on_client`
   (`server.py:35-38`) closes the channel of the handler's own caller, and the channels not
   yet visited stay open (`MCClient_close_crashes`).

Met while modelling, without a run:

- a stream does not always close when its channel ends: `conn.rs:237` says its receiver
  "closes when a chunk with `stream_end` arrives or the channel ends", but the reader that
  stops (`conn.rs:157`) leaves the senders in the map that the Conn owns, so the consumer
  waits until the Conn is dropped, for ever if somebody keeps an `Arc` of it, as the test
  at `crates/thicket-net/tests/net.rs:346-363` does;
- `plan.md:425-426` lets the highest version win; `resolve` returns the first peer's
  record (`federation.rs:124`) and caches it;
- a working key is judged by the first endorsement that names it (`identity.rs:274-277`), so
  a key that was endorsed again is refused once its first window has passed, where
  `identity.rs:258-260` only asks for an endorsement that covers it (`RefusedForAReason`
  states what the code does);
- the registry forgets the version of what it removes, so after a deregister, a sweep or a
  revocation an older version may be registered again (`registry.rs:87`, `189`);
- all runs of a weave share the client of its checkpoint store: the failure of one evicts the
  channel (`app.py:132-134`), a save of another run that still waits in it is overtaken by the
  next, and a completed step of a run to which nothing has happened can run again, against
  `app.py:322-324`;
- a durable handler may start after the deadline it was admitted within, since nothing looks
  at the clock after the load of its checkpoint (`app.py:346`, `377`);
- a stream that hangs on a channel which was evicted (`app.py:134`), missed by an interrupted
  close (`app.py:177`) or opened by a task that outlived the close runs on for ever, where
  `app.py:399-400` lets it end with its subscriber;
- a handler that is called without a trace reports no span (`tracing.py:102`) while its calls
  start traces of their own (`tracing.py:45`), whose roots have no parent in any sink;
- `secure.rs:73` verifies with an empty revocation set, so a revoked working key still opens
  channels, against `plan.md:321-323`;
- the error codes of Python's gates (`BudgetExhausted`, `DeadlineExceeded`, `QuotaExceeded`,
  `Error`) are not in Rust's closed `ErrorCode` (`envelope.rs:34-42`): a Rust caller cannot
  decode such a reply and times out, against `plan.md:434-435`;
- `_stream` suppresses what its generator raises (`app.py:417`), so no error ends the stream,
  against `plan.md:440-441`, and the reader waits for its own timeout;
- a budget is debited from the child only, never from the caller's own context, so siblings
  each get it whole, where `thicket-wire.md:101-103` subtracts what was spent; depth is
  bounded, breadth is not;
- Rust servers check neither deadline nor budget (nobody calls `is_expired`,
  `envelope.rs:267`);
- an infinite stream read by `gather` never returns (its timeout is between chunks), and a
  unary handler goes on after its caller has given up;
- a dead connection to a sink is never evicted (`tracing.py:79-86`), and a sink that accepts
  and stays silent holds the channel's serving loop, since `Conn.connect` has no timeout;
- `Conn.connect` runs under the client's one lock (`app.py:125`): such a peer also blocks
  every new channel of the client;
- the timeout of a Rust call covers the wait for the reply only: the request is enqueued
  before it (`conn.rs:224`), so a peer that does not read, such as one whose reader has met
  an expired key (`conn.rs:161`), blocks the caller and the serving loop without limit;
- in the Python client a timeout, or a failure that comes late, evicts a channel that is
  open and in use, and nobody closes it (`app.py:125`, `134`, `143`);
- a Python stream whose channel closes ends like a complete one, and `gather` returns what
  had come (`conn.py:155`, `app.py:152-168`);
- a ValueError of `Conn.connect` (another fiber listens at the port) is no OSError, so the
  stale discovery is not evicted and later calls meet it again (`conn.py:40-42`); nor does
  `gather` evict when it cannot connect, because it connects outside its `try`;
- a subscription outlives its receiver and swallows the topic's events (`conn.rs:340`),
  where the comment at `conn.rs:273-274` lets them go to the inbound queue;
- a streaming request dropped by a full inbound queue has no timeout (`conn.rs:352`),
  although the comment at `conn.rs:306-307` counts on one;
- `renew` can move an expiry back (`registry.rs:183`), where the comment at
  `registry.rs:169-170` wants it to move forward;
- Python compares `str(value)` with a constraint (`grant.py:86`), so that an attribute that
  is absent reads as "None", unlike in Rust.

## 6. What is left out

Cryptography, CBOR, framing and the embeddings are abstracted to what they decide (does it
verify, which record ranks first, may the frame be too large). Adversaries are outside the
model, except that holders of grants may sign and assemble what they like. The state fiber
of `Durable` is taken to persist (`run(persist=...)`), and its handlers keep the contract
of `checkpoint.py:15`: a deterministic sequence of steps, which also means that a handler
does not catch the failure of a step and go on. A registry's revocations do not reach the
federation, which verifies with an empty revocation set, as the code does. `flush` is not
modelled because nothing calls it.

In `Handshake` an end has one attempt; the accept loop starts a task for each connection and
shares nothing between them. The `handshake.rs` of `thicket-interconnect` is the same proof
without a transport, and no crate uses it. In `Calls` grants, checkpoints and the discovery of
a fiber are left to `Grants`, `Durable` and `Client`, every fiber can be reached, and the
connections of `SpanEmitter` are left out. The directory client only wraps `Conn::call`.

Not modelled at all: trust (sums and quotients of floating-point numbers over attestations,
without any protocol, which nothing calls yet), the embedder (likewise), the encodings and
the cryptography, the trigger, collector, memory and router fibers (a set of unbounded
queues, a list of spans, a dictionary: single steps of one event loop behind the streams
and calls that `Calls` and `Client` model), LLM and tool fibers, apps and the CLI.

## 7. Plan

Done, in this order: `Conn`/`Rpc`, `Records`/`Registry`, `Federation`, `Grants`, `Durable`,
`Client`, `Handshake`, `Calls`, each with its runs and its theorems.

Theorems to add: that `Client` promises its callers what `Rpc` does, as a refinement.
