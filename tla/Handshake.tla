----------------------------- MODULE Handshake -----------------------------
(***************************************************************************)
(* The establishment of a channel and the encrypted frames it then         *)
(* carries: crates/thicket-net/src/secure.rs, the half of conn.rs that     *)
(* runs before the tasks of Conn exist, the endorsed working keys of       *)
(* crates/thicket-core/src/identity.rs, and sdk/py/thicket/secure.py,      *)
(* which has no timeout. Two nodes meet on one stream. Each node is honest *)
(* and presents its own identity, whose keys may be rotated, re-endorsed,  *)
(* expired or not endorsed at all; the node at the endpoint need not be    *)
(* the one the dialer expects. The network may garble a message, a process *)
(* may stall or die. An identity stands for its root key and its hash.     *)
(***************************************************************************)
EXTENDS Naturals, Sequences

CONSTANTS
    Ids,         \* identities, root keys
    Ends,        \* the two ends of the stream
    Dialer,      \* the end that connects, the Noise initiator
    Expected,    \* per end: identities it accepts, all when none is pinned
    Timed,       \* Rust ends: under HANDSHAKE_TIMEOUT, and checking freshness
    Patience,    \* HANDSHAKE_TIMEOUT in ticks of the clock
    Lifetimes,   \* how long the key of a fresh identity is valid
    Windows,     \* validity windows that its root endorses afterwards
    Payload,     \* NOISE_MAX_PAYLOAD
    Plaintexts,  \* lengths of the envelopes an end sends, in this order
    MaxTime,     \* bound on the clock
    MaxKeys,     \* bound on the working keys an identity generates
    MaxEndorsed, \* bound on its endorsements
    MaxFaults    \* bound on garbled messages, stalls and crashes

Time == 0..MaxTime
Key == Ids \X (1..MaxKeys)
Chunk == [nonce : Nat, len : Nat]
Endorsement == [key : Key, from : Time, until : Time, root : Ids]
LocalIdentity == [id : Ids, root : Ids, endorsements : Seq(Endorsement), working : Key]
VerifiedPeer == [id : Ids, working : Key, until : Time]
NoPeer == [id |-> "none"]
Peer(e) == CHOOSE o \in Ends : o # e

ASSUME HandshakeAssumption ==
    /\ Dialer \in Ends /\ \E o \in Ends : o # Dialer /\ Ends = {Dialer, o}
    /\ Expected \in [Ends -> SUBSET Ids]
    /\ Timed \subseteq Ends
    /\ Lifetimes \subseteq Time
    /\ Windows \subseteq [from : Time, until : Time]
    /\ {Payload, Patience} \subseteq Nat \ {0}
    /\ Plaintexts \in Seq(Nat)
    /\ {MaxTime, MaxFaults} \subseteq Nat
    /\ {MaxKeys, MaxEndorsed} \subseteq Nat \ {0}

VARIABLES
    clock,
    local,    \* per end: the identity it presents
    st,       \* per end: where its attempt is
    began,    \* per end: when it started, the `now` it verifies with
    peer,     \* per end: the VerifiedPeer of an established channel
    wire,     \* per end: messages sent to it that it has not read
    nonces,   \* per end: chunks encrypted and chunks decrypted so far
    sent,     \* per end: plaintexts it has sent
    got,      \* per end: frames it has decrypted, as their chunks
    readerDone, \* ends whose reader has ended, their Conn held or not
    stalled,  \* ends whose process has stopped without closing its socket
    faults    \* faults so far

endVars == <<st, began, peer>>
dataVars == <<nonces, sent, got, readerDone>>
vars == <<clock, local, endVars, wire, dataVars, stalled, faults>>

(***************************************************************************)
(* Working keys.                                                           *)
(***************************************************************************)
Endorse(root, key, w) == [key |-> key, from |-> w.from, until |-> w.until, root |-> root]

(* LocalIdentity::from_root: one fresh working key, endorsed from 0 on.    *)
FromRoot(id, until) ==
    [id |-> id, root |-> id, working |-> <<id, 1>>,
     endorsements |-> <<Endorse(id, <<id, 1>>, [from |-> 0, until |-> until])>>]

(* verify_working_key with an empty revocation set, and the expiry it      *)
(* leaves in the VerifiedPeer: both take the first endorsement of the key. *)
IsFirst(p, i) ==
    /\ p.endorsements[i].key = p.working
    /\ \A j \in 1..(i - 1) : p.endorsements[j].key # p.working

Endorsed(p) == \E i \in DOMAIN p.endorsements : IsFirst(p, i)

FirstEndorsement(p) ==
    p.endorsements[CHOOSE i \in DOMAIN p.endorsements : IsFirst(p, i)]

(* A verifier that forgets when an endorsement starts, and one that takes  *)
(* its last second for too late.                                           *)
VerifyWorkingKeyEarly(p, now) ==
    /\ p.root = p.id /\ Endorsed(p) /\ FirstEndorsement(p).root = p.root
    /\ now <= FirstEndorsement(p).until

VerifyWorkingKeyStrict(p, now) ==
    /\ p.root = p.id /\ Endorsed(p) /\ FirstEndorsement(p).root = p.root
    /\ FirstEndorsement(p).from <= now /\ now < FirstEndorsement(p).until

VerifyWorkingKey(p, now) ==
    /\ p.root = p.id
    /\ Endorsed(p)
    /\ FirstEndorsement(p).root = p.root
    /\ now \in FirstEndorsement(p).from .. FirstEndorsement(p).until

(***************************************************************************)
(* The messages of the handshake. The proof is a LocalIdentity and the     *)
(* Noise static that its signature binds, named by the end that made it.   *)
(***************************************************************************)
Hello == [type |-> "e"]
Junk == [type |-> "junk"]
MakeProof(e) == [type |-> "proof", of |-> local[e], static |-> e]
Frame(chunks) == [type |-> "frame", chunks |-> chunks]

VerifyProof(e, m) ==
    /\ VerifyWorkingKey(m.of, began[e])
    /\ m.static = Peer(e)
    /\ m.of.id \in Expected[e]

Verified(p) == [id |-> p.id, working |-> p.working, until |-> FirstEndorsement(p).until]

Init ==
    /\ clock = 0
    /\ local \in [Ends -> {FromRoot(id, t) : id \in Ids, t \in Lifetimes}]
    /\ local[Dialer].id # local[Peer(Dialer)].id
    /\ st = [e \in Ends |-> "new"]
    /\ began = [e \in Ends |-> 0]
    /\ peer = [e \in Ends |-> NoPeer]
    /\ wire = [e \in Ends |-> <<>>]
    /\ nonces = [e \in Ends |-> [out |-> 0, in |-> 0]]
    /\ sent = [e \in Ends |-> <<>>]
    /\ got = [e \in Ends |-> <<>>]
    /\ readerDone = {}
    /\ stalled = {}
    /\ faults = 0

(* Before the connection, the owner of a node endorses one of its keys for *)
(* a window, again or for the first time, or restarts it with its next key.*)
Unconnected == \A e \in Ends : st[e] = "new"

AddEndorsement(e, k, w) ==
    /\ Unconnected /\ Len(local[e].endorsements) < MaxEndorsed
    /\ k[1] = local[e].id
    /\ local' = [local EXCEPT ![e].endorsements = Append(@, Endorse(local[e].root, k, w))]
    /\ UNCHANGED <<clock, endVars, wire, dataVars, stalled, faults>>

Rotate(e) ==
    /\ Unconnected /\ local[e].working[2] < MaxKeys
    /\ local' = [local EXCEPT ![e].working = <<local[e].id, @[2] + 1>>]
    /\ UNCHANGED <<clock, endVars, wire, dataVars, stalled, faults>>

(***************************************************************************)
(* secure::establish under the timeout of Conn::establish.                 *)
(***************************************************************************)
Waiting(e) == st[e] \in {"wait1", "wait2", "wait3"}
Runs(e) == e \notin stalled
Arrived(e, type) == Runs(e) /\ wire[e] # <<>> /\ Head(wire[e]).type = type

(* What e writes is lost when the other end has dropped the stream.        *)
Consume(e) == [wire EXCEPT ![e] = Tail(@)]
Write(w, e, m) == IF st[Peer(e)] = "down" THEN w ELSE [w EXCEPT ![Peer(e)] = Append(@, m)]

(* An end that gives up, or loses its Conn, drops the stream.              *)
Drop(e) ==
    /\ st' = [st EXCEPT ![e] = "down"]
    /\ wire' = [wire EXCEPT ![e] = <<>>]
    /\ UNCHANGED <<clock, local, began, peer, dataVars>>

(* An end that is established without keeping whom it verified.            *)
DecideUnrecorded(e, m) ==
    /\ st' = [st EXCEPT ![e] = IF VerifyProof(e, m) THEN "up" ELSE "down"]
    /\ UNCHANGED peer

(* The proof decides; an expected peer is compared after it.               *)
Decide(e, m) ==
    IF VerifyProof(e, m)
    THEN /\ st' = [st EXCEPT ![e] = "up"]
         /\ peer' = [peer EXCEPT ![e] = Verified(m.of)]
    ELSE /\ st' = [st EXCEPT ![e] = "down"]
         /\ UNCHANGED peer

Dial ==
    /\ st[Dialer] = "new" /\ Runs(Dialer)
    /\ st' = [st EXCEPT ![Dialer] = "wait2"]
    /\ began' = [began EXCEPT ![Dialer] = clock]
    /\ wire' = Write(wire, Dialer, Hello)
    /\ UNCHANGED <<clock, local, peer, dataVars, stalled, faults>>

Accept ==
    LET e == Peer(Dialer) IN
    /\ st[e] = "new" /\ Runs(e) /\ st[Dialer] # "new"
    /\ st' = [st EXCEPT ![e] = "wait1"]
    /\ began' = [began EXCEPT ![e] = clock]
    /\ UNCHANGED <<clock, local, peer, wire, dataVars, stalled, faults>>

(* The responder answers the first message with its proof.                 *)
Answer(e) ==
    /\ st[e] = "wait1" /\ Arrived(e, "e")
    /\ st' = [st EXCEPT ![e] = "wait3"]
    /\ wire' = Write(Consume(e), e, MakeProof(e))
    /\ UNCHANGED <<clock, local, began, peer, dataVars, stalled, faults>>

(* The initiator sends its proof before it verifies the responder's.       *)
Finish(e) ==
    /\ st[e] = "wait2" /\ Arrived(e, "proof")
    /\ wire' = Write(Consume(e), e, MakeProof(e))
    /\ Decide(e, Head(wire[e]))
    /\ UNCHANGED <<clock, local, began, dataVars, stalled, faults>>

(* A responder that only looks whether a proof has come.                   *)
ConcludeUnverified(e) ==
    /\ st[e] = "wait3" /\ Arrived(e, "proof")
    /\ wire' = Consume(e)
    /\ st' = [st EXCEPT ![e] = "up"]
    /\ UNCHANGED <<clock, local, began, peer, dataVars, stalled, faults>>

Conclude(e) ==
    /\ st[e] = "wait3" /\ Arrived(e, "proof")
    /\ wire' = Consume(e)
    /\ Decide(e, Head(wire[e]))
    /\ UNCHANGED <<clock, local, began, dataVars, stalled, faults>>

(* A message Noise cannot read, or the end of the stream: a reset may take *)
(* what has arrived with it, and fails the write of the last message.      *)
Ended(e) == Runs(e) /\ st[Peer(e)] = "down"

HandshakeFails(e) ==
    /\ Waiting(e) /\ (Arrived(e, "junk") \/ Ended(e))
    /\ Drop(e)
    /\ UNCHANGED <<stalled, faults>>

(* MaxTime stands for every later time.                                    *)
Elapsed(e) == clock >= began[e] + Patience \/ clock = MaxTime

(* A timeout around the accepting side only.                               *)
HandshakeTimeoutAccept(e) ==
    /\ Waiting(e) /\ Runs(e) /\ e \in Timed \ {Dialer} /\ Elapsed(e)
    /\ Drop(e)
    /\ UNCHANGED <<stalled, faults>>

HandshakeTimeout(e) ==
    /\ Waiting(e) /\ Runs(e) /\ e \in Timed /\ Elapsed(e)
    /\ Drop(e)
    /\ UNCHANGED <<stalled, faults>>

(***************************************************************************)
(* The frames of an established channel: encrypt_frame cuts a plaintext    *)
(* into chunks of at most Payload bytes and Noise gives each chunk the     *)
(* next nonce; decrypt_frame needs every chunk to have the nonce its own   *)
(* counter expects.                                                        *)
(***************************************************************************)
ChunkCount(len) == (len + Payload - 1) \div Payload

(* The last chunk taken for the remainder, also when there is none.        *)
EncryptFrameRemainder(len, nonce) ==
    Frame([i \in 1..ChunkCount(len) |->
              [nonce |-> nonce + i - 1,
               len |-> IF i < ChunkCount(len) THEN Payload ELSE len % Payload]])

EncryptFrame(len, nonce) ==
    Frame([i \in 1..ChunkCount(len) |->
              [nonce |-> nonce + i - 1,
               len |-> IF i * Payload <= len THEN Payload ELSE len % Payload]])

Decrypts(chunks, nonce) == \A i \in DOMAIN chunks : chunks[i].nonce = nonce + i - 1

PlaintextLength(chunks) ==
    LET upTo[i \in 0..Len(chunks)] == IF i = 0 THEN 0 ELSE upTo[i - 1] + chunks[i].len
    IN upTo[Len(chunks)]

Send(e) ==
    /\ st[e] = "up" /\ Runs(e) /\ Len(sent[e]) < Len(Plaintexts)
    /\ LET len == Plaintexts[Len(sent[e]) + 1] IN
          /\ wire' = Write(wire, e, EncryptFrame(len, nonces[e].out))
          /\ nonces' = [nonces EXCEPT ![e].out = @ + ChunkCount(len)]
          /\ sent' = [sent EXCEPT ![e] = Append(@, len)]
    /\ UNCHANGED <<clock, local, endVars, got, readerDone, stalled, faults>>

(* The reader of a Rust end checks that the peer's key is fresh; then it   *)
(* decrypts.                                                               *)
Fresh(e) == e \in Timed => clock <= peer[e].until
Readable(e) == Arrived(e, "frame") /\ Fresh(e) /\ Decrypts(Head(wire[e]).chunks, nonces[e].in)

Receive(e) ==
    /\ st[e] = "up" /\ e \notin readerDone /\ Readable(e)
    /\ wire' = Consume(e)
    /\ nonces' = [nonces EXCEPT ![e].in = @ + Len(Head(wire[e]).chunks)]
    /\ got' = [got EXCEPT ![e] = Append(@, Head(wire[e]).chunks)]
    /\ UNCHANGED <<clock, local, endVars, sent, readerDone, stalled, faults>>

(* Anything else ends the reader, and only the reader: the Conn, and with  *)
(* it the stream, stays until its owner drops it.                          *)
ReaderEnds(e) ==
    /\ st[e] = "up" /\ e \notin readerDone /\ Runs(e)
    /\ (wire[e] # <<>> /\ ~Readable(e)) \/ Ended(e)
    /\ readerDone' = readerDone \cup {e}
    /\ UNCHANGED <<clock, local, endVars, wire, nonces, sent, got, stalled, faults>>

(***************************************************************************)
(* Time, faults, and an owner that is done with the channel.               *)
(***************************************************************************)
Tick ==
    /\ clock < MaxTime /\ clock' = clock + 1
    /\ UNCHANGED <<local, endVars, wire, dataVars, stalled, faults>>

Close(e) == st[e] = "up" /\ Runs(e) /\ Drop(e) /\ UNCHANGED <<stalled, faults>>

Fault == faults < MaxFaults /\ faults' = faults + 1

Garble(e) ==
    /\ Fault /\ wire[e] # <<>>
    /\ wire' = [wire EXCEPT ![e] = <<Junk>> \o Tail(@)]
    /\ UNCHANGED <<clock, local, endVars, dataVars, stalled>>

Stall(e) ==
    /\ Fault /\ Runs(e) /\ st[e] # "down"
    /\ stalled' = stalled \cup {e}
    /\ UNCHANGED <<clock, local, endVars, wire, dataVars>>

Crash(e) == Fault /\ st[e] \notin {"new", "down"} /\ Drop(e) /\ UNCHANGED stalled

(* What the process of an end does by itself.                              *)
Steps(e) ==
    \/ Answer(e) \/ Finish(e) \/ Conclude(e)
    \/ HandshakeFails(e) \/ HandshakeTimeout(e)
    \/ Receive(e) \/ ReaderEnds(e)

Next ==
    \/ Dial \/ Accept \/ Tick
    \/ \E e \in Ends :
        \/ Steps(e) \/ Send(e) \/ Rotate(e) \/ Close(e) \/ Garble(e) \/ Stall(e) \/ Crash(e)
        \/ \E k \in Key, w \in Windows : AddEndorsement(e, k, w)

Spec == Init /\ [][Next]_vars

(* The executor runs a task whose message has arrived or whose timer has   *)
(* fired, time passes, and the listener accepts.                           *)
FairSpec ==
    /\ Spec /\ WF_vars(Tick) /\ WF_vars(Accept)
    /\ \A e \in Ends : WF_vars(Steps(e))

(***************************************************************************)
(* Properties.                                                             *)
(***************************************************************************)
(* Every variable has its type; an end holds a VerifiedPeer exactly from   *)
(* the moment its handshake succeeds.                                      *)
Message == {Hello, Junk} \cup [type : {"proof"}, of : LocalIdentity, static : Ends]
             \cup [type : {"frame"}, chunks : Seq(Chunk)]

TypeOK ==
    /\ clock \in Time
    /\ local \in [Ends -> LocalIdentity]
    /\ st \in [Ends -> {"new", "wait1", "wait2", "wait3", "up", "down"}]
    /\ began \in [Ends -> Time]
    /\ peer \in [Ends -> VerifiedPeer \cup {NoPeer}]
    /\ wire \in [Ends -> Seq(Message)]
    /\ nonces \in [Ends -> [out : Nat, in : Nat]]
    /\ sent \in [Ends -> Seq(Nat)] /\ got \in [Ends -> Seq(Seq(Chunk))]
    /\ readerDone \subseteq Ends /\ stalled \subseteq Ends
    /\ faults \in Nat
    /\ \A e \in Ends : st[e] = "up" => peer[e] # NoPeer

(* VerifiedPeer (net/identity.rs:46): whoever an end holds as its peer is  *)
(* the node at the other end and one it accepts, and the expiry it will    *)
(* check frames against (conn.rs:161) is that of an endorsement of the key *)
(* the peer signs with, which was valid when the attempt began.            *)
AuthenticatedPeer ==
    \A e \in Ends : peer[e] # NoPeer =>
        LET p == local[Peer(e)] IN
        /\ peer[e].id = p.id /\ peer[e].id \in Expected[e]
        /\ peer[e].working = p.working
        /\ \E i \in DOMAIN p.endorsements :
              /\ p.endorsements[i].key = p.working /\ p.endorsements[i].root = p.id
              /\ began[e] \in p.endorsements[i].from .. p.endorsements[i].until
              /\ peer[e].until = p.endorsements[i].until

(* The initiator is established before the responder has seen its proof    *)
(* (secure.rs:132, 150) and may send at once: no plaintext comes out at an *)
(* end before both ends have verified each other.                          *)
MutualBeforeData ==
    \A e \in Ends : got[e] # <<>> => \A o \in Ends : peer[o] # NoPeer

(* encrypt_frame and decrypt_frame (secure.rs:157-199): what comes out of  *)
(* an end is a prefix of what went in at the other, whatever is garbled.   *)
FramesIntact ==
    \A e \in Ends :
        /\ Len(got[e]) <= Len(sent[Peer(e)])
        /\ \A i \in DOMAIN got[e] : PlaintextLength(got[e][i]) = sent[Peer(e)][i]

(* identity.rs:273-276: the working key of a node is judged by the first   *)
(* endorsement that names it, however many follow. An attempt that no      *)
(* fault disturbs and no timer ends fails only when that one is not valid  *)
(* when the attempt begins, or the other end refuses for such a reason:    *)
(* neither key rotation nor a new endorsement makes an end refuse more.    *)
FirstIsValid(p, now) ==
    \E i \in DOMAIN p.endorsements :
        /\ p.endorsements[i].key = p.working /\ p.endorsements[i].root = p.id
        /\ now \in p.endorsements[i].from .. p.endorsements[i].until
        /\ \A j \in DOMAIN p.endorsements : p.endorsements[j].key = p.working => i <= j

MayRefuse(e) ==
    \/ ~FirstIsValid(local[Peer(e)], began[e])
    \/ local[Peer(e)].id \notin Expected[e]

RefusedForAReason ==
    \A e \in Ends : faults = 0 /\ st[e] = "down" /\ peer[e] = NoPeer =>
        \/ MayRefuse(e)
        \/ e \in Timed /\ Elapsed(e)
        \/ /\ st[Peer(e)] = "down"
           /\ \/ MayRefuse(Peer(e)) \/ peer[Peer(e)] # NoPeer
              \/ Peer(e) \in Timed /\ Elapsed(Peer(e))

(* HANDSHAKE_TIMEOUT (conn.rs:26): "a silent or hostile peer must not be   *)
(* able to hang `connect`". Python's handshake has no timeout: it ends     *)
(* unless the other process stalls.                                        *)
EveryAttemptEnds ==
    \A e \in Ends : Waiting(e) ~>
        \/ ~Waiting(e)
        \/ e \in stalled
        \/ e \notin Timed /\ Peer(e) \in stalled

(* An end that is established with one that has refused or given up, whose *)
(* proof it never gets to see rejected, learns so from the end of stream:  *)
(* its reader ends, even if the owner of the Conn never drops it.          *)
HalfOpenIsNoticed ==
    \A e \in Ends : st[e] = "up" /\ st[Peer(e)] = "down" ~>
        e \in readerDone \/ st[e] = "down" \/ e \in stalled

(* The two ends settle: neither waits forever for the other, and neither   *)
(* goes on reading a channel that the other has refused.                   *)
AttemptsSettle == EveryAttemptEnds /\ HalfOpenIsNoticed
=============================================================================
