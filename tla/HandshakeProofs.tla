-------------------------- MODULE HandshakeProofs --------------------------
(***************************************************************************)
(* Proofs about Handshake, for any identities, keys, windows, endorsements,*)
(* pins, timeouts, chunk size and faults: who an end takes its peer to be, *)
(* when plaintext may come out of the channel, and which.                  *)
(***************************************************************************)
EXTENDS Handshake, SequenceTheorems, WellFoundedInduction, TLAPS

(* Sequences over a larger set, and what is left after the first element.  *)
LEMMA SeqWidens ==
  ASSUME NEW S, NEW T, S \subseteq T, NEW s \in Seq(S)
  PROVE  s \in Seq(T)
OBVIOUS

LEMMA HeadAndTail ==
  ASSUME NEW S, NEW s \in Seq(S), s # <<>>
  PROVE  Head(s) \in S /\ Tail(s) \in Seq(S)
OBVIOUS

LEMMA Bounds ==
  /\ Payload \in Nat \ {0} /\ Patience \in Nat \ {0}
  /\ MaxTime \in Nat /\ MaxKeys \in Nat \ {0}
BY HandshakeAssumption

(* The two ends of the stream.                                             *)
LEMMA PeerFacts ==
  ASSUME NEW e \in Ends
  PROVE  /\ Peer(e) \in Ends /\ Peer(e) # e /\ Peer(Peer(e)) = e
         /\ \A o \in Ends : o = e \/ o = Peer(e)
<1>1. PICK o \in Ends : o # Dialer /\ Ends = {Dialer, o}
  BY HandshakeAssumption
<1>2. Dialer \in Ends
  BY HandshakeAssumption
<1>3. \E x \in Ends : x # e
  BY <1>1, <1>2
<1>4. Peer(e) \in Ends /\ Peer(e) # e
  BY <1>3 DEF Peer
<1>5. \E x \in Ends : x # Peer(e)
  BY <1>4
<1>6. Peer(Peer(e)) \in Ends /\ Peer(Peer(e)) # Peer(e)
  BY <1>5 DEF Peer
<1>. QED  BY <1>1, <1>4, <1>6

(* What encrypt_frame makes of a plaintext.                                *)
LEMMA FrameType ==
  ASSUME NEW len \in Nat, NEW nonce \in Nat
  PROVE  /\ ChunkCount(len) \in Nat
         /\ EncryptFrame(len, nonce) \in Message
         /\ EncryptFrame(len, nonce).type = "frame"
<1>1. Payload \in Nat /\ Payload > 0
  BY HandshakeAssumption
<1>2. ChunkCount(len) \in Nat
  BY <1>1 DEF ChunkCount
<1>. DEFINE chunk(i) == [nonce |-> nonce + i - 1,
                         len |-> IF i * Payload <= len THEN Payload ELSE len % Payload]
            chunks == [i \in 1..ChunkCount(len) |-> chunk(i)]
<1>3. ASSUME NEW i \in 1..ChunkCount(len) PROVE chunk(i) \in Chunk
  <2>1. nonce + i - 1 \in Nat
    BY <1>2
  <2>2. len % Payload \in Nat
    BY <1>1
  <2>. QED  BY <1>1, <2>1, <2>2 DEF Chunk
<1>. HIDE DEF chunk
<1>4. chunks \in Seq(Chunk)
  BY <1>2, <1>3, IsASeq
<1>5. EncryptFrame(len, nonce) = [type |-> "frame", chunks |-> chunks]
  BY DEF EncryptFrame, Frame, chunk
<1>. HIDE DEF chunks
<1>. QED  BY <1>2, <1>4, <1>5 DEF Message

-----------------------------------------------------------------------------
(* What may be on the way to an end: the other end's proof, signed over    *)
(* its own Noise static, and frames only once that end has verified.       *)
Genuine(e) ==
    {m \in Message : /\ m.type = "proof" => m = MakeProof(Peer(e))
                     /\ m.type = "frame" => peer[Peer(e)] # NoPeer}

WireInv == \A e \in Ends : wire[e] \in Seq(Genuine(e))

(* Before its connection an end has verified nobody, and before the        *)
(* first nothing is on the way.                                            *)
NewInv ==
    /\ \A e \in Ends : st[e] = "new" => peer[e] = NoPeer
    /\ Unconnected => \A e \in Ends : wire[e] = <<>>

(* The owner of local[e] changes neither its identity nor its root.        *)
OwnInv == \A e \in Ends : local[e].root = local[e].id /\ local[e].working[1] = local[e].id

HandshakeInv ==
    TypeOK /\ WireInv /\ NewInv /\ OwnInv /\ AuthenticatedPeer /\ MutualBeforeData

LEMMA InitInv == Init => HandshakeInv
<1>. SUFFICES ASSUME Init PROVE HandshakeInv
  OBVIOUS
<1>1. {MaxTime, MaxFaults} \subseteq Nat /\ MaxKeys \in Nat \ {0} /\ Lifetimes \subseteq Time
  BY HandshakeAssumption
<1>2. 0 \in Time /\ 1 \in 1..MaxKeys
  BY <1>1 DEF Time
<1>3. ASSUME NEW id \in Ids, NEW t \in Lifetimes
      PROVE  /\ FromRoot(id, t) \in LocalIdentity
             /\ FromRoot(id, t).root = FromRoot(id, t).id
             /\ FromRoot(id, t).working[1] = FromRoot(id, t).id
  <2>1. <<id, 1>> \in Key
    BY <1>2 DEF Key
  <2>2. Endorse(id, <<id, 1>>, [from |-> 0, until |-> t]) \in Endorsement
    BY <1>1, <1>2, <2>1 DEF Endorse, Endorsement
  <2>. QED  BY <2>1, <2>2 DEF FromRoot, LocalIdentity
<1>4. \A e \in Ends : \E id \in Ids, t \in Lifetimes : local[e] = FromRoot(id, t)
  BY DEF Init
<1>5. local \in [Ends -> LocalIdentity] /\ OwnInv
  BY <1>3, <1>4 DEF Init, OwnInv
<1>6. TypeOK
  BY <1>1, <1>2, <1>5 DEF Init, TypeOK
<1>7. WireInv /\ NewInv /\ AuthenticatedPeer /\ MutualBeforeData
  BY DEF Init, WireInv, NewInv, AuthenticatedPeer, MutualBeforeData
<1>. QED  BY <1>5, <1>6, <1>7 DEF HandshakeInv

-----------------------------------------------------------------------------
(* Steps that change neither the identities nor what an end has verified.  *)
SamePeers == UNCHANGED <<local, peer>> /\ \A e \in Ends : peer[e] # NoPeer => began'[e] = began[e]

LEMMA SamePeersKeep ==
  ASSUME HandshakeInv, SamePeers
  PROVE  /\ OwnInv' /\ AuthenticatedPeer'
         /\ \A e \in Ends : Genuine(e)' = Genuine(e)
         /\ got' = got => MutualBeforeData'
<1>1. OwnInv'
  BY DEF HandshakeInv, OwnInv, SamePeers
<1>2. AuthenticatedPeer'
  <2>. SUFFICES ASSUME NEW e \in Ends, peer[e] # NoPeer
                PROVE  (peer[e] # NoPeer =>
        LET p == local[Peer(e)] IN
        /\ peer[e].id = p.id /\ peer[e].id \in Expected[e]
        /\ peer[e].working = p.working
        /\ \E i \in DOMAIN p.endorsements :
              /\ p.endorsements[i].key = p.working /\ p.endorsements[i].root = p.id
              /\ began[e] \in p.endorsements[i].from .. p.endorsements[i].until
              /\ peer[e].until = p.endorsements[i].until)'
    BY DEF AuthenticatedPeer, SamePeers
  <2>1. began'[e] = began[e] /\ local' = local /\ peer' = peer
    BY DEF SamePeers
  <2>. QED  BY <2>1 DEF HandshakeInv, AuthenticatedPeer
<1>3. \A e \in Ends : Genuine(e)' = Genuine(e)
  BY DEF SamePeers, Genuine, MakeProof
<1>4. got' = got => MutualBeforeData'
  BY DEF SamePeers, HandshakeInv, MutualBeforeData
<1>. QED  BY <1>1, <1>2, <1>3, <1>4

(* What an end takes from its wire and writes on the other's.              *)
WireOK(w) == w \in [Ends -> Seq(Message)] /\ \A e \in Ends : w[e] \in Seq(Genuine(e))

LEMMA ConsumeOK ==
  ASSUME WireOK(wire), NEW e \in Ends, wire[e] # <<>>
  PROVE  WireOK(Consume(e)) /\ Head(wire[e]) \in Genuine(e)
<1>1. wire[e] \in Seq(Message) /\ wire[e] \in Seq(Genuine(e))
  BY DEF WireOK
<1>2. Tail(wire[e]) \in Seq(Message) /\ Tail(wire[e]) \in Seq(Genuine(e))
  BY <1>1, HeadAndTail
<1>3. Head(wire[e]) \in Genuine(e)
  BY <1>1, HeadAndTail
<1>. QED  BY <1>2, <1>3 DEF WireOK, Consume

LEMMA WriteOK ==
  ASSUME NEW w, WireOK(w), NEW e \in Ends, NEW m \in Genuine(Peer(e))
  PROVE  WireOK(Write(w, e, m))
<1>1. Peer(e) \in Ends
  BY PeerFacts
<1>2. m \in Message
  BY DEF Genuine
<1>3. w[Peer(e)] \in Seq(Message) /\ w[Peer(e)] \in Seq(Genuine(Peer(e)))
  BY <1>1 DEF WireOK
<1>4. Append(w[Peer(e)], m) \in Seq(Message) /\ Append(w[Peer(e)], m) \in Seq(Genuine(Peer(e)))
  BY <1>2, <1>3
<1>. QED  BY <1>1, <1>4 DEF WireOK, Write

LEMMA EmptyOK ==
  ASSUME WireOK(wire), NEW e \in Ends
  PROVE  WireOK([wire EXCEPT ![e] = <<>>])
<1>1. <<>> \in Seq(Message) /\ \A o \in Ends : <<>> \in Seq(Genuine(o))
  OBVIOUS
<1>. QED  BY <1>1 DEF WireOK

(* The proof of an end, and its first message, are what the other expects. *)
LEMMA OwnProof ==
  ASSUME TypeOK, NEW e \in Ends
  PROVE  MakeProof(e) \in Genuine(Peer(e)) /\ Hello \in Genuine(Peer(e)) /\ Junk \in Genuine(e)
<1>1. Peer(Peer(e)) = e
  BY PeerFacts
<1>2. MakeProof(e) \in Message
  BY DEF MakeProof, Message, TypeOK
<1>3. MakeProof(e).type = "proof" /\ Hello.type = "e" /\ Junk.type = "junk"
  BY DEF MakeProof, Hello, Junk
<1>4. Hello \in Message /\ Junk \in Message
  BY DEF Message
<1>. QED  BY <1>1, <1>2, <1>3, <1>4 DEF Genuine

(* From the wire as it is seen before a step to the invariant after it.    *)
LEMMA WireNext ==
  ASSUME WireOK(wire'), \A e \in Ends : Genuine(e) \subseteq Genuine(e)'
  PROVE  WireInv' /\ wire' \in [Ends -> Seq(Message)]
<1>1. \A e \in Ends : wire'[e] \in Seq(Genuine(e)')
  BY SeqWidens DEF WireOK
<1>. QED  BY <1>1 DEF WireInv, WireOK

LEMMA WireIsOK == ASSUME HandshakeInv PROVE WireOK(wire)
BY DEF HandshakeInv, WireInv, TypeOK, WireOK

-----------------------------------------------------------------------------
(* The actions.                                                            *)
LEMMA DialKeeps ==
  ASSUME HandshakeInv, Dial PROVE HandshakeInv'
<1>1. Dialer \in Ends /\ peer[Dialer] = NoPeer
  BY HandshakeAssumption DEF Dial, HandshakeInv, NewInv
<1>2. SamePeers
  BY <1>1 DEF Dial, SamePeers, HandshakeInv, TypeOK
<1>3. WireOK(wire')
  BY <1>1, WireIsOK, OwnProof, WriteOK DEF Dial, HandshakeInv
<1>4. WireInv' /\ wire' \in [Ends -> Seq(Message)]
  BY <1>2, <1>3, SamePeersKeep, WireNext
<1>5. TypeOK'
  BY <1>1, <1>4 DEF Dial, dataVars, HandshakeInv, TypeOK
<1>6. NewInv'
  BY <1>1 DEF Dial, HandshakeInv, TypeOK, NewInv, Unconnected
<1>. QED  BY <1>2, <1>4, <1>5, <1>6, SamePeersKeep DEF Dial, dataVars, HandshakeInv

LEMMA AcceptKeeps ==
  ASSUME HandshakeInv, Accept PROVE HandshakeInv'
<1>. DEFINE e == Peer(Dialer)
<1>1. e \in Ends /\ peer[e] = NoPeer
  BY HandshakeAssumption, PeerFacts DEF Accept, HandshakeInv, NewInv
<1>2. SamePeers
  BY <1>1 DEF Accept, SamePeers, HandshakeInv, TypeOK
<1>3. WireOK(wire')
  BY WireIsOK DEF Accept
<1>4. WireInv' /\ wire' \in [Ends -> Seq(Message)]
  BY <1>2, <1>3, SamePeersKeep, WireNext
<1>5. TypeOK'
  BY <1>1, <1>4 DEF Accept, dataVars, HandshakeInv, TypeOK
<1>6. NewInv'
  BY <1>1 DEF Accept, HandshakeInv, TypeOK, NewInv, Unconnected
<1>. QED  BY <1>2, <1>4, <1>5, <1>6, SamePeersKeep DEF Accept, dataVars, HandshakeInv

LEMMA AnswerKeeps ==
  ASSUME HandshakeInv, NEW e \in Ends, Answer(e) PROVE HandshakeInv'
<1>1. SamePeers
  BY DEF Answer, SamePeers
<1>2. WireOK(Consume(e))
  BY WireIsOK, ConsumeOK DEF Answer, Arrived
<1>3. WireOK(wire')
  BY <1>2, OwnProof, WriteOK DEF Answer, HandshakeInv
<1>4. WireInv' /\ wire' \in [Ends -> Seq(Message)]
  BY <1>1, <1>3, SamePeersKeep, WireNext
<1>5. TypeOK'
  BY <1>4 DEF Answer, dataVars, HandshakeInv, TypeOK
<1>6. NewInv'
  BY DEF Answer, HandshakeInv, TypeOK, NewInv, Unconnected
<1>. QED  BY <1>1, <1>4, <1>5, <1>6, SamePeersKeep DEF Answer, dataVars, HandshakeInv

(* An identity whose working key is endorsed has a first endorsement of it.*)
LEMMA FirstIsEndorsement ==
  ASSUME NEW p \in LocalIdentity, Endorsed(p)
  PROVE  \E i \in DOMAIN p.endorsements :
            /\ p.endorsements[i].key = p.working
            /\ FirstEndorsement(p) = p.endorsements[i]
            /\ p.endorsements[i] \in Endorsement
<1>. DEFINE i == CHOOSE j \in DOMAIN p.endorsements : IsFirst(p, j)
<1>1. i \in DOMAIN p.endorsements /\ IsFirst(p, i)
  BY DEF Endorsed
<1>2. p.endorsements \in Seq(Endorsement)
  BY DEF LocalIdentity
<1>3. p.endorsements[i] \in Endorsement
  BY <1>1, <1>2
<1>. QED  BY <1>1, <1>3 DEF IsFirst, FirstEndorsement

(* The end that decides takes the other for what it is, or gives up.       *)
LEMMA DecideKeeps ==
  ASSUME HandshakeInv, NEW e \in Ends, NEW m, m = MakeProof(Peer(e)),
         st[e] # "new", Decide(e, m), UNCHANGED <<local, began>>
  PROVE  /\ st' \in [Ends -> {"new", "wait1", "wait2", "wait3", "up", "down"}]
         /\ peer' \in [Ends -> VerifiedPeer \cup {NoPeer}]
         /\ \A o \in Ends : st'[o] = "up" => peer'[o] # NoPeer
         /\ \A o \in Ends : peer[o] # NoPeer => peer'[o] # NoPeer
         /\ \A o \in Ends : st'[o] = "new" => st[o] = "new" /\ peer'[o] = NoPeer
         /\ st'[e] # "new"
         /\ AuthenticatedPeer'
<1>. DEFINE p == local[Peer(e)]
<1>1. Peer(e) \in Ends /\ p \in LocalIdentity /\ m.of = p
  BY PeerFacts DEF HandshakeInv, TypeOK, MakeProof
<1>2. CASE ~VerifyProof(e, m)
  <2>1. st' = [st EXCEPT ![e] = "down"] /\ peer' = peer
    BY <1>2 DEF Decide
  <2>2. SamePeers
    BY <2>1 DEF SamePeers
  <2>. QED  BY <2>1, <2>2, SamePeersKeep DEF HandshakeInv, TypeOK, NewInv
<1>3. CASE VerifyProof(e, m)
  <2>1. st' = [st EXCEPT ![e] = "up"] /\ peer' = [peer EXCEPT ![e] = Verified(p)]
    BY <1>1, <1>3 DEF Decide
  <2>2. /\ p.root = p.id /\ Endorsed(p) /\ FirstEndorsement(p).root = p.root
        /\ began[e] \in FirstEndorsement(p).from .. FirstEndorsement(p).until
        /\ p.id \in Expected[e]
    BY <1>1, <1>3 DEF VerifyProof, VerifyWorkingKey
  <2>3. PICK i \in DOMAIN p.endorsements :
            /\ p.endorsements[i].key = p.working
            /\ FirstEndorsement(p) = p.endorsements[i]
            /\ p.endorsements[i] \in Endorsement
    BY <1>1, <2>2, FirstIsEndorsement
  <2>4. Verified(p) = [id |-> p.id, working |-> p.working, until |-> p.endorsements[i].until]
    BY <2>3 DEF Verified
  <2>5. Verified(p) \in VerifiedPeer
    BY <1>1, <2>3, <2>4 DEF LocalIdentity, Endorsement, VerifiedPeer
  <2>6. Verified(p) # NoPeer
    BY <2>4 DEF NoPeer
  <2>7. /\ st' \in [Ends -> {"new", "wait1", "wait2", "wait3", "up", "down"}]
        /\ peer' \in [Ends -> VerifiedPeer \cup {NoPeer}]
        /\ peer'[e] = Verified(p) /\ st'[e] = "up"
        /\ \A o \in Ends : o # e => peer'[o] = peer[o] /\ st'[o] = st[o]
    BY <2>1, <2>5 DEF HandshakeInv, TypeOK
  <2>8. AuthenticatedPeer'
    <3>. SUFFICES ASSUME NEW o \in Ends, peer'[o] # NoPeer, NEW q, q = local[Peer(o)]
                  PROVE  /\ peer'[o].id = q.id /\ peer'[o].id \in Expected[o]
                         /\ peer'[o].working = q.working
                         /\ \E k \in DOMAIN q.endorsements :
                               /\ q.endorsements[k].key = q.working
                               /\ q.endorsements[k].root = q.id
                               /\ began[o] \in q.endorsements[k].from .. q.endorsements[k].until
                               /\ peer'[o].until = q.endorsements[k].until
      BY DEF AuthenticatedPeer
    <3>1. CASE o = e
      BY <3>1, <2>2, <2>3, <2>4, <2>7
    <3>2. CASE o # e
      BY <3>2, <2>7 DEF HandshakeInv, AuthenticatedPeer
    <3>. QED  BY <3>1, <3>2
  <2>9. \A o \in Ends : st'[o] = "up" => peer'[o] # NoPeer
    BY <2>6, <2>7 DEF HandshakeInv, TypeOK
  <2>10. \A o \in Ends : st'[o] = "new" => st[o] = "new" /\ peer'[o] = NoPeer
    BY <2>7 DEF HandshakeInv, NewInv
  <2>. QED  BY <2>6, <2>7, <2>8, <2>9, <2>10
<1>. QED  BY <1>2, <1>3

LEMMA KnownStaysGenuine ==
  ASSUME local' = local, \A o \in Ends : peer[o] # NoPeer => peer'[o] # NoPeer
  PROVE  \A e \in Ends : Genuine(e) \subseteq Genuine(e)'
BY PeerFacts DEF Genuine, MakeProof

LEMMA FinishKeeps ==
  ASSUME HandshakeInv, NEW e \in Ends, Finish(e) PROVE HandshakeInv'
<1>. DEFINE m == Head(wire[e])
<1>1. /\ st[e] # "new" /\ wire[e] # <<>> /\ m.type = "proof" /\ Decide(e, m)
      /\ UNCHANGED <<clock, local, began, nonces, sent, got, readerDone, stalled, faults>>
  BY DEF Finish, Arrived, dataVars
<1>2. WireOK(Consume(e)) /\ m \in Genuine(e)
  BY <1>1, WireIsOK, ConsumeOK
<1>3. m = MakeProof(Peer(e))
  BY <1>1, <1>2 DEF Genuine
<1>. HIDE DEF m
<1>4. WireOK(wire')
  BY <1>2, OwnProof, WriteOK DEF Finish, HandshakeInv
<1>5. /\ st' \in [Ends -> {"new", "wait1", "wait2", "wait3", "up", "down"}]
      /\ peer' \in [Ends -> VerifiedPeer \cup {NoPeer}]
      /\ \A o \in Ends : st'[o] = "up" => peer'[o] # NoPeer
      /\ \A o \in Ends : peer[o] # NoPeer => peer'[o] # NoPeer
      /\ \A o \in Ends : st'[o] = "new" => st[o] = "new" /\ peer'[o] = NoPeer
      /\ st'[e] # "new"
      /\ AuthenticatedPeer'
  BY <1>1, <1>3, DecideKeeps
<1>6. WireInv' /\ wire' \in [Ends -> Seq(Message)]
  BY <1>1, <1>4, <1>5, KnownStaysGenuine, WireNext
<1>7. TypeOK'
  BY <1>1, <1>5, <1>6 DEF HandshakeInv, TypeOK
<1>8. NewInv' /\ OwnInv'
  BY <1>1, <1>5 DEF HandshakeInv, NewInv, OwnInv, Unconnected
<1>9. MutualBeforeData'
  BY <1>1, <1>5 DEF HandshakeInv, MutualBeforeData
<1>. QED  BY <1>5, <1>6, <1>7, <1>8, <1>9 DEF HandshakeInv

LEMMA ConcludeKeeps ==
  ASSUME HandshakeInv, NEW e \in Ends, Conclude(e) PROVE HandshakeInv'
<1>. DEFINE m == Head(wire[e])
<1>1. /\ st[e] # "new" /\ wire[e] # <<>> /\ m.type = "proof" /\ Decide(e, m)
      /\ UNCHANGED <<clock, local, began, nonces, sent, got, readerDone, stalled, faults>>
  BY DEF Conclude, Arrived, dataVars
<1>2. WireOK(Consume(e)) /\ m \in Genuine(e)
  BY <1>1, WireIsOK, ConsumeOK
<1>3. m = MakeProof(Peer(e))
  BY <1>1, <1>2 DEF Genuine
<1>. HIDE DEF m
<1>4. WireOK(wire')
  BY <1>2 DEF Conclude, HandshakeInv
<1>5. /\ st' \in [Ends -> {"new", "wait1", "wait2", "wait3", "up", "down"}]
      /\ peer' \in [Ends -> VerifiedPeer \cup {NoPeer}]
      /\ \A o \in Ends : st'[o] = "up" => peer'[o] # NoPeer
      /\ \A o \in Ends : peer[o] # NoPeer => peer'[o] # NoPeer
      /\ \A o \in Ends : st'[o] = "new" => st[o] = "new" /\ peer'[o] = NoPeer
      /\ st'[e] # "new"
      /\ AuthenticatedPeer'
  BY <1>1, <1>3, DecideKeeps
<1>6. WireInv' /\ wire' \in [Ends -> Seq(Message)]
  BY <1>1, <1>4, <1>5, KnownStaysGenuine, WireNext
<1>7. TypeOK'
  BY <1>1, <1>5, <1>6 DEF HandshakeInv, TypeOK
<1>8. NewInv' /\ OwnInv'
  BY <1>1, <1>5 DEF HandshakeInv, NewInv, OwnInv, Unconnected
<1>9. MutualBeforeData'
  BY <1>1, <1>5 DEF HandshakeInv, MutualBeforeData
<1>. QED  BY <1>5, <1>6, <1>7, <1>8, <1>9 DEF HandshakeInv

(* An end drops the stream: it gives up, its owner is done, or it dies.    *)
LEMMA DropKeeps ==
  ASSUME HandshakeInv, NEW e \in Ends, Drop(e), st[e] # "new",
         stalled' = stalled, faults' \in Nat
  PROVE  HandshakeInv'
<1>1. SamePeers
  BY DEF Drop, SamePeers
<1>2. WireOK(wire')
  BY WireIsOK, EmptyOK DEF Drop
<1>3. WireInv' /\ wire' \in [Ends -> Seq(Message)]
  BY <1>1, <1>2, SamePeersKeep, WireNext
<1>4. TypeOK'
  BY <1>3 DEF Drop, dataVars, HandshakeInv, TypeOK
<1>5. NewInv'
  BY DEF Drop, HandshakeInv, TypeOK, NewInv, Unconnected
<1>. QED  BY <1>1, <1>3, <1>4, <1>5, SamePeersKeep DEF Drop, dataVars, HandshakeInv

LEMMA SendKeeps ==
  ASSUME HandshakeInv, NEW e \in Ends, Send(e) PROVE HandshakeInv'
<1>. DEFINE len == Plaintexts[Len(sent[e]) + 1]
            m == EncryptFrame(len, nonces[e].out)
<1>1. /\ st[e] = "up" /\ peer[e] # NoPeer
      /\ wire' = Write(wire, e, m)
      /\ nonces' = [nonces EXCEPT ![e].out = @ + ChunkCount(len)]
      /\ sent' = [sent EXCEPT ![e] = Append(@, len)]
      /\ UNCHANGED <<clock, local, st, began, peer, got, readerDone, stalled, faults>>
  BY DEF Send, endVars, HandshakeInv, TypeOK
<1>2. nonces[e].out \in Nat /\ sent[e] \in Seq(Nat)
  BY DEF HandshakeInv, TypeOK
<1>3. len \in Nat
  <2>1. Plaintexts \in Seq(Nat) /\ Len(sent[e]) \in Nat /\ Len(sent[e]) < Len(Plaintexts)
    BY <1>2, HandshakeAssumption DEF Send
  <2>2. Len(sent[e]) + 1 \in 1..Len(Plaintexts)
    BY <2>1
  <2>. QED  BY <2>1, <2>2
<1>. HIDE DEF len
<1>4. ChunkCount(len) \in Nat /\ m \in Message /\ m.type = "frame"
  BY <1>2, <1>3, FrameType
<1>5. Peer(Peer(e)) = e
  BY PeerFacts
<1>. HIDE DEF m
<1>6. m \in Genuine(Peer(e))
  BY <1>1, <1>4, <1>5 DEF Genuine
<1>7. SamePeers
  BY <1>1 DEF SamePeers
<1>8. WireOK(wire')
  BY <1>1, <1>6, WireIsOK, WriteOK
<1>9. WireInv' /\ wire' \in [Ends -> Seq(Message)]
  BY <1>7, <1>8, SamePeersKeep, WireNext
<1>10. nonces' \in [Ends -> [out : Nat, in : Nat]] /\ sent' \in [Ends -> Seq(Nat)]
  <2>1. nonces \in [Ends -> [out : Nat, in : Nat]] /\ sent \in [Ends -> Seq(Nat)]
    BY DEF HandshakeInv, TypeOK
  <2>2. nonces[e].out + ChunkCount(len) \in Nat
    BY <1>2, <1>4
  <2>3. Append(sent[e], len) \in Seq(Nat)
    BY <1>2, <1>3
  <2>4. nonces' \in [Ends -> [out : Nat, in : Nat]]
    BY <1>1, <2>1, <2>2
  <2>. QED  BY <1>1, <2>1, <2>3, <2>4
<1>11. TypeOK'
  BY <1>1, <1>9, <1>10 DEF HandshakeInv, TypeOK
<1>12. NewInv'
  BY <1>1 DEF HandshakeInv, NewInv, Unconnected
<1>. QED  BY <1>1, <1>7, <1>9, <1>11, <1>12, SamePeersKeep DEF HandshakeInv

(* What an end decrypts was sent by an end that had verified it.           *)
LEMMA ReceiveKeeps ==
  ASSUME HandshakeInv, NEW e \in Ends, Receive(e) PROVE HandshakeInv'
<1>. DEFINE m == Head(wire[e])
<1>1. /\ st[e] = "up" /\ peer[e] # NoPeer /\ wire[e] # <<>> /\ m.type = "frame"
      /\ wire' = Consume(e)
      /\ nonces' = [nonces EXCEPT ![e].in = @ + Len(m.chunks)]
      /\ got' = [got EXCEPT ![e] = Append(@, m.chunks)]
      /\ UNCHANGED <<clock, local, st, began, peer, sent, readerDone, stalled, faults>>
  BY DEF Receive, Readable, Arrived, endVars, HandshakeInv, TypeOK
<1>2. WireOK(wire') /\ m \in Genuine(e)
  BY <1>1, WireIsOK, ConsumeOK
<1>3. peer[Peer(e)] # NoPeer /\ m.chunks \in Seq(Chunk) /\ Len(m.chunks) \in Nat
  <2>1. m \in Message /\ peer[Peer(e)] # NoPeer
    BY <1>1, <1>2 DEF Genuine
  <2>2. m \in [type : {"frame"}, chunks : Seq(Chunk)]
    BY <1>1, <2>1 DEF Message, Hello, Junk
  <2>. QED  BY <2>1, <2>2
<1>. HIDE DEF m
<1>4. \A o \in Ends : peer[o] # NoPeer
  BY <1>1, <1>3, PeerFacts
<1>5. SamePeers
  BY <1>1 DEF SamePeers
<1>6. WireInv' /\ wire' \in [Ends -> Seq(Message)]
  BY <1>2, <1>5, SamePeersKeep, WireNext
<1>7. nonces' \in [Ends -> [out : Nat, in : Nat]] /\ got' \in [Ends -> Seq(Seq(Chunk))]
  <2>1. /\ nonces \in [Ends -> [out : Nat, in : Nat]]
        /\ got \in [Ends -> Seq(Seq(Chunk))]
    BY DEF HandshakeInv, TypeOK
  <2>2. nonces[e].in + Len(m.chunks) \in Nat
    BY <1>3, <2>1
  <2>3. nonces' \in [Ends -> [out : Nat, in : Nat]]
    BY <1>1, <2>1, <2>2
  <2>4. Append(got[e], m.chunks) \in Seq(Seq(Chunk))
    BY <1>3, <2>1
  <2>. QED  BY <1>1, <2>1, <2>3, <2>4
<1>8. TypeOK'
  BY <1>1, <1>6, <1>7 DEF HandshakeInv, TypeOK
<1>9. NewInv'
  BY <1>1 DEF HandshakeInv, NewInv, Unconnected
<1>10. MutualBeforeData'
  BY <1>1, <1>4 DEF MutualBeforeData
<1>. QED  BY <1>5, <1>6, <1>8, <1>9, <1>10, SamePeersKeep DEF HandshakeInv

(* Time passes, a message is garbled, a process stalls.                    *)
LEMMA TickKeeps ==
  ASSUME HandshakeInv, Tick PROVE HandshakeInv'
<1>1. SamePeers
  BY DEF Tick, endVars, SamePeers
<1>2. clock' \in Time
  <2>1. clock \in 0..MaxTime /\ clock < MaxTime /\ clock' = clock + 1
    BY DEF Tick, HandshakeInv, TypeOK, Time
  <2>. QED  BY <2>1, Bounds DEF Time
<1>3. WireOK(wire')
  BY WireIsOK DEF Tick
<1>4. WireInv' /\ wire' \in [Ends -> Seq(Message)]
  BY <1>1, <1>3, SamePeersKeep, WireNext
<1>5. TypeOK' /\ NewInv'
  BY <1>2, <1>4 DEF Tick, endVars, dataVars, HandshakeInv, TypeOK, NewInv, Unconnected
<1>. QED  BY <1>1, <1>4, <1>5, SamePeersKeep DEF Tick, dataVars, HandshakeInv

LEMMA GarbleKeeps ==
  ASSUME HandshakeInv, NEW e \in Ends, Garble(e) PROVE HandshakeInv'
<1>1. SamePeers
  BY DEF Garble, endVars, SamePeers
<1>2. wire[e] # <<>> /\ wire' = [wire EXCEPT ![e] = <<Junk>> \o Tail(wire[e])]
  BY DEF Garble
<1>3. wire[e] \in Seq(Message) /\ wire[e] \in Seq(Genuine(e))
  BY WireIsOK DEF WireOK
<1>4. Tail(wire[e]) \in Seq(Message) /\ Tail(wire[e]) \in Seq(Genuine(e))
  BY <1>2, <1>3, HeadAndTail
<1>5. Junk \in Genuine(e) /\ Junk \in Message
  BY OwnProof DEF HandshakeInv, Genuine
<1>6. /\ <<Junk>> \o Tail(wire[e]) \in Seq(Message)
      /\ <<Junk>> \o Tail(wire[e]) \in Seq(Genuine(e))
  BY <1>4, <1>5
<1>7. WireOK(wire')
  BY <1>2, <1>6, WireIsOK DEF WireOK
<1>8. WireInv' /\ wire' \in [Ends -> Seq(Message)]
  BY <1>1, <1>7, SamePeersKeep, WireNext
<1>9. TypeOK'
  BY <1>8 DEF Garble, Fault, endVars, dataVars, HandshakeInv, TypeOK
<1>10. NewInv'
  BY DEF Garble, endVars, HandshakeInv, NewInv, Unconnected
<1>. QED  BY <1>1, <1>8, <1>9, <1>10, SamePeersKeep DEF Garble, dataVars, HandshakeInv

LEMMA StallKeeps ==
  ASSUME HandshakeInv, NEW e \in Ends, Stall(e) PROVE HandshakeInv'
<1>1. SamePeers
  BY DEF Stall, endVars, SamePeers
<1>2. WireOK(wire')
  BY WireIsOK DEF Stall
<1>3. WireInv' /\ wire' \in [Ends -> Seq(Message)]
  BY <1>1, <1>2, SamePeersKeep, WireNext
<1>4. TypeOK' /\ NewInv'
  BY <1>3 DEF Stall, Fault, endVars, dataVars, HandshakeInv, TypeOK, NewInv, Unconnected
<1>. QED  BY <1>1, <1>3, <1>4, SamePeersKeep DEF Stall, dataVars, HandshakeInv

LEMMA ReaderEndsKeeps ==
  ASSUME HandshakeInv, NEW e \in Ends, ReaderEnds(e) PROVE HandshakeInv'
<1>1. SamePeers
  BY DEF ReaderEnds, endVars, SamePeers
<1>2. WireOK(wire')
  BY WireIsOK DEF ReaderEnds
<1>3. WireInv' /\ wire' \in [Ends -> Seq(Message)]
  BY <1>1, <1>2, SamePeersKeep, WireNext
<1>4. TypeOK' /\ NewInv'
  BY <1>3 DEF ReaderEnds, endVars, HandshakeInv, TypeOK, NewInv, Unconnected
<1>. QED  BY <1>1, <1>3, <1>4, SamePeersKeep DEF ReaderEnds, HandshakeInv

(* Before the connection nobody has verified anybody.                      *)
LEMMA OwnerKeeps ==
  ASSUME HandshakeInv, Unconnected, local' \in [Ends -> LocalIdentity], OwnInv',
         UNCHANGED <<clock, endVars, wire, dataVars, stalled, faults>>
  PROVE  HandshakeInv'
<1>1. \A e \in Ends : peer[e] = NoPeer /\ wire[e] = <<>>
  BY DEF HandshakeInv, NewInv, Unconnected
<1>2. WireInv'
  <2>1. \A e \in Ends : wire'[e] = <<>> /\ <<>> \in Seq(Genuine(e)')
    BY <1>1
  <2>. QED  BY <2>1 DEF WireInv
<1>3. TypeOK' /\ NewInv' /\ MutualBeforeData'
  BY DEF HandshakeInv, TypeOK, NewInv, MutualBeforeData, Unconnected, endVars, dataVars
<1>4. AuthenticatedPeer'
  BY <1>1 DEF AuthenticatedPeer, endVars
<1>. QED  BY <1>2, <1>3, <1>4 DEF HandshakeInv

LEMMA AddEndorsementKeeps ==
  ASSUME HandshakeInv, NEW e \in Ends, NEW k \in Key, NEW w \in Windows,
         AddEndorsement(e, k, w)
  PROVE  HandshakeInv'
<1>. DEFINE n == Endorse(local[e].root, k, w)
<1>1. local[e] \in LocalIdentity /\ w \in [from : Time, until : Time]
  BY HandshakeAssumption DEF HandshakeInv, TypeOK
<1>2. n \in Endorsement
  BY <1>1 DEF Endorse, Endorsement, LocalIdentity
<1>3. local' = [local EXCEPT ![e].endorsements = Append(local[e].endorsements, n)]
  BY DEF AddEndorsement
<1>. HIDE DEF n
<1>4. Append(local[e].endorsements, n) \in Seq(Endorsement)
  BY <1>1, <1>2 DEF LocalIdentity
<1>. DEFINE q == [local[e] EXCEPT !.endorsements = Append(local[e].endorsements, n)]
<1>5. q \in LocalIdentity /\ q.root = q.id /\ q.working[1] = q.id
  BY <1>1, <1>4 DEF LocalIdentity, HandshakeInv, OwnInv
<1>6. local' = [local EXCEPT ![e] = q]
  BY <1>3
<1>. HIDE DEF q
<1>7. local' \in [Ends -> LocalIdentity] /\ OwnInv'
  BY <1>5, <1>6 DEF HandshakeInv, TypeOK, OwnInv
<1>. QED  BY <1>7, OwnerKeeps DEF AddEndorsement

LEMMA RotateKeeps ==
  ASSUME HandshakeInv, NEW e \in Ends, Rotate(e)
  PROVE  HandshakeInv'
<1>. DEFINE k == <<local[e].id, local[e].working[2] + 1>>
<1>1. local[e] \in LocalIdentity /\ local[e].working[2] < MaxKeys
  BY DEF HandshakeInv, TypeOK, Rotate
<1>2. k \in Key /\ k[1] = local[e].id
  BY <1>1, Bounds DEF LocalIdentity, Key
<1>3. local' = [local EXCEPT ![e].working = k]
  BY DEF Rotate
<1>. HIDE DEF k
<1>. DEFINE q == [local[e] EXCEPT !.working = k]
<1>4. q \in LocalIdentity /\ q.root = q.id /\ q.working[1] = q.id
  BY <1>1, <1>2 DEF LocalIdentity, HandshakeInv, OwnInv
<1>5. local' = [local EXCEPT ![e] = q]
  BY <1>3
<1>. HIDE DEF q
<1>6. local' \in [Ends -> LocalIdentity] /\ OwnInv'
  BY <1>4, <1>5 DEF HandshakeInv, TypeOK, OwnInv
<1>. QED  BY <1>6, OwnerKeeps DEF Rotate

-----------------------------------------------------------------------------
(* Every step keeps the invariant.                                         *)
LEMMA EndStepKeeps ==
  ASSUME HandshakeInv, NEW e \in Ends,
         \/ Steps(e) \/ Send(e) \/ Rotate(e) \/ Close(e)
         \/ Garble(e) \/ Stall(e) \/ Crash(e)
         \/ \E k \in Key, w \in Windows : AddEndorsement(e, k, w)
  PROVE  HandshakeInv'
<1>1. faults \in Nat /\ faults + 1 \in Nat
  BY DEF HandshakeInv, TypeOK
<1>2. CASE Answer(e) \/ Finish(e) \/ Conclude(e)
  BY <1>2, AnswerKeeps, FinishKeeps, ConcludeKeeps
<1>3. CASE HandshakeFails(e) \/ HandshakeTimeout(e)
  BY <1>1, <1>3, DropKeeps DEF HandshakeFails, HandshakeTimeout, Waiting
<1>4. CASE ReaderEnds(e) \/ Close(e)
  BY <1>1, <1>4, ReaderEndsKeeps, DropKeeps DEF Close
<1>5. CASE Crash(e)
  BY <1>1, <1>5, DropKeeps DEF Crash, Fault
<1>6. CASE Receive(e) \/ Send(e) \/ Garble(e) \/ Stall(e)
  BY <1>6, ReceiveKeeps, SendKeeps, GarbleKeeps, StallKeeps
<1>7. CASE Rotate(e) \/ \E k \in Key, w \in Windows : AddEndorsement(e, k, w)
  BY <1>7, RotateKeeps, AddEndorsementKeeps
<1>. QED  BY <1>2, <1>3, <1>4, <1>5, <1>6, <1>7 DEF Steps

LEMMA StepKeeps == HandshakeInv /\ [Next]_vars => HandshakeInv'
<1>. SUFFICES ASSUME HandshakeInv, [Next]_vars PROVE HandshakeInv'
  OBVIOUS
<1>1. CASE Dial \/ Accept \/ Tick
  BY <1>1, DialKeeps, AcceptKeeps, TickKeeps
<1>2. CASE UNCHANGED vars
  <2>1. SamePeers /\ wire' = wire
    BY <1>2 DEF vars, endVars, SamePeers
  <2>2. WireInv' /\ wire' \in [Ends -> Seq(Message)]
    BY <2>1, WireIsOK, WireNext, SamePeersKeep
  <2>3. TypeOK' /\ NewInv'
    BY <1>2, <2>2 DEF vars, endVars, dataVars, HandshakeInv, TypeOK, NewInv, Unconnected
  <2>. QED  BY <1>2, <2>1, <2>2, <2>3, SamePeersKeep DEF vars, dataVars, HandshakeInv
<1>. QED  BY <1>1, <1>2, EndStepKeeps DEF Next

LEMMA InvHolds == Spec => []HandshakeInv
<1>. QED  BY InitInv, StepKeeps, PTL DEF Spec

(* secure.rs, conn.rs:95: an end holds a verified peer from the moment its *)
(* handshake succeeds, and every message and frame is well formed.         *)
THEOREM HandshakeTypeCorrect == Spec => []TypeOK
<1>1. HandshakeInv => TypeOK
  BY DEF HandshakeInv
<1>. QED  BY <1>1, InvHolds, PTL

(* verify_proof (secure.rs:65) and expected_peer (conn.rs:110): whoever an *)
(* end takes for its peer is the node at the other end, one it accepts,    *)
(* and signs with a key that was endorsed when the attempt began.          *)
THEOREM PeersAreAuthentic == Spec => []AuthenticatedPeer
<1>1. HandshakeInv => AuthenticatedPeer
  BY DEF HandshakeInv
<1>. QED  BY <1>1, InvHolds, PTL

(* secure.rs:132: although the initiator may send before the responder has *)
(* verified it, no plaintext comes out before both have verified the other.*)
THEOREM DataAfterMutualProof == Spec => []MutualBeforeData
<1>1. HandshakeInv => MutualBeforeData
  BY DEF HandshakeInv
<1>. QED  BY <1>1, InvHolds, PTL

-----------------------------------------------------------------------------
(* Refusals: while nothing has gone wrong, an end that gave up has a       *)
(* reason of its own, or the other end gave up first and had one.          *)
Excused(e) ==
    \/ MayRefuse(e)
    \/ e \in Timed /\ Elapsed(e)
    \/ /\ st[Peer(e)] = "down"
       /\ \/ MayRefuse(Peer(e)) \/ peer[Peer(e)] # NoPeer
          \/ Peer(e) \in Timed /\ Elapsed(Peer(e))

CalmInv ==
    faults = 0 => /\ \A e \in Ends : wire[e] \in Seq(Message \ {Junk})
                  /\ \A e \in Ends : st[e] = "down" /\ peer[e] = NoPeer => Excused(e)

LEMMA CalmIsRefused == CalmInv => RefusedForAReason
BY DEF CalmInv, RefusedForAReason, Excused

(* A proof whose key is first endorsed validly is not refused.             *)
LEMMA RefusalHasReason ==
  ASSUME HandshakeInv, NEW e \in Ends, ~VerifyProof(e, MakeProof(Peer(e)))
  PROVE  MayRefuse(e)
<1>. DEFINE p == local[Peer(e)]
<1>. SUFFICES ASSUME FirstIsValid(p, began[e]), p.id \in Expected[e]
              PROVE  FALSE
  BY DEF MayRefuse
<1>1. PICK i \in DOMAIN p.endorsements :
         /\ p.endorsements[i].key = p.working /\ p.endorsements[i].root = p.id
         /\ began[e] \in p.endorsements[i].from .. p.endorsements[i].until
         /\ \A j \in DOMAIN p.endorsements : p.endorsements[j].key = p.working => i <= j
  BY DEF FirstIsValid
<1>2. p \in LocalIdentity /\ p.root = p.id
  BY PeerFacts DEF HandshakeInv, TypeOK, OwnInv
<1>3. Len(p.endorsements) \in Nat /\ DOMAIN p.endorsements = 1..Len(p.endorsements)
  BY <1>2 DEF LocalIdentity
<1>. HIDE DEF p
<1>4. \A j \in 1..(i - 1) : j \in DOMAIN p.endorsements /\ ~(i <= j)
  BY <1>1, <1>3
<1>5. IsFirst(p, i)
  BY <1>1, <1>4 DEF IsFirst
<1>6. \A j \in DOMAIN p.endorsements : IsFirst(p, j) => j = i
  <2>. SUFFICES ASSUME NEW j \in DOMAIN p.endorsements, IsFirst(p, j), j # i PROVE FALSE
    OBVIOUS
  <2>1. i <= j
    BY <1>1 DEF IsFirst
  <2>2. i \in 1..(j - 1)
    BY <1>3, <2>1
  <2>. QED  BY <1>1, <2>2 DEF IsFirst
<1>7. Endorsed(p) /\ FirstEndorsement(p) = p.endorsements[i]
  BY <1>1, <1>5, <1>6 DEF Endorsed, FirstEndorsement
<1>8. VerifyWorkingKey(p, began[e])
  BY <1>1, <1>2, <1>7 DEF VerifyWorkingKey
<1>. QED  BY <1>8 DEF VerifyProof, MakeProof, p

(* A reason stays one.                                                     *)
LEMMA ExcuseStays ==
  ASSUME TypeOK, clock' = clock \/ Tick, local' = local,
         \A o \in Ends : st[o] = "down" => /\ st'[o] = "down" /\ began'[o] = began[o]
                                           /\ peer'[o] = peer[o],
         NEW e \in Ends, st[e] = "down", Excused(e)
  PROVE  Excused(e)'
<1>1. Peer(e) \in Ends
  BY PeerFacts
<1>2. \A o \in Ends : st[o] = "down" => (MayRefuse(o) => MayRefuse(o)')
  BY DEF MayRefuse
<1>3. \A o \in Ends : st[o] = "down" /\ Elapsed(o) => Elapsed(o)'
  <2>. SUFFICES ASSUME NEW o \in Ends, st[o] = "down", Elapsed(o) PROVE Elapsed(o)'
    OBVIOUS
  <2>1. clock \in 0..MaxTime /\ began[o] \in 0..MaxTime
    BY DEF TypeOK, Time
  <2>2. began'[o] = began[o] /\ (clock' = clock \/ (clock < MaxTime /\ clock' = clock + 1))
    BY DEF Tick
  <2>. QED  BY <2>1, <2>2, Bounds DEF Elapsed
<1>. QED  BY <1>1, <1>2, <1>3 DEF Excused

(* Messages on the way in a calm run.                                      *)
LEMMA CalmConsume ==
  ASSUME CalmInv, faults = 0, HandshakeInv, NEW e \in Ends, wire[e] # <<>>
  PROVE  /\ \A o \in Ends : Consume(e)[o] \in Seq(Message \ {Junk})
         /\ Head(wire[e]) # Junk
<1>1. wire \in [Ends -> Seq(Message)] /\ wire[e] \in Seq(Message \ {Junk})
  BY DEF CalmInv, HandshakeInv, TypeOK
<1>2. Tail(wire[e]) \in Seq(Message \ {Junk}) /\ Head(wire[e]) \in Message \ {Junk}
  BY <1>1, HeadAndTail
<1>. QED  BY <1>1, <1>2 DEF CalmInv, Consume

LEMMA CalmWrite ==
  ASSUME NEW w, \A o \in Ends : w[o] \in Seq(Message \ {Junk}), w \in [Ends -> Seq(Message)],
         NEW e \in Ends, NEW m \in Message, m.type # "junk"
  PROVE  \A o \in Ends : Write(w, e, m)[o] \in Seq(Message \ {Junk})
<1>1. Peer(e) \in Ends /\ m # Junk
  BY PeerFacts DEF Junk
<1>2. Append(w[Peer(e)], m) \in Seq(Message \ {Junk})
  BY <1>1
<1>. QED  BY <1>1, <1>2 DEF Write

LEMMA InitCalm == Init => CalmInv
<1>. SUFFICES ASSUME Init PROVE CalmInv
  OBVIOUS
<1>1. \A e \in Ends : wire[e] = <<>> /\ st[e] = "new"
  BY DEF Init
<1>2. <<>> \in Seq(Message \ {Junk})
  OBVIOUS
<1>. QED  BY <1>1, <1>2 DEF CalmInv

(* Ends that had given up before a step keep their excuse.                 *)
LEMMA CalmOthers ==
  ASSUME HandshakeInv, CalmInv, faults = 0, clock' = clock \/ Tick, local' = local,
         \A o \in Ends : st[o] = "down" => /\ st'[o] = "down" /\ began'[o] = began[o]
                                           /\ peer'[o] = peer[o]
  PROVE  \A o \in Ends : st[o] = "down" /\ peer'[o] = NoPeer => Excused(o)'
BY ExcuseStays DEF HandshakeInv, CalmInv

(* Steps that end no attempt.                                              *)
LEMMA CalmGoesOn ==
  ASSUME HandshakeInv, CalmInv, faults' = faults, clock' = clock \/ Tick, local' = local,
         \A o \in Ends : st[o] = "down" => began'[o] = began[o] /\ peer'[o] = peer[o],
         \A o \in Ends : st'[o] = "down" <=> st[o] = "down",
         faults = 0 => \A o \in Ends : wire'[o] \in Seq(Message \ {Junk})
  PROVE  CalmInv'
BY CalmOthers DEF CalmInv

LEMMA CalmEstablishing ==
  ASSUME HandshakeInv, CalmInv,
         Dial \/ Accept \/ Tick \/ (\E e \in Ends : Answer(e)) \/ UNCHANGED vars
  PROVE  CalmInv'
<1>1. wire \in [Ends -> Seq(Message)]
  BY DEF HandshakeInv, TypeOK
<1>2. CASE Dial
  <2>1. Hello \in Message /\ Hello.type # "junk" /\ Dialer \in Ends
    BY HandshakeAssumption DEF Message, Hello
  <2>2. faults = 0 => \A o \in Ends : wire'[o] \in Seq(Message \ {Junk})
    BY <1>1, <1>2, <2>1, CalmWrite DEF Dial, CalmInv
  <2>. QED  BY <1>2, <2>1, <2>2, CalmGoesOn DEF Dial, HandshakeInv, TypeOK
<1>3. CASE Accept
  <2>1. Peer(Dialer) \in Ends
    BY HandshakeAssumption, PeerFacts
  <2>. QED  BY <1>3, <2>1, CalmGoesOn DEF Accept, HandshakeInv, TypeOK, CalmInv
<1>4. CASE Tick \/ UNCHANGED vars
  BY <1>4, CalmGoesOn DEF Tick, vars, endVars, CalmInv
<1>5. ASSUME NEW e \in Ends, Answer(e) PROVE CalmInv'
  <2>1. wire[e] # <<>> /\ MakeProof(e) \in Message /\ MakeProof(e).type # "junk"
    BY <1>5, OwnProof DEF Answer, Arrived, HandshakeInv, Genuine, MakeProof
  <2>2. Consume(e) \in [Ends -> Seq(Message)]
    BY <2>1, WireIsOK, ConsumeOK DEF WireOK
  <2>3. faults = 0 => \A o \in Ends : Consume(e)[o] \in Seq(Message \ {Junk})
    BY <2>1, CalmConsume
  <2>4. faults = 0 => \A o \in Ends : wire'[o] \in Seq(Message \ {Junk})
    BY <1>5, <2>1, <2>2, <2>3, CalmWrite DEF Answer
  <2>. QED  BY <1>5, <2>4, CalmGoesOn DEF Answer, HandshakeInv, TypeOK
<1>. QED  BY <1>2, <1>3, <1>4, <1>5

LEMMA CalmDecides ==
  ASSUME HandshakeInv, CalmInv, NEW e \in Ends, Finish(e) \/ Conclude(e)
  PROVE  CalmInv'
<1>. SUFFICES ASSUME faults = 0
              PROVE  /\ \A o \in Ends : wire'[o] \in Seq(Message \ {Junk})
                     /\ \A o \in Ends : st'[o] = "down" /\ peer'[o] = NoPeer => Excused(o)'
  BY DEF CalmInv, Finish, Conclude
<1>. DEFINE m == Head(wire[e])
<1>1. /\ st[e] \in {"wait2", "wait3"} /\ wire[e] # <<>> /\ m.type = "proof" /\ Decide(e, m)
      /\ UNCHANGED <<clock, local, began>>
  BY DEF Finish, Conclude, Arrived
<1>2. WireOK(Consume(e)) /\ m \in Genuine(e)
  BY <1>1, WireIsOK, ConsumeOK
<1>3. m = MakeProof(Peer(e))
  BY <1>1, <1>2 DEF Genuine
<1>4. \A o \in Ends : wire'[o] \in Seq(Message \ {Junk})
  <2>1. MakeProof(e) \in Message /\ MakeProof(e).type # "junk"
    BY OwnProof DEF HandshakeInv, Genuine, MakeProof
  <2>2. \A o \in Ends : Consume(e)[o] \in Seq(Message \ {Junk})
    BY <1>1, CalmConsume
  <2>3. Consume(e) \in [Ends -> Seq(Message)]
    BY <1>2 DEF WireOK
  <2>. QED  BY <2>1, <2>2, <2>3, CalmWrite DEF Finish, Conclude
<1>. HIDE DEF m
<1>5. /\ st'[e] = "down" /\ peer'[e] = NoPeer => ~VerifyProof(e, m)
      /\ \A o \in Ends : o # e => st'[o] = st[o] /\ peer'[o] = peer[o]
  BY <1>1 DEF Decide, HandshakeInv, TypeOK
<1>6. \A o \in Ends : st[o] = "down" /\ peer'[o] = NoPeer => Excused(o)'
  BY <1>1, <1>5, CalmOthers
<1>7. st'[e] = "down" /\ peer'[e] = NoPeer => Excused(e)'
  BY <1>1, <1>3, <1>5, RefusalHasReason DEF MayRefuse, Excused
<1>. QED  BY <1>4, <1>5, <1>6, <1>7

LEMMA CalmGivesUp ==
  ASSUME HandshakeInv, CalmInv, NEW e \in Ends,
         HandshakeFails(e) \/ HandshakeTimeout(e) \/ Close(e)
  PROVE  CalmInv'
<1>. SUFFICES ASSUME faults = 0
              PROVE  /\ \A o \in Ends : wire'[o] \in Seq(Message \ {Junk})
                     /\ \A o \in Ends : st'[o] = "down" /\ peer'[o] = NoPeer => Excused(o)'
  BY DEF CalmInv, HandshakeFails, HandshakeTimeout, Close
<1>1. /\ st' = [st EXCEPT ![e] = "down"] /\ wire' = [wire EXCEPT ![e] = <<>>]
      /\ UNCHANGED <<clock, local, began, peer>>
  BY DEF HandshakeFails, HandshakeTimeout, Close, Drop
<1>2. wire \in [Ends -> Seq(Message)] /\ st \in [Ends -> {"new", "wait1", "wait2", "wait3", "up", "down"}]
  BY DEF HandshakeInv, TypeOK
<1>3. \A o \in Ends : wire'[o] \in Seq(Message \ {Junk})
  <2>1. <<>> \in Seq(Message \ {Junk})
    OBVIOUS
  <2>. QED  BY <1>1, <1>2, <2>1 DEF CalmInv
<1>4. \A o \in Ends : st[o] = "down" /\ peer'[o] = NoPeer => Excused(o)'
  BY <1>1, <1>2, CalmOthers
<1>5. peer[e] = NoPeer => Excused(e)'
  <2>. SUFFICES ASSUME peer[e] = NoPeer PROVE Excused(e)'
    OBVIOUS
  <2>1. Peer(e) \in Ends /\ Peer(Peer(e)) = e /\ Peer(e) # e
    BY PeerFacts
  <2>2. st[e] # "up" /\ (HandshakeFails(e) \/ HandshakeTimeout(e))
    BY DEF HandshakeInv, TypeOK, Close
  <2>3. CASE HandshakeTimeout(e)
    BY <1>1, <2>3 DEF HandshakeTimeout, Elapsed, Excused
  <2>4. CASE HandshakeFails(e)
    <3>1. ~Arrived(e, "junk")
      <4>. SUFFICES ASSUME Arrived(e, "junk") PROVE FALSE
        OBVIOUS
      <4>1. wire[e] # <<>> /\ Head(wire[e]).type = "junk"
        BY DEF Arrived
      <4>2. Head(wire[e]) # Junk /\ Head(wire[e]) \in Message
        BY <4>1, CalmConsume, WireIsOK, ConsumeOK DEF Genuine
      <4>. QED  BY <4>1, <4>2 DEF Message, Hello, Junk
    <3>2. st[Peer(e)] = "down" /\ Waiting(e)
      BY <2>4, <3>1 DEF HandshakeFails, Ended
    <3>3. st[e] # "down"
      BY <3>2 DEF Waiting
    <3>4. \/ peer[Peer(e)] # NoPeer \/ MayRefuse(Peer(e))
          \/ Peer(e) \in Timed /\ Elapsed(Peer(e))
      BY <2>1, <3>2, <3>3 DEF CalmInv, Excused
    <3>5. st'[Peer(e)] = "down"
      BY <1>1, <1>2, <2>1, <3>2
    <3>. QED  BY <1>1, <3>4, <3>5 DEF Excused, MayRefuse, Elapsed
  <2>. QED  BY <2>2, <2>3, <2>4
<1>. QED  BY <1>1, <1>2, <1>3, <1>4, <1>5

LEMMA CalmData ==
  ASSUME HandshakeInv, CalmInv, NEW e \in Ends, Send(e) \/ Receive(e) \/ ReaderEnds(e)
  PROVE  CalmInv'
<1>3. CASE ReaderEnds(e)
  BY <1>3, CalmGoesOn DEF ReaderEnds, endVars, CalmInv
<1>1. CASE Receive(e)
  <2>1. wire[e] # <<>> /\ wire' = Consume(e)
    BY <1>1 DEF Receive, Readable, Arrived
  <2>2. faults = 0 => \A o \in Ends : wire'[o] \in Seq(Message \ {Junk})
    BY <2>1, CalmConsume
  <2>. QED  BY <1>1, <2>2, CalmGoesOn DEF Receive, endVars
<1>2. CASE Send(e)
  <2>. DEFINE len == Plaintexts[Len(sent[e]) + 1]
              m == EncryptFrame(len, nonces[e].out)
  <2>1. Plaintexts \in Seq(Nat) /\ Len(sent[e]) \in Nat /\ Len(sent[e]) < Len(Plaintexts)
    BY <1>2, HandshakeAssumption DEF Send, HandshakeInv, TypeOK
  <2>2. Len(sent[e]) + 1 \in 1..Len(Plaintexts)
    BY <2>1
  <2>3. len \in Nat /\ nonces[e].out \in Nat
    BY <2>1, <2>2 DEF HandshakeInv, TypeOK
  <2>4. wire' = Write(wire, e, m) /\ UNCHANGED <<clock, local, st, began, peer, faults>>
    BY <1>2 DEF Send, endVars
  <2>. HIDE DEF len
  <2>5. m \in Message /\ m.type = "frame"
    BY <2>3, FrameType
  <2>. HIDE DEF m
  <2>6. faults = 0 => \A o \in Ends : wire'[o] \in Seq(Message \ {Junk})
    BY <2>4, <2>5, CalmWrite DEF CalmInv, HandshakeInv, TypeOK
  <2>. QED  BY <2>4, <2>6, CalmGoesOn
<1>. QED  BY <1>1, <1>2, <1>3

LEMMA CalmOwner ==
  ASSUME HandshakeInv, CalmInv, Unconnected,
         UNCHANGED <<clock, endVars, wire, dataVars, stalled, faults>>
  PROVE  CalmInv'
BY DEF CalmInv, Unconnected, endVars

LEMMA CalmStep == HandshakeInv /\ CalmInv /\ [Next]_vars => CalmInv'
<1>. SUFFICES ASSUME HandshakeInv, CalmInv, [Next]_vars PROVE CalmInv'
  OBVIOUS
<1>1. CASE Dial \/ Accept \/ Tick \/ (\E e \in Ends : Answer(e)) \/ UNCHANGED vars
  BY <1>1, CalmEstablishing
<1>2. ASSUME NEW e \in Ends,
             \/ Finish(e) \/ Conclude(e) \/ HandshakeFails(e) \/ HandshakeTimeout(e)
             \/ ReaderEnds(e) \/ Close(e) \/ Receive(e) \/ Send(e)
      PROVE  CalmInv'
  BY <1>2, CalmDecides, CalmGivesUp, CalmData
<1>3. ASSUME NEW e \in Ends, Garble(e) \/ Stall(e) \/ Crash(e) PROVE CalmInv'
  <2>1. faults' = faults + 1 /\ faults \in Nat
    BY <1>3 DEF Garble, Stall, Crash, Fault, HandshakeInv, TypeOK
  <2>2. faults' # 0
    BY <2>1
  <2>. QED  BY <2>2 DEF CalmInv
<1>4. ASSUME NEW e \in Ends, Rotate(e) \/ \E k \in Key, w \in Windows : AddEndorsement(e, k, w)
      PROVE  CalmInv'
  BY <1>4, CalmOwner DEF Rotate, AddEndorsement
<1>. QED  BY <1>1, <1>2, <1>3, <1>4 DEF Next, Steps

(* verify_working_key (identity.rs:273-276) and HANDSHAKE_TIMEOUT: without *)
(* a fault no attempt fails but for a key whose first endorsement is not   *)
(* valid when it begins, an unexpected identity, the timeout, or because   *)
(* the other end had one of these reasons or closed an established channel.*)
THEOREM RefusalsHaveReasons == Spec => []RefusedForAReason
<1>1. Init => HandshakeInv /\ CalmInv
  BY InitInv, InitCalm
<1>2. (HandshakeInv /\ CalmInv) /\ [Next]_vars => (HandshakeInv /\ CalmInv)'
  BY StepKeeps, CalmStep
<1>3. HandshakeInv /\ CalmInv => RefusedForAReason
  BY CalmIsRefused
<1>. QED  BY <1>1, <1>2, <1>3, PTL DEF Spec
-----------------------------------------------------------------------------
(* The lengths of the chunks of a frame add up to that of its plaintext.   *)

(* A set of numbers that is not empty has a least element.                 *)
LEMMA Least ==
  ASSUME NEW T \in SUBSET Nat, T # {}
  PROVE  \E n \in T : \A m \in T : n <= m
<1>1. IsWellFoundedOn(OpToRel(<, Nat), Nat)
  BY NatLessThanWellFounded
<1>2. PICK x \in T : \A y \in T : ~(<<y, x>> \in OpToRel(<, Nat))
  BY <1>1, WFMin
<1>3. \A y \in T : ~(y < x)
  BY <1>2 DEF OpToRel
<1>. QED  BY <1>3

(* Whatever adds the lengths one after the other is the sum.               *)
LEMMA SumOfChunks ==
  ASSUME NEW c \in Seq(Chunk), NEW f \in [0..Len(c) -> Nat], f[0] = 0,
         \A i \in 1..Len(c) : f[i] = f[i - 1] + c[i].len
  PROVE  PlaintextLength(c) = f[Len(c)]
<1>. DEFINE Step(g) == [i \in 0..Len(c) |-> IF i = 0 THEN 0 ELSE g[i - 1] + c[i].len]
            upTo == CHOOSE g : g = Step(g)
<1>1. Len(c) \in Nat
  OBVIOUS
<1>2. PlaintextLength(c) = upTo[Len(c)]
  BY DEF PlaintextLength
<1>3. f = Step(f)
  BY <1>1
<1>4. upTo = Step(upTo)
  BY <1>3
<1>. HIDE DEF upTo
<1>5. \A i \in 0..Len(c) : upTo[i] = IF i = 0 THEN 0 ELSE upTo[i - 1] + c[i].len
  BY <1>4
<1>6. \A i \in 0..Len(c) : upTo[i] = f[i]
  <2>. DEFINE D == {i \in 0..Len(c) : upTo[i] # f[i]}
  <2>. SUFFICES ASSUME D # {} PROVE FALSE
    OBVIOUS
  <2>1. PICK n \in D : \A m \in D : n <= m
    <3>. D \in SUBSET Nat
      BY <1>1
    <3>. HIDE DEF D
    <3>. QED  BY Least
  <2>2. n # 0 /\ n \in 1..Len(c) /\ n - 1 \in 0..Len(c)
    BY <1>1, <1>5
  <2>3. upTo[n - 1] = f[n - 1]
    BY <1>1, <2>1, <2>2
  <2>. QED  BY <1>5, <2>2, <2>3
<1>. QED  BY <1>1, <1>2, <1>6

LEMMA Division ==
  ASSUME NEW n \in Nat, NEW k \in Nat \ {0}
  PROVE  /\ n \div k \in Nat /\ n % k \in 0..(k - 1)
         /\ n = (n \div k) * k + (n % k)
OBVIOUS

(* The chunks of a plaintext are full but the last, which has the rest.    *)
LEMMA ChunkLengths ==
  ASSUME NEW len \in Nat, NEW i \in 1..ChunkCount(len)
  PROVE  /\ (i - 1) * Payload < len
         /\ i * Payload > len => i = ChunkCount(len) /\ len % Payload = len - (i - 1) * Payload
<1>. DEFINE n == ChunkCount(len)
<1>1. Payload \in Nat \ {0}
  BY Bounds
<1>2. /\ n \in Nat /\ (len + Payload - 1) % Payload \in 0..(Payload - 1)
      /\ len + Payload - 1 = n * Payload + ((len + Payload - 1) % Payload)
  BY <1>1, Division DEF ChunkCount
<1>. HIDE DEF n
<1>3. n * Payload < len + Payload
  BY <1>1, <1>2
<1>4. i \in Nat /\ i - 1 \in Nat /\ i <= n
  BY <1>2 DEF n
<1>5. /\ i * Payload <= n * Payload /\ (i - 1) * Payload = i * Payload - Payload
      /\ i * Payload \in Nat /\ n * Payload \in Nat
  BY <1>1, <1>2, <1>4
<1>6. (i - 1) * Payload < len
  BY <1>1, <1>3, <1>5
<1>7. ASSUME i * Payload > len PROVE i = n /\ len % Payload = len - (i - 1) * Payload
  <2>. DEFINE q == len \div Payload  r == len % Payload
  <2>1. q \in Nat /\ r \in 0..(Payload - 1) /\ len = q * Payload + r
    BY <1>1, Division
  <2>. HIDE DEF q, r
  <2>2. q = i - 1
    <3>1. q * Payload < i * Payload
      BY <1>1, <1>4, <1>7, <2>1
    <3>2. q < i
      BY <1>1, <1>4, <2>1, <3>1
    <3>3. (i - 1) * Payload < (q + 1) * Payload
      BY <1>1, <1>4, <1>6, <2>1
    <3>4. i - 1 < q + 1
      BY <1>1, <1>4, <2>1, <3>3
    <3>. QED  BY <1>4, <2>1, <3>2, <3>4
  <2>3. i = n
    <3>. SUFFICES ASSUME i < n PROVE FALSE
      BY <1>2, <1>4
    <3>1. (i + 1) * Payload <= n * Payload
      BY <1>1, <1>2, <1>4
    <3>2. (i + 1) * Payload = i * Payload + Payload
      BY <1>1, <1>4
    <3>. QED  BY <1>1, <1>3, <1>5, <1>7, <3>1, <3>2
  <2>4. r = len - q * Payload
    <3>1. q * Payload \in Nat
      BY <1>1, <2>1
    <3>. QED  BY <2>1, <3>1
  <2>. QED  BY <2>2, <2>3, <2>4 DEF r
<1>. QED  BY <1>6, <1>7 DEF n

(* encrypt_frame (secure.rs:157) loses and adds nothing, at any length.    *)
LEMMA FrameIsWhole ==
  ASSUME NEW len \in Nat, NEW nonce \in Nat
  PROVE  PlaintextLength(EncryptFrame(len, nonce).chunks) = len
<1>. DEFINE n == ChunkCount(len)
            c == EncryptFrame(len, nonce).chunks
            f == [i \in 0..n |-> IF i * Payload <= len THEN i * Payload ELSE len]
<1>1. Payload \in Nat \ {0} /\ n \in Nat
  BY Bounds, FrameType
<1>2. c \in Seq(Chunk) /\ Len(c) = n
      /\ \A i \in 1..n : c[i].len = IF i * Payload <= len THEN Payload ELSE len % Payload
  <2>1. EncryptFrame(len, nonce) \in Message /\ EncryptFrame(len, nonce).type = "frame"
    BY FrameType
  <2>2. c \in Seq(Chunk)
    BY <2>1 DEF Message, Hello, Junk
  <2>3. c = [i \in 1..n |-> [nonce |-> nonce + i - 1,
                             len |-> IF i * Payload <= len THEN Payload ELSE len % Payload]]
    BY DEF EncryptFrame, Frame
  <2>. QED  BY <1>1, <2>2, <2>3
<1>. HIDE DEF c
<1>3. \A i \in 1..n : /\ i \in Nat /\ i - 1 \in 0..n /\ i \in 0..n /\ (i - 1) * Payload < len
                      /\ i * Payload = (i - 1) * Payload + Payload
                      /\ i * Payload > len => len % Payload = len - (i - 1) * Payload
  BY <1>1, ChunkLengths
<1>4. f \in [0..n -> Nat] /\ f[0] = 0
  BY <1>1
<1>5. \A i \in 1..n : f[i] = f[i - 1] + c[i].len
  <2>. SUFFICES ASSUME NEW i \in 1..n PROVE f[i] = f[i - 1] + c[i].len
    OBVIOUS
  <2>1. f[i - 1] = (i - 1) * Payload /\ f[i] = IF i * Payload <= len THEN i * Payload ELSE len
    BY <1>1, <1>3
  <2>2. c[i].len = IF i * Payload <= len THEN Payload ELSE len % Payload
    BY <1>2
  <2>3. i * Payload \in Nat /\ (i - 1) * Payload \in Nat
    BY <1>1, <1>3
  <2>. HIDE DEF f, n
  <2>. QED  BY <1>1, <1>3, <2>1, <2>2, <2>3
<1>6. f[n] = len
  <2>1. len + Payload - 1 = n * Payload + ((len + Payload - 1) % Payload)
        /\ (len + Payload - 1) % Payload \in 0..(Payload - 1)
    BY <1>1, Division DEF ChunkCount
  <2>2. n * Payload \in Nat /\ n * Payload >= len
    BY <1>1, <2>1
  <2>. QED  BY <1>1, <2>2
<1>. HIDE DEF f, n
<1>. QED  BY <1>2, <1>4, <1>5, <1>6, SumOfChunks

-----------------------------------------------------------------------------
(* Frames: an end decrypts the plaintexts in the order they were sent, and *)
(* none is left out, because every message of its wire is counted.         *)
FrameOf(m, len) == \E nonce \in Nat : m = EncryptFrame(len, nonce)

(* The last messages of a wire w carry the plaintexts s not yet among the  *)
(* g that were decrypted, in their order, if they have not been garbled.   *)
Ordered(w, g, s) ==
    \A j \in 1..Len(w) :
        /\ w[j].type = "frame" =>
             j - Len(w) + Len(s) > g /\ FrameOf(w[j], s[j - Len(w) + Len(s)])
        /\ j - Len(w) + Len(s) > g => w[j].type \in {"frame", "junk"}

WireInOrder ==
    \A e \in Ends : st[e] # "down" => Ordered(wire[e], Len(got[e]), sent[Peer(e)])

FramesInOrder ==
    \A e \in Ends :
        /\ Len(got[e]) <= Len(sent[Peer(e)])
        /\ \A i \in 1..Len(got[e]) :
              \E nonce \in Nat : got[e][i] = EncryptFrame(sent[Peer(e)][i], nonce).chunks

NothingEarly == \A e \in Ends : st[e] \notin {"up", "down"} => sent[e] = <<>> /\ got[e] = <<>>

(* How far the two ends are: the proof of each is needed by the other.     *)
Phases ==
    LET d == st[Dialer]  r == st[Peer(Dialer)] IN
    /\ d \in {"new", "wait2", "up", "down"} /\ r \in {"new", "wait1", "wait3", "up", "down"}
    /\ d = "new" => r = "new"
    /\ d = "up" => r \in {"wait3", "up", "down"}
    /\ r = "up" => d \in {"up", "down"}

(* Of the handshake an end has at most one message to read, and none when  *)
(* it is the other end's turn or the handshake is over.                    *)
Surplus(w, g, s) == Len(w) + g - Len(s)
Unread(e) == Surplus(wire[e], Len(got[e]), sent[Peer(e)])

Turns ==
    LET d == st[Dialer]  r == st[Peer(Dialer)] IN
    /\ \A e \in Ends : st[e] # "down" => Unread(e) \in {0, 1}
    /\ \A e \in Ends : st[e] = "up" => Unread(e) = 0
    /\ d = "new" => Unread(Dialer) = 0 /\ Unread(Peer(Dialer)) = 0
    /\ d = "wait2" /\ r \in {"new", "wait1"} => Unread(Dialer) = 0
    /\ d = "wait2" /\ r = "wait3" => Unread(Peer(Dialer)) = 0

FrameInv == WireInOrder /\ FramesInOrder /\ NothingEarly /\ Phases /\ Turns

-----------------------------------------------------------------------------
(* One direction of the stream: w is on the way, g of the plaintexts s have*)
(* been decrypted.                                                         *)
LEMMA OrderedHead ==
  ASSUME NEW w \in Seq(Message), NEW g \in Nat, NEW s \in Seq(Nat), w # <<>>,
         Ordered(w, g, s), Surplus(w, g, s) \in {0, 1}
  PROVE  /\ Head(w).type = "frame" =>
              /\ Surplus(w, g, s) = 0 /\ g + 1 \in 1..Len(s)
              /\ FrameOf(Head(w), s[g + 1])
         /\ Head(w).type \in {"e", "proof"} => Surplus(w, g, s) = 1
<1>1. 1 \in 1..Len(w) /\ Head(w) = w[1] /\ Len(w) \in Nat /\ Len(s) \in Nat
  OBVIOUS
<1>2. /\ Head(w).type = "frame" =>
           1 - Len(w) + Len(s) > g /\ FrameOf(Head(w), s[1 - Len(w) + Len(s)])
      /\ 1 - Len(w) + Len(s) > g => Head(w).type \in {"frame", "junk"}
  BY <1>1 DEF Ordered
<1>3. Head(w).type = "frame" => 1 - Len(w) + Len(s) = g + 1
  <2>1. Len(w) + g - Len(s) = 0 \/ Len(w) + g - Len(s) = 1
    BY DEF Surplus
  <2>2. 1 - Len(w) + Len(s) = g + 1 \/ 1 - Len(w) + Len(s) = g
    BY <1>1, <2>1
  <2>. QED  BY <1>2, <2>2
<1>4. Head(w).type = "frame" =>
        /\ Len(w) + g - Len(s) = 0 /\ g + 1 \in 1..Len(s) /\ FrameOf(Head(w), s[g + 1])
  <2>. SUFFICES ASSUME Head(w).type = "frame"
                PROVE  /\ Len(w) + g - Len(s) = 0 /\ g + 1 \in 1..Len(s)
                       /\ FrameOf(Head(w), s[g + 1])
    OBVIOUS
  <2>1. FrameOf(Head(w), s[g + 1])
    BY <1>2, <1>3
  <2>. QED  BY <1>1, <1>3, <2>1
<1>5. Head(w).type \in {"e", "proof"} => ~(1 - Len(w) + Len(s) > g)
  BY <1>2
<1>. QED  BY <1>1, <1>4, <1>5 DEF Surplus

LEMMA OrderedTail ==
  ASSUME NEW w \in Seq(Message), NEW g \in Nat, NEW s \in Seq(Nat), w # <<>>, Ordered(w, g, s)
  PROVE  /\ Ordered(Tail(w), g, s)
         /\ Surplus(w, g, s) = 0 => Ordered(Tail(w), g + 1, s)
<1>1. /\ Len(Tail(w)) = Len(w) - 1 /\ Len(w) \in Nat /\ Len(s) \in Nat
      /\ \A j \in 1..Len(Tail(w)) : Tail(w)[j] = w[j + 1]
  OBVIOUS
<1>2. ASSUME NEW j \in 1..Len(Tail(w))
      PROVE  /\ j + 1 \in 1..Len(w) /\ j - Len(Tail(w)) + Len(s) = (j + 1) - Len(w) + Len(s)
             /\ Len(w) + g - Len(s) = 0 => j - Len(Tail(w)) + Len(s) > g + 1
  BY <1>1
<1>3. ASSUME NEW j \in 1..Len(Tail(w))
      PROVE  /\ Tail(w)[j].type = "frame" =>
                  /\ j - Len(Tail(w)) + Len(s) > g
                  /\ FrameOf(Tail(w)[j], s[j - Len(Tail(w)) + Len(s)])
             /\ j - Len(Tail(w)) + Len(s) > g => Tail(w)[j].type \in {"frame", "junk"}
  <2>. DEFINE i == j + 1
  <2>1. i \in 1..Len(w) /\ Tail(w)[j] = w[i] /\ j - Len(Tail(w)) + Len(s) = i - Len(w) + Len(s)
    BY <1>1, <1>2
  <2>. HIDE DEF i
  <2>. QED  BY <2>1 DEF Ordered
<1>4. ASSUME Len(w) + g - Len(s) = 0 PROVE Ordered(Tail(w), g + 1, s)
  <2>1. \A j \in 1..Len(Tail(w)) : j - Len(Tail(w)) + Len(s) > g /\ j - Len(Tail(w)) + Len(s) > g + 1
    BY <1>1, <1>4
  <2>. QED  BY <1>3, <2>1 DEF Ordered
<1>. QED  BY <1>3, <1>4 DEF Ordered, Surplus

(* What is sent is the last on the way.                                    *)
LEMMA OrderedAppend ==
  ASSUME NEW w \in Seq(Message), NEW g \in Nat, NEW s \in Seq(Nat), g <= Len(s), Ordered(w, g, s),
         NEW m \in Message, NEW x \in Nat, m.type = "frame", FrameOf(m, x)
  PROVE  Ordered(Append(w, m), g, Append(s, x))
<1>. DEFINE v == Append(w, m)  t == Append(s, x)
<1>1. /\ Len(v) = Len(w) + 1 /\ Len(t) = Len(s) + 1 /\ Len(w) \in Nat /\ Len(s) \in Nat
      /\ v[Len(w) + 1] = m /\ t[Len(s) + 1] = x
      /\ \A j \in 1..Len(w) : v[j] = w[j]
      /\ \A j \in 1..Len(s) : t[j] = s[j]
  OBVIOUS
<1>. HIDE DEF v, t
<1>2. ASSUME NEW j \in 1..Len(v)
      PROVE  /\ v[j].type = "frame" =>
                  j - Len(v) + Len(t) > g /\ FrameOf(v[j], t[j - Len(v) + Len(t)])
             /\ j - Len(v) + Len(t) > g => v[j].type \in {"frame", "junk"}
  <2>1. CASE j = Len(w) + 1
    <3>1. j - Len(v) + Len(t) = Len(s) + 1
      BY <1>1, <2>1
    <3>. QED  BY <1>1, <2>1, <3>1
  <2>2. CASE j # Len(w) + 1
    <3>. DEFINE k == j - Len(w) + Len(s)
    <3>1. /\ j \in 1..Len(w) /\ v[j] = w[j] /\ j - Len(v) + Len(t) = k
          /\ k > g => k \in 1..Len(s)
      BY <1>1, <2>2
    <3>2. /\ w[j].type = "frame" => k > g /\ FrameOf(w[j], s[k])
          /\ k > g => w[j].type \in {"frame", "junk"}
      BY <3>1 DEF Ordered
    <3>3. k > g => t[k] = s[k]
      BY <1>1, <3>1
    <3>. HIDE DEF k
    <3>. QED  BY <3>1, <3>2, <3>3
  <2>. QED  BY <2>1, <2>2
<1>. QED  BY <1>1, <1>2 DEF Ordered, v, t

(* A message of the handshake comes before all frames.                     *)
LEMMA OrderedEarly ==
  ASSUME NEW w \in Seq(Message), Ordered(w, 0, <<>>), NEW m \in Message, m.type # "frame"
  PROVE  Ordered(Append(w, m), 0, <<>>)
<1>1. /\ Len(w) \in Nat /\ Len(Append(w, m)) = Len(w) + 1 /\ Append(w, m)[Len(w) + 1] = m
      /\ \A j \in 1..Len(w) : Append(w, m)[j] = w[j]
  OBVIOUS
<1>2. Len(<<>>) = 0
  OBVIOUS
<1>3. \A j \in 1..Len(w) : w[j].type # "frame"
  BY <1>1, <1>2 DEF Ordered
<1>. QED  BY <1>1, <1>2, <1>3 DEF Ordered

LEMMA OrderedGarbled ==
  ASSUME NEW w \in Seq(Message), NEW g \in Nat, NEW s \in Seq(Nat), w # <<>>, Ordered(w, g, s)
  PROVE  Ordered(<<Junk>> \o Tail(w), g, s)
<1>. DEFINE v == <<Junk>> \o Tail(w)
<1>1. /\ Len(w) \in Nat /\ Len(v) = Len(w) /\ v[1] = Junk
      /\ \A j \in 2..Len(w) : v[j] = w[j]
  BY DEF Message
<1>2. Junk.type = "junk"
  BY DEF Junk
<1>. HIDE DEF v
<1>3. ASSUME NEW j \in 1..Len(v), v[j].type = "frame" \/ v[j].type \notin {"frame", "junk"}
      PROVE  v[j] = w[j] /\ j \in 1..Len(w)
  <2>1. j # 1
    BY <1>1, <1>2, <1>3
  <2>. QED  BY <1>1, <2>1
<1>4. ASSUME NEW j \in 1..Len(v)
      PROVE  /\ v[j].type = "frame" =>
                  j - Len(v) + Len(s) > g /\ FrameOf(v[j], s[j - Len(v) + Len(s)])
             /\ j - Len(v) + Len(s) > g => v[j].type \in {"frame", "junk"}
  <2>1. CASE v[j].type = "frame" \/ v[j].type \notin {"frame", "junk"}
    BY <1>1, <1>3, <2>1 DEF Ordered
  <2>. QED  BY <2>1
<1>. QED  BY <1>1, <1>4 DEF Ordered, v

(* The count after a message has been read or written.                     *)
LEMMA SurplusChanges ==
  ASSUME NEW w \in Seq(Message), NEW g \in Nat, NEW s \in Seq(Nat), NEW m \in Message, NEW x \in Nat
  PROVE  /\ Surplus(w, g, s) = 0 => Surplus(Append(w, m), g, s) = 1
         /\ Surplus(Append(w, m), g, Append(s, x)) = Surplus(w, g, s)
         /\ w # <<>> /\ Surplus(w, g, s) = 1 => Surplus(Tail(w), g, s) = 0
         /\ w # <<>> => Surplus(Tail(w), g + 1, s) = Surplus(w, g, s)
         /\ w # <<>> => Surplus(<<Junk>> \o Tail(w), g, s) = Surplus(w, g, s)
<1>1. /\ Len(w) \in Nat /\ Len(s) \in Nat /\ Len(Append(w, m)) = Len(w) + 1
      /\ Len(Append(s, x)) = Len(s) + 1
      /\ w # <<>> => Len(Tail(w)) = Len(w) - 1 /\ Len(<<Junk>> \o Tail(w)) = Len(w)
  BY DEF Message
<1>2. Surplus(w, g, s) = 0 => Surplus(Append(w, m), g, s) = 1
  BY <1>1 DEF Surplus
<1>3. Surplus(Append(w, m), g, Append(s, x)) = Surplus(w, g, s)
  BY <1>1 DEF Surplus
<1>4. w # <<>> /\ Surplus(w, g, s) = 1 => Surplus(Tail(w), g, s) = 0
  BY <1>1 DEF Surplus
<1>5. w # <<>> => Surplus(Tail(w), g + 1, s) = Surplus(w, g, s)
  BY <1>1 DEF Surplus
<1>6. w # <<>> => Surplus(<<Junk>> \o Tail(w), g, s) = Surplus(w, g, s)
  BY <1>1 DEF Surplus
<1>. QED  BY <1>2, <1>3, <1>4, <1>5, <1>6

-----------------------------------------------------------------------------
(* The two ends by name, and the types the proofs below compute with.      *)
LEMMA Two ==
  ASSUME HandshakeInv, FrameInv
  PROVE  /\ Dialer \in Ends /\ Peer(Dialer) \in Ends /\ Peer(Dialer) # Dialer
         /\ Peer(Peer(Dialer)) = Dialer
         /\ \A e \in Ends : e = Dialer \/ e = Peer(Dialer)
         /\ st[Dialer] \in {"new", "wait2", "up", "down"}
         /\ st[Peer(Dialer)] \in {"new", "wait1", "wait3", "up", "down"}
<1>1. Dialer \in Ends
  BY HandshakeAssumption
<1>. QED  BY <1>1, PeerFacts DEF FrameInv, Phases

LEMMA LaneTypes ==
  ASSUME HandshakeInv, NEW e \in Ends
  PROVE  /\ Peer(e) \in Ends /\ Peer(e) # e /\ Peer(Peer(e)) = e
         /\ wire \in [Ends -> Seq(Message)] /\ wire[e] \in Seq(Message) /\ Len(wire[e]) \in Nat
         /\ sent[e] \in Seq(Nat) /\ Len(sent[e]) \in Nat
         /\ got[e] \in Seq(Seq(Chunk)) /\ Len(got[e]) \in Nat
         /\ st \in [Ends -> {"new", "wait1", "wait2", "wait3", "up", "down"}]
<1>1. TypeOK
  BY DEF HandshakeInv
<1>2. Peer(e) \in Ends /\ Peer(e) # e /\ Peer(Peer(e)) = e
  BY PeerFacts
<1>3. /\ wire \in [Ends -> Seq(Message)] /\ sent[e] \in Seq(Nat) /\ got[e] \in Seq(Seq(Chunk))
      /\ st \in [Ends -> {"new", "wait1", "wait2", "wait3", "up", "down"}]
  BY <1>1 DEF TypeOK
<1>4. wire[e] \in Seq(Message)
  BY <1>3
<1>. QED  BY <1>2, <1>3, <1>4

(* The message an end reads is counted, and what kind of message it is     *)
(* tells where the two ends are.                                           *)
LEMMA Reads ==
  ASSUME HandshakeInv, FrameInv, NEW e \in Ends, st[e] # "down", wire[e] # <<>>
  PROVE  /\ Ordered(Tail(wire[e]), Len(got[e]), sent[Peer(e)])
         /\ Head(wire[e]).type \in {"e", "proof"} =>
              Unread(e) = 1 /\ Surplus(Tail(wire[e]), Len(got[e]), sent[Peer(e)]) = 0
         /\ Head(wire[e]).type = "frame" =>
              /\ Unread(e) = 0
              /\ Len(got[e]) + 1 \in 1..Len(sent[Peer(e)])
              /\ FrameOf(Head(wire[e]), sent[Peer(e)][Len(got[e]) + 1])
              /\ Ordered(Tail(wire[e]), Len(got[e]) + 1, sent[Peer(e)])
              /\ Surplus(Tail(wire[e]), Len(got[e]) + 1, sent[Peer(e)]) = 0
<1>. DEFINE w == wire[e]  g == Len(got[e])  s == sent[Peer(e)]
<1>1. w \in Seq(Message) /\ g \in Nat /\ s \in Seq(Nat) /\ w # <<>>
  BY LaneTypes
<1>2. Ordered(w, g, s) /\ Surplus(w, g, s) \in {0, 1}
  BY DEF FrameInv, WireInOrder, Turns, Unread
<1>. HIDE DEF w, g, s
<1>3. /\ Head(w).type = "frame" =>
              /\ Surplus(w, g, s) = 0 /\ g + 1 \in 1..Len(s)
              /\ FrameOf(Head(w), s[g + 1])
      /\ Head(w).type \in {"e", "proof"} => Surplus(w, g, s) = 1
  BY <1>1, <1>2, OrderedHead
<1>4. /\ Ordered(Tail(w), g, s)
      /\ Surplus(w, g, s) = 0 => Ordered(Tail(w), g + 1, s)
  BY <1>1, <1>2, OrderedTail
<1>5. /\ Surplus(w, g, s) = 1 => Surplus(Tail(w), g, s) = 0
      /\ Surplus(Tail(w), g + 1, s) = Surplus(w, g, s)
  <2>1. Hello \in Message /\ 0 \in Nat
    BY DEF Message
  <2>. QED  BY <1>1, <2>1, SurplusChanges
<1>. QED  BY <1>3, <1>4, <1>5 DEF w, g, s, Unread

(* An end that is not yet established has exchanged no plaintext, and its  *)
(* message goes before all the frames it will send.                        *)
LEMMA WritesEarly ==
  ASSUME HandshakeInv, FrameInv, NEW e \in Ends, st[e] \notin {"up", "down"}, st[Peer(e)] # "down",
         NEW m \in Message, m.type # "frame"
  PROVE  /\ Ordered(Append(wire[Peer(e)], m), Len(got[Peer(e)]), sent[e])
         /\ Unread(Peer(e)) = 0 => Surplus(Append(wire[Peer(e)], m), Len(got[Peer(e)]), sent[e]) = 1
<1>1. /\ Peer(e) \in Ends /\ Peer(Peer(e)) = e /\ wire[Peer(e)] \in Seq(Message)
      /\ Len(got[Peer(e)]) \in Nat
  BY LaneTypes
<1>2. sent[e] = <<>>
  BY DEF FrameInv, NothingEarly
<1>3. Len(got[Peer(e)]) <= Len(sent[Peer(Peer(e))])
  BY <1>1 DEF FrameInv, FramesInOrder
<1>4. Len(got[Peer(e)]) = 0
  BY <1>1, <1>2, <1>3
<1>5. Ordered(wire[Peer(e)], 0, <<>>)
  BY <1>1, <1>2, <1>4 DEF FrameInv, WireInOrder
<1>6. Surplus(wire[Peer(e)], 0, <<>>) = 0 => Surplus(Append(wire[Peer(e)], m), 0, <<>>) = 1
  <2>1. 0 \in Nat /\ <<>> \in Seq(Nat)
    OBVIOUS
  <2>. QED  BY <1>1, <2>1, SurplusChanges
<1>. QED  BY <1>1, <1>2, <1>4, <1>5, <1>6, OrderedEarly DEF Unread

(* Steps of the establishment exchange no plaintext.                       *)
LEMMA NoPlaintext ==
  ASSUME HandshakeInv, FrameInv, sent' = sent, got' = got,
         \A e \in Ends : st'[e] \notin {"up", "down"} => st[e] \notin {"up", "down"}
  PROVE  /\ FramesInOrder' /\ NothingEarly'
         /\ \A e \in Ends : Unread(e)' = Surplus(wire'[e], Len(got[e]), sent[Peer(e)])
BY DEF FrameInv, FramesInOrder, NothingEarly, Unread

LEMMA DialOrders ==
  ASSUME HandshakeInv, FrameInv, Dial PROVE FrameInv'
<1>. DEFINE D == Dialer  R == Peer(Dialer)
<1>1. /\ D \in Ends /\ R \in Ends /\ R # D /\ Peer(R) = D /\ Peer(D) = R
      /\ \A e \in Ends : e = D \/ e = R
      /\ st \in [Ends -> {"new", "wait1", "wait2", "wait3", "up", "down"}]
      /\ wire \in [Ends -> Seq(Message)]
  BY Two, LaneTypes
<1>2. st[D] = "new" /\ st[R] = "new" /\ Unread(D) = 0 /\ Unread(R) = 0
  BY DEF Dial, FrameInv, Phases, Turns
<1>3. /\ st' = [st EXCEPT ![D] = "wait2"] /\ sent' = sent /\ got' = got
      /\ wire' = [wire EXCEPT ![R] = Append(wire[R], Hello)]
  BY <1>2 DEF Dial, Write, dataVars
<1>4. /\ Ordered(Append(wire[R], Hello), Len(got[R]), sent[D])
      /\ Surplus(Append(wire[R], Hello), Len(got[R]), sent[D]) = 1
  <2>1. Hello \in Message /\ Hello.type # "frame"
    BY DEF Message, Hello
  <2>. QED  BY <1>1, <1>2, <2>1, WritesEarly
<1>5. st'[D] = "wait2" /\ st'[R] = "new" /\ wire'[D] = wire[D] /\ wire'[R] = Append(wire[R], Hello)
  BY <1>1, <1>2, <1>3
<1>. HIDE DEF D, R
<1>6. FramesInOrder' /\ NothingEarly'
      /\ \A e \in Ends : Unread(e)' = Surplus(wire'[e], Len(got[e]), sent[Peer(e)])
  BY <1>1, <1>2, <1>3, NoPlaintext
<1>7. Unread(D)' = 0 /\ Unread(R)' = 1
  BY <1>1, <1>2, <1>4, <1>5, <1>6 DEF Unread
<1>8. WireInOrder'
  BY <1>1, <1>2, <1>3, <1>4, <1>5 DEF WireInOrder, FrameInv
<1>9. Phases' /\ Turns'
  BY <1>1, <1>5, <1>7 DEF Phases, Turns, D, R
<1>. QED  BY <1>6, <1>8, <1>9 DEF FrameInv

LEMMA AcceptOrders ==
  ASSUME HandshakeInv, FrameInv, Accept PROVE FrameInv'
<1>. DEFINE D == Dialer  R == Peer(Dialer)
<1>1. /\ D \in Ends /\ R \in Ends /\ R # D /\ \A e \in Ends : e = D \/ e = R
      /\ st \in [Ends -> {"new", "wait1", "wait2", "wait3", "up", "down"}]
      /\ st[D] \in {"new", "wait2", "up", "down"}
  BY Two, LaneTypes
<1>2. /\ st[R] = "new" /\ st[D] # "new" /\ st' = [st EXCEPT ![R] = "wait1"]
      /\ sent' = sent /\ got' = got /\ wire' = wire
  BY DEF Accept, dataVars
<1>3. st[D] \in {"wait2", "down"} /\ st'[D] = st[D] /\ st'[R] = "wait1"
  BY <1>1, <1>2 DEF FrameInv, Phases
<1>. HIDE DEF D, R
<1>4. FramesInOrder' /\ NothingEarly'
  BY <1>1, <1>2, <1>3, NoPlaintext
<1>5. \A e \in Ends : Unread(e)' = Unread(e) /\ (st'[e] # "down" => st[e] # "down")
  BY <1>1, <1>2, <1>3 DEF Unread
<1>6. WireInOrder'
  BY <1>2, <1>5 DEF FrameInv, WireInOrder
<1>7. Phases' /\ Turns'
  BY <1>1, <1>2, <1>3, <1>5 DEF FrameInv, Phases, Turns, D, R
<1>. QED  BY <1>4, <1>6, <1>7 DEF FrameInv

LEMMA AnswerOrders ==
  ASSUME HandshakeInv, FrameInv, NEW e \in Ends, Answer(e) PROVE FrameInv'
<1>. DEFINE D == Dialer  R == Peer(Dialer)  m == MakeProof(e)
<1>1. /\ D \in Ends /\ R \in Ends /\ R # D /\ Peer(R) = D /\ Peer(D) = R
      /\ \A o \in Ends : o = D \/ o = R
      /\ st \in [Ends -> {"new", "wait1", "wait2", "wait3", "up", "down"}]
      /\ st[D] \in {"new", "wait2", "up", "down"} /\ wire \in [Ends -> Seq(Message)]
  BY Two, LaneTypes
<1>2. /\ st[e] = "wait1" /\ wire[e] # <<>> /\ Head(wire[e]).type = "e"
      /\ st' = [st EXCEPT ![e] = "wait3"] /\ sent' = sent /\ got' = got
      /\ wire' = Write(Consume(e), e, m)
  BY DEF Answer, Arrived, dataVars
<1>3. e = R /\ st[D] \in {"wait2", "down"} /\ st'[D] = st[D] /\ st'[R] = "wait3"
  BY <1>1, <1>2 DEF FrameInv, Phases
<1>4. m \in Message /\ m.type # "frame"
  BY OwnProof DEF HandshakeInv, Genuine, MakeProof
<1>. HIDE DEF D, R, m
<1>5. /\ Ordered(Tail(wire[R]), Len(got[R]), sent[D])
      /\ Surplus(Tail(wire[R]), Len(got[R]), sent[D]) = 0
  BY <1>1, <1>2, <1>3, Reads
<1>6. st[D] # "down" =>
        /\ Ordered(Append(wire[D], m), Len(got[D]), sent[R])
        /\ Surplus(Append(wire[D], m), Len(got[D]), sent[R]) = 1
  <2>1. st[D] # "down" => Unread(D) = 0
    BY <1>2, <1>3 DEF FrameInv, Turns, D, R
  <2>. QED  BY <1>1, <1>2, <1>3, <1>4, <2>1, WritesEarly
<1>7. /\ wire'[R] = Tail(wire[R])
      /\ st[D] # "down" => wire'[D] = Append(wire[D], m)
  BY <1>1, <1>2, <1>3 DEF Write, Consume
<1>8. FramesInOrder' /\ NothingEarly'
      /\ \A o \in Ends : Unread(o)' = Surplus(wire'[o], Len(got[o]), sent[Peer(o)])
  BY <1>1, <1>2, <1>3, NoPlaintext
<1>9. Unread(R)' = 0 /\ (st[D] # "down" => Unread(D)' = 1)
  BY <1>1, <1>5, <1>6, <1>7, <1>8
<1>10. WireInOrder'
  <2>. SUFFICES ASSUME NEW o \in Ends, st'[o] # "down"
                PROVE  Ordered(wire'[o], Len(got[o]), sent[Peer(o)])
    BY <1>2 DEF WireInOrder
  <2>1. CASE o = R
    BY <1>1, <1>5, <1>7, <2>1
  <2>2. CASE o = D
    BY <1>1, <1>3, <1>6, <1>7, <2>2
  <2>. QED  BY <1>1, <2>1, <2>2
<1>11. Phases' /\ Turns'
  BY <1>1, <1>3, <1>9 DEF Phases, Turns, D, R
<1>. QED  BY <1>8, <1>10, <1>11 DEF FrameInv

LEMMA FinishOrders ==
  ASSUME HandshakeInv, FrameInv, NEW e \in Ends, Finish(e) PROVE FrameInv'
<1>. DEFINE D == Dialer  R == Peer(Dialer)  m == MakeProof(e)
<1>1. /\ D \in Ends /\ R \in Ends /\ R # D /\ Peer(R) = D /\ Peer(D) = R
      /\ \A o \in Ends : o = D \/ o = R
      /\ st \in [Ends -> {"new", "wait1", "wait2", "wait3", "up", "down"}]
      /\ st[R] \in {"new", "wait1", "wait3", "up", "down"} /\ wire \in [Ends -> Seq(Message)]
  BY Two, LaneTypes
<1>2. /\ st[e] = "wait2" /\ wire[e] # <<>> /\ Head(wire[e]).type = "proof"
      /\ st' \in {[st EXCEPT ![e] = "up"], [st EXCEPT ![e] = "down"]}
      /\ sent' = sent /\ got' = got /\ wire' = Write(Consume(e), e, m)
  BY DEF Finish, Decide, Arrived, dataVars
<1>3. e = D /\ st'[D] \in {"up", "down"} /\ st'[R] = st[R]
  BY <1>1, <1>2
<1>4. m \in Message /\ m.type # "frame"
  BY OwnProof DEF HandshakeInv, Genuine, MakeProof
<1>. HIDE DEF D, R, m
<1>5. /\ Ordered(Tail(wire[D]), Len(got[D]), sent[R]) /\ Unread(D) = 1
      /\ Surplus(Tail(wire[D]), Len(got[D]), sent[R]) = 0
  BY <1>1, <1>2, <1>3, Reads
<1>6. st[R] \in {"wait3", "down"} /\ (st[R] = "wait3" => Unread(R) = 0)
  BY <1>1, <1>2, <1>3, <1>5 DEF FrameInv, Phases, Turns, D, R
<1>7. st[R] # "down" =>
        /\ Ordered(Append(wire[R], m), Len(got[R]), sent[D])
        /\ Surplus(Append(wire[R], m), Len(got[R]), sent[D]) = 1
  BY <1>1, <1>2, <1>3, <1>4, <1>6, WritesEarly
<1>8. /\ wire'[D] = Tail(wire[D])
      /\ st[R] # "down" => wire'[R] = Append(wire[R], m)
  BY <1>1, <1>2, <1>3 DEF Write, Consume
<1>9. FramesInOrder' /\ NothingEarly'
      /\ \A o \in Ends : Unread(o)' = Surplus(wire'[o], Len(got[o]), sent[Peer(o)])
  BY <1>1, <1>2, <1>3, NoPlaintext
<1>10. Unread(D)' = 0 /\ (st[R] # "down" => Unread(R)' = 1)
  BY <1>1, <1>5, <1>7, <1>8, <1>9
<1>11. WireInOrder'
  <2>. SUFFICES ASSUME NEW o \in Ends, st'[o] # "down"
                PROVE  Ordered(wire'[o], Len(got[o]), sent[Peer(o)])
    BY <1>2 DEF WireInOrder
  <2>1. CASE o = D
    BY <1>1, <1>5, <1>8, <2>1
  <2>2. CASE o = R
    BY <1>1, <1>3, <1>7, <1>8, <2>2
  <2>. QED  BY <1>1, <2>1, <2>2
<1>12. Phases' /\ Turns'
  BY <1>1, <1>3, <1>6, <1>10 DEF Phases, Turns, D, R
<1>. QED  BY <1>9, <1>11, <1>12 DEF FrameInv

LEMMA ConcludeOrders ==
  ASSUME HandshakeInv, FrameInv, NEW e \in Ends, Conclude(e) PROVE FrameInv'
<1>. DEFINE D == Dialer  R == Peer(Dialer)
<1>1. /\ D \in Ends /\ R \in Ends /\ R # D /\ Peer(R) = D /\ Peer(D) = R
      /\ \A o \in Ends : o = D \/ o = R
      /\ st \in [Ends -> {"new", "wait1", "wait2", "wait3", "up", "down"}]
      /\ st[D] \in {"new", "wait2", "up", "down"} /\ wire \in [Ends -> Seq(Message)]
  BY Two, LaneTypes
<1>2. /\ st[e] = "wait3" /\ wire[e] # <<>> /\ Head(wire[e]).type = "proof"
      /\ st' \in {[st EXCEPT ![e] = "up"], [st EXCEPT ![e] = "down"]}
      /\ sent' = sent /\ got' = got /\ wire' = Consume(e)
  BY DEF Conclude, Decide, Arrived, dataVars
<1>3. e = R /\ st'[R] \in {"up", "down"} /\ st'[D] = st[D]
  BY <1>1, <1>2
<1>. HIDE DEF D, R
<1>4. /\ Ordered(Tail(wire[R]), Len(got[R]), sent[D]) /\ Unread(R) = 1
      /\ Surplus(Tail(wire[R]), Len(got[R]), sent[D]) = 0
  BY <1>1, <1>2, <1>3, Reads
<1>5. st[D] \in {"up", "down"}
  BY <1>1, <1>2, <1>3, <1>4 DEF FrameInv, Phases, Turns, D, R
<1>6. wire'[R] = Tail(wire[R]) /\ wire'[D] = wire[D]
  BY <1>1, <1>2, <1>3 DEF Consume
<1>7. FramesInOrder' /\ NothingEarly'
      /\ \A o \in Ends : Unread(o)' = Surplus(wire'[o], Len(got[o]), sent[Peer(o)])
  BY <1>1, <1>2, <1>3, NoPlaintext
<1>8. Unread(R)' = 0 /\ Unread(D)' = Unread(D)
  BY <1>1, <1>4, <1>6, <1>7 DEF Unread
<1>9. WireInOrder'
  BY <1>1, <1>2, <1>3, <1>4, <1>6 DEF FrameInv, WireInOrder
<1>10. Phases' /\ Turns'
  BY <1>1, <1>3, <1>5, <1>8 DEF FrameInv, Phases, Turns, D, R
<1>. QED  BY <1>7, <1>9, <1>10 DEF FrameInv

(* An end that drops the stream reads nothing any more.                    *)
LEMMA DropOrders ==
  ASSUME HandshakeInv, FrameInv, NEW e \in Ends, st[e] # "new", Drop(e) PROVE FrameInv'
<1>. DEFINE D == Dialer  R == Peer(Dialer)
<1>1. /\ D \in Ends /\ R \in Ends /\ R # D /\ \A o \in Ends : o = D \/ o = R
      /\ st \in [Ends -> {"new", "wait1", "wait2", "wait3", "up", "down"}]
      /\ wire \in [Ends -> Seq(Message)]
  BY Two, LaneTypes
<1>2. /\ st' = [st EXCEPT ![e] = "down"] /\ sent' = sent /\ got' = got
      /\ wire' = [wire EXCEPT ![e] = <<>>]
  BY DEF Drop, dataVars
<1>3. /\ st'[e] = "down"
      /\ \A o \in Ends : o # e => st'[o] = st[o] /\ wire'[o] = wire[o]
  BY <1>1, <1>2
<1>. HIDE DEF D, R
<1>4. FramesInOrder' /\ NothingEarly'
  BY <1>1, <1>2, <1>3, NoPlaintext
<1>5. \A o \in Ends : o # e => Unread(o)' = Unread(o)
  BY <1>2, <1>3 DEF Unread
<1>6. WireInOrder'
  BY <1>2, <1>3 DEF FrameInv, WireInOrder
<1>7. Phases' /\ Turns'
  <2>1. CASE e = D
    BY <1>1, <1>3, <1>5, <2>1 DEF FrameInv, Phases, Turns, D, R
  <2>2. CASE e = R
    BY <1>1, <1>3, <1>5, <2>2 DEF FrameInv, Phases, Turns, D, R
  <2>. QED  BY <1>1, <2>1, <2>2
<1>. QED  BY <1>4, <1>6, <1>7 DEF FrameInv

LEMMA SendOrders ==
  ASSUME HandshakeInv, FrameInv, NEW e \in Ends, Send(e) PROVE FrameInv'
<1>. DEFINE p == Peer(e)
            x == Plaintexts[Len(sent[e]) + 1]
            m == EncryptFrame(x, nonces[e].out)
<1>1. /\ p \in Ends /\ p # e /\ Peer(p) = e /\ \A o \in Ends : o = e \/ o = p
      /\ wire \in [Ends -> Seq(Message)] /\ wire[p] \in Seq(Message)
      /\ sent[e] \in Seq(Nat) /\ Len(got[p]) \in Nat
  BY LaneTypes, PeerFacts
<1>2. x \in Nat /\ nonces[e].out \in Nat
  <2>1. Plaintexts \in Seq(Nat) /\ Len(sent[e]) \in Nat /\ Len(sent[e]) < Len(Plaintexts)
    BY HandshakeAssumption DEF Send, HandshakeInv, TypeOK
  <2>2. Len(sent[e]) + 1 \in 1..Len(Plaintexts)
    BY <2>1
  <2>. QED  BY <2>1, <2>2 DEF HandshakeInv, TypeOK
<1>3. /\ st[e] = "up" /\ wire' = Write(wire, e, m) /\ st' = st /\ got' = got
      /\ sent' = [sent EXCEPT ![e] = Append(sent[e], x)]
  BY DEF Send, endVars
<1>4. sent \in [Ends -> Seq(Nat)]
  BY DEF HandshakeInv, TypeOK
<1>. HIDE DEF x
<1>5. m \in Message /\ m.type = "frame" /\ FrameOf(m, x)
  BY <1>2, FrameType DEF FrameOf
<1>. HIDE DEF m, p
<1>6. /\ sent'[e] = Append(sent[e], x) /\ sent'[p] = sent[p] /\ wire'[e] = wire[e]
      /\ st[p] # "down" => wire'[p] = Append(wire[p], m)
  BY <1>1, <1>3, <1>4 DEF Write, p
<1>7. Len(got[p]) <= Len(sent[e])
  BY <1>1 DEF FrameInv, FramesInOrder
<1>8. st[p] # "down" => Ordered(Append(wire[p], m), Len(got[p]), Append(sent[e], x))
  <2>. SUFFICES ASSUME st[p] # "down"
                PROVE  Ordered(Append(wire[p], m), Len(got[p]), Append(sent[e], x))
    OBVIOUS
  <2>1. Ordered(wire[p], Len(got[p]), sent[e])
    BY <1>1 DEF FrameInv, WireInOrder
  <2>. QED  BY <1>1, <1>2, <1>5, <1>7, <2>1, OrderedAppend
<1>9. \A o \in Ends : st[o] # "down" => Unread(o)' = Unread(o)
  <2>1. Surplus(Append(wire[p], m), Len(got[p]), Append(sent[e], x))
          = Surplus(wire[p], Len(got[p]), sent[e])
    BY <1>1, <1>2, <1>5, SurplusChanges
  <2>2. st[p] # "down" => Unread(p)' = Unread(p)
    BY <1>1, <1>3, <1>6, <2>1 DEF Unread
  <2>3. Unread(e)' = Unread(e)
    BY <1>1, <1>3, <1>6 DEF Unread, p
  <2>. QED  BY <1>1, <2>2, <2>3
<1>10. WireInOrder'
  <2>. SUFFICES ASSUME NEW o \in Ends, st[o] # "down"
                PROVE  Ordered(wire'[o], Len(got[o]), sent'[Peer(o)])
    BY <1>3 DEF WireInOrder
  <2>1. CASE o = p
    BY <1>1, <1>6, <1>8, <2>1
  <2>2. CASE o = e
    BY <1>1, <1>6, <2>2 DEF FrameInv, WireInOrder, p
  <2>. QED  BY <1>1, <2>1, <2>2
<1>11. FramesInOrder'
  <2>. SUFFICES ASSUME NEW o \in Ends
                PROVE  /\ Len(got[o]) <= Len(sent'[Peer(o)])
                       /\ \A i \in 1..Len(got[o]) : \E nonce \in Nat :
                             got[o][i] = EncryptFrame(sent'[Peer(o)][i], nonce).chunks
    BY <1>3 DEF FramesInOrder
  <2>1. /\ Len(got[o]) <= Len(sent[Peer(o)])
        /\ \A i \in 1..Len(got[o]) : \E nonce \in Nat :
              got[o][i] = EncryptFrame(sent[Peer(o)][i], nonce).chunks
    BY DEF FrameInv, FramesInOrder
  <2>2. CASE o = e
    BY <1>6, <2>1, <2>2 DEF p
  <2>3. CASE o = p
    <3>1. /\ Len(sent'[e]) = Len(sent[e]) + 1 /\ Len(sent[e]) \in Nat
          /\ \A i \in 1..Len(sent[e]) : sent'[e][i] = sent[e][i]
      BY <1>1, <1>2, <1>6
    <3>2. \A i \in 1..Len(got[p]) : i \in 1..Len(sent[e])
      BY <1>1, <1>7, <3>1
    <3>3. Len(got[p]) <= Len(sent'[e])
      BY <1>1, <1>7, <3>1
    <3>. QED  BY <1>1, <2>1, <2>3, <3>1, <3>2, <3>3
  <2>. QED  BY <1>1, <2>2, <2>3
<1>12. NothingEarly'
  <2>. SUFFICES ASSUME NEW o \in Ends, st[o] \notin {"up", "down"}
                PROVE  sent'[o] = <<>> /\ got[o] = <<>>
    BY <1>3 DEF NothingEarly
  <2>1. o = p
    BY <1>1, <1>3
  <2>. QED  BY <1>6, <2>1 DEF FrameInv, NothingEarly
<1>13. Phases' /\ Turns'
  <2>1. Phases'
    BY <1>3 DEF FrameInv, Phases
  <2>2. Dialer \in Ends /\ Peer(Dialer) \in Ends
    BY Two
  <2>3. Turns'
    BY <1>3, <1>9, <2>2 DEF FrameInv, Phases, Turns
  <2>. QED  BY <2>1, <2>3
<1>. QED  BY <1>10, <1>11, <1>12, <1>13 DEF FrameInv

(* The frame an end decrypts is the next plaintext of the other end.       *)
LEMMA ReceiveOrders ==
  ASSUME HandshakeInv, FrameInv, NEW e \in Ends, Receive(e) PROVE FrameInv'
<1>. DEFINE p == Peer(e)  m == Head(wire[e])  g == Len(got[e])
<1>1. /\ p \in Ends /\ p # e /\ Peer(p) = e /\ \A o \in Ends : o = e \/ o = p
      /\ wire \in [Ends -> Seq(Message)] /\ wire[e] \in Seq(Message)
      /\ g \in Nat /\ got[e] \in Seq(Seq(Chunk))
  BY LaneTypes, PeerFacts
<1>2. /\ st[e] = "up" /\ wire[e] # <<>> /\ m.type = "frame" /\ wire' = Consume(e)
      /\ st' = st /\ sent' = sent /\ got' = [got EXCEPT ![e] = Append(got[e], m.chunks)]
  BY DEF Receive, Readable, Arrived, endVars
<1>3. m \in Message /\ got \in [Ends -> Seq(Seq(Chunk))]
  BY <1>1, <1>2, HeadAndTail DEF HandshakeInv, TypeOK
<1>4. m.chunks \in Seq(Chunk)
  BY <1>2, <1>3 DEF Message, Hello, Junk
<1>5. /\ Unread(e) = 0 /\ g + 1 \in 1..Len(sent[p]) /\ FrameOf(m, sent[p][g + 1])
      /\ Ordered(Tail(wire[e]), g + 1, sent[p]) /\ Surplus(Tail(wire[e]), g + 1, sent[p]) = 0
  BY <1>2, Reads
<1>. HIDE DEF m
<1>6. /\ wire'[e] = Tail(wire[e]) /\ wire'[p] = wire[p]
      /\ got'[e] = Append(got[e], m.chunks) /\ got'[p] = got[p]
  BY <1>1, <1>2, <1>3 DEF Consume
<1>7. /\ Len(got'[e]) = g + 1 /\ got'[e][g + 1] = m.chunks
      /\ \A i \in 1..g : got'[e][i] = got[e][i]
  BY <1>1, <1>4, <1>6
<1>. HIDE DEF g, p
<1>8. Unread(e)' = 0 /\ Unread(p)' = Unread(p)
  <2>1. Unread(e)' = 0
    BY <1>2, <1>5, <1>6, <1>7 DEF Unread, p
  <2>2. Unread(p)' = Unread(p)
    BY <1>1, <1>2, <1>6 DEF Unread
  <2>. QED  BY <2>1, <2>2
<1>9. WireInOrder'
  <2>. SUFFICES ASSUME NEW o \in Ends, st[o] # "down"
                PROVE  Ordered(wire'[o], Len(got'[o]), sent[Peer(o)])
    BY <1>2 DEF WireInOrder
  <2>1. CASE o = e
    BY <1>5, <1>6, <1>7, <2>1 DEF p
  <2>2. CASE o = p
    BY <1>1, <1>6, <2>2 DEF FrameInv, WireInOrder
  <2>. QED  BY <1>1, <2>1, <2>2
<1>10. FramesInOrder'
  <2>. SUFFICES ASSUME NEW o \in Ends
                PROVE  /\ Len(got'[o]) <= Len(sent[Peer(o)])
                       /\ \A i \in 1..Len(got'[o]) : \E nonce \in Nat :
                             got'[o][i] = EncryptFrame(sent[Peer(o)][i], nonce).chunks
    BY <1>2 DEF FramesInOrder
  <2>1. /\ Len(got[o]) <= Len(sent[Peer(o)])
        /\ \A i \in 1..Len(got[o]) : \E nonce \in Nat :
              got[o][i] = EncryptFrame(sent[Peer(o)][i], nonce).chunks
    BY DEF FrameInv, FramesInOrder
  <2>2. CASE o = p
    BY <1>6, <2>1, <2>2
  <2>3. CASE o = e
    <3>1. Len(got'[e]) <= Len(sent[p])
      BY <1>1, <1>5, <1>7
    <3>2. ASSUME NEW i \in 1..Len(got'[e])
          PROVE  \E nonce \in Nat : got'[e][i] = EncryptFrame(sent[p][i], nonce).chunks
      <4>1. CASE i = g + 1
        <5>1. PICK nonce \in Nat : m = EncryptFrame(sent[p][i], nonce)
          BY <1>5, <4>1 DEF FrameOf
        <5>2. got'[e][i] = EncryptFrame(sent[p][i], nonce).chunks
          BY <1>7, <4>1, <5>1
        <5>. QED  BY <5>2
      <4>2. CASE i # g + 1
        <5>1. i \in 1..g
          BY <1>1, <1>7, <4>2
        <5>2. got'[e][i] = got[e][i] /\ i \in 1..Len(got[e])
          BY <1>7, <5>1 DEF g
        <5>. QED  BY <2>1, <2>3, <5>2 DEF p
      <4>. QED  BY <4>1, <4>2
    <3>. QED  BY <2>3, <3>1, <3>2 DEF p
  <2>. QED  BY <1>1, <2>2, <2>3
<1>11. NothingEarly'
  <2>. SUFFICES ASSUME NEW o \in Ends, st[o] \notin {"up", "down"}
                PROVE  sent[o] = <<>> /\ got'[o] = <<>>
    BY <1>2 DEF NothingEarly
  <2>1. o = p
    BY <1>1, <1>2
  <2>. QED  BY <1>6, <2>1 DEF FrameInv, NothingEarly
<1>12. Phases'
  BY <1>2 DEF FrameInv, Phases
<1>13. Turns'
  <2>1. Dialer \in Ends /\ Peer(Dialer) \in Ends
    BY Two
  <2>2. \A o \in Ends : Unread(o)' = Unread(o)
    BY <1>1, <1>5, <1>8
  <2>. QED  BY <1>2, <2>1, <2>2 DEF FrameInv, Turns
<1>. QED  BY <1>9, <1>10, <1>11, <1>12, <1>13 DEF FrameInv

LEMMA GarbleOrders ==
  ASSUME HandshakeInv, FrameInv, NEW e \in Ends, Garble(e) PROVE FrameInv'
<1>. DEFINE v == <<Junk>> \o Tail(wire[e])
<1>1. /\ wire \in [Ends -> Seq(Message)] /\ wire[e] \in Seq(Message)
      /\ sent[Peer(e)] \in Seq(Nat) /\ Len(got[e]) \in Nat
  BY LaneTypes
<1>2. /\ wire[e] # <<>> /\ wire' = [wire EXCEPT ![e] = v]
      /\ st' = st /\ sent' = sent /\ got' = got
  BY DEF Garble, endVars, dataVars
<1>3. Surplus(v, Len(got[e]), sent[Peer(e)]) = Surplus(wire[e], Len(got[e]), sent[Peer(e)])
  <2>1. Hello \in Message /\ 0 \in Nat
    BY DEF Message
  <2>. QED  BY <1>1, <1>2, <2>1, SurplusChanges
<1>4. st[e] # "down" => Ordered(v, Len(got[e]), sent[Peer(e)])
  <2>. SUFFICES ASSUME st[e] # "down" PROVE Ordered(v, Len(got[e]), sent[Peer(e)])
    OBVIOUS
  <2>1. Ordered(wire[e], Len(got[e]), sent[Peer(e)])
    BY DEF FrameInv, WireInOrder
  <2>. QED  BY <1>1, <1>2, <2>1, OrderedGarbled
<1>. HIDE DEF v
<1>5. wire'[e] = v /\ \A o \in Ends : o # e => wire'[o] = wire[o]
  BY <1>1, <1>2
<1>6. FramesInOrder' /\ NothingEarly'
      /\ \A o \in Ends : Unread(o)' = Surplus(wire'[o], Len(got[o]), sent[Peer(o)])
  BY <1>2, NoPlaintext
<1>7. \A o \in Ends : Unread(o)' = Unread(o)
  BY <1>3, <1>5, <1>6 DEF Unread
<1>8. WireInOrder'
  BY <1>2, <1>4, <1>5 DEF FrameInv, WireInOrder
<1>9. Phases'
  BY <1>2 DEF FrameInv, Phases
<1>10. Turns'
  BY <1>2, <1>7, Two DEF FrameInv, Turns
<1>. QED  BY <1>6, <1>8, <1>9, <1>10 DEF FrameInv

LEMMA SameFrames ==
  ASSUME FrameInv, UNCHANGED <<st, wire, sent, got>> PROVE FrameInv'
BY DEF FrameInv, WireInOrder, FramesInOrder, NothingEarly, Phases, Turns, Unread

LEMMA InitFrames == Init => FrameInv
<1>. SUFFICES ASSUME Init PROVE FrameInv
  OBVIOUS
<1>1. Dialer \in Ends /\ Peer(Dialer) \in Ends /\ \A e \in Ends : Peer(e) \in Ends
  BY HandshakeAssumption, PeerFacts
<1>2. /\ \A e \in Ends : st[e] = "new" /\ wire[e] = <<>> /\ sent[e] = <<>> /\ got[e] = <<>>
      /\ Len(<<>>) = 0
  BY DEF Init
<1>3. \A e \in Ends : Unread(e) = 0
  <2>1. Surplus(<<>>, 0, <<>>) = 0
    BY <1>2 DEF Surplus
  <2>. QED  BY <1>1, <1>2, <2>1 DEF Unread
<1>4. WireInOrder
  BY <1>2 DEF WireInOrder, Ordered
<1>5. FramesInOrder /\ NothingEarly
  BY <1>1, <1>2 DEF FramesInOrder, NothingEarly
<1>6. Phases /\ Turns
  BY <1>1, <1>2, <1>3 DEF Phases, Turns
<1>. QED  BY <1>4, <1>5, <1>6 DEF FrameInv

LEMMA FramesStep == HandshakeInv /\ FrameInv /\ [Next]_vars => FrameInv'
<1>. SUFFICES ASSUME HandshakeInv, FrameInv, [Next]_vars PROVE FrameInv'
  OBVIOUS
<1>1. CASE Dial \/ Accept
  BY <1>1, DialOrders, AcceptOrders
<1>2. CASE Tick \/ UNCHANGED vars
  BY <1>2, SameFrames DEF Tick, vars, endVars, dataVars
<1>3. ASSUME NEW e \in Ends,
             \/ Answer(e) \/ Finish(e) \/ Conclude(e) \/ Receive(e) \/ Send(e) \/ Garble(e)
      PROVE  FrameInv'
  BY <1>3, AnswerOrders, FinishOrders, ConcludeOrders, ReceiveOrders, SendOrders, GarbleOrders
<1>4. ASSUME NEW e \in Ends,
             \/ HandshakeFails(e) \/ HandshakeTimeout(e) \/ Close(e) \/ Crash(e)
      PROVE  FrameInv'
  <2>1. Drop(e) /\ st[e] # "new"
    BY <1>4 DEF HandshakeFails, HandshakeTimeout, Close, Crash, Waiting
  <2>. QED  BY <2>1, DropOrders
<1>5. ASSUME NEW e \in Ends,
             \/ Stall(e) \/ ReaderEnds(e) \/ Rotate(e)
             \/ \E k \in Key, w \in Windows : AddEndorsement(e, k, w)
      PROVE  FrameInv'
  BY <1>5, SameFrames DEF Stall, ReaderEnds, Rotate, AddEndorsement, endVars, dataVars
<1>. QED  BY <1>1, <1>2, <1>3, <1>4, <1>5 DEF Next, Steps

(* encrypt_frame and decrypt_frame (secure.rs:157-199) with the reader of  *)
(* conn.rs: whatever is garbled, stalls or dies, the plaintexts that come  *)
(* out of an end are the first ones that went in at the other, in order    *)
(* and each whole, for any chunk size and any lengths.                     *)
THEOREM FramesComeOutWhole == Spec => []FramesIntact
<1>1. Init => HandshakeInv /\ FrameInv
  BY InitInv, InitFrames
<1>2. (HandshakeInv /\ FrameInv) /\ [Next]_vars => (HandshakeInv /\ FrameInv)'
  BY StepKeeps, FramesStep
<1>3. HandshakeInv /\ FrameInv => FramesIntact
  <2>. SUFFICES ASSUME HandshakeInv, FrameInv, NEW e \in Ends
                PROVE  /\ Len(got[e]) <= Len(sent[Peer(e)])
                       /\ \A i \in DOMAIN got[e] : PlaintextLength(got[e][i]) = sent[Peer(e)][i]
    BY DEF FramesIntact
  <2>1. /\ Peer(e) \in Ends /\ got[e] \in Seq(Seq(Chunk)) /\ Len(got[e]) \in Nat
        /\ DOMAIN got[e] = 1..Len(got[e])
    BY LaneTypes
  <2>2. sent[Peer(e)] \in Seq(Nat) /\ Len(sent[Peer(e)]) \in Nat
    BY <2>1, LaneTypes
  <2>3. /\ Len(got[e]) <= Len(sent[Peer(e)])
        /\ \A i \in 1..Len(got[e]) :
              \E nonce \in Nat : got[e][i] = EncryptFrame(sent[Peer(e)][i], nonce).chunks
    BY DEF FrameInv, FramesInOrder
  <2>4. \A i \in 1..Len(got[e]) : sent[Peer(e)][i] \in Nat
    <3>1. \A i \in 1..Len(got[e]) : i \in 1..Len(sent[Peer(e)])
      BY <2>1, <2>2, <2>3
    <3>. QED  BY <2>2, <3>1
  <2>5. ASSUME NEW i \in 1..Len(got[e]) PROVE PlaintextLength(got[e][i]) = sent[Peer(e)][i]
    <3>1. PICK nonce \in Nat : got[e][i] = EncryptFrame(sent[Peer(e)][i], nonce).chunks
      BY <2>3
    <3>2. sent[Peer(e)][i] \in Nat
      BY <2>4
    <3>3. PlaintextLength(EncryptFrame(sent[Peer(e)][i], nonce).chunks) = sent[Peer(e)][i]
      BY <3>2, FrameIsWhole
    <3>. QED  BY <3>1, <3>3
  <2>. QED  BY <2>1, <2>3, <2>5
<1>. QED  BY <1>1, <1>2, <1>3, PTL DEF Spec
=============================================================================
