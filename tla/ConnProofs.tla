----------------------------- MODULE ConnProofs -----------------------------
(***************************************************************************)
(* Proofs about Conn, for every number of calls, streams and events and    *)
(* every capacity of the queues.                                           *)
(***************************************************************************)
EXTENDS Conn, SequenceTheorems, TLAPS

(* The elements of a sequence, and which of them stand before which.       *)
On(P) == {P[i] : i \in 1..Len(P)}
Before(P, f, g) == \E i, j \in 1..Len(P) : i < j /\ P[i] = f /\ P[j] = g

(* Nothing is in an empty sequence.                                        *)
LEMMA OnEmpty == On(<<>>) = {} /\ \A f, g : ~Before(<<>>, f, g)
BY DEF On, Before

(* An appended element comes after all others.                             *)
LEMMA OnAppend ==
  ASSUME NEW S, NEW P \in Seq(S), NEW x \in S
  PROVE  /\ On(Append(P, x)) = On(P) \cup {x}
         /\ \A f, g : Before(P, f, g) => Before(Append(P, x), f, g)
         /\ \A f \in On(P) : Before(Append(P, x), f, x)
         /\ \A f, g : Before(Append(P, x), f, g) => Before(P, f, g) \/ (f \in On(P) /\ g = x)
<1>. DEFINE Q == Append(P, x)
            n == Len(P)
<1>1. n \in Nat /\ Len(Q) = n + 1 /\ Q[n + 1] = x /\ \A i \in 1..n : Q[i] = P[i]
  BY LenProperties, AppendProperties
<1>. HIDE DEF Q, n
<1>2. \A i \in 1..(n + 1) : i \in 1..n \/ i = n + 1
  BY <1>1
<1>3. 1..n \subseteq 1..(n + 1) /\ n + 1 \in 1..(n + 1) /\ \A i \in 1..n : i < n + 1
  BY <1>1
<1>4. On(Q) = On(P) \cup {x}
  BY <1>1, <1>2, <1>3 DEF On, n
<1>5. \A f, g : Before(P, f, g) => Before(Q, f, g)
  BY <1>1, <1>3 DEF Before, n
<1>6. \A f \in On(P) : Before(Q, f, x)
  BY <1>1, <1>3 DEF Before, On, n
<1>7. ASSUME NEW f, NEW g, Before(Q, f, g) PROVE Before(P, f, g) \/ (f \in On(P) /\ g = x)
  <2>1. PICK i \in 1..(n + 1), j \in 1..(n + 1) : i < j /\ Q[i] = f /\ Q[j] = g
    BY <1>1, <1>7 DEF Before
  <2>2. i \in 1..n
    BY <1>1, <2>1
  <2>3. P[i] = f /\ f \in On(P)
    BY <1>1, <2>1, <2>2 DEF On, n
  <2>4. CASE j \in 1..n
    BY <1>1, <2>1, <2>2, <2>3, <2>4 DEF Before, n
  <2>5. CASE j = n + 1
    BY <1>1, <2>1, <2>3, <2>5
  <2>. QED  BY <1>2, <2>4, <2>5
<1>. QED  BY <1>4, <1>5, <1>6, <1>7 DEF Q

(* The head comes before all others.                                       *)
LEMMA OnTail ==
  ASSUME NEW S, NEW P \in Seq(S), P # <<>>
  PROVE  /\ On(P) = {Head(P)} \cup On(Tail(P))
         /\ \A g \in On(Tail(P)) : Before(P, Head(P), g)
         /\ \A f, g : Before(Tail(P), f, g) => Before(P, f, g)
         /\ \A f, g : Before(P, f, g) => g \in On(Tail(P)) /\ (f = Head(P) \/ Before(Tail(P), f, g))
<1>. DEFINE Q == Tail(P)
            n == Len(P)
            m == n - 1
<1>1. n \in Nat \ {0} /\ Len(Q) = m /\ \A i \in 1..m : Q[i] = P[i + 1]
  BY EmptySeq, HeadTailProperties
<1>2. Head(P) = P[1]
  OBVIOUS
<1>. HIDE DEF Q, n
<1>3. \A i \in 1..m : i + 1 \in 1..n /\ 1 < i + 1
  BY <1>1
<1>4. 1 \in 1..n /\ \A i \in 1..n : i = 1 \/ (i - 1 \in 1..m /\ (i - 1) + 1 = i)
  BY <1>1
<1>5. \A i \in 1..n : i # 1 => i - 1 \in 1..m /\ Q[i - 1] = P[i]
  BY <1>1, <1>4
<1>6. On(P) = {Head(P)} \cup On(Q)
  <2>1. \A i \in 1..n : P[i] \in {P[1]} \cup On(Q)
    BY <1>1, <1>5 DEF On
  <2>2. \A i \in 1..m : Q[i] \in On(P)
    BY <1>1, <1>3 DEF On, n
  <2>3. P[1] \in On(P)
    BY <1>4 DEF On, n
  <2>. QED  BY <1>1, <1>2, <2>1, <2>2, <2>3 DEF On, n
<1>7. \A g \in On(Q) : Before(P, Head(P), g)
  BY <1>1, <1>2, <1>3, <1>4 DEF On, Before, n
<1>8. ASSUME NEW f, NEW g, Before(Q, f, g) PROVE Before(P, f, g)
  <2>1. PICK i \in 1..m, j \in 1..m : i < j /\ Q[i] = f /\ Q[j] = g
    BY <1>1, <1>8 DEF Before
  <2>2. i + 1 < j + 1 /\ P[i + 1] = f /\ P[j + 1] = g
    BY <1>1, <2>1
  <2>. QED  BY <1>3, <2>2 DEF Before, n
<1>9. ASSUME NEW f, NEW g, Before(P, f, g)
      PROVE  g \in On(Q) /\ (f = Head(P) \/ Before(Q, f, g))
  <2>1. PICK i \in 1..n, j \in 1..n : i < j /\ P[i] = f /\ P[j] = g
    BY <1>9 DEF Before, n
  <2>2. j - 1 \in 1..m /\ Q[j - 1] = g
    BY <1>5, <2>1
  <2>3. CASE i = 1
    BY <1>1, <1>2, <2>1, <2>2, <2>3 DEF On
  <2>4. CASE i # 1
    <3>1. i - 1 \in 1..m /\ Q[i - 1] = f /\ i - 1 < j - 1
      BY <1>5, <2>1, <2>4
    <3>. QED  BY <1>1, <2>2, <3>1 DEF On, Before
  <2>. QED  BY <2>3, <2>4
<1>. QED  BY <1>6, <1>7, <1>8, <1>9 DEF Q

(* The front of a sequence keeps the order of what it keeps.               *)
LEMMA OnFront ==
  ASSUME NEW S, NEW P \in Seq(S), NEW R \in Seq(S)
  PROVE  /\ On(P) \subseteq On(P \o R)
         /\ \A f, g : Before(P, f, g) => Before(P \o R, f, g)
         /\ \A f, g : Before(P \o R, f, g) /\ g \in On(P) => Before(P, f, g) \/ Before(P \o R, g, g)
<1>. DEFINE Q == P \o R
            n == Len(P)
            l == Len(Q)
<1>1. n \in Nat /\ l \in Nat /\ n <= l /\ \A i \in 1..n : Q[i] = P[i]
  BY ConcatProperties, LenProperties
<1>. HIDE DEF Q, n, l
<1>2. 1..n \subseteq 1..l
  BY <1>1
<1>3. On(P) \subseteq On(Q)
  BY <1>1, <1>2 DEF On, n, l
<1>4. \A f, g : Before(P, f, g) => Before(Q, f, g)
  BY <1>1, <1>2 DEF Before, n, l
<1>5. ASSUME NEW f, NEW g, Before(Q, f, g), g \in On(P)
      PROVE  Before(P, f, g) \/ Before(Q, g, g)
  <2>1. PICK i \in 1..l, j \in 1..l : i < j /\ Q[i] = f /\ Q[j] = g
    BY <1>5 DEF Before, l
  <2>2. PICK k \in 1..n : P[k] = g
    BY <1>5 DEF On, n
  <2>3. CASE j <= n
    <3>1. i \in 1..n /\ j \in 1..n
      BY <1>1, <2>1, <2>3
    <3>. QED  BY <1>1, <2>1, <3>1 DEF Before, n
  <2>4. CASE j > n
    <3>1. k \in 1..l /\ k < j /\ Q[k] = g
      BY <1>1, <1>2, <2>1, <2>2, <2>4
    <3>. QED  BY <2>1, <3>1 DEF Before, l
  <2>. QED  BY <1>1, <2>1, <2>3, <2>4
<1>. QED  BY <1>3, <1>4, <1>5 DEF Q

(* Moving the head of one queue to the end of the one before it.           *)
LEMMA Shift ==
  ASSUME NEW S, NEW P \in Seq(S), NEW Q \in Seq(S), Q # <<>>
  PROVE  Append(P, Head(Q)) \o Tail(Q) = P \o Q
<1>1. Head(Q) \in S /\ Tail(Q) \in Seq(S) /\ Len(Q) \in Nat \ {0}
  BY EmptySeq, HeadTailProperties
<1>2. Q = <<Head(Q)>> \o Tail(Q)
  <2>1. SubSeq(Q, 1, Len(Q)) = <<Q[1]>> \o SubSeq(Q, 2, Len(Q))
    BY <1>1, SubSeqRecursiveFirst
  <2>. QED  BY <2>1, SubSeqFull, TailIsSubSeq
<1>3. Append(P, Head(Q)) = P \o <<Head(Q)>> /\ <<Head(Q)>> \in Seq(S)
  BY <1>1, AppendIsConcat
<1>4. (P \o <<Head(Q)>>) \o Tail(Q) = P \o (<<Head(Q)>> \o Tail(Q))
  BY <1>1, <1>3, ConcatAssociative
<1>. QED  BY <1>2, <1>3, <1>4

(* Appending to the last of two queues.                                    *)
LEMMA ConcatAppend ==
  ASSUME NEW S, NEW P \in Seq(S), NEW Q \in Seq(S), NEW x \in S
  PROVE  P \o Append(Q, x) = Append(P \o Q, x)
<1>1. <<x>> \in Seq(S) /\ P \o Q \in Seq(S)
  BY ConcatProperties
<1>. QED  BY <1>1, AppendIsConcat, ConcatAssociative

(* Taking the head of the first of two queues.                             *)
LEMMA ConcatTail ==
  ASSUME NEW S, NEW P \in Seq(S), NEW Q \in Seq(S), P # <<>>
  PROVE  P \o Q # <<>> /\ Head(P \o Q) = Head(P) /\ Tail(P \o Q) = Tail(P) \o Q
<1>. DEFINE R == P \o Q
<1>1. R \in Seq(S) /\ R # <<>>
  BY ConcatProperties, ConcatEqualIffEmpty
<1>2. Len(P) \in Nat \ {0} /\ Len(Q) \in Nat
  BY EmptySeq, LenProperties
<1>3. Len(R) = Len(P) + Len(Q) /\ \A i \in 1..(Len(P) + Len(Q)) : R[i] = IF i <= Len(P) THEN P[i] ELSE Q[i - Len(P)]
  BY ConcatProperties
<1>4. /\ Tail(P) \in Seq(S) /\ Len(Tail(P)) = Len(P) - 1
      /\ \A i \in 1..Len(Tail(P)) : Tail(P)[i] = P[i + 1]
  BY HeadTailProperties
<1>5. /\ Tail(P) \o Q \in Seq(S) /\ Len(Tail(P) \o Q) = Len(Tail(P)) + Len(Q)
      /\ \A i \in 1..(Len(Tail(P)) + Len(Q)) :
            (Tail(P) \o Q)[i] = IF i <= Len(Tail(P)) THEN Tail(P)[i] ELSE Q[i - Len(Tail(P))]
  BY <1>4, ConcatProperties
<1>. HIDE DEF R
<1>6. /\ Tail(R) \in Seq(S) /\ Len(Tail(R)) = Len(R) - 1
      /\ \A i \in 1..Len(Tail(R)) : Tail(R)[i] = R[i + 1]
  BY <1>1, HeadTailProperties
<1>7. Head(R) = Head(P)
  <2>1. 1 \in 1..(Len(P) + Len(Q)) /\ 1 <= Len(P)
    BY <1>2
  <2>2. R[1] = P[1]
    BY <1>3, <2>1
  <2>3. Head(R) = R[1] /\ Head(P) = P[1]
    BY <1>1
  <2>. QED  BY <2>2, <2>3
<1>8. ASSUME NEW i \in 1..Len(Tail(R)) PROVE Tail(R)[i] = (Tail(P) \o Q)[i]
  <2>1. i \in 1..(Len(P) + Len(Q) - 1) /\ i + 1 \in 1..(Len(P) + Len(Q))
    BY <1>2, <1>3, <1>6
  <2>2. Tail(R)[i] = IF i + 1 <= Len(P) THEN P[i + 1] ELSE Q[i + 1 - Len(P)]
    BY <1>3, <1>6, <2>1
  <2>3. i \in 1..(Len(Tail(P)) + Len(Q))
    BY <1>2, <1>4, <2>1
  <2>4. (Tail(P) \o Q)[i] = IF i <= Len(Tail(P)) THEN Tail(P)[i] ELSE Q[i - Len(Tail(P))]
    BY <1>5, <2>3
  <2>5. CASE i + 1 <= Len(P)
    <3>1. i <= Len(Tail(P)) /\ i \in 1..Len(Tail(P))
      BY <1>2, <1>4, <2>1, <2>5
    <3>. QED  BY <1>4, <2>2, <2>4, <2>5, <3>1
  <2>6. CASE ~(i + 1 <= Len(P))
    <3>1. ~(i <= Len(Tail(P))) /\ i - Len(Tail(P)) = i + 1 - Len(P)
      BY <1>2, <1>4, <2>1, <2>6
    <3>. QED  BY <2>2, <2>4, <2>6, <3>1
  <2>. QED  BY <2>5, <2>6
<1>9. Len(Tail(R)) = Len(Tail(P) \o Q)
  BY <1>2, <1>3, <1>4, <1>5, <1>6
<1>10. Tail(R) = Tail(P) \o Q
  BY <1>5, <1>6, <1>8, <1>9, SeqEqual
<1>. QED  BY <1>1, <1>7, <1>10 DEF R

-----------------------------------------------------------------------------

(* What a step does to a family of bounded queues.                         *)
LEMMA EmptyQueues ==
  ASSUME NEW D, NEW S, NEW cap \in Nat
  PROVE  [d \in D |-> <<>>] \in Queues(D, S, cap)
BY DEF Queues

(* Appending to a queue that has room keeps the family within bounds.      *)
LEMMA PushQueue ==
  ASSUME NEW D, NEW S, NEW cap \in Nat, NEW q \in Queues(D, S, cap),
         NEW d \in D, NEW x \in S, Len(q[d]) < cap
  PROVE  [q EXCEPT ![d] = Append(@, x)] \in Queues(D, S, cap)
<1>1. q \in [D -> Seq(S)] /\ \A k \in D : Len(q[k]) <= cap
  BY DEF Queues
<1>2. Append(q[d], x) \in Seq(S) /\ Len(Append(q[d], x)) = Len(q[d]) + 1
  BY <1>1
<1>3. Len(q[d]) \in Nat
  BY <1>1
<1>4. Len(Append(q[d], x)) <= cap
  BY <1>2, <1>3
<1>. QED  BY <1>1, <1>2, <1>4 DEF Queues

(* Taking the head of a queue keeps the family within bounds.              *)
LEMMA PopQueue ==
  ASSUME NEW D, NEW S, NEW cap \in Nat, NEW q \in Queues(D, S, cap),
         NEW d \in D, q[d] # <<>>
  PROVE  /\ [q EXCEPT ![d] = Tail(@)] \in Queues(D, S, cap)
         /\ Head(q[d]) \in S
<1>1. q \in [D -> Seq(S)] /\ \A k \in D : Len(q[k]) <= cap
  BY DEF Queues
<1>2. /\ Head(q[d]) \in S /\ Tail(q[d]) \in Seq(S)
      /\ Len(Tail(q[d])) = Len(q[d]) - 1 /\ Len(q[d]) \in Nat
  BY <1>1
<1>3. Len(Tail(q[d])) <= cap
  BY <1>1, <1>2
<1>. QED  BY <1>1, <1>2, <1>3 DEF Queues

(* Replacing one queue by a bounded one keeps the family within bounds.    *)
LEMMA SetQueue ==
  ASSUME NEW D, NEW S, NEW cap \in Nat, NEW q \in Queues(D, S, cap),
         NEW d \in D, NEW s \in Seq(S), Len(s) <= cap
  PROVE  [q EXCEPT ![d] = s] \in Queues(D, S, cap)
BY DEF Queues

(* So does emptying one.                                                   *)
LEMMA ClearQueue ==
  ASSUME NEW D, NEW S, NEW cap \in Nat, NEW q \in Queues(D, S, cap), NEW d \in D
  PROVE  [q EXCEPT ![d] = <<>>] \in Queues(D, S, cap)
<1>1. <<>> \in Seq(S) /\ Len(<<>>) <= cap
  OBVIOUS
<1>. QED  BY <1>1 DEF Queues

(* A sequence of one frame is a queue of capacity one.                     *)
LEMMA Unit == ASSUME NEW S, NEW x \in S
              PROVE  <<x>> \in Seq(S) /\ Len(<<x>>) <= 1
OBVIOUS

(* The four constructors build frames.                                     *)
LEMMA Frames ==
  /\ \A x \in Ids : Request(x) \in Frame /\ Response(x) \in Frame
  /\ \A x \in Ids, n \in Nat : Chunk(x, n) \in Frame
  /\ \A e \in Ends, n \in Nat : Event(e, n) \in Frame
BY DEF Frame, Request, Response, Chunk, Event

(* The capacities are positive numbers, by the assumption of Conn.         *)
LEMMA Capacities ==
  /\ OutCap \in Nat /\ WireCap \in Nat /\ InCap \in Nat /\ ChanCap \in Nat
  /\ Chunks \in Nat /\ 1 \in Nat
BY ConnAssumption

(* A receiver belongs to an end; the one event_subs holds is a receiver    *)
(* once there is a subscription.                                           *)
LEMMA ReceiverParts == \A r \in Receivers : r[1] \in Ends /\ r[2] \in 1..MaxSubs /\ r[2] \in Nat
BY ConnAssumption DEF Receivers
LEMMA LastIsReceiver ==
  ASSUME sub \in [Ends -> 0..MaxSubs], NEW e \in Ends, sub[e] # 0
  PROVE  LastReceiver(e) \in Receivers
<1>1. sub[e] \in 1..MaxSubs
  BY ConnAssumption
<1>. QED  BY <1>1 DEF LastReceiver, Receivers

(* The peer of an end is an end.                                           *)
LEMMA PeerInEnds == \A e \in Ends : Peer(e) \in Ends
BY DEF Peer, Ends

(* The state variables in the tuples of UNCHANGED. *)
USE DEF taskVars, ioVars, appVars, mapVars, callVars, strVars, evVars, srvVars,
        notCall, notStream, notEvent, notServe

(* The state after both handshakes is well formed.                         *)
LEMMA InitType == Init => TypeOK
<1>. SUFFICES ASSUME Init PROVE TypeOK
  OBVIOUS
<1>1. /\ [d \in Ends |-> <<>>] \in Queues(Ends, Frame, OutCap)
      /\ [d \in Ends |-> <<>>] \in Queues(Ends, Frame, 1)
      /\ [d \in Ends |-> <<>>] \in Queues(Ends, Frame, WireCap)
      /\ [d \in Ends |-> <<>>] \in Queues(Ends, Frame, InCap)
      /\ [d \in Streams |-> <<>>] \in Queues(Streams, Nat, ChanCap)
      /\ [d \in Receivers |-> <<>>] \in Queues(Receivers, Nat, ChanCap)
  BY EmptyQueues, Capacities
<1>2. serving \in [Ends -> ServingState]
  BY DEF Init, Idle, ServingState, Ends
<1>3. 0 \in 0..MaxEvents /\ 0 \in 0..MaxSubs
  BY ConnAssumption
<1>4. <<>> \in Seq(Nat)
  OBVIOUS
<1>. QED  BY <1>1, <1>2, <1>3, <1>4 DEF Init, TypeOK

(* The writer task moves a frame along or drops what it holds.             *)
LEMMA WriterType ==
  ASSUME TypeOK, NEW e \in Ends, WriterStep(e)
  PROVE  TypeOK'
<1>1. CASE WriterTake(e)
  <2>1. outq[e] # <<>> /\ outq \in Queues(Ends, Frame, OutCap)
    BY <1>1 DEF WriterTake, TypeOK
  <2>2. outq' \in Queues(Ends, Frame, OutCap) /\ Head(outq[e]) \in Frame
    BY <1>1, <2>1, PopQueue, Capacities DEF WriterTake
  <2>3. <<Head(outq[e])>> \in Seq(Frame) /\ Len(<<Head(outq[e])>>) <= 1
    BY <2>2, Unit
  <2>4. hand' \in Queues(Ends, Frame, 1)
    BY <1>1, <2>3, SetQueue, Capacities DEF WriterTake, TypeOK
  <2>. QED  BY <1>1, <2>2, <2>4 DEF WriterTake, TypeOK
<1>2. CASE WriterWrite(e)
  <2>1. Head(hand[e]) \in Frame
    BY <1>2, PopQueue, Capacities DEF WriterWrite, TypeOK
  <2>2. wire' \in Queues(Ends, Frame, WireCap)
    BY <1>2, <2>1, PushQueue, Capacities DEF WriterWrite, TypeOK
  <2>3. hand' \in Queues(Ends, Frame, 1)
    BY <1>2, ClearQueue, Capacities DEF WriterWrite, TypeOK
  <2>. QED  BY <1>2, <2>2, <2>3 DEF WriterWrite, TypeOK
<1>3. CASE WriterFail(e)
  <2>1. /\ outq' \in Queues(Ends, Frame, OutCap)
        /\ hand' \in Queues(Ends, Frame, 1)
    BY <1>3, ClearQueue, Capacities DEF WriterFail, TypeOK
  <2>. QED  BY <1>3, <2>1 DEF WriterFail, TypeOK
<1>. QED  BY <1>1, <1>2, <1>3 DEF WriterStep

(* try_send into the inbound queue respects its capacity.                  *)
LEMMA PushInboundType ==
  ASSUME TypeOK, NEW e \in Ends, NEW f \in Frame, PushInbound(e, f)
  PROVE  inbound' \in Queues(Ends, Frame, InCap)
BY PushQueue, Capacities DEF PushInbound, TypeOK

(* The reader task consumes a frame and changes what the frame is for.     *)
LEMMA ReaderType ==
  ASSUME TypeOK, NEW e \in Ends, ReaderStep(e)
  PROVE  TypeOK'
<1>1. ASSUME wire[Peer(e)] # <<>>, wire' = [wire EXCEPT ![Peer(e)] = Tail(@)]
      PROVE  wire' \in Queues(Ends, Frame, WireCap) /\ Head(wire[Peer(e)]) \in Frame
  BY <1>1, PopQueue, PeerInEnds, Capacities DEF TypeOK
<1>2. CASE ReaderRoute(e)
  <2>. DEFINE f == Head(wire[Peer(e)])
  <2>1. wire' \in Queues(Ends, Frame, WireCap) /\ f \in Frame
    BY <1>1, <1>2 DEF ReaderRoute
  <2>2. f.id \in Ids \cup Ends /\ f.seq \in Nat
    BY <2>1 DEF Frame
  <2>3. CASE RouteResponse(e, f)
    BY <1>2, <2>1, <2>3 DEF ReaderRoute, RouteResponse, TypeOK
  <2>4. CASE RouteChunk(e, f)
    <3>1. chan' \in Queues(Streams, Nat, ChanCap)
      <4>1. CASE f.id \in streams[e] /\ Accepts(f.id)
        <5>1. f.id \in Streams
          BY <4>1 DEF TypeOK
        <5>. QED  BY <2>2, <2>4, <4>1, <5>1, PushQueue, Capacities
                  DEF RouteChunk, Accepts, TypeOK
      <4>2. CASE ~(f.id \in streams[e] /\ Accepts(f.id))
        BY <2>4, <4>2 DEF RouteChunk, TypeOK
      <4>. QED  BY <4>1, <4>2
    <3>2. streams' \in [Ends -> SUBSET Streams]
      BY <2>4 DEF RouteChunk, TypeOK
    <3>. QED  BY <1>2, <2>1, <2>4, <3>1, <3>2 DEF ReaderRoute, RouteChunk, TypeOK
  <2>5. CASE RouteEvent(e, f)
    <3>1. CASE sub[e] = 0
      BY <1>2, <2>1, <2>5, <3>1, PushInboundType DEF ReaderRoute, RouteEvent, TypeOK
    <3>2. CASE sub[e] # 0
      <4>. DEFINE r == LastReceiver(e)
      <4>1. evq' \in Queues(Receivers, Nat, ChanCap)
        <5>1. CASE r \notin dropped /\ Len(evq[r]) < ChanCap
          <6>1. evq' = [evq EXCEPT ![r] = Append(@, f.seq)]
            BY <2>5, <3>2, <5>1 DEF RouteEvent
          <6>2. r \in Receivers
            BY <3>2, LastIsReceiver DEF TypeOK
          <6>. QED  BY <2>2, <5>1, <6>1, <6>2, PushQueue, Capacities DEF TypeOK
        <5>2. CASE ~(r \notin dropped /\ Len(evq[r]) < ChanCap)
          <6>1. evq' = evq
            BY <2>5, <3>2, <5>2 DEF RouteEvent
          <6>. QED  BY <6>1 DEF TypeOK
        <5>. QED  BY <5>1, <5>2
      <4>. QED  BY <1>2, <2>1, <2>5, <3>2, <4>1 DEF ReaderRoute, RouteEvent, TypeOK
    <3>. QED  BY <3>1, <3>2
  <2>6. CASE RouteRequest(e, f)
    BY <1>2, <2>1, <2>6, PushInboundType DEF ReaderRoute, RouteRequest, TypeOK
  <2>. QED  BY <1>2, <2>3, <2>4, <2>5, <2>6 DEF ReaderRoute, Route
<1>3. CASE ReaderStale(e)
  BY <1>1, <1>3 DEF ReaderStale, StopReader, TypeOK
<1>4. CASE ReaderEof(e)
  BY <1>4 DEF ReaderEof, StopReader, TypeOK
<1>. QED  BY <1>2, <1>3, <1>4 DEF ReaderStep

(* out_tx.send respects the capacity of the queue.                         *)
LEMMA EnqueueType ==
  ASSUME TypeOK, NEW e \in Ends, NEW f \in Frame, CanEnqueue(e), Enqueue(e, f)
  PROVE  outq' \in Queues(Ends, Frame, OutCap)
BY PushQueue, Capacities DEF CanEnqueue, Enqueue, TypeOK

(* Every request is issued by one of the two ends.                         *)
LEMMA OriginInEnds == \A x \in Ids : Origin[x] \in Ends
BY ConnAssumption

(* The steps of Conn::call keep the types.                                 *)
LEMMA CallType ==
  ASSUME TypeOK, NEW c \in Calls, CallRegister(c) \/ CallStep(c)
  PROVE  TypeOK'
<1>. c \in Ids /\ Origin[c] \in Ends
  BY ConnAssumption DEF Ids
<1>1. CASE CallRegister(c)
  BY <1>1 DEF CallRegister, SetCall, TypeOK
<1>2. CASE CallSend(c)
  <2>1. outq' \in Queues(Ends, Frame, OutCap)
    BY <1>2, EnqueueType, Frames DEF CallSend
  <2>. QED  BY <1>2, <2>1 DEF CallSend, SetCall, TypeOK
<1>3. CASE CallClosed(c)
  BY <1>3 DEF CallClosed, SetCall, TypeOK
<1>4. CASE CallOk(c)
  BY <1>4 DEF CallOk, SetCall, TypeOK
<1>5. CASE CallElapsed(c)
  BY <1>5 DEF CallElapsed, SetCall, TypeOK
<1>6. CASE CallTimeout(c)
  BY <1>6 DEF CallTimeout, SetCall, TypeOK
<1>. QED  BY <1>1, <1>2, <1>3, <1>4, <1>5, <1>6 DEF CallStep

(* The steps of Conn::call_stream and its consumer keep the types.         *)
LEMMA StreamType ==
  ASSUME TypeOK, NEW s \in Streams,
         StreamRegister(s) \/ StreamStep(s) \/ ConsumerStep(s) \/ StreamAbandon(s)
  PROVE  TypeOK'
<1>. s \in Ids /\ Origin[s] \in Ends
  BY ConnAssumption DEF Ids
<1>1. CASE StreamRegister(s)
  BY <1>1 DEF StreamRegister, SetStream, TypeOK
<1>2. CASE StreamSend(s)
  <2>1. outq' \in Queues(Ends, Frame, OutCap)
    BY <1>2, EnqueueType, Frames DEF StreamSend
  <2>. QED  BY <1>2, <2>1 DEF StreamSend, SetStream, TypeOK
<1>3. CASE StreamClosed(s)
  BY <1>3 DEF StreamClosed, SetStream, TypeOK
<1>4. CASE ChunkRecv(s)
  <2>1. chan' \in Queues(Streams, Nat, ChanCap) /\ Head(chan[s]) \in Nat
    BY <1>4, PopQueue, Capacities DEF ChunkRecv, TypeOK
  <2>2. got' \in [Streams -> Seq(Nat)]
    BY <1>4, <2>1 DEF ChunkRecv, TypeOK
  <2>. QED  BY <1>4, <2>1, <2>2 DEF ChunkRecv, TypeOK
<1>5. CASE StreamEnded(s)
  BY <1>5 DEF StreamEnded, SetStream, TypeOK
<1>6. CASE StreamAbandon(s)
  BY <1>6 DEF StreamAbandon, SetStream, TypeOK
<1>. QED  BY <1>1, <1>2, <1>3, <1>4, <1>5, <1>6 DEF StreamStep, ConsumerStep

(* emit, subscribe and the subscriber keep the types.                      *)
LEMMA EventType ==
  ASSUME TypeOK, NEW e \in Ends, Emit(e) \/ Subscribe(e)
  PROVE  TypeOK'
<1>1. CASE Emit(e)
  <2>1. emitted[e] + 1 \in 0..MaxEvents
    BY <1>1, ConnAssumption DEF Emit, TypeOK
  <2>2. outq' \in Queues(Ends, Frame, OutCap)
    BY <1>1, <2>1, EnqueueType, Frames DEF Emit
  <2>. QED  BY <1>1, <2>1, <2>2 DEF Emit, TypeOK
<1>2. CASE Subscribe(e)
  <2>1. sub[e] + 1 \in 0..MaxSubs
    BY <1>2, ConnAssumption DEF Subscribe, TypeOK
  <2>. QED  BY <1>2, <2>1 DEF Subscribe, TypeOK
<1>. QED  BY <1>1, <1>2

(* A subscriber works on the channels of its receivers and on nothing else. *)
LEMMA SubscribersAside ==
  ASSUME NEW r \in Receivers, EventRecv(r) \/ SubscriberGone(r)
  PROVE  UNCHANGED <<taskVars, ioVars, mapVars, callVars, strVars, srvVars, emitted, sub>>
BY DEF EventRecv, SubscriberGone

(* So does a subscriber.                                                   *)
LEMMA SubscriberType ==
  ASSUME TypeOK, NEW r \in Receivers, EventRecv(r) \/ SubscriberGone(r)
  PROVE  TypeOK'
<1>3. CASE EventRecv(r)
  <2>1. evq' \in Queues(Receivers, Nat, ChanCap) /\ Head(evq[r]) \in Nat
    BY <1>3, PopQueue, Capacities DEF EventRecv, TypeOK
  <2>2. seen' \in [Receivers -> Seq(Nat)]
    BY <1>3, <2>1 DEF EventRecv, TypeOK
  <2>. QED  BY <1>3, <2>1, <2>2 DEF EventRecv, TypeOK
<1>4. CASE SubscriberGone(r)
  <2>1. evq' \in Queues(Receivers, Nat, ChanCap)
    BY <1>4, ClearQueue, Capacities DEF SubscriberGone, TypeOK
  <2>. QED  BY <1>4, <2>1 DEF SubscriberGone, TypeOK
<1>. QED  BY <1>3, <1>4

(* The serving loop and its handler keep the types.                        *)
LEMMA ServingType ==
  ASSUME TypeOK, NEW e \in Ends, LoopStep(e) \/ HandlerDone(e)
  PROVE  TypeOK'
<1>. serving[e] \in ServingState
  BY DEF TypeOK
<1>1. CASE ServeRecv(e)
  <2>. DEFINE f == Head(inbound[e])
  <2>1. inbound' \in Queues(Ends, Frame, InCap) /\ f \in Frame
    BY <1>1, PopQueue, Capacities DEF ServeRecv, TypeOK
  <2>2. CASE f.typ = "request"
    <3>1. [at |-> "handler", id |-> f.id, seq |-> 1] \in ServingState
      BY <2>1 DEF Frame, ServingState
    <3>2. serving' = [serving EXCEPT ![e] = [at |-> "handler", id |-> f.id, seq |-> 1]]
      BY <1>1, <2>2 DEF ServeRecv, SetServing
    <3>3. serving' \in [Ends -> ServingState]
      BY <3>1, <3>2 DEF TypeOK
    <3>4. runs' = [runs EXCEPT ![f.id] = @ + 1]
      BY <1>1, <2>2 DEF ServeRecv
    <3>5. runs' \in [Ids -> Nat]
      <4>. HIDE DEF f
      <4>. runs \in [Ids -> Nat]
        BY DEF TypeOK
      <4>1. CASE f.id \in Ids
        BY <3>4, <4>1
      <4>2. CASE f.id \notin Ids
        BY <3>4, <4>2
      <4>. QED  BY <4>1, <4>2
    <3>. QED  BY <1>1, <2>1, <3>3, <3>5 DEF ServeRecv, TypeOK
  <2>3. CASE f.typ # "request"
    BY <1>1, <2>1, <2>3 DEF ServeRecv, TypeOK
  <2>. QED  BY <2>2, <2>3
<1>2. AfterReply(serving[e]) \in ServingState
  BY DEF AfterReply, Idle, ServingState, Ends
<1>3. CASE ServeReply(e)
  <2>1. Reply(serving[e]) \in Frame
    BY DEF Reply, Chunk, Response, Frame, ServingState
  <2>2. outq' \in Queues(Ends, Frame, OutCap)
    BY <1>3, <2>1, EnqueueType DEF ServeReply
  <2>. QED  BY <1>2, <1>3, <2>2 DEF ServeReply, SetServing, TypeOK
<1>4. CASE ServeReplyLost(e)
  BY <1>2, <1>4 DEF ServeReplyLost, SetServing, TypeOK
<1>5. CASE ServeEnd(e)
  BY <1>5 DEF ServeEnd, SetServing, ServingState, TypeOK
<1>6. CASE HandlerDone(e)
  BY <1>6 DEF HandlerDone, SetServing, ServingState, TypeOK
<1>. QED  BY <1>1, <1>3, <1>4, <1>5, <1>6 DEF LoopStep

(* Dropping the Conn, expiry and a reset keep the types.                   *)
LEMMA EnvironmentType ==
  ASSUME TypeOK, Reset \/ \E e \in Ends : DropConn(e) \/ KeyExpires(e)
  PROVE  TypeOK'
<1>1. CASE Reset
  <2>1. wire' \in Queues(Ends, Frame, WireCap)
    BY <1>1, EmptyQueues, Capacities DEF Reset
  <2>. QED  BY <1>1, <2>1 DEF Reset, TypeOK
<1>2. ASSUME NEW e \in Ends, DropConn(e)
      PROVE  TypeOK'
  <2>1. /\ outq' \in Queues(Ends, Frame, OutCap)
        /\ hand' \in Queues(Ends, Frame, 1)
        /\ inbound' \in Queues(Ends, Frame, InCap)
    BY <1>2, ClearQueue, Capacities DEF DropConn, TypeOK
  <2>. QED  BY <1>2, <2>1 DEF DropConn, TypeOK
<1>3. ASSUME NEW e \in Ends, KeyExpires(e)
      PROVE  TypeOK'
  BY <1>3 DEF KeyExpires, TypeOK
<1>. QED  BY <1>1, <1>2, <1>3

(* Every step keeps the types.                                             *)
LEMMA NextType == TypeOK /\ [Next]_vars => TypeOK'
<1>. SUFFICES ASSUME TypeOK, [Next]_vars PROVE TypeOK'
  OBVIOUS
<1>1. CASE UNCHANGED vars
  BY <1>1 DEF vars, TypeOK
<1>2. CASE Next
  BY <1>2, WriterType, ReaderType, CallType, StreamType, EventType, SubscriberType, ServingType,
     EnvironmentType DEF Next
<1>. QED  BY <1>1, <1>2

(* Every queue of the channel stays within its capacity and every frame    *)
(* and every task is in a state the code can be in.                        *)
THEOREM TypeCorrect == Spec => []TypeOK
BY InitType, NextType, PTL DEF Spec

-----------------------------------------------------------------------------
(* The pending map: CallInv is inductive. *)

(* No call is issued at first.                                             *)
LEMMA InitCallInv == Init => CallInv
BY InitType DEF Init, CallInv, RegisteredWhileWaiting, NoStaleEntry, AnsweredWasIssued

(* Steps of the other tasks leave the calls and the pending map alone.     *)
LEMMA CallsUntouched ==
  ASSUME CallInv, TypeOK', UNCHANGED <<pending, call, answered>>
  PROVE  CallInv'
BY DEF CallInv, RegisteredWhileWaiting, NoStaleEntry, AnsweredWasIssued

(* The reader completes the oneshot it removes.                            *)
LEMMA ResponseCallInv ==
  ASSUME CallInv, TypeOK', UNCHANGED call, NEW e \in Ends, NEW f, RouteResponse(e, f)
  PROVE  CallInv'
<1>1. /\ pending' = [pending EXCEPT ![e] = @ \ {f.id}]
      /\ answered' = answered \cup ({f.id} \cap pending[e])
  BY DEF RouteResponse
<1>2. pending \in [Ends -> SUBSET Calls] /\ answered \subseteq Calls
  BY DEF CallInv, TypeOK
<1>3. RegisteredWhileWaiting'
  BY <1>1, <1>2 DEF CallInv, RegisteredWhileWaiting
<1>4. NoStaleEntry'
  BY <1>1, <1>2 DEF CallInv, NoStaleEntry
<1>5. AnsweredWasIssued'
  BY <1>1, <1>2 DEF CallInv, NoStaleEntry, AnsweredWasIssued
<1>. QED  BY <1>3, <1>4, <1>5 DEF CallInv

(* The reader task preserves the invariant of the calls.                   *)
LEMMA ReaderCallInv ==
  ASSUME CallInv, TypeOK', NEW e \in Ends, ReaderStep(e)
  PROVE  CallInv'
<1>1. CASE ReaderRoute(e)
  <2>1. CASE RouteResponse(e, Head(wire[Peer(e)]))
    BY <1>1, <2>1, ResponseCallInv DEF ReaderRoute
  <2>2. CASE ~RouteResponse(e, Head(wire[Peer(e)]))
    BY <1>1, <2>2, CallsUntouched
       DEF ReaderRoute, Route, RouteChunk, RouteEvent, RouteRequest
  <2>. QED  BY <2>1, <2>2
<1>2. CASE ReaderStale(e) \/ ReaderEof(e)
  BY <1>2, CallsUntouched DEF ReaderStale, ReaderEof
<1>. QED  BY <1>1, <1>2 DEF ReaderStep

(* So does every step of Conn::call.                                       *)
LEMMA CallerCallInv ==
  ASSUME CallInv, TypeOK', NEW c \in Calls, CallRegister(c) \/ CallStep(c)
  PROVE  CallInv'
<1>. /\ Origin[c] \in Ends
     /\ pending \in [Ends -> SUBSET Calls] /\ answered \subseteq Calls
     /\ call \in [Calls -> {"idle", "sending", "waiting", "elapsed", "ok", "timeout", "closed"}]
  BY ConnAssumption DEF CallInv, TypeOK, Ids
<1>1. CASE CallRegister(c)
  <2>1. RegisteredWhileWaiting'
    BY <1>1 DEF CallRegister, SetCall, CallInv, RegisteredWhileWaiting
  <2>2. NoStaleEntry'
    BY <1>1 DEF CallRegister, SetCall, CallInv, NoStaleEntry, AnsweredWasIssued
  <2>3. AnsweredWasIssued'
    BY <1>1 DEF CallRegister, SetCall, CallInv, AnsweredWasIssued
  <2>. QED  BY <2>1, <2>2, <2>3 DEF CallInv
<1>2. CASE CallTimeout(c)
  <2>1. RegisteredWhileWaiting'
    BY <1>2 DEF CallTimeout, SetCall, CallInv, RegisteredWhileWaiting
  <2>2. NoStaleEntry'
    BY <1>2 DEF CallTimeout, SetCall, CallInv, NoStaleEntry
  <2>3. AnsweredWasIssued'
    BY <1>2 DEF CallTimeout, SetCall, CallInv, AnsweredWasIssued
  <2>. QED  BY <2>1, <2>2, <2>3 DEF CallInv
<1>3. CASE CallSend(c) \/ CallClosed(c) \/ CallOk(c) \/ CallElapsed(c)
  <2>1. /\ UNCHANGED <<pending, answered>>
        /\ \/ call[c] = "sending" /\ call' = [call EXCEPT ![c] = "waiting"]
           \/ call[c] = "sending" /\ call' = [call EXCEPT ![c] = "closed"]
           \/ c \in answered     /\ call' = [call EXCEPT ![c] = "ok"]
           \/ call[c] = "waiting" /\ call' = [call EXCEPT ![c] = "elapsed"]
    BY <1>3 DEF CallSend, CallClosed, CallOk, CallElapsed, SetCall
  <2>2. RegisteredWhileWaiting'
    BY <2>1 DEF CallInv, RegisteredWhileWaiting
  <2>3. NoStaleEntry'
    BY <2>1 DEF CallInv, NoStaleEntry
  <2>4. AnsweredWasIssued'
    BY <2>1 DEF CallInv, AnsweredWasIssued
  <2>. QED  BY <2>2, <2>3, <2>4 DEF CallInv
<1>. QED  BY <1>1, <1>2, <1>3 DEF CallStep

(* A Conn is dropped only when no call of its end is in flight.            *)
LEMMA DropCallInv ==
  ASSUME CallInv, TypeOK', NEW e \in Ends, DropConn(e)
  PROVE  CallInv'
<1>. pending \in [Ends -> SUBSET Calls]
  BY DEF CallInv, TypeOK
<1>1. RegisteredWhileWaiting'
  BY DEF DropConn, InUse, CallInv, RegisteredWhileWaiting
<1>2. NoStaleEntry' /\ AnsweredWasIssued'
  BY DEF DropConn, CallInv, NoStaleEntry, AnsweredWasIssued
<1>. QED  BY <1>1, <1>2 DEF CallInv

(* CallInv is inductive.                                                   *)
LEMMA NextCallInv == CallInv /\ [Next]_vars => CallInv'
<1>. SUFFICES ASSUME CallInv, [Next]_vars PROVE CallInv'
  OBVIOUS
<1>. TypeOK'
  BY NextType DEF CallInv
<1>1. CASE UNCHANGED vars
  BY <1>1, CallsUntouched DEF vars
<1>2. CASE Reset
  BY <1>2, CallsUntouched DEF Reset
<1>3. ASSUME NEW e \in Ends, WriterStep(e) \/ LoopStep(e) \/ HandlerDone(e)
                             \/ KeyExpires(e) \/ Emit(e) \/ Subscribe(e)
      PROVE  UNCHANGED <<pending, call, answered>>
  BY <1>3 DEF WriterStep, WriterTake, WriterWrite, WriterFail, LoopStep, ServeRecv,
              ServeReply, ServeReplyLost, ServeEnd, HandlerDone, KeyExpires, Emit,
              Subscribe
<1>4. ASSUME NEW s \in Streams,
             StreamRegister(s) \/ StreamStep(s) \/ ConsumerStep(s) \/ StreamAbandon(s)
      PROVE  UNCHANGED <<pending, call, answered>>
  BY <1>4 DEF StreamRegister, StreamStep, StreamSend, StreamClosed, ConsumerStep,
              ChunkRecv, StreamEnded, StreamAbandon
<1>5. CASE Next
  BY <1>2, <1>3, <1>4, <1>5, CallsUntouched, ReaderCallInv, CallerCallInv, DropCallInv, SubscribersAside
     DEF Next
<1>. QED  BY <1>1, <1>5

(* A waiting caller is always registered with the reader, so no reply the  *)
(* reader routes to it is lost; and a call that returned a reply or timed  *)
(* out leaves no entry.                                                    *)
THEOREM PendingStaysExact == Spec => []PendingIsExact
<1>1. CallInv => PendingIsExact
  BY DEF CallInv, PendingIsExact
<1>. QED  BY <1>1, InitCallInv, NextCallInv, PTL DEF Spec
-----------------------------------------------------------------------------
(* What stands in three queues, the first read first.                      *)
Joined(P, Q, R) == (P \o Q) \o R

LEMMA JoinedType ==
  \A P, Q, R \in Seq(Frame) : /\ Joined(P, Q, R) \in Seq(Frame) /\ Q \o R \in Seq(Frame)
                              /\ Joined(P, Q, R) = P \o (Q \o R)
                              /\ Joined(P, <<>>, <<>>) = P
BY ConcatProperties, ConcatAssociative, ConcatEmptySeq DEF Joined

(* What is put into the last queue comes last.                             *)
LEMMA JoinedAppend ==
  \A P, Q, R \in Seq(Frame), x \in Frame :
    Joined(P, Q, Append(R, x)) = Append(Joined(P, Q, R), x)
<1>. SUFFICES ASSUME NEW P \in Seq(Frame), NEW Q \in Seq(Frame), NEW R \in Seq(Frame), NEW x \in Frame
              PROVE  (P \o Q) \o Append(R, x) = Append((P \o Q) \o R, x)
  BY DEF Joined
<1>1. P \o Q \in Seq(Frame)
  BY ConcatProperties
<1>. QED  BY <1>1, ConcatAppend

(* What is taken from the first queue comes first.                         *)
LEMMA JoinedTail ==
  \A P, Q, R \in Seq(Frame) : P # <<>> =>
    /\ Joined(P, Q, R) # <<>> /\ Head(Joined(P, Q, R)) = Head(P) /\ Head(P) \in Frame
    /\ Tail(Joined(P, Q, R)) = Joined(Tail(P), Q, R)
<1>. SUFFICES ASSUME NEW P \in Seq(Frame), NEW Q \in Seq(Frame), NEW R \in Seq(Frame), P # <<>>
              PROVE  /\ (P \o Q) \o R # <<>> /\ Head((P \o Q) \o R) = Head(P) /\ Head(P) \in Frame
                     /\ Tail((P \o Q) \o R) = (Tail(P) \o Q) \o R
  BY DEF Joined
<1>1. /\ P \o Q \in Seq(Frame) /\ P \o Q # <<>> /\ Head(P \o Q) = Head(P)
      /\ Tail(P \o Q) = Tail(P) \o Q
  BY ConcatProperties, ConcatTail
<1>2. Head(P) \in Frame
  BY HeadTailProperties
<1>. QED  BY <1>1, <1>2, ConcatTail

(* Moving the head of a queue to the end of the one before it.             *)
LEMMA JoinedTake ==
  \A P, R \in Seq(Frame) : R # <<>> =>
    Joined(P, <<Head(R)>>, Tail(R)) = Joined(P, <<>>, R)
<1>. SUFFICES ASSUME NEW P \in Seq(Frame), NEW R \in Seq(Frame), R # <<>>
              PROVE  (P \o <<Head(R)>>) \o Tail(R) = (P \o <<>>) \o R
  BY DEF Joined
<1>1. Head(R) \in Frame
  BY HeadTailProperties
<1>2. P \o <<>> = P /\ P \o <<Head(R)>> = Append(P, Head(R))
  BY <1>1, ConcatEmptySeq, AppendIsConcat
<1>. QED  BY <1>2, Shift

LEMMA JoinedWrite ==
  \A P, Q, R \in Seq(Frame) : Q # <<>> /\ Len(Q) <= 1 =>
    Joined(Append(P, Head(Q)), <<>>, R) = Joined(P, Q, R)
<1>. SUFFICES ASSUME NEW P \in Seq(Frame), NEW Q \in Seq(Frame), NEW R \in Seq(Frame),
                     Q # <<>>, Len(Q) <= 1
              PROVE  (Append(P, Head(Q)) \o <<>>) \o R = (P \o Q) \o R
  BY DEF Joined
<1>1. Tail(Q) \in Seq(Frame) /\ Len(Tail(Q)) = Len(Q) - 1 /\ Len(Q) \in Nat \ {0}
  BY HeadTailProperties, EmptySeq
<1>2. Tail(Q) = <<>>
  BY <1>1, EmptySeq
<1>3. Append(P, Head(Q)) \o Tail(Q) = P \o Q
  BY Shift
<1>. QED  BY <1>2, <1>3

(* The path from an end to the other end's reader: what its writer has     *)
(* written, holds and finds in its queue. A reset ends it for good.        *)
path == [e \in Ends |-> IF link THEN Joined(wire[e], hand[e], outq[e]) ELSE <<>>]

(* Nothing is written after a reset.                                       *)
LinkInv == ~link => \A e \in Ends : wire[e] = <<>>

LEMMA PathType ==
  ASSUME TypeOK
  PROVE  /\ path \in [Ends -> Seq(Frame)]
         /\ \A e \in Ends : /\ wire[e] \in Seq(Frame) /\ hand[e] \in Seq(Frame)
                            /\ outq[e] \in Seq(Frame) /\ inbound[e] \in Seq(Frame)
         /\ wire \in [Ends -> Seq(Frame)] /\ hand \in [Ends -> Seq(Frame)]
         /\ outq \in [Ends -> Seq(Frame)]
<1>1. \A e \in Ends : /\ wire[e] \in Seq(Frame) /\ hand[e] \in Seq(Frame)
                      /\ outq[e] \in Seq(Frame) /\ inbound[e] \in Seq(Frame)
  BY DEF TypeOK, Queues
<1>2. \A e \in Ends : Joined(wire[e], hand[e], outq[e]) \in Seq(Frame)
  BY <1>1, JoinedType
<1>3. <<>> \in Seq(Frame)
  BY EmptySeq
<1>4. path \in [Ends -> Seq(Frame)]
  BY <1>2, <1>3 DEF path
<1>5. /\ wire \in [Ends -> Seq(Frame)] /\ hand \in [Ends -> Seq(Frame)]
      /\ outq \in [Ends -> Seq(Frame)]
  BY DEF TypeOK, Queues
<1>. QED  BY <1>1, <1>4, <1>5

(* The frames Q has left of P, in the order they had: all of a beginning.  *)
Keeps(P, Q) == /\ On(Q) \subseteq On(P)
               /\ \A f, g : Before(Q, f, g) => Before(P, f, g)
Cuts(P, Q) == /\ Keeps(P, Q)
              /\ \A f, g : Before(P, f, g) /\ g \in On(Q) => Before(Q, f, g) \/ Before(P, g, g)

LEMMA CutsSame == \A P : Cuts(P, P)
BY DEF Cuts, Keeps

LEMMA CutsAll == \A P : Cuts(P, <<>>)
BY OnEmpty DEF Cuts, Keeps

LEMMA CutsFront ==
  ASSUME NEW S, NEW P \in Seq(S), NEW R \in Seq(S) PROVE Cuts(P \o R, P)
BY OnFront DEF Cuts, Keeps

LEMMA TailKeeps ==
  ASSUME NEW S, NEW P \in Seq(S), P # <<>> PROVE Keeps(P, Tail(P))
BY OnTail DEF Keeps

(* What is left when the two queues behind it are dropped.                 *)
LEMMA JoinedCut ==
  \A P, Q, R \in Seq(Frame) : Cuts(Joined(P, Q, R), Joined(P, <<>>, <<>>))
<1>. SUFFICES ASSUME NEW P \in Seq(Frame), NEW Q \in Seq(Frame), NEW R \in Seq(Frame)
              PROVE  Cuts(Joined(P, Q, R), Joined(P, <<>>, <<>>))
  OBVIOUS
<1>. DEFINE T == Q \o R
<1>1. T \in Seq(Frame) /\ Joined(P, Q, R) = P \o T /\ Joined(P, <<>>, <<>>) = P
  BY JoinedType
<1>. HIDE DEF T
<1>2. Cuts(P \o T, P)
  BY <1>1, CutsFront
<1>. QED  BY <1>1, <1>2

(* The writer moves frames along their path.                               *)
LEMMA PathStays ==
  ASSUME TypeOK, NEW e \in Ends, WriterTake(e) \/ WriterWrite(e)
  PROVE  path' = path
<1>0. link' = link
  BY DEF WriterTake, WriterWrite
<1>. SUFFICES \A d \in Ends :
       Joined(wire'[d], hand'[d], outq'[d]) = Joined(wire[d], hand[d], outq[d])
  BY <1>0 DEF path
<1>1. CASE WriterTake(e)
  <2>1. /\ hand[e] = <<>> /\ outq[e] # <<>> /\ UNCHANGED <<link, wire>>
        /\ hand' = [hand EXCEPT ![e] = <<Head(outq[e])>>]
        /\ outq' = [outq EXCEPT ![e] = Tail(@)]
    BY <1>1 DEF WriterTake
  <2>2. Joined(wire[e], <<Head(outq[e])>>, Tail(outq[e])) = Joined(wire[e], <<>>, outq[e])
    BY <2>1, PathType, JoinedTake
  <2>. QED  BY <2>1, <2>2, PathType
<1>2. CASE WriterWrite(e)
  <2>1. /\ hand[e] # <<>> /\ UNCHANGED <<link, outq>>
        /\ wire' = [wire EXCEPT ![e] = Append(@, Head(hand[e]))]
        /\ hand' = [hand EXCEPT ![e] = <<>>]
    BY <1>2 DEF WriterWrite
  <2>2. Len(hand[e]) <= 1
    BY DEF TypeOK, Queues
  <2>3. Joined(Append(wire[e], Head(hand[e])), <<>>, outq[e]) = Joined(wire[e], hand[e], outq[e])
    BY <2>1, <2>2, PathType, JoinedWrite
  <2>. QED  BY <2>1, <2>3, PathType
<1>. QED  BY <1>1, <1>2

(* A writer that ends leaves what is written; a reset leaves nothing.      *)
LEMMA PathCut ==
  ASSUME TypeOK, Reset \/ \E e \in Ends : WriterFail(e) \/ DropConn(e), NEW d \in Ends
  PROVE  /\ Cuts(path[d], path'[d])
         /\ path'[d] = path[d] \/ ~(link' /\ writer'[d])
<1>0. writer \in [Ends -> BOOLEAN]
  BY DEF TypeOK
<1>1. CASE Reset
  BY <1>1, CutsAll DEF Reset, path
<1>2. ASSUME NEW e \in Ends, WriterFail(e) \/ DropConn(e)
      PROVE  /\ Cuts(path[d], path'[d])
             /\ path'[d] = path[d] \/ ~(link' /\ writer'[d])
  <2>1. /\ UNCHANGED <<link, wire>> /\ writer' = [writer EXCEPT ![e] = FALSE]
        /\ hand' = [hand EXCEPT ![e] = <<>>] /\ outq' = [outq EXCEPT ![e] = <<>>]
    BY <1>2 DEF WriterFail, DropConn
  <2>2. CASE d # e \/ ~link
    <3>1. path'[d] = path[d]
      BY <2>1, <2>2, PathType DEF path
    <3>. QED  BY <3>1, CutsSame
  <2>3. CASE d = e /\ link
    <3>1. path'[d] = Joined(wire[d], <<>>, <<>>) /\ path[d] = Joined(wire[d], hand[d], outq[d])
      BY <2>1, <2>3, PathType DEF path
    <3>2. Cuts(path[d], path'[d])
      BY <3>1, PathType, JoinedCut
    <3>. QED  BY <1>0, <2>1, <2>3, <3>2
  <2>. QED  BY <2>2, <2>3
<1>. QED  BY <1>1, <1>2

(* A frame that is sent is the last on the path.                           *)
LEMMA PathPush ==
  ASSUME TypeOK, NEW e \in Ends, NEW f \in Frame, Enqueue(e, f), UNCHANGED <<link, wire, hand>>
  PROVE  path' = IF link THEN [path EXCEPT ![e] = Append(@, f)] ELSE path
<1>1. outq' = [outq EXCEPT ![e] = Append(@, f)]
  BY DEF Enqueue
<1>2. Joined(wire[e], hand[e], Append(outq[e], f)) = Append(Joined(wire[e], hand[e], outq[e]), f)
  BY PathType, JoinedAppend
<1>. QED  BY <1>1, <1>2, PathType DEF path

(* The frame that is read is the first on the path.                        *)
LEMMA PathPop ==
  ASSUME TypeOK, LinkInv, NEW e \in Ends, wire[e] # <<>>,
         wire' = [wire EXCEPT ![e] = Tail(@)], UNCHANGED <<link, hand, outq>>
  PROVE  /\ link /\ path[e] # <<>> /\ Head(path[e]) = Head(wire[e]) /\ Head(path[e]) \in Frame
         /\ path' = [path EXCEPT ![e] = Tail(@)]
<1>1. link
  BY DEF LinkInv
<1>2. LET P == Joined(wire[e], hand[e], outq[e]) IN
      /\ P # <<>> /\ Head(P) = Head(wire[e]) /\ Head(wire[e]) \in Frame
      /\ Tail(P) = Joined(Tail(wire[e]), hand[e], outq[e])
  BY PathType, JoinedTail
<1>3. path[e] = Joined(wire[e], hand[e], outq[e])
  BY <1>1 DEF path
<1>4. path' = [path EXCEPT ![e] = Joined(Tail(wire[e]), hand[e], outq[e])]
  BY <1>1, PathType DEF path
<1>. QED  BY <1>1, <1>2, <1>3, <1>4

(* At first nothing is on its way.                                         *)
LEMMA InitPath == Init => \A e \in Ends : path[e] = <<>>
<1>1. <<>> \in Seq(Frame)
  BY EmptySeq
<1>2. Joined(<<>>, <<>>, <<>>) = <<>>
  BY <1>1, JoinedType
<1>. QED  BY <1>2 DEF Init, path

(* An end's peer's peer is the end itself.                                 *)
LEMMA PeerPeer == \A e \in Ends : Peer(e) \in Ends /\ Peer(Peer(e)) = e /\ Peer(e) # e
BY ConnAssumption DEF Peer, Ends

(* Who sends what, and who takes the first frame off the path of d.        *)
Sends(d, f) ==
  \/ \E x \in Calls : CallSend(x) /\ Origin[x] = d /\ f = Request(x)
  \/ \E x \in Streams : StreamSend(x) /\ Origin[x] = d /\ f = Request(x)
  \/ Emit(d) /\ f = Event(d, emitted[d] + 1)
  \/ ServeReply(d) /\ f = Reply(serving[d])
Reads(d) == ReaderRoute(Peer(d)) \/ ReaderStale(Peer(d))

PathStep(d) ==
  \/ /\ Cuts(path[d], path'[d])
     /\ path'[d] = path[d] \/ ~(link' /\ writer'[d])
  \/ /\ Reads(d) /\ link /\ path[d] # <<>> /\ Head(path[d]) = Head(wire[d])
     /\ path'[d] = Tail(path[d])
  \/ \E f \in Frame : Sends(d, f) /\ link /\ path'[d] = Append(path[d], f)

PathInv == TypeOK /\ LinkInv

LEMMA InitPathInv == Init => PathInv
BY InitType DEF Init, PathInv, LinkInv

(* What a reader does to the path.                                         *)
LEMMA ReadsPath ==
  ASSUME PathInv, NEW e \in Ends, ReaderRoute(e) \/ ReaderStale(e)
  PROVE  LET p == Peer(e) IN
         /\ link /\ p \in Ends /\ path[p] # <<>> /\ Head(path[p]) = Head(wire[p])
         /\ Head(path[p]) \in Frame
         /\ path' = [path EXCEPT ![p] = Tail(@)]
<1>. DEFINE p == Peer(e)
<1>1. p \in Ends
  BY PeerPeer
<1>2. wire[p] # <<>> /\ wire' = [wire EXCEPT ![p] = Tail(@)] /\ UNCHANGED <<link, hand, outq>>
  BY DEF ReaderRoute, ReaderStale
<1>. HIDE DEF p
<1>3. /\ link /\ path[p] # <<>> /\ Head(path[p]) = Head(wire[p]) /\ Head(path[p]) \in Frame
      /\ path' = [path EXCEPT ![p] = Tail(@)]
  BY <1>1, <1>2, PathPop DEF PathInv
<1>. QED  BY <1>1, <1>3 DEF p

(* The frames that are sent are frames.                                    *)
LEMMA SendsType ==
  ASSUME TypeOK, NEW d \in Ends, NEW f, Sends(d, f)
  PROVE  f \in Frame /\ Enqueue(d, f) /\ UNCHANGED <<link, wire, hand>>
<1>1. CASE \E x \in Calls : CallSend(x) /\ Origin[x] = d /\ f = Request(x)
  BY <1>1, Frames DEF CallSend, Ids
<1>2. CASE \E x \in Streams : StreamSend(x) /\ Origin[x] = d /\ f = Request(x)
  BY <1>2, Frames DEF StreamSend, Ids
<1>3. CASE Emit(d) /\ f = Event(d, emitted[d] + 1)
  <2>1. emitted[d] + 1 \in Nat
    BY DEF TypeOK
  <2>. QED  BY <1>3, <2>1, Frames DEF Emit
<1>4. CASE ServeReply(d) /\ f = Reply(serving[d])
  <2>1. serving[d] \in ServingState
    BY DEF TypeOK
  <2>2. Reply(serving[d]) \in Frame
    BY <2>1 DEF Reply, Chunk, Response, Frame, ServingState
  <2>. QED  BY <1>4, <2>2 DEF ServeReply
<1>. QED  BY <1>1, <1>2, <1>3, <1>4 DEF Sends

(* Every step cuts a path, reads from it or sends on it.                   *)
LEMMA NextPath ==
  ASSUME PathInv, [Next]_vars, NEW d \in Ends
  PROVE  PathStep(d)
<1>. TypeOK
  BY DEF PathInv
<1>. path \in [Ends -> Seq(Frame)]
  BY PathType
<1>1. ASSUME path'[d] = path[d] PROVE PathStep(d)
  BY <1>1, CutsSame DEF PathStep
<1>2. CASE UNCHANGED <<link, wire, hand, outq>>
  BY <1>1, <1>2 DEF path
<1>3. ASSUME NEW e \in Ends, WriterStep(e) PROVE PathStep(d)
  BY <1>1, <1>3, PathStays, PathCut DEF WriterStep, PathStep
<1>4. CASE Reset \/ \E e \in Ends : DropConn(e)
  BY <1>4, PathCut DEF PathStep
<1>5. ASSUME NEW e \in Ends, ReaderRoute(e) \/ ReaderStale(e) PROVE PathStep(d)
  <2>1. CASE d = Peer(e)
    <3>1. Reads(d) /\ link /\ path[d] # <<>> /\ Head(path[d]) = Head(wire[d]) /\ path'[d] = Tail(path[d])
      BY <1>5, <2>1, ReadsPath, PeerPeer DEF Reads
    <3>. QED  BY <3>1 DEF PathStep
  <2>2. CASE d # Peer(e)
    BY <1>1, <1>5, <2>2, ReadsPath
  <2>. QED  BY <2>1, <2>2
<1>6. ASSUME NEW e \in Ends, NEW f, Sends(e, f) PROVE PathStep(d)
  <2>1. /\ f \in Frame /\ Enqueue(e, f) /\ UNCHANGED <<link, wire, hand>>
    BY <1>6, SendsType
  <2>2. path' = IF link THEN [path EXCEPT ![e] = Append(@, f)] ELSE path
    BY <2>1, PathPush
  <2>3. CASE link /\ d = e
    <3>1. path'[d] = Append(path[d], f)
      BY <2>2, <2>3
    <3>. QED  BY <1>6, <2>1, <2>3, <3>1 DEF PathStep
  <2>4. CASE ~(link /\ d = e)
    BY <1>1, <2>2, <2>4
  <2>. QED  BY <2>3, <2>4
<1>7. ASSUME NEW c \in Calls, CallSend(c) PROVE PathStep(d)
  BY <1>6, <1>7, OriginInEnds DEF Sends, Ids
<1>8. ASSUME NEW s \in Streams, StreamSend(s) PROVE PathStep(d)
  BY <1>6, <1>8, OriginInEnds DEF Sends, Ids
<1>9. ASSUME NEW e \in Ends, Emit(e) \/ ServeReply(e) PROVE PathStep(d)
  BY <1>6, <1>9 DEF Sends
<1>10. ASSUME NEW e \in Ends, ReaderEof(e) \/ ServeRecv(e) \/ ServeReplyLost(e) \/ ServeEnd(e)
              \/ HandlerDone(e) \/ KeyExpires(e) \/ Subscribe(e)
       PROVE  UNCHANGED <<link, wire, hand, outq>>
  BY <1>10 DEF ReaderEof, ServeRecv, ServeReplyLost, ServeEnd, HandlerDone, KeyExpires, Subscribe
<1>11. ASSUME NEW c \in Calls, CallRegister(c) \/ CallClosed(c) \/ CallOk(c) \/ CallElapsed(c) \/ CallTimeout(c)
       PROVE  UNCHANGED <<link, wire, hand, outq>>
  BY <1>11 DEF CallRegister, CallClosed, CallOk, CallElapsed, CallTimeout
<1>12. ASSUME NEW s \in Streams,
              StreamRegister(s) \/ StreamClosed(s) \/ ConsumerStep(s) \/ StreamAbandon(s)
       PROVE  UNCHANGED <<link, wire, hand, outq>>
  BY <1>12 DEF StreamRegister, StreamClosed, ConsumerStep, ChunkRecv, StreamEnded, StreamAbandon
<1>13. CASE UNCHANGED vars
  BY <1>2, <1>13 DEF vars
<1>. QED
  BY <1>2, <1>3, <1>4, <1>5, <1>7, <1>8, <1>9, <1>10, <1>11, <1>12, <1>13, SubscribersAside
     DEF Next, ReaderStep, LoopStep, CallStep, StreamStep

LEMMA NextPathInv == PathInv /\ [Next]_vars => PathInv'
<1>. SUFFICES ASSUME PathInv, [Next]_vars PROVE LinkInv'
  BY NextType DEF PathInv
<1>1. CASE Reset
  BY <1>1 DEF Reset, LinkInv
<1>2. CASE UNCHANGED <<link, wire>>
  BY <1>2 DEF PathInv, LinkInv
<1>3. ASSUME NEW e \in Ends, ReaderRoute(e) \/ ReaderStale(e) PROVE LinkInv'
  <2>1. link' = link
    BY <1>3 DEF ReaderRoute, ReaderStale
  <2>. QED  BY <1>3, <2>1, ReadsPath DEF LinkInv
<1>4. ASSUME NEW e \in Ends, WriterStep(e) PROVE LinkInv'
  BY <1>4 DEF WriterStep, WriterTake, WriterWrite, WriterFail, PathInv, LinkInv
<1>5. ASSUME NEW e \in Ends, ReaderEof(e) \/ LoopStep(e) \/ HandlerDone(e) \/ DropConn(e)
             \/ KeyExpires(e) \/ Emit(e) \/ Subscribe(e)
      PROVE  UNCHANGED <<link, wire>>
  BY <1>5 DEF ReaderEof, LoopStep, ServeRecv, ServeReply, ServeReplyLost, ServeEnd, HandlerDone,
              DropConn, KeyExpires, Emit, Subscribe
<1>6. ASSUME NEW c \in Calls, CallRegister(c) \/ CallStep(c) PROVE UNCHANGED <<link, wire>>
  BY <1>6 DEF CallRegister, CallStep, CallSend, CallClosed, CallOk, CallElapsed, CallTimeout
<1>7. ASSUME NEW s \in Streams,
             StreamRegister(s) \/ StreamStep(s) \/ ConsumerStep(s) \/ StreamAbandon(s)
      PROVE  UNCHANGED <<link, wire>>
  BY <1>7 DEF StreamRegister, StreamStep, StreamSend, StreamClosed, ConsumerStep, ChunkRecv,
              StreamEnded, StreamAbandon
<1>. QED
  BY <1>1, <1>2, <1>3, <1>4, <1>5, <1>6, <1>7, SubscribersAside DEF Next, ReaderStep, vars

-----------------------------------------------------------------------------
(* Events: what the subscriber of a receiver has been told, in order. *)
told == [r \in Receivers |-> seen[r] \o evq[r]]

LEMMA ToldTyped == TypeOK => told \in [Receivers -> Seq(Nat)]
<1>. SUFFICES ASSUME TypeOK, NEW r \in Receivers PROVE seen[r] \o evq[r] \in Seq(Nat)
  BY DEF told
<1>1. seen[r] \in Seq(Nat) /\ evq[r] \in Seq(Nat)
  BY DEF TypeOK, Queues
<1>. QED  BY <1>1, ConcatProperties

(* A subscriber is told nothing new but the event that the reader of its   *)
(* end routes, and only by the last receiver of that end.                  *)
ToldStep(r) ==
  \/ Keeps(told[r], told'[r])
  \/ /\ ReaderRoute(r[1]) /\ r = LastReceiver(r[1]) /\ UNCHANGED sub
     /\ Head(wire[Peer(r[1])]).typ = "event"
     /\ told'[r] = Append(told[r], Head(wire[Peer(r[1])]).seq)

LEMMA NextTold ==
  ASSUME PathInv, [Next]_vars, NEW r \in Receivers
  PROVE  ToldStep(r)
<1>. /\ seen \in [Receivers -> Seq(Nat)] /\ evq \in [Receivers -> Seq(Nat)]
     /\ seen[r] \in Seq(Nat) /\ evq[r] \in Seq(Nat)
  BY DEF PathInv, TypeOK, Queues
<1>1. ASSUME told'[r] = told[r] PROVE ToldStep(r)
  BY <1>1, CutsSame DEF Cuts, ToldStep
<1>2. CASE UNCHANGED <<seen, evq>>
  BY <1>1, <1>2 DEF told
<1>3. ASSUME NEW q \in Receivers, EventRecv(q) PROVE ToldStep(r)
  <2>1. CASE q = r
    <3>1. evq[r] # <<>> /\ seen'[r] = Append(seen[r], Head(evq[r])) /\ evq'[r] = Tail(evq[r])
      BY <1>3, <2>1 DEF EventRecv
    <3>2. Append(seen[r], Head(evq[r])) \o Tail(evq[r]) = seen[r] \o evq[r]
      BY <3>1, Shift
    <3>3. told'[r] = told[r]
      BY <3>1, <3>2 DEF told
    <3>. QED  BY <1>1, <3>3
  <2>2. CASE q # r
    <3>1. told'[r] = told[r]
      BY <1>3, <2>2 DEF EventRecv, told
    <3>. QED  BY <1>1, <3>1
  <2>. QED  BY <2>1, <2>2
<1>4. ASSUME NEW q \in Receivers, SubscriberGone(q) PROVE ToldStep(r)
  <2>1. CASE q = r
    <3>1. told'[r] = seen[r] \o <<>>
      BY <1>4, <2>1 DEF SubscriberGone, told
    <3>2. told'[r] = seen[r] /\ told[r] = seen[r] \o evq[r]
      BY <3>1, ConcatEmptySeq DEF told
    <3>. QED  BY <3>2, CutsFront DEF Cuts, ToldStep
  <2>2. CASE q # r
    <3>1. told'[r] = told[r]
      BY <1>4, <2>2 DEF SubscriberGone, told
    <3>. QED  BY <1>1, <3>1
  <2>. QED  BY <2>1, <2>2
<1>5. ASSUME NEW d \in Ends, ReaderRoute(d) PROVE ToldStep(r)
  <2>. DEFINE f == Head(wire[Peer(d)])
  <2>1. f \in Frame /\ UNCHANGED <<seen, sub>>
    <3>1. Head(wire[Peer(d)]) \in Frame
      BY <1>5, ReadsPath
    <3>. QED  BY <1>5, <3>1 DEF ReaderRoute
  <2>2. f.seq \in Nat
    BY <2>1 DEF Frame
  <2>3. \/ UNCHANGED evq
        \/ f.typ = "event" /\ evq' = [evq EXCEPT ![LastReceiver(d)] = Append(@, f.seq)]
    BY <1>5 DEF ReaderRoute, Route, RouteResponse, RouteChunk, RouteEvent, RouteRequest
  <2>. HIDE DEF f
  <2>4. CASE evq'[r] = evq[r]
    <3>1. told'[r] = told[r]
      BY <2>1, <2>4 DEF told
    <3>. QED  BY <1>1, <3>1
  <2>5. CASE r = LastReceiver(d) /\ f.typ = "event" /\ evq'[r] = Append(evq[r], f.seq)
    <3>1. seen[r] \o Append(evq[r], f.seq) = Append(seen[r] \o evq[r], f.seq)
      BY <2>2, ConcatAppend
    <3>2. told'[r] = Append(told[r], f.seq)
      BY <2>1, <2>5, <3>1 DEF told
    <3>3. r[1] = d
      BY <2>5 DEF LastReceiver
    <3>. QED  BY <1>5, <2>1, <2>5, <3>2, <3>3 DEF ToldStep, f
  <2>. QED  BY <2>3, <2>4, <2>5
<1>6. ASSUME NEW d \in Ends, WriterStep(d) \/ ReaderStale(d) \/ ReaderEof(d) \/ LoopStep(d)
             \/ HandlerDone(d) \/ DropConn(d) \/ KeyExpires(d) \/ Emit(d) \/ Subscribe(d)
      PROVE  UNCHANGED <<seen, evq>>
  BY <1>6 DEF WriterStep, WriterTake, WriterWrite, WriterFail, ReaderStale, ReaderEof, LoopStep,
              ServeRecv, ServeReply, ServeReplyLost, ServeEnd, HandlerDone, DropConn, KeyExpires,
              Emit, Subscribe
<1>7. ASSUME NEW c \in Calls, CallRegister(c) \/ CallStep(c) PROVE UNCHANGED <<seen, evq>>
  BY <1>7 DEF CallRegister, CallStep, CallSend, CallClosed, CallOk, CallElapsed, CallTimeout
<1>8. ASSUME NEW s \in Streams,
             StreamRegister(s) \/ StreamStep(s) \/ ConsumerStep(s) \/ StreamAbandon(s)
      PROVE  UNCHANGED <<seen, evq>>
  BY <1>8 DEF StreamRegister, StreamStep, StreamSend, StreamClosed, ConsumerStep, ChunkRecv,
              StreamEnded, StreamAbandon
<1>9. CASE Reset \/ UNCHANGED vars
  BY <1>2, <1>9 DEF Reset, vars
<1>. QED
  BY <1>2, <1>3, <1>4, <1>5, <1>6, <1>7, <1>8, <1>9 DEF Next, ReaderStep

(* Only subscribe counts a subscription.                                   *)
LEMMA NextSub ==
  ASSUME TypeOK, [Next]_vars, NEW e \in Ends
  PROVE  sub[e] \in Nat /\ sub'[e] \in Nat /\ sub[e] <= sub'[e]
<1>0. sub[e] \in Nat
  BY ConnAssumption DEF TypeOK
<1>1. CASE UNCHANGED sub
  BY <1>0, <1>1
<1>2. ASSUME NEW d \in Ends, Subscribe(d) PROVE sub'[e] \in Nat /\ sub[e] <= sub'[e]
  BY <1>0, <1>2 DEF Subscribe, TypeOK
<1>3. ASSUME NEW d \in Ends, WriterStep(d) \/ ReaderStep(d) \/ LoopStep(d)
             \/ HandlerDone(d) \/ DropConn(d) \/ KeyExpires(d) \/ Emit(d)
      PROVE  UNCHANGED sub
  BY <1>3 DEF WriterStep, WriterTake, WriterWrite, WriterFail, ReaderStep, ReaderRoute, ReaderStale,
              ReaderEof, LoopStep, ServeRecv, ServeReply, ServeReplyLost, ServeEnd, HandlerDone,
              DropConn, KeyExpires, Emit
<1>4. ASSUME NEW c \in Calls, CallRegister(c) \/ CallStep(c) PROVE UNCHANGED sub
  BY <1>4 DEF CallRegister, CallStep, CallSend, CallClosed, CallOk, CallElapsed, CallTimeout
<1>5. ASSUME NEW s \in Streams,
             StreamRegister(s) \/ StreamStep(s) \/ ConsumerStep(s) \/ StreamAbandon(s)
      PROVE  UNCHANGED sub
  BY <1>5 DEF StreamRegister, StreamStep, StreamSend, StreamClosed, ConsumerStep, ChunkRecv,
              StreamEnded, StreamAbandon
<1>. QED
  BY <1>0, <1>1, <1>2, <1>3, <1>4, <1>5, SubscribersAside DEF Next, Reset, vars

(* Only emit counts an event, and counts it once.                          *)
LEMMA NextEmitted ==
  ASSUME TypeOK, [Next]_vars, NEW e \in Ends
  PROVE  emitted[e] \in Nat /\ emitted'[e] \in Nat /\ emitted[e] <= emitted'[e]
<1>0. emitted[e] \in Nat
  BY DEF TypeOK
<1>1. CASE UNCHANGED emitted
  BY <1>0, <1>1
<1>2. ASSUME NEW d \in Ends, Emit(d) PROVE emitted'[e] \in Nat /\ emitted[e] <= emitted'[e]
  BY <1>0, <1>2 DEF Emit, TypeOK
<1>3. ASSUME NEW d \in Ends, WriterStep(d) \/ ReaderStep(d) \/ LoopStep(d)
             \/ HandlerDone(d) \/ DropConn(d) \/ KeyExpires(d) \/ Subscribe(d)
      PROVE  UNCHANGED emitted
  BY <1>3 DEF WriterStep, WriterTake, WriterWrite, WriterFail, ReaderStep, ReaderRoute, ReaderStale,
              ReaderEof, LoopStep, ServeRecv, ServeReply, ServeReplyLost, ServeEnd, HandlerDone,
              DropConn, KeyExpires, Subscribe
<1>4. ASSUME NEW c \in Calls, CallRegister(c) \/ CallStep(c) PROVE UNCHANGED emitted
  BY <1>4 DEF CallRegister, CallStep, CallSend, CallClosed, CallOk, CallElapsed, CallTimeout
<1>5. ASSUME NEW s \in Streams,
             StreamRegister(s) \/ StreamStep(s) \/ ConsumerStep(s) \/ StreamAbandon(s)
      PROVE  UNCHANGED emitted
  BY <1>5 DEF StreamRegister, StreamStep, StreamSend, StreamClosed, ConsumerStep, ChunkRecv,
              StreamEnded, StreamAbandon
<1>. QED
  BY <1>0, <1>1, <1>2, <1>3, <1>4, <1>5, SubscribersAside DEF Next, Reset, vars

(* Events leave in the order they were emitted and are told in that order: *)
(* what is on the path was emitted, and is newer than what any receiver of *)
(* the other end was told; a receiver not given out yet was told nothing,  *)
(* and what an earlier one was told is older than what a later one was.    *)
Emitted == \A e \in Ends : \A f \in On(path[e]) : f.typ = "event" =>
             /\ f.seq <= emitted[e]
             /\ \A r \in Receivers : r[1] = Peer(e) => \A n \in On(told[r]) : n < f.seq
PathInOrder == \A e \in Ends : \A f, g : Before(path[e], f, g) =>
                 (f.typ = "event" /\ g.typ = "event" => f.seq < g.seq)
ToldEmitted == \A r \in Receivers : \A n \in On(told[r]) : n <= emitted[Peer(r[1])]
ToldInOrder == \A r \in Receivers : \A m, n : Before(told[r], m, n) => m < n
ToldOnceMade == \A r \in Receivers : r[2] > sub[r[1]] => On(told[r]) = {}
ToldAcross == \A r, q \in Receivers : r[1] = q[1] /\ r[2] < q[2] =>
                \A m \in On(told[r]), n \in On(told[q]) : m < n
EventInv == /\ PathInv /\ Emitted /\ PathInOrder
            /\ ToldEmitted /\ ToldInOrder /\ ToldOnceMade /\ ToldAcross

LEMMA InitEventInv == Init => EventInv
<1>. SUFFICES ASSUME Init PROVE EventInv
  OBVIOUS
<1>1. /\ \A e \in Ends : path[e] = <<>>
      /\ \A r \in Receivers : told[r] = <<>>
  <2>1. <<>> \o <<>> = <<>>
    BY ConcatEmptySeq, EmptySeq
  <2>. QED  BY <2>1, InitPath DEF Init, told
<1>2. /\ \A e \in Ends : On(path[e]) = {} /\ \A f, g : ~Before(path[e], f, g)
      /\ \A r \in Receivers : On(told[r]) = {} /\ \A m, n : ~Before(told[r], m, n)
  BY <1>1, OnEmpty
<1>. QED
  BY <1>2, InitPathInv DEF EventInv, Emitted, PathInOrder, ToldEmitted, ToldInOrder,
                           ToldOnceMade, ToldAcross

(* A sent event is the newest of its end.                                  *)
LEMMA SentEvent ==
  ASSUME TypeOK, NEW e \in Ends, NEW f, Sends(e, f), f.typ = "event"
  PROVE  f.seq = emitted[e] + 1 /\ emitted'[e] = emitted[e] + 1
<1>1. Emit(e) /\ f = Event(e, emitted[e] + 1)
  BY DEF Sends, Request, Reply, Chunk, Response
<1>. QED  BY <1>1 DEF Emit, Event, TypeOK

LEMMA NextEventInv == EventInv /\ [Next]_vars => EventInv'
<1>. SUFFICES ASSUME EventInv, [Next]_vars PROVE EventInv'
  OBVIOUS
<1>. PathInv /\ TypeOK
  BY DEF EventInv, PathInv
<1>0. /\ path \in [Ends -> Seq(Frame)] /\ told \in [Receivers -> Seq(Nat)]
      /\ \A f \in Frame : f.seq \in Nat
  BY PathType, ToldTyped DEF Frame
<1>1. /\ \A e \in Ends : /\ emitted[e] \in Nat /\ emitted'[e] \in Nat /\ emitted[e] <= emitted'[e]
                         /\ sub[e] \in Nat /\ sub'[e] \in Nat /\ sub[e] <= sub'[e]
                         /\ PathStep(e)
      /\ \A r \in Receivers : ToldStep(r)
  BY NextEmitted, NextSub, NextPath, NextTold
<1>2. /\ \A e \in Ends : On(path[e]) \subseteq Frame
      /\ \A r \in Receivers : On(told[r]) \subseteq Nat
  BY <1>0, ElementOfSeq DEF On
(* What a path has after the step. *)
<1>3. ASSUME NEW e \in Ends,
             Keeps(path[e], path'[e]) \/ (path[e] # <<>> /\ path'[e] = Tail(path[e]))
      PROVE  Keeps(path[e], path'[e])
  BY <1>0, <1>3, TailKeeps
<1>4. ASSUME NEW e \in Ends
      PROVE  \/ Keeps(path[e], path'[e])
             \/ \E f \in Frame : Sends(e, f) /\ path'[e] = Append(path[e], f)
  BY <1>1, <1>3 DEF PathStep, Cuts
(* An event that is told is the first on its path, its receiver the last   *)
(* of its end.                                                             *)
<1>5. ASSUME NEW r \in Receivers, ~Keeps(told[r], told'[r])
      PROVE  LET p == Peer(r[1])  f == Head(path[p]) IN
             /\ told'[r] = Append(told[r], f.seq) /\ f \in Frame /\ f.typ = "event"
             /\ p \in Ends /\ path[p] # <<>> /\ path'[p] = Tail(path[p])
             /\ r[2] = sub[r[1]] /\ sub'[r[1]] = sub[r[1]]
  <2>1. /\ ReaderRoute(r[1]) /\ Head(wire[Peer(r[1])]).typ = "event"
        /\ told'[r] = Append(told[r], Head(wire[Peer(r[1])]).seq)
        /\ r = LastReceiver(r[1]) /\ UNCHANGED sub
    BY <1>1, <1>5 DEF ToldStep
  <2>2. r[1] \in Ends /\ r[2] = sub[r[1]]
    BY <2>1, ReceiverParts DEF LastReceiver
  <2>. QED  BY <1>0, <2>1, <2>2, ReadsPath, PeerPeer
(* A told event was the newest told at its end.                            *)
<1>6. ASSUME NEW r \in Receivers, ~Keeps(told[r], told'[r])
      PROVE  LET h == Head(path[Peer(r[1])]) IN
             /\ h \in Frame /\ h.seq \in Nat
             /\ h.seq <= emitted[Peer(r[1])]
             /\ \A q \in Receivers : q[1] = r[1] => \A n \in On(told[q]) : n < h.seq
             /\ told'[r] = Append(told[r], h.seq)
             /\ On(told'[r]) = On(told[r]) \cup {h.seq}
             /\ \A m, n : Before(told'[r], m, n) =>
                            Before(told[r], m, n) \/ (m \in On(told[r]) /\ n = h.seq)
  <2>. DEFINE p == Peer(r[1])
              h == Head(path[p])
  <2>1. p \in Ends /\ Peer(p) = r[1]
    BY PeerPeer, ReceiverParts
  <2>2. told'[r] = Append(told[r], h.seq) /\ h \in Frame /\ h.typ = "event" /\ path[p] # <<>>
    BY <1>5, <1>6
  <2>. HIDE DEF p
  <2>3. h \in On(path[p])
    BY <1>0, <2>1, <2>2, OnTail
  <2>4. /\ h.seq <= emitted[p]
        /\ \A q \in Receivers : q[1] = r[1] => \A n \in On(told[q]) : n < h.seq
    BY <2>1, <2>2, <2>3 DEF EventInv, Emitted
  <2>5. h.seq \in Nat
    BY <1>0, <2>2
  <2>. HIDE DEF h
  <2>6. /\ On(told'[r]) = On(told[r]) \cup {h.seq}
        /\ \A m, n : Before(told'[r], m, n) =>
                       Before(told[r], m, n) \/ (m \in On(told[r]) /\ n = h.seq)
    BY <1>0, <2>2, <2>5, OnAppend
  <2>. QED  BY <2>2, <2>4, <2>5, <2>6 DEF p, h
<1>7. Emitted'
  <2>. SUFFICES ASSUME NEW e \in Ends, NEW f \in On(path'[e]), f.typ = "event"
                PROVE  /\ f.seq <= emitted'[e]
                       /\ \A r \in Receivers : r[1] = Peer(e) => \A n \in On(told'[r]) : n < f.seq
    BY DEF Emitted
  <2>1. f.seq \in Nat
    <3>1. On(path'[e]) \subseteq On(path[e]) \cup Frame
      <4>1. CASE Keeps(path[e], path'[e])
        BY <4>1 DEF Keeps
      <4>2. ASSUME NEW g \in Frame, path'[e] = Append(path[e], g)
            PROVE  On(path'[e]) \subseteq On(path[e]) \cup Frame
        BY <1>0, <4>2, OnAppend
      <4>. QED  BY <1>4, <4>1, <4>2
    <3>. QED  BY <1>0, <1>2, <3>1
  <2>2. f.seq <= emitted'[e]
    <3>1. CASE f \in On(path[e])
      BY <1>1, <2>1, <3>1 DEF EventInv, Emitted
    <3>2. CASE f \notin On(path[e])
      <4>1. PICK g \in Frame : Sends(e, g) /\ path'[e] = Append(path[e], g)
        BY <1>4, <3>2 DEF Keeps
      <4>2. f = g
        BY <1>0, <3>2, <4>1, OnAppend
      <4>. QED  BY <1>1, <4>1, <4>2, SentEvent
    <3>. QED  BY <3>1, <3>2
  <2>3. ASSUME NEW r \in Receivers, r[1] = Peer(e), NEW n \in On(told'[r]) PROVE n < f.seq
    <3>0. Peer(r[1]) = e
      BY <2>3, PeerPeer
    <3>1. CASE Keeps(told[r], told'[r])
      <4>1. n \in On(told[r]) /\ n \in Nat
        BY <1>2, <2>3, <3>1 DEF Keeps
      <4>2. CASE f \in On(path[e])
        BY <2>3, <4>1, <4>2 DEF EventInv, Emitted
      <4>3. CASE f \notin On(path[e])
        <5>1. PICK g \in Frame : Sends(e, g) /\ path'[e] = Append(path[e], g)
          BY <1>4, <4>3 DEF Keeps
        <5>2. f = g
          BY <1>0, <4>3, <5>1, OnAppend
        <5>3. f.seq = emitted[e] + 1
          BY <5>1, <5>2, SentEvent
        <5>4. n <= emitted[e]
          BY <3>0, <4>1 DEF EventInv, ToldEmitted
        <5>. QED  BY <1>1, <4>1, <5>3, <5>4
      <4>. QED  BY <4>2, <4>3
    <3>2. CASE ~Keeps(told[r], told'[r])
      <4>. DEFINE h == Head(path[e])
      <4>1. path[e] # <<>> /\ path'[e] = Tail(path[e]) /\ h.typ = "event"
        BY <1>5, <3>0, <3>2
      <4>2. Before(path[e], h, f) /\ f \in On(path[e])
        BY <1>0, <4>1, OnTail
      <4>3. h.seq < f.seq
        BY <4>1, <4>2 DEF EventInv, PathInOrder
      <4>4. h.seq \in Nat /\ On(told'[r]) = On(told[r]) \cup {h.seq}
        BY <1>6, <3>0, <3>2
      <4>. HIDE DEF h
      <4>5. CASE n \in On(told[r])
        BY <2>3, <4>2, <4>5 DEF EventInv, Emitted
      <4>. QED  BY <2>3, <4>3, <4>4, <4>5
    <3>. QED  BY <3>1, <3>2
  <2>. QED  BY <2>2, <2>3
<1>8. PathInOrder'
  <2>. SUFFICES ASSUME NEW e \in Ends, NEW f, NEW g, Before(path'[e], f, g),
                       f.typ = "event", g.typ = "event"
                PROVE  f.seq < g.seq
    BY DEF PathInOrder
  <2>1. CASE Before(path[e], f, g)
    BY <2>1 DEF EventInv, PathInOrder
  <2>2. CASE ~Before(path[e], f, g)
    <3>1. PICK x \in Frame : Sends(e, x) /\ path'[e] = Append(path[e], x)
      BY <1>4, <2>2 DEF Keeps
    <3>2. f \in On(path[e]) /\ g = x
      BY <1>0, <2>2, <3>1, OnAppend
    <3>3. g.seq = emitted[e] + 1
      BY <3>1, <3>2, SentEvent
    <3>4. f.seq <= emitted[e] /\ f.seq \in Nat
      BY <1>0, <1>2, <3>2 DEF EventInv, Emitted
    <3>. QED  BY <1>1, <3>3, <3>4
  <2>. QED  BY <2>1, <2>2
<1>9. ToldEmitted'
  <2>. SUFFICES ASSUME NEW r \in Receivers, NEW n \in On(told'[r])
                PROVE  n <= emitted'[Peer(r[1])]
    BY DEF ToldEmitted
  <2>. DEFINE p == Peer(r[1])
  <2>1. p \in Ends
    BY PeerPeer, ReceiverParts
  <2>2. emitted[p] \in Nat /\ emitted'[p] \in Nat /\ emitted[p] <= emitted'[p]
    BY <1>1, <2>1
  <2>3. CASE n \in On(told[r])
    <3>1. n <= emitted[p] /\ n \in Nat
      BY <1>2, <2>3 DEF EventInv, ToldEmitted
    <3>. QED  BY <2>2, <3>1
  <2>4. CASE n \notin On(told[r])
    <3>1. ~Keeps(told[r], told'[r])
      BY <2>4 DEF Keeps
    <3>2. n \in Nat /\ n <= emitted[p]
      BY <1>6, <2>4, <3>1
    <3>. QED  BY <2>2, <3>2
  <2>. QED  BY <2>3, <2>4
<1>10. ToldInOrder'
  <2>. SUFFICES ASSUME NEW r \in Receivers, NEW m, NEW n, Before(told'[r], m, n) PROVE m < n
    BY DEF ToldInOrder
  <2>1. CASE Before(told[r], m, n)
    BY <2>1 DEF EventInv, ToldInOrder
  <2>2. CASE ~Before(told[r], m, n)
    <3>1. ~Keeps(told[r], told'[r])
      BY <2>2 DEF Keeps
    <3>. QED  BY <1>6, <2>2, <3>1
  <2>. QED  BY <2>1, <2>2
<1>11. ToldOnceMade'
  <2>. SUFFICES ASSUME NEW r \in Receivers, r[2] > sub'[r[1]] PROVE On(told'[r]) = {}
    BY DEF ToldOnceMade
  <2>1. r[1] \in Ends /\ r[2] \in Nat
    BY ReceiverParts
  <2>2. r[2] > sub[r[1]]
    BY <1>1, <2>1
  <2>3. Keeps(told[r], told'[r])
    BY <1>1, <1>5, <2>1, <2>2
  <2>4. On(told[r]) = {}
    BY <2>2 DEF EventInv, ToldOnceMade
  <2>. QED  BY <2>3, <2>4 DEF Keeps
<1>12. ToldAcross'
  <2>. SUFFICES ASSUME NEW r \in Receivers, NEW q \in Receivers, r[1] = q[1], r[2] < q[2],
                       NEW m \in On(told'[r]), NEW n \in On(told'[q])
                PROVE  m < n
    BY DEF ToldAcross
  <2>0. r[1] \in Ends /\ r[2] \in Nat /\ q[2] \in Nat
    BY ReceiverParts
  <2>1. Keeps(told[r], told'[r])
    <3>1. SUFFICES ASSUME ~Keeps(told[r], told'[r]) PROVE FALSE
      OBVIOUS
    <3>2. r[2] = sub[r[1]] /\ sub'[r[1]] = sub[r[1]]
      BY <1>5, <3>1
    <3>3. q[2] > sub'[q[1]]
      BY <2>0, <3>2
    <3>. QED  BY <1>11, <3>3 DEF ToldOnceMade
  <2>2. m \in On(told[r])
    BY <2>1 DEF Keeps
  <2>3. CASE n \in On(told[q])
    BY <2>2, <2>3 DEF EventInv, ToldAcross
  <2>4. CASE n \notin On(told[q])
    <3>1. ~Keeps(told[q], told'[q])
      BY <2>4 DEF Keeps
    <3>. QED  BY <1>6, <2>2, <2>4, <3>1
  <2>. QED  BY <2>3, <2>4
<1>. QED  BY <1>7, <1>8, <1>9, <1>10, <1>11, <1>12, NextPathInv DEF EventInv

(* Whatever a full queue drops, and however often a topic is subscribed    *)
(* and given up, the subscribers of an end are told of events in the order *)
(* they were emitted, and of none twice: within one receiver and from the  *)
(* receiver of an earlier subscription to that of a later one.             *)
THEOREM EventsStayInOrder == Spec => []EventsInOrder
<1>1. EventInv => EventsInOrder
  <2>. SUFFICES ASSUME EventInv, NEW e \in Ends, NEW k \in 1..MaxSubs, NEW l \in 1..MaxSubs,
                       NEW i \in DOMAIN told[<<e, k>>], NEW j \in DOMAIN told[<<e, l>>],
                       k < l \/ (k = l /\ i < j)
                PROVE  told[<<e, k>>][i] < told[<<e, l>>][j]
    <3>1. \A d \in Ends, a \in 1..MaxSubs :
            <<d, a>> \in Receivers /\ told[<<d, a>>] = seen[<<d, a>>] \o evq[<<d, a>>]
      BY DEF Receivers, told
    <3>. QED  BY <3>1 DEF EventsInOrder
  <2>0. <<e, k>> \in Receivers /\ <<e, l>> \in Receivers
    BY DEF Receivers
  <2>1. /\ told[<<e, k>>] \in Seq(Nat) /\ told[<<e, l>>] \in Seq(Nat)
    BY <2>0, ToldTyped DEF EventInv, PathInv
  <2>2. /\ i \in 1..Len(told[<<e, k>>]) /\ j \in 1..Len(told[<<e, l>>])
    BY <2>1
  <2>3. CASE k < l
    <3>1. told[<<e, k>>][i] \in On(told[<<e, k>>]) /\ told[<<e, l>>][j] \in On(told[<<e, l>>])
      BY <2>2 DEF On
    <3>. QED  BY <2>0, <2>3, <3>1 DEF EventInv, ToldAcross
  <2>4. CASE k = l /\ i < j
    <3>1. Before(told[<<e, k>>], told[<<e, k>>][i], told[<<e, k>>][j])
      BY <2>2, <2>4 DEF Before
    <3>. QED  BY <2>0, <2>4, <3>1 DEF EventInv, ToldInOrder
  <2>. QED  BY <2>3, <2>4
<1>. QED  BY <1>1, InitEventInv, NextEventInv, PTL DEF Spec


-----------------------------------------------------------------------------
(* Requests: what is on the path to an end or in its inbound queue. Q is   *)
(* the queue at the receiver, P the path that leads to it.                 *)
Due(Q, P) == On(Q) \cup On(P)
Ahead(Q, P, f, g) == Before(Q, f, g) \/ Before(P, f, g) \/ (f \in On(Q) /\ g \in On(P))
Thins(Q, P, Q2, P2) == /\ Due(Q2, P2) \subseteq Due(Q, P)
                       /\ \A f, g : Ahead(Q2, P2, f, g) => Ahead(Q, P, f, g)

LEMMA KeptDue ==
  ASSUME NEW Q, NEW P, NEW Q2, NEW P2, Keeps(Q, Q2), Keeps(P, P2)
  PROVE  Thins(Q, P, Q2, P2)
BY DEF Keeps, Thins, Due, Ahead

(* A frame that is read goes from the front of the path to the end of the  *)
(* queue.                                                                  *)
LEMMA MovedDue ==
  ASSUME NEW S, NEW Q \in Seq(S), NEW P \in Seq(S), P # <<>>
  PROVE  Thins(Q, P, Append(Q, Head(P)), Tail(P))
<1>. DEFINE h == Head(P)
            T == Tail(P)
            R == Append(Q, h)
<1>1. h \in S
  BY HeadTailProperties
<1>2. /\ On(P) = {h} \cup On(T)
      /\ \A g \in On(T) : Before(P, h, g)
      /\ \A f, g : Before(T, f, g) => Before(P, f, g)
  BY OnTail
<1>. HIDE DEF h, T
<1>3. /\ On(R) = On(Q) \cup {h}
      /\ \A f, g : Before(R, f, g) => Before(Q, f, g) \/ (f \in On(Q) /\ g = h)
  BY <1>1, OnAppend
<1>. HIDE DEF R
<1>4. Thins(Q, P, R, T)
  BY <1>2, <1>3 DEF Thins, Due, Ahead
<1>. QED  BY <1>4 DEF R, h, T

(* A frame that is sent comes after all that are due.                      *)
LEMMA SentDue ==
  ASSUME NEW S, NEW P \in Seq(S), NEW x \in S, NEW Q, NEW Q2, Keeps(Q, Q2)
  PROVE  /\ Due(Q2, Append(P, x)) \subseteq Due(Q, P) \cup {x}
         /\ \A f, g : Ahead(Q2, Append(P, x), f, g) =>
                        Ahead(Q, P, f, g) \/ (f \in Due(Q, P) /\ g = x)
<1>. DEFINE R == Append(P, x)
<1>1. /\ On(R) = On(P) \cup {x}
      /\ \A f, g : Before(R, f, g) => Before(P, f, g) \/ (f \in On(P) /\ g = x)
  BY OnAppend
<1>. HIDE DEF R
<1>2. /\ Due(Q2, R) \subseteq Due(Q, P) \cup {x}
      /\ \A f, g : Ahead(Q2, R, f, g) => Ahead(Q, P, f, g) \/ (f \in Due(Q, P) /\ g = x)
  BY <1>1 DEF Keeps, Due, Ahead
<1>. QED  BY <1>2 DEF R

(* The frame that is taken comes before all that are left.                 *)
LEMMA TakenDue ==
  ASSUME NEW S, NEW Q \in Seq(S), Q # <<>>, NEW P
  PROVE  /\ Head(Q) \in Due(Q, P)
         /\ \A g \in Due(Tail(Q), P) : Ahead(Q, P, Head(Q), g)
BY OnTail DEF Due, Ahead

(* The inbound queue of an end: only its reader adds to it, and only the   *)
(* frame it has just read.                                                 *)
InboundStep(e) ==
  \/ Keeps(inbound[e], inbound'[e])
  \/ ReaderRoute(e) /\ inbound'[e] = Append(inbound[e], Head(wire[Peer(e)]))

LEMMA NextInbound ==
  ASSUME PathInv, [Next]_vars, NEW e \in Ends
  PROVE  InboundStep(e)
<1>. /\ inbound \in [Ends -> Seq(Frame)] /\ inbound[e] \in Seq(Frame)
  BY DEF PathInv, TypeOK, Queues
<1>1. ASSUME inbound'[e] = inbound[e] PROVE InboundStep(e)
  BY <1>1, CutsSame DEF Cuts, InboundStep
<1>2. ASSUME NEW d \in Ends, ServeRecv(d) PROVE InboundStep(e)
  <2>1. inbound[d] # <<>> /\ inbound' = [inbound EXCEPT ![d] = Tail(@)]
    BY <1>2 DEF ServeRecv
  <2>2. CASE d = e
    BY <2>1, <2>2, TailKeeps DEF InboundStep
  <2>. QED  BY <1>1, <2>1, <2>2
<1>3. ASSUME NEW d \in Ends, DropConn(d) PROVE InboundStep(e)
  <2>1. inbound' = [inbound EXCEPT ![d] = <<>>]
    BY <1>3 DEF DropConn
  <2>. QED  BY <1>1, <2>1, CutsAll DEF Cuts, InboundStep
<1>4. ASSUME NEW d \in Ends, ReaderRoute(d) PROVE InboundStep(e)
  <2>1. inbound' = inbound \/ inbound' = [inbound EXCEPT ![d] = Append(@, Head(wire[Peer(d)]))]
    BY <1>4 DEF ReaderRoute, Route, RouteResponse, RouteChunk, RouteEvent, RouteRequest, PushInbound
  <2>. QED  BY <1>1, <1>4, <2>1 DEF InboundStep
<1>5. ASSUME NEW d \in Ends, WriterStep(d) \/ ReaderStale(d) \/ ReaderEof(d) \/ ServeReply(d)
             \/ ServeReplyLost(d) \/ ServeEnd(d) \/ HandlerDone(d) \/ KeyExpires(d) \/ Emit(d)
             \/ Subscribe(d)
      PROVE  UNCHANGED inbound
  BY <1>5 DEF WriterStep, WriterTake, WriterWrite, WriterFail, ReaderStale, ReaderEof, ServeReply,
              ServeReplyLost, ServeEnd, HandlerDone, KeyExpires, Emit, Subscribe
<1>6. ASSUME NEW c \in Calls, CallRegister(c) \/ CallStep(c) PROVE UNCHANGED inbound
  BY <1>6 DEF CallRegister, CallStep, CallSend, CallClosed, CallOk, CallElapsed, CallTimeout
<1>7. ASSUME NEW s \in Streams,
             StreamRegister(s) \/ StreamStep(s) \/ ConsumerStep(s) \/ StreamAbandon(s)
      PROVE  UNCHANGED inbound
  BY <1>7 DEF StreamRegister, StreamStep, StreamSend, StreamClosed, ConsumerStep, ChunkRecv,
              StreamEnded, StreamAbandon
<1>8. CASE Reset \/ UNCHANGED vars
  BY <1>1, <1>8 DEF Reset, vars
<1>. QED
  BY <1>1, <1>2, <1>3, <1>4, <1>5, <1>6, <1>7, <1>8, SubscribersAside DEF Next, ReaderStep, LoopStep

(* What is due from e changes by what e sends, and is thinned otherwise.   *)
DueStep(e) ==
  \/ Thins(inbound[Peer(e)], path[e], inbound'[Peer(e)], path'[e])
  \/ \E x \in Frame :
       /\ Sends(e, x)
       /\ Due(inbound'[Peer(e)], path'[e]) \subseteq Due(inbound[Peer(e)], path[e]) \cup {x}
       /\ \A f, g : Ahead(inbound'[Peer(e)], path'[e], f, g) =>
                      \/ Ahead(inbound[Peer(e)], path[e], f, g)
                      \/ f \in Due(inbound[Peer(e)], path[e]) /\ g = x

LEMMA NextDue ==
  ASSUME PathInv, [Next]_vars, NEW e \in Ends
  PROVE  DueStep(e)
<1>. DEFINE p == Peer(e)
<1>1. p \in Ends /\ Peer(p) = e
  BY PeerPeer
<1>2. InboundStep(p) /\ PathStep(e)
  BY <1>1, NextInbound, NextPath
<1>3. path[e] \in Seq(Frame) /\ inbound[p] \in Seq(Frame)
  BY <1>1, PathType DEF PathInv
<1>4. CASE ReaderRoute(p) /\ inbound'[p] = Append(inbound[p], Head(wire[Peer(p)]))
  <2>1. /\ path[e] # <<>> /\ Head(path[e]) = Head(wire[e]) /\ path' = [path EXCEPT ![e] = Tail(@)]
    BY <1>1, <1>4, ReadsPath
  <2>2. path'[e] = Tail(path[e])
    BY <1>3, <2>1, PathType DEF PathInv
  <2>. QED  BY <1>1, <1>3, <1>4, <2>1, <2>2, MovedDue DEF DueStep
<1>5. CASE Keeps(inbound[p], inbound'[p])
  <2>1. CASE Keeps(path[e], path'[e])
    BY <1>5, <2>1, KeptDue DEF DueStep
  <2>2. CASE \E x \in Frame : Sends(e, x) /\ path'[e] = Append(path[e], x)
    BY <1>3, <1>5, <2>2, SentDue DEF DueStep
  <2>3. CASE path[e] # <<>> /\ path'[e] = Tail(path[e])
    BY <1>3, <2>1, <2>3, TailKeeps
  <2>. QED  BY <1>2, <2>1, <2>2, <2>3 DEF PathStep, Cuts
<1>. QED  BY <1>1, <1>2, <1>4, <1>5 DEF InboundStep

-----------------------------------------------------------------------------
(* The requests that have left their caller.                               *)
sent == {c \in Calls : call[c] \in {"waiting", "elapsed", "ok", "timeout"}}
          \cup {s \in Streams : stream[s] \in {"open", "gone", "ended"}}

LEMMA NextSent ==
  ASSUME TypeOK, [Next]_vars
  PROVE  sent \subseteq sent'
<1>. /\ call \in [Calls -> {"idle", "sending", "waiting", "elapsed", "ok", "timeout", "closed"}]
     /\ stream \in [Streams -> {"idle", "sending", "open", "gone", "ended", "closed"}]
  BY DEF TypeOK
<1>1. CASE UNCHANGED <<call, stream>>
  BY <1>1 DEF sent
<1>2. ASSUME NEW c \in Calls, CallRegister(c) \/ CallStep(c) PROVE sent \subseteq sent'
  <2>1. /\ stream' = stream
        /\ \E st \in {"waiting", "elapsed", "ok", "timeout", "sending", "closed"} :
             /\ call' = [call EXCEPT ![c] = st]
             /\ st \in {"sending", "closed"} => call[c] \in {"idle", "sending"}
    BY <1>2 DEF CallRegister, CallStep, CallSend, CallClosed, CallOk, CallElapsed, CallTimeout, SetCall
  <2>. QED  BY <2>1 DEF sent
<1>3. ASSUME NEW s \in Streams,
             StreamRegister(s) \/ StreamStep(s) \/ ConsumerStep(s) \/ StreamAbandon(s)
      PROVE  sent \subseteq sent'
  <2>1. /\ call' = call
        /\ \/ stream' = stream
           \/ \E st \in {"open", "gone", "ended", "sending", "closed"} :
             /\ stream' = [stream EXCEPT ![s] = st]
             /\ st \in {"sending", "closed"} => stream[s] \in {"idle", "sending"}
    BY <1>3 DEF StreamRegister, StreamStep, StreamSend, StreamClosed, ConsumerStep, ChunkRecv,
                StreamEnded, StreamAbandon, SetStream
  <2>. QED  BY <2>1 DEF sent
<1>4. ASSUME NEW e \in Ends, WriterStep(e) \/ ReaderStep(e) \/ LoopStep(e) \/ HandlerDone(e)
             \/ DropConn(e) \/ KeyExpires(e) \/ Emit(e) \/ Subscribe(e)
      PROVE  UNCHANGED <<call, stream>>
  BY <1>4 DEF WriterStep, WriterTake, WriterWrite, WriterFail, ReaderStep, ReaderRoute, ReaderStale,
              ReaderEof, LoopStep, ServeRecv, ServeReply, ServeReplyLost, ServeEnd, HandlerDone,
              DropConn, KeyExpires, Emit, Subscribe
<1>. QED  BY <1>1, <1>2, <1>3, <1>4, SubscribersAside DEF Next, Reset, vars

(* A request is sent once, by its own end.                                 *)
LEMMA SentRequest ==
  ASSUME TypeOK, NEW e \in Ends, NEW f, Sends(e, f), f.typ = "request"
  PROVE  f.id \in Ids /\ Origin[f.id] = e /\ f.id \notin sent /\ f.id \in sent'
<1>. /\ call \in [Calls -> {"idle", "sending", "waiting", "elapsed", "ok", "timeout", "closed"}]
     /\ stream \in [Streams -> {"idle", "sending", "open", "gone", "ended", "closed"}]
     /\ \A c \in Calls : c \notin Streams
  BY ConnAssumption DEF TypeOK
<1>1. CASE \E x \in Calls : CallSend(x) /\ Origin[x] = e /\ f = Request(x)
  BY <1>1 DEF CallSend, SetCall, Request, sent, Ids
<1>2. CASE \E x \in Streams : StreamSend(x) /\ Origin[x] = e /\ f = Request(x)
  BY <1>2 DEF StreamSend, SetStream, Request, sent, Ids
<1>. QED  BY <1>1, <1>2 DEF Sends, Event, Reply, Chunk, Response

(* A handler is started for a request by the serving loop that takes it.   *)
Starts(e) == ServeRecv(e) /\ Head(inbound[e]).typ = "request"

LEMMA NextRuns ==
  ASSUME TypeOK, [Next]_vars
  PROVE  \/ runs' = runs
         \/ \E e \in Ends : /\ Starts(e)
                            /\ runs' = [runs EXCEPT ![Head(inbound[e]).id] = @ + 1]
<1>1. CASE UNCHANGED runs
  BY <1>1
<1>2. ASSUME NEW e \in Ends, ServeRecv(e), runs' # runs
      PROVE  Starts(e) /\ runs' = [runs EXCEPT ![Head(inbound[e]).id] = @ + 1]
  BY <1>2 DEF ServeRecv, Starts
<1>3. ASSUME NEW e \in Ends, WriterStep(e) \/ ReaderStep(e) \/ ServeReply(e) \/ ServeReplyLost(e)
             \/ ServeEnd(e) \/ HandlerDone(e) \/ DropConn(e) \/ KeyExpires(e) \/ Emit(e)
             \/ Subscribe(e)
      PROVE  UNCHANGED runs
  BY <1>3 DEF WriterStep, WriterTake, WriterWrite, WriterFail, ReaderStep, ReaderRoute, ReaderStale,
              ReaderEof, ServeReply, ServeReplyLost, ServeEnd, HandlerDone,
              DropConn, KeyExpires, Emit, Subscribe
<1>4. ASSUME NEW c \in Calls, CallRegister(c) \/ CallStep(c) PROVE UNCHANGED runs
  BY <1>4 DEF CallRegister, CallStep, CallSend, CallClosed, CallOk, CallElapsed, CallTimeout
<1>5. ASSUME NEW s \in Streams,
             StreamRegister(s) \/ StreamStep(s) \/ ConsumerStep(s) \/ StreamAbandon(s)
      PROVE  UNCHANGED runs
  BY <1>5 DEF StreamRegister, StreamStep, StreamSend, StreamClosed, ConsumerStep, ChunkRecv,
              StreamEnded, StreamAbandon
<1>. QED
  BY <1>1, <1>2, <1>3, <1>4, <1>5, SubscribersAside DEF Next, LoopStep, Reset, vars

(* A request that is due has left its caller and has not been started, and *)
(* no request is due twice.                                                *)
RequestsDue == \A e \in Ends : \A f \in Due(inbound[Peer(e)], path[e]) : f.typ = "request" =>
                 f.id \in sent /\ Origin[f.id] = e /\ runs[f.id] = 0
DueOnce == \A e \in Ends : \A f, g : Ahead(inbound[Peer(e)], path[e], f, g) =>
             (f.typ = "request" /\ g.typ = "request" => f.id # g.id)
RunOnce == \A x \in Ids : runs[x] = 0 \/ (runs[x] = 1 /\ x \in sent)

(* A serving loop at work has started the handler of a request of its peer *)
(* and is at one of the chunks it sends.                                   *)
Busy(e) == serving[e].at \in {"handler", "send"}
Started(x, e) == x \in Ids /\ Origin[x] = e /\ runs[x] = 1
AtWork == \A e \in Ends : Busy(e) => /\ Started(serving[e].id, Peer(e))
                                     /\ serving[e].seq \in 1..Chunks

(* What is sent in reply is for a request that was started.                *)
Replies == \A e \in Ends : \A f \in On(path[e]) : f.typ \in {"response", "chunk"} =>
             Started(f.id, Peer(e)) /\ (f.typ = "chunk" <=> f.id \in Streams)
Outcomes == /\ \A c \in answered : runs[c] = 1
            /\ \A c \in Calls : call[c] = "ok" => c \in answered

RequestInv == PathInv /\ RequestsDue /\ DueOnce /\ RunOnce /\ AtWork /\ Replies /\ Outcomes

LEMMA InitRequestInv == Init => RequestInv
<1>. SUFFICES ASSUME Init PROVE RequestInv
  OBVIOUS
<1>1. \A e \in Ends : path[e] = <<>> /\ inbound[e] = <<>>
  BY InitPath DEF Init
<1>2. \A e \in Ends : inbound[Peer(e)] = <<>>
  BY <1>1, PeerPeer
<1>3. RequestsDue /\ DueOnce /\ Replies
  BY <1>1, <1>2, OnEmpty DEF RequestsDue, DueOnce, Replies, Due, Ahead
<1>4. RunOnce /\ AtWork /\ Outcomes
  BY DEF Init, RunOnce, AtWork, Outcomes, Busy, Idle
<1>. QED  BY <1>3, <1>4, InitPathInv DEF RequestInv

(* The request that is taken is due once and has not been started.         *)
LEMMA StartedRequest ==
  ASSUME RequestInv, NEW e \in Ends, Starts(e)
  PROVE  LET h == Head(inbound[e])  p == Peer(e) IN
         /\ h \in Due(inbound[e], path[p])
         /\ h.id \in sent /\ h.id \in Ids /\ Origin[h.id] = p /\ runs[h.id] = 0
         /\ \A f \in Due(inbound'[e], path'[p]) : f.typ = "request" => f.id # h.id
<1>. DEFINE h == Head(inbound[e])
            p == Peer(e)
<1>. TypeOK
  BY DEF RequestInv, PathInv
<1>1. /\ p \in Ends /\ Peer(p) = e
      /\ inbound \in [Ends -> Seq(Frame)] /\ inbound[e] \in Seq(Frame)
  BY PeerPeer DEF TypeOK, Queues
<1>2. /\ inbound[e] # <<>> /\ inbound' = [inbound EXCEPT ![e] = Tail(@)] /\ h.typ = "request"
      /\ UNCHANGED <<link, wire, hand, outq>>
  BY DEF Starts, ServeRecv
<1>3. inbound'[e] = Tail(inbound[e]) /\ path' = path
  BY <1>1, <1>2 DEF path
<1>. HIDE DEF p
<1>4. /\ h \in Due(inbound[e], path[p])
      /\ \A g \in Due(inbound'[e], path'[p]) : Ahead(inbound[e], path[p], h, g)
  BY <1>1, <1>2, <1>3, TakenDue
<1>. HIDE DEF h
<1>5. h.id \in sent /\ Origin[h.id] = p /\ runs[h.id] = 0
  BY <1>1, <1>2, <1>4 DEF RequestInv, RequestsDue
<1>6. h.id \in Ids
  BY <1>5 DEF sent, Ids
<1>7. \A f \in Due(inbound'[e], path'[p]) : f.typ = "request" => f.id # h.id
  BY <1>1, <1>2, <1>4 DEF RequestInv, DueOnce
<1>. QED  BY <1>4, <1>5, <1>6, <1>7 DEF h, p

(* Once started, a request stays so.                                       *)
LEMMA StaysStarted ==
  ASSUME RequestInv, [Next]_vars
  PROVE  /\ RunOnce'
         /\ \A x, e : Started(x, e) => Started(x, e)'
<1>. TypeOK
  BY DEF RequestInv, PathInv
<1>. runs \in [Ids -> Nat] /\ sent \subseteq sent'
  BY NextSent DEF TypeOK
<1>1. CASE runs' = runs
  BY <1>1 DEF RequestInv, RunOnce, Started
<1>2. ASSUME NEW d \in Ends, NEW x \in Ids, x \in sent, runs[x] = 0,
             runs' = [runs EXCEPT ![x] = @ + 1]
      PROVE  RunOnce' /\ \A y, e : Started(y, e) => Started(y, e)'
  BY <1>2 DEF RequestInv, RunOnce, Started
<1>. QED  BY <1>1, <1>2, NextRuns, StartedRequest

(* Requests stay due until they are taken, and once.                       *)
LEMMA NextRequestsDue ==
  ASSUME RequestInv, [Next]_vars
  PROVE  RequestsDue' /\ DueOnce'
<1>. TypeOK /\ PathInv
  BY DEF RequestInv, PathInv
<1>0. sent \subseteq sent' /\ \A e \in Ends : DueStep(e)
  BY NextSent, NextDue
<1>1. DueOnce'
  <2>. SUFFICES ASSUME NEW e \in Ends, NEW f, NEW g, Ahead(inbound'[Peer(e)], path'[e], f, g),
                       f.typ = "request", g.typ = "request"
                PROVE  f.id # g.id
    BY DEF DueOnce
  <2>1. CASE Ahead(inbound[Peer(e)], path[e], f, g)
    BY <2>1 DEF RequestInv, DueOnce
  <2>2. CASE ~Ahead(inbound[Peer(e)], path[e], f, g)
    <3>1. Sends(e, g) /\ f \in Due(inbound[Peer(e)], path[e])
      BY <1>0, <2>2 DEF DueStep, Thins
    <3>2. g.id \notin sent
      BY <3>1, SentRequest
    <3>. QED  BY <3>1, <3>2 DEF RequestInv, RequestsDue
  <2>. QED  BY <2>1, <2>2
<1>2. RequestsDue'
  <2>. SUFFICES ASSUME NEW e \in Ends, NEW f \in Due(inbound'[Peer(e)], path'[e]),
                       f.typ = "request"
                PROVE  f.id \in sent' /\ Origin[f.id] = e /\ runs'[f.id] = 0
    BY DEF RequestsDue
  <2>1. f.id \in sent' /\ f.id \in Ids /\ Origin[f.id] = e /\ runs[f.id] = 0
    <3>1. CASE f \in Due(inbound[Peer(e)], path[e])
      BY <1>0, <3>1 DEF RequestInv, RequestsDue, sent, Ids
    <3>2. CASE f \notin Due(inbound[Peer(e)], path[e])
      <4>1. Sends(e, f)
        BY <1>0, <3>2 DEF DueStep, Thins
      <4>. QED  BY <4>1, SentRequest DEF RequestInv, RunOnce
    <3>. QED  BY <3>1, <3>2
  <2>2. ASSUME NEW d \in Ends, Starts(d) PROVE Head(inbound[d]).id # f.id
    <3>1. CASE d = Peer(e)
      <4>1. Peer(d) = e
        BY <3>1, PeerPeer
      <4>. QED  BY <2>2, <3>1, <4>1, StartedRequest
    <3>2. CASE d # Peer(e)
      <4>1. Peer(d) # e
        BY <3>2, PeerPeer
      <4>. QED  BY <2>1, <2>2, <4>1, StartedRequest
    <3>. QED  BY <3>1, <3>2
  <2>3. runs \in [Ids -> Nat]
    BY DEF TypeOK
  <2>. QED  BY <2>1, <2>2, <2>3, NextRuns
<1>. QED  BY <1>1, <1>2

(* What the loop of e works at: only its own steps change it.              *)
LEMMA NextServing ==
  ASSUME TypeOK, [Next]_vars, NEW e \in Ends
  PROVE  \/ serving'[e] = serving[e]
         \/ serving'[e].at \notin {"handler", "send"}
         \/ Starts(e) /\ serving'[e] = [at |-> "handler", id |-> Head(inbound[e]).id, seq |-> 1]
            /\ runs' = [runs EXCEPT ![Head(inbound[e]).id] = @ + 1]
         \/ HandlerDone(e) /\ serving'[e] = [serving[e] EXCEPT !.at = "send"]
         \/ /\ ServeReply(e) \/ ServeReplyLost(e)
            /\ ~LastReply(serving[e])
            /\ serving'[e] = [serving[e] EXCEPT !.seq = @ + 1]
<1>. serving \in [Ends -> ServingState]
  BY DEF TypeOK
<1>1. ASSUME NEW d \in Ends, d # e, LoopStep(d) \/ HandlerDone(d) PROVE serving'[e] = serving[e]
  BY <1>1 DEF LoopStep, ServeRecv, ServeReply, ServeReplyLost, ServeEnd, HandlerDone, SetServing
<1>2. CASE ServeRecv(e)
  <2>1. CASE Head(inbound[e]).typ = "request"
    BY <1>2, <2>1 DEF ServeRecv, SetServing, Starts
  <2>2. CASE Head(inbound[e]).typ # "request"
    BY <1>2, <2>2 DEF ServeRecv
  <2>. QED  BY <2>1, <2>2
<1>3. CASE ServeReply(e) \/ ServeReplyLost(e)
  <2>1. serving'[e] = AfterReply(serving[e])
    BY <1>3 DEF ServeReply, ServeReplyLost, SetServing
  <2>. QED  BY <1>3, <2>1 DEF AfterReply, Idle
<1>4. CASE HandlerDone(e)
  BY <1>4 DEF HandlerDone, SetServing
<1>5. CASE ServeEnd(e)
  <2>1. serving'[e] = [serving[e] EXCEPT !.at = "done"]
    BY <1>5 DEF ServeEnd, SetServing
  <2>2. serving'[e].at = "done"
    BY <2>1 DEF ServingState
  <2>. QED  BY <2>2
<1>6. ASSUME NEW d \in Ends, WriterStep(d) \/ ReaderStep(d) \/ DropConn(d) \/ KeyExpires(d)
             \/ Emit(d) \/ Subscribe(d)
      PROVE  UNCHANGED serving
  BY <1>6 DEF WriterStep, WriterTake, WriterWrite, WriterFail, ReaderStep, ReaderRoute, ReaderStale,
              ReaderEof, DropConn, KeyExpires, Emit, Subscribe
<1>7. ASSUME NEW c \in Calls, CallRegister(c) \/ CallStep(c) PROVE UNCHANGED serving
  BY <1>7 DEF CallRegister, CallStep, CallSend, CallClosed, CallOk, CallElapsed, CallTimeout
<1>8. ASSUME NEW s \in Streams,
             StreamRegister(s) \/ StreamStep(s) \/ ConsumerStep(s) \/ StreamAbandon(s)
      PROVE  UNCHANGED serving
  BY <1>8 DEF StreamRegister, StreamStep, StreamSend, StreamClosed, ConsumerStep, ChunkRecv,
              StreamEnded, StreamAbandon
<1>9. CASE Reset \/ UNCHANGED vars
  BY <1>9 DEF Reset, vars
<1>10. CASE \E d \in Ends : LoopStep(d) \/ HandlerDone(d)
  BY <1>1, <1>2, <1>3, <1>4, <1>5, <1>10 DEF LoopStep
<1>. QED
  BY <1>6, <1>7, <1>8, <1>9, <1>10, SubscribersAside DEF Next

LEMMA NextAtWork ==
  ASSUME RequestInv, [Next]_vars
  PROVE  AtWork'
<1>. SUFFICES ASSUME NEW e \in Ends, serving'[e].at \in {"handler", "send"},
                     NEW x, x = serving'[e].id
              PROVE  Started(x, Peer(e))' /\ serving'[e].seq \in 1..Chunks
  BY DEF AtWork, Busy, Started
<1>. TypeOK
  BY DEF RequestInv, PathInv
<1>. serving[e] \in ServingState /\ runs \in [Ids -> Nat] /\ Chunks \in Nat \ {0}
  BY ConnAssumption DEF TypeOK
<1>1. ASSUME Busy(e), x = serving[e].id PROVE Started(x, Peer(e))'
  BY <1>1, StaysStarted DEF RequestInv, AtWork
<1>2. CASE serving'[e] = serving[e]
  BY <1>1, <1>2 DEF RequestInv, AtWork, Busy
<1>3. CASE Starts(e) /\ serving'[e] = [at |-> "handler", id |-> Head(inbound[e]).id, seq |-> 1]
            /\ runs' = [runs EXCEPT ![Head(inbound[e]).id] = @ + 1]
  BY <1>3, StartedRequest DEF Started
<1>4. CASE HandlerDone(e) /\ serving'[e] = [serving[e] EXCEPT !.at = "send"]
  <2>1. Busy(e) /\ x = serving[e].id /\ serving'[e].seq = serving[e].seq
    BY <1>4 DEF HandlerDone, Busy, ServingState
  <2>. QED  BY <1>1, <2>1 DEF RequestInv, AtWork
<1>5. CASE /\ ServeReply(e) \/ ServeReplyLost(e)
           /\ ~LastReply(serving[e])
           /\ serving'[e] = [serving[e] EXCEPT !.seq = @ + 1]
  <2>1. Busy(e) /\ x = serving[e].id /\ serving'[e].seq = serving[e].seq + 1
    BY <1>5 DEF ServeReply, ServeReplyLost, Busy, ServingState
  <2>2. serving[e].seq \in 1..Chunks /\ serving[e].seq # Chunks
    BY <1>5, <2>1 DEF RequestInv, AtWork, LastReply
  <2>. QED  BY <1>1, <2>1, <2>2
<1>. QED  BY <1>2, <1>3, <1>4, <1>5, NextServing

(* A reply is for the request the serving loop works at.                   *)
LEMMA SentReply ==
  ASSUME RequestInv, NEW e \in Ends, NEW f, Sends(e, f), f.typ \in {"response", "chunk"}
  PROVE  /\ ServeReply(e) /\ Busy(e) /\ f = Reply(serving[e]) /\ f.id = serving[e].id
         /\ Started(f.id, Peer(e)) /\ (f.typ = "chunk" <=> f.id \in Streams)
<1>1. ServeReply(e) /\ f = Reply(serving[e])
  BY DEF Sends, Request, Event
<1>2. Busy(e)
  BY <1>1 DEF ServeReply, Busy
<1>3. f.id = serving[e].id /\ (f.typ = "chunk" <=> f.id \in Streams)
  BY <1>1 DEF Reply, Chunk, Response
<1>. QED  BY <1>1, <1>2, <1>3 DEF RequestInv, AtWork

LEMMA NextReplies ==
  ASSUME RequestInv, [Next]_vars
  PROVE  Replies'
<1>. SUFFICES ASSUME NEW e \in Ends, NEW f \in On(path'[e]), f.typ \in {"response", "chunk"}
              PROVE  Started(f.id, Peer(e))' /\ (f.typ = "chunk" <=> f.id \in Streams)
  BY DEF Replies
<1>. PathInv /\ TypeOK
  BY DEF RequestInv, PathInv
<1>. path[e] \in Seq(Frame)
  BY PathType
<1>1. CASE f \in On(path[e])
  BY <1>1, StaysStarted DEF RequestInv, Replies
<1>2. CASE f \notin On(path[e])
  <2>1. PICK x \in Frame : Sends(e, x) /\ path'[e] = Append(path[e], x)
    BY <1>2, NextPath, TailKeeps DEF PathStep, Cuts, Keeps
  <2>2. f = x
    BY <1>2, <2>1, OnAppend
  <2>. QED  BY <2>1, <2>2, SentReply, StaysStarted
<1>. QED  BY <1>1, <1>2

(* The oneshot of a call is only completed by its response.                *)
LEMMA NextAnswered ==
  ASSUME RequestInv, [Next]_vars
  PROVE  answered \subseteq answered' /\ \A c \in answered' : c \in answered \/ runs[c] = 1
<1>1. CASE answered' = answered
  BY <1>1
<1>2. ASSUME NEW e \in Ends, ReaderRoute(e), answered' # answered
      PROVE  answered \subseteq answered' /\ \A c \in answered' : c \in answered \/ runs[c] = 1
  <2>. DEFINE p == Peer(e)
              f == Head(wire[p])
  <2>1. f.typ = "response" /\ answered' = answered \cup ({f.id} \cap pending[e])
    BY <1>2 DEF ReaderRoute, Route, RouteResponse, RouteChunk, RouteEvent, RouteRequest
  <2>2. p \in Ends /\ path[p] \in Seq(Frame) /\ path[p] # <<>> /\ Head(path[p]) = f
    BY <1>2, ReadsPath, PathType DEF RequestInv, PathInv
  <2>. HIDE DEF p
  <2>3. f \in On(path[p])
    BY <2>2, OnTail
  <2>. HIDE DEF f
  <2>4. runs[f.id] = 1
    BY <2>1, <2>2, <2>3 DEF RequestInv, Replies, Started
  <2>. QED  BY <2>1, <2>4
<1>3. ASSUME NEW e \in Ends, WriterStep(e) \/ ReaderStale(e) \/ ReaderEof(e) \/ LoopStep(e)
             \/ HandlerDone(e) \/ DropConn(e) \/ KeyExpires(e) \/ Emit(e) \/ Subscribe(e)
      PROVE  UNCHANGED answered
  BY <1>3 DEF WriterStep, WriterTake, WriterWrite, WriterFail, ReaderStale, ReaderEof, LoopStep,
              ServeRecv, ServeReply, ServeReplyLost, ServeEnd, HandlerDone, DropConn, KeyExpires,
              Emit, Subscribe
<1>4. ASSUME NEW c \in Calls, CallRegister(c) \/ CallStep(c) PROVE UNCHANGED answered
  BY <1>4 DEF CallRegister, CallStep, CallSend, CallClosed, CallOk, CallElapsed, CallTimeout
<1>5. ASSUME NEW s \in Streams,
             StreamRegister(s) \/ StreamStep(s) \/ ConsumerStep(s) \/ StreamAbandon(s)
      PROVE  UNCHANGED answered
  BY <1>5 DEF StreamRegister, StreamStep, StreamSend, StreamClosed, ConsumerStep, ChunkRecv,
              StreamEnded, StreamAbandon
<1>. QED
  BY <1>1, <1>2, <1>3, <1>4, <1>5, SubscribersAside DEF Next, ReaderStep, Reset, vars

(* How the future of a call moves.                                         *)
Moves(c) ==
  /\ UNCHANGED runs
  /\ \E st : /\ call' = [call EXCEPT ![c] = st]
             /\ \/ call[c] = "idle" /\ st = "sending"
                \/ call[c] = "sending" /\ st \in {"waiting", "closed"}
                \/ call[c] = "waiting" /\ st = "ok" /\ c \in answered
                \/ call[c] = "waiting" /\ st = "elapsed"
                \/ call[c] = "elapsed" /\ st = "timeout"

LEMMA NextCall ==
  ASSUME [Next]_vars
  PROVE  call' = call \/ \E c \in Calls : Moves(c)
<1>1. CASE call' = call
  BY <1>1
<1>2. ASSUME NEW c \in Calls, CallRegister(c) \/ CallStep(c) PROVE Moves(c)
  BY <1>2 DEF CallRegister, CallStep, CallSend, CallClosed, CallOk, CallElapsed, CallTimeout,
              SetCall, Moves
<1>3. ASSUME NEW e \in Ends, WriterStep(e) \/ ReaderStep(e) \/ LoopStep(e)
             \/ HandlerDone(e) \/ DropConn(e) \/ KeyExpires(e) \/ Emit(e) \/ Subscribe(e)
      PROVE  UNCHANGED call
  BY <1>3 DEF WriterStep, WriterTake, WriterWrite, WriterFail, ReaderStep, ReaderRoute, ReaderStale,
              ReaderEof, LoopStep, ServeRecv, ServeReply, ServeReplyLost, ServeEnd, HandlerDone,
              DropConn, KeyExpires, Emit, Subscribe
<1>4. ASSUME NEW s \in Streams,
             StreamRegister(s) \/ StreamStep(s) \/ ConsumerStep(s) \/ StreamAbandon(s)
      PROVE  UNCHANGED call
  BY <1>4 DEF StreamRegister, StreamStep, StreamSend, StreamClosed, ConsumerStep, ChunkRecv,
              StreamEnded, StreamAbandon
<1>. QED
  BY <1>1, <1>2, <1>3, <1>4, SubscribersAside DEF Next, Reset, vars

LEMMA NextOutcomes ==
  ASSUME RequestInv, [Next]_vars
  PROVE  Outcomes'
<1>. TypeOK
  BY DEF RequestInv, PathInv
<1>. answered' \subseteq Calls /\ \A c \in Calls : c \in Ids
  BY NextType DEF TypeOK, Ids
<1>1. ASSUME NEW c \in answered' PROVE runs'[c] = 1
  <2>1. runs[c] = 1
    BY <1>1, NextAnswered DEF RequestInv, Outcomes
  <2>2. Started(c, Origin[c])
    BY <1>1, <2>1 DEF Started
  <2>. QED  BY <2>2, StaysStarted DEF Started
<1>2. ASSUME NEW c \in Calls, call'[c] = "ok" PROVE c \in answered'
  <2>1. c \in answered
    BY <1>2, NextCall DEF RequestInv, Outcomes, Moves, TypeOK
  <2>. QED  BY <2>1, NextAnswered
<1>. QED  BY <1>1, <1>2 DEF Outcomes

LEMMA NextRequestInv == RequestInv /\ [Next]_vars => RequestInv'
BY NextPathInv, NextRequestsDue, StaysStarted, NextAtWork, NextReplies, NextOutcomes DEF RequestInv

(* Each step of the channel is a step of Rpc or leaves the calls alone.    *)
LEMMA NextRpc ==
  ASSUME RequestInv, [Next]_vars
  PROVE  [RPC!Next]_<<rpcStatus, [c \in Calls |-> runs[c]]>>
<1>. DEFINE ran == [c \in Calls |-> runs[c]]
            Open(st) == IF st \in {"sending", "waiting", "elapsed"} THEN "open" ELSE st
<1>. TypeOK
  BY DEF RequestInv, PathInv
<1>0. /\ runs \in [Ids -> Nat] /\ Calls \subseteq Ids
      /\ call \in [Calls -> {"idle", "sending", "waiting", "elapsed", "ok", "timeout", "closed"}]
      /\ \A c \in Calls : rpcStatus[c] = Open(call[c]) /\ ran[c] = runs[c]
  BY DEF TypeOK, Ids, rpcStatus
<1>1. ASSUME NEW e \in Ends, Starts(e), NEW x, x = Head(inbound[e]).id,
             runs' = [runs EXCEPT ![x] = @ + 1]
      PROVE  RPC!Next \/ UNCHANGED <<rpcStatus, ran>>
  <2>1. x \in sent /\ x \in Ids /\ runs[x] = 0
    BY <1>1, StartedRequest
  <2>2. runs' = [runs EXCEPT ![x] = 1]
    BY <1>0, <1>1, <2>1
  <2>3. call' = call
    BY <1>1 DEF Starts, ServeRecv
  <2>4. rpcStatus' = rpcStatus
    BY <2>3 DEF rpcStatus
  <2>5. CASE x \in Calls
    <3>1. call[x] \in {"waiting", "elapsed", "timeout"}
      <4>1. call[x] # "ok"
        BY <2>1, <2>5 DEF RequestInv, Outcomes
      <4>2. x \notin Streams
        BY <2>5, ConnAssumption
      <4>. QED  BY <2>1, <4>1, <4>2 DEF sent
    <3>2. ran' = [ran EXCEPT ![x] = 1]
      BY <1>0, <2>2, <2>5
    <3>3. RPC!Run(x)
      BY <1>0, <2>1, <2>4, <2>5, <3>1, <3>2 DEF RPC!Run
    <3>. QED  BY <2>5, <3>3 DEF RPC!Next
  <2>6. CASE x \notin Calls
    <3>1. ran' = ran
      BY <1>0, <2>2, <2>6
    <3>. QED  BY <2>4, <3>1
  <2>. QED  BY <2>5, <2>6
<1>2. ASSUME NEW c \in Calls, Moves(c) PROVE RPC!Next \/ UNCHANGED <<rpcStatus, ran>>
  <2>1. ran' = ran
    BY <1>2 DEF Moves
  <2>2. PICK st : /\ call' = [call EXCEPT ![c] = st]
                  /\ \/ call[c] = "idle" /\ st = "sending"
                     \/ call[c] = "sending" /\ st \in {"waiting", "closed"}
                     \/ call[c] = "waiting" /\ st = "ok" /\ c \in answered
                     \/ call[c] = "waiting" /\ st = "elapsed"
                     \/ call[c] = "elapsed" /\ st = "timeout"
    BY <1>2 DEF Moves
  <2>3. rpcStatus' = [rpcStatus EXCEPT ![c] = Open(st)]
    BY <1>0, <2>2 DEF rpcStatus
  <2>4. CASE call[c] = "idle" /\ st = "sending"
    <3>1. RPC!Invoke(c)
      BY <1>0, <2>1, <2>3, <2>4 DEF RPC!Invoke
    <3>. QED  BY <3>1 DEF RPC!Next
  <2>5. CASE Open(call[c]) = Open(st)
    <3>1. rpcStatus' = rpcStatus
      BY <1>0, <2>3, <2>5 DEF rpcStatus
    <3>. QED  BY <2>1, <3>1
  <2>6. CASE call[c] = "sending" /\ st = "closed"
    <3>1. runs[c] = 0
      <4>1. c \notin sent
        BY <2>6, ConnAssumption DEF sent
      <4>. QED  BY <1>0, <4>1 DEF RequestInv, RunOnce
    <3>2. RPC!ReturnClosed(c)
      BY <1>0, <2>1, <2>3, <2>6, <3>1 DEF RPC!ReturnClosed, RPC!Return
    <3>. QED  BY <3>2 DEF RPC!Next
  <2>7. CASE call[c] = "waiting" /\ st = "ok" /\ c \in answered
    <3>1. runs[c] = 1
      BY <2>7 DEF RequestInv, Outcomes
    <3>2. RPC!ReturnOk(c)
      BY <1>0, <2>1, <2>3, <2>7, <3>1 DEF RPC!ReturnOk, RPC!Return
    <3>. QED  BY <3>2 DEF RPC!Next
  <2>8. CASE call[c] = "elapsed" /\ st = "timeout"
    <3>1. RPC!ReturnTimeout(c)
      BY <1>0, <2>1, <2>3, <2>8 DEF RPC!ReturnTimeout, RPC!Return
    <3>. QED  BY <3>1 DEF RPC!Next
  <2>. QED  BY <2>2, <2>4, <2>5, <2>6, <2>7, <2>8
<1>3. CASE runs' = runs /\ call' = call
  BY <1>3 DEF rpcStatus
<1>. QED  BY <1>1, <1>2, <1>3, NextRuns, NextCall

(* The calls of a channel implement Rpc, for any number of requests in     *)
(* both directions and whatever is lost with a connection: a handler is    *)
(* started at most once for a call, a caller that got an answer had it     *)
(* started, and one that was told Closed never will.                       *)
THEOREM CallsImplementRpc == Spec => AtMostOnceRpc
<1>1. Init => RPC!Init
  <2>1. Calls \subseteq Ids
    BY DEF Ids
  <2>. QED  BY <2>1 DEF Init, RPC!Init, rpcStatus
<1>. QED  BY <1>1, InitRequestInv, NextRequestInv, NextRpc, PTL DEF Spec, AtMostOnceRpc, RPC!Spec

-----------------------------------------------------------------------------
(* Chunks: what the receiver of a stream has been given.                   *)
took == [s \in Streams |-> got[s] \o chan[s]]

LEMMA TookTyped ==
  ASSUME TypeOK
  PROVE  /\ took \in [Streams -> Seq(Nat)]
         /\ \A s \in Streams : /\ took[s] = got[s] \o chan[s]
                               /\ got[s] \in Seq(Nat) /\ chan[s] \in Seq(Nat)
                               /\ Len(took[s]) \in Nat /\ Len(took[s]) = Len(got[s]) + Len(chan[s])
<1>1. \A s \in Streams : got[s] \in Seq(Nat) /\ chan[s] \in Seq(Nat)
  BY DEF TypeOK, Queues
<1>2. \A s \in Streams : /\ got[s] \o chan[s] \in Seq(Nat)
                         /\ Len(got[s] \o chan[s]) = Len(got[s]) + Len(chan[s])
  BY <1>1, ConcatProperties
<1>. QED  BY <1>1, <1>2, LenProperties DEF took

(* A chunk that is routed and leaves its stream open has been given to the *)
(* receiver and is not the last.                                           *)
Pushes(e, s) ==
  LET f == Head(wire[Peer(e)]) IN
  /\ ReaderRoute(e) /\ f.typ = "chunk" /\ f.id = s /\ s \in streams[e]
  /\ took'[s] = Append(took[s], f.seq)
  /\ s \in streams'[e] => f.seq # Chunks

LEMMA RouteTook ==
  ASSUME TypeOK, PathInv, NEW s \in Streams, NEW e \in Ends, ReaderRoute(e)
  PROVE  /\ took'[s] = took[s] \/ Pushes(e, s)
         /\ LET f == Head(wire[Peer(e)]) IN
            f.typ = "chunk" /\ f.id = s /\ s \in streams'[e] => Pushes(e, s)
         /\ \A d \in Ends : streams'[d] \subseteq streams[d]
<1>. DEFINE f == Head(wire[Peer(e)])
<1>. /\ streams \in [Ends -> SUBSET Streams] /\ chan \in [Streams -> Seq(Nat)]
     /\ got[s] \in Seq(Nat) /\ chan[s] \in Seq(Nat)
  BY DEF TypeOK, Queues
<1>0. UNCHANGED got
  BY DEF ReaderRoute
<1>1. f.seq \in Nat
  <2>1. f \in Frame
    BY ReadsPath
  <2>. QED  BY <2>1 DEF Frame
<1>2. \/ RouteChunk(e, f)
      \/ f.typ # "chunk" /\ UNCHANGED <<chan, streams>>
  BY DEF ReaderRoute, Route, RouteResponse, RouteEvent, RouteRequest
<1>3. CASE f.typ # "chunk" /\ UNCHANGED <<chan, streams>>
  BY <1>0, <1>3 DEF took
<1>4. CASE RouteChunk(e, f)
  <2>. DEFINE pushed == f.id \in streams[e] /\ Accepts(f.id)
  <2>1. /\ f.typ = "chunk"
        /\ chan' = IF pushed THEN [chan EXCEPT ![f.id] = Append(@, f.seq)] ELSE chan
        /\ streams' = IF f.id \in streams[e] /\ (~pushed \/ f.seq = Chunks)
                      THEN [streams EXCEPT ![e] = @ \ {f.id}] ELSE streams
    BY <1>4 DEF RouteChunk, StreamEnd
  <2>. HIDE DEF f
  <2>2. \A d \in Ends : streams'[d] \subseteq streams[d]
    BY <2>1
  <2>3. CASE pushed /\ f.id = s
    <3>1. chan'[s] = Append(chan[s], f.seq)
      BY <2>1, <2>3
    <3>2. got[s] \o Append(chan[s], f.seq) = Append(got[s] \o chan[s], f.seq)
      <4>1. \A P, Q \in Seq(Nat), n \in Nat : P \o Append(Q, n) = Append(P \o Q, n)
        BY ConcatAppend
      <4>. QED  BY <1>1, <4>1
    <3>3. took'[s] = Append(took[s], f.seq)
      BY <1>0, <3>1, <3>2 DEF took
    <3>4. s \in streams'[e] => f.seq # Chunks
      BY <2>1, <2>3
    <3>. QED  BY <2>1, <2>2, <2>3, <3>3, <3>4 DEF Pushes, f
  <2>4. CASE ~(pushed /\ f.id = s)
    <3>1. chan'[s] = chan[s]
      BY <2>1, <2>4
    <3>2. took'[s] = took[s]
      BY <1>0, <3>1 DEF took
    <3>3. f.id = s => s \notin streams'[e]
      BY <2>1, <2>4
    <3>. QED  BY <2>2, <3>2, <3>3 DEF f
  <2>. QED  BY <2>3, <2>4
<1>. QED  BY <1>2, <1>3, <1>4

(* Nobody but the reader gives a receiver anything, and only a new stream  *)
(* is registered.                                                          *)
ReceiverStep(s) ==
  \/ \E e \in Ends : ReaderRoute(e)
  \/ /\ took'[s] = took[s]
     /\ \A e \in Ends : s \in streams'[e] =>
          s \in streams[e] \/ (Origin[s] = e /\ s \notin sent /\ path' = path /\ serving' = serving)

LEMMA NextReceiver ==
  ASSUME TypeOK, [Next]_vars, NEW s \in Streams
  PROVE  ReceiverStep(s)
<1>. /\ streams \in [Ends -> SUBSET Streams] /\ chan \in [Streams -> Seq(Nat)]
     /\ got \in [Streams -> Seq(Nat)]
     /\ got[s] \in Seq(Nat) /\ chan[s] \in Seq(Nat)
  BY DEF TypeOK, Queues
<1>1. CASE UNCHANGED <<got, chan, streams>>
  BY <1>1 DEF took, ReceiverStep
<1>2. ASSUME NEW e \in Ends, WriterStep(e) \/ ReaderStale(e) \/ ReaderEof(e) \/ LoopStep(e)
             \/ HandlerDone(e) \/ KeyExpires(e) \/ Emit(e) \/ Subscribe(e)
      PROVE  UNCHANGED <<got, chan, streams>>
  BY <1>2 DEF WriterStep, WriterTake, WriterWrite, WriterFail, ReaderStale, ReaderEof, LoopStep,
              ServeRecv, ServeReply, ServeReplyLost, ServeEnd, HandlerDone, KeyExpires, Emit,
              Subscribe
<1>3. ASSUME NEW e \in Ends, DropConn(e) PROVE ReceiverStep(s)
  <2>1. UNCHANGED <<got, chan>> /\ streams' = [streams EXCEPT ![e] = {}]
    BY <1>3 DEF DropConn
  <2>. QED  BY <2>1 DEF took, ReceiverStep
<1>4. ASSUME NEW c \in Calls, CallRegister(c) \/ CallStep(c) PROVE UNCHANGED <<got, chan, streams>>
  BY <1>4 DEF CallRegister, CallStep, CallSend, CallClosed, CallOk, CallElapsed, CallTimeout
<1>5. ASSUME NEW r \in Streams, StreamStep(r) \/ StreamEnded(r) \/ StreamAbandon(r)
      PROVE  UNCHANGED <<got, chan, streams>>
  BY <1>5 DEF StreamStep, StreamSend, StreamClosed, StreamEnded, StreamAbandon
<1>6. ASSUME NEW r \in Streams, StreamRegister(r) PROVE ReceiverStep(s)
  <2>1. /\ UNCHANGED <<got, chan, link, ioVars, serving>> /\ stream[r] = "idle"
        /\ streams' = [streams EXCEPT ![Origin[r]] = @ \cup {r}]
    BY <1>6 DEF StreamRegister
  <2>2. r \notin sent
    BY <2>1, ConnAssumption DEF sent
  <2>3. took'[s] = took[s] /\ path' = path
    BY <2>1 DEF took, path
  <2>. QED  BY <2>1, <2>2, <2>3 DEF ReceiverStep
<1>7. ASSUME NEW r \in Streams, ChunkRecv(r) PROVE ReceiverStep(s)
  <2>1. /\ UNCHANGED streams /\ chan[r] # <<>>
        /\ got' = [got EXCEPT ![r] = Append(@, Head(chan[r]))]
        /\ chan' = [chan EXCEPT ![r] = Tail(@)]
    BY <1>7 DEF ChunkRecv
  <2>2. CASE r = s
    <3>1. Append(got[s], Head(chan[s])) \o Tail(chan[s]) = got[s] \o chan[s]
      BY <2>1, <2>2, Shift
    <3>. QED  BY <2>1, <2>2, <3>1 DEF took, ReceiverStep
  <2>. QED  BY <2>1, <2>2 DEF took, ReceiverStep
<1>8. CASE Reset \/ UNCHANGED vars
  BY <1>1, <1>8 DEF Reset, vars
<1>9. ASSUME NEW e \in Ends, ReaderRoute(e) PROVE ReceiverStep(s)
  BY <1>9 DEF ReceiverStep
<1>. QED
  BY <1>1, <1>2, <1>3, <1>4, <1>5, <1>6, <1>7, <1>8, <1>9, SubscribersAside
     DEF Next, ReaderStep, StreamStep, ConsumerStep

(* What has ended does not start again.                                    *)
LEMMA NextTasks ==
  ASSUME TypeOK, [Next]_vars, NEW e \in Ends
  PROVE  (link' => link) /\ (writer'[e] => writer[e]) /\ (reader'[e] => reader[e])
<1>. writer \in [Ends -> BOOLEAN] /\ reader \in [Ends -> BOOLEAN]
  BY DEF TypeOK
<1>1. CASE UNCHANGED <<link, writer, reader>>
  BY <1>1
<1>2. ASSUME NEW d \in Ends, WriterFail(d) \/ ReaderStale(d) \/ ReaderEof(d) \/ DropConn(d)
      PROVE  link' = link /\ (writer'[e] => writer[e]) /\ (reader'[e] => reader[e])
  BY <1>2 DEF WriterFail, ReaderStale, ReaderEof, StopReader, DropConn
<1>3. CASE Reset
  BY <1>3 DEF Reset
<1>4. ASSUME NEW d \in Ends, WriterTake(d) \/ WriterWrite(d) \/ ReaderRoute(d) \/ LoopStep(d)
             \/ HandlerDone(d) \/ KeyExpires(d) \/ Emit(d) \/ Subscribe(d)
      PROVE  UNCHANGED <<link, writer, reader>>
  BY <1>4 DEF WriterTake, WriterWrite, ReaderRoute, LoopStep, ServeRecv, ServeReply,
              ServeReplyLost, ServeEnd, HandlerDone, KeyExpires, Emit, Subscribe
<1>5. ASSUME NEW c \in Calls, CallRegister(c) \/ CallStep(c) PROVE UNCHANGED <<link, writer, reader>>
  BY <1>5 DEF CallRegister, CallStep, CallSend, CallClosed, CallOk, CallElapsed, CallTimeout
<1>6. ASSUME NEW s \in Streams,
             StreamRegister(s) \/ StreamStep(s) \/ ConsumerStep(s) \/ StreamAbandon(s)
      PROVE  UNCHANGED <<link, writer, reader>>
  BY <1>6 DEF StreamRegister, StreamStep, StreamSend, StreamClosed, ConsumerStep, ChunkRecv,
              StreamEnded, StreamAbandon
<1>. QED
  BY <1>1, <1>2, <1>3, <1>4, <1>5, <1>6, SubscribersAside DEF Next, WriterStep, ReaderStep, vars

(* On every path the chunks of a stream are in order; those of a registered *)
(* stream whose reader runs follow what its receiver has been given without *)
(* a gap, and what the handler sends next follows them.                    *)
Follows(P, k, f) == f.seq > k /\ (f.seq = k + 1 \/ Before(P, Chunk(f.id, f.seq - 1), f))
Continues(e, s, k) ==
  Busy(e) /\ serving[e].id = s /\ link /\ writer[e] =>
    /\ serving[e].seq > k
    /\ serving[e].seq = k + 1 \/ Chunk(s, serving[e].seq - 1) \in On(path[e])

ChunksInOrder == \A e \in Ends : \A f, g : Before(path[e], f, g) =>
                   (f.typ = "chunk" /\ g.typ = "chunk" /\ f.id = g.id => f.seq < g.seq)
ChunksSent == \A e \in Ends : Busy(e) =>
                \A f \in On(path[e]) : f.typ = "chunk" /\ f.id = serving[e].id => f.seq < serving[e].seq
TookStarted == \A s \in Streams : took[s] # <<>> => runs[s] = 1
TookPrefix == \A s \in Streams : \A i \in 1..Len(took[s]) : took[s][i] = i
OpenStreams == \A s \in Streams : s \in streams[Origin[s]] => Len(took[s]) < Chunks
NoGap == \A s \in Streams : LET e == Origin[s]  p == Peer(e) IN
           s \in streams[e] /\ reader[e] =>
             /\ \A f \in On(path[p]) : f.typ = "chunk" /\ f.id = s => Follows(path[p], Len(took[s]), f)
             /\ Continues(p, s, Len(took[s]))
ChunkInv == /\ RequestInv /\ ChunksInOrder /\ ChunksSent /\ TookStarted /\ TookPrefix
            /\ OpenStreams /\ NoGap

LEMMA InitChunkInv == Init => ChunkInv
<1>. SUFFICES ASSUME Init PROVE ChunkInv
  OBVIOUS
<1>1. \A e \in Ends : path[e] = <<>>
  BY InitPath
<1>2. \A s \in Streams : took[s] = <<>> /\ s \notin streams[Origin[s]]
  <2>1. <<>> \o <<>> = <<>>
    BY ConcatEmptySeq, EmptySeq
  <2>2. \A s \in Streams : Origin[s] \in Ends
    BY OriginInEnds DEF Ids
  <2>. QED  BY <2>1, <2>2 DEF Init, took
<1>3. ChunksInOrder /\ ChunksSent
  BY <1>1, OnEmpty DEF ChunksInOrder, ChunksSent
<1>4. TookStarted /\ TookPrefix /\ OpenStreams /\ NoGap
  BY <1>2, EmptySeq DEF TookStarted, TookPrefix, OpenStreams, NoGap
<1>. QED  BY <1>3, <1>4, InitRequestInv DEF ChunkInv

(* A sent chunk is the one the serving loop is at, and ends on the path.   *)
LEMMA SentChunk ==
  ASSUME RequestInv, NEW e \in Ends, ServeReply(e)
  PROVE  /\ Busy(e) /\ serving'[e] = AfterReply(serving[e]) /\ runs' = runs
         /\ Reply(serving[e]) \in Frame
         /\ link => path'[e] = Append(path[e], Reply(serving[e]))
         /\ \A s \in Streams : serving[e].id = s => Reply(serving[e]) = Chunk(s, serving[e].seq)
<1>. TypeOK
  BY DEF RequestInv, PathInv
<1>. serving \in [Ends -> ServingState] /\ path \in [Ends -> Seq(Frame)]
  BY PathType DEF TypeOK
<1>1. Busy(e) /\ serving'[e] = AfterReply(serving[e]) /\ runs' = runs
  BY DEF ServeReply, Busy, SetServing
<1>2. Sends(e, Reply(serving[e]))
  BY DEF Sends
<1>3. /\ Reply(serving[e]) \in Frame /\ Enqueue(e, Reply(serving[e]))
      /\ UNCHANGED <<link, wire, hand>>
  BY <1>2, SendsType
<1>4. link => path'[e] = Append(path[e], Reply(serving[e]))
  BY <1>3, PathPush
<1>. QED  BY <1>1, <1>3, <1>4 DEF Reply

(* The loop that goes on with a reply is at its next chunk.                *)
LEMMA NextReply ==
  ASSUME TypeOK, NEW e \in Ends, serving'[e] = AfterReply(serving[e]), Busy(e), Busy(e)'
  PROVE  /\ serving'[e].id = serving[e].id /\ serving'[e].seq = serving[e].seq + 1
<1>. serving[e] \in ServingState
  BY DEF TypeOK
<1>. QED  BY DEF AfterReply, Idle, Busy, ServingState

(* A frame that is new on a path is the one just sent.                     *)
LEMMA NewOnPath ==
  ASSUME PathInv, [Next]_vars, NEW e \in Ends
  PROVE  \/ Keeps(path[e], path'[e])
         \/ \E x \in Frame : /\ Sends(e, x) /\ path'[e] = Append(path[e], x)
                             /\ On(path'[e]) = On(path[e]) \cup {x}
                             /\ \A f, g : Before(path'[e], f, g) =>
                                  Before(path[e], f, g) \/ (f \in On(path[e]) /\ g = x)
<1>. path[e] \in Seq(Frame)
  BY PathType DEF PathInv
<1>1. CASE \E x \in Frame : Sends(e, x) /\ path'[e] = Append(path[e], x)
  BY <1>1, OnAppend
<1>2. CASE path[e] # <<>> /\ path'[e] = Tail(path[e])
  BY <1>2, TailKeeps
<1>. QED  BY <1>1, <1>2, NextPath DEF PathStep, Cuts

LEMMA NextChunksInOrder ==
  ASSUME ChunkInv, [Next]_vars
  PROVE  ChunksInOrder' /\ ChunksSent'
<1>. RequestInv /\ PathInv /\ TypeOK
  BY DEF ChunkInv, RequestInv, PathInv
<1>1. ChunksInOrder'
  <2>. SUFFICES ASSUME NEW e \in Ends, NEW f, NEW g, Before(path'[e], f, g),
                       f.typ = "chunk", g.typ = "chunk", f.id = g.id
                PROVE  f.seq < g.seq
    BY DEF ChunksInOrder
  <2>1. CASE Before(path[e], f, g)
    BY <2>1 DEF ChunkInv, ChunksInOrder
  <2>2. CASE ~Before(path[e], f, g)
    <3>1. Sends(e, g) /\ f \in On(path[e])
      BY <2>2, NewOnPath DEF Keeps
    <3>2. Busy(e) /\ g = Reply(serving[e]) /\ g.id = serving[e].id
      BY <3>1, SentReply
    <3>3. g.seq = serving[e].seq
      BY <3>2 DEF Reply, Chunk, Response
    <3>. QED  BY <3>1, <3>2, <3>3 DEF ChunkInv, ChunksSent
  <2>. QED  BY <2>1, <2>2
<1>2. ChunksSent'
  <2>. SUFFICES ASSUME NEW e \in Ends, serving'[e].at \in {"handler", "send"}, NEW f \in On(path'[e]),
                       f.typ = "chunk", f.id = serving'[e].id
                PROVE  f.seq < serving'[e].seq
    BY DEF ChunksSent, Busy
  <2>. serving[e] \in ServingState
    BY DEF TypeOK
  <2>1. CASE f \in On(path[e])
    <3>0. f \in Frame /\ f.seq \in Nat
      <4>1. path[e] \in Seq(Frame)
        BY PathType
      <4>2. f \in Frame
        BY <2>1, <4>1, ElementOfSeq DEF On
      <4>. QED  BY <4>2 DEF Frame
    <3>1. runs[f.id] = 1
      BY <2>1 DEF RequestInv, Replies, Started
    <3>2. ASSUME Busy(e), serving'[e].id = serving[e].id,
                 serving'[e].seq = serving[e].seq \/ serving'[e].seq = serving[e].seq + 1
          PROVE  f.seq < serving'[e].seq
      <4>1. f.seq < serving[e].seq /\ serving[e].seq \in Nat
        BY <2>1, <3>2 DEF ChunkInv, ChunksSent, ServingState
      <4>. QED  BY <3>0, <3>2, <4>1
    <3>3. CASE serving'[e] = serving[e]
      BY <3>2, <3>3 DEF Busy
    <3>4. CASE Starts(e) /\ serving'[e] = [at |-> "handler", id |-> Head(inbound[e]).id, seq |-> 1]
      BY <3>1, <3>4, StartedRequest
    <3>5. CASE HandlerDone(e) /\ serving'[e] = [serving[e] EXCEPT !.at = "send"]
      <4>1. Busy(e) /\ serving'[e].id = serving[e].id /\ serving'[e].seq = serving[e].seq
        BY <3>5 DEF HandlerDone, Busy, ServingState
      <4>. QED  BY <3>2, <4>1
    <3>6. CASE /\ ServeReply(e) \/ ServeReplyLost(e)
               /\ serving'[e] = [serving[e] EXCEPT !.seq = @ + 1]
      <4>1. Busy(e) /\ serving'[e].id = serving[e].id /\ serving'[e].seq = serving[e].seq + 1
        BY <3>6 DEF ServeReply, ServeReplyLost, Busy, ServingState
      <4>. QED  BY <3>2, <4>1
    <3>. QED  BY <3>3, <3>4, <3>5, <3>6, NextServing
  <2>2. CASE f \notin On(path[e])
    <3>1. Sends(e, f)
      BY <2>2, NewOnPath DEF Keeps
    <3>2. ServeReply(e) /\ Busy(e) /\ f = Reply(serving[e])
      BY <3>1, SentReply
    <3>3. f.seq = serving[e].seq
      BY <3>2 DEF Reply, Chunk, Response
    <3>4. serving'[e].seq = serving[e].seq + 1
      BY <3>2, SentChunk, NextReply DEF Busy
    <3>. QED  BY <3>3, <3>4 DEF ServingState
  <2>. QED  BY <2>1, <2>2
<1>. QED  BY <1>1, <1>2

(* The chunk that a receiver is given is the next one.                     *)
LEMMA PushedChunk ==
  ASSUME ChunkInv, NEW s \in Streams, NEW e \in Ends, Pushes(e, s)
  PROVE  LET p == Peer(e)  f == Head(path[p]) IN
         /\ e = Origin[s] /\ runs[s] = 1 /\ s \in streams[e] /\ reader[e]
         /\ f.typ = "chunk" /\ f.id = s /\ f.seq = Len(took[s]) + 1
         /\ took'[s] = Append(took[s], f.seq)
<1>. DEFINE p == Peer(e)
            f == Head(path[p])
<1>. RequestInv /\ PathInv /\ TypeOK
  BY DEF ChunkInv, RequestInv, PathInv
<1>1. /\ ReaderRoute(e) /\ reader[e] /\ s \in streams[e]
      /\ Head(wire[p]).typ = "chunk" /\ Head(wire[p]).id = s
      /\ took'[s] = Append(took[s], Head(wire[p]).seq)
  BY DEF Pushes, ReaderRoute
<1>2. /\ p \in Ends /\ Peer(p) = e /\ path[p] # <<>> /\ f = Head(wire[p]) /\ f \in Frame
      /\ path[p] \in Seq(Frame)
  BY <1>1, ReadsPath, PeerPeer, PathType
<1>3. f.typ = "chunk" /\ f.id = s /\ took'[s] = Append(took[s], f.seq)
  BY <1>1, <1>2
<1>. HIDE DEF p
<1>4. f \in On(path[p])
  BY <1>2, OnTail
<1>5. \A x : Before(path[p], x, f) => Before(path[p], f, f)
  BY <1>2, OnTail
<1>. HIDE DEF f
<1>6. Origin[s] = e /\ runs[s] = 1
  BY <1>2, <1>3, <1>4 DEF RequestInv, Replies, Started
<1>7. f.seq \in Nat
  BY <1>2 DEF Frame
<1>8. ~Before(path[p], f, f)
  BY <1>2, <1>3, <1>7 DEF ChunkInv, ChunksInOrder
<1>9. Follows(path[p], Len(took[s]), f)
  BY <1>1, <1>3, <1>4, <1>6 DEF ChunkInv, NoGap, p
<1>10. f.seq = Len(took[s]) + 1
  BY <1>5, <1>8, <1>9 DEF Follows
<1>. QED  BY <1>1, <1>3, <1>6, <1>10 DEF p, f

(* What a receiver has been given changes by the next chunk only.          *)
LEMMA NextTook ==
  ASSUME ChunkInv, [Next]_vars, NEW s \in Streams
  PROVE  \/ took'[s] = took[s]
         \/ Pushes(Origin[s], s) /\ took'[s] = Append(took[s], Len(took[s]) + 1) /\ runs[s] = 1
<1>. PathInv /\ TypeOK
  BY DEF ChunkInv, RequestInv, PathInv
<1>1. took'[s] = took[s] \/ \E e \in Ends : Pushes(e, s)
  BY RouteTook, NextReceiver DEF ReceiverStep
<1>2. ASSUME NEW e \in Ends, Pushes(e, s)
      PROVE  Pushes(Origin[s], s) /\ took'[s] = Append(took[s], Len(took[s]) + 1) /\ runs[s] = 1
  BY <1>2, PushedChunk
<1>. QED  BY <1>1, <1>2

LEMMA NextTookPrefix ==
  ASSUME ChunkInv, [Next]_vars
  PROVE  TookStarted' /\ TookPrefix'
<1>. RequestInv /\ TypeOK
  BY DEF ChunkInv, RequestInv, PathInv
<1>1. TookStarted'
  <2>. SUFFICES ASSUME NEW s \in Streams, took'[s] # <<>> PROVE runs'[s] = 1
    BY DEF TookStarted
  <2>1. runs[s] = 1
    BY NextTook DEF ChunkInv, TookStarted
  <2>2. Started(s, Origin[s])
    BY <2>1 DEF Started, Ids
  <2>. QED  BY <2>2, StaysStarted DEF Started
<1>2. TookPrefix'
  <2>. SUFFICES ASSUME NEW s \in Streams, NEW i \in 1..Len(took'[s]) PROVE took'[s][i] = i
    BY DEF TookPrefix
  <2>1. took[s] \in Seq(Nat) /\ Len(took[s]) \in Nat
    BY TookTyped
  <2>2. CASE took'[s] = took[s]
    BY <2>2 DEF ChunkInv, TookPrefix
  <2>3. CASE took'[s] = Append(took[s], Len(took[s]) + 1)
    <3>. DEFINE n == Len(took[s])
    <3>1. /\ Len(took'[s]) = n + 1 /\ took'[s][n + 1] = n + 1
          /\ \A j \in 1..n : took'[s][j] = took[s][j]
      BY <2>1, <2>3, AppendProperties
    <3>2. \A j \in 1..n : took[s][j] = j
      BY DEF ChunkInv, TookPrefix
    <3>3. i \in 1..n \/ i = n + 1
      BY <2>1, <3>1
    <3>. QED  BY <3>1, <3>2, <3>3
  <2>. QED  BY <2>2, <2>3, NextTook
<1>. QED  BY <1>1, <1>2

(* A stream that is registered now was registered before, or is new and    *)
(* has no handler.                                                         *)
LEMMA RegisteredBefore ==
  ASSUME ChunkInv, [Next]_vars, NEW s \in Streams, s \in streams'[Origin[s]], reader'[Origin[s]]
  PROVE  \/ s \in streams[Origin[s]] /\ reader[Origin[s]]
         \/ runs[s] = 0 /\ took[s] = <<>> /\ took'[s] = took[s] /\ path' = path /\ serving' = serving
<1>. RequestInv /\ PathInv /\ TypeOK /\ Origin[s] \in Ends /\ s \in Ids
  BY OriginInEnds DEF ChunkInv, RequestInv, PathInv, Ids
<1>1. reader[Origin[s]]
  BY NextTasks
<1>2. CASE \E e \in Ends : ReaderRoute(e)
  BY <1>1, <1>2, RouteTook
<1>3. CASE s \notin sent /\ path' = path /\ serving' = serving /\ took'[s] = took[s]
  <2>1. runs[s] = 0
    BY <1>3 DEF RequestInv, RunOnce
  <2>2. took[s] = <<>>
    BY <2>1 DEF ChunkInv, TookStarted
  <2>. QED  BY <1>3, <2>1, <2>2
<1>. QED  BY <1>1, <1>2, <1>3, NextReceiver DEF ReceiverStep

LEMMA NextOpenStreams ==
  ASSUME ChunkInv, [Next]_vars
  PROVE  OpenStreams'
<1>. TypeOK /\ PathInv
  BY DEF ChunkInv, RequestInv, PathInv
<1>. SUFFICES ASSUME NEW s \in Streams, s \in streams'[Origin[s]] PROVE Len(took'[s]) < Chunks
  BY DEF OpenStreams
<1>. Origin[s] \in Ends /\ s \in Ids /\ Chunks \in Nat \ {0}
  BY OriginInEnds, ConnAssumption DEF Ids
<1>1. took[s] \in Seq(Nat) /\ Len(took[s]) \in Nat
  BY TookTyped
<1>2. CASE took'[s] = took[s]
  <2>1. CASE s \in streams[Origin[s]]
    BY <1>2, <2>1 DEF ChunkInv, OpenStreams
  <2>2. CASE s \notin streams[Origin[s]]
    <3>1. s \notin sent
      BY <2>2, NextReceiver, RouteTook DEF ReceiverStep
    <3>2. took[s] = <<>>
      BY <3>1 DEF ChunkInv, RequestInv, RunOnce, TookStarted
    <3>. QED  BY <1>2, <3>2, EmptySeq
  <2>. QED  BY <2>1, <2>2
<1>3. CASE Pushes(Origin[s], s) /\ took'[s] = Append(took[s], Len(took[s]) + 1)
  <2>1. Len(took'[s]) = Len(took[s]) + 1
    BY <1>1, <1>3, AppendProperties
  <2>2. s \in streams[Origin[s]]
    BY <1>3 DEF Pushes
  <2>3. Len(took[s]) < Chunks
    BY <2>2 DEF ChunkInv, OpenStreams
  <2>4. Len(took[s]) + 1 # Chunks
    <3>1. /\ Head(wire[Peer(Origin[s])]).seq # Chunks /\ ReaderRoute(Origin[s])
      BY <1>3 DEF Pushes
    <3>2. Head(path[Peer(Origin[s])]) = Head(wire[Peer(Origin[s])])
      BY <3>1, ReadsPath
    <3>3. Head(path[Peer(Origin[s])]).seq = Len(took[s]) + 1
      BY <1>3, PushedChunk
    <3>. QED  BY <3>1, <3>2, <3>3
  <2>. QED  BY <1>1, <2>1, <2>3, <2>4
<1>. QED  BY <1>2, <1>3, NextTook

LEMMA OnSubset == ASSUME NEW S, NEW P \in Seq(S) PROVE On(P) \subseteq S
BY ElementOfSeq DEF On

(* A chunk still follows when the path in front of it is read, when the    *)
(* path behind it is cut, and when another frame is sent.                  *)
LEMMA FollowsTail ==
  ASSUME NEW P \in Seq(Frame), P # <<>>, NEW k \in Nat, NEW f \in On(Tail(P)), f.seq \in Nat,
         Follows(P, k, f)
  PROVE  LET h == Head(P) IN
         /\ ~(h.typ = "chunk" /\ h.id = f.id) => Follows(Tail(P), k, f)
         /\ h.seq = k + 1 /\ h.seq < f.seq => Follows(Tail(P), k + 1, f)
<1>. DEFINE h == Head(P)
            c == Chunk(f.id, f.seq - 1)
<1>1. c.typ = "chunk" /\ c.id = f.id /\ c.seq = f.seq - 1
  BY DEF Chunk
<1>2. Before(P, c, f) => c = h \/ Before(Tail(P), c, f)
  BY OnTail
<1>. HIDE DEF h, c
<1>3. f.seq > k /\ (f.seq = k + 1 \/ Before(P, c, f))
  BY DEF Follows, c
<1>4. ASSUME ~(h.typ = "chunk" /\ h.id = f.id) PROVE Follows(Tail(P), k, f)
  BY <1>1, <1>2, <1>3, <1>4 DEF Follows, c
<1>5. ASSUME h.seq = k + 1, h.seq < f.seq PROVE Follows(Tail(P), k + 1, f)
  <2>1. f.seq > k + 1 /\ f.seq # k + 1
    BY <1>5
  <2>2. CASE c = h
    <3>1. f.seq = (k + 1) + 1
      BY <1>1, <1>5, <2>2
    <3>. QED  BY <2>1, <3>1 DEF Follows
  <2>3. CASE Before(Tail(P), c, f)
    BY <2>1, <2>3 DEF Follows, c
  <2>. QED  BY <1>2, <1>3, <2>1, <2>2, <2>3
<1>. QED  BY <1>4, <1>5 DEF h

LEMMA FollowsCut ==
  ASSUME NEW P, NEW Q, Cuts(P, Q), NEW k, NEW f \in On(Q), ~Before(P, f, f), Follows(P, k, f)
  PROVE  Follows(Q, k, f)
BY DEF Cuts, Follows

LEMMA FollowsAppend ==
  ASSUME NEW P \in Seq(Frame), NEW x \in Frame, NEW k, NEW f, Follows(P, k, f)
  PROVE  Follows(Append(P, x), k, f)
BY OnAppend DEF Follows

(* A new stream: no chunk of it is on its way.                             *)
LEMMA NoChunkYet ==
  ASSUME RequestInv, NEW s \in Streams, runs[s] = 0
  PROVE  /\ \A e \in Ends : \A f \in On(path[e]) : ~(f.typ = "chunk" /\ f.id = s)
         /\ \A e \in Ends : ~(Busy(e) /\ serving[e].id = s)
BY DEF RequestInv, Replies, AtWork, Started

(* The chunk that was given to the receiver is gone from the path.         *)
LEMMA PushNoGap ==
  ASSUME ChunkInv, [Next]_vars, NEW s \in Streams, NEW e \in Ends, Pushes(e, s), e = Origin[s],
         NEW k, k = Len(took'[s])
  PROVE  /\ \A f \in On(path'[Peer(e)]) : f.typ = "chunk" /\ f.id = s => Follows(path'[Peer(e)], k, f)
         /\ Continues(Peer(e), s, k)'
<1>. DEFINE p == Peer(e)
            P == path[p]
            h == Head(P)
            k0 == Len(took[s])
<1>. RequestInv /\ PathInv /\ TypeOK
  BY DEF ChunkInv, RequestInv, PathInv
<1>1. /\ reader[e] /\ s \in streams[e] /\ h.typ = "chunk" /\ h.id = s
      /\ h.seq = k0 + 1 /\ took'[s] = Append(took[s], h.seq)
  BY PushedChunk
<1>2. ReaderRoute(e)
  BY DEF Pushes
<1>3. p \in Ends /\ P \in Seq(Frame) /\ P # <<>> /\ path' = [path EXCEPT ![p] = Tail(@)]
  BY <1>2, ReadsPath, PeerPeer, PathType
<1>4. took[s] \in Seq(Nat) /\ k0 \in Nat
  BY TookTyped
<1>5. k = k0 + 1
  BY <1>1, <1>4, AppendProperties
<1>6. path'[p] = Tail(P)
  BY <1>3, PathType
<1>7. /\ On(P) = {h} \cup On(Tail(P)) /\ On(P) \subseteq Frame
      /\ \A g \in On(Tail(P)) : Before(P, h, g)
  BY <1>3, OnTail, OnSubset
<1>8. /\ \A f \in On(P) : f.typ = "chunk" /\ f.id = s => Follows(P, k0, f)
      /\ Continues(p, s, k0)
  BY <1>1 DEF ChunkInv, NoGap
<1>9. ASSUME NEW f \in On(Tail(P)), f.typ = "chunk", f.id = s PROVE Follows(Tail(P), k, f)
  <2>1. f \in On(P) /\ f.seq \in Nat
    BY <1>7 DEF Frame
  <2>2. Before(P, h, f)
    BY <1>7
  <2>3. h.seq < f.seq
    BY <1>1, <1>3, <1>9, <2>2 DEF ChunkInv, ChunksInOrder
  <2>4. Follows(P, k0, f)
    BY <1>8, <1>9, <2>1
  <2>. QED  BY <1>1, <1>3, <1>4, <1>5, <2>1, <2>3, <2>4, FollowsTail
<1>10. Continues(p, s, k)'
  <2>. SUFFICES ASSUME Busy(p), serving[p].id = s, link, writer[p]
                PROVE  /\ serving[p].seq > k
                       /\ serving[p].seq = k + 1 \/ Chunk(s, serving[p].seq - 1) \in On(Tail(P))
    <3>1. UNCHANGED <<serving, link, writer>>
      BY <1>2 DEF ReaderRoute
    <3>. QED  BY <1>6, <3>1 DEF Continues, Busy
  <2>. serving[p].seq \in Nat
    BY <1>3 DEF TypeOK, ServingState
  <2>1. h.seq < serving[p].seq
    BY <1>1, <1>3, <1>7 DEF ChunkInv, ChunksSent
  <2>2. serving[p].seq > k /\ serving[p].seq # k0 + 1
    BY <1>1, <1>4, <1>5, <2>1
  <2>3. Chunk(s, serving[p].seq - 1) \in On(P)
    BY <1>8, <2>2 DEF Continues
  <2>4. CASE Chunk(s, serving[p].seq - 1) = h
    <3>1. h.seq = serving[p].seq - 1
      BY <2>4 DEF Chunk
    <3>. QED  BY <1>1, <1>4, <1>5, <2>2, <3>1
  <2>. QED  BY <1>7, <2>2, <2>3, <2>4
<1>. QED  BY <1>6, <1>9, <1>10

(* A frame that is read and is not a chunk of the stream does not matter.  *)
LEMMA ReadNoGap ==
  ASSUME ChunkInv, NEW s \in Streams, NEW e \in Ends, ReaderRoute(e), e = Origin[s],
         s \in streams[e], reader[e], NEW k, k = Len(took[s]),
         ~(Head(wire[Peer(e)]).typ = "chunk" /\ Head(wire[Peer(e)]).id = s)
  PROVE  /\ \A f \in On(path'[Peer(e)]) : f.typ = "chunk" /\ f.id = s => Follows(path'[Peer(e)], k, f)
         /\ Continues(Peer(e), s, k)'
<1>. DEFINE p == Peer(e)
            P == path[p]
            h == Head(P)
<1>. RequestInv /\ PathInv /\ TypeOK
  BY DEF ChunkInv, RequestInv, PathInv
<1>1. /\ p \in Ends /\ P \in Seq(Frame) /\ P # <<>> /\ path' = [path EXCEPT ![p] = Tail(@)]
      /\ ~(h.typ = "chunk" /\ h.id = s)
  BY ReadsPath, PeerPeer, PathType
<1>2. path'[p] = Tail(P) /\ k \in Nat
  BY <1>1, PathType, TookTyped
<1>3. /\ On(P) = {h} \cup On(Tail(P)) /\ On(P) \subseteq Frame
  BY <1>1, OnTail, OnSubset
<1>4. /\ \A f \in On(P) : f.typ = "chunk" /\ f.id = s => Follows(P, k, f)
      /\ Continues(p, s, k)
  BY DEF ChunkInv, NoGap
<1>5. ASSUME NEW f \in On(Tail(P)), f.typ = "chunk", f.id = s PROVE Follows(Tail(P), k, f)
  <2>1. f.seq \in Nat /\ Follows(P, k, f)
    BY <1>3, <1>4, <1>5 DEF Frame
  <2>. QED  BY <1>1, <1>2, <1>5, <2>1, FollowsTail
<1>6. \A n : Chunk(s, n) # h
  BY <1>1 DEF Chunk
<1>7. UNCHANGED <<serving, link, writer>>
  BY DEF ReaderRoute
<1>. HIDE DEF P, h
<1>8. Continues(p, s, k)'
  BY <1>2, <1>3, <1>4, <1>6, <1>7 DEF Continues, Busy, P
<1>. QED  BY <1>2, <1>5, <1>8 DEF P

(* Nor does what happens to a path that is not read from.                  *)
LEMMA PathNoGap ==
  ASSUME ChunkInv, [Next]_vars, NEW s \in Streams, NEW e \in Ends, e = Origin[s],
         s \in streams[e], reader[e], NEW k, k = Len(took[s]),
         ~Reads(Peer(e))
  PROVE  /\ \A f \in On(path'[Peer(e)]) : f.typ = "chunk" /\ f.id = s => Follows(path'[Peer(e)], k, f)
         /\ Continues(Peer(e), s, k)'
<1>. DEFINE p == Peer(e)
            P == path[p]
            Q == path'[p]
<1>. RequestInv /\ PathInv /\ TypeOK
  BY DEF ChunkInv, RequestInv, PathInv
<1>1. /\ p \in Ends /\ P \in Seq(Frame) /\ On(P) \subseteq Frame /\ k \in Nat
  <2>1. p \in Ends /\ P \in Seq(Frame) /\ k \in Nat
    BY PeerPeer, PathType, TookTyped
  <2>. QED  BY <2>1, ElementOfSeq DEF On
<1>2. /\ \A f \in On(P) : f.typ = "chunk" /\ f.id = s => Follows(P, k, f)
      /\ Continues(p, s, k)
  BY DEF ChunkInv, NoGap
<1>3. \/ Cuts(P, Q) /\ (Q = P \/ ~(link' /\ writer'[p]))
      \/ \E x \in Frame : Sends(p, x) /\ link /\ Q = Append(P, x)
  BY <1>1, NextPath DEF PathStep
<1>. HIDE DEF p, P, Q
<1>4. ASSUME NEW f \in On(Q), f.typ = "chunk", f.id = s PROVE Follows(Q, k, f)
  <2>1. CASE Cuts(P, Q)
    <3>1. f \in On(P)
      BY <2>1 DEF Cuts, Keeps
    <3>2. f.seq \in Nat
      BY <1>1, <3>1 DEF Frame
    <3>3. ~Before(P, f, f)
      BY <1>1, <1>4, <3>2 DEF ChunkInv, ChunksInOrder, P
    <3>. QED  BY <1>2, <1>4, <2>1, <3>1, <3>3, FollowsCut
  <2>2. CASE \E x \in Frame : Sends(p, x) /\ link /\ Q = Append(P, x)
    <3>1. PICK x \in Frame : Sends(p, x) /\ link /\ Q = Append(P, x)
      BY <2>2
    <3>2. CASE f \in On(P)
      BY <1>1, <1>2, <1>4, <3>1, <3>2, FollowsAppend
    <3>3. CASE f \notin On(P)
      <4>1. f = x /\ \A g \in On(P) : Before(Q, g, f)
        BY <1>1, <3>1, <3>3, OnAppend
      <4>2. ServeReply(p) /\ Busy(p) /\ f = Reply(serving[p]) /\ serving[p].id = s
        BY <1>1, <1>4, <3>1, <4>1, SentReply
      <4>3. f.seq = serving[p].seq /\ writer[p]
        BY <4>2 DEF Reply, Chunk, Response, ServeReply, CanEnqueue
      <4>4. f.seq > k /\ (f.seq = k + 1 \/ Chunk(s, f.seq - 1) \in On(P))
        BY <1>2, <3>1, <4>2, <4>3 DEF Continues, P
      <4>. QED  BY <1>4, <4>1, <4>4 DEF Follows
    <3>. QED  BY <3>2, <3>3
  <2>. QED  BY <1>3, <2>1, <2>2
<1>5. Continues(p, s, k)'
  <2>. SUFFICES ASSUME serving'[p].at \in {"handler", "send"}, serving'[p].id = s, link', writer'[p]
                PROVE  /\ serving'[p].seq > k
                       /\ serving'[p].seq = k + 1 \/ Chunk(s, serving'[p].seq - 1) \in On(Q)
    BY DEF Continues, Busy, Q
  <2>. serving[p] \in ServingState
    BY <1>1 DEF TypeOK
  <2>1. link /\ writer[p]
    BY <1>1, NextTasks
  <2>2. On(P) \subseteq On(Q)
    <3>1. \A x \in Frame : On(P) \subseteq On(Append(P, x))
      BY <1>1, OnAppend
    <3>. QED  BY <1>3, <3>1
  <2>3. ASSUME Busy(p), serving'[p].id = serving[p].id, serving'[p].seq = serving[p].seq
        PROVE  /\ serving'[p].seq > k
               /\ serving'[p].seq = k + 1 \/ Chunk(s, serving'[p].seq - 1) \in On(Q)
    BY <1>2, <2>1, <2>2, <2>3 DEF Continues, P
  <2>4. CASE serving'[p] = serving[p]
    BY <2>3, <2>4 DEF Busy
  <2>5. CASE Starts(p) /\ serving'[p] = [at |-> "handler", id |-> Head(inbound[p]).id, seq |-> 1]
    <3>1. runs[s] = 0
      BY <1>1, <2>5, StartedRequest
    <3>2. k = 0
      BY <3>1, EmptySeq DEF ChunkInv, TookStarted
    <3>. QED  BY <2>5, <3>2
  <2>6. CASE HandlerDone(p) /\ serving'[p] = [serving[p] EXCEPT !.at = "send"]
    <3>1. Busy(p) /\ serving'[p].id = serving[p].id /\ serving'[p].seq = serving[p].seq
      BY <2>6 DEF HandlerDone, Busy, ServingState
    <3>. QED  BY <2>3, <3>1
  <2>7. CASE ServeReply(p)
    <3>1. /\ Busy(p) /\ serving'[p] = AfterReply(serving[p]) /\ Reply(serving[p]) \in Frame
          /\ Q = Append(P, Reply(serving[p]))
      BY <1>1, <2>1, <2>7, SentChunk DEF P, Q
    <3>2. serving'[p].id = serving[p].id /\ serving'[p].seq = serving[p].seq + 1
      BY <1>1, <3>1, NextReply DEF Busy
    <3>3. serving[p].id = s /\ Reply(serving[p]) = Chunk(s, serving[p].seq)
      BY <1>1, <2>7, <3>2, SentChunk
    <3>4. Chunk(s, serving[p].seq) \in On(Q)
      BY <1>1, <3>1, <3>3, OnAppend
    <3>5. serving[p].seq > k /\ serving[p].seq \in Nat
      BY <1>2, <2>1, <3>1, <3>3 DEF Continues, ServingState
    <3>6. (serving[p].seq + 1) - 1 = serving[p].seq /\ serving[p].seq + 1 > k
      BY <1>1, <3>5
    <3>. QED  BY <3>2, <3>4, <3>6
  <2>8. CASE ServeReplyLost(p)
    BY <2>1, <2>8 DEF ServeReplyLost
  <2>. QED  BY <1>1, <2>4, <2>5, <2>6, <2>7, <2>8, NextServing
<1>. QED  BY <1>4, <1>5 DEF p, Q

LEMMA NextNoGap ==
  ASSUME ChunkInv, [Next]_vars
  PROVE  NoGap'
<1>. RequestInv /\ PathInv /\ TypeOK
  BY DEF ChunkInv, RequestInv, PathInv
<1>. SUFFICES ASSUME NEW s \in Streams, NEW e, e = Origin[s], s \in streams'[e], reader'[e],
                     NEW k, k = Len(took'[s])
              PROVE  /\ \A f \in On(path'[Peer(e)]) :
                          f.typ = "chunk" /\ f.id = s => Follows(path'[Peer(e)], k, f)
                     /\ Continues(Peer(e), s, k)'
  BY DEF NoGap, Continues, Busy
<1>1. e \in Ends /\ Peer(e) \in Ends /\ Peer(Peer(e)) = e
  BY OriginInEnds, PeerPeer DEF Ids
<1>2. CASE runs[s] = 0 /\ took[s] = <<>> /\ took'[s] = took[s] /\ path' = path /\ serving' = serving
  BY <1>1, <1>2, NoChunkYet DEF Continues, Busy
<1>3. CASE s \in streams[e] /\ reader[e]
  <2>1. CASE Pushes(e, s)
    BY <1>1, <2>1, PushNoGap
  <2>2. CASE ~Pushes(e, s)
    <3>1. took'[s] = took[s]
      BY <2>2, NextTook
    <3>2. CASE ReaderRoute(e)
      <4>1. ~(Head(wire[Peer(e)]).typ = "chunk" /\ Head(wire[Peer(e)]).id = s)
        BY <1>1, <2>2, <3>2, RouteTook
      <4>. QED  BY <1>1, <1>3, <3>1, <3>2, <4>1, ReadNoGap
    <3>3. CASE ReaderStale(e)
      <4>1. ~reader'[e]
        BY <1>1, <3>3 DEF ReaderStale, StopReader, TypeOK
      <4>. QED  BY <4>1
    <3>4. CASE ~(ReaderRoute(e) \/ ReaderStale(e))
      <4>1. ~Reads(Peer(e))
        BY <1>1, <3>4 DEF Reads
      <4>. QED  BY <1>1, <1>3, <3>1, <4>1, PathNoGap
    <3>. QED  BY <3>2, <3>3, <3>4
  <2>. QED  BY <2>1, <2>2
<1>. QED  BY <1>2, <1>3, RegisteredBefore

LEMMA NextChunkInv == ChunkInv /\ [Next]_vars => ChunkInv'
<1>. SUFFICES ASSUME ChunkInv, [Next]_vars PROVE ChunkInv'
  OBVIOUS
<1>1. RequestInv'
  BY NextRequestInv DEF ChunkInv
<1>. QED
  BY <1>1, NextChunksInOrder, NextTookPrefix, NextOpenStreams, NextNoGap DEF ChunkInv

(* What a consumer has received and will receive is the beginning of what  *)
(* the handler sent, without a gap, whatever the queues hold, however many *)
(* chunks the handler sends and wherever the connection breaks; and the    *)
(* entry of a complete stream is gone, so its receiver closes.             *)
THEOREM StreamsAreCutNeverThinned == Spec => []CutNeverThinned
<1>1. ChunkInv => CutNeverThinned
  <2>. SUFFICES ASSUME ChunkInv PROVE CutNeverThinned
    OBVIOUS
  <2>. TypeOK /\ Chunks \in Nat \ {0}
    BY ConnAssumption DEF ChunkInv, RequestInv, PathInv
  <2>1. StreamPrefix
    <3>. SUFFICES ASSUME NEW s \in Streams
                  PROVE  took[s] = [i \in 1..Len(took[s]) |-> i]
      BY TookTyped DEF StreamPrefix
    <3>1. took[s] \in Seq(Nat)
      BY TookTyped
    <3>2. \A i \in 1..Len(took[s]) : took[s][i] = i
      BY DEF ChunkInv, TookPrefix
    <3>. QED  BY <3>1, <3>2, LenProperties
  <2>2. CompleteStreamCloses
    <3>. SUFFICES ASSUME NEW s \in Streams, Len(got[s]) + Len(chan[s]) = Chunks,
                         s \in streams[Origin[s]]
                  PROVE  FALSE
      BY DEF CompleteStreamCloses
    <3>1. Len(took[s]) = Chunks
      BY TookTyped
    <3>2. Len(took[s]) < Chunks
      BY DEF ChunkInv, OpenStreams
    <3>. QED  BY <3>1, <3>2
  <2>. QED  BY <2>1, <2>2 DEF CutNeverThinned
<1>. QED  BY <1>1, InitChunkInv, NextChunkInv, PTL DEF Spec
=============================================================================
