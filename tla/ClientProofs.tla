---------------------------- MODULE ClientProofs ----------------------------
(***************************************************************************)
(* Proofs about Client, for any number of calls, fibers, ports and         *)
(* channels, and whatever fiber a search puts first.                       *)
(***************************************************************************)
EXTENDS Client, FiniteSetTheorems, TLAPS

(* Channels are wired to the fibers they are cached for, and served by the *)
(* fiber they reached.                                                     *)
Wired ==
    /\ \A f \in Fibers : conns[f] # None => net[conns[f]].peer = f
    /\ \A c \in Chans : /\ net[c].srv => net[c].peer \in Fibers
                        /\ net[c].cli = "new" => net[c].peer = None

(* Discovery names what a search may return; a call knows whom it calls.   *)
Named ==
    /\ \A k \in Keys : disc[k] # NoTarget => disc[k].fiber \in Hits[k]
    /\ \A t \in Calls : target[t] # NoTarget => target[t].fiber \in Hits[Key[t]]
    /\ \A t \in Calls : pc[t] \in {"locking", "opening", "waiting"} => target[t] # NoTarget

(* A call that waits has a channel, and hears of its end.                  *)
Told ==
    /\ \A t \in Calls : pc[t] = "waiting" => chan[t] \in Chans
    /\ NobodyWaitsOnDead

TypeInv == TypeOK /\ Wired /\ Named /\ Told

(* The constants as the steps use them.                                    *)
LEMMA Constants ==
  /\ None \notin Fibers /\ None \notin Calls /\ None \notin Chans
  /\ NoTarget \notin Target
  /\ \A x \in Target : x.fiber \in Fibers /\ x.port \in Ports
  /\ \A x \in 0..MaxChannels : x # None => x \in Chans
  /\ \A t \in Calls : Key[t] \in Keys
  /\ \A k \in Keys : Hits[k] \subseteq Fibers
  /\ \A c \in Chans : c \in 0..MaxChannels
<1>1. MaxChannels \in Nat /\ None \notin Fibers /\ None \notin Calls
  BY ClientAssumption
<1>2. \A x \in Target : x.fiber \in Fibers /\ x.port \in Ports
  BY DEF Target
<1>3. NoTarget.fiber \notin Fibers
  BY <1>1 DEF NoTarget
<1>4. NoTarget \notin Target
  BY <1>2, <1>3
<1>5. None \notin Chans /\ \A x \in 0..MaxChannels : x # None => x \in Chans
  BY <1>1 DEF None, Chans
<1>6. \A c \in Chans : c \in 0..MaxChannels
  BY <1>1 DEF Chans
<1>7. \A t \in Calls : Key[t] \in Keys
  BY ClientAssumption
<1>8. \A k \in Keys : Hits[k] \subseteq Fibers
  BY ClientAssumption
<1>. QED  BY <1>1, <1>2, <1>4, <1>5, <1>6, <1>7, <1>8

(* How many channels are cached is a number.                               *)
LEMMA CachedSize == Cardinality(Cached) \in Nat
<1>1. Cached \in SUBSET Fibers /\ IsFiniteSet(Fibers)
  BY ClientAssumption DEF Cached
<1>. QED  BY <1>1, FS_Subset, FS_CardinalityType

-----------------------------------------------------------------------------
(* Type correctness *)

(* A channel before it is opened.                                          *)
LEMMA UnopenedType == Unopened \in Channel /\ Unopened.peer = None /\ Unopened.reqs = <<>>
                      /\ Unopened.busy = None /\ Unopened.back = <<>>
BY DEF Unopened, Channel

LEMMA InitType == Init => TypeInv
<1>. SUFFICES ASSUME Init PROVE TypeInv
  OBVIOUS
<1>2. TypeOK
  BY UnopenedType, ClientAssumption DEF Init, TypeOK, None, Ended, Failed
<1>3. Wired
  BY DEF Init, Wired, Unopened
<1>4. Named /\ Told
  BY DEF Init, Named, Told, NobodyWaitsOnDead
<1>. QED  BY <1>2, <1>3, <1>4 DEF TypeInv

(* A step that only touches the far ends of channels, or what lies in      *)
(* them.                                                                   *)
LEMMA FarEnds ==
  ASSUME TypeInv, UNCHANGED <<cacheVars, callVars>>, net' \in [Chans -> Channel],
         \A c \in Chans : /\ net'[c].peer = net[c].peer /\ net'[c].cli = net[c].cli
                          /\ net'[c].srv => net[c].srv
  PROVE  Wired' /\ Named' /\ Told'
<1>1. \A f \in Fibers : conns[f] # None => conns[f] \in Chans
  BY Constants DEF TypeInv, TypeOK
<1>2. UNCHANGED <<disc, conns, lock, pc, target, chan, inbox>>
  BY DEF cacheVars, callVars
<1>3. Wired'
  BY <1>1, <1>2 DEF TypeInv, Wired
<1>4. Named'
  BY <1>2 DEF TypeInv, Named
<1>5. Told'
  BY <1>2 DEF TypeInv, Told, NobodyWaitsOnDead
<1>. QED  BY <1>3, <1>4, <1>5

(* Fibers stop, start and register; channels break and end.                *)
LEMMA FibersType ==
  ASSUME TypeInv,
         \/ \E f \in Fibers : Stop(f) \/ Register(f) \/ \E p \in Ports : Start(f, p)
         \/ \E c \in Chans : Break(c) \/ ServeEnd(c)
  PROVE  /\ TypeInv'
         /\ \A c \in Chans : /\ net'[c].reqs \in {net[c].reqs, <<>>}
                             /\ net'[c].busy \in {net[c].busy, None}
                             /\ net'[c].back \in {net[c].back, <<>>}
                             /\ net'[c].peer = net[c].peer /\ net'[c].cli = net[c].cli
         /\ UNCHANGED <<cacheVars, callVars, starts, ownVars>>
<1>1. UNCHANGED <<cacheVars, callVars, starts, ownVars>>
  BY DEF Stop, Register, Start, Break, ServeEnd
<1>2. net \in [Chans -> Channel]
  BY DEF TypeInv, TypeOK
<1>3. at' \in [Fibers -> Ports \cup {None}] /\ listed' \in [Fibers -> Ports \cup {None}] /\ stops' \in 0..MaxStops
  <2>1. ASSUME NEW f \in Fibers, Stop(f) PROVE <1>3
    <3>1. at' = [at EXCEPT ![f] = None] /\ stops' = stops + 1 /\ stops < MaxStops /\ listed' = listed
      BY <2>1 DEF Stop
    <3>2. stops' \in 0..MaxStops
      <4>1. stops \in 0..MaxStops /\ MaxStops \in Nat
        BY ClientAssumption DEF TypeInv, TypeOK
      <4>. QED  BY <3>1, <4>1
    <3>3. at \in [Fibers -> Ports \cup {None}] /\ listed \in [Fibers -> Ports \cup {None}]
      BY DEF TypeInv, TypeOK
    <3>. QED  BY <3>1, <3>2, <3>3
  <2>2. ASSUME NEW f \in Fibers, Register(f) PROVE <1>3
    BY <2>2 DEF TypeInv, TypeOK, Register
  <2>3. ASSUME NEW f \in Fibers, NEW p \in Ports, Start(f, p) PROVE <1>3
    BY <2>3 DEF TypeInv, TypeOK, Start
  <2>4. ASSUME NEW c \in Chans, Break(c) \/ ServeEnd(c) PROVE <1>3
    BY <2>4 DEF TypeInv, TypeOK, Break, ServeEnd, envVars
  <2>. QED  BY <2>1, <2>2, <2>3, <2>4
<1>. DEFINE Cut(n) == [n EXCEPT !.srv = FALSE, !.reqs = <<>>, !.busy = None]
            Lost(n) == [n EXCEPT !.srv = FALSE, !.reqs = <<>>, !.busy = None, !.back = <<>>]
<1>4. ASSUME NEW n \in Channel PROVE Cut(n) \in Channel /\ Lost(n) \in Channel
  <2>1. n \in [peer : Fibers \cup {None}, cli : {"new", "open", "dead", "closed"}, srv : BOOLEAN,
               reqs : Seq(Calls), busy : Calls \cup {None}, back : Seq(Frame)]
    BY DEF Channel
  <2>2. <<>> \in Seq(Calls) /\ <<>> \in Seq(Frame)
    OBVIOUS
  <2>3. Cut(n) \in Channel
    BY <2>1, <2>2 DEF Channel
  <2>4. Lost(n) \in Channel
    BY <2>1, <2>2 DEF Channel
  <2>. QED  BY <2>3, <2>4
<1>5. /\ net' \in [Chans -> Channel]
      /\ \A c \in Chans : net'[c] = net[c] \/ net'[c] = Cut(net[c]) \/ net'[c] = Lost(net[c])
  <2>1. ASSUME NEW f \in Fibers, Stop(f) PROVE <1>5
    <3>1. net' = [c \in Chans |-> IF net[c].peer = f THEN Cut(net[c]) ELSE net[c]]
      BY <2>1 DEF Stop
    <3>. HIDE DEF Cut, Lost
    <3>. QED  BY <1>2, <1>4, <3>1
  <2>2. ASSUME net' = net PROVE <1>5
    BY <1>2, <2>2
  <2>3. ASSUME NEW c \in Chans, Break(c) PROVE <1>5
    <3>1. net' = [net EXCEPT ![c] = Lost(net[c])]
      BY <1>2, <2>3 DEF Break
    <3>. HIDE DEF Cut, Lost
    <3>. QED  BY <1>2, <1>4, <3>1
  <2>4. ASSUME NEW c \in Chans, ServeEnd(c) PROVE <1>5
    <3>1. net' = [net EXCEPT ![c] = Cut(net[c])]
      BY <1>2, <2>4 DEF ServeEnd
    <3>. HIDE DEF Cut, Lost
    <3>. QED  BY <1>2, <1>4, <3>1
  <2>5. net' = net \/ (\E f \in Fibers : Stop(f)) \/ \E c \in Chans : Break(c) \/ ServeEnd(c)
    BY DEF Register, Start
  <2>. QED  BY <2>1, <2>2, <2>3, <2>4, <2>5
<1>6. ASSUME NEW c \in Chans
      PROVE  /\ net'[c].reqs \in {net[c].reqs, <<>>} /\ net'[c].busy \in {net[c].busy, None}
             /\ net'[c].back \in {net[c].back, <<>>}
             /\ net'[c].peer = net[c].peer /\ net'[c].cli = net[c].cli
             /\ net'[c].srv => net[c].srv
  <2>1. net[c] \in Channel
    BY <1>2
  <2>2. net'[c] = net[c] \/ net'[c] = Cut(net[c]) \/ net'[c] = Lost(net[c])
    BY <1>5
  <2>. QED  BY <2>1, <2>2 DEF Channel
<1>7. Wired' /\ Named' /\ Told'
  BY <1>1, <1>5, <1>6, FarEnds
<1>8. TypeOK'
  BY <1>1, <1>3, <1>5 DEF TypeInv, TypeOK, cacheVars, callVars, ownVars
<1>. QED  BY <1>1, <1>6, <1>7, <1>8 DEF TypeInv

(* A fiber takes a request and answers it.                                 *)
LEMMA ServeType ==
  ASSUME TypeInv, NEW c \in Chans,
         ServeTake(c) \/ \E kind \in {"ok", "error"} : ServeReply(c, kind)
  PROVE  /\ TypeInv'
         /\ \A d \in Chans : net'[d].peer = net[d].peer /\ net'[d].cli = net[d].cli
<1>1. net \in [Chans -> Channel] /\ net[c] \in Channel
  BY DEF TypeInv, TypeOK
<1>2. UNCHANGED <<envVars, cacheVars, callVars, ownVars>>
  BY DEF ServeTake, ServeReply
<1>3. CASE ServeTake(c)
  <2>. DEFINE t == Head(net[c].reqs)
              n == [net[c] EXCEPT !.busy = t, !.reqs = Tail(@)]
  <2>1. net[c].reqs \in Seq(Calls) /\ net[c].reqs # <<>> /\ net[c].peer \in Fibers
    BY <1>1, <1>3 DEF ServeTake, Channel, TypeInv, Wired
  <2>2. t \in Calls /\ Tail(net[c].reqs) \in Seq(Calls)
    BY <2>1
  <2>3. n \in Channel /\ n.peer = net[c].peer /\ n.cli = net[c].cli /\ n.srv = net[c].srv
    BY <1>1, <2>2 DEF Channel
  <2>4. net' = [net EXCEPT ![c] = n] /\ starts' = [starts EXCEPT ![t] = Append(@, net[c].peer)]
    BY <1>1, <1>3 DEF ServeTake
  <2>. HIDE DEF n, t
  <2>5. starts' \in [Calls -> Seq(Fibers)]
    BY <2>1, <2>2, <2>4 DEF TypeInv, TypeOK
  <2>6. net' \in [Chans -> Channel]
    BY <1>1, <2>3, <2>4
  <2>7. \A d \in Chans : net'[d].peer = net[d].peer /\ net'[d].cli = net[d].cli /\ net'[d].srv = net[d].srv
    BY <1>1, <2>3, <2>4
  <2>8. Wired' /\ Named' /\ Told'
    BY <1>2, <2>6, <2>7, FarEnds
  <2>9. TypeOK'
    BY <1>2, <2>5, <2>6 DEF TypeInv, TypeOK, envVars, cacheVars, callVars, ownVars
  <2>. QED  BY <2>7, <2>8, <2>9 DEF TypeInv
<1>4. ASSUME NEW kind \in {"ok", "error"}, ServeReply(c, kind)
      PROVE  TypeInv' /\ \A d \in Chans : net'[d].peer = net[d].peer /\ net'[d].cli = net[d].cli
  <2>. DEFINE b == IF net[c].cli = "open" THEN Append(net[c].back, [call |-> net[c].busy, kind |-> kind])
                                          ELSE net[c].back
              n == [net[c] EXCEPT !.busy = None, !.back = b]
  <2>1. net[c].back \in Seq(Frame) /\ net[c].busy \in Calls
    BY <1>1, <1>4 DEF ServeReply, Channel
  <2>2. [call |-> net[c].busy, kind |-> kind] \in Frame
    BY <2>1 DEF Frame
  <2>3. b \in Seq(Frame)
    BY <2>1, <2>2
  <2>4. net' = [net EXCEPT ![c] = n]
    BY <1>1, <1>4 DEF ServeReply
  <2>. HIDE DEF b
  <2>5. n \in Channel /\ n.peer = net[c].peer /\ n.cli = net[c].cli /\ n.srv = net[c].srv
    BY <1>1, <2>3 DEF Channel
  <2>. HIDE DEF n
  <2>6. net' \in [Chans -> Channel]
    BY <1>1, <2>4, <2>5
  <2>7. \A d \in Chans : net'[d].peer = net[d].peer /\ net'[d].cli = net[d].cli /\ net'[d].srv = net[d].srv
    BY <1>1, <2>4, <2>5
  <2>8. Wired' /\ Named' /\ Told'
    BY <1>2, <2>6, <2>7, FarEnds
  <2>9. TypeOK'
    BY <1>2, <1>4, <2>6 DEF TypeInv, TypeOK, ServeReply, envVars, cacheVars, callVars, ownVars
  <2>. QED  BY <2>7, <2>8, <2>9 DEF TypeInv
<1>. QED  BY <1>3, <1>4

(* One more entry says that the channel closed.                            *)
LEMMA AppendClosed ==
  ASSUME NEW s \in Seq({"ok", "error", "closed"})
  PROVE  /\ Append(s, "closed") \in Seq({"ok", "error", "closed"})
         /\ Append(s, "closed") # <<>>
         /\ \A i \in 1..Len(Append(s, "closed")) :
               Append(s, "closed")[i] = "closed" \/ (i \in 1..Len(s) /\ Append(s, "closed")[i] = s[i])
OBVIOUS

(* The client's end: whoever is told gets one more entry.                  *)
LEMMA TeardownType ==
  ASSUME TypeOK, NEW c \in Chans, Teardown(c)
  PROVE  /\ inbox' \in [Calls -> Seq({"ok", "error", "closed"})]
         /\ \A t \in Calls : pc[t] = "waiting" /\ chan[t] = c => inbox'[t] # <<>>
         /\ \A t \in Calls : inbox[t] # <<>> => inbox'[t] # <<>>
         /\ \A t \in Calls : \A i \in 1..Len(inbox'[t]) :
               inbox'[t][i] = "closed" \/ (i \in 1..Len(inbox[t]) /\ inbox'[t][i] = inbox[t][i])
<1>1. \A t \in Calls : inbox[t] \in Seq({"ok", "error", "closed"})
  BY DEF TypeOK
<1>2. \A t \in Calls : /\ inbox'[t] = inbox[t] \/ inbox'[t] = Append(inbox[t], "closed")
                       /\ pc[t] = "waiting" /\ chan[t] = c /\ inbox[t] = <<>> => inbox'[t] = Append(inbox[t], "closed")
  BY DEF Teardown
<1>3. inbox' = [t \in Calls |-> inbox'[t]]
  BY DEF Teardown
<1>4. ASSUME NEW t \in Calls
      PROVE  /\ inbox'[t] \in Seq({"ok", "error", "closed"})
             /\ inbox[t] # <<>> => inbox'[t] # <<>>
             /\ pc[t] = "waiting" /\ chan[t] = c => inbox'[t] # <<>>
             /\ \A i \in 1..Len(inbox'[t]) :
                   inbox'[t][i] = "closed" \/ (i \in 1..Len(inbox[t]) /\ inbox'[t][i] = inbox[t][i])
  <2>1. CASE inbox'[t] = inbox[t]
    BY <1>1, <1>2, <2>1, AppendClosed
  <2>2. CASE inbox'[t] = Append(inbox[t], "closed")
    <3>1. inbox[t] \in Seq({"ok", "error", "closed"})
      BY <1>1
    <3>. QED  BY <2>2, <3>1, AppendClosed
  <2>. QED  BY <1>2, <2>1, <2>2
<1>. QED  BY <1>3, <1>4

LEMMA ReaderType ==
  ASSUME TypeInv, NEW c \in Chans, ReaderRoute(c) \/ ReaderEof(c)
  PROVE  /\ TypeInv'
         /\ \A d \in Chans : /\ net'[d].peer = net[d].peer
                             /\ net'[d].cli = "open" => net[d].cli = "open"
                             /\ net[d].cli = "closed" => net'[d].cli = "closed"
<1>1. net \in [Chans -> Channel] /\ net[c] \in Channel /\ conns \in [Fibers -> 0..MaxChannels]
  BY DEF TypeInv, TypeOK
<1>2. UNCHANGED <<envVars, cacheVars, pc, target, chan, starts, ownVars>>
  BY DEF ReaderRoute, ReaderEof
<1>3. UNCHANGED <<disc, conns>>
  BY <1>2 DEF cacheVars
<1>4. Named'
  BY <1>2, <1>3 DEF TypeInv, Named
<1>5. CASE ReaderRoute(c)
  <2>. DEFINE f == Head(net[c].back)
              n == [net[c] EXCEPT !.back = Tail(@)]
  <2>1. net[c].back \in Seq(Frame) /\ net[c].back # <<>>
    BY <1>1, <1>5 DEF ReaderRoute, Channel
  <2>2. f \in Frame /\ Tail(net[c].back) \in Seq(Frame)
    BY <2>1
  <2>3. f.call \in Calls /\ f.kind \in {"ok", "error"}
    BY <2>2 DEF Frame
  <2>4. /\ net' = [net EXCEPT ![c] = n]
        /\ inbox' = IF pc[f.call] = "waiting" THEN [inbox EXCEPT ![f.call] = Append(@, f.kind)] ELSE inbox
    BY <1>1, <1>5 DEF ReaderRoute
  <2>5. n \in Channel /\ n.peer = net[c].peer /\ n.cli = net[c].cli /\ n.srv = net[c].srv
    BY <1>1, <2>2 DEF Channel
  <2>. HIDE DEF n, f
  <2>6. net' \in [Chans -> Channel]
    BY <1>1, <2>4, <2>5
  <2>7. \A d \in Chans : net'[d].peer = net[d].peer /\ net'[d].cli = net[d].cli /\ net'[d].srv = net[d].srv
    BY <1>1, <2>4, <2>5
  <2>8. \A t \in Calls : inbox[t] \in Seq({"ok", "error", "closed"})
    BY DEF TypeInv, TypeOK
  <2>9. /\ inbox' \in [Calls -> Seq({"ok", "error", "closed"})]
        /\ \A t \in Calls : inbox[t] # <<>> => inbox'[t] # <<>>
    <3>1. Append(inbox[f.call], f.kind) \in Seq({"ok", "error", "closed"}) /\ Append(inbox[f.call], f.kind) # <<>>
      BY <2>3, <2>8
    <3>2. inbox \in [Calls -> Seq({"ok", "error", "closed"})]
      BY DEF TypeInv, TypeOK
    <3>. QED  BY <2>3, <2>4, <3>1, <3>2
  <2>10. Told'
    BY <1>2, <2>7, <2>9 DEF TypeInv, Told, NobodyWaitsOnDead
  <2>11. Wired'
    BY <1>1, <1>3, <2>7, Constants DEF TypeInv, Wired
  <2>12. TypeOK'
    BY <1>2, <2>6, <2>9 DEF TypeInv, TypeOK, envVars, cacheVars, ownVars
  <2>. QED  BY <1>4, <2>7, <2>10, <2>11, <2>12 DEF TypeInv
<1>6. CASE ReaderEof(c)
  <2>. DEFINE n == [net[c] EXCEPT !.cli = "dead"]
  <2>1. net' = [net EXCEPT ![c] = n] /\ Teardown(c)
    BY <1>1, <1>6 DEF ReaderEof
  <2>2. n \in Channel /\ n.peer = net[c].peer /\ n.cli = "dead" /\ n.srv = net[c].srv
    BY <1>1 DEF Channel
  <2>. HIDE DEF n
  <2>3. net' \in [Chans -> Channel]
    BY <1>1, <2>1, <2>2
  <2>4. \A d \in Chans : /\ net'[d].peer = net[d].peer /\ net'[d].srv = net[d].srv
                         /\ net'[d].cli = IF d = c THEN "dead" ELSE net[d].cli
    BY <1>1, <2>1, <2>2
  <2>5. Told'
    BY <1>2, <2>1, <2>4, TeardownType DEF TypeInv, Told, NobodyWaitsOnDead
  <2>6. Wired'
    BY <1>1, <1>3, <2>4, Constants DEF TypeInv, Wired
  <2>7. TypeOK'
    BY <1>2, <2>1, <2>3, TeardownType DEF TypeInv, TypeOK, envVars, cacheVars, ownVars
  <2>8. net[c].cli # "closed"
    BY <1>6 DEF ReaderEof
  <2>. QED  BY <1>4, <2>4, <2>5, <2>6, <2>7, <2>8 DEF TypeInv
<1>. QED  BY <1>5, <1>6

-----------------------------------------------------------------------------
(* The steps of a call *)

(* Sending on an open channel to the fiber that is called.                 *)
LEMMA SendOnType ==
  ASSUME TypeOK, NEW t \in Calls, NEW c \in Chans, NEW n \in [Chans -> Channel], SendOn(t, c, n)
  PROVE  /\ net' \in [Chans -> Channel]
         /\ pc' = [pc EXCEPT ![t] = "waiting"] /\ chan' = [chan EXCEPT ![t] = c]
         /\ \A d \in Chans : /\ net'[d].peer = n[d].peer /\ net'[d].cli = n[d].cli
                             /\ net'[d].srv = n[d].srv /\ net'[d].busy = n[d].busy
                             /\ net'[d].back = n[d].back
                             /\ net'[d].reqs = n[d].reqs \/ (d = c /\ net'[d].reqs = Append(n[d].reqs, t))
<1>. DEFINE m == [n[c] EXCEPT !.reqs = Append(@, t)]
<1>1. n[c] \in Channel /\ n[c].reqs \in Seq(Calls) /\ Append(n[c].reqs, t) \in Seq(Calls)
  BY DEF Channel
<1>2. /\ m \in Channel /\ m.peer = n[c].peer /\ m.cli = n[c].cli /\ m.srv = n[c].srv
      /\ m.busy = n[c].busy /\ m.back = n[c].back /\ m.reqs = Append(n[c].reqs, t)
  BY <1>1 DEF Channel
<1>3. net' = n \/ net' = [n EXCEPT ![c] = m]
  BY DEF SendOn
<1>. HIDE DEF m
<1>4. net' \in [Chans -> Channel]
  BY <1>2, <1>3
<1>5. ASSUME NEW d \in Chans
      PROVE  /\ net'[d].peer = n[d].peer /\ net'[d].cli = n[d].cli
             /\ net'[d].srv = n[d].srv /\ net'[d].busy = n[d].busy
             /\ net'[d].back = n[d].back
             /\ net'[d].reqs = n[d].reqs \/ (d = c /\ net'[d].reqs = Append(n[d].reqs, t))
  BY <1>2, <1>3
<1>. QED  BY <1>4, <1>5 DEF SendOn

(* What a call may change: whom it calls, and what discovery said.         *)
Aims(t) ==
    /\ target' \in [Calls -> Target \cup {NoTarget}]
    /\ target'[t] \in Target /\ target'[t].fiber \in Hits[Key[t]]
    /\ \A u \in Calls \ {t} : target'[u] = target[u]
    /\ disc' \in [Keys -> Target \cup {NoTarget}]
    /\ \A k \in Keys : disc'[k] # NoTarget => disc'[k].fiber \in Hits[k]

(* It starts to wait on an open channel.                                   *)
LEMMA WaitType ==
  ASSUME TypeInv, NEW t \in Calls, NEW c \in Chans, NEW n \in [Chans -> Channel],
         SendOn(t, c, n), Aims(t), inbox' = inbox, n[c].cli = "open",
         \A d \in Chans : /\ n[d].cli # "open" => n[d].cli = net[d].cli
                          /\ n[d].srv => n[d].peer \in Fibers
                          /\ n[d].cli = "new" => n[d].peer = None,
         conns' \in [Fibers -> 0..MaxChannels],
         \A f \in Fibers : conns'[f] # None => n[conns'[f]].peer = f
  PROVE  /\ net' \in [Chans -> Channel]
         /\ pc' \in [Calls -> {"new", "searching", "locking", "opening", "waiting"} \cup Ended]
         /\ chan' \in [Calls -> 0..MaxChannels]
         /\ Wired' /\ Named' /\ Told'
<1>. TypeOK
  BY DEF TypeInv
<1>1. /\ net' \in [Chans -> Channel]
      /\ pc' = [pc EXCEPT ![t] = "waiting"] /\ chan' = [chan EXCEPT ![t] = c]
      /\ \A d \in Chans : net'[d].peer = n[d].peer /\ net'[d].cli = n[d].cli /\ net'[d].srv = n[d].srv
  BY SendOnType
<1>2. pc' \in [Calls -> {"new", "searching", "locking", "opening", "waiting"} \cup Ended]
  BY <1>1 DEF TypeOK
<1>3. chan' \in [Calls -> 0..MaxChannels]
  BY <1>1, Constants DEF TypeOK
<1>4. \A u \in Calls : /\ pc'[u] = (IF u = t THEN "waiting" ELSE pc[u])
                       /\ chan'[u] = (IF u = t THEN c ELSE chan[u])
  BY <1>1 DEF TypeOK
<1>5. Wired'
  BY <1>1, Constants DEF Wired
<1>6. Named'
  BY <1>4, Constants DEF TypeInv, Named, Aims
<1>7. Told'
  BY <1>1, <1>4 DEF TypeInv, Told, NobodyWaitsOnDead
<1>. QED  BY <1>1, <1>2, <1>3, <1>5, <1>6, <1>7

(* It looks for a channel, and sends when there is one.                    *)
LEMMA LookType ==
  ASSUME TypeInv, NEW t \in Calls, NEW f \in Fibers, pc[t] # "waiting",
         Look(t, f) \/ LookAgain(t, f), Aims(t), target'[t].fiber = f, inbox' = inbox
  PROVE  /\ net' \in [Chans -> Channel]
         /\ pc' \in [Calls -> {"new", "searching", "locking", "opening", "waiting"} \cup Ended]
         /\ chan' \in [Calls -> 0..MaxChannels]
         /\ conns' \in [Fibers -> 0..MaxChannels] /\ lock' \in Calls \cup {None}
         /\ Wired' /\ Named' /\ Told'
<1>0. TypeOK /\ net \in [Chans -> Channel] /\ conns \in [Fibers -> 0..MaxChannels] /\ lock \in Calls \cup {None}
  BY DEF TypeInv, TypeOK
<1>1. lock' \in Calls \cup {None}
  BY <1>0 DEF Look, LookAgain
<1>2. CASE Live(f)
  <2>1. SendOn(t, conns[f], net) /\ conns' = conns
    BY <1>2 DEF Look, LookAgain
  <2>2. conns[f] \in Chans /\ net[conns[f]].cli = "open"
    BY <1>0, <1>2, Constants DEF Live
  <2>3. \A d \in Chans : /\ net[d].srv => net[d].peer \in Fibers
                         /\ net[d].cli = "new" => net[d].peer = None
    BY DEF TypeInv, Wired
  <2>4. \A g \in Fibers : conns'[g] # None => net[conns'[g]].peer = g
    BY <2>1 DEF TypeInv, Wired
  <2>. QED  BY <1>0, <1>1, <2>1, <2>2, <2>3, <2>4, WaitType
<1>3. CASE ~Live(f)
  <2>1. PICK l \in {"locking", "opening"} : pc' = [pc EXCEPT ![t] = l]
    BY <1>3 DEF Look, LookAgain
  <2>2. conns' = [conns EXCEPT ![f] = None] /\ UNCHANGED <<net, chan>>
    BY <1>3 DEF Look, LookAgain
  <2>3. pc' \in [Calls -> {"new", "searching", "locking", "opening", "waiting"} \cup Ended]
    BY <1>0, <2>1 DEF TypeOK
  <2>4. conns' \in [Fibers -> 0..MaxChannels]
    <3>1. None \in 0..MaxChannels
      BY ClientAssumption DEF None
    <3>. QED  BY <1>0, <2>2, <3>1
  <2>5. Wired'
    BY <1>0, <2>2 DEF TypeInv, Wired
  <2>6. \A u \in Calls : pc'[u] = (IF u = t THEN l ELSE pc[u])
    BY <1>0, <2>1 DEF TypeOK
  <2>7. Named'
    BY <2>6, Constants DEF TypeInv, Named, Aims
  <2>8. Told'
    BY <2>2, <2>6 DEF TypeInv, Told, NobodyWaitsOnDead
  <2>9. net' \in [Chans -> Channel] /\ chan' \in [Calls -> 0..MaxChannels]
    BY <1>0, <2>2 DEF TypeOK
  <2>. QED  BY <1>1, <2>3, <2>4, <2>5, <2>7, <2>8, <2>9
<1>. QED  BY <1>2, <1>3

(* It begins, is told whom to call, and enters the lock.                   *)
LEMMA LookingType ==
  ASSUME TypeInv, NEW t \in Calls, Begin(t) \/ Found(t) \/ Lock(t)
  PROVE  TypeInv'
<1>0. /\ disc \in [Keys -> Target \cup {NoTarget}] /\ target \in [Calls -> Target \cup {NoTarget}]
      /\ pc \in [Calls -> {"new", "searching", "locking", "opening", "waiting"} \cup Ended]
      /\ \A k \in Keys : disc[k] # NoTarget => disc[k].fiber \in Hits[k]
      /\ Key[t] \in Keys
  BY Constants DEF TypeInv, TypeOK, Named
<1>1. UNCHANGED <<envVars, inbox, starts, ownVars>>
  BY DEF Begin, Found, Lock
<1>2. ASSUME NEW f \in Fibers, pc[t] # "waiting", Look(t, f) \/ LookAgain(t, f), Aims(t), target'[t].fiber = f
      PROVE  TypeInv'
  <2>1. inbox' = inbox
    BY <1>1
  <2>2. TypeOK'
    BY <1>1, <1>2, <2>1, LookType DEF TypeInv, TypeOK, Aims, envVars, ownVars
  <2>. QED  BY <1>2, <2>1, <2>2, LookType DEF TypeInv
<1>3. CASE Begin(t) /\ disc[Key[t]] = NoTarget
  <2>1. pc' = [pc EXCEPT ![t] = "searching"] /\ UNCHANGED <<disc, conns, lock, net, target, chan>>
    BY <1>3 DEF Begin
  <2>2. TypeOK'
    BY <1>1, <2>1 DEF TypeInv, TypeOK, envVars, ownVars
  <2>3. \A u \in Calls : pc'[u] = (IF u = t THEN "searching" ELSE pc[u])
    BY <1>0, <2>1
  <2>4. Wired' /\ Named' /\ Told'
    BY <1>1, <2>1, <2>3 DEF TypeInv, Wired, Named, Told, NobodyWaitsOnDead
  <2>. QED  BY <2>2, <2>4 DEF TypeInv
<1>4. CASE Begin(t) /\ disc[Key[t]] # NoTarget
  <2>1. disc[Key[t]] \in Target /\ disc[Key[t]].fiber \in Hits[Key[t]]
    BY <1>0, <1>4
  <2>2. target' = [target EXCEPT ![t] = disc[Key[t]]] /\ disc' = disc /\ Look(t, disc[Key[t]].fiber)
    BY <1>4 DEF Begin
  <2>3. Aims(t) /\ target'[t].fiber = disc[Key[t]].fiber
    BY <1>0, <2>1, <2>2 DEF Aims
  <2>4. disc[Key[t]].fiber \in Fibers /\ pc[t] # "waiting"
    BY <1>4, <2>1, Constants DEF Begin
  <2>. QED  BY <1>2, <2>2, <2>3, <2>4
<1>5. CASE Found(t)
  <2>1. PICK f \in Hits[Key[t]] :
          /\ listed[f] # None
          /\ disc' = [disc EXCEPT ![Key[t]] = [fiber |-> f, port |-> listed[f]]]
          /\ target' = [target EXCEPT ![t] = [fiber |-> f, port |-> listed[f]]]
          /\ Look(t, f)
    BY <1>5 DEF Found
  <2>. DEFINE d == [fiber |-> f, port |-> listed[f]]
  <2>2. f \in Fibers /\ listed[f] \in Ports
    BY <1>0, <2>1, Constants DEF TypeInv, TypeOK
  <2>3. d \in Target /\ d.fiber = f
    BY <2>2 DEF Target
  <2>. HIDE DEF d
  <2>4. /\ target' \in [Calls -> Target \cup {NoTarget}] /\ target'[t] = d
        /\ \A u \in Calls \ {t} : target'[u] = target[u]
    BY <1>0, <2>1, <2>3 DEF d
  <2>5. /\ disc' \in [Keys -> Target \cup {NoTarget}]
        /\ \A k \in Keys : disc'[k] # NoTarget => disc'[k].fiber \in Hits[k]
    BY <1>0, <2>1, <2>3 DEF d
  <2>6. Aims(t) /\ pc[t] # "waiting"
    BY <1>5, <2>1, <2>3, <2>4, <2>5 DEF Aims, Found
  <2>. QED  BY <1>2, <2>1, <2>2, <2>3, <2>4, <2>6
<1>6. CASE Lock(t)
  <2>1. pc[t] = "locking" /\ LookAgain(t, target[t].fiber) /\ UNCHANGED <<disc, target>>
    BY <1>6 DEF Lock
  <2>2. target[t] \in Target /\ target[t].fiber \in Hits[Key[t]]
    BY <1>0, <2>1 DEF TypeInv, Named
  <2>3. Aims(t) /\ target[t].fiber \in Fibers
    BY <1>0, <2>1, <2>2, Constants DEF Aims
  <2>. QED  BY <1>2, <2>1, <2>3
<1>. QED  BY <1>3, <1>4, <1>5, <1>6

(* Its channel opens, to the fiber it calls.                               *)
LEMMA ConnectedType ==
  ASSUME TypeInv, NEW t \in Calls, Connected(t)
  PROVE  /\ TypeInv'
         /\ \E c \in Chans : /\ net[c].cli = "new" /\ conns' = [conns EXCEPT ![target[t].fiber] = c]
                             /\ SendOn(t, c, [net EXCEPT ![c] = [Unopened EXCEPT !.peer = target[t].fiber, !.cli = "open", !.srv = TRUE]])
<1>. DEFINE g == target[t].fiber
            o == [Unopened EXCEPT !.peer = g, !.cli = "open", !.srv = TRUE]
<1>0. /\ net \in [Chans -> Channel] /\ conns \in [Fibers -> 0..MaxChannels]
      /\ disc \in [Keys -> Target \cup {NoTarget}] /\ target \in [Calls -> Target \cup {NoTarget}]
  BY DEF TypeInv, TypeOK
<1>1. /\ pc[t] = "opening" /\ UNCHANGED <<envVars, disc, target, inbox, starts, ownVars>>
      /\ OpenedTo(t, g, g)
  BY DEF Connected
<1>2. target[t] \in Target /\ g \in Hits[Key[t]] /\ g \in Fibers
  BY <1>0, <1>1, Constants DEF TypeInv, Named
<1>. HIDE DEF g
<1>3. PICK c \in Chans : /\ net[c].cli = "new" /\ conns' = [conns EXCEPT ![g] = c] /\ lock' = None
                         /\ SendOn(t, c, [net EXCEPT ![c] = o])
  BY <1>1 DEF OpenedTo
<1>. DEFINE n == [net EXCEPT ![c] = o]
<1>4. o \in Channel /\ o.peer = g /\ o.cli = "open"
  BY <1>2, UnopenedType DEF Channel
<1>. HIDE DEF o
<1>5. n \in [Chans -> Channel] /\ \A d \in Chans : n[d] = IF d = c THEN o ELSE net[d]
  BY <1>0, <1>4
<1>. HIDE DEF n
<1>6. Aims(t)
  BY <1>0, <1>1, <1>2 DEF Aims, TypeInv, Named, g
<1>7. /\ n[c].cli = "open"
      /\ \A d \in Chans : /\ n[d].cli # "open" => n[d].cli = net[d].cli
                          /\ n[d].srv => n[d].peer \in Fibers
                          /\ n[d].cli = "new" => n[d].peer = None
  BY <1>2, <1>4, <1>5 DEF TypeInv, Wired
<1>8. conns' \in [Fibers -> 0..MaxChannels]
  BY <1>0, <1>3, Constants
<1>9. \A f \in Fibers : conns'[f] # None => n[conns'[f]].peer = f
  <2>. SUFFICES ASSUME NEW f \in Fibers, conns'[f] # None PROVE n[conns'[f]].peer = f
    OBVIOUS
  <2>1. CASE f = g
    BY <1>0, <1>3, <1>4, <1>5, <2>1
  <2>2. CASE f # g
    <3>1. conns'[f] = conns[f] /\ conns[f] \in Chans /\ net[conns[f]].peer = f
      BY <1>0, <1>3, <2>2, Constants DEF TypeInv, Wired
    <3>2. conns[f] # c
      BY <1>3, <3>1, Constants DEF TypeInv, Wired
    <3>. QED  BY <1>5, <3>1, <3>2
  <2>. QED  BY <2>1, <2>2
<1>10. SendOn(t, c, n) /\ inbox' = inbox
  BY <1>1, <1>3 DEF n
<1>11. /\ net' \in [Chans -> Channel]
       /\ pc' \in [Calls -> {"new", "searching", "locking", "opening", "waiting"} \cup Ended]
       /\ chan' \in [Calls -> 0..MaxChannels]
       /\ Wired' /\ Named' /\ Told'
  BY <1>5, <1>6, <1>7, <1>8, <1>9, <1>10, WaitType
<1>12. TypeOK'
  BY <1>1, <1>3, <1>8, <1>11 DEF TypeInv, TypeOK, envVars, ownVars
<1>. QED  BY <1>3, <1>11, <1>12 DEF TypeInv, g, o

(* A call that ends: it no longer waits, and it may forget what it used.   *)
LEMMA EndsType ==
  ASSUME TypeInv, NEW t \in Calls, NEW e \in Ended, pc' = [pc EXCEPT ![t] = e],
         UNCHANGED <<disc, conns>> \/ Evict(t), target[t].fiber \in Fibers \/ UNCHANGED <<disc, conns>>,
         \/ UNCHANGED <<chan, inbox>>
         \/ chan' = [chan EXCEPT ![t] = None] /\ inbox' = [inbox EXCEPT ![t] = <<>>],
         lock' \in {lock, None}, UNCHANGED <<envVars, net, target, starts, ownVars>>
  PROVE  TypeInv'
<1>0. /\ disc \in [Keys -> Target \cup {NoTarget}] /\ conns \in [Fibers -> 0..MaxChannels]
      /\ pc \in [Calls -> {"new", "searching", "locking", "opening", "waiting"} \cup Ended]
      /\ chan \in [Calls -> 0..MaxChannels] /\ inbox \in [Calls -> Seq({"ok", "error", "closed"})]
      /\ None \in 0..MaxChannels /\ lock \in Calls \cup {None}
  BY ClientAssumption DEF TypeInv, TypeOK, None
<1>1. /\ disc' \in [Keys -> Target \cup {NoTarget}] /\ conns' \in [Fibers -> 0..MaxChannels]
      /\ \A k \in Keys : disc'[k] \in {disc[k], NoTarget}
      /\ \A f \in Fibers : conns'[f] \in {conns[f], None}
  BY <1>0 DEF Evict
<1>2. pc' \in [Calls -> {"new", "searching", "locking", "opening", "waiting"} \cup Ended]
  BY <1>0
<1>3. /\ chan' \in [Calls -> 0..MaxChannels]
      /\ \A u \in Calls \ {t} : chan'[u] = chan[u] /\ inbox'[u] = inbox[u] /\ pc'[u] = pc[u]
  BY <1>0
<1>4. inbox' \in [Calls -> Seq({"ok", "error", "closed"})]
  <2>1. <<>> \in Seq({"ok", "error", "closed"})
    OBVIOUS
  <2>. QED  BY <1>0, <2>1
<1>5. pc'[t] = e /\ e \notin {"new", "searching", "locking", "opening", "waiting"}
  BY <1>0 DEF Ended, Failed
<1>6. TypeOK'
  BY <1>0, <1>1, <1>2, <1>3, <1>4 DEF TypeInv, TypeOK, envVars, ownVars
<1>7. Wired'
  BY <1>1 DEF TypeInv, Wired
<1>8. Named'
  BY <1>1, <1>3, <1>5 DEF TypeInv, Named
<1>9. Told'
  BY <1>3, <1>5 DEF TypeInv, Told, NobodyWaitsOnDead
<1>. QED  BY <1>6, <1>7, <1>8, <1>9 DEF TypeInv

(* It is not sent, returns, fails or times out.                            *)
LEMMA EndingType ==
  ASSUME TypeInv, NEW t \in Calls,
         \/ NotFound(t) \/ WrongPeer(t) \/ Refused(t)
         \/ Return(t) \/ RemoteError(t) \/ Closed(t) \/ Timeout(t)
  PROVE  /\ TypeInv'
         /\ \E e \in Ended : pc' = [pc EXCEPT ![t] = e]
         /\ UNCHANGED <<net, target, starts>>
<1>1. pc[t] \in {"opening", "waiting"} => target[t].fiber \in Fibers
  BY Constants DEF TypeInv, TypeOK, Named
<1>2. {"unsent", "error", "closed", "timeout", "ok", "cut"} = Ended
  BY DEF Ended, Failed
<1>3. CASE NotFound(t)
  BY <1>2, <1>3, EndsType DEF NotFound, cacheVars
<1>4. CASE WrongPeer(t)
  BY <1>2, <1>4, EndsType DEF WrongPeer
<1>5. CASE Refused(t)
  BY <1>1, <1>2, <1>5, EndsType DEF Refused
<1>6. CASE Return(t)
  BY <1>2, <1>6, EndsType DEF Return, Finish, cacheVars
<1>7. CASE RemoteError(t)
  <2>1. CASE t \in Streamed
    BY <1>1, <1>2, <1>7, <2>1, EndsType DEF RemoteError, Finish
  <2>2. CASE t \notin Streamed
    BY <1>1, <1>2, <1>7, <2>2, EndsType DEF RemoteError, Finish
  <2>. QED  BY <2>1, <2>2
<1>8. CASE Closed(t)
  <2>1. CASE t \in Streamed
    BY <1>1, <1>2, <1>8, <2>1, EndsType DEF Closed, Finish
  <2>2. CASE t \notin Streamed
    BY <1>1, <1>2, <1>8, <2>2, EndsType DEF Closed, Finish
  <2>. QED  BY <2>1, <2>2
<1>9. CASE Timeout(t)
  BY <1>1, <1>2, <1>9, EndsType DEF Timeout, Finish
<1>. QED  BY <1>3, <1>4, <1>5, <1>6, <1>7, <1>8, <1>9

(* The client closes: one channel, or all that it knew.                    *)
LEMMA VisitType ==
  ASSUME TypeInv, NEW done \in SUBSET Chans, Visit(done) \/ Visited(done),
         UNCHANGED <<envVars, lock, pc, target, chan, starts>>, size' \in Nat
  PROVE  /\ TypeInv'
         /\ \A c \in Chans : /\ net'[c].reqs = net[c].reqs /\ net'[c].busy = net[c].busy
                             /\ net'[c].back \in {net[c].back, <<>>}
                             /\ net'[c].peer = net[c].peer
         /\ \A t \in Calls : \A i \in 1..Len(inbox'[t]) :
               inbox'[t][i] = "closed" \/ (i \in 1..Len(inbox[t]) /\ inbox'[t][i] = inbox[t][i])
<1>0. /\ net \in [Chans -> Channel] /\ conns \in [Fibers -> 0..MaxChannels]
      /\ \A t \in Calls : inbox[t] \in Seq({"ok", "error", "closed"})
  BY DEF TypeInv, TypeOK
<1>1. CASE Visited(done)
  <2>1. /\ conns' = [f \in Fibers |-> None] /\ disc' = [k \in Keys |-> NoTarget]
        /\ owner' = "closed" /\ visited' = {} /\ UNCHANGED <<net, inbox>>
    BY <1>1 DEF Visited
  <2>2. None \in 0..MaxChannels
    BY ClientAssumption DEF None
  <2>3. TypeOK'
    BY <2>1, <2>2 DEF TypeInv, TypeOK, envVars
  <2>4. Wired' /\ Named' /\ Told'
    BY <2>1 DEF TypeInv, Wired, Named, Told, NobodyWaitsOnDead
  <2>. QED  BY <2>1, <2>3, <2>4 DEF TypeInv
<1>2. CASE Visit(done)
  <2>1. PICK f \in Cached :
          /\ net' = [net EXCEPT ![conns[f]].cli = "closed", ![conns[f]].back = <<>>]
          /\ IF net[conns[f]].cli = "open" THEN Teardown(conns[f]) ELSE UNCHANGED inbox
          /\ visited' = done \cup {conns[f]} /\ owner' = "closing" /\ UNCHANGED <<disc, conns>>
    BY <1>2 DEF Visit
  <2>. DEFINE c == conns[f]
              n == [net[c] EXCEPT !.cli = "closed", !.back = <<>>]
  <2>2. c \in Chans
    BY <1>0, <2>1, Constants DEF Cached
  <2>3. net[c] \in Channel /\ <<>> \in Seq(Frame)
    BY <1>0, <2>2
  <2>4. /\ n \in Channel /\ n.peer = net[c].peer /\ n.cli = "closed" /\ n.srv = net[c].srv
        /\ n.reqs = net[c].reqs /\ n.busy = net[c].busy /\ n.back = <<>>
    BY <2>3 DEF Channel
  <2>5. net' = [net EXCEPT ![c] = n]
    BY <1>0, <2>1, <2>2
  <2>. HIDE DEF n
  <2>6. net' \in [Chans -> Channel] /\ \A d \in Chans : net'[d] = IF d = c THEN n ELSE net[d]
    BY <1>0, <2>4, <2>5
  <2>7. /\ inbox' \in [Calls -> Seq({"ok", "error", "closed"})]
        /\ \A t \in Calls : inbox[t] # <<>> => inbox'[t] # <<>>
        /\ \A t \in Calls : pc[t] = "waiting" /\ chan[t] = c /\ net[c].cli = "open" => inbox'[t] # <<>>
        /\ \A t \in Calls : \A i \in 1..Len(inbox'[t]) :
              inbox'[t][i] = "closed" \/ (i \in 1..Len(inbox[t]) /\ inbox'[t][i] = inbox[t][i])
    BY <2>1, <2>2, TeardownType DEF TypeInv, TypeOK
  <2>8. TypeOK'
    BY <2>1, <2>2, <2>6, <2>7 DEF TypeInv, TypeOK, envVars
  <2>9. Wired'
    BY <1>0, <2>1, <2>4, <2>6, Constants DEF TypeInv, Wired
  <2>10. Named'
    BY <2>1 DEF TypeInv, Named
  <2>11. Told'
    BY <2>4, <2>6, <2>7 DEF TypeInv, Told, NobodyWaitsOnDead
  <2>. QED  BY <2>4, <2>6, <2>7, <2>8, <2>9, <2>10, <2>11 DEF TypeInv
<1>. QED  BY <1>1, <1>2

LEMMA CloseType ==
  ASSUME TypeInv, Close \/ CloseOn
  PROVE  /\ TypeInv'
         /\ \A c \in Chans : /\ net'[c].reqs = net[c].reqs /\ net'[c].busy = net[c].busy
                             /\ net'[c].back \in {net[c].back, <<>>}
                             /\ net'[c].peer = net[c].peer
         /\ \A t \in Calls : \A i \in 1..Len(inbox'[t]) :
               inbox'[t][i] = "closed" \/ (i \in 1..Len(inbox[t]) /\ inbox'[t][i] = inbox[t][i])
         /\ UNCHANGED <<pc, target, starts>>
<1>1. PICK done \in SUBSET Chans : Visit(done) \/ Visited(done)
  BY DEF TypeInv, TypeOK, Close, CloseOn
<1>2. size' \in Nat /\ UNCHANGED <<envVars, lock, pc, target, chan, starts>>
  <2>1. size' \in Nat
    <3>1. size' = Cardinality(Cached) \/ size' = 0
      BY <1>1 DEF Close, CloseOn, Visit, Visited
    <3>. QED  BY <3>1, CachedSize
  <2>. QED  BY <2>1 DEF Close, CloseOn
<1>. QED  BY <1>1, <1>2, VisitType

LEMMA CloseRaisesType == TypeInv /\ CloseRaises => TypeInv'
BY DEF TypeInv, TypeOK, Wired, Named, Told, NobodyWaitsOnDead, CloseRaises, envVars, cacheVars, callVars, None

LEMMA StepType == TypeInv /\ [Next]_vars => TypeInv'
<1>. SUFFICES ASSUME TypeInv, [Next]_vars PROVE TypeInv'
  OBVIOUS
<1>1. CASE UNCHANGED vars
  BY <1>1 DEF TypeInv, TypeOK, Wired, Named, Told, NobodyWaitsOnDead, vars, envVars, cacheVars, callVars, ownVars
<1>2. CASE Next
  BY <1>2, FibersType, ServeType, ReaderType, LookingType, ConnectedType, EndingType, CloseType, CloseRaisesType
  DEF Next
<1>. QED  BY <1>1, <1>2

(* Every reachable state of the client is of its type.                     *)
THEOREM ClientTypeCorrect == Spec => []TypeOK
<1>1. Init => TypeInv
  BY InitType
<1>2. TypeInv /\ [Next]_vars => TypeInv'
  BY StepType
<1>3. TypeInv => TypeOK
  BY DEF TypeInv
<1>. QED  BY <1>1, <1>2, <1>3, PTL DEF Spec

(* However its channel ends (the reader, Client.close), and whatever       *)
(* others evict, a call that waits has been told.                          *)
THEOREM DeadChannelsAreTold == Spec => []NobodyWaitsOnDead
<1>1. Init => TypeInv
  BY InitType
<1>2. TypeInv /\ [Next]_vars => TypeInv'
  BY StepType
<1>3. TypeInv => NobodyWaitsOnDead
  BY DEF TypeInv, Told
<1>. QED  BY <1>1, <1>2, <1>3, PTL DEF Spec

-----------------------------------------------------------------------------
(* At most once, by the fiber that was discovered. A request lies in one   *)
(* place of one channel, the channel of the fiber its call names, and is   *)
(* not started yet; whatever speaks of an answer is of a call that is.     *)

Lies(t, c, i) == i \in 1..Len(net[c].reqs) /\ net[c].reqs[i] = t

Asked ==
    /\ \A t \in Calls, c \in Chans, i \in Nat : Lies(t, c, i) =>
          /\ starts[t] = <<>> /\ target[t].fiber = net[c].peer
          /\ pc[t] \in {"waiting", "closed", "timeout", "cut"}
    /\ \A t \in Calls, c, d \in Chans, i, j \in Nat :
          Lies(t, c, i) /\ Lies(t, d, j) => c = d /\ i = j

StartedFor(t) ==
    /\ Len(starts[t]) <= 1
    /\ starts[t] # <<>> => target[t] # NoTarget /\ starts[t][1] = target[t].fiber
    /\ pc[t] \in {"new", "searching", "locking", "opening", "unsent"} => starts[t] = <<>>
    /\ pc[t] \in {"ok", "error"} => starts[t] # <<>>
    /\ \A i \in 1..Len(inbox[t]) : inbox[t][i] # "closed" => starts[t] # <<>>

Answered ==
    \A c \in Chans : /\ net[c].busy # None => starts[net[c].busy] # <<>>
                     /\ \A i \in 1..Len(net[c].back) : starts[net[c].back[i].call] # <<>>

ClientInv == TypeInv /\ Asked /\ (\A t \in Calls : StartedFor(t)) /\ Answered

LEMMA InitClientInv == Init => ClientInv
<1>. SUFFICES ASSUME Init PROVE ClientInv
  OBVIOUS
<1>1. \A c \in Chans : net[c].reqs = <<>> /\ net[c].busy = None /\ net[c].back = <<>>
  BY UnopenedType DEF Init
<1>2. Asked
  BY <1>1 DEF Asked, Lies
<1>3. ASSUME NEW t \in Calls PROVE StartedFor(t)
  BY DEF Init, StartedFor
<1>4. Answered
  BY <1>1 DEF Answered
<1>. QED  BY <1>2, <1>3, <1>4, InitType DEF ClientInv

(* A step by which channels lose what lies in them, and calls are told     *)
(* that they closed.                                                       *)
LEMMA LessInv ==
  ASSUME ClientInv, UNCHANGED <<pc, target, starts>>,
         \A c \in Chans : /\ net'[c].reqs \in {net[c].reqs, <<>>}
                          /\ net'[c].busy \in {net[c].busy, None}
                          /\ net'[c].back \in {net[c].back, <<>>}
                          /\ net'[c].peer = net[c].peer,
         \A t \in Calls : \A i \in 1..Len(inbox'[t]) :
            inbox'[t][i] = "closed" \/ (i \in 1..Len(inbox[t]) /\ inbox'[t][i] = inbox[t][i])
  PROVE  Asked' /\ (\A t \in Calls : StartedFor(t)') /\ Answered'
<1>1. \A t \in Calls, c \in Chans, i \in Nat : Lies(t, c, i)' => Lies(t, c, i)
  BY DEF Lies
<1>2. Asked'
  BY <1>1 DEF ClientInv, Asked
<1>3. ASSUME NEW t \in Calls PROVE StartedFor(t)'
  BY DEF ClientInv, StartedFor
<1>4. Answered'
  BY DEF ClientInv, Answered
<1>. QED  BY <1>2, <1>3, <1>4

(* A fiber starts the handler of the call whose request is next.           *)
LEMMA ServeTakeInv ==
  ASSUME ClientInv, NEW c \in Chans, ServeTake(c)
  PROVE  Asked' /\ (\A t \in Calls : StartedFor(t)') /\ Answered'
<1>. DEFINE t == Head(net[c].reqs)
            n == [net[c] EXCEPT !.busy = t, !.reqs = Tail(@)]
<1>0. net \in [Chans -> Channel] /\ net[c] \in Channel /\ starts \in [Calls -> Seq(Fibers)]
  BY DEF ClientInv, TypeInv, TypeOK
<1>1. net[c].reqs \in Seq(Calls) /\ net[c].reqs # <<>> /\ net[c].peer \in Fibers
  BY <1>0 DEF ServeTake, Channel, ClientInv, TypeInv, Wired
<1>2. /\ t \in Calls /\ Lies(t, c, 1)
      /\ Len(Tail(net[c].reqs)) = Len(net[c].reqs) - 1
      /\ \A i \in 1..Len(Tail(net[c].reqs)) : Tail(net[c].reqs)[i] = net[c].reqs[i + 1]
  BY <1>1 DEF Lies
<1>3. n.busy = t /\ n.reqs = Tail(net[c].reqs) /\ n.back = net[c].back /\ n.peer = net[c].peer
  BY <1>0 DEF Channel
<1>4. /\ net' = [net EXCEPT ![c] = n] /\ starts' = [starts EXCEPT ![t] = Append(@, net[c].peer)]
      /\ UNCHANGED <<pc, target, inbox>>
  BY <1>0 DEF ServeTake, callVars
<1>. HIDE DEF n, t
<1>5. \A d \in Chans : net'[d] = IF d = c THEN n ELSE net[d]
  BY <1>0, <1>4
<1>6. /\ starts[t] = <<>> /\ target[t].fiber = net[c].peer
      /\ pc[t] \in {"waiting", "closed", "timeout", "cut"}
  BY <1>2 DEF ClientInv, Asked
<1>7. starts'[t] = <<net[c].peer>> /\ \A u \in Calls \ {t} : starts'[u] = starts[u]
  BY <1>0, <1>1, <1>2, <1>4, <1>6
<1>8. ASSUME NEW u \in Calls, NEW d \in Chans, NEW i \in Nat, Lies(u, d, i)'
      PROVE  /\ Lies(u, d, IF d = c THEN i + 1 ELSE i) /\ u # t
             /\ net'[d].peer = net[d].peer
  <2>1. CASE d # c
    <3>1. Lies(u, d, i) /\ net'[d].peer = net[d].peer
      BY <1>5, <1>8, <2>1 DEF Lies
    <3>2. u # t
      BY <1>2, <2>1, <3>1 DEF ClientInv, Asked
    <3>. QED  BY <2>1, <3>1, <3>2
  <2>2. CASE d = c
    <3>1. net'[c] = n /\ i \in 1..Len(Tail(net[c].reqs)) /\ Tail(net[c].reqs)[i] = u
      BY <1>3, <1>5, <1>8, <2>2 DEF Lies
    <3>2. Lies(u, c, i + 1) /\ i + 1 \in Nat /\ i + 1 # 1
      BY <1>1, <1>2, <3>1 DEF Lies
    <3>3. u # t
      BY <1>2, <3>2 DEF ClientInv, Asked
    <3>. QED  BY <1>3, <2>2, <3>1, <3>2, <3>3
  <2>. QED  BY <2>1, <2>2
<1>9. Asked'
  <2>1. ASSUME NEW u \in Calls, NEW d \in Chans, NEW i \in Nat, Lies(u, d, i)'
        PROVE  (/\ starts[u] = <<>> /\ target[u].fiber = net[d].peer
                /\ pc[u] \in {"waiting", "closed", "timeout", "cut"})'
    <3>1. Lies(u, d, IF d = c THEN i + 1 ELSE i) /\ u # t /\ net'[d].peer = net[d].peer
      BY <1>8, <2>1
    <3>2. (IF d = c THEN i + 1 ELSE i) \in Nat
      OBVIOUS
    <3>. QED  BY <1>4, <1>7, <3>1, <3>2 DEF ClientInv, Asked
  <2>2. ASSUME NEW u \in Calls, NEW d \in Chans, NEW e \in Chans, NEW i \in Nat, NEW j \in Nat,
               Lies(u, d, i)', Lies(u, e, j)'
        PROVE  d = e /\ i = j
    <3>1. /\ Lies(u, d, IF d = c THEN i + 1 ELSE i) /\ Lies(u, e, IF e = c THEN j + 1 ELSE j)
          /\ (IF d = c THEN i + 1 ELSE i) \in Nat /\ (IF e = c THEN j + 1 ELSE j) \in Nat
      BY <1>8, <2>2
    <3>2. d = e /\ (IF d = c THEN i + 1 ELSE i) = (IF e = c THEN j + 1 ELSE j)
      BY <3>1 DEF ClientInv, Asked
    <3>. QED  BY <3>2
  <2>. QED  BY <2>1, <2>2 DEF Asked
<1>10. ASSUME NEW u \in Calls PROVE StartedFor(u)'
  <2>1. CASE u # t
    BY <1>4, <1>7, <2>1 DEF ClientInv, StartedFor
  <2>2. CASE u = t
    <3>1. target[t] # NoTarget
      BY <1>1, <1>6, Constants DEF NoTarget
    <3>2. Len(starts'[t]) = 1 /\ starts'[t] # <<>> /\ starts'[t][1] = net[c].peer
      BY <1>7
    <3>. QED  BY <1>4, <1>6, <2>2, <3>1, <3>2 DEF StartedFor
  <2>. QED  BY <2>1, <2>2
<1>11. Answered'
  <2>1. \A u \in Calls : starts[u] # <<>> => starts'[u] # <<>>
    BY <1>6, <1>7
  <2>2. ASSUME NEW d \in Chans, net'[d].busy # None PROVE starts'[net'[d].busy] # <<>>
    <3>1. net[d].busy \in Calls \cup {None}
      BY <1>0 DEF Channel
    <3>2. CASE d # c
      BY <1>5, <2>1, <2>2, <3>1, <3>2 DEF ClientInv, Answered
    <3>3. CASE d = c
      BY <1>3, <1>5, <1>7, <3>3
    <3>. QED  BY <3>2, <3>3
  <2>3. ASSUME NEW d \in Chans, NEW i \in 1..Len(net'[d].back) PROVE starts'[net'[d].back[i].call] # <<>>
    <3>1. net'[d].back = net[d].back
      BY <1>3, <1>5
    <3>2. net[d].back \in Seq(Frame)
      BY <1>0 DEF Channel
    <3>3. net[d].back[i] \in Frame
      BY <3>1, <3>2
    <3>4. net[d].back[i].call \in Calls
      BY <3>3 DEF Frame
    <3>. QED  BY <2>1, <3>1, <3>4 DEF ClientInv, Answered
  <2>. QED  BY <2>2, <2>3 DEF Answered
<1>. QED  BY <1>9, <1>10, <1>11

(* It answers.                                                             *)
LEMMA ServeReplyInv ==
  ASSUME ClientInv, NEW c \in Chans, NEW kind \in {"ok", "error"}, ServeReply(c, kind)
  PROVE  Asked' /\ (\A t \in Calls : StartedFor(t)') /\ Answered'
<1>. DEFINE r == [call |-> net[c].busy, kind |-> kind]
            n == [net[c] EXCEPT !.busy = None, !.back = IF net[c].cli = "open" THEN Append(@, r) ELSE @]
<1>0. net \in [Chans -> Channel] /\ net[c] \in Channel /\ net[c].back \in Seq(Frame)
  BY DEF ClientInv, TypeInv, TypeOK, Channel
<1>1. net[c].busy \in Calls /\ starts[net[c].busy] # <<>>
  BY <1>0 DEF ServeReply, Channel, ClientInv, Answered
<1>2. r \in Frame /\ r.call = net[c].busy
  BY <1>1 DEF Frame
<1>3. /\ n.busy = None /\ n.reqs = net[c].reqs /\ n.peer = net[c].peer
      /\ n.back \in {net[c].back, Append(net[c].back, r)}
  BY <1>0 DEF Channel
<1>4. net' = [net EXCEPT ![c] = n] /\ UNCHANGED <<pc, target, inbox, starts>>
  BY <1>0 DEF ServeReply, callVars
<1>. HIDE DEF n, r
<1>5. \A d \in Chans : net'[d] = IF d = c THEN n ELSE net[d]
  BY <1>0, <1>4
<1>6. \A u \in Calls, d \in Chans, i \in Nat : Lies(u, d, i)' => Lies(u, d, i)
  BY <1>3, <1>5 DEF Lies
<1>7. \A d \in Chans : net'[d].peer = net[d].peer
  BY <1>3, <1>5
<1>8. Asked'
  BY <1>4, <1>6, <1>7 DEF ClientInv, Asked
<1>9. ASSUME NEW t \in Calls PROVE StartedFor(t)'
  BY <1>4 DEF ClientInv, StartedFor
<1>10. \A i \in 1..Len(n.back) : starts[n.back[i].call] # <<>>
  <2>1. \A i \in 1..Len(net[c].back) : starts[net[c].back[i].call] # <<>>
    BY DEF ClientInv, Answered
  <2>2. \A i \in 1..Len(Append(net[c].back, r)) :
           Append(net[c].back, r)[i] = r \/ (i \in 1..Len(net[c].back) /\ Append(net[c].back, r)[i] = net[c].back[i])
    BY <1>0, <1>2
  <2>. QED  BY <1>1, <1>2, <1>3, <2>1, <2>2
<1>11. Answered'
  BY <1>3, <1>4, <1>5, <1>10 DEF ClientInv, Answered
<1>. QED  BY <1>8, <1>9, <1>11

(* The client hears the answer.                                            *)
LEMMA ReaderRouteInv ==
  ASSUME ClientInv, NEW c \in Chans, ReaderRoute(c)
  PROVE  Asked' /\ (\A t \in Calls : StartedFor(t)') /\ Answered'
<1>. DEFINE f == Head(net[c].back)
            n == [net[c] EXCEPT !.back = Tail(@)]
<1>0. net \in [Chans -> Channel] /\ net[c] \in Channel /\ net[c].back \in Seq(Frame) /\ net[c].back # <<>>
  BY DEF ClientInv, TypeInv, TypeOK, Channel, ReaderRoute
<1>1. f \in Frame /\ f = net[c].back[1] /\ 1 \in 1..Len(net[c].back)
  BY <1>0
<1>2. f.call \in Calls /\ starts[f.call] # <<>>
  BY <1>1 DEF Frame, ClientInv, Answered
<1>3. /\ n.busy = net[c].busy /\ n.reqs = net[c].reqs /\ n.peer = net[c].peer
      /\ n.back = Tail(net[c].back)
  BY <1>0 DEF Channel
<1>4. /\ net' = [net EXCEPT ![c] = n] /\ UNCHANGED <<pc, target, starts>>
      /\ inbox' = IF pc[f.call] = "waiting" THEN [inbox EXCEPT ![f.call] = Append(@, f.kind)] ELSE inbox
  BY <1>0 DEF ReaderRoute
<1>. HIDE DEF n, f
<1>5. \A d \in Chans : net'[d] = IF d = c THEN n ELSE net[d]
  BY <1>0, <1>4
<1>6. \A u \in Calls, d \in Chans, i \in Nat : Lies(u, d, i)' => Lies(u, d, i)
  BY <1>3, <1>5 DEF Lies
<1>7. \A d \in Chans : net'[d].peer = net[d].peer
  BY <1>3, <1>5
<1>8. Asked'
  BY <1>4, <1>6, <1>7 DEF ClientInv, Asked
<1>9. ASSUME NEW t \in Calls PROVE StartedFor(t)'
  <2>0. inbox \in [Calls -> Seq({"ok", "error", "closed"})]
    BY DEF ClientInv, TypeInv, TypeOK
  <2>1. inbox'[t] = inbox[t] \/ (t = f.call /\ inbox'[t] = Append(inbox[t], f.kind))
    BY <1>2, <1>4, <2>0
  <2>2. inbox'[t] = inbox[t] \/ starts[t] # <<>>
    BY <1>2, <2>1
  <2>. QED  BY <1>4, <2>2 DEF ClientInv, StartedFor
<1>10. \A i \in 1..Len(n.back) : starts[n.back[i].call] # <<>>
  <2>1. \A i \in 1..Len(net[c].back) : starts[net[c].back[i].call] # <<>>
    BY DEF ClientInv, Answered
  <2>2. \A i \in 1..Len(n.back) : i + 1 \in 1..Len(net[c].back) /\ n.back[i] = net[c].back[i + 1]
    BY <1>0, <1>3
  <2>. QED  BY <2>1, <2>2
<1>11. Answered'
  <2>1. ASSUME NEW d \in Chans
        PROVE  (/\ net[d].busy # None => starts[net[d].busy] # <<>>
                /\ \A i \in 1..Len(net[d].back) : starts[net[d].back[i].call] # <<>>)'
    <3>1. CASE d = c
      BY <1>3, <1>4, <1>5, <1>10, <3>1 DEF ClientInv, Answered
    <3>2. CASE d # c
      BY <1>4, <1>5, <3>2 DEF ClientInv, Answered
    <3>. QED  BY <3>1, <3>2
  <2>. QED  BY <2>1 DEF Answered
<1>. QED  BY <1>8, <1>9, <1>11

LEMMA ReaderEofInv ==
  ASSUME ClientInv, NEW c \in Chans, ReaderEof(c)
  PROVE  Asked' /\ (\A t \in Calls : StartedFor(t)') /\ Answered'
<1>. DEFINE n == [net[c] EXCEPT !.cli = "dead"]
<1>0. net \in [Chans -> Channel] /\ net[c] \in Channel
  BY DEF ClientInv, TypeInv, TypeOK
<1>1. n.busy = net[c].busy /\ n.reqs = net[c].reqs /\ n.peer = net[c].peer /\ n.back = net[c].back
  BY <1>0 DEF Channel
<1>2. net' = [net EXCEPT ![c] = n] /\ UNCHANGED <<pc, target, starts>> /\ Teardown(c)
  BY <1>0 DEF ReaderEof
<1>. HIDE DEF n
<1>3. \A d \in Chans : /\ net'[d].reqs = net[d].reqs /\ net'[d].busy = net[d].busy
                       /\ net'[d].back = net[d].back /\ net'[d].peer = net[d].peer
  BY <1>0, <1>1, <1>2
<1>4. TypeOK
  BY DEF ClientInv, TypeInv
<1>. QED  BY <1>2, <1>3, <1>4, TeardownType, LessInv

(* A call ends: it is executed if it was answered, it is not if it was     *)
(* never sent, and it may lie in a channel otherwise.                      *)
LEMMA EndingInv ==
  ASSUME ClientInv, NEW t \in Calls,
         \/ NotFound(t) \/ WrongPeer(t) \/ Refused(t)
         \/ Return(t) \/ RemoteError(t) \/ Closed(t) \/ Timeout(t)
  PROVE  Asked' /\ (\A u \in Calls : StartedFor(u)') /\ Answered'
<1>0. /\ pc \in [Calls -> {"new", "searching", "locking", "opening", "waiting"} \cup Ended]
      /\ inbox \in [Calls -> Seq({"ok", "error", "closed"})]
  BY DEF ClientInv, TypeInv, TypeOK
<1>1. UNCHANGED <<net, target, starts>>
  BY EndingType DEF ClientInv
<1>2. inbox' = inbox \/ inbox' = [inbox EXCEPT ![t] = <<>>]
  BY DEF NotFound, WrongPeer, Refused, Return, RemoteError, Closed, Timeout, Finish
<1>3. PICK e \in Ended :
         /\ pc' = [pc EXCEPT ![t] = e]
         /\ \/ e = "unsent" /\ pc[t] \in {"searching", "opening"}
            \/ e \in {"closed", "timeout", "cut"} /\ pc[t] = "waiting"
            \/ e \in {"ok", "error"} /\ starts[t] # <<>>
  <2>1. CASE NotFound(t) \/ WrongPeer(t) \/ Refused(t)
    BY <2>1 DEF NotFound, WrongPeer, Refused, Ended, Failed
  <2>2. ASSUME inbox[t] # <<>>, Head(inbox[t]) # "closed" PROVE starts[t] # <<>>
    <3>1. 1 \in 1..Len(inbox[t]) /\ Head(inbox[t]) = inbox[t][1]
      BY <1>0, <2>2
    <3>. QED  BY <2>2, <3>1 DEF ClientInv, StartedFor
  <2>3. CASE Return(t)
    BY <2>2, <2>3 DEF Return, Finish, Ended
  <2>4. CASE RemoteError(t)
    BY <2>2, <2>4 DEF RemoteError, Finish, Ended, Failed
  <2>5. CASE Closed(t) \/ Timeout(t)
    BY <2>5 DEF Closed, Timeout, Finish, Ended, Failed
  <2>. QED  BY <2>1, <2>3, <2>4, <2>5
<1>4. \A u \in Calls : pc'[u] = IF u = t THEN e ELSE pc[u]
  BY <1>0, <1>3
<1>5. \A u \in Calls, d \in Chans, i \in Nat : Lies(u, d, i)' <=> Lies(u, d, i)
  BY <1>1 DEF Lies
<1>6. Asked'
  BY <1>1, <1>3, <1>4, <1>5 DEF ClientInv, Asked
<1>7. ASSUME NEW u \in Calls PROVE StartedFor(u)'
  <2>1. inbox'[u] = inbox[u] \/ inbox'[u] = <<>>
    BY <1>0, <1>2
  <2>. QED  BY <1>1, <1>3, <1>4, <2>1 DEF ClientInv, StartedFor
<1>8. Answered'
  BY <1>1 DEF ClientInv, Answered
<1>. QED  BY <1>6, <1>7, <1>8

(* A call that was neither sent nor started is sent.                       *)
LEMMA SendInv ==
  ASSUME ClientInv, NEW t \in Calls, NEW c \in Chans, NEW n \in [Chans -> Channel],
         SendOn(t, c, n), pc[t] \in {"new", "searching", "locking", "opening"},
         target'[t].fiber = n[c].peer, \A u \in Calls \ {t} : target'[u] = target[u],
         UNCHANGED <<inbox, starts>>,
         \A d \in Chans : /\ n[d].reqs = <<>> \/ (n[d].reqs = net[d].reqs /\ n[d].peer = net[d].peer)
                          /\ n[d].busy \in {net[d].busy, None} /\ n[d].back \in {net[d].back, <<>>}
  PROVE  Asked' /\ (\A u \in Calls : StartedFor(u)') /\ Answered'
<1>0. TypeOK /\ pc \in [Calls -> {"new", "searching", "locking", "opening", "waiting"} \cup Ended]
  BY DEF ClientInv, TypeInv, TypeOK
<1>1. /\ pc' = [pc EXCEPT ![t] = "waiting"]
      /\ \A d \in Chans : /\ net'[d].peer = n[d].peer
                          /\ net'[d].busy = n[d].busy /\ net'[d].back = n[d].back
                          /\ net'[d].reqs = n[d].reqs \/ (d = c /\ net'[d].reqs = Append(n[d].reqs, t))
  BY <1>0, SendOnType
<1>2. \A u \in Calls : pc'[u] = IF u = t THEN "waiting" ELSE pc[u]
  BY <1>0, <1>1
<1>3. starts[t] = <<>> /\ \A d \in Chans, i \in Nat : ~Lies(t, d, i)
  BY DEF ClientInv, Asked, StartedFor
<1>4. ASSUME NEW u \in Calls, NEW d \in Chans, NEW i \in Nat, Lies(u, d, i)'
      PROVE  \/ u = t /\ d = c /\ i = Len(n[c].reqs) + 1
             \/ u # t /\ Lies(u, d, i) /\ net'[d].peer = net[d].peer
  <2>1. n[d].reqs \in Seq(Calls)
    BY DEF Channel
  <2>2. i \in 1..Len(net'[d].reqs) /\ net'[d].reqs[i] = u
    BY <1>4 DEF Lies
  <2>3. CASE i \in 1..Len(n[d].reqs) /\ n[d].reqs[i] = u
    <3>1. n[d].reqs = net[d].reqs /\ net'[d].peer = net[d].peer
      BY <1>1, <2>3
    <3>2. Lies(u, d, i)
      BY <2>3, <3>1 DEF Lies
    <3>. QED  BY <1>3, <3>1, <3>2
  <2>4. CASE d = c /\ i = Len(n[c].reqs) + 1 /\ u = t
    BY <2>4
  <2>5. net'[d].reqs = n[d].reqs \/ (d = c /\ net'[d].reqs = Append(n[d].reqs, t))
    BY <1>1
  <2>. QED  BY <2>1, <2>2, <2>3, <2>4, <2>5
<1>5. Asked'
  <2>1. ASSUME NEW u \in Calls, NEW d \in Chans, NEW i \in Nat, Lies(u, d, i)'
        PROVE  (/\ starts[u] = <<>> /\ target[u].fiber = net[d].peer
                /\ pc[u] \in {"waiting", "closed", "timeout", "cut"})'
    <3>1. CASE u = t
      BY <1>1, <1>2, <1>3, <1>4, <2>1, <3>1
    <3>2. CASE u # t
      <4>1. Lies(u, d, i) /\ net'[d].peer = net[d].peer
        BY <1>4, <2>1, <3>2
      <4>. QED  BY <1>2, <3>2, <4>1 DEF ClientInv, Asked
    <3>. QED  BY <3>1, <3>2
  <2>2. ASSUME NEW u \in Calls, NEW d \in Chans, NEW e \in Chans, NEW i \in Nat, NEW j \in Nat,
               Lies(u, d, i)', Lies(u, e, j)'
        PROVE  d = e /\ i = j
    BY <1>4, <2>2 DEF ClientInv, Asked
  <2>. QED  BY <2>1, <2>2 DEF Asked
<1>6. ASSUME NEW u \in Calls PROVE StartedFor(u)'
  <2>1. CASE u # t
    BY <1>2, <2>1 DEF ClientInv, StartedFor
  <2>2. CASE u = t
    BY <1>2, <1>3, <2>2 DEF ClientInv, StartedFor
  <2>. QED  BY <2>1, <2>2
<1>7. Answered'
  <2>1. \A d \in Chans : net'[d].busy \in {net[d].busy, None} /\ net'[d].back \in {net[d].back, <<>>}
    BY <1>1
  <2>. QED  BY <2>1 DEF ClientInv, Answered
<1>. QED  BY <1>5, <1>6, <1>7

(* So it is however the call comes to its channel.                         *)
LEMMA LookInv ==
  ASSUME ClientInv, NEW t \in Calls, NEW f \in Fibers, pc[t] \in {"new", "searching", "locking"},
         Look(t, f) \/ LookAgain(t, f), target'[t].fiber = f,
         \A u \in Calls \ {t} : target'[u] = target[u], UNCHANGED <<inbox, starts>>
  PROVE  Asked' /\ (\A u \in Calls : StartedFor(u)') /\ Answered'
<1>0. /\ net \in [Chans -> Channel] /\ conns \in [Fibers -> 0..MaxChannels]
      /\ pc \in [Calls -> {"new", "searching", "locking", "opening", "waiting"} \cup Ended]
  BY DEF ClientInv, TypeInv, TypeOK
<1>1. CASE Live(f)
  <2>1. SendOn(t, conns[f], net)
    BY <1>1 DEF Look, LookAgain
  <2>2. conns[f] \in Chans /\ net[conns[f]].peer = f
    BY <1>0, <1>1, Constants DEF Live, ClientInv, TypeInv, Wired
  <2>. QED  BY <1>0, <2>1, <2>2, SendInv
<1>2. CASE ~Live(f)
  <2>1. PICK l \in {"locking", "opening"} : pc' = [pc EXCEPT ![t] = l] /\ net' = net
    BY <1>2 DEF Look, LookAgain
  <2>2. \A u \in Calls : pc'[u] = IF u = t THEN l ELSE pc[u]
    BY <1>0, <2>1
  <2>3. starts[t] = <<>> /\ \A d \in Chans, i \in Nat : ~Lies(t, d, i)
    BY DEF ClientInv, Asked, StartedFor
  <2>4. \A u \in Calls, d \in Chans, i \in Nat : Lies(u, d, i)' <=> Lies(u, d, i)
    BY <2>1 DEF Lies
  <2>5. Asked'
    BY <2>1, <2>2, <2>3, <2>4 DEF ClientInv, Asked
  <2>6. ASSUME NEW u \in Calls PROVE StartedFor(u)'
    BY <2>2, <2>3 DEF ClientInv, StartedFor
  <2>7. Answered'
    BY <2>1 DEF ClientInv, Answered
  <2>. QED  BY <2>5, <2>6, <2>7
<1>. QED  BY <1>1, <1>2

LEMMA LookingInv ==
  ASSUME ClientInv, NEW t \in Calls, Begin(t) \/ Found(t) \/ Lock(t)
  PROVE  Asked' /\ (\A u \in Calls : StartedFor(u)') /\ Answered'
<1>0. /\ disc \in [Keys -> Target \cup {NoTarget}] /\ target \in [Calls -> Target \cup {NoTarget}]
      /\ pc \in [Calls -> {"new", "searching", "locking", "opening", "waiting"} \cup Ended]
      /\ Key[t] \in Keys
  BY Constants DEF ClientInv, TypeInv, TypeOK
<1>1. UNCHANGED <<inbox, starts>>
  BY DEF Begin, Found, Lock
<1>2. CASE Begin(t) /\ disc[Key[t]] = NoTarget
  <2>1. pc[t] = "new" /\ pc' = [pc EXCEPT ![t] = "searching"] /\ UNCHANGED <<net, target>>
    BY <1>2 DEF Begin
  <2>2. \A u \in Calls : pc'[u] = IF u = t THEN "searching" ELSE pc[u]
    BY <1>0, <2>1
  <2>3. starts[t] = <<>> /\ \A d \in Chans, i \in Nat : ~Lies(t, d, i)
    BY <2>1 DEF ClientInv, Asked, StartedFor
  <2>4. \A u \in Calls, d \in Chans, i \in Nat : Lies(u, d, i)' <=> Lies(u, d, i)
    BY <2>1 DEF Lies
  <2>5. Asked'
    BY <1>1, <2>1, <2>2, <2>3, <2>4 DEF ClientInv, Asked
  <2>6. ASSUME NEW u \in Calls PROVE StartedFor(u)'
    BY <1>1, <2>1, <2>2, <2>3 DEF ClientInv, StartedFor
  <2>7. Answered'
    BY <1>1, <2>1 DEF ClientInv, Answered
  <2>. QED  BY <2>5, <2>6, <2>7
<1>3. CASE Begin(t) /\ disc[Key[t]] # NoTarget
  <2>1. /\ pc[t] = "new" /\ target' = [target EXCEPT ![t] = disc[Key[t]]] /\ Look(t, disc[Key[t]].fiber)
    BY <1>3 DEF Begin
  <2>2. disc[Key[t]].fiber \in Fibers
    BY <1>0, <1>3, Constants
  <2>. QED  BY <1>0, <1>1, <2>1, <2>2, LookInv
<1>4. CASE Found(t)
  <2>1. PICK f \in Hits[Key[t]] :
          target' = [target EXCEPT ![t] = [fiber |-> f, port |-> listed[f]]] /\ Look(t, f)
    BY <1>4 DEF Found
  <2>2. pc[t] = "searching" /\ f \in Fibers
    BY <1>0, <1>4, Constants DEF Found
  <2>. QED  BY <1>0, <1>1, <2>1, <2>2, LookInv
<1>5. CASE Lock(t)
  <2>1. pc[t] = "locking" /\ LookAgain(t, target[t].fiber) /\ target' = target
    BY <1>5 DEF Lock
  <2>2. target[t].fiber \in Fibers
    BY <1>0, <2>1, Constants DEF ClientInv, TypeInv, Named
  <2>. QED  BY <1>1, <2>1, <2>2, LookInv
<1>. QED  BY <1>2, <1>3, <1>4, <1>5

LEMMA ConnectedInv ==
  ASSUME ClientInv, NEW t \in Calls, Connected(t)
  PROVE  Asked' /\ (\A u \in Calls : StartedFor(u)') /\ Answered'
<1>0. net \in [Chans -> Channel] /\ target \in [Calls -> Target \cup {NoTarget}]
  BY DEF ClientInv, TypeInv, TypeOK
<1>. DEFINE g == target[t].fiber
            o == [Unopened EXCEPT !.peer = g, !.cli = "open", !.srv = TRUE]
<1>1. PICK c \in Chans : SendOn(t, c, [net EXCEPT ![c] = o])
  BY ConnectedType DEF ClientInv
<1>2. pc[t] = "opening" /\ UNCHANGED <<target, inbox, starts>>
  BY DEF Connected
<1>3. g \in Fibers
  BY <1>0, <1>2, Constants DEF ClientInv, TypeInv, Named
<1>. DEFINE n == [net EXCEPT ![c] = o]
<1>. HIDE DEF g
<1>4. o \in Channel /\ o.peer = g /\ o.reqs = <<>> /\ o.busy = None /\ o.back = <<>>
  BY <1>3, UnopenedType DEF Channel
<1>. HIDE DEF o
<1>5. n \in [Chans -> Channel] /\ \A d \in Chans : n[d] = IF d = c THEN o ELSE net[d]
  BY <1>0, <1>4
<1>6. SendOn(t, c, n)
  BY <1>1
<1>. HIDE DEF n
<1>7. target'[t].fiber = n[c].peer
  BY <1>2, <1>4, <1>5 DEF g
<1>8. \A d \in Chans : /\ n[d].reqs = <<>> \/ (n[d].reqs = net[d].reqs /\ n[d].peer = net[d].peer)
                       /\ n[d].busy \in {net[d].busy, None} /\ n[d].back \in {net[d].back, <<>>}
  BY <1>4, <1>5
<1>. QED  BY <1>2, <1>5, <1>6, <1>7, <1>8, SendInv

LEMMA StepClientInv == ClientInv /\ [Next]_vars => ClientInv'
<1>. SUFFICES ASSUME ClientInv, [Next]_vars PROVE Asked' /\ (\A t \in Calls : StartedFor(t)') /\ Answered'
  BY StepType DEF ClientInv
<1>0. TypeInv
  BY DEF ClientInv
<1>1. CASE UNCHANGED vars \/ CloseRaises
  <2>1. UNCHANGED <<net, pc, target, inbox, starts>>
    BY <1>1 DEF vars, CloseRaises, callVars
  <2>. QED  BY <2>1, LessInv
<1>2. CASE \/ \E f \in Fibers : Stop(f) \/ Register(f) \/ \E p \in Ports : Start(f, p)
           \/ \E c \in Chans : Break(c) \/ ServeEnd(c)
  <2>1. UNCHANGED <<pc, target, inbox, starts>>
    BY <1>0, <1>2, FibersType DEF callVars
  <2>. QED  BY <1>0, <1>2, <2>1, FibersType, LessInv
<1>3. CASE Close \/ CloseOn
  BY <1>0, <1>3, CloseType, LessInv
<1>4. CASE Next
  BY <1>1, <1>2, <1>3, <1>4, ServeTakeInv, ServeReplyInv, ReaderRouteInv, ReaderEofInv,
     EndingInv, LookingInv, ConnectedInv DEF Next
<1>. QED  BY <1>1, <1>4

(* What ClientInv says of the starts.                                      *)
LEMMA StartsAsPromised == ClientInv => AtMostOnce /\ ServedAsDiscovered
<1>. SUFFICES ASSUME ClientInv PROVE AtMostOnce /\ ServedAsDiscovered
  OBVIOUS
<1>1. ASSUME NEW t \in Calls
      PROVE  /\ Len(starts[t]) <= 1
             /\ pc[t] \in {"ok", "error"} => Len(starts[t]) = 1
             /\ pc[t] = "unsent" => starts[t] = <<>>
  <2>1. starts[t] \in Seq(Fibers)
    BY DEF ClientInv, TypeInv, TypeOK
  <2>2. starts[t] # <<>> => Len(starts[t]) # 0 /\ Len(starts[t]) \in Nat
    BY <2>1
  <2>3. Len(starts[t]) <= 1 /\ (pc[t] \in {"ok", "error"} => starts[t] # <<>>) /\ (pc[t] = "unsent" => starts[t] = <<>>)
    BY DEF ClientInv, StartedFor
  <2>4. Len(starts[t]) \in Nat
    BY <2>1
  <2>. DEFINE m == Len(starts[t])
  <2>. HIDE DEF m
  <2>5. starts[t] # <<>> => m # 0 /\ m <= 1 /\ m \in Nat
    BY <2>2, <2>3, <2>4 DEF m
  <2>6. m # 0 /\ m <= 1 /\ m \in Nat => m = 1
    OBVIOUS
  <2>7. pc[t] \in {"ok", "error"} => Len(starts[t]) = 1
    BY <2>3, <2>5, <2>6 DEF m
  <2>. QED  BY <2>3, <2>7
<1>2. ASSUME NEW t \in Calls, NEW i \in 1..Len(starts[t])
      PROVE  starts[t][i] = target[t].fiber
  <2>1. starts[t] \in Seq(Fibers)
    BY DEF ClientInv, TypeInv, TypeOK
  <2>2. i = 1 /\ starts[t] # <<>>
    BY <2>1 DEF ClientInv, StartedFor
  <2>. QED  BY <2>2 DEF ClientInv, StartedFor, TypeInv, Named
<1>. QED  BY <1>1, <1>2 DEF AtMostOnce, ServedAsDiscovered

(* However calls share channels, channels break and are opened again, the  *)
(* client is closed under them and fibers come and go at ports that others *)
(* have used: a call is started at most once, by the fiber that discovery  *)
(* named for it, and an answer is the answer of a handler that was.        *)
THEOREM CalledOnceAsTold == Spec => []CalledOnceAsDiscovered
<1>1. Init => ClientInv
  BY InitClientInv
<1>2. ClientInv /\ [Next]_vars => ClientInv'
  BY StepClientInv
<1>3. ClientInv => CalledOnceAsDiscovered
  BY StartsAsPromised DEF CalledOnceAsDiscovered
<1>. QED  BY <1>1, <1>2, <1>3, PTL DEF Spec

-----------------------------------------------------------------------------
(* One live channel per fiber: whoever opens one holds the lock, and until *)
(* a call to the fiber has failed its open channel is the one in the       *)
(* cache; Client.close forgets only what it has closed.                    *)

Locked == \A t \in Calls : pc[t] = "opening" => lock = t /\ conns[target[t].fiber] = None
Sole   == \A f \in Fibers : ~Evicted(f) => \A c \in OpenTo(f) : conns[f] = c
Visits == \A c \in visited : net[c].cli = "closed"

LockInv == TypeInv /\ Locked /\ Sole /\ Visits

LEMMA InitLockInv == Init => LockInv
<1>. SUFFICES ASSUME Init PROVE LockInv
  OBVIOUS
<1>1. \A c \in Chans : net[c].cli = "new"
  BY DEF Init, Unopened
<1>2. Sole
  BY <1>1 DEF Sole, OpenTo
<1>3. Locked /\ Visits
  BY DEF Init, Locked, Visits
<1>. QED  BY <1>2, <1>3, InitType DEF LockInv

(* Steps that leave the cache and the calls alone and open no channel.     *)
LEMMA QuietSole ==
  ASSUME LockInv, TypeInv', UNCHANGED <<conns, lock, pc, target>>, visited' \subseteq visited,
         \A d \in Chans : /\ net'[d].peer = net[d].peer
                          /\ net'[d].cli = "open" => net[d].cli = "open"
                          /\ net[d].cli = "closed" => net'[d].cli = "closed"
  PROVE  LockInv'
<1>1. Locked'
  BY DEF LockInv, Locked
<1>2. \A f \in Fibers : (Evicted(f)' <=> Evicted(f)) /\ OpenTo(f)' \subseteq OpenTo(f)
  BY DEF Evicted, OpenTo
<1>3. Sole'
  BY <1>2 DEF LockInv, Sole
<1>4. Visits'
  BY DEF LockInv, Visits, TypeInv, TypeOK
<1>. QED  BY <1>1, <1>3, <1>4 DEF LockInv

(* A call looks for a channel: it drops only one that is not open, and it  *)
(* opens one only when it gets the lock.                                   *)
LEMMA LookSole ==
  ASSUME LockInv, NEW t \in Calls, NEW f \in Fibers,
         pc[t] \in {"new", "searching", "locking"}, target'[t].fiber = f,
         \/ Look(t, f)
         \/ lock = None /\ LookAgain(t, f),
         \A u \in Calls \ {t} : target'[u] = target[u], target' \in [Calls -> Target \cup {NoTarget}],
         visited' = visited
  PROVE  Locked' /\ Sole' /\ Visits'
<1>0. /\ TypeOK /\ net \in [Chans -> Channel] /\ conns \in [Fibers -> 0..MaxChannels]
      /\ pc \in [Calls -> {"new", "searching", "locking", "opening", "waiting"} \cup Ended]
      /\ visited \subseteq Chans
  BY DEF LockInv, TypeInv, TypeOK
<1>1. PICK l \in {"waiting", "locking", "opening"} :
        /\ pc' = [pc EXCEPT ![t] = l]
        /\ l = "opening" => lock = None /\ lock' = t /\ conns'[f] = None
        /\ l # "opening" => lock' = lock
        /\ \A g \in Fibers \ {f} : conns'[g] = conns[g]
        /\ conns'[f] = conns[f] \/ (conns'[f] = None /\ ~Live(f))
  <2>1. CASE Live(f)
    BY <1>0, <2>1 DEF Look, LookAgain, SendOn
  <2>2. CASE ~Live(f)
    BY <1>0, <2>2 DEF Look, LookAgain
  <2>. QED  BY <2>1, <2>2
<1>2. \A d \in Chans : net'[d].peer = net[d].peer /\ net'[d].cli = net[d].cli
  <2>1. CASE Live(f)
    <3>1. SendOn(t, conns[f], net) /\ conns[f] \in Chans
      BY <1>0, <2>1, Constants DEF Look, LookAgain, Live
    <3>. QED  BY <1>0, <3>1, SendOnType
  <2>2. CASE ~Live(f)
    BY <2>2 DEF Look, LookAgain
  <2>. QED  BY <2>1, <2>2
<1>3. \A u \in Calls : pc'[u] = IF u = t THEN l ELSE pc[u]
  BY <1>0, <1>1
<1>4. ASSUME NEW u \in Calls, pc'[u] = "opening" PROVE lock' = u /\ conns'[target'[u].fiber] = None
  <2>1. CASE u = t
    BY <1>1, <1>3, <1>4, <2>1
  <2>2. CASE u # t
    <3>1. pc[u] = "opening" /\ lock = u /\ conns[target[u].fiber] = None
      BY <1>3, <1>4, <2>2 DEF LockInv, Locked
    <3>2. l # "opening"
      BY <1>1, <3>1, Constants
    <3>3. target[u].fiber \in Fibers
      BY <3>1, Constants DEF LockInv, TypeInv, TypeOK, Named
    <3>. QED  BY <1>1, <2>2, <3>1, <3>2, <3>3
  <2>. QED  BY <2>1, <2>2
<1>5. ASSUME NEW g \in Fibers, ~Evicted(g)', NEW c \in OpenTo(g)' PROVE conns'[g] = c
  <2>1. c \in OpenTo(g)
    BY <1>2 DEF OpenTo
  <2>2. ~Evicted(g)
    BY <1>3, <1>5 DEF Evicted
  <2>3. conns[g] = c /\ c \in Chans /\ net[c].cli = "open"
    BY <2>1, <2>2 DEF LockInv, Sole, OpenTo
  <2>4. conns'[g] = conns[g] \/ ~Live(g)
    BY <1>1
  <2>. QED  BY <2>3, <2>4, Constants DEF Live
<1>6. Visits'
  BY <1>0, <1>2 DEF LockInv, Visits
<1>. QED  BY <1>4, <1>5, <1>6 DEF Locked, Sole

LEMMA LookingSole ==
  ASSUME LockInv, NEW t \in Calls, Begin(t) \/ Found(t) \/ Lock(t)
  PROVE  Locked' /\ Sole' /\ Visits'
<1>0. /\ disc \in [Keys -> Target \cup {NoTarget}] /\ target \in [Calls -> Target \cup {NoTarget}]
      /\ pc \in [Calls -> {"new", "searching", "locking", "opening", "waiting"} \cup Ended]
      /\ Key[t] \in Keys
  BY Constants DEF LockInv, TypeInv, TypeOK
<1>1. visited' = visited /\ target' \in [Calls -> Target \cup {NoTarget}]
  BY LookingType DEF Begin, Found, Lock, ownVars, LockInv, TypeInv, TypeOK
<1>2. CASE Begin(t) /\ disc[Key[t]] = NoTarget
  <2>1. pc' = [pc EXCEPT ![t] = "searching"] /\ UNCHANGED <<net, target, conns, lock>> /\ pc[t] = "new"
    BY <1>2 DEF Begin
  <2>2. \A u \in Calls : pc'[u] = IF u = t THEN "searching" ELSE pc[u]
    BY <1>0, <2>1
  <2>3. \A f \in Fibers : (Evicted(f)' <=> Evicted(f)) /\ OpenTo(f)' = OpenTo(f)
    BY <2>1, <2>2 DEF Evicted, OpenTo
  <2>. QED  BY <1>1, <2>1, <2>2, <2>3 DEF LockInv, Locked, Sole, Visits
<1>3. CASE Begin(t) /\ disc[Key[t]] # NoTarget
  <2>1. /\ pc[t] = "new" /\ target' = [target EXCEPT ![t] = disc[Key[t]]] /\ Look(t, disc[Key[t]].fiber)
    BY <1>3 DEF Begin
  <2>2. disc[Key[t]].fiber \in Fibers
    BY <1>0, <1>3, Constants
  <2>. QED  BY <1>0, <1>1, <2>1, <2>2, LookSole
<1>4. CASE Found(t)
  <2>1. PICK f \in Hits[Key[t]] :
          target' = [target EXCEPT ![t] = [fiber |-> f, port |-> listed[f]]] /\ Look(t, f)
    BY <1>4 DEF Found
  <2>2. pc[t] = "searching" /\ f \in Fibers
    BY <1>0, <1>4, Constants DEF Found
  <2>. QED  BY <1>0, <1>1, <2>1, <2>2, LookSole
<1>5. CASE Lock(t)
  <2>1. pc[t] = "locking" /\ lock = None /\ LookAgain(t, target[t].fiber) /\ target' = target
    BY <1>5 DEF Lock
  <2>2. target[t].fiber \in Fibers
    BY <1>0, <2>1, Constants DEF LockInv, TypeInv, Named
  <2>. QED  BY <1>1, <2>1, <2>2, LookSole
<1>. QED  BY <1>2, <1>3, <1>4, <1>5

(* The one that holds the lock opens a channel where none was.             *)
LEMMA ConnectedSole ==
  ASSUME LockInv, NEW t \in Calls, Connected(t)
  PROVE  Locked' /\ Sole' /\ Visits'
<1>0. /\ net \in [Chans -> Channel] /\ target \in [Calls -> Target \cup {NoTarget}]
      /\ pc \in [Calls -> {"new", "searching", "locking", "opening", "waiting"} \cup Ended]
      /\ conns \in [Fibers -> 0..MaxChannels] /\ visited \subseteq Chans /\ TypeOK
  BY DEF LockInv, TypeInv, TypeOK
<1>. DEFINE g == target[t].fiber
            o == [Unopened EXCEPT !.peer = g, !.cli = "open", !.srv = TRUE]
<1>1. PICK c \in Chans : /\ net[c].cli = "new" /\ conns' = [conns EXCEPT ![g] = c]
                         /\ SendOn(t, c, [net EXCEPT ![c] = o])
  BY ConnectedType DEF LockInv
<1>2. pc[t] = "opening" /\ UNCHANGED <<target, visited>>
  BY DEF Connected, ownVars
<1>3. g \in Fibers /\ lock = t /\ conns[g] = None
  BY <1>0, <1>2, Constants DEF LockInv, TypeInv, Named, Locked
<1>. DEFINE n == [net EXCEPT ![c] = o]
<1>. HIDE DEF g
<1>4. o \in Channel /\ o.peer = g /\ o.cli = "open"
  BY <1>3, UnopenedType DEF Channel
<1>. HIDE DEF o
<1>5. n \in [Chans -> Channel] /\ \A d \in Chans : n[d] = IF d = c THEN o ELSE net[d]
  BY <1>0, <1>4
<1>6. SendOn(t, c, n)
  BY <1>1
<1>. HIDE DEF n
<1>7. /\ pc' = [pc EXCEPT ![t] = "waiting"]
      /\ \A d \in Chans : net'[d].peer = n[d].peer /\ net'[d].cli = n[d].cli
  BY <1>0, <1>5, <1>6, SendOnType
<1>8. \A u \in Calls : pc'[u] = IF u = t THEN "waiting" ELSE pc[u]
  BY <1>0, <1>7
<1>9. Locked'
  BY <1>2, <1>3, <1>8 DEF LockInv, Locked
<1>10. \A f \in Fibers : Evicted(f)' <=> Evicted(f)
  BY <1>2, <1>8 DEF Evicted
<1>11. ASSUME NEW f \in Fibers, ~Evicted(f)', NEW d \in OpenTo(f)' PROVE conns'[f] = d
  <2>1. d \in Chans /\ net'[d].peer = f /\ net'[d].cli = "open"
    BY <1>11 DEF OpenTo
  <2>2. CASE d = c
    BY <1>0, <1>1, <1>3, <1>4, <1>5, <1>7, <2>1, <2>2
  <2>3. CASE d # c
    <3>1. d \in OpenTo(f)
      BY <1>5, <1>7, <2>1, <2>3 DEF OpenTo
    <3>2. conns[f] = d
      BY <1>10, <1>11, <3>1 DEF LockInv, Sole
    <3>3. f # g
      BY <1>3, <2>1, <3>2, Constants
    <3>. QED  BY <1>0, <1>1, <3>2, <3>3
  <2>. QED  BY <2>2, <2>3
<1>12. Visits'
  <2>1. ASSUME NEW d \in visited PROVE net'[d].cli = "closed"
    <3>1. d \in Chans /\ net[d].cli = "closed" /\ d # c
      BY <1>0, <1>1 DEF LockInv, Visits
    <3>. QED  BY <1>5, <1>7, <3>1
  <2>. QED  BY <1>2, <2>1 DEF Visits
<1>. QED  BY <1>9, <1>11, <1>12 DEF Sole

(* A call that fails may forget a channel, which marks its fiber; one that *)
(* was refused forgets nothing.                                            *)
LEMMA EndingSole ==
  ASSUME LockInv, NEW t \in Calls,
         \/ NotFound(t) \/ WrongPeer(t) \/ Refused(t)
         \/ Return(t) \/ RemoteError(t) \/ Closed(t) \/ Timeout(t)
  PROVE  Locked' /\ Sole' /\ Visits'
<1>0. /\ pc \in [Calls -> {"new", "searching", "locking", "opening", "waiting"} \cup Ended]
      /\ conns \in [Fibers -> 0..MaxChannels]
  BY DEF LockInv, TypeInv, TypeOK
<1>1. UNCHANGED <<net, target, visited>>
  BY EndingType DEF LockInv, NotFound, WrongPeer, Refused, Return, RemoteError, Closed, Timeout, ownVars
<1>2. pc[t] = "opening" => lock = t /\ conns[target[t].fiber] = None
  BY DEF LockInv, Locked
<1>3. PICK e \in Ended :
        /\ pc' = [pc EXCEPT ![t] = e]
        /\ \/ conns' = conns
           \/ /\ conns' = [conns EXCEPT ![target[t].fiber] = None]
              /\ e \in {"closed", "timeout"} \/ conns[target[t].fiber] = None
        /\ lock' = lock \/ lock = t
  <2>1. CASE NotFound(t)
    BY <2>1 DEF NotFound, cacheVars, Ended, Failed
  <2>2. CASE WrongPeer(t)
    BY <1>2, <2>2 DEF WrongPeer, Ended, Failed
  <2>3. CASE Refused(t)
    BY <1>2, <2>3 DEF Refused, Evict, Ended, Failed
  <2>4. CASE Return(t)
    BY <2>4 DEF Return, Finish, cacheVars, Ended, Failed
  <2>5. CASE RemoteError(t)
    BY <2>5 DEF RemoteError, Finish, Evict, Ended, Failed
  <2>6. CASE Closed(t)
    BY <2>6 DEF Closed, Finish, Evict, Ended, Failed
  <2>7. CASE Timeout(t)
    BY <2>7 DEF Timeout, Finish, Evict, Ended, Failed
  <2>. QED  BY <2>1, <2>2, <2>3, <2>4, <2>5, <2>6, <2>7
<1>4. /\ \A u \in Calls : pc'[u] = IF u = t THEN e ELSE pc[u]
      /\ e # "opening" /\ pc[t] \notin {"closed", "timeout"}
  <2>1. \A u \in Calls : pc'[u] = IF u = t THEN e ELSE pc[u]
    BY <1>0, <1>3
  <2>2. pc[t] \notin {"closed", "timeout"}
    BY DEF NotFound, WrongPeer, Refused, Return, RemoteError, Closed, Timeout
  <2>. QED  BY <2>1, <2>2 DEF Ended, Failed
<1>5. \A f \in Fibers : conns'[f] \in {conns[f], None}
  BY <1>0, <1>3
<1>6. ASSUME NEW u \in Calls, pc'[u] = "opening" PROVE lock' = u /\ conns'[target'[u].fiber] = None
  <2>1. u # t /\ pc[u] = "opening" /\ lock = u /\ conns[target[u].fiber] = None
    BY <1>4, <1>6 DEF LockInv, Locked
  <2>2. target[u].fiber \in Fibers
    BY <2>1, Constants DEF LockInv, TypeInv, TypeOK, Named
  <2>. QED  BY <1>1, <1>3, <1>5, <2>1, <2>2
<1>7. ASSUME NEW f \in Fibers, ~Evicted(f)', NEW c \in OpenTo(f)' PROVE conns'[f] = c
  <2>1. ~Evicted(f) /\ c \in OpenTo(f)
    BY <1>1, <1>4, <1>7 DEF Evicted, OpenTo
  <2>2. conns[f] = c
    BY <2>1 DEF LockInv, Sole
  <2>3. CASE conns'[f] = conns[f]
    BY <2>2, <2>3
  <2>4. CASE conns'[f] # conns[f]
    <3>1. f = target[t].fiber /\ e \in {"closed", "timeout"}
      BY <1>0, <1>3, <2>4
    <3>. QED  BY <1>1, <1>4, <1>7, <3>1 DEF Evicted
  <2>. QED  BY <2>3, <2>4
<1>8. Visits'
  BY <1>1 DEF LockInv, Visits
<1>. QED  BY <1>6, <1>7, <1>8 DEF Locked, Sole

(* The client forgets its channels when it has closed every one.           *)
LEMMA CloseSole ==
  ASSUME LockInv, Close \/ CloseOn
  PROVE  Locked' /\ Sole' /\ Visits'
<1>0. net \in [Chans -> Channel] /\ conns \in [Fibers -> 0..MaxChannels] /\ visited \subseteq Chans
  BY DEF LockInv, TypeInv, TypeOK
<1>1. PICK done \in SUBSET visited : Visit(done) \/ Visited(done)
  BY DEF Close, CloseOn
<1>2. UNCHANGED <<lock, pc, target>>
  BY DEF Close, CloseOn
<1>3. \A c \in done : c \in Chans /\ net[c].cli = "closed"
  BY <1>0, <1>1 DEF LockInv, Visits
<1>4. CASE Visited(done)
  <2>1. /\ conns' = [f \in Fibers |-> None] /\ visited' = {} /\ net' = net
        /\ \A f \in Cached : conns[f] \in done
    BY <1>4 DEF Visited
  <2>2. Locked'
    <3>1. ASSUME NEW t \in Calls, pc'[t] = "opening" PROVE lock' = t /\ conns'[target'[t].fiber] = None
      <4>1. pc[t] = "opening" /\ lock = t
        BY <1>2, <3>1 DEF LockInv, Locked
      <4>2. target[t].fiber \in Fibers
        BY <4>1, Constants DEF LockInv, TypeInv, TypeOK, Named
      <4>. QED  BY <1>2, <2>1, <4>1, <4>2
    <3>. QED  BY <3>1 DEF Locked
  <2>3. ASSUME NEW f \in Fibers, ~Evicted(f)', NEW c \in OpenTo(f)' PROVE FALSE
    <3>1. ~Evicted(f) /\ c \in OpenTo(f)
      BY <1>2, <2>1, <2>3 DEF Evicted, OpenTo
    <3>2. conns[f] = c /\ c \in Chans /\ net[c].cli = "open"
      BY <3>1 DEF LockInv, Sole, OpenTo
    <3>3. c \in done
      BY <2>1, <3>2, Constants DEF Cached
    <3>. QED  BY <1>3, <3>2, <3>3
  <2>4. Sole' /\ Visits'
    BY <2>1, <2>3 DEF Sole, Visits
  <2>. QED  BY <2>2, <2>4
<1>5. CASE Visit(done)
  <2>1. PICK f \in Cached : /\ net' = [net EXCEPT ![conns[f]].cli = "closed", ![conns[f]].back = <<>>]
                            /\ visited' = done \cup {conns[f]} /\ conns' = conns
    BY <1>5 DEF Visit
  <2>2. conns[f] \in Chans
    BY <1>0, <2>1, Constants DEF Cached
  <2>3. \A c \in Chans : net'[c].peer = net[c].peer /\ net'[c].cli = IF c = conns[f] THEN "closed" ELSE net[c].cli
    BY <1>0, <2>1, <2>2 DEF Channel
  <2>4. Locked'
    BY <1>2, <2>1 DEF LockInv, Locked
  <2>5. \A g \in Fibers : (Evicted(g)' <=> Evicted(g)) /\ OpenTo(g)' \subseteq OpenTo(g)
    BY <1>2, <2>3 DEF Evicted, OpenTo
  <2>6. Sole'
    BY <2>1, <2>5 DEF LockInv, Sole
  <2>7. Visits'
    BY <1>3, <2>1, <2>2, <2>3 DEF Visits
  <2>. QED  BY <2>4, <2>6, <2>7
<1>. QED  BY <1>1, <1>4, <1>5

LEMMA StepLockInv == LockInv /\ [Next]_vars => LockInv'
<1>. SUFFICES ASSUME LockInv, [Next]_vars PROVE LockInv'
  OBVIOUS
<1>0. TypeInv /\ TypeInv'
  BY StepType DEF LockInv
<1>1. CASE UNCHANGED vars \/ CloseRaises
  <2>1. UNCHANGED <<net, conns, lock, pc, target>> /\ visited' \subseteq visited
    BY <1>1 DEF vars, CloseRaises, cacheVars, callVars, ownVars
  <2>. QED  BY <1>0, <2>1, QuietSole
<1>2. CASE \/ \E f \in Fibers : Stop(f) \/ Register(f) \/ \E p \in Ports : Start(f, p)
           \/ \E c \in Chans : Break(c) \/ ServeEnd(c)
  <2>1. UNCHANGED <<conns, lock, pc, target, visited>>
    BY <1>0, <1>2, FibersType DEF cacheVars, callVars, ownVars
  <2>. QED  BY <1>0, <1>2, <2>1, FibersType, QuietSole
<1>3. CASE \E c \in Chans : ServeTake(c) \/ \E kind \in {"ok", "error"} : ServeReply(c, kind)
  <2>1. UNCHANGED <<conns, lock, pc, target, visited>>
    BY <1>3 DEF ServeTake, ServeReply, cacheVars, callVars, ownVars
  <2>. QED  BY <1>0, <1>3, <2>1, ServeType, QuietSole
<1>4. CASE \E c \in Chans : ReaderRoute(c) \/ ReaderEof(c)
  <2>1. UNCHANGED <<conns, lock, pc, target, visited>>
    BY <1>4 DEF ReaderRoute, ReaderEof, cacheVars, ownVars
  <2>. QED  BY <1>0, <1>4, <2>1, ReaderType, QuietSole
<1>5. CASE Next
  BY <1>0, <1>1, <1>2, <1>3, <1>4, <1>5, LookingSole, ConnectedSole, EndingSole, CloseSole DEF Next, LockInv
<1>. QED  BY <1>1, <1>5

(* app.py:125: however many calls look for a channel to a fiber at a time, *)
(* and whenever its channel dies, one is open; until a call to it fails.   *)
THEOREM OneLiveChannelEach == Spec => []OneLiveChannel
<1>1. Init => LockInv
  BY InitLockInv
<1>2. LockInv /\ [Next]_vars => LockInv'
  BY StepLockInv
<1>3. LockInv => OneLiveChannel
  BY DEF LockInv, Sole, OneLiveChannel
<1>. QED  BY <1>1, <1>2, <1>3, PTL DEF Spec

=============================================================================
