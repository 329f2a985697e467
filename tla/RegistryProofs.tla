--------------------------- MODULE RegistryProofs ---------------------------
(***************************************************************************)
(* Proofs about Registry, for every set of identities, keys, records and   *)
(* connections, and for both builds (Checked).                             *)
(***************************************************************************)
EXTENDS Registry, TLAPS

(* What a handler finds in a request of its operation.                     *)
LEMMA RequestType ==
  ASSUME TypeOK, NEW p \in Conns, inflight[p] # None
  PROVE  /\ inflight[p] \in InFlight
         /\ inflight[p].now \in 0..MaxTime
         /\ inflight[p].req.op = "register" => inflight[p].req.rec \in Signable
         /\ inflight[p].req.op = "renew" => inflight[p].req.ttl \in Ttls
         /\ inflight[p].req.op \in {"register", "resolve", "search", "renew", "deregister"}
<1>1. inflight[p] \in InFlight
  BY DEF TypeOK
<1>2. inflight[p].req \in Requests /\ inflight[p].now \in 0..MaxTime
  BY <1>1 DEF InFlight
<1>. QED  BY <1>1, <1>2 DEF Requests

(* The records stored for an identity are records.                         *)
LEMMA StoredType == ASSUME TypeOK, NEW o PROVE Stored(o) \subseteq Record
BY DEF Stored, TypeOK

(* The fields of a record.                                                 *)
LEMMA RecordType ==
  ASSUME NEW r \in Record
  PROVE  /\ r.id \in Owners /\ r.ver \in Nat /\ r.key \in Keys
         /\ r.vis \in {"Public", "Unlisted", "Private"}
         /\ r.lease \in Lease /\ r.signed \in Lease
         /\ r = [id |-> r.id, ver |-> r.ver, key |-> r.key, vis |-> r.vis,
                 lease |-> r.lease, signed |-> r.signed]
BY DEF Record

(* A renewed record is the stored one with another lease.                  *)
LEMMA RenewedType ==
  ASSUME NEW r \in Record, NEW now \in Nat, NEW ttl \in Nat
  PROVE  /\ Renewed(r, now, ttl) \in Record
         /\ Renewed(r, now, ttl).id = r.id
         /\ Renewed(r, now, ttl).key = r.key
         /\ [Renewed(r, now, ttl) EXCEPT !.lease = r.lease] = r
<1>. DEFINE l == [at |-> now, ttl |-> ttl, exp |-> (now + ttl) % Width]
<1>1. (now + ttl) % Width \in Nat
  BY RecordsAssumption, RegistryAssumption
<1>2. l \in Lease
  BY <1>1 DEF Lease
<1>3. Renewed(r, now, ttl) = [r EXCEPT !.lease = l]
  BY DEF Renewed
<1>. HIDE DEF l
<1>. QED  BY <1>2, <1>3 DEF Record

(* So is the record that an overflowing renewal leaves behind.             *)
LEMMA HalfRenewedType ==
  ASSUME NEW r \in Record, r.lease # NoLease, NEW now \in Nat, NEW ttl \in Nat
  PROVE  LET h == [r EXCEPT !.lease.at = now, !.lease.ttl = ttl]
         IN  h \in Record /\ h.id = r.id /\ h.key = r.key /\ [h EXCEPT !.lease = r.lease] = r
<1>1. r.lease \in [at : Nat, ttl : Nat, exp : Nat]
  BY DEF Record, Lease
<1>2. [[r.lease EXCEPT !.at = now] EXCEPT !.ttl = ttl] \in Lease
  BY <1>1 DEF Lease
<1>. QED  BY <1>1, <1>2 DEF Record

(* The ttls of a Renew are numbers.                                        *)
LEMMA TtlType == Ttls \subseteq Nat
BY RecordsAssumption, RegistryAssumption

(* The clock value and the ttl of a Renew are numbers.                     *)
LEMMA RenewArguments ==
  ASSUME TypeOK, NEW p \in Conns, Handling(p, "renew")
  PROVE  inflight[p] # None /\ inflight[p].now \in Nat /\ inflight[p].req.ttl \in Nat
<1>1. inflight[p] # None /\ inflight[p].req.op = "renew"
  BY DEF Handling
<1>2. inflight[p].now \in 0..MaxTime /\ inflight[p].req.ttl \in Ttls
  BY <1>1, RequestType
<1>3. MaxTime \in Nat
  BY RecordsAssumption, RegistryAssumption
<1>4. inflight[p].now \in Nat
  BY <1>2, <1>3
<1>5. inflight[p].req.ttl \in Nat
  BY <1>2, TtlType
<1>. QED  BY <1>1, <1>4, <1>5

(* A handler that answers leaves requests and replies well formed.         *)
LEMMA AnswerType ==
  ASSUME TypeOK, NEW p \in Conns, inflight[p] # None, NEW ok \in BOOLEAN,
         NEW recs \in SUBSET Record, Answer(p, ok, recs)
  PROVE  /\ reply' \in [op : {"none", "register", "resolve", "search", "renew", "deregister"},
                        ok : BOOLEAN, recs : SUBSET Record]
         /\ inflight' \in [Conns -> InFlight \cup {None}]
         /\ clock' \in 0..MaxTime /\ alive' \subseteq Conns
BY RequestType DEF Answer, TypeOK

-----------------------------------------------------------------------------
(* StoreIsMap and NoRevokedSigner together are inductive: they depend only *)
(* on the store and the revocation set.                                    *)
StoreInv == TypeOK /\ StoreIsMap /\ NoRevokedSigner

(* An empty registry satisfies the invariant.                              *)
LEMMA InitStoreInv == Init => StoreInv
BY RecordsAssumption, RegistryAssumption DEF Init, StoreInv, TypeOK, StoreIsMap, NoRevokedSigner

(* Removing records preserves it.                                          *)
LEMMA Shrink ==
  ASSUME StoreIsMap, NoRevokedSigner, store' \subseteq store, UNCHANGED revoked
  PROVE  StoreIsMap' /\ NoRevokedSigner'
BY DEF StoreIsMap, NoRevokedSigner

(* A publication replaces the record of its identity by a verified one.    *)
LEMMA RegisterInv ==
  ASSUME StoreInv, NEW p \in Conns, Register(p)
  PROVE  StoreInv'
<1>. DEFINE r  == inflight[p].req.rec
            ok == /\ Mine(p, r.id)
                  /\ Verifies(r, inflight[p].now)
                  /\ \A s \in Stored(r.id) : r.ver > s.ver
<1>1. /\ inflight[p] # None /\ inflight[p].req.op = "register"
      /\ store' = IF ok THEN (store \ Stored(r.id)) \cup {r} ELSE store
      /\ Answer(p, ok, {}) /\ revoked' = revoked
  BY DEF Register, Handling
<1>2. r \in Record
  BY <1>1, RequestType, RecordsAssumption, RegistryAssumption DEF StoreInv
<1>3. ok \in BOOLEAN
  OBVIOUS
<1>4. ok => KeyOwner[r.key] = r.id /\ r.key \notin revoked
  BY DEF Verifies, Authentic
<1>. HIDE DEF r, ok
<1>5. TypeOK'
  BY <1>1, <1>2, <1>3, AnswerType DEF StoreInv, TypeOK
<1>6. StoreIsMap' /\ NoRevokedSigner'
  BY <1>1, <1>4 DEF StoreInv, StoreIsMap, NoRevokedSigner, Stored
<1>. QED  BY <1>5, <1>6 DEF StoreInv

(* Resolve and Search only read.                                           *)
LEMMA ReadInv ==
  ASSUME StoreInv, NEW p \in Conns, Resolve(p) \/ Search(p)
  PROVE  StoreInv'
<1>1. inflight[p] # None /\ UNCHANGED <<store, revoked>>
  BY DEF Resolve, Search, Handling
<1>2. \E ok \in BOOLEAN, recs \in SUBSET Record : Answer(p, ok, recs)
  <2>1. CASE Resolve(p)
    BY <2>1, StoredType DEF Resolve, Resolvable, StoreInv
  <2>2. CASE Search(p)
    <3>1. \A top, now : \A S \in SearchResults(top, now) : S \subseteq Record
      BY DEF SearchResults, TopK, PublicRecords, StoreInv, TypeOK
    <3>. QED  BY <2>2, <3>1 DEF Search
  <2>. QED  BY <2>1, <2>2
<1>3. TypeOK'
  BY <1>1, <1>2, AnswerType DEF StoreInv, TypeOK
<1>. QED  BY <1>1, <1>3 DEF StoreInv, StoreIsMap, NoRevokedSigner

(* What a Renew changes is stored.                                         *)
LEMMA RenewableType ==
  ASSUME TypeOK, NEW p \in Conns
  PROVE  Renewable(p) \subseteq store /\ Renewable(p) \subseteq Record
BY DEF Renewable, Stored, TypeOK

(* A renewal replaces records by the same records with another lease.      *)
LEMMA RenewInv ==
  ASSUME StoreInv, NEW p \in Conns, Renew(p)
  PROVE  StoreInv'
<1>. DEFINE now == inflight[p].now
            ttl == inflight[p].req.ttl
<1>1. inflight[p] # None /\ now \in Nat /\ ttl \in Nat
  BY RenewArguments DEF Renew, StoreInv
<1>2. Renewable(p) \subseteq store /\ Renewable(p) \subseteq Record
  BY RenewableType DEF StoreInv
<1>3. /\ store' = (store \ Renewable(p)) \cup {Renewed(r, now, ttl) : r \in Renewable(p)}
      /\ Answer(p, Renewable(p) # {}, {}) /\ revoked' = revoked
  BY DEF Renew
<1>. HIDE DEF now, ttl
<1>4. \A r \in Renewable(p) : /\ Renewed(r, now, ttl) \in Record
                              /\ Renewed(r, now, ttl).id = r.id
                              /\ Renewed(r, now, ttl).key = r.key
  BY <1>1, <1>2, RenewedType
<1>5. store' \subseteq Record /\ StoreIsMap' /\ NoRevokedSigner'
  BY <1>2, <1>3, <1>4 DEF StoreInv, TypeOK, StoreIsMap, NoRevokedSigner
<1>6. TypeOK'
  BY <1>1, <1>3, <1>5, AnswerType DEF StoreInv, TypeOK
<1>. QED  BY <1>5, <1>6 DEF StoreInv

(* The half-assigned lease of a panicking Renew does no more.              *)
LEMMA PanicInv ==
  ASSUME StoreInv, NEW p \in Conns, RenewPanics(p)
  PROVE  StoreInv'
<1>. DEFINE now == inflight[p].now
            ttl == inflight[p].req.ttl
            Half(r) == [r EXCEPT !.lease.at = now, !.lease.ttl = ttl]
<1>1. inflight[p] # None /\ now \in Nat /\ ttl \in Nat
  BY RenewArguments DEF RenewPanics, StoreInv
<1>2. Renewable(p) \subseteq store /\ Renewable(p) \subseteq Record
  BY RenewableType DEF StoreInv
<1>3. /\ store' = (store \ Renewable(p)) \cup {Half(r) : r \in Renewable(p)}
      /\ alive' = alive \ {p} /\ inflight' = [inflight EXCEPT ![p] = None]
      /\ UNCHANGED <<clock, revoked, reply>>
  BY DEF RenewPanics
<1>4. \A r \in Renewable(p) : r.lease # NoLease
  BY DEF Renewable
<1>. HIDE DEF now, ttl
<1>5. \A r \in Renewable(p) : Half(r) \in Record /\ Half(r).id = r.id /\ Half(r).key = r.key
  BY <1>1, <1>2, <1>4, HalfRenewedType
<1>. HIDE DEF Half
<1>6. store' \subseteq Record /\ StoreIsMap' /\ NoRevokedSigner'
  BY <1>2, <1>3, <1>5 DEF StoreInv, TypeOK, StoreIsMap, NoRevokedSigner
<1>7. TypeOK'
  BY <1>3, <1>6 DEF StoreInv, TypeOK
<1>. QED  BY <1>6, <1>7 DEF StoreInv

(* A withdrawal only removes.                                              *)
LEMMA DeregisterInv ==
  ASSUME StoreInv, NEW p \in Conns, Deregister(p)
  PROVE  StoreInv'
<1>. DEFINE ok == Mine(p, inflight[p].req.id)
<1>1. /\ inflight[p] # None /\ revoked' = revoked /\ Answer(p, ok, {})
      /\ store' \subseteq store
  BY DEF Deregister, Handling
<1>2. ok \in BOOLEAN
  BY DEF Mine
<1>. HIDE DEF ok
<1>3. TypeOK'
  BY <1>1, <1>2, AnswerType DEF StoreInv, TypeOK
<1>. QED  BY <1>1, <1>3, Shrink DEF StoreInv

(* A revocation removes the identity's record when it revokes its signer;  *)
(* a record of another identity has another key.                           *)
LEMMA RevokeInv ==
  ASSUME StoreInv, NEW k \in Keys, Revoke(k)
  PROVE  StoreInv'
<1>1. store' \subseteq store /\ revoked' = revoked \cup {k}
  BY DEF Revoke
<1>2. NoRevokedSigner'
  BY <1>1 DEF Revoke, Stored, StoreInv, StoreIsMap, NoRevokedSigner
<1>3. TypeOK' /\ StoreIsMap'
  BY <1>1 DEF Revoke, StoreInv, TypeOK, StoreIsMap
<1>. QED  BY <1>2, <1>3 DEF StoreInv

(* A request that reaches its handler changes nothing stored.              *)
LEMMA BeginInv ==
  ASSUME StoreInv, NEW p \in Conns, NEW q \in Requests, Begin(p, q)
  PROVE  StoreInv'
BY DEF Begin, InFlight, StoreInv, TypeOK, StoreIsMap, NoRevokedSigner

(* StoreInv is inductive.                                                  *)
LEMMA NextStoreInv == StoreInv /\ [Next]_vars => StoreInv'
<1>. SUFFICES ASSUME StoreInv, [Next]_vars PROVE StoreInv'
  OBVIOUS
<1>1. CASE UNCHANGED vars
  BY <1>1 DEF vars, StoreInv, TypeOK, StoreIsMap, NoRevokedSigner
<1>2. CASE SweepExpired
  <2>1. store' \subseteq store /\ revoked' = revoked
    BY <1>2 DEF SweepExpired
  <2>2. TypeOK'
    BY <1>2, <2>1 DEF SweepExpired, StoreInv, TypeOK
  <2>. QED  BY <2>1, <2>2, Shrink DEF StoreInv
<1>3. CASE Tick
  <2>1. TypeOK'
    BY <1>3, RecordsAssumption, RegistryAssumption DEF Tick, StoreInv, TypeOK
  <2>. QED  BY <1>3, <2>1 DEF Tick, StoreInv, StoreIsMap, NoRevokedSigner
<1>4. CASE Next
  BY <1>2, <1>3, <1>4, BeginInv, RegisterInv, ReadInv, RenewInv, PanicInv,
     DeregisterInv, RevokeInv DEF Next, Handle
<1>. QED  BY <1>1, <1>4

(* The requests, the store and the replies stay well formed.               *)
THEOREM RegistryTypeCorrect == Spec => []TypeOK
<1>1. StoreInv => TypeOK
  BY DEF StoreInv
<1>. QED  BY <1>1, InitStoreInv, NextStoreInv, PTL DEF Spec

(* The store is a map from identities to records of that identity, and no  *)
(* stored record is ever signed by a revoked key.                          *)
THEOREM StoreStaysSound == Spec => []StoreIsSound
<1>1. StoreInv => StoreIsSound
  BY DEF StoreInv, StoreIsSound
<1>. QED  BY <1>1, InitStoreInv, NextStoreInv, PTL DEF Spec

-----------------------------------------------------------------------------
(* Versions: every step keeps a record, renews it, replaces it by a newer  *)
(* version, or drops it.                                                   *)
VersionStep == \A r \in store, s \in store' :
                 r.id = s.id => s.ver > r.ver \/ [s EXCEPT !.lease = r.lease] = r

(* Removing records takes no identity back.                                *)
LEMMA KeepStep ==
  ASSUME StoreInv, store' \subseteq store PROVE VersionStep
BY DEF VersionStep, StoreInv, TypeOK, StoreIsMap, Record

(* A publication is newer than what it replaces.                           *)
LEMMA RegisterStep ==
  ASSUME StoreInv, NEW p \in Conns, Register(p) PROVE VersionStep
<1>. DEFINE q == inflight[p].req.rec
<1>1. CASE store' = store
  BY <1>1, KeepStep
<1>2. CASE store' # store
  <2>1. /\ store' = (store \ Stored(q.id)) \cup {q}
        /\ \A s \in Stored(q.id) : q.ver > s.ver
    BY <1>2 DEF Register
  <2>. HIDE DEF q
  <2>. SUFFICES ASSUME NEW r \in store, NEW s \in store', r.id = s.id
                PROVE  s.ver > r.ver \/ [s EXCEPT !.lease = r.lease] = r
    BY DEF VersionStep
  <2>2. CASE s = q
    BY <2>1, <2>2 DEF Stored
  <2>3. CASE s # q
    <3>1. s \in store /\ s = r /\ r \in Record
      BY <2>1, <2>3 DEF StoreInv, StoreIsMap, TypeOK
    <3>. QED  BY <3>1 DEF Record
  <2>. QED  BY <2>2, <2>3
<1>. QED  BY <1>1, <1>2

(* A renewal, complete or half done, changes the lease only.               *)
LEMMA RenewStep ==
  ASSUME StoreInv, NEW p \in Conns, Renew(p) \/ RenewPanics(p) PROVE VersionStep
<1>. DEFINE now == inflight[p].now
            ttl == inflight[p].req.ttl
            Half(r) == [r EXCEPT !.lease.at = now, !.lease.ttl = ttl]
<1>1. now \in Nat /\ ttl \in Nat
  BY RenewArguments DEF Renew, RenewPanics, StoreInv
<1>2. Renewable(p) \subseteq store /\ Renewable(p) \subseteq Record
  BY RenewableType DEF StoreInv
<1>3. \A r \in Renewable(p) : r.lease # NoLease
  BY DEF Renewable
<1>4. \/ store' = (store \ Renewable(p)) \cup {Renewed(r, now, ttl) : r \in Renewable(p)}
      \/ store' = (store \ Renewable(p)) \cup {Half(r) : r \in Renewable(p)}
  BY DEF Renew, RenewPanics
<1>. HIDE DEF now, ttl
<1>5. \A r \in Renewable(p) : /\ Renewed(r, now, ttl).id = r.id
                              /\ [Renewed(r, now, ttl) EXCEPT !.lease = r.lease] = r
  BY <1>1, <1>2, RenewedType
<1>6. \A r \in Renewable(p) : Half(r).id = r.id /\ [Half(r) EXCEPT !.lease = r.lease] = r
  BY <1>1, <1>2, <1>3, HalfRenewedType
<1>. HIDE DEF Half
<1>. SUFFICES ASSUME NEW r \in store, NEW s \in store', r.id = s.id
              PROVE  [s EXCEPT !.lease = r.lease] = r
  BY DEF VersionStep
<1>7. CASE s \in store
  <2>1. s = r /\ r \in Record
    BY <1>7 DEF StoreInv, StoreIsMap, TypeOK
  <2>. QED  BY <2>1 DEF Record
<1>8. CASE s \notin store
  <2>1. PICK t \in Renewable(p) : s = Renewed(t, now, ttl) \/ s = Half(t)
    BY <1>4, <1>8
  <2>2. t = r
    BY <1>2, <1>5, <1>6, <2>1 DEF StoreInv, StoreIsMap
  <2>. QED  BY <1>5, <1>6, <2>1, <2>2
<1>. QED  BY <1>7, <1>8

(* Every step from a state of StoreInv is a VersionStep.                   *)
LEMMA NextVersions == StoreInv /\ [Next]_vars => [VersionStep]_vars
<1>. SUFFICES ASSUME StoreInv, Next PROVE VersionStep
  OBVIOUS
<1>1. ASSUME NEW p \in Conns, Register(p) PROVE VersionStep
  BY <1>1, RegisterStep
<1>2. ASSUME NEW p \in Conns, Renew(p) \/ RenewPanics(p) PROVE VersionStep
  BY <1>2, RenewStep
<1>3. CASE store' \subseteq store
  BY <1>3, KeepStep
<1>4. ASSUME NEW p \in Conns,
             (\E q \in Requests : Begin(p, q)) \/ Resolve(p) \/ Search(p) \/ Deregister(p)
      PROVE  store' \subseteq store
  BY <1>4 DEF Begin, Resolve, Search, Deregister
<1>5. CASE SweepExpired \/ Tick \/ \E k \in Keys : Revoke(k)
  BY <1>5, <1>3 DEF SweepExpired, Tick, Revoke
<1>. QED  BY <1>1, <1>2, <1>3, <1>4, <1>5 DEF Next, Handle

(* A delayed, repeated or overtaken request never takes a stored identity  *)
(* back to an older version.                                               *)
THEOREM VersionsOnlyAdvance == Spec => VersionsAdvance
<1>1. [VersionStep]_vars => [\A r \in store, s \in store' :
          r.id = s.id => s.ver > r.ver \/ [s EXCEPT !.lease = r.lease] = r]_vars
  BY DEF VersionStep
<1>. QED  BY <1>1, InitStoreInv, NextStoreInv, NextVersions, PTL DEF Spec, VersionsAdvance

-----------------------------------------------------------------------------
(* Visibility: what a reply holds was visible when it was written, and no  *)
(* later request touches the reply of an earlier one.                      *)

(* A search ranks and cuts public records.                                 *)
LEMMA SearchedPublic ==
  ASSUME NEW top, NEW now, NEW S \in SearchResults(top, now), NEW r \in S
  PROVE  r.vis = "Public"
BY DEF SearchResults, TopK, PublicRecords

LEMMA NextVisibility == VisibilityRespected /\ [Next]_vars => VisibilityRespected'
<1>. SUFFICES ASSUME VisibilityRespected, [Next]_vars PROVE VisibilityRespected'
  OBVIOUS
<1>1. CASE UNCHANGED reply
  BY <1>1 DEF VisibilityRespected
<1>2. ASSUME NEW p \in Conns, NEW ok, Answer(p, ok, {}) PROVE VisibilityRespected'
  BY <1>2 DEF Answer, VisibilityRespected
<1>3. ASSUME NEW p \in Conns, Resolve(p) PROVE VisibilityRespected'
  <2>1. reply' = [op |-> "resolve", ok |-> reply'.ok,
                  recs |-> Resolvable(inflight[p].req.id, inflight[p].now)]
    BY <1>3 DEF Resolve, Handling, Answer
  <2>. QED  BY <2>1 DEF Resolvable, VisibilityRespected
<1>4. ASSUME NEW p \in Conns, Search(p) PROVE VisibilityRespected'
  <2>1. PICK S \in SearchResults(inflight[p].req.top, inflight[p].now) : Answer(p, TRUE, S)
    BY <1>4 DEF Search
  <2>2. reply'.recs = S
    BY <2>1 DEF Answer
  <2>3. \A r \in S : r.vis = "Public"
    BY <2>1, SearchedPublic
  <2>. QED  BY <2>2, <2>3 DEF VisibilityRespected
<1>5. ASSUME NEW p \in Conns, Register(p) \/ Renew(p) \/ Deregister(p)
      PROVE  VisibilityRespected'
  BY <1>2, <1>5 DEF Register, Renew, Deregister
<1>. QED
  BY <1>1, <1>3, <1>4, <1>5 DEF Next, Handle, Begin, RenewPanics, Revoke, SweepExpired, Tick, vars

(* Whatever the interleaving of publications, renewals and queries, no     *)
(* private record is ever handed out, and no unlisted one to a search.     *)
THEOREM VisibilityIsRespected == Spec => []VisibilityRespected
<1>1. Init => VisibilityRespected
  BY DEF Init, VisibilityRespected
<1>. QED  BY <1>1, NextVisibility, PTL DEF Spec

-----------------------------------------------------------------------------
(* Control: who or what removed a record that is no longer as it was.      *)
Removed(r) ==
    \/ \E p \in Conns : Owner[p] = r.id /\ inflight[p] # None /\ inflight'[p] = None
    \/ r.key \in revoked' \ revoked
    \/ LeaseExpired(r, clock)

ControlStep == \A r \in store \ store' : Removed(r)

(* A handler that ends lets go of its request.                             *)
LEMMA HandlerEnds ==
  ASSUME TypeOK, NEW p \in Conns, NEW op, Handling(p, op),
         inflight' = [inflight EXCEPT ![p] = None]
  PROVE  inflight[p] # None /\ inflight'[p] = None
BY DEF Handling, TypeOK

(* What a write removes belongs to the identity of the channel.            *)
LEMMA HandlerControl ==
  ASSUME TypeOK, NEW p \in Conns, Handle(p) PROVE ControlStep
<1>1. inflight[p] # None /\ inflight'[p] = None
  BY HandlerEnds DEF Handle, Register, Resolve, Search, Renew, RenewPanics, Deregister, Answer
<1>2. \A r \in store \ store' : r.id = Owner[p]
  <2>1. CASE Register(p)
    <3>. DEFINE q == inflight[p].req.rec
    <3>1. store' = store \/ (q.id = Owner[p] /\ store' = (store \ Stored(q.id)) \cup {q})
      BY <2>1 DEF Register, Mine
    <3>. HIDE DEF q
    <3>. QED  BY <3>1 DEF Stored
  <2>2. CASE Resolve(p) \/ Search(p)
    BY <2>2 DEF Resolve, Search
  <2>3. CASE Renew(p) \/ RenewPanics(p)
    <3>1. store \ store' \subseteq Renewable(p)
      BY <2>3 DEF Renew, RenewPanics
    <3>. QED  BY <3>1 DEF Renewable, Mine
  <2>4. CASE Deregister(p)
    BY <2>4 DEF Deregister, Mine, Stored
  <2>. QED  BY <2>1, <2>2, <2>3, <2>4 DEF Handle
<1>. QED  BY <1>1, <1>2 DEF ControlStep, Removed

(* A revocation removes only what the key it adds had signed: what an      *)
(* earlier one revoked is not stored.                                      *)
LEMMA RevokeControl ==
  ASSUME NoRevokedSigner, NEW k \in Keys, Revoke(k) PROVE ControlStep
BY DEF Revoke, NoRevokedSigner, Stored, ControlStep, Removed

LEMMA NextControl == StoreInv /\ [Next]_vars => [ControlStep]_vars
<1>. SUFFICES ASSUME StoreInv, Next PROVE ControlStep
  OBVIOUS
<1>1. ASSUME NEW p \in Conns, Handle(p) PROVE ControlStep
  BY <1>1, HandlerControl DEF StoreInv
<1>2. ASSUME NEW k \in Keys, Revoke(k) PROVE ControlStep
  BY <1>2, RevokeControl DEF StoreInv
<1>3. CASE SweepExpired
  BY <1>3 DEF SweepExpired, ControlStep, Removed
<1>4. CASE UNCHANGED store
  BY <1>4 DEF ControlStep
<1>. QED  BY <1>1, <1>2, <1>3, <1>4 DEF Next, Begin, Tick

(* No interleaving of requests lets one identity change what another has   *)
(* published: a record goes by its owner's request, with its key, or with  *)
(* its lease.                                                              *)
THEOREM OwnersStayInControl == Spec => OwnerControls
<1>1. [ControlStep]_vars => [\A r \in store \ store' :
          \/ \E p \in Conns : Owner[p] = r.id /\ inflight[p] # None /\ inflight'[p] = None
          \/ r.key \in revoked' \ revoked
          \/ LeaseExpired(r, clock)]_vars
  BY DEF ControlStep, Removed
<1>. QED  BY <1>1, InitStoreInv, NextStoreInv, NextControl, PTL DEF Spec, OwnerControls

=============================================================================
