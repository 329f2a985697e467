-------------------------- MODULE FederationProofs --------------------------
(***************************************************************************)
(* Proofs about Federation, for every set of registries, identities and    *)
(* records, any fan-out and any cache ttl.                                 *)
(***************************************************************************)
EXTENDS Federation, TLAPS

(* What a registry resolves is one of its records, for that identity.      *)
LEMMA ResolvableIn ==
  ASSUME NEW p \in Registries, NEW o, NEW r \in Home(p)!Resolvable(o, clock)
  PROVE  r \in cat[p] /\ r.id = o
BY DEF Home!Resolvable, Home!Stored

(* What a registry finds is one of its records, and it would resolve it.   *)
LEMMA SearchableIn ==
  ASSUME NEW p \in Registries, NEW top, NEW T \in Home(p)!SearchResults(top, clock), NEW r \in T
  PROVE  r \in cat[p] /\ r \in Home(p)!Resolvable(r.id, clock)
BY DEF Home!SearchResults, Home!PublicRecords, Home!Resolvable, Home!Stored, Home!TopK

(* A renewed record is a record.                                           *)
LEMMA RenewedType ==
  ASSUME NEW r \in Record, NEW now \in Nat, NEW ttl \in Nat
  PROVE  Renewed(r, now, ttl) \in Record
<1>. DEFINE l == [at |-> now, ttl |-> ttl, exp |-> (now + ttl) % Width]
<1>1. (now + ttl) % Width \in Nat
  BY RecordsAssumption
<1>2. l \in Lease
  BY <1>1 DEF Lease
<1>3. Renewed(r, now, ttl) = [r EXCEPT !.lease = l]
  BY DEF Renewed
<1>. HIDE DEF l
<1>. QED  BY <1>2, <1>3 DEF Record

(* A cached record expires at a number.                                    *)
LEMMA CacheTtlType == ASSUME NEW r \in Record PROVE CacheTtl(r) \in Nat
<1>1. r.lease = NoLease \/ r.lease.ttl \in Nat
  BY DEF Record, Lease
<1>. QED  BY <1>1, FederationAssumption DEF CacheTtl

(* The members are registries.                                             *)
LEMMA PeerType ==
  ASSUME TypeOK, NEW i \in 1..Len(peers)
  PROVE  peers[i] \in Registries /\ peers[i] \in Members
BY DEF TypeOK, Members

(* What the federation trusts is served by a member and verifies.          *)
LEMMA TrustedServed ==
  ASSUME TypeOK, NEW i \in 1..Len(peers), NEW o, NEW r \in Trusted(i, o)
  PROVE  r \in Record /\ r.id = o /\ Authentic(r, clock) /\ Served(r)
<1>1. peers[i] \in Registries /\ peers[i] \in Members
  BY PeerType
<1>2. r \in Home(peers[i])!Resolvable(o, clock) /\ Authentic(r, clock)
  BY DEF Trusted
<1>3. r \in cat[peers[i]] /\ r.id = o
  BY <1>1, <1>2, ResolvableIn
<1>. QED  BY <1>1, <1>2, <1>3 DEF TypeOK, Served

(* So is what a search answers, once per identity.                         *)
LEMMA SearchAnswer ==
  ASSUME TypeOK, NEW top, Search(top)
  PROVE  /\ \A r \in answer'.recs : r \in Record /\ Authentic(r, clock) /\ Served(r)
         /\ \A r, q \in answer'.recs : r.id = q.id => r = q
         /\ answer'.op = "search" /\ answer' = [op |-> answer'.op, recs |-> answer'.recs]
<1>1. PICK S, f, M, T :
        /\ S \in Selections /\ f \in Gathered(S, top) /\ M \in Merges(UNION {f[i] : i \in S}) /\ T \in TopK(M, top)
        /\ answer' = [op |-> "search", recs |-> T]
  BY DEF Search
<1>2. T \subseteq M
  BY <1>1 DEF TopK
<1>3. /\ \A r, q \in M : r.id = q.id => r = q
      /\ \A r \in M : r \in UNION {f[i] : i \in S} /\ Authentic(r, clock)
  BY <1>1 DEF Merges
<1>4. ASSUME NEW r \in T PROVE r \in Record /\ Authentic(r, clock) /\ Served(r)
  <2>1. PICK i \in S : r \in f[i]
    BY <1>2, <1>3
  <2>2. i \in 1..Len(peers) /\ f[i] \in Home(peers[i])!SearchResults(top, clock)
    BY <1>1 DEF Selections, Gathered
  <2>3. peers[i] \in Registries /\ peers[i] \in Members
    BY <2>2, PeerType
  <2>4. r \in cat[peers[i]] /\ r \in Home(peers[i])!Resolvable(r.id, clock)
    BY <2>1, <2>2, <2>3, SearchableIn
  <2>. QED  BY <1>2, <1>3, <2>3, <2>4 DEF TypeOK, Served
<1>. QED  BY <1>1, <1>2, <1>3, <1>4

-----------------------------------------------------------------------------
(* The cache must be trusted as well: it is what a hit answers.            *)
CacheInv ==
    \A o \in Owners : \A r, q \in cache[o].recs : r.id = o /\ r = q

FedInv == TypeOK /\ AnswersVerify /\ OnePerIdentity /\ CacheInv

(* A federation without peers satisfies the invariant.                     *)
LEMMA InitFedInv == Init => FedInv
<1>. SUFFICES ASSUME Init PROVE FedInv
  OBVIOUS
<1>1. TypeOK
  BY RecordsAssumption DEF Init, TypeOK, NotCached
<1>. QED  BY <1>1 DEF Init, FedInv, AnswersVerify, OnePerIdentity, CacheInv, NotCached

(* What happens at the registries does not touch what the node holds.      *)
LEMMA OutsideInv ==
  ASSUME FedInv, UNCHANGED <<answer, cache>>
  PROVE  AnswersVerify' /\ OnePerIdentity' /\ CacheInv'
BY DEF FedInv, AnswersVerify, OnePerIdentity, CacheInv

(* A resolved record enters the answer and the cache only verified.        *)
LEMMA ResolveFoundInv ==
  ASSUME FedInv, seen' \in [Owners -> 0..MaxTime], NEW o \in Owners, NEW i \in 1..Len(peers), NEW r, ResolveFound(i, o, r)
  PROVE  FedInv'
<1>1. r \in Record /\ r.id = o /\ Authentic(r, clock)
  BY TrustedServed DEF FedInv, ResolveFound
<1>2. clock + CacheTtl(r) \in Nat
  BY <1>1, CacheTtlType, RecordsAssumption DEF FedInv, TypeOK
<1>3. /\ answer' = [op |-> "resolve", recs |-> {r}]
      /\ cache' = [cache EXCEPT ![o] = [recs |-> {r}, until |-> clock + CacheTtl(r)]]
      /\ UNCHANGED <<clock, cat, peers, blank>>
  BY DEF ResolveFound
<1>4. TypeOK'
  BY <1>1, <1>2, <1>3 DEF FedInv, TypeOK
<1>5. \A u \in Owners : cache'[u].recs = IF u = o THEN {r} ELSE cache[u].recs
  BY <1>3 DEF FedInv, TypeOK
<1>6. AnswersVerify'
  BY <1>1, <1>3, <1>5 DEF FedInv, AnswersVerify, Authentic
<1>7. OnePerIdentity' /\ CacheInv'
  BY <1>1, <1>3, <1>5 DEF FedInv, OnePerIdentity, CacheInv
<1>. QED  BY <1>4, <1>6, <1>7 DEF FedInv

(* Time moves on by one, or not at all.                                    *)
LEMMA ClockType ==
  ASSUME TypeOK, Step
  PROVE  clock' \in clock..(clock + 1) /\ clock' \in 0..MaxTime
<1>1. CASE Tick
  BY <1>1, RecordsAssumption DEF Tick, TypeOK
<1>2. CASE UNCHANGED clock
  BY <1>2, RecordsAssumption DEF TypeOK
<1>. QED
  BY <1>1, <1>2 DEF Step, AddPeer, Publish, Withdraw, Renew, Search, ResolveCached,
     ResolveMissed, ResolveFound

LEMMA SeenType ==
  ASSUME TypeOK, [Next]_vars
  PROVE  seen' \in [Owners -> 0..MaxTime]
<1>1. CASE UNCHANGED vars
  BY <1>1 DEF TypeOK, vars
<1>2. CASE Next
  BY <1>2, ClockType DEF Next, Noted, TypeOK
<1>. QED  BY <1>1, <1>2

(* Every step preserves it.                                                *)
LEMMA NextFedInv == FedInv /\ [Next]_vars => FedInv'
<1>. SUFFICES ASSUME FedInv, Step \/ UNCHANGED vars, seen' \in [Owners -> 0..MaxTime]
              PROVE  FedInv'
  BY SeenType DEF FedInv, Next
<1>. USE DEF FedInv
<1>1. ASSUME NEW p \in Registries, AddPeer(p) PROVE FedInv'
  <2>1. TypeOK'
    BY <1>1 DEF AddPeer, TypeOK
  <2>. QED  BY <1>1, <2>1, OutsideInv DEF AddPeer
<1>2. ASSUME NEW p \in Registries, NEW r \in Signable, Publish(p, r) PROVE FedInv'
  <2>1. TypeOK'
    BY <1>2, RecordsAssumption DEF Publish, TypeOK, node
  <2>. QED  BY <1>2, <2>1, OutsideInv DEF Publish, node
<1>3. ASSUME NEW p \in Registries, NEW r \in cat[p], Withdraw(p, r) PROVE FedInv'
  <2>1. TypeOK'
    BY <1>3 DEF Withdraw, TypeOK, node
  <2>. QED  BY <1>3, <2>1, OutsideInv DEF Withdraw, node
<1>4. ASSUME NEW p \in Registries, NEW r \in cat[p], NEW ttl \in Ttls, Renew(p, r, ttl)
      PROVE  FedInv'
  <2>1. Renewed(r, clock, ttl) \in Record
    BY RenewedType, RecordsAssumption, FederationAssumption DEF TypeOK
  <2>2. TypeOK'
    BY <1>4, <2>1 DEF Renew, TypeOK, node
  <2>. QED  BY <1>4, <2>2, OutsideInv DEF Renew, node
<1>5. ASSUME NEW top \in Tops, Search(top) PROVE FedInv'
  <2>1. UNCHANGED <<clock, cat, peers, blank, cache>>
    BY <1>5 DEF Search
  <2>2. /\ \A r \in answer'.recs : r \in Record /\ Authentic(r, clock)
        /\ answer'.op = "search" /\ answer' = [op |-> answer'.op, recs |-> answer'.recs]
        /\ OnePerIdentity'
    BY <1>5, SearchAnswer DEF OnePerIdentity
  <2>3. TypeOK'
    BY <2>1, <2>2 DEF TypeOK
  <2>4. AnswersVerify' /\ CacheInv'
    BY <2>1, <2>2 DEF AnswersVerify, Authentic, CacheInv
  <2>. QED  BY <2>2, <2>3, <2>4
<1>6. ASSUME NEW o \in Owners, ResolveCached(o) PROVE FedInv'
  <2>1. /\ answer' = [op |-> "resolve", recs |-> cache[o].recs]
        /\ UNCHANGED <<clock, cat, peers, blank, cache>>
    BY <1>6 DEF ResolveCached
  <2>2. TypeOK'
    BY <2>1 DEF TypeOK
  <2>. QED  BY <2>1, <2>2 DEF AnswersVerify, OnePerIdentity, CacheInv
<1>7. ASSUME NEW o \in Owners, ResolveMissed(o) PROVE FedInv'
  BY <1>7 DEF ResolveMissed, TypeOK, AnswersVerify, OnePerIdentity, CacheInv
<1>8. ASSUME NEW o \in Owners, NEW i \in 1..Len(peers), NEW r \in Trusted(i, o),
             ResolveFound(i, o, r)
      PROVE  FedInv'
  BY <1>8, ResolveFoundInv
<1>9. CASE Tick
  <2>1. TypeOK'
    BY <1>9, RecordsAssumption DEF Tick, TypeOK, node
  <2>. QED  BY <1>9, <2>1, OutsideInv DEF Tick, node
<1>10. CASE UNCHANGED vars
  BY <1>10 DEF vars, TypeOK, AnswersVerify, OnePerIdentity, CacheInv
<1>. QED
  BY <1>1, <1>2, <1>3, <1>4, <1>5, <1>6, <1>7, <1>8, <1>9, <1>10 DEF Step

-----------------------------------------------------------------------------
(* The catalogues, the cache and the answers hold well-formed records.     *)
THEOREM FederationTypeCorrect == Spec => []TypeOK
<1>1. FedInv => TypeOK
  BY DEF FedInv
<1>. QED  BY <1>1, InitFedInv, NextFedInv, PTL DEF Spec

(* Whatever the peers do to the leases of their records, an answer or a    *)
(* cache entry of the federation still carries what its owner signed, and  *)
(* no identity is answered twice, however many peers replicate it.         *)
THEOREM AnswersStaySound == Spec => []AnswersAreSound
<1>1. FedInv => AnswersAreSound
  BY DEF FedInv, AnswersAreSound
<1>. QED  BY <1>1, InitFedInv, NextFedInv, PTL DEF Spec

(* A closed federation: nothing is answered but what a member serves at    *)
(* that moment or a cached copy that has not run out.                      *)
THEOREM ClosedFederation == Spec => AnswersAreServed
<1>. DEFINE New(r) == r \in answer'.recs \ answer.recs
            Known(r) == Served(r) \/ (Cached(r.id) /\ r \in cache[r.id].recs)
<1>1. FedInv /\ [Next]_vars => [\A r \in answer'.recs \ answer.recs : Known(r)]_vars
  <2>. SUFFICES ASSUME FedInv, Next, NEW r, New(r) PROVE Known(r)
    OBVIOUS
  <2>. USE DEF FedInv
  <2>1. ASSUME NEW top \in Tops, Search(top) PROVE Known(r)
    BY <2>1, SearchAnswer
  <2>2. ASSUME NEW o \in Owners, ResolveCached(o) PROVE Known(r)
    BY <2>2 DEF ResolveCached, CacheInv
  <2>3. ASSUME NEW o \in Owners, ResolveMissed(o) PROVE FALSE
    BY <2>3 DEF ResolveMissed
  <2>4. ASSUME NEW o \in Owners, NEW i \in 1..Len(peers), NEW q \in Trusted(i, o),
               ResolveFound(i, o, q)
        PROVE  Known(r)
    BY <2>4, TrustedServed DEF ResolveFound
  <2>5. CASE UNCHANGED answer
    BY <2>5
  <2>. QED
    BY <2>1, <2>2, <2>3, <2>4, <2>5 DEF Next, Step, AddPeer, Publish, Withdraw, Renew, Tick, node
<1>. QED  BY <1>1, InitFedInv, NextFedInv, PTL DEF Spec, AnswersAreServed

-----------------------------------------------------------------------------
(* A member served every cached copy, live, when `seen` says, and its entry *)
(* runs out a ttl after that at the latest.                                *)
StaleInv ==
    \A o \in Owners : \A r \in cache[o].recs :
        /\ cache[o].until <= seen[o] + CacheTtl(r)
        /\ r.lease # NoLease => seen[o] <= r.lease.exp

SeenPast == \A o \in Owners : seen[o] <= clock

(* What a member serves has a lease that has not run out.                  *)
LEMMA ServedLive ==
  ASSUME NEW r, Served(r), r.lease # NoLease
  PROVE  ~(clock > r.lease.exp)
BY DEF Served, Home!Resolvable, Home!LeaseExpired, Home!NoLease, NoLease

LEMMA ServedLiveNext ==
  ASSUME NEW r, Served(r)', r.lease # NoLease
  PROVE  ~(clock' > r.lease.exp)
BY DEF Served, Home!Resolvable, Home!LeaseExpired, Home!NoLease, NoLease

(* An entry that is left alone stays within its bound: what is seen again  *)
(* is seen later.                                                          *)
LEMMA SeenLater ==
  ASSUME TypeOK, SeenPast, StaleInv, Step, Noted, NEW o \in Owners, cache'[o] = cache[o],
         NEW r \in cache[o].recs
  PROVE  /\ cache'[o].until <= seen'[o] + CacheTtl(r)
         /\ r.lease # NoLease => seen'[o] <= r.lease.exp
<1>1. /\ r \in Record /\ CacheTtl(r) \in Nat /\ cache[o].until \in Nat
      /\ r.lease # NoLease => r.lease.exp \in Nat
  <2>1. r \in Record /\ cache[o].until \in Nat
    BY DEF TypeOK
  <2>. QED  BY <2>1, CacheTtlType DEF Record, Lease
<1>2. /\ clock' \in Nat /\ clock \in Nat /\ clock <= clock' /\ seen[o] \in Nat /\ seen[o] <= clock
  BY ClockType, RecordsAssumption DEF TypeOK, SeenPast
<1>3. seen'[o] = seen[o] \/ (seen'[o] = clock' /\ Served(r)')
  BY DEF Noted
<1>4. cache[o].until <= seen[o] + CacheTtl(r) /\ (r.lease # NoLease => seen[o] <= r.lease.exp)
  BY DEF StaleInv
<1>5. CASE seen'[o] = seen[o]
  BY <1>4, <1>5
<1>6. CASE seen'[o] = clock' /\ Served(r)'
  <2>1. cache'[o].until <= seen'[o] + CacheTtl(r)
    BY <1>1, <1>2, <1>4, <1>6
  <2>2. r.lease # NoLease => seen'[o] <= r.lease.exp
    BY <1>1, <1>2, <1>6, ServedLiveNext
  <2>. QED  BY <2>1, <2>2
<1>. QED  BY <1>3, <1>5, <1>6

(* A resolution caches what a member serves at that moment.                *)
LEMMA SeenFirst ==
  ASSUME FedInv, Noted, NEW o \in Owners, NEW i \in 1..Len(peers), NEW r,
         ResolveFound(i, o, r)
  PROVE  /\ cache'[o].recs = {r} /\ cache'[o].until <= seen'[o] + CacheTtl(r)
         /\ r.lease # NoLease => seen'[o] <= r.lease.exp
         /\ \A u \in Owners : u # o => cache'[u] = cache[u]
<1>1. r \in Record /\ r.id = o /\ Served(r)
  BY TrustedServed DEF FedInv, ResolveFound
<1>2. /\ cache' = [cache EXCEPT ![o] = [recs |-> {r}, until |-> clock + CacheTtl(r)]]
      /\ UNCHANGED <<clock, cat, peers>>
  BY DEF ResolveFound
<1>3. /\ cache'[o].recs = {r} /\ cache'[o].until = clock + CacheTtl(r)
      /\ \A u \in Owners : u # o => cache'[u] = cache[u]
  BY <1>2 DEF FedInv, TypeOK
<1>4. Served(r)'
  BY <1>1, <1>2 DEF Served, Members, Home!Resolvable, Home!Stored
<1>5. seen'[o] = clock' /\ clock' = clock
  BY <1>2, <1>3, <1>4 DEF Noted
<1>6. /\ clock \in Nat /\ CacheTtl(r) \in Nat
      /\ r.lease # NoLease => r.lease.exp \in Nat
  BY <1>1, CacheTtlType, RecordsAssumption DEF FedInv, TypeOK, Record, Lease
<1>. QED  BY <1>1, <1>3, <1>5, <1>6, ServedLive

LEMMA NextStaleInv ==
  ASSUME FedInv, SeenPast, StaleInv, [Next]_vars
  PROVE  SeenPast' /\ StaleInv'
<1>1. CASE UNCHANGED vars
  BY <1>1 DEF vars, SeenPast, StaleInv
<1>2. CASE Next
  <2>1. Step /\ Noted
    BY <1>2 DEF Next
  <2>2. SeenPast'
    BY <2>1, ClockType, RecordsAssumption DEF FedInv, TypeOK, SeenPast, Noted
  <2>3. ASSUME UNCHANGED cache PROVE StaleInv'
    BY <2>1, <2>3, SeenLater DEF FedInv, StaleInv
  <2>4. ASSUME NEW o \in Owners, NEW i \in 1..Len(peers), NEW r \in Trusted(i, o),
               ResolveFound(i, o, r)
        PROVE  StaleInv'
    <3>1. ASSUME NEW u \in Owners, NEW q \in cache'[u].recs
          PROVE  /\ cache'[u].until <= seen'[u] + CacheTtl(q)
                 /\ q.lease # NoLease => seen'[u] <= q.lease.exp
      <4>1. CASE u = o
        BY <2>1, <2>4, <3>1, <4>1, SeenFirst
      <4>2. CASE u # o
        BY <2>1, <2>4, <3>1, <4>2, SeenFirst, SeenLater DEF FedInv
      <4>. QED  BY <4>1, <4>2
    <3>. QED  BY <3>1 DEF StaleInv, CacheTtl
  <2>. QED
    BY <2>1, <2>2, <2>3, <2>4 DEF Step, AddPeer, Publish, Withdraw, Renew, Tick, node, Search,
       ResolveCached, ResolveMissed
<1>. QED  BY <1>1, <1>2

(* A hit answers what a member served, live, less than the ttl of its lease *)
(* ago: so long may a copy outlive its lease or its withdrawal, and no     *)
(* hit, renewal or later version at a peer prolongs it.                    *)
THEOREM StalenessBounded == Spec => []BoundedStaleness
<1>1. Init => SeenPast /\ StaleInv
  BY RecordsAssumption DEF Init, SeenPast, StaleInv, NotCached
<1>2. FedInv /\ StaleInv => BoundedStaleness
  <2>. SUFFICES ASSUME FedInv, StaleInv, NEW o \in Owners, NEW r \in cache[o].recs, Cached(o)
                PROVE  /\ r.lease = NoLease => clock < seen[o] + DefaultTtl
                       /\ r.lease # NoLease => clock < seen[o] + r.lease.ttl /\ seen[o] <= r.lease.exp
    BY DEF BoundedStaleness
  <2>1. cache[o].until <= seen[o] + CacheTtl(r) /\ (r.lease # NoLease => seen[o] <= r.lease.exp)
    BY DEF StaleInv
  <2>2. r \in Record /\ cache[o].until \in Nat /\ seen[o] \in Nat /\ clock \in Nat
    BY RecordsAssumption DEF FedInv, TypeOK
  <2>3. CacheTtl(r) \in Nat
    BY <2>2, CacheTtlType
  <2>4. clock < seen[o] + CacheTtl(r)
    BY <2>1, <2>2, <2>3 DEF Cached
  <2>. QED  BY <2>1, <2>4 DEF CacheTtl
<1>3. Init => FedInv /\ SeenPast /\ StaleInv
  BY <1>1, InitFedInv
<1>4. (FedInv /\ SeenPast /\ StaleInv) /\ [Next]_vars => (FedInv /\ SeenPast /\ StaleInv)'
  BY NextFedInv, NextStaleInv
<1>. QED  BY <1>2, <1>3, <1>4, PTL DEF Spec
=============================================================================
