----------------------------- MODULE Federation -----------------------------
(***************************************************************************)
(* A federation of registries: crates/thicket-federation/src/federation.rs *)
(* over the Peer trait of peer.rs. Every peer is a Registry whose owners   *)
(* publish, renew and withdraw records independently of the federation; a  *)
(* record may be held by several peers in different versions. The node     *)
(* verifies what a peer returns (with an empty revocation set) and caches  *)
(* what it resolves.                                                       *)
(***************************************************************************)
EXTENDS Records, Sequences

CONSTANTS
    Registries, \* registries that may become peers
    MaxPeers,   \* peers a query fans out to
    DefaultTtl, \* cache ttl of a record without a lease (300 in the code)
    Ttls,       \* the ttls a renewal may ask for
    Tops        \* the top_k a search may ask for

ASSUME FederationAssumption ==
    /\ MaxPeers \in Nat /\ DefaultTtl \in Nat
    /\ Ttls \subseteq Nat /\ Tops \subseteq Nat

VARIABLES
    clock,      \* the `now` of every operation
    cat,        \* per registry: the records it stores
    peers,      \* the peers of the federation, in the order of add_peer
    blank,      \* the peers whose catalogue was empty when they were added
    cache,      \* per identity: the cached record and when it expires
    seen,       \* per identity: when a peer last served the cached record
    answer      \* the last search or resolve and what it returned

vars == <<clock, cat, peers, blank, cache, seen, answer>>
node == <<peers, blank, cache, answer>>

(* The Registry behind a peer; how it is reached and its revocations are   *)
(* left out: Withdraw stands for all that ends a record.                   *)
Home(p) == INSTANCE Registry WITH
    store <- cat[p], revoked <- {}, Conns <- {}, Owner <- <<>>, Checked <- FALSE,
    inflight <- <<>>, alive <- {}, reply <- <<>>

NotCached == [recs |-> {}, until |-> 0]
Members == {peers[i] : i \in 1..Len(peers)}

TypeOK ==
    /\ clock \in 0..MaxTime
    /\ cat \in [Registries -> SUBSET Record]
    /\ peers \in Seq(Registries)
    /\ blank \subseteq Registries
    /\ cache \in [Owners -> [recs : SUBSET Record, until : Nat]]
    /\ seen \in [Owners -> 0..MaxTime]
    /\ answer \in [op : {"none", "search", "resolve"}, recs : SUBSET Record]

Init ==
    /\ clock = 0
    /\ cat = [p \in Registries |-> {}]
    /\ peers = <<>>
    /\ blank = {}
    /\ cache = [o \in Owners |-> NotCached]
    /\ seen = [o \in Owners |-> 0]
    /\ answer = [op |-> "none", recs |-> {}]

-----------------------------------------------------------------------------
(* What happens at the registries, independently of the federation *)

Publish(p, r) ==
    /\ Authentic(r, clock)
    /\ \A s \in Home(p)!Stored(r.id) : r.ver > s.ver
    /\ cat' = [cat EXCEPT ![p] = (@ \ Home(p)!Stored(r.id)) \cup {r}]
    /\ UNCHANGED <<clock, node>>

Renew(p, r, ttl) ==
    /\ r \in cat[p] /\ r.lease # NoLease
    /\ cat' = [cat EXCEPT ![p] = (@ \ {r}) \cup {Renewed(r, clock, ttl)}]
    /\ UNCHANGED <<clock, node>>

(* Deregister, the revocation of the signer, or the sweep of its lease.    *)
Withdraw(p, r) ==
    /\ r \in cat[p]
    /\ cat' = [cat EXCEPT ![p] = @ \ {r}]
    /\ UNCHANGED <<clock, node>>

Tick ==
    /\ clock < MaxTime
    /\ clock' = clock + 1
    /\ UNCHANGED <<cat, node>>

-----------------------------------------------------------------------------
(* add_peer captures the profile of the catalogue as it is now; later      *)
(* publications do not change it.                                          *)
AddPeer(p) ==
    /\ p \notin Members
    /\ peers' = Append(peers, p)
    /\ blank' = IF Home(p)!PublicRecords(clock) = {} THEN blank \cup {p} ELSE blank
    /\ UNCHANGED <<clock, cat, cache, answer>>

(* select_peers: the best max_peers by a stable sort. The match of a       *)
(* profile with an intent is arbitrary, but all blank profiles are equal.  *)
Selections ==
    {S \in SUBSET (1..Len(peers)) :
        /\ Cardinality(S) = IF MaxPeers < Len(peers) THEN MaxPeers ELSE Len(peers)
        /\ \A i, j \in 1..Len(peers) :
              i < j /\ j \in S /\ {peers[i], peers[j]} \subseteq blank => i \in S}

(* The answers of the selected peers, each cut at top_k by the peer.       *)
Gathered(S, top) ==
    {f \in [S -> SUBSET UNION {cat[p] : p \in Members}] :
        \A i \in S : f[i] \in Home(peers[i])!SearchResults(top, clock)}

(* Verified and deduplicated by identity: the highest version wins, one of *)
(* those records if it has been received several times.                    *)
Merges(R) ==
    LET ok == {r \in R : Authentic(r, clock)}
    IN {M \in SUBSET ok :
          /\ \A r, q \in M : r.id = q.id => r = q
          /\ \A r \in ok : \E q \in M : q.id = r.id /\ q.ver >= r.ver}

Search(top) ==
    /\ \E S \in Selections : \E f \in Gathered(S, top) :
         \E M \in Merges(UNION {f[i] : i \in S}) : \E T \in TopK(M, top) :
            answer' = [op |-> "search", recs |-> T]
    /\ UNCHANGED <<clock, cat, peers, blank, cache>>

-----------------------------------------------------------------------------
(* resolve: the cache, or the first peer whose record verifies *)

Cached(o) == cache[o].until > clock

(* Mutant: the default is missing.                                         *)
CacheTtlNoDefault(r) == r.lease.exp - clock

CacheTtl(r) == IF r.lease = NoLease THEN DefaultTtl ELSE r.lease.ttl

(* Mutant: a hit extends the entry.                                        *)
ResolveCachedSliding(o) ==
    /\ Cached(o)
    /\ answer' = [op |-> "resolve", recs |-> cache[o].recs]
    /\ cache' = [cache EXCEPT ![o].until = clock + CacheTtl(CHOOSE r \in cache[o].recs : TRUE)]
    /\ UNCHANGED <<clock, cat, peers, blank>>

ResolveCached(o) ==
    /\ Cached(o)
    /\ answer' = [op |-> "resolve", recs |-> cache[o].recs]
    /\ UNCHANGED <<clock, cat, peers, blank, cache>>

(* Mutants: the record is not verified; the registry hides nothing.        *)
TrustedUnverified(i, o) == Home(peers[i])!Resolvable(o, clock)
TrustedPrivate(i, o) == {r \in Home(peers[i])!Stored(o) : Authentic(r, clock)}

(* What the i-th peer resolves, when the federation can trust it.          *)
Trusted(i, o) == {r \in Home(peers[i])!Resolvable(o, clock) : Authentic(r, clock)}

(* i is the first peer that has a record for o, r that record.             *)
ResolveFound(i, o, r) ==
    /\ ~Cached(o)
    /\ \A j \in 1..(i - 1) : Trusted(j, o) = {}
    /\ r \in Trusted(i, o)
    /\ answer' = [op |-> "resolve", recs |-> {r}]
    /\ cache' = [cache EXCEPT ![o] = [recs |-> {r}, until |-> clock + CacheTtl(r)]]
    /\ UNCHANGED <<clock, cat, peers, blank>>

ResolveMissed(o) ==
    /\ ~Cached(o)
    /\ \A i \in 1..Len(peers) : Trusted(i, o) = {}
    /\ answer' = [op |-> "resolve", recs |-> {}]
    /\ UNCHANGED <<clock, cat, peers, blank, cache>>

Step ==
    \/ \E p \in Registries :
          \/ AddPeer(p)
          \/ \E r \in Signable : Publish(p, r)
          \/ \E r \in cat[p] : Withdraw(p, r) \/ \E t \in Ttls : Renew(p, r, t)
    \/ \E t \in Tops : Search(t)
    \/ \E o \in Owners :
          \/ ResolveCached(o) \/ ResolveMissed(o)
          \/ \E i \in 1..Len(peers) : \E r \in Trusted(i, o) : ResolveFound(i, o, r)
    \/ Tick

(* What a member serves now: live, and not private.                        *)
Served(r) == \E p \in Members : r \in Home(p)!Resolvable(r.id, clock)

(* `seen` keeps up with the cached records that some member still serves.  *)
Noted ==
    seen' = [o \in Owners |-> IF \A r \in cache'[o].recs : Served(r)' THEN clock' ELSE seen[o]]

Next == Step /\ Noted

Spec == Init /\ [][Next]_vars

-----------------------------------------------------------------------------
(* Properties *)

(* No answer and no cached record lost its signature to a renewal at one   *)
(* of the peers: what the federation hands out carries the lease its owner *)
(* signed, for a key of that owner.                                        *)
AnswersVerify ==
    \A r \in answer.recs \cup UNION {cache[o].recs : o \in Owners} :
        r.signed = r.lease /\ KeyOwner[r.key] = r.id

(* A record replicated at several peers, in any versions, is found once.   *)
OnePerIdentity == \A r, q \in answer.recs : r.id = q.id => r = q

(* What `resolve` and `search` may tell a caller: records that verify, and *)
(* one for an identity, however the peers differ.                          *)
AnswersAreSound == AnswersVerify /\ OnePerIdentity

(* A closed federation: an answer holds only what a member serves now, or  *)
(* what is in the cache for less than its ttl.                             *)
AnswersAreServed ==
    [][\A r \in answer'.recs \ answer.recs :
          Served(r) \/ (Cached(r.id) /\ r \in cache[r.id].recs)]_vars

(* plan.md:423, "bounded staleness": a member served what a hit answers    *)
(* less than its ttl ago, and live. So a cached copy outlives its lease or *)
(* its withdrawal, at most by its ttl, and no hit prolongs it.             *)
BoundedStaleness ==
    \A o \in Owners : \A r \in cache[o].recs : Cached(o) =>
        /\ r.lease = NoLease => clock < seen[o] + DefaultTtl
        /\ r.lease # NoLease => clock < seen[o] + r.lease.ttl /\ seen[o] <= r.lease.exp
=============================================================================
