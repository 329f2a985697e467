------------------------------ MODULE Registry ------------------------------
(***************************************************************************)
(* A directory: the Registry of crates/thicket-registry/src/registry.rs    *)
(* behind the handler of crates/thicket-directory/src/server.rs. Each      *)
(* connection is served by a task that handles one request at a time; the  *)
(* handler reads the clock first and waits for the registry's lock after,  *)
(* so a request is applied with a `now` that may be in the past. The       *)
(* operator holds the same lock to revoke keys and to sweep.               *)
(***************************************************************************)
EXTENDS Records

CONSTANTS
    Conns,      \* connections to the directory
    Owner,      \* the identity each connection authenticated as
    Ttls,       \* the ttls a Renew may ask for
    Tops,       \* the top_k a Search may ask for
    Checked     \* the build checks arithmetic overflow (dev profile)

ASSUME RegistryAssumption ==
    /\ Owner \in [Conns -> Owners]
    /\ Ttls \subseteq 0..(Width - 1)
    /\ Checked \in BOOLEAN

VARIABLES
    clock,      \* unix_now()
    store,      \* the stored records, at most one per identity
    revoked,    \* the RevocationSet
    inflight,   \* per connection: the request its handler works on
    alive,      \* connections whose serving task has not panicked
    reply       \* the last reply: operation, outcome and records

vars == <<clock, store, revoked, inflight, alive, reply>>

None == [op |-> "none"]
Requests ==
    [op : {"register"}, rec : Signable]
      \cup [op : {"resolve", "deregister"}, id : Owners]
      \cup [op : {"renew"}, id : Owners, ttl : Ttls]
      \cup [op : {"search"}, top : Tops]
InFlight == [req : Requests, now : 0..MaxTime]

TypeOK ==
    /\ clock \in 0..MaxTime
    /\ store \subseteq Record
    /\ revoked \subseteq Keys
    /\ inflight \in [Conns -> InFlight \cup {None}]
    /\ alive \subseteq Conns
    /\ reply \in [op : {"none", "register", "resolve", "search", "renew", "deregister"},
                  ok : BOOLEAN, recs : SUBSET Record]

Init ==
    /\ clock = 0
    /\ store = {}
    /\ revoked = {}
    /\ inflight = [p \in Conns |-> None]
    /\ alive = Conns
    /\ reply = [op |-> "none", ok |-> TRUE, recs |-> {}]

-----------------------------------------------------------------------------
(* Records *)

Stored(o) == {r \in store : r.id = o}

(* Mutant: verification without the revocation set.                        *)
VerifiesRevoked(r, now) == Authentic(r, now)

(* SignedRecord::verify, with the revocation set of the registry.          *)
Verifies(r, now) == Authentic(r, now) /\ r.key \notin revoked

(* Mutant: unlisted records are searched as well.                          *)
PublicRecordsUnlisted(now) == {r \in store : r.vis # "Private" /\ ~LeaseExpired(r, now)}

(* What `resolve` and `search` return.                                     *)
Resolvable(o, now) == {r \in Stored(o) : ~LeaseExpired(r, now) /\ r.vis # "Private"}
PublicRecords(now) == {r \in store : r.vis = "Public" /\ ~LeaseExpired(r, now)}
SearchResults(top, now) == TopK(PublicRecords(now), top)

-----------------------------------------------------------------------------
(* A request reaches its handler, which reads the clock and then waits for *)
(* the lock.                                                               *)
Begin(p, q) ==
    /\ p \in alive /\ inflight[p] = None
    /\ inflight' = [inflight EXCEPT ![p] = [req |-> q, now |-> clock]]
    /\ UNCHANGED <<clock, store, revoked, alive, reply>>

Handling(p, op) == p \in alive /\ inflight[p] # None /\ inflight[p].req.op = op

Answer(p, ok, recs) ==
    /\ reply' = [op |-> inflight[p].req.op, ok |-> ok, recs |-> recs]
    /\ inflight' = [inflight EXCEPT ![p] = None]
    /\ UNCHANGED <<clock, alive>>

(* Mutant: the identity of the channel is not compared.                    *)
MineAnyone(p, o) == TRUE

(* The channel identity gates the operations that write. *)
Mine(p, o) == o = Owner[p]

(* Mutant: no comparison of versions.                                      *)
RegisterAnyVersion(p) ==
    /\ Handling(p, "register")
    /\ LET r  == inflight[p].req.rec
           ok == Mine(p, r.id) /\ Verifies(r, inflight[p].now)
       IN /\ store' = IF ok THEN (store \ Stored(r.id)) \cup {r} ELSE store
          /\ Answer(p, ok, {})
    /\ UNCHANGED revoked

Register(p) ==
    /\ Handling(p, "register")
    /\ LET r  == inflight[p].req.rec
           ok == /\ Mine(p, r.id)
                 /\ Verifies(r, inflight[p].now)
                 /\ \A s \in Stored(r.id) : r.ver > s.ver
       IN /\ store' = IF ok THEN (store \ Stored(r.id)) \cup {r} ELSE store
          /\ Answer(p, ok, {})
    /\ UNCHANGED revoked

Resolve(p) ==
    /\ Handling(p, "resolve")
    /\ LET found == Resolvable(inflight[p].req.id, inflight[p].now)
       IN Answer(p, found # {}, found)
    /\ UNCHANGED <<store, revoked>>

Search(p) ==
    /\ Handling(p, "search")
    /\ \E S \in SearchResults(inflight[p].req.top, inflight[p].now) : Answer(p, TRUE, S)
    /\ UNCHANGED <<store, revoked>>

Renewable(p) ==
    {r \in Stored(inflight[p].req.id) : Mine(p, r.id) /\ r.lease # NoLease}

Overflows(p) == Checked /\ inflight[p].now + inflight[p].req.ttl >= Width

Renew(p) ==
    /\ Handling(p, "renew")
    /\ Renewable(p) # {} => ~Overflows(p)
    /\ store' = (store \ Renewable(p))
                  \cup {Renewed(r, inflight[p].now, inflight[p].req.ttl) : r \in Renewable(p)}
    /\ Answer(p, Renewable(p) # {}, {})
    /\ UNCHANGED revoked

(* `now + ttl` panics after issued_at and ttl were assigned: the serving   *)
(* task dies with its connection and the lock is released.                 *)
RenewPanics(p) ==
    /\ Handling(p, "renew") /\ Renewable(p) # {} /\ Overflows(p)
    /\ store' = (store \ Renewable(p))
                  \cup {[r EXCEPT !.lease.at = inflight[p].now,
                                  !.lease.ttl = inflight[p].req.ttl] : r \in Renewable(p)}
    /\ alive' = alive \ {p}
    /\ inflight' = [inflight EXCEPT ![p] = None]
    /\ UNCHANGED <<clock, revoked, reply>>

Deregister(p) ==
    /\ Handling(p, "deregister")
    /\ LET o  == inflight[p].req.id
           ok == Mine(p, o)
       IN /\ store' = IF ok THEN store \ Stored(o) ELSE store
          /\ Answer(p, ok, {})
    /\ UNCHANGED revoked

Handle(p) == Register(p) \/ Resolve(p) \/ Search(p) \/ Renew(p) \/ RenewPanics(p) \/ Deregister(p)

-----------------------------------------------------------------------------
(* The operator, through DirectoryServer::registry(), and time *)

(* Mutant: the identity is revoked in place of its working key.            *)
RevokeIdentity(k) ==
    /\ Stored(KeyOwner[k]) # {}
    /\ revoked' = revoked \cup {KeyOwner[k]}
    /\ store' = store \ Stored(KeyOwner[k])
    /\ UNCHANGED <<clock, inflight, alive, reply>>

(* A root-signed revocation of the key k, for an identity that is stored.  *)
Revoke(k) ==
    /\ Stored(KeyOwner[k]) # {}
    /\ revoked' = revoked \cup {k}
    /\ store' = store \ {r \in Stored(KeyOwner[k]) : r.key \in revoked'}
    /\ UNCHANGED <<clock, inflight, alive, reply>>

SweepExpired ==
    /\ store' = {r \in store : ~LeaseExpired(r, clock)}
    /\ UNCHANGED <<clock, revoked, inflight, alive, reply>>

Tick ==
    /\ clock < MaxTime
    /\ clock' = clock + 1
    /\ UNCHANGED <<store, revoked, inflight, alive, reply>>

Next ==
    \/ \E p \in Conns : (\E q \in Requests : Begin(p, q)) \/ Handle(p)
    \/ \E k \in Keys : Revoke(k)
    \/ SweepExpired
    \/ Tick

Spec == Init /\ [][Next]_vars

-----------------------------------------------------------------------------
(* Properties *)

(* The store holds at most one record per identity, signed by a key of     *)
(* that identity.                                                          *)
StoreIsMap ==
    /\ \A r, s \in store : r.id = s.id => r = s
    /\ \A r \in store : KeyOwner[r.key] = r.id

(* No stored record is signed by a revoked key, whichever of the           *)
(* registration and the revocation was applied first.                      *)
NoRevokedSigner == \A r \in store : r.key \notin revoked

(* In every interleaving of registrations, renewals and revocations the    *)
(* store is what resolve needs it to be: one record for an identity, by a  *)
(* key of it that still counts.                                            *)
StoreIsSound == StoreIsMap /\ NoRevokedSigner

(* Discovery returns only what was published for it: nothing private, and  *)
(* nothing unlisted from a search.                                         *)
VisibilityRespected ==
    \A r \in reply.recs : /\ r.vis # "Private"
                          /\ reply.op = "search" => r.vis = "Public"

(* While an identity stays stored its version never goes back, and with    *)
(* the same version nothing but the lease has changed: a delayed or        *)
(* repeated registration cannot undo a newer one.                          *)
VersionsAdvance ==
    [][\A r \in store, s \in store' :
          r.id = s.id => s.ver > r.ver \/ [s EXCEPT !.lease = r.lease] = r]_vars

(* A record changes only through a request of its owner, through the       *)
(* revocation of its key, or because its lease ran out.                    *)
OwnerControls ==
    [][\A r \in store \ store' :
          \/ \E p \in Conns : Owner[p] = r.id /\ inflight[p] # None /\ inflight'[p] = None
          \/ r.key \in revoked' \ revoked
          \/ LeaseExpired(r, clock)]_vars

(* plan.md:94: "Discovery yields a verifiable, self-describing record".    *)
(* What the directory serves still carries the signature of its content.   *)
ServedRecordsVerify == \A r \in reply.recs : r.signed = r.lease
=============================================================================
