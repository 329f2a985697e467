------------------------------- MODULE Records ------------------------------
(***************************************************************************)
(* Signed records and their leases: crates/thicket-core/src/record.rs,     *)
(* capability.rs and identity.rs, and the ranking that discovery applies.  *)
(*                                                                         *)
(* A record carries the lease its signature covers in `signed`; the rest   *)
(* of the payload never changes once it is signed. Identities are honest:  *)
(* a working key belongs to one identity and signs only for it.            *)
(***************************************************************************)
EXTENDS Integers, FiniteSets

CONSTANTS
    Owners,     \* identities
    Keys,       \* working keys
    KeyOwner,   \* the identity that endorsed each working key
    NotBefore, NotAfter,   \* the endorsement of each key
    Signable,   \* the records the owners may publish
    Score,      \* similarity of a record's best capability to the need
    Width,      \* times are u64: modulo Width
    MaxTime     \* bound on the clock

NoLease == [at |-> 0, ttl |-> 0, exp |-> -1]
Lease == [at : Nat, ttl : Nat, exp : Nat] \cup {NoLease}

Record == [id : Owners, ver : Nat, key : Keys,
           vis : {"Public", "Unlisted", "Private"}, lease : Lease, signed : Lease]

ASSUME RecordsAssumption ==
    /\ KeyOwner \in [Keys -> Owners]
    /\ NotBefore \in [Keys -> Nat] /\ NotAfter \in [Keys -> Nat]
    /\ Signable \subseteq Record
    /\ \A r \in Signable : KeyOwner[r.key] = r.id /\ r.signed = r.lease
    /\ MaxTime \in Nat /\ Width \in Nat /\ MaxTime < Width

(* SignedRecord::verify with an empty revocation set: the id binding, the  *)
(* endorsement of the signer and the signature over the payload.           *)
Authentic(r, now) ==
    /\ KeyOwner[r.key] = r.id
    /\ NotBefore[r.key] <= now /\ now <= NotAfter[r.key]
    /\ r.signed = r.lease

LeaseExpired(r, now) == r.lease # NoLease /\ now > r.lease.exp

(* A renewal rewrites the lease of the signed payload in place.            *)
Renewed(r, now, ttl) ==
    [r EXCEPT !.lease = [at |-> now, ttl |-> ttl, exp |-> (now + ttl) % Width]]

(* What ranking by score and cutting at k may leave of S; records of equal *)
(* score come in any order.                                                *)
TopK(S, k) ==
    {T \in SUBSET S :
        /\ Cardinality(T) = k \/ (Cardinality(T) < k /\ T = S)
        /\ \A r \in T, q \in S \ T : Score[r.key] >= Score[q.key]}
=============================================================================
