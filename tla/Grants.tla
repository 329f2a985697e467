------------------------------- MODULE Grants -------------------------------
(***************************************************************************)
(* Capability grants: crates/thicket-interconnect/src/grant.rs and its     *)
(* Python twin sdk/py/thicket/grant.py, with the callers in app.py that    *)
(* attenuate, delegate and gate.                                           *)
(*                                                                         *)
(* A signature covers its link and the signature before it, so it is       *)
(* modelled as the chain of links that it closes; `signed` holds the       *)
(* signatures that exist. Only a key's holder makes its signatures, but a  *)
(* holder may sign a link that `attenuate` would have refused, and a       *)
(* grant may put together links of several chains: verification decides.   *)
(* Verification is synchronous; its loop is one step per link here, and    *)
(* nothing else moves while it runs.                                       *)
(***************************************************************************)
EXTENDS Integers, FiniteSets, Sequences

CONSTANTS
    Targets, Here,  \* the ids grants name, that of the resource that verifies
    TargetKeys, \* working keys of that resource
    Holders,    \* working keys of everybody else, other resources included
    Caps, Star, \* capabilities and the wildcard
    Pairs,      \* the <<name, value>> pairs constraints are made of
    NotBefore, NotAfter,   \* the endorsement of each target key
    Asked,      \* per target: the caveats signers may ask for
    Requests,   \* what may be requested: capability and attributes
    MaxTime, MaxSigned, MaxElsewhere, MaxLinks, MaxRevoked
                \* bounds; MaxElsewhere is that on links of other targets

Keys == TargetKeys \cup Holders
Caveats == [caps : SUBSET (Caps \cup {Star}), until : Nat, cons : SUBSET Pairs]
Link == [target : Targets, issuer : Keys, audience : Keys, cav : Caveats]
Request == [cap : Caps, attrs : SUBSET Pairs]

ASSUME GrantsAssumption ==
    /\ Here \in Targets
    /\ NotBefore \in [TargetKeys -> Nat] /\ NotAfter \in [TargetKeys -> Nat]
    /\ Asked \in [Targets -> SUBSET Caveats] /\ Requests \subseteq Request
    /\ MaxTime \in Nat /\ MaxSigned \in Nat /\ MaxElsewhere \in Nat
    /\ MaxLinks \in Nat /\ MaxRevoked \in Nat

VARIABLES
    clock,      \* unix_now()
    revoked,    \* the resource's revoked keys
    signed,     \* the signatures made so far
    check,      \* the request whose grant is being verified
    served      \* the last request that was served

vars == <<clock, revoked, signed, check, served>>

None == [grant |-> <<>>]
Checks == [caller : Holders, req : Requests, grant : Seq(signed) \ {<<>>}, upto : Nat]
Served == [caller : Holders, req : Requests, grant : Seq(signed) \ {<<>>}, at : 0..MaxTime]

TypeOK ==
    /\ clock \in 0..MaxTime
    /\ revoked \subseteq Keys
    /\ signed \subseteq Seq(Link) \ {<<>>}
    /\ check \in Checks \cup {None}
    /\ served \in Served \cup {None}

Init ==
    /\ clock = 0
    /\ revoked = {}
    /\ signed = {}
    /\ check = None
    /\ served = None

-----------------------------------------------------------------------------
(* Caveats *)

Allows(cav, cap) == Star \in cav.caps \/ cap \in cav.caps

(* Mutant: a child may drop constraints.                                   *)
NarrowsLoosely(child, parent) ==
    /\ Star \in parent.caps \/ child.caps \subseteq parent.caps
    /\ child.until <= parent.until

(* ensure_narrows *)
Narrows(child, parent) ==
    /\ Star \in parent.caps \/ child.caps \subseteq parent.caps
    /\ child.until <= parent.until
    /\ parent.cons \subseteq child.cons

(* satisfies: the constraints of the last link. *)
Satisfies(cav, attrs) == cav.cons \subseteq attrs

-----------------------------------------------------------------------------
(* Signing *)

Tip(c) == c[Len(c)]
Holder(c) == Tip(c).audience

Sign(c, link) ==
    /\ check = None
    /\ Len(c) < MaxLinks /\ Cardinality(signed) < MaxSigned
    /\ link.target = Here \/ Cardinality({d \in signed : Tip(d).target # Here}) < MaxElsewhere
    /\ signed' = signed \cup {Append(c, link)}
    /\ UNCHANGED <<clock, revoked, check, served>>

Issue(t, a, cav) == Sign(<<>>, [target |-> Here, issuer |-> t, audience |-> a, cav |-> cav])

Attenuate(c, a, cav) ==
    /\ Narrows(cav, Tip(c).cav)
    /\ Sign(c, [target |-> Tip(c).target, issuer |-> Holder(c), audience |-> a, cav |-> cav])

(* Context.delegate: the expiry is capped, the constraints are merged.     *)
Merged(new, old) == new \cup {p \in old : \A q \in new : q[1] # p[1]}
Delegated(cav, last) ==
    [caps |-> cav.caps,
     until |-> IF cav.until < last.until THEN cav.until ELSE last.until,
     cons |-> Merged(cav.cons, last.cons)]
Delegate(c, a, cav) == Attenuate(c, a, Delegated(cav, Tip(c).cav))

(* Mutant: the constraints of the held grant are not carried over.         *)
AuthCaveatsBare(last, cap) == [caps |-> {cap}, until |-> last.until, cons |-> {}]

(* Context._auth_for: the holder attenuates its grant to the capability    *)
(* that it is about to call, for itself.                                   *)
AuthCaveats(last, cap) == [caps |-> {cap}, until |-> last.until, cons |-> last.cons]
AuthFor(c, cap) ==
    /\ Allows(Tip(c).cav, cap)
    /\ Attenuate(c, Holder(c), AuthCaveats(Tip(c).cav, cap))

(* A holder that signs what it likes after any signature, or first; the    *)
(* other resources are holders here, and sign in the name of their own id. *)
SignAny(c, id, h, a, cav) ==
    Sign(c, [target |-> id, issuer |-> h, audience |-> a, cav |-> cav])

-----------------------------------------------------------------------------
(* Verification of g, a sequence of links each with its signature *)

Endorsed(k) == k \in TargetKeys /\ NotBefore[k] <= clock /\ clock <= NotAfter[k]

(* Mutant of the check of a link: only the issuer's revocation counts.     *)
LinkVerifiesIssuer(g, i, cap) ==
    /\ Tip(g[i]).target = Here /\ Tip(g[i]).issuer \notin revoked
    /\ IF i = 1 THEN Endorsed(Tip(g[i]).issuer)
                ELSE Tip(g[i]).issuer = Tip(g[i - 1]).audience
    /\ i > 1 => Narrows(Tip(g[i]).cav, Tip(g[i - 1]).cav)
    /\ SubSeq(g[i], 1, Len(g[i]) - 1) = IF i = 1 THEN <<>> ELSE g[i - 1]
    /\ Allows(Tip(g[i]).cav, cap) /\ clock <= Tip(g[i]).cav.until

(* The signature covers the id of the resource, the link and the signature *)
(* before it.                                                              *)
LinkVerifies(g, i, cap) ==
    /\ Tip(g[i]).target = Here
    /\ Tip(g[i]).issuer \notin revoked /\ Tip(g[i]).audience \notin revoked
    /\ IF i = 1 THEN Endorsed(Tip(g[i]).issuer)
                ELSE Tip(g[i]).issuer = Tip(g[i - 1]).audience
    /\ i > 1 => Narrows(Tip(g[i]).cav, Tip(g[i - 1]).cav)
    /\ SubSeq(g[i], 1, Len(g[i]) - 1) = IF i = 1 THEN <<>> ELSE g[i - 1]
    /\ Allows(Tip(g[i]).cav, cap) /\ clock <= Tip(g[i]).cav.until

(* A request arrives with a grant. One that is empty, or whose first link  *)
(* does not verify, is refused at once (EmptyGrant, TargetMismatch, ...).  *)
Present(h, g, req) ==
    /\ check = None
    /\ check' = IF g # <<>> => LinkVerifies(g, 1, req.cap)
                THEN [caller |-> h, req |-> req, grant |-> g, upto |-> 0] ELSE None
    /\ served' = None
    /\ UNCHANGED <<clock, revoked, signed>>

Finished == check # None /\ check.upto = Len(check.grant)

VerifyLink ==
    /\ check # None /\ check.upto < Len(check.grant)
    /\ LinkVerifies(check.grant, check.upto + 1, check.req.cap)
    /\ check' = [check EXCEPT !.upto = @ + 1]
    /\ UNCHANGED <<clock, revoked, signed, served>>

Accepted ==
    /\ Holder(Tip(check.grant)) = check.caller
    /\ Satisfies(Tip(Tip(check.grant)).cav, check.req.attrs)

Serve ==
    /\ Finished /\ Accepted
    /\ served' = [caller |-> check.caller, req |-> check.req, grant |-> check.grant, at |-> clock]
    /\ check' = None
    /\ UNCHANGED <<clock, revoked, signed>>

Refuse ==
    /\ check # None
    /\ IF Finished THEN ~Accepted
                   ELSE ~LinkVerifies(check.grant, check.upto + 1, check.req.cap)
    /\ check' = None
    /\ UNCHANGED <<clock, revoked, signed, served>>

-----------------------------------------------------------------------------
Revoke(k) ==
    /\ check = None /\ Cardinality(revoked) < MaxRevoked
    /\ revoked' = revoked \cup {k}
    /\ UNCHANGED <<clock, signed, check, served>>

Tick ==
    /\ check = None /\ clock < MaxTime
    /\ clock' = clock + 1
    /\ UNCHANGED <<revoked, signed, check, served>>

(* Mutant: an empty grant is not refused.                                  *)
GrantsOrNone(n) == UNION {[1..m -> signed] : m \in 0..n}

(* What may be presented: links in any order, but not none. *)
Grants(n) == UNION {[1..m -> signed] : m \in 1..n}

Next ==
    \/ \E id \in Targets : \E a \in Holders, cav \in Asked[id] :
          \/ \E t \in TargetKeys : id = Here /\ Issue(t, a, cav)
          \/ \E c \in signed : Tip(c).target = id /\ (Attenuate(c, a, cav) \/ Delegate(c, a, cav))
          \/ \E c \in signed \cup {<<>>}, h \in Holders : SignAny(c, id, h, a, cav)
    \/ \E c \in signed, cap \in Caps : AuthFor(c, cap)
    \/ \E h \in Holders, g \in Grants(MaxLinks), req \in Requests : Present(h, g, req)
    \/ VerifyLink \/ Serve \/ Refuse
    \/ \E k \in Keys : Revoke(k)
    \/ Tick

Spec == Init /\ [][Next]_vars

-----------------------------------------------------------------------------
(* Properties *)

(* Authority only narrows: a served request is allowed, unexpired and      *)
(* within the constraints of every link of its grant, although only the    *)
(* last link's constraints are compared with the request.                  *)
WithinAuthority ==
    served # None => \A i \in 1..Len(served.grant) :
        LET cav == Tip(served.grant[i]).cav
        IN /\ Allows(cav, served.req.cap) /\ served.at <= cav.until
           /\ cav.cons \subseteq served.req.attrs

(* The grant of a served request is one chain: it starts at a current key  *)
(* of the resource, each link was signed by the key the link before it     *)
(* names, for this resource and as the continuation of exactly that chain, *)
(* and it ends at the caller.                                              *)
ChainOfCustody ==
    served # None =>
        LET g == served.grant  n == Len(g)
        IN /\ g[n][1].issuer \in TargetKeys
           /\ served.at \in NotBefore[g[n][1].issuer]..NotAfter[g[n][1].issuer]
           /\ g[n][n].audience = served.caller
           /\ Len(g[n]) = n /\ \A i \in 1..n : g[n][i] = Tip(g[i]) /\ g[n][i].target = Here
           /\ \A i \in 2..n : g[n][i].issuer = g[n][i - 1].audience

(* `Grant::verify` accepts only one chain of custody, and only what every  *)
(* link of it allows, whatever signatures the caller puts together.        *)
HonouredAsGranted == WithinAuthority /\ ChainOfCustody

(* Once a key is revoked, no request is served by a grant it takes part in,*)
(* as issuer or as audience, at any depth of the chain.                    *)
RevokedRefused ==
    [][served' # served /\ served' # None =>
          \A i \in 1..Len(served'.grant) :
              {Tip(served'.grant[i]).issuer, Tip(served'.grant[i]).audience} \cap revoked = {}]_vars

(* The grant that presents the chain c. *)
Presented(c) == [i \in 1..Len(c) |-> SubSeq(c, 1, i)]
Verifies(g, caller, cap) ==
    /\ \A i \in 1..Len(g) : LinkVerifies(g, i, cap)
    /\ Holder(Tip(g)) = caller

(* A holder whose grant verifies for a capability can also make the        *)
(* narrower one that ctx.call sends in its place, and that verifies too.   *)
HeldGrantUsable ==
    \A c \in signed, cap \in Caps :
        LET h    == Holder(c)
            auth == AuthCaveats(Tip(c).cav, cap)
            link == [target |-> Tip(c).target, issuer |-> h, audience |-> h, cav |-> auth]
        IN Verifies(Presented(c), h, cap) =>
              /\ Narrows(auth, Tip(c).cav)
              /\ Verifies(Presented(Append(c, link)), h, cap)
=============================================================================
