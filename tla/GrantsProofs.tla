---------------------------- MODULE GrantsProofs ----------------------------
(***************************************************************************)
(* Proofs about Grants, for chains of any length, any keys, caveats and    *)
(* endorsements, and any set of signatures.                                *)
(***************************************************************************)
EXTENDS Grants, SequenceTheorems, TLAPS

(* A non-empty sequence without its last element.                          *)
LEMMA FrontFacts ==
  ASSUME NEW S, NEW s \in Seq(S), s # <<>>
  PROVE  /\ Len(s) \in Nat \ {0} /\ Len(SubSeq(s, 1, Len(s) - 1)) = Len(s) - 1
         /\ \A j \in 1..(Len(s) - 1) : SubSeq(s, 1, Len(s) - 1)[j] = s[j]
<1>. DEFINE m == Len(s) - 1
<1>1. Len(s) \in Nat \ {0} /\ m \in Nat /\ \A i \in 1..m : s[i] \in S
  OBVIOUS
<1>. HIDE DEF m
<1>2. Len(SubSeq(s, 1, m)) = IF 1 <= m THEN m - 1 + 1 ELSE 0
  BY <1>1, SubSeqProperties
<1>3. \A i \in 1..(m - 1 + 1) : SubSeq(s, 1, m)[i] = s[1 + i - 1]
  BY <1>1, SubSeqProperties
<1>4. \A i \in 1..m : SubSeq(s, 1, m)[i] = s[i]
  <2>. SUFFICES ASSUME NEW i \in 1..m PROVE SubSeq(s, 1, m)[i] = s[i]
    OBVIOUS
  <2>1. i \in 1..(m - 1 + 1) /\ 1 + i - 1 = i
    BY <1>1
  <2>. QED  BY <1>3, <2>1
<1>5. Len(SubSeq(s, 1, m)) = m
  BY <1>1, <1>2
<1>. QED  BY <1>1, <1>4, <1>5 DEF m

(* The links of a grant under verification.                                *)
LEMMA CheckType ==
  ASSUME TypeOK, check # None
  PROVE  /\ check \in Checks /\ check.grant \in Seq(signed) /\ Len(check.grant) \in Nat \ {0}
         /\ check.upto \in Nat
         /\ \A i \in 1..Len(check.grant) :
               check.grant[i] \in Seq(Link) /\ check.grant[i] # <<>>
<1>1. check \in Checks
  BY DEF TypeOK
<1>2. check.grant \in Seq(signed) /\ check.grant # <<>> /\ check.upto \in Nat
  BY <1>1 DEF Checks
<1>3. \A i \in 1..Len(check.grant) : check.grant[i] \in signed
  BY <1>2
<1>. QED  BY <1>1, <1>2, <1>3 DEF TypeOK

(* More signatures admit more grants.                                      *)
LEMMA MoreSigned ==
  ASSUME NEW S, NEW T, S \subseteq T, NEW g \in Seq(S)
  PROVE  g \in Seq(T)
OBVIOUS

(* The bounds of the clock.                                                *)
LEMMA ClockType == ASSUME TypeOK PROVE clock \in Nat /\ clock \in 0..MaxTime
BY GrantsAssumption DEF TypeOK

-----------------------------------------------------------------------------
(* What the first n links of a grant have shown.                           *)
OneChain(g, n) ==
    \A i \in 1..n : Len(g[i]) = i /\ \A j \in 1..i : g[i][j] = Tip(g[j])
Narrowing(g, n) ==
    \A i, j \in 1..n : i <= j => Tip(g[i]).cav.cons \subseteq Tip(g[j]).cav.cons

CheckInv ==
    check # None =>
        /\ check.upto <= Len(check.grant)
        /\ \A i \in 1..check.upto : LinkVerifies(check.grant, i, check.req.cap)
        /\ OneChain(check.grant, check.upto)
        /\ Narrowing(check.grant, check.upto)

GrantsInv == TypeOK /\ CheckInv /\ WithinAuthority /\ ChainOfCustody

(* Nothing is signed or checked at first.                                  *)
LEMMA InitGrantsInv == Init => GrantsInv
BY GrantsAssumption
   DEF Init, GrantsInv, TypeOK, CheckInv, WithinAuthority, ChainOfCustody

(* One more link: its chain is the one before it, extended.                *)
LEMMA ChainGrows ==
  ASSUME NEW g, NEW n \in Nat, OneChain(g, n), Len(g[n + 1]) = n + 1,
         \A j \in 1..n : g[n + 1][j] = Tip(g[j])
  PROVE  OneChain(g, n + 1)
<1>. SUFFICES ASSUME NEW i \in 1..(n + 1)
              PROVE  Len(g[i]) = i /\ \A j \in 1..i : g[i][j] = Tip(g[j])
  BY DEF OneChain
<1>1. CASE i \in 1..n
  BY <1>1 DEF OneChain
<1>2. CASE i = n + 1
  <2>1. g[n + 1][n + 1] = Tip(g[n + 1])
    BY DEF Tip
  <2>2. \A j \in 1..(n + 1) : j \in 1..n \/ j = n + 1
    OBVIOUS
  <2>. QED  BY <1>2, <2>1, <2>2
<1>. QED  BY <1>1, <1>2

(* Its constraints include those of every link before it.                  *)
LEMMA NarrowingGrows ==
  ASSUME NEW g, NEW n \in Nat, Narrowing(g, n),
         n > 0 => Tip(g[n]).cav.cons \subseteq Tip(g[n + 1]).cav.cons
  PROVE  Narrowing(g, n + 1)
<1>. SUFFICES ASSUME NEW i \in 1..(n + 1), NEW j \in 1..(n + 1), i <= j
              PROVE  Tip(g[i]).cav.cons \subseteq Tip(g[j]).cav.cons
  BY DEF Narrowing
<1>1. CASE j \in 1..n
  <2>1. i \in 1..n
    BY <1>1
  <2>. QED  BY <1>1, <2>1 DEF Narrowing
<1>2. CASE j = n + 1 /\ i \in 1..n
  <2>1. n \in 1..n /\ i <= n /\ n > 0
    BY <1>2
  <2>2. Tip(g[i]).cav.cons \subseteq Tip(g[n]).cav.cons
    BY <1>2, <2>1 DEF Narrowing
  <2>. QED  BY <1>2, <2>1, <2>2
<1>3. CASE i = j
  BY <1>3
<1>. QED  BY <1>1, <1>2, <1>3

(* The next link continues the chain that its signature covers, and keeps  *)
(* all constraints so far.                                                 *)
LEMMA OneMoreLink ==
  ASSUME GrantsInv, VerifyLink
  PROVE  OneChain(check.grant, check.upto + 1) /\ Narrowing(check.grant, check.upto + 1)
<1>. DEFINE g == check.grant
            n == check.upto
            s == g[n + 1]
<1>1. /\ check # None /\ n < Len(g) /\ n \in Nat /\ Len(g) \in Nat
      /\ LinkVerifies(g, n + 1, check.req.cap)
  BY CheckType DEF GrantsInv, VerifyLink
<1>2. s \in Seq(Link) /\ s # <<>>
  BY <1>1, CheckType DEF GrantsInv
<1>3. OneChain(g, n) /\ Narrowing(g, n)
  BY <1>1 DEF GrantsInv, CheckInv
<1>4. SubSeq(s, 1, Len(s) - 1) = IF n + 1 = 1 THEN <<>> ELSE g[n + 1 - 1]
  BY <1>1 DEF LinkVerifies
<1>5. n + 1 > 1 => Tip(g[n + 1 - 1]).cav.cons \subseteq Tip(s).cav.cons
  BY <1>1 DEF LinkVerifies, Narrows
<1>. HIDE DEF g, n, s
<1>6. /\ Len(s) \in Nat \ {0} /\ Len(SubSeq(s, 1, Len(s) - 1)) = Len(s) - 1
      /\ \A j \in 1..(Len(s) - 1) : SubSeq(s, 1, Len(s) - 1)[j] = s[j]
  BY <1>2, FrontFacts
<1>7. n + 1 - 1 = n /\ (n + 1 = 1 <=> n = 0)
  BY <1>1
<1>8. Len(s) = n + 1 /\ \A j \in 1..n : s[j] = Tip(g[j])
  <2>1. CASE n = 0
    <3>1. Len(s) - 1 = 0
      BY <1>4, <1>6, <1>7, <2>1
    <3>. QED  BY <1>6, <2>1, <3>1
  <2>2. CASE n > 0
    <3>1. n \in 1..n /\ n # 0
      BY <1>1, <2>2
    <3>2. Len(g[n]) = n /\ \A j \in 1..n : g[n][j] = Tip(g[j])
      BY <1>3, <3>1 DEF OneChain
    <3>3. SubSeq(s, 1, Len(s) - 1) = g[n]
      BY <1>4, <1>7, <3>1
    <3>4. Len(s) - 1 = n
      BY <1>6, <3>2, <3>3
    <3>5. Len(s) = n + 1
      BY <1>1, <1>6, <3>4
    <3>. QED  BY <1>6, <3>2, <3>3, <3>4, <3>5
  <2>. QED  BY <1>1, <2>1, <2>2
<1>9. OneChain(g, n + 1)
  BY <1>1, <1>3, <1>8, ChainGrows DEF s
<1>10. n > 0 => Tip(g[n]).cav.cons \subseteq Tip(g[n + 1]).cav.cons
  BY <1>1, <1>5, <1>7 DEF s
<1>11. Narrowing(g, n + 1)
  BY <1>1, <1>3, <1>10, NarrowingGrows
<1>. QED  BY <1>9, <1>11 DEF g, n

(* What Serve lets through.                                                *)
LEMMA ServeInv == ASSUME GrantsInv, Serve PROVE GrantsInv'
<1>. DEFINE g == check.grant
            n == Len(g)
<1>1. /\ check # None /\ check.upto = n /\ check' = None
      /\ Holder(Tip(g)) = check.caller /\ Satisfies(Tip(Tip(g)).cav, check.req.attrs)
      /\ served' = [caller |-> check.caller, req |-> check.req, grant |-> g, at |-> clock]
      /\ UNCHANGED <<clock, revoked, signed>>
  BY DEF Serve, Finished, Accepted
<1>2. n \in Nat \ {0} /\ check \in Checks
  BY <1>1, CheckType DEF GrantsInv
<1>3. /\ \A i \in 1..n : LinkVerifies(g, i, check.req.cap)
      /\ OneChain(g, n) /\ Narrowing(g, n)
  BY <1>1 DEF GrantsInv, CheckInv
<1>4. TypeOK'
  BY <1>1, <1>2, ClockType DEF GrantsInv, TypeOK, Checks, Served
<1>5. CheckInv'
  BY <1>1 DEF CheckInv
<1>6. Tip(g) = g[n]
  BY DEF Tip
<1>7. WithinAuthority'
  <2>. SUFFICES ASSUME NEW i \in 1..n
                PROVE  LET cav == Tip(g[i]).cav
                       IN  /\ Allows(cav, check.req.cap) /\ clock <= cav.until
                           /\ cav.cons \subseteq check.req.attrs
    BY <1>1 DEF WithinAuthority
  <2>1. Allows(Tip(g[i]).cav, check.req.cap) /\ clock <= Tip(g[i]).cav.until
    BY <1>3 DEF LinkVerifies
  <2>2. Tip(g[i]).cav.cons \subseteq Tip(g[n]).cav.cons
    <3>. HIDE DEF n
    <3>1. n \in 1..n /\ i <= n
      BY <1>2
    <3>. QED  BY <1>3, <3>1 DEF Narrowing
  <2>3. Tip(g[n]).cav.cons \subseteq check.req.attrs
    BY <1>1, <1>6 DEF Satisfies
  <2>. QED  BY <2>1, <2>2, <2>3
<1>8. ChainOfCustody'
  <2>1. Len(g[n]) = n /\ \A i \in 1..n : g[n][i] = Tip(g[i])
    BY <1>2, <1>3 DEF OneChain
  <2>2. Endorsed(Tip(g[1]).issuer)
    BY <1>2, <1>3 DEF LinkVerifies
  <2>3. \A i \in 2..n : Tip(g[i]).issuer = Tip(g[i - 1]).audience
    BY <1>2, <1>3 DEF LinkVerifies
  <2>4. /\ g[n][1].issuer \in TargetKeys
        /\ clock \in NotBefore[g[n][1].issuer]..NotAfter[g[n][1].issuer]
    <3>. DEFINE k == Tip(g[1]).issuer
    <3>1. g[n][1] = Tip(g[1])
      BY <1>2, <2>1
    <3>2. k \in TargetKeys /\ NotBefore[k] <= clock /\ clock <= NotAfter[k]
      BY <2>2 DEF Endorsed
    <3>3. NotBefore[k] \in Nat /\ NotAfter[k] \in Nat /\ clock \in Nat
      BY <3>2, ClockType, GrantsAssumption DEF GrantsInv
    <3>. QED  BY <3>1, <3>2, <3>3
  <2>5. g[n][n].audience = check.caller
    BY <1>1, <1>6, <2>1 DEF Holder, Tip
  <2>6. \A i \in 2..n : g[n][i].issuer = g[n][i - 1].audience
    <3>. SUFFICES ASSUME NEW i \in 2..n PROVE g[n][i].issuer = g[n][i - 1].audience
      OBVIOUS
    <3>1. g[n][i] = Tip(g[i]) /\ g[n][i - 1] = Tip(g[i - 1])
      BY <1>2, <2>1
    <3>. QED  BY <2>3, <3>1
  <2>7. \A i \in 1..n : g[n][i].target = Here
    BY <1>3, <2>1 DEF LinkVerifies
  <2>. QED  BY <1>1, <2>1, <2>4, <2>5, <2>6, <2>7 DEF ChainOfCustody
<1>. QED  BY <1>4, <1>5, <1>7, <1>8 DEF GrantsInv

(* Signing changes only the set of signatures.                             *)
LEMMA SignInv ==
  ASSUME GrantsInv, NEW c \in signed \cup {<<>>}, NEW link \in Link, Sign(c, link)
  PROVE  GrantsInv'
<1>1. check = None /\ UNCHANGED <<clock, revoked, check, served>> /\ signed \subseteq signed'
  BY DEF Sign
<1>2. c \in Seq(Link)
  <2>1. CASE c = <<>>
    BY <2>1
  <2>. QED  BY <2>1 DEF GrantsInv, TypeOK
<1>3. Append(c, link) \in Seq(Link) \ {<<>>}
  BY <1>2
<1>4. signed' \subseteq Seq(Link) \ {<<>>}
  BY <1>3 DEF GrantsInv, TypeOK, Sign
<1>5. served # None => served.grant \in Seq(signed')
  BY <1>1, MoreSigned DEF GrantsInv, TypeOK, Served
<1>6. served' \in (Served \cup {None})'
  BY <1>1, <1>5 DEF GrantsInv, TypeOK, Served
<1>7. TypeOK'
  BY <1>1, <1>4, <1>6 DEF GrantsInv, TypeOK
<1>. QED  BY <1>1, <1>7 DEF GrantsInv, CheckInv, WithinAuthority, ChainOfCustody

(* The caveats of an honest link are caveats.                              *)
LEMMA LinkType ==
  ASSUME GrantsInv, NEW c \in signed, NEW a \in Holders, NEW cav \in Caveats
  PROVE  /\ Tip(c) \in Link /\ Holder(c) \in Keys
         /\ Tip(c).target \in Targets
         /\ Delegated(cav, Tip(c).cav) \in Caveats
         /\ \A cap \in Caps : AuthCaveats(Tip(c).cav, cap) \in Caveats
<1>1. c \in Seq(Link) /\ c # <<>>
  BY DEF GrantsInv, TypeOK
<1>2. Len(c) \in 1..Len(c)
  BY <1>1
<1>3. Tip(c) \in Link
  BY <1>1, <1>2 DEF Tip
<1>4. Holder(c) \in Keys /\ Tip(c).cav \in Caveats /\ Tip(c).target \in Targets
  BY <1>3 DEF Holder, Link
<1>5. Merged(cav.cons, Tip(c).cav.cons) \subseteq Pairs
  BY <1>4 DEF Merged, Caveats
<1>6. Delegated(cav, Tip(c).cav) \in Caveats
  BY <1>4, <1>5 DEF Delegated, Caveats
<1>. QED  BY <1>3, <1>4, <1>6 DEF Link, Keys, Caveats, AuthCaveats

(* Every step preserves the invariant.                                     *)
LEMMA NextGrantsInv == GrantsInv /\ [Next]_vars => GrantsInv'
<1>. SUFFICES ASSUME GrantsInv, [Next]_vars PROVE GrantsInv'
  OBVIOUS
<1>0. /\ \A id \in Targets : Asked[id] \subseteq Caveats
      /\ \A id \in Targets, cav \in Caveats, i \in Keys, a \in Keys :
            [target |-> id, issuer |-> i, audience |-> a, cav |-> cav] \in Link
  BY GrantsAssumption DEF Link
<1>1. ASSUME NEW a \in Holders, NEW cav \in Caveats, NEW t \in TargetKeys, Issue(t, a, cav)
      PROVE  GrantsInv'
  BY <1>0, <1>1, SignInv, GrantsAssumption DEF Issue, Keys
<1>2. ASSUME NEW a \in Holders, NEW cav \in Caveats, NEW c \in signed, Attenuate(c, a, cav)
      PROVE  GrantsInv'
  <2>1. [target |-> Tip(c).target, issuer |-> Holder(c), audience |-> a, cav |-> cav] \in Link
    BY <1>0, LinkType DEF Keys
  <2>. QED  BY <1>2, <2>1, SignInv DEF Attenuate
<1>3. ASSUME NEW a \in Holders, NEW cav \in Caveats, NEW c \in signed, Delegate(c, a, cav)
      PROVE  GrantsInv'
  BY <1>0, <1>2, <1>3, LinkType DEF Delegate
<1>4. ASSUME NEW id \in Targets, NEW a \in Holders, NEW cav \in Caveats, NEW c \in signed \cup {<<>>},
             NEW h \in Holders, SignAny(c, id, h, a, cav)
      PROVE  GrantsInv'
  BY <1>0, <1>4, SignInv DEF SignAny, Keys
<1>5. ASSUME NEW c \in signed, NEW cap \in Caps, AuthFor(c, cap) PROVE GrantsInv'
  <2>1. /\ Holder(c) \in Keys /\ AuthCaveats(Tip(c).cav, cap) \in Caveats
        /\ Tip(c).target \in Targets
    <3>1. c \in Seq(Link) /\ c # <<>>
      BY DEF GrantsInv, TypeOK
    <3>2. Len(c) \in 1..Len(c)
      BY <3>1
    <3>3. Tip(c) \in Link
      BY <3>1, <3>2 DEF Tip
    <3>. QED  BY <3>3 DEF Link, Holder, Caveats, AuthCaveats
  <2>2. [target |-> Tip(c).target, issuer |-> Holder(c), audience |-> Holder(c),
         cav |-> AuthCaveats(Tip(c).cav, cap)] \in Link
    BY <1>0, <2>1
  <2>. QED  BY <1>5, <2>2, SignInv DEF AuthFor, Attenuate
<1>6. ASSUME NEW h \in Holders, NEW g \in Grants(MaxLinks), NEW req \in Requests,
             Present(h, g, req)
      PROVE  GrantsInv'
  <2>1. PICK m \in 1..MaxLinks : g \in [1..m -> signed]
    BY DEF Grants
  <2>2. g \in Seq(signed) /\ Len(g) = m /\ g # <<>>
    BY <2>1, GrantsAssumption
  <2>3. /\ check' = None \/ check' = [caller |-> h, req |-> req, grant |-> g, upto |-> 0]
        /\ served' = None /\ UNCHANGED <<clock, revoked, signed>>
    BY <1>6 DEF Present
  <2>4. TypeOK'
    BY <2>2, <2>3 DEF GrantsInv, TypeOK, Checks
  <2>5. CheckInv'
    BY <2>2, <2>3 DEF CheckInv, OneChain, Narrowing
  <2>. QED  BY <2>3, <2>4, <2>5 DEF GrantsInv, WithinAuthority, ChainOfCustody
<1>7. CASE VerifyLink
  <2>1. /\ check # None /\ check \in Checks /\ check.upto < Len(check.grant)
        /\ check.upto \in Nat /\ Len(check.grant) \in Nat
        /\ LinkVerifies(check.grant, check.upto + 1, check.req.cap)
        /\ check' = [check EXCEPT !.upto = @ + 1]
        /\ UNCHANGED <<clock, revoked, signed, served>>
    BY <1>7, CheckType DEF GrantsInv, VerifyLink
  <2>2. /\ check'.grant = check.grant /\ check'.req = check.req
        /\ check'.upto = check.upto + 1 /\ check' \in Checks
    BY <2>1 DEF Checks
  <2>3. OneChain(check.grant, check.upto + 1) /\ Narrowing(check.grant, check.upto + 1)
    BY <1>7, OneMoreLink
  <2>4. \A i \in 1..(check.upto + 1) : LinkVerifies(check.grant, i, check.req.cap)
    BY <2>1 DEF GrantsInv, CheckInv
  <2>5. TypeOK'
    BY <2>1, <2>2 DEF GrantsInv, TypeOK, Checks, Served
  <2>6. CheckInv'
    <3>1. check.upto + 1 <= Len(check.grant)
      BY <2>1
    <3>2. \A i \in 1..check'.upto : LinkVerifies(check.grant, i, check.req.cap)'
      <4>. SUFFICES ASSUME NEW i \in 1..check'.upto
                    PROVE  LinkVerifies(check.grant, i, check.req.cap)'
        OBVIOUS
      <4>1. LinkVerifies(check.grant, i, check.req.cap)
        BY <2>2, <2>4
      <4>2. /\ clock' = clock /\ revoked' = revoked
            /\ check'.grant = check.grant /\ check'.req.cap = check.req.cap
        BY <2>1, <2>2
      <4>. QED  BY <4>1, <4>2 DEF LinkVerifies, Endorsed
    <3>3. OneChain(check'.grant, check'.upto) /\ Narrowing(check'.grant, check'.upto)
      BY <2>2, <2>3
    <3>. QED  BY <2>2, <3>1, <3>2, <3>3 DEF CheckInv, OneChain, Narrowing
  <2>. QED  BY <2>1, <2>5, <2>6 DEF GrantsInv, WithinAuthority, ChainOfCustody
<1>8. CASE Serve
  BY <1>8, ServeInv
<1>9. CASE Refuse
  <2>1. check' = None /\ UNCHANGED <<clock, revoked, signed, served>>
    BY <1>9 DEF Refuse
  <2>2. TypeOK'
    BY <2>1 DEF GrantsInv, TypeOK, Checks, Served
  <2>. QED  BY <2>1, <2>2 DEF GrantsInv, CheckInv, WithinAuthority, ChainOfCustody
<1>10. ASSUME NEW k \in Keys, Revoke(k) PROVE GrantsInv'
  <2>1. check = None /\ revoked' = revoked \cup {k} /\ UNCHANGED <<clock, signed, check, served>>
    BY <1>10 DEF Revoke
  <2>2. TypeOK'
    BY <2>1 DEF GrantsInv, TypeOK, Checks, Served
  <2>. QED  BY <2>1, <2>2 DEF GrantsInv, CheckInv, WithinAuthority, ChainOfCustody
<1>11. CASE Tick
  <2>1. /\ check = None /\ clock < MaxTime /\ clock' = clock + 1
        /\ UNCHANGED <<revoked, signed, check, served>>
    BY <1>11 DEF Tick
  <2>2. TypeOK'
    BY <2>1, ClockType, GrantsAssumption DEF GrantsInv, TypeOK, Checks, Served
  <2>. QED  BY <2>1, <2>2 DEF GrantsInv, CheckInv, WithinAuthority, ChainOfCustody
<1>12. CASE UNCHANGED vars
  <2>1. UNCHANGED <<clock, revoked, signed, check, served>>
    BY <1>12 DEF vars
  <2>2. TypeOK'
    BY <2>1 DEF GrantsInv, TypeOK, Checks, Served
  <2>. QED  BY <2>1, <2>2 DEF GrantsInv, CheckInv, LinkVerifies, Endorsed, WithinAuthority, ChainOfCustody
<1>13. ASSUME NEW id \in Targets, NEW a \in Holders, NEW cav \in Asked[id],
              \/ \E t \in TargetKeys : id = Here /\ Issue(t, a, cav)
              \/ \E c \in signed : Tip(c).target = id /\ (Attenuate(c, a, cav) \/ Delegate(c, a, cav))
              \/ \E c \in signed \cup {<<>>}, h \in Holders : SignAny(c, id, h, a, cav)
       PROVE  GrantsInv'
  BY <1>0, <1>1, <1>2, <1>3, <1>4, <1>13
<1>. QED
  BY <1>5, <1>6, <1>7, <1>8, <1>9, <1>10, <1>11, <1>12, <1>13 DEF Next

-----------------------------------------------------------------------------
(* Signatures, checks and served requests are well formed.                 *)
THEOREM GrantsTypeCorrect == Spec => []TypeOK
<1>1. GrantsInv => TypeOK
  BY DEF GrantsInv
<1>. QED  BY <1>1, InitGrantsInv, NextGrantsInv, PTL DEF Spec

(* Authority only narrows along a chain of any length: comparing a request *)
(* with the constraints of the last link is enough. And whatever links a   *)
(* caller puts together, what is served was delegated key by key from the  *)
(* resource to the caller.                                                 *)
THEOREM GrantsAreChains == Spec => []HonouredAsGranted
<1>1. GrantsInv => HonouredAsGranted
  BY DEF GrantsInv, HonouredAsGranted
<1>. QED  BY <1>1, InitGrantsInv, NextGrantsInv, PTL DEF Spec

(* A revoked key ends every grant it takes part in.                        *)
THEOREM RevocationEndsGrants == Spec => RevokedRefused
<1>. DEFINE Clean(g) == \A i \in 1..Len(g) :
                          {Tip(g[i]).issuer, Tip(g[i]).audience} \cap revoked = {}
<1>1. ASSUME GrantsInv, Next, served' # served, served' # None PROVE Clean(served'.grant)
  <2>1. CASE Serve
    <3>1. /\ check # None /\ check.upto = Len(check.grant)
          /\ served'.grant = check.grant
      BY <2>1 DEF Serve, Finished
    <3>2. \A i \in 1..Len(check.grant) : LinkVerifies(check.grant, i, check.req.cap)
      BY <1>1, <3>1 DEF GrantsInv, CheckInv
    <3>. QED  BY <3>1, <3>2 DEF LinkVerifies
  <2>2. \A c, link : Sign(c, link) => served' = served
    BY DEF Sign
  <2>3. Serve
    BY <1>1, <2>2 DEF Next, Issue, Attenuate, Delegate, SignAny, AuthFor, Present, VerifyLink,
                      Refuse, Revoke, Tick
  <2>. QED  BY <2>1, <2>3
<1>2. GrantsInv /\ [Next]_vars => [served' # served /\ served' # None => Clean(served'.grant)]_vars
  BY <1>1
<1>. QED  BY <1>2, InitGrantsInv, NextGrantsInv, PTL DEF Spec, RevokedRefused

-----------------------------------------------------------------------------
(* A chain with one more link presents the links of the chain and itself.  *)
LEMMA PresentedAppend ==
  ASSUME NEW c \in Seq(Link), c # <<>>, NEW link \in Link
  PROVE  LET d == Append(c, link)
             n == Len(c)
         IN  /\ n \in Nat \ {0} /\ Len(Presented(c)) = n /\ Len(Presented(d)) = n + 1
             /\ \A i \in 1..n : Presented(d)[i] = Presented(c)[i]
             /\ Presented(c)[n] = c /\ Presented(d)[n + 1] = d
             /\ Len(d) = n + 1 /\ SubSeq(d, 1, n) = c /\ Tip(d) = link
<1>. DEFINE d == Append(c, link)
            n == Len(c)
<1>1. n \in Nat \ {0}
  BY EmptySeq
<1>2. d \in Seq(Link) /\ Len(d) = n + 1 /\ d[n + 1] = link /\ \A i \in 1..n : d[i] = c[i]
  BY AppendProperties
<1>3. SubSeq(c, 1, n) = c /\ SubSeq(d, 1, n + 1) = d
  BY <1>2, SubSeqFull
<1>. HIDE DEF d, n
<1>4. ASSUME NEW i \in 1..n PROVE SubSeq(d, 1, i) = SubSeq(c, 1, i)
  <2>1. \A j \in 1..i : c[j] \in Link /\ d[j] \in Link /\ d[j] = c[j]
    BY <1>1, <1>2, ElementOfSeq DEF n
  <2>2. /\ SubSeq(c, 1, i) \in Seq(Link) /\ Len(SubSeq(c, 1, i)) = i
        /\ \A j \in 1..i : SubSeq(c, 1, i)[j] = c[j]
    BY <1>1, <2>1, SubSeqProperties
  <2>3. /\ SubSeq(d, 1, i) \in Seq(Link) /\ Len(SubSeq(d, 1, i)) = i
        /\ \A j \in 1..i : SubSeq(d, 1, i)[j] = d[j]
    BY <1>1, <2>1, SubSeqProperties
  <2>. QED  BY <2>1, <2>2, <2>3, SeqEqual
<1>5. Presented(c) = [i \in 1..n |-> SubSeq(c, 1, i)]
  BY DEF Presented, n
<1>6. Presented(d) = [i \in 1..(n + 1) |-> SubSeq(d, 1, i)]
  BY <1>2 DEF Presented
<1>7. Len(Presented(c)) = n /\ Len(Presented(d)) = n + 1
  BY <1>1, <1>5, <1>6
<1>8. \A i \in 1..n : Presented(d)[i] = Presented(c)[i]
  <2>. SUFFICES ASSUME NEW i \in 1..n PROVE Presented(d)[i] = Presented(c)[i]
    OBVIOUS
  <2>1. i \in 1..(n + 1)
    BY <1>1
  <2>2. Presented(d)[i] = SubSeq(d, 1, i) /\ Presented(c)[i] = SubSeq(c, 1, i)
    BY <1>5, <1>6, <2>1
  <2>. QED  BY <1>4, <2>2
<1>9. Presented(c)[n] = c /\ Presented(d)[n + 1] = d
  BY <1>1, <1>3, <1>5, <1>6
<1>10. SubSeq(d, 1, n) = c
  BY <1>1, <1>3, <1>4
<1>11. Tip(d) = link
  BY <1>2 DEF Tip
<1>. QED  BY <1>1, <1>2, <1>7, <1>8, <1>9, <1>10, <1>11 DEF d, n

(* What verifies of a held grant verifies of the grant that the holder     *)
(* attenuates for a call, and so does the link it adds.                    *)
LEMMA HeldIsUsable == TypeOK => HeldGrantUsable
<1>. SUFFICES ASSUME TypeOK, NEW c \in signed, NEW cap \in Caps,
                     Verifies(Presented(c), Holder(c), cap)
              PROVE  LET h    == Holder(c)
                         auth == AuthCaveats(Tip(c).cav, cap)
                         link == [target |-> Tip(c).target, issuer |-> h,
                                  audience |-> h, cav |-> auth]
                     IN  Narrows(auth, Tip(c).cav) /\ Verifies(Presented(Append(c, link)), h, cap)
  BY DEF HeldGrantUsable
<1>. DEFINE h    == Holder(c)
            auth == AuthCaveats(Tip(c).cav, cap)
            link == [target |-> Tip(c).target, issuer |-> h, audience |-> h, cav |-> auth]
            d    == Append(c, link)
            n    == Len(c)
            gc   == Presented(c)
            gd   == Presented(d)
<1>1. c \in Seq(Link) /\ c # <<>>
  BY DEF TypeOK
<1>2. Tip(c) \in Link
  BY <1>1, EmptySeq, ElementOfSeq DEF Tip
<1>3. Tip(c).cav \in Caveats /\ h \in Keys /\ Tip(c).target \in Targets
  BY <1>2 DEF Link, Holder
<1>4. auth \in Caveats /\ link \in Link
  BY <1>3 DEF AuthCaveats, Caveats, Link
<1>5. /\ auth.caps = {cap} /\ auth.until = Tip(c).cav.until /\ auth.cons = Tip(c).cav.cons
      /\ link.issuer = h /\ link.audience = h /\ link.cav = auth /\ link.target = Tip(c).target
      /\ h = Tip(c).audience /\ Tip(c).cav.until \in Nat
  BY <1>3 DEF AuthCaveats, Holder, Caveats
<1>. HIDE DEF auth, link, h
<1>6. /\ n \in Nat \ {0} /\ Len(gc) = n /\ Len(gd) = n + 1
      /\ \A i \in 1..n : gd[i] = gc[i]
      /\ gc[n] = c /\ gd[n + 1] = d
      /\ Len(d) = n + 1 /\ SubSeq(d, 1, n) = c /\ Tip(d) = link
  BY <1>1, <1>4, PresentedAppend
<1>7. \A i \in 1..Len(gc) : LinkVerifies(gc, i, cap)
  BY DEF Verifies
<1>. HIDE DEF d, n, gc, gd
<1>8. LinkVerifies(gc, n, cap)
  BY <1>6, <1>7
<1>9. Tip(c).target = Here /\ h \notin revoked /\ Allows(Tip(c).cav, cap) /\ clock <= Tip(c).cav.until
  BY <1>5, <1>6, <1>8 DEF LinkVerifies
<1>10. Narrows(auth, Tip(c).cav)
  BY <1>5, <1>9 DEF Narrows, Allows
<1>11. LinkVerifies(gd, n + 1, cap)
  <2>1. n + 1 # 1 /\ n + 1 > 1 /\ n + 1 - 1 = n /\ n \in 1..n
    BY <1>6
  <2>2. Tip(gd[n + 1]) = link /\ gd[n + 1 - 1] = c
    BY <1>6, <2>1
  <2>3. SubSeq(gd[n + 1], 1, Len(gd[n + 1]) - 1) = c
    BY <1>6, <2>1
  <2>4. Allows(auth, cap) /\ clock <= auth.until
    BY <1>5, <1>9 DEF Allows
  <2>. QED  BY <1>5, <1>9, <1>10, <2>1, <2>2, <2>3, <2>4 DEF LinkVerifies
<1>12. \A i \in 1..n : LinkVerifies(gd, i, cap)
  <2>. SUFFICES ASSUME NEW i \in 1..n PROVE LinkVerifies(gd, i, cap)
    OBVIOUS
  <2>1. LinkVerifies(gc, i, cap) /\ gd[i] = gc[i]
    BY <1>6, <1>7
  <2>2. i = 1 \/ (i > 1 /\ i # 1 /\ gd[i - 1] = gc[i - 1])
    BY <1>6
  <2>. QED  BY <2>1, <2>2 DEF LinkVerifies
<1>13. \A i \in 1..Len(gd) : LinkVerifies(gd, i, cap)
  BY <1>6, <1>11, <1>12
<1>14. Holder(Tip(gd)) = h
  BY <1>5, <1>6 DEF Holder, Tip
<1>15. Verifies(gd, h, cap)
  BY <1>13, <1>14 DEF Verifies
<1>. QED  BY <1>10, <1>15 DEF gd, d, link, auth, h

(* Whoever can show a grant for a capability can also make the narrower    *)
(* grant that ctx.call sends in its place, at any length of the chain and  *)
(* whatever has been revoked: attenuation for a call never locks out the   *)
(* holder.                                                                 *)
THEOREM HeldGrantsStayUsable == Spec => []HeldGrantUsable
<1>. QED  BY GrantsTypeCorrect, HeldIsUsable, PTL
=============================================================================
