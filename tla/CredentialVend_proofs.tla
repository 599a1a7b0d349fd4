----------------------- MODULE CredentialVend_proofs -----------------------
(***************************************************************************)
(* Proofs about CredentialVend, for any number of vends, tables, sessions, *)
(* sets of rules and changes: types, BaseStaysHidden, RoutesAreReadable.   *)
(*                                                                         *)
(* A vend touches nothing of another one but the cache, so what is true of *)
(* it is said of its record alone, together with the rules so far: CallOK. *)
(***************************************************************************)
EXTENDS CredentialVend, TLAPS

Roles == {Agent} \cup (UNION { c.roles : c \in Callers })
         \cup (UNION { r.granted[c.sub] : r \in Regimes, c \in Callers })

Labels == {"idle", "cache", "roles", "candidates", "next", "plan", "gate", "scope",
           "deny", "carve", "mint", "done"}

Calling == [caller : Callers \cup {None}, target : Targets \cup {None}, load : BOOLEAN,
            since : Nat \ {0}, roles : SUBSET Roles, todo : SUBSET Namespace,
            exports : SUBSET Tables, routes : SUBSET [table : Tables, export : BOOLEAN],
            required : BOOLEAN, erred : BOOLEAN, excused : SUBSET Tables,
            reach : SUBSET Tables, answer : Answers \cup {None}]

Last(p) == p[Len(p)]

\* Rules of p have let caller c read the bytes of t at some moment from n on.
Open(p, n, c, t) == \E v \in n..Len(p) : Tier(p[v], Meant(p[v], c), t) # "file"

\* ... or a failure of the planning excuses it.
Allowed(p, b, t) == Open(p, b.since, b.caller, t) \/ t \in b.excused

\* The roles of a vend are those of one moment, or those of the token when the
\* planning failed before it had read them.
RolesRead(p, b) == \E v \in b.since..Len(p) : b.roles = RolesOf(p[v], b.caller)
RolesLost(b) == b.roles = b.caller.roles /\ (b.caller.agent => Namespace \subseteq b.excused)

\* Nothing has been planned.
Fresh(b) ==
    /\ b.exports = {} /\ b.routes = {} /\ b.excused = {} /\ b.reach = {} /\ b.todo = {}
    /\ ~ b.required /\ ~ b.erred

\* Routes of a namespace: an export that is in the answer, or a table that the
\* plan of these rules does not withhold.
Routed(p, b) ==
    \A r \in b.routes :
        /\ r.table \in Namespace
        /\ r.export => r.table \in b.exports
        /\ ~ r.export /\ b.since = Len(p) => Tier(Last(p), b.roles, r.table) # "file"

\* What is routed can be read.
Readable(p, b) ==
    \A r \in b.routes :
        /\ r.export => r.table \in b.exports
        /\ ~ r.export /\ b.since = Len(p) => r.table \in b.reach

\* The two promises of an answer that a vend of caller c has had since n.
AnswerOK(p, s, n, c, a) ==
    /\ a \in Answers
    /\ \A t \in a.base \ a.beyond : Open(p, n, c, t) \/ (~ s /\ t \in a.excused)
    /\ a.given /\ a.steady =>
          \A r \in a.routes : r.table \in IF r.export THEN a.exports ELSE a.base

\* A vend for one table.
SingleOK(p, l, b) ==
    /\ l = "plan" => RolesRead(p, b)
    /\ l = "gate" =>
          /\ b.exports = {} /\ ~ b.required => Allowed(p, b, b.target)
          /\ \A r \in b.routes : IF r.export THEN r.table \in b.exports
                                 ELSE r.table = b.target /\ b.exports = {}

\* A vend for the namespace.
WholeOK(p, l, b) ==
    /\ l \in {"candidates", "next"} => RolesRead(p, b) /\ b.excused = {}
    /\ l \in {"gate", "scope", "deny", "carve"} => RolesRead(p, b) \/ RolesLost(b)
    /\ l \in {"next", "gate", "scope", "deny", "carve"} => Routed(p, b)
    /\ l = "deny" => b.reach = Namespace
    /\ l = "carve" => (\A t \in b.reach \ b.todo : Allowed(p, b, t)) /\ Readable(p, b)

\* Where a vend is, and what that says of its record, if p are the rules so far
\* and s whether the mode is strict.
CallOK(p, s, l, b) ==
    /\ l \in Labels /\ b \in Calling /\ b.since <= Len(p)
    /\ l # "idle" => b.caller \in Callers /\ b.target \in Targets /\ (b.load => b.target # Whole)
    /\ l # "done" => b.answer = None
    /\ l \in {"idle", "cache", "roles", "candidates", "plan"} => Fresh(b)
    /\ l = "cache" => ~ b.load
    /\ l \in {"candidates", "next", "scope", "deny", "carve"} => b.target = Whole
    /\ l = "plan" => b.target # Whole
    /\ l = "gate" => (b.excused # {} => b.erred)
    /\ l \in {"scope", "deny", "carve", "mint"} => (b.excused # {} => ~ s)
    /\ l # "idle" /\ b.target # Whole => SingleOK(p, l, b)
    /\ b.target = Whole => WholeOK(p, l, b)
    /\ l = "mint" =>
          /\ \A t \in b.reach : Allowed(p, b, t)
          /\ Readable(p, b)
          /\ b.load /\ b.exports = {} => b.target \in b.reach
    /\ l = "done" /\ b.answer # None => AnswerOK(p, s, b.since, b.caller, b.answer)

EntryOK(p, s, c, e) ==
    e # None => /\ e \in [stamp : Nat \ {0}, answer : Answers \cup {None}] /\ e.stamp <= Len(p)
                /\ e.answer \in Answers /\ AnswerOK(p, s, e.stamp, c, e.answer)

IInv ==
    /\ past \in Seq(Regimes) /\ Len(past) \in 1..MaxChanges + 1
    /\ stamped \subseteq Namespace
    /\ strict \in BOOLEAN
    /\ pc \in [Calls -> Labels] /\ call \in [Calls -> Calling]
    /\ \A k \in Calls : CallOK(past, strict, pc[k], call[k])
    /\ DOMAIN cache = Callers \X Targets
    /\ \A c \in Callers, x \in Targets : EntryOK(past, strict, c, cache[<<c, x>>])

----------------------------------------------------------------------------
(***************************************************************************)
(* Tiers, roles and moments.                                               *)
(***************************************************************************)

\* A session is judged by fewer roles than it has: an agent has its tag for
\* certain, and others may have a role of that name.
LEMMA RolesTyped ==
    ASSUME NEW r \in Regimes, NEW c \in Callers
    PROVE  /\ RolesOf(r, c) \in SUBSET Roles /\ c.roles \in SUBSET Roles
           /\ Agent \in Meant(r, c) <=> c.agent
           /\ c.agent => Agent \in RolesOf(r, c)
           /\ Bypass \in RolesOf(r, c) => Bypass \in Meant(r, c)
           /\ Bypass \in c.roles => Bypass \in Meant(r, c)
<1>1. c.roles \subseteq Roles /\ r.granted[c.sub] \subseteq Roles /\ {Agent} \subseteq Roles
  BY DEF Roles
<1>2. c.agent \in BOOLEAN /\ Agent # Bypass
  BY CredentialVendAssumption
<1>3. QED
  BY <1>1, <1>2 DEF RolesOf, Meant

\* When masks are not at the file tier.
LEMMA TierFacts ==
    ASSUME NEW r \in Regimes, NEW t \in Tables, NEW roles
    PROVE  /\ Tier(r, roles, t) \in Tiers
           /\ Tier(r, roles, t) # "file" <=>
                \/ r.tier[t] = "none" \/ Bypass \in roles
                \/ r.tier[t] = "view" /\ Agent \notin roles
<1>1. r.tier[t] \in Tiers
  BY CredentialVendAssumption
<1>2. CASE r.tier[t] = "none" \/ Bypass \in roles
  BY <1>2 DEF Tier, Tiers
<1>3. CASE r.tier[t] # "none" /\ Bypass \notin roles /\ Agent \in roles
  BY <1>3 DEF Tier, Tiers
<1>4. CASE r.tier[t] # "none" /\ Bypass \notin roles /\ Agent \notin roles
  BY <1>1, <1>4 DEF Tier, Tiers
<1>5. QED
  BY <1>2, <1>3, <1>4

LEMMA LastTyped ==
    ASSUME NEW p \in Seq(Regimes), Len(p) \in 1..MaxChanges + 1
    PROVE  Last(p) \in Regimes /\ Len(p) \in Nat \ {0} /\ (\A v \in 1..Len(p) : p[v] \in Regimes)
BY DEF Last

\* What a plan does not withhold the caller could have, at the moment of the
\* roles or of the plan.
LEMMA Lenient ==
    ASSUME NEW p \in Seq(Regimes), Len(p) \in 1..MaxChanges + 1,
           NEW b \in Calling, b.since <= Len(p), b.caller \in Callers,
           RolesRead(p, b) \/ RolesLost(b),
           NEW t \in Namespace, Tier(Last(p), b.roles, t) # "file"
    PROVE  Allowed(p, b, t)
<1> DEFINE c == b.caller
<1>1. t \in Tables
  BY CredentialVendAssumption
<1>2. Len(p) \in b.since..Len(p) /\ Last(p) = p[Len(p)] /\ Last(p) \in Regimes
  BY LastTyped DEF Calling, Last
<1>3. CASE Last(p).tier[t] = "none"
  <2>1. Tier(Last(p), Meant(Last(p), c), t) # "file"
    BY <1>1, <1>2, <1>3, TierFacts
  <2>2. QED
    BY <1>2, <2>1 DEF Allowed, Open
<1>4. CASE Bypass \in b.roles
  <2>1. CASE RolesRead(p, b)
    <3>1. PICK v \in b.since..Len(p) : b.roles = RolesOf(p[v], c)
      BY <2>1 DEF RolesRead
    <3>2. p[v] \in Regimes
      BY <3>1, LastTyped DEF Calling
    <3>3. Tier(p[v], Meant(p[v], c), t) # "file"
      <4>1. Bypass \in Meant(p[v], c)
        BY <1>4, <3>1, <3>2, RolesTyped
      <4>2. QED
        BY <1>1, <3>2, <4>1, TierFacts
    <3>4. QED
      BY <3>3 DEF Allowed, Open
  <2>2. CASE RolesLost(b)
    <3>1. Bypass \in Meant(Last(p), c)
      BY <1>2, <1>4, <2>2, RolesTyped DEF RolesLost
    <3>2. Tier(Last(p), Meant(Last(p), c), t) # "file"
      BY <1>1, <1>2, <3>1, TierFacts
    <3>3. QED
      BY <1>2, <3>2 DEF Allowed, Open
  <2>3. QED
    BY <2>1, <2>2
<1>5. CASE Last(p).tier[t] = "view" /\ Agent \notin b.roles
  <2>1. CASE RolesLost(b) /\ c.agent
    BY <2>1 DEF RolesLost, Allowed
  <2>2. CASE ~ c.agent
    <3>1. Agent \notin Meant(Last(p), c)
      BY <1>2, <2>2, RolesTyped
    <3>2. Tier(Last(p), Meant(Last(p), c), t) # "file"
      BY <1>1, <1>2, <1>5, <3>1, TierFacts
    <3>3. QED
      BY <1>2, <3>2 DEF Allowed, Open
  <2>3. CASE RolesRead(p, b) /\ c.agent
    <3>1. PICK v \in b.since..Len(p) : b.roles = RolesOf(p[v], c)
      BY <2>3 DEF RolesRead
    <3>2. p[v] \in Regimes
      BY <3>1, LastTyped DEF Calling
    <3>3. QED
      BY <1>5, <2>3, <3>1, <3>2, RolesTyped
  <2>4. QED
    BY <2>1, <2>2, <2>3
<1>6. QED
  BY <1>1, <1>2, <1>3, <1>4, <1>5, TierFacts

\* What was open stays so: the rules so far only grow, and an earlier request
\* has seen all that a later one has.
LEMMA OpenGrows ==
    ASSUME NEW p \in Seq(Regimes), NEW r \in Regimes, NEW n \in Nat \ {0}, NEW c, NEW t, Open(p, n, c, t)
    PROVE  Open(Append(p, r), n, c, t)
<1>1. PICK v \in n..Len(p) : Tier(p[v], Meant(p[v], c), t) # "file"
  BY DEF Open
<1>2. Append(p, r)[v] = p[v] /\ v \in n..Len(Append(p, r))
  BY <1>1
<1>3. QED
  BY <1>1, <1>2 DEF Open

LEMMA AllowedGrows ==
    ASSUME NEW p \in Seq(Regimes), NEW r \in Regimes, NEW b \in Calling, NEW t, Allowed(p, b, t)
    PROVE  Allowed(Append(p, r), b, t)
BY OpenGrows DEF Allowed, Calling

LEMMA AnswerGrows ==
    ASSUME NEW p \in Seq(Regimes), NEW r \in Regimes, NEW n \in Nat \ {0}, NEW c, NEW s, NEW a,
           AnswerOK(p, s, n, c, a)
    PROVE  AnswerOK(Append(p, r), s, n, c, a)
BY OpenGrows DEF AnswerOK

LEMMA CallGrows ==
    ASSUME NEW p \in Seq(Regimes), NEW r \in Regimes, NEW s, NEW l, NEW b, CallOK(p, s, l, b)
    PROVE  CallOK(Append(p, r), s, l, b)
<1> DEFINE q == Append(p, r)
<1>1. b \in Calling /\ b.since <= Len(p) /\ b.since \in Nat \ {0}
  BY DEF CallOK, Calling
<1>2. Len(q) = Len(p) + 1 /\ Len(p) \in Nat /\ b.since # Len(q) /\ b.since <= Len(q)
  BY <1>1
<1>3. RolesRead(p, b) => RolesRead(q, b)
  <2>1. SUFFICES ASSUME NEW v \in b.since..Len(p), b.roles = RolesOf(p[v], b.caller)
                 PROVE  RolesRead(q, b)
    BY DEF RolesRead
  <2>2. q[v] = p[v] /\ v \in b.since..Len(q)
    BY <1>1, <1>2
  <2>3. QED
    BY <2>1, <2>2 DEF RolesRead
<1>4. \A t : Allowed(p, b, t) => Allowed(q, b, t)
  BY <1>1, AllowedGrows
<1>5. (Routed(p, b) => Routed(q, b)) /\ (Readable(p, b) => Readable(q, b))
  BY <1>2 DEF Routed, Readable
<1>6. \A l1 : (SingleOK(p, l1, b) => SingleOK(q, l1, b)) /\ (WholeOK(p, l1, b) => WholeOK(q, l1, b))
  BY <1>3, <1>4, <1>5 DEF SingleOK, WholeOK
<1>7. AnswerOK(p, s, b.since, b.caller, b.answer) => AnswerOK(q, s, b.since, b.caller, b.answer)
  BY <1>1, AnswerGrows
<1>8. CallOK(q, s, l, b)
  <2> HIDE DEF q
  <2>1. QED
    BY <1>1, <1>2, <1>4, <1>5, <1>6, <1>7 DEF CallOK
<1>9. QED
  BY <1>8

----------------------------------------------------------------------------
(***************************************************************************)
(* Frames.                                                                 *)
(***************************************************************************)

\* Replaces what vend k is, and knows, in the invariant.
LEMMA Frame ==
    ASSUME IInv, NEW k \in Calls, NEW l, NEW b,
           pc' = [pc EXCEPT ![k] = l], call' = [call EXCEPT ![k] = b],
           CallOK(past, strict, l, b), past' = past, strict' = strict,
           stamped' \subseteq Namespace, cache' = cache
    PROVE  IInv'
<1>1. l \in Labels /\ b \in Calling
  BY DEF CallOK
<1>2. pc' \in [Calls -> Labels] /\ call' \in [Calls -> Calling]
  BY <1>1 DEF IInv
<1>3. ASSUME NEW j \in Calls PROVE CallOK(past', strict', pc'[j], call'[j])
  <2>1. CASE j = k
    <3>1. pc'[j] = l /\ call'[j] = b
      BY <2>1 DEF IInv
    <3>2. QED
      BY <3>1
  <2>2. CASE j # k
    <3>1. pc'[j] = pc[j] /\ call'[j] = call[j]
      BY <2>2 DEF IInv
    <3>2. QED
      BY <3>1 DEF IInv
  <2>3. QED
    BY <2>1, <2>2
<1>4. QED
  BY <1>2, <1>3 DEF IInv

\* The same when the answer goes into the cache.
LEMMA FrameCached ==
    ASSUME IInv, NEW k \in Calls, NEW l, NEW b, NEW c \in Callers, NEW x \in Targets, NEW e,
           pc' = [pc EXCEPT ![k] = l], call' = [call EXCEPT ![k] = b],
           CallOK(past, strict, l, b), past' = past, strict' = strict, stamped' = stamped,
           cache' = [cache EXCEPT ![<<c, x>>] = e], EntryOK(past, strict, c, e)
    PROVE  IInv'
<1>1. l \in Labels /\ b \in Calling
  BY DEF CallOK
<1>2. pc' \in [Calls -> Labels] /\ call' \in [Calls -> Calling]
  BY <1>1 DEF IInv
<1>3. ASSUME NEW j \in Calls PROVE CallOK(past', strict', pc'[j], call'[j])
  <2>1. CASE j = k
    <3>1. pc'[j] = l /\ call'[j] = b
      BY <2>1 DEF IInv
    <3>2. QED
      BY <3>1
  <2>2. CASE j # k
    <3>1. pc'[j] = pc[j] /\ call'[j] = call[j]
      BY <2>2 DEF IInv
    <3>2. QED
      BY <3>1 DEF IInv
  <2>3. QED
    BY <2>1, <2>2
<1>4. ASSUME NEW d \in Callers, NEW y \in Targets PROVE EntryOK(past', strict', d, cache'[<<d, y>>])
  <2>1. CASE <<d, y>> = <<c, x>>
    <3>1. cache'[<<d, y>>] = e /\ d = c
      BY <2>1 DEF IInv
    <3>2. QED
      BY <3>1
  <2>2. CASE <<d, y>> # <<c, x>>
    <3>1. cache'[<<d, y>>] = cache[<<d, y>>]
      BY <2>2 DEF IInv
    <3>2. QED
      BY <3>1 DEF IInv
  <2>3. QED
    BY <2>1, <2>2
<1>5. DOMAIN cache' = Callers \X Targets
  BY DEF IInv
<1>6. QED
  BY <1>2, <1>3, <1>4, <1>5 DEF IInv

\* What the invariant says of a vend.
LEMMA Mine ==
    ASSUME IInv, NEW k \in Calls
    PROVE  /\ CallOK(past, strict, pc[k], call[k]) /\ call[k] \in Calling /\ pc[k] \in Labels
           /\ past \in Seq(Regimes) /\ Len(past) \in 1..MaxChanges + 1 /\ Version = Len(past)
           /\ Rules = Last(past) /\ Rules \in Regimes /\ strict \in BOOLEAN
           /\ stamped \subseteq Namespace
           /\ pc \in [Calls -> Labels] /\ call \in [Calls -> Calling]
BY LastTyped DEF IInv, Version, Rules, Last

LEMMA BlankTyped == Blank \in Calling
BY DEF Blank, Calling

\* An answer ends a vend.
LEMMA EndOK ==
    ASSUME NEW p, NEW s, NEW l, NEW b, CallOK(p, s, l, b), l # "idle", NEW a,
           a = None \/ AnswerOK(p, s, b.since, b.caller, a)
    PROVE  CallOK(p, s, "done", [Blank EXCEPT !.caller = b.caller, !.target = b.target,
                                              !.since = b.since, !.answer = a])
<1> DEFINE n == [Blank EXCEPT !.caller = b.caller, !.target = b.target,
                              !.since = b.since, !.answer = a]
<1>1. b \in Calling /\ b.since <= Len(p) /\ b.caller \in Callers /\ b.target \in Targets
  BY DEF CallOK
<1>2. a \in Answers \cup {None}
  BY DEF AnswerOK
<1>3. /\ n \in Calling /\ n.caller = b.caller /\ n.target = b.target /\ n.since = b.since
      /\ n.answer = a /\ n.load = FALSE
  BY <1>1, <1>2 DEF Blank, Calling
<1> HIDE DEF n
<1>4. "done" \in Labels
  BY DEF Labels
<1>5. QED
  BY <1>1, <1>3, <1>4 DEF CallOK, SingleOK, WholeOK, n

LEMMA DenyKeeps ==
    ASSUME IInv, NEW k \in Calls, pc[k] # "idle", Deny(k), Calm
    PROVE  IInv'
<1>1. CallOK(past, strict, "done", [Blank EXCEPT !.caller = call[k].caller, !.target = call[k].target,
                                                 !.since = call[k].since, !.answer = None])
  BY Mine, EndOK
<1>2. QED
  BY <1>1, Mine, Frame DEF Deny, End, Goto, Set, Calm, governance

----------------------------------------------------------------------------
(***************************************************************************)
(* The request.                                                            *)
(***************************************************************************)

LEMMA Initially == Init => IInv
<1> SUFFICES ASSUME Init PROVE IInv
  OBVIOUS
<1>1. PICK r \in Regimes : past = <<r>>
  BY DEF Init
<1>2. past \in Seq(Regimes) /\ Len(past) = 1
  BY <1>1
<1>3. CallOK(past, strict, "idle", Blank)
  <2>1. Blank.since = 1 /\ Blank.answer = None /\ Fresh(Blank) /\ "idle" \in Labels
    BY DEF Blank, Fresh, Labels
  <2>2. WholeOK(past, "idle", Blank)
    BY DEF WholeOK
  <2>3. QED
    BY <1>2, <2>1, BlankTyped DEF CallOK, SingleOK, WholeOK, Blank
<1>4. "idle" \in Labels
  BY DEF Labels
<1>5. \A x \in Callers \X Targets : cache[x] = None
  BY DEF Init
<1>6. \A c \in Callers, x \in Targets : EntryOK(past, strict, c, cache[<<c, x>>])
  BY <1>5 DEF EntryOK
<1>7. QED
  BY <1>2, <1>3, <1>4, <1>6, BlankTyped, CredentialVendAssumption DEF Init, IInv

LEMMA ChangeKeeps == IInv /\ Change => IInv'
<1> SUFFICES ASSUME IInv, Change PROVE IInv'
  OBVIOUS
<1>1. PICK r \in Regimes : past' = Append(past, r)
  BY DEF Change
<1>2. past \in Seq(Regimes) /\ Len(past) \in 1..MaxChanges + 1 /\ Len(past) <= MaxChanges
  BY DEF IInv, Change, Version
<1>3. past' \in Seq(Regimes) /\ Len(past') = Len(past) + 1
  BY <1>1, <1>2
<1>4. Len(past') \in 1..MaxChanges + 1
  BY <1>2, <1>3, CredentialVendAssumption
<1>5. \A k \in Calls : CallOK(past', strict', pc'[k], call'[k])
  BY <1>1, <1>2, CallGrows DEF IInv, Change, vend
<1>6. ASSUME NEW c \in Callers, NEW x \in Targets PROVE EntryOK(past', strict', c, cache'[<<c, x>>])
  BY <1>1, <1>2, <1>3, AnswerGrows DEF IInv, Change, EntryOK
<1>7. QED
  BY <1>3, <1>4, <1>5, <1>6 DEF IInv, Change, vend

\* A request has read nothing yet.
LEMMA AskedOK ==
    ASSUME NEW p, NEW s, NEW l \in {"cache", "roles"},
           NEW n \in Calling, n.caller \in Callers, n.target \in Targets, n.since <= Len(p),
           n.answer = None, Fresh(n), n.load => l = "roles" /\ n.target # Whole
    PROVE  CallOK(p, s, l, n)
<1>1. l \in Labels
  BY DEF Labels
<1>2. QED
  BY <1>1 DEF CallOK, SingleOK, WholeOK

LEMMA RequestKeeps == ASSUME IInv, NEW k \in Calls, Request(k) PROVE IInv'
<1>1. PICK c \in Callers, x \in Targets :
        call' = [call EXCEPT ![k] = [Blank EXCEPT !.caller = c, !.target = x, !.since = Version]]
  BY DEF Request, Set
<1> DEFINE n == [Blank EXCEPT !.caller = c, !.target = x, !.since = Version]
<1>2. Version = Len(past) /\ Version \in Nat \ {0} /\ Version <= Len(past)
  BY Mine
<1>3. /\ n \in Calling /\ n.caller = c /\ n.target = x /\ n.load = FALSE /\ n.since = Version
      /\ n.answer = None
  BY <1>2 DEF Blank, Calling
<1>4. Fresh(n)
  BY DEF Blank, Fresh
<1> HIDE DEF n
<1>5. CallOK(past, strict, "cache", n)
  BY <1>2, <1>3, <1>4, AskedOK
<1>6. QED
  BY <1>1, <1>5, Mine, Frame DEF Request, Goto, Calm, governance, n

LEMMA LoadKeeps == ASSUME IInv, NEW k \in Calls, Load(k) PROVE IInv'
<1>1. PICK c \in Callers, x \in Asked :
        call' = [call EXCEPT ![k] = [Blank EXCEPT !.caller = c, !.target = x, !.load = TRUE,
                                                  !.since = Version]]
  BY DEF Load, Set
<1> DEFINE n == [Blank EXCEPT !.caller = c, !.target = x, !.load = TRUE, !.since = Version]
<1>2. Version = Len(past) /\ Version \in Nat \ {0} /\ Version <= Len(past)
  BY Mine
<1>3. x \in Targets /\ x # Whole
  BY CredentialVendAssumption DEF Targets
<1>4. /\ n \in Calling /\ n.caller = c /\ n.target = x /\ n.load = TRUE /\ n.since = Version
      /\ n.answer = None
  BY <1>2, <1>3 DEF Blank, Calling
<1>5. Fresh(n)
  BY DEF Blank, Fresh
<1> HIDE DEF n
<1>6. CallOK(past, strict, "roles", n)
  BY <1>2, <1>3, <1>4, <1>5, AskedOK
<1>7. QED
  BY <1>1, <1>6, Mine, Frame DEF Load, Goto, Calm, governance, n

LEMMA HitKeeps == ASSUME IInv, NEW k \in Calls, Hit(k) PROVE IInv'
<1> DEFINE b == call[k]
           e == cache[<<b.caller, b.target>>]
<1>1. CallOK(past, strict, pc[k], b) /\ pc[k] = "cache" /\ pc[k] # "idle"
  BY Mine DEF Hit, At
<1>2. b.caller \in Callers /\ b.target \in Targets
  BY <1>1 DEF CallOK
<1>3. e # None /\ e.stamp = b.since /\ EntryOK(past, strict, b.caller, e)
  BY <1>2 DEF Hit, Entry, IInv
<1>4. AnswerOK(past, strict, b.since, b.caller, e.answer)
  BY <1>3 DEF EntryOK
<1>5. CallOK(past, strict, "done", [Blank EXCEPT !.caller = b.caller, !.target = b.target,
                                                 !.since = b.since, !.answer = e.answer])
  BY <1>1, <1>4, EndOK
<1>6. QED
  BY <1>5, Mine, Frame DEF Hit, End, Entry, Goto, Set, Calm, governance

LEMMA MissKeeps == ASSUME IInv, NEW k \in Calls, Miss(k) PROVE IInv'
<1>1. CallOK(past, strict, "cache", call[k]) /\ "roles" \in Labels
  BY Mine DEF Miss, At, Labels
<1>2. CallOK(past, strict, "roles", call[k])
  BY <1>1 DEF CallOK, SingleOK, WholeOK
<1>3. call' = [call EXCEPT ![k] = call[k]]
  BY Mine DEF Miss
<1>4. QED
  BY <1>2, <1>3, Mine, Frame DEF Miss, Goto, Calm, governance

----------------------------------------------------------------------------
(***************************************************************************)
(* Planning.                                                               *)
(***************************************************************************)

LEMMA ReadRolesKeeps == ASSUME IInv, NEW k \in Calls, ReadRoles(k) PROVE IInv'
<1> DEFINE b == call[k]
           n == [b EXCEPT !.roles = RolesOf(Rules, b.caller)]
           l == IF b.target = Whole THEN "candidates" ELSE "plan"
<1>1. CallOK(past, strict, "roles", b)
  BY Mine DEF ReadRoles, At
<1>2. b \in Calling /\ b.since <= Len(past) /\ b.caller \in Callers /\ b.target \in Targets
      /\ Fresh(b) /\ b.answer = None /\ (b.load => b.target # Whole)
  BY <1>1 DEF CallOK
<1>3. RolesOf(Rules, b.caller) \in SUBSET Roles
  BY <1>2, Mine, RolesTyped
<1>4. /\ n \in Calling /\ n.roles = RolesOf(Rules, b.caller)
      /\ n.caller = b.caller /\ n.target = b.target /\ n.load = b.load /\ n.since = b.since
      /\ n.answer = None /\ n.excused = {} /\ Fresh(n)
  BY <1>2, <1>3 DEF Calling, Fresh
<1>5. RolesRead(past, n)
  <2>1. Len(past) \in n.since..Len(past) /\ past[Len(past)] = Rules
    BY <1>2, <1>4, Mine DEF Calling, Last
  <2>2. QED
    BY <1>4, <2>1 DEF RolesRead
<1>6. l \in Labels /\ l \in {"candidates", "plan"}
  BY DEF Labels
<1>7. CallOK(past, strict, l, n)
  <2> HIDE DEF n
  <2>1. QED
    BY <1>2, <1>4, <1>5, <1>6 DEF CallOK, SingleOK, WholeOK
<1>8. QED
  BY <1>7, Mine, Frame DEF ReadRoles, Set, Goto, Calm, governance

\* A table has been planned: it is held to the file tier, or the plan lets its
\* bytes be read.
LEMMA PlannedOK ==
    ASSUME NEW p \in Seq(Regimes), Len(p) \in 1..MaxChanges + 1, NEW s, NEW b, CallOK(p, s, "plan", b),
           NEW n \in Calling, n.caller = b.caller, n.target = b.target, n.load = b.load,
           n.since = b.since, n.excused = {}, n.answer = None,
           n.exports = {} /\ ~ n.required => Tier(Last(p), b.roles, b.target) # "file",
           \A r \in n.routes : IF r.export THEN r.table \in n.exports
                               ELSE r.table = b.target /\ n.exports = {}
    PROVE  CallOK(p, s, "gate", n)
<1>1. /\ b \in Calling /\ b.since <= Len(p) /\ b.caller \in Callers /\ b.target \in Targets
      /\ b.target # Whole /\ (b.load => b.target # Whole) /\ RolesRead(p, b) /\ Fresh(b)
  BY DEF CallOK, SingleOK
<1>2. b.target \in Namespace
  BY <1>1, CredentialVendAssumption DEF Targets
<1>3. ASSUME n.exports = {}, ~ n.required PROVE Allowed(p, n, n.target)
  <2>1. Allowed(p, b, b.target)
    BY <1>1, <1>2, <1>3, Lenient
  <2>2. QED
    BY <1>1, <2>1 DEF Allowed, Fresh
<1>4. "gate" \in Labels
  BY DEF Labels
<1>5. QED
  BY <1>1, <1>3, <1>4 DEF CallOK, SingleOK

LEMMA StampsTyped ==
    ASSUME NEW t \in Namespace, NEW b, stamped \subseteq Namespace, stamped' \in MayStamp(t, b)
    PROVE  stamped' \subseteq Namespace
BY DEF MayStamp

\* What PlanTable and PlanLoad start from.
LEMMA Planning ==
    ASSUME IInv, NEW k \in Calls, pc[k] = "plan"
    PROVE  LET b == call[k] IN
           /\ CallOK(past, strict, "plan", b) /\ b \in Calling /\ Fresh(b) /\ b.answer = None
           /\ b.target \in Namespace /\ b.target \in Tables
<1>1. CallOK(past, strict, "plan", call[k])
  BY Mine
<1>2. QED
  BY <1>1, CredentialVendAssumption DEF CallOK, Targets

LEMMA PlanTableKeeps == ASSUME IInv, NEW k \in Calls, PlanTable(k) PROVE IInv'
<1> DEFINE b == call[k]
           t == b.target
           tier == Tier(Rules, b.roles, t)
<1>1. /\ CallOK(past, strict, "plan", b) /\ b \in Calling /\ Fresh(b) /\ b.answer = None
      /\ t \in Namespace /\ t \in Tables
  BY Planning DEF PlanTable, At
<1>2. CASE tier = "none" /\ call' = call /\ stamped' = stamped
  <2>1. CallOK(past, strict, "gate", b)
    BY <1>1, <1>2, Mine, PlannedOK DEF Fresh
  <2>2. call' = [call EXCEPT ![k] = b]
    BY <1>2, Mine
  <2>3. QED
    BY <2>1, <2>2, <1>2, Mine, Frame DEF PlanTable, Goto
<1>3. ASSUME NEW e \in Export(tier), NEW v \in View, tier # "none",
             Set(k, [b EXCEPT !.exports = IF e THEN {t} ELSE {}, !.required = tier = "file",
                              !.routes = IF v THEN {[table |-> t, export |-> e]} ELSE {},
                              !.erred = ~ v]),
             stamped' \in MayStamp(t, v /\ e)
      PROVE  IInv'
  <2> DEFINE n == [b EXCEPT !.exports = IF e THEN {t} ELSE {}, !.required = tier = "file",
                            !.routes = IF v THEN {[table |-> t, export |-> e]} ELSE {},
                            !.erred = ~ v]
  <2>1. e \in BOOLEAN /\ v \in BOOLEAN
    BY DEF Export, View
  <2>2. /\ n \in Calling /\ n.caller = b.caller /\ n.target = b.target /\ n.load = b.load
        /\ n.since = b.since /\ n.excused = {} /\ n.answer = None
        /\ n.exports = (IF e THEN {t} ELSE {}) /\ (n.required <=> tier = "file")
        /\ n.routes = (IF v THEN {[table |-> t, export |-> e]} ELSE {})
    <3> DEFINE Q == tier = "file"
               X == IF e THEN {t} ELSE {}
               R == IF v THEN {[table |-> t, export |-> e]} ELSE {}
               U == ~ v
               g == [b EXCEPT !.required = Q, !.exports = X, !.routes = R, !.erred = U]
    <3>1. X \in SUBSET Tables /\ R \in SUBSET [table : Tables, export : BOOLEAN]
      BY <1>1, <2>1
    <3>2. Q \in BOOLEAN /\ U \in BOOLEAN
      BY <2>1
    <3>3. n = g
      BY DEF Calling
    <3> HIDE DEF Q, X, R, U
    <3>4. /\ g \in Calling /\ g.caller = b.caller /\ g.target = b.target /\ g.load = b.load
          /\ g.since = b.since /\ g.excused = {} /\ g.answer = None
          /\ g.exports = X /\ (g.required <=> Q) /\ g.routes = R
      BY <1>1, <3>1, <3>2 DEF Calling, Fresh
    <3>5. QED
      BY <3>3, <3>4 DEF Q, X, R
  <2>3. \A r \in n.routes : IF r.export THEN r.table \in n.exports
                            ELSE r.table = b.target /\ n.exports = {}
    <3> HIDE DEF n
    <3>1. QED
      BY <2>1, <2>2
  <2>4. CallOK(past, strict, "gate", n)
    <3> HIDE DEF n
    <3>1. QED
      BY <1>1, <2>2, <2>3, Mine, PlannedOK
  <2>5. stamped' \subseteq Namespace
    BY <1>1, <1>3, Mine, StampsTyped
  <2>6. QED
    BY <1>3, <2>4, <2>5, Mine, Frame DEF PlanTable, Goto, Set
<1>4. QED
  BY <1>2, <1>3 DEF PlanTable

LEMMA PlanLoadKeeps == ASSUME IInv, NEW k \in Calls, PlanLoad(k) PROVE IInv'
<1> DEFINE b == call[k]
           t == b.target
           tier == Tier(Rules, b.roles, t)
           d == [b EXCEPT !.required = tier = "file"]
<1>1. /\ CallOK(past, strict, "plan", b) /\ b \in Calling /\ Fresh(b) /\ b.answer = None
      /\ t \in Namespace /\ t \in Tables
  BY Planning DEF PlanLoad, At
<1>2. CASE tier = "none" /\ call' = call /\ stamped' = stamped
  <2>1. CallOK(past, strict, "gate", b)
    BY <1>1, <1>2, Mine, PlannedOK DEF Fresh
  <2>2. call' = [call EXCEPT ![k] = b]
    BY <1>2, Mine
  <2>3. QED
    BY <2>1, <2>2, <1>2, Mine, Frame DEF PlanLoad, Goto
<1>3. ASSUME NEW e \in Export(tier), NEW v \in View, tier # "none",
             stamped' \in MayStamp(t, e),
             Set(k, [d EXCEPT !.exports = IF e THEN {t} ELSE {},
                              !.routes = IF e \/ v THEN {[table |-> t, export |-> e]} ELSE {},
                              !.erred = ~ e /\ ~ v])
      PROVE  IInv'
  <2> DEFINE n == [d EXCEPT !.exports = IF e THEN {t} ELSE {},
                            !.routes = IF e \/ v THEN {[table |-> t, export |-> e]} ELSE {},
                            !.erred = ~ e /\ ~ v]
  <2>1. e \in BOOLEAN /\ v \in BOOLEAN
    BY DEF Export, View
  <2>2. /\ n \in Calling /\ n.caller = b.caller /\ n.target = b.target /\ n.load = b.load
        /\ n.since = b.since /\ n.excused = {} /\ n.answer = None
        /\ n.exports = (IF e THEN {t} ELSE {}) /\ (n.required <=> tier = "file")
        /\ n.routes = (IF e \/ v THEN {[table |-> t, export |-> e]} ELSE {})
    <3> DEFINE Q == tier = "file"
               X == IF e THEN {t} ELSE {}
               R == IF e \/ v THEN {[table |-> t, export |-> e]} ELSE {}
               U == ~ e /\ ~ v
               g == [b EXCEPT !.required = Q, !.exports = X, !.routes = R, !.erred = U]
    <3>1. X \in SUBSET Tables /\ R \in SUBSET [table : Tables, export : BOOLEAN]
      BY <1>1, <2>1
    <3>2. Q \in BOOLEAN /\ U \in BOOLEAN
      BY <2>1
    <3>3. n = g
      BY DEF Calling
    <3> HIDE DEF Q, X, R, U
    <3>4. /\ g \in Calling /\ g.caller = b.caller /\ g.target = b.target /\ g.load = b.load
          /\ g.since = b.since /\ g.excused = {} /\ g.answer = None
          /\ g.exports = X /\ (g.required <=> Q) /\ g.routes = R
      BY <1>1, <3>1, <3>2 DEF Calling, Fresh
    <3>5. QED
      BY <3>3, <3>4 DEF Q, X, R
  <2>3. \A r \in n.routes : IF r.export THEN r.table \in n.exports
                            ELSE r.table = b.target /\ n.exports = {}
    <3> HIDE DEF n
    <3>1. QED
      BY <2>1, <2>2
  <2>4. CallOK(past, strict, "gate", n)
    <3> HIDE DEF n
    <3>1. QED
      BY <1>1, <2>2, <2>3, Mine, PlannedOK
  <2>5. stamped' \subseteq Namespace
    BY <1>1, <1>3, Mine, StampsTyped
  <2>6. QED
    BY <1>3, <2>4, <2>5, Mine, Frame DEF PlanLoad, Goto, Set
<1>4. ASSUME NEW e \in BOOLEAN, tier = "file", stamped' \in MayStamp(t, e),
             Set(k, [d EXCEPT !.erred = TRUE])
      PROVE  IInv'
  <2> DEFINE n == [d EXCEPT !.erred = TRUE]
  <2>1. /\ n \in Calling /\ n.caller = b.caller /\ n.target = b.target /\ n.load = b.load
        /\ n.since = b.since /\ n.excused = {} /\ n.answer = None
        /\ n.required /\ n.routes = {}
    BY <1>1, <1>4 DEF Calling, Fresh
  <2>2. CallOK(past, strict, "gate", n)
    <3> HIDE DEF n
    <3>1. QED
      BY <1>1, <2>1, Mine, PlannedOK
  <2>3. stamped' \subseteq Namespace
    BY <1>1, <1>4, Mine, StampsTyped
  <2>4. QED
    BY <1>4, <2>2, <2>3, Mine, Frame DEF PlanLoad, Goto, Set
<1>5. Export(tier) \subseteq BOOLEAN
  BY DEF Export
<1>6. QED
  BY <1>2, <1>3, <1>4, <1>5 DEF PlanLoad

LEMMA CandidatesKeeps == ASSUME IInv, NEW k \in Calls, Candidates(k) PROVE IInv'
<1> DEFINE b == call[k]
           C == Governed(Rules) \cap Namespace
           n == [b EXCEPT !.todo = C]
<1>1. CallOK(past, strict, "candidates", b)
  BY Mine DEF Candidates, At
<1>2. /\ b \in Calling /\ b.since <= Len(past) /\ b.caller \in Callers /\ b.target = Whole
      /\ Whole \in Targets /\ ~ b.load /\ Fresh(b) /\ b.answer = None
      /\ RolesRead(past, b)
  BY <1>1 DEF CallOK, WholeOK, Targets, Calling
<1>3. C \in SUBSET Namespace
  OBVIOUS
<1> HIDE DEF C
<1>4. /\ n \in Calling /\ n.caller = b.caller /\ n.target = Whole /\ n.load = b.load
      /\ n.since = b.since /\ n.roles = b.roles /\ n.excused = {} /\ n.routes = {} /\ n.answer = None
  BY <1>2, <1>3 DEF Calling, Fresh
<1> HIDE DEF n
<1>5. RolesRead(past, n) /\ Routed(past, n)
  BY <1>2, <1>4 DEF RolesRead, Routed
<1>6. "next" \in Labels
  BY DEF Labels
<1>7. CallOK(past, strict, "next", n)
  BY <1>2, <1>4, <1>5, <1>6 DEF CallOK, SingleOK, WholeOK
<1>8. QED
  BY <1>7, Mine, Frame DEF Candidates, Set, Goto, Calm, governance, n, C

\* One more table of the namespace is planned.
LEMMA NextOK ==
    ASSUME NEW p, NEW s, NEW b, CallOK(p, s, "next", b),
           NEW n \in Calling, n.caller = b.caller, n.target = b.target, n.load = b.load,
           n.since = b.since, n.roles = b.roles, n.excused = b.excused, n.answer = None,
           b.exports \subseteq n.exports,
           \A r \in n.routes \ b.routes :
              /\ r.table \in Namespace
              /\ r.export => r.table \in n.exports
              /\ ~ r.export => Tier(Last(p), b.roles, r.table) # "file"
    PROVE  CallOK(p, s, "next", n)
<1>1. /\ b.since <= Len(p) /\ b.caller \in Callers /\ b.target = Whole /\ b.target \in Targets
      /\ (b.load => b.target # Whole) /\ b.excused = {} /\ RolesRead(p, b) /\ Routed(p, b)
  BY DEF CallOK, WholeOK
<1>2. RolesRead(p, n) /\ Routed(p, n)
  BY <1>1 DEF RolesRead, Routed
<1>3. "next" \in Labels
  BY DEF Labels
<1>4. QED
  BY <1>1, <1>2, <1>3 DEF CallOK, SingleOK, WholeOK

LEMMA PlanNextKeeps == ASSUME IInv, NEW k \in Calls, PlanNext(k) PROVE IInv'
<1>1. PICK t \in call[k].todo :
        LET tier == Tier(Rules, call[k].roles, t)
            b == [call[k] EXCEPT !.todo = @ \ {t}]
        IN  \/ tier = "none" /\ Set(k, b)
            \/ \E e \in Export(tier) : tier = "file" /\ ~ e /\ Set(k, b)
            \/ \E e \in Export(tier), v \in View :
                  /\ tier = "view" \/ e
                  /\ Set(k, [b EXCEPT
                        !.exports = IF e THEN @ \cup {t} ELSE @,
                        !.routes = IF v THEN @ \cup {[table |-> t, export |-> e]} ELSE @])
  BY DEF PlanNext
<1> DEFINE b == call[k]
           tier == Tier(Rules, b.roles, t)
           d == [b EXCEPT !.todo = @ \ {t}]
<1>2. CallOK(past, strict, "next", b) /\ pc[k] = "next"
  BY Mine DEF PlanNext, At
<1>3. b \in Calling /\ b.answer = None /\ t \in Namespace /\ t \in Tables /\ Rules = Last(past)
  BY <1>2, Mine, CredentialVendAssumption DEF CallOK, Calling
<1>4. /\ d \in Calling /\ d.caller = b.caller /\ d.target = b.target /\ d.load = b.load
      /\ d.since = b.since /\ d.roles = b.roles /\ d.excused = b.excused /\ d.answer = None
      /\ d.exports = b.exports /\ d.routes = b.routes
  BY <1>3 DEF Calling
<1>5. pc' = [pc EXCEPT ![k] = "next"]
  BY <1>2, Mine DEF PlanNext
<1>6. CASE Set(k, d)
  <2>1. CallOK(past, strict, "next", d)
    <3> HIDE DEF d
    <3>1. QED
      BY <1>2, <1>4, NextOK
  <2>2. QED
    BY <1>5, <1>6, <2>1, Mine, Frame DEF PlanNext, Set, Calm, governance
<1>7. ASSUME NEW e \in Export(tier), NEW v \in View, tier = "view" \/ e,
             Set(k, [d EXCEPT !.exports = IF e THEN @ \cup {t} ELSE @,
                              !.routes = IF v THEN @ \cup {[table |-> t, export |-> e]} ELSE @])
      PROVE  IInv'
  <2> DEFINE X == IF e THEN b.exports \cup {t} ELSE b.exports
             R == IF v THEN b.routes \cup {[table |-> t, export |-> e]} ELSE b.routes
             n == [d EXCEPT !.exports = X, !.routes = R]
  <2>1. e \in BOOLEAN /\ v \in BOOLEAN
    BY DEF Export, View
  <2>2. X \in SUBSET Tables /\ R \in SUBSET [table : Tables, export : BOOLEAN]
    BY <1>3, <2>1 DEF Calling
  <2>3. call' = [call EXCEPT ![k] = n]
    BY <1>4, <1>7 DEF Set
  <2>4. b.exports \subseteq X
    OBVIOUS
  <2>5. \A r \in R \ b.routes :
           /\ r.table \in Namespace
           /\ r.export => r.table \in X
           /\ ~ r.export => Tier(Last(past), b.roles, r.table) # "file"
    <3>1. SUFFICES ASSUME NEW r \in R \ b.routes
                   PROVE  /\ r.table \in Namespace
                          /\ r.export => r.table \in X
                          /\ ~ r.export => Tier(Last(past), b.roles, r.table) # "file"
      OBVIOUS
    <3>2. r = [table |-> t, export |-> e]
      BY <3>1
    <3>3. r.table = t /\ r.export = e
      BY <3>2
    <3>4. QED
      BY <1>3, <1>7, <3>3
  <2> HIDE DEF X, R, d
  <2>6. /\ n \in Calling /\ n.caller = b.caller /\ n.target = b.target /\ n.load = b.load
        /\ n.since = b.since /\ n.roles = b.roles /\ n.excused = b.excused /\ n.answer = None
        /\ n.exports = X /\ n.routes = R
    BY <1>4, <2>2 DEF Calling
  <2> HIDE DEF n
  <2>7. CallOK(past, strict, "next", n)
    BY <1>2, <2>4, <2>5, <2>6, NextOK
  <2>8. QED
    BY <1>5, <2>3, <2>7, Mine, Frame DEF PlanNext, Calm, governance
<1>8. QED
  BY <1>1, <1>6, <1>7

\* Failing is not passing: a table that carries the property is held to the
\* file tier, and of any other it is on record that nothing is known.
LEMMA PlanningFailsKeeps == ASSUME IInv, NEW k \in Calls, PlanningFails(k) PROVE IInv'
<1> DEFINE b == call[k]
           W == Unsure(k)
           ro == IF At(k, "roles") THEN b.caller.roles ELSE b.roles
<1>1. PICK assumed \in BOOLEAN :
        Set(k, [b EXCEPT !.todo = {}, !.routes = {}, !.erred = TRUE, !.excused = W,
                  !.required = b.target # Whole /\ (b.target \in stamped \/ assumed),
                  !.roles = IF At(k, "roles") THEN b.caller.roles ELSE @])
  BY DEF PlanningFails
<1> DEFINE Q == b.target # Whole /\ (b.target \in stamped \/ assumed)
           n == [b EXCEPT !.todo = {}, !.routes = {}, !.erred = TRUE, !.excused = W,
                          !.required = Q, !.roles = ro]
<1>2. CallOK(past, strict, pc[k], b) /\ pc[k] \in {"roles", "candidates", "next", "plan"}
  BY Mine DEF PlanningFails
<1>3. /\ b \in Calling /\ b.since <= Len(past) /\ b.caller \in Callers /\ b.target \in Targets
      /\ (b.load => b.target # Whole) /\ b.answer = None
  BY <1>2 DEF CallOK
<1>4. call' = [call EXCEPT ![k] = n]
  BY <1>1, <1>3 DEF Set, Calling
<1>5. Namespace \subseteq Tables /\ (b.target # Whole => b.target \in Namespace)
  BY <1>3, CredentialVendAssumption DEF Targets
<1>6. W \in SUBSET Tables /\ Q \in BOOLEAN
  BY <1>5 DEF Unsure
<1>7. ro \in SUBSET Roles
  BY <1>3, Mine, RolesTyped DEF Calling
<1>8. b.target # Whole => b.exports = {} /\ (~ Q => b.target \in W)
  <2>1. b.target # Whole => Fresh(b)
    BY <1>2 DEF CallOK
  <2>2. QED
    BY <2>1 DEF Fresh, Unsure
<1>9. b.target = Whole =>
        \/ \E v \in b.since..Len(past) : ro = RolesOf(past[v], b.caller)
        \/ ro = b.caller.roles /\ (b.caller.agent => Namespace \subseteq W)
  <2>1. CASE pc[k] = "roles"
    BY <2>1 DEF At, Unsure
  <2>2. CASE pc[k] # "roles"
    BY <1>2, <2>2 DEF At, CallOK, WholeOK, RolesRead
  <2>3. QED
    BY <2>1, <2>2
<1> HIDE DEF W, Q, ro
<1>10. /\ n \in Calling /\ n.caller = b.caller /\ n.target = b.target /\ n.load = b.load
       /\ n.since = b.since /\ n.roles = ro /\ n.excused = W /\ n.answer = None /\ n.erred
       /\ n.routes = {} /\ n.required = Q /\ n.exports = b.exports
  BY <1>3, <1>6, <1>7 DEF Calling
<1> HIDE DEF n
<1>11. b.target # Whole => SingleOK(past, "gate", n)
  BY <1>8, <1>10 DEF SingleOK, Allowed
<1>12. b.target = Whole => WholeOK(past, "gate", n)
  BY <1>9, <1>10 DEF WholeOK, RolesRead, RolesLost, Routed
<1>13. "gate" \in Labels
  BY DEF Labels
<1>14. CallOK(past, strict, "gate", n)
  BY <1>3, <1>10, <1>11, <1>12, <1>13 DEF CallOK
<1>15. QED
  BY <1>4, <1>14, Mine, Frame DEF PlanningFails, Goto, Calm, governance

----------------------------------------------------------------------------
(***************************************************************************)
(* Scoping.                                                                *)
(***************************************************************************)

\* What the vend of a namespace has from its planning, past the gate.
Planned(p, s, b) ==
    /\ b \in Calling /\ b.since <= Len(p) /\ b.caller \in Callers /\ b.target = Whole
    /\ Whole \in Targets /\ ~ b.load /\ b.answer = None
    /\ RolesRead(p, b) \/ RolesLost(b)
    /\ Routed(p, b)
    /\ b.excused # {} => ~ s

LEMMA PlannedFacts ==
    ASSUME NEW p, NEW s, NEW l \in {"scope", "deny", "carve"}, NEW b, CallOK(p, s, l, b)
    PROVE  /\ Planned(p, s, b)
           /\ l = "deny" => b.reach = Namespace
           /\ l = "carve" => (\A t \in b.reach \ b.todo : Allowed(p, b, t)) /\ Readable(p, b)
BY DEF CallOK, WholeOK, Planned, Targets, Calling

LEMMA GateKeeps == ASSUME IInv, NEW k \in Calls, Gate(k) PROVE IInv'
<1> DEFINE b == call[k]
<1>1. CallOK(past, strict, pc[k], b) /\ (pc[k] = "gate" \/ (pc[k] = "next" /\ b.todo = {}))
  BY Mine DEF Gate, At
<1>2. /\ b \in Calling /\ b.since <= Len(past) /\ b.caller \in Callers /\ b.target \in Targets
      /\ (b.load => b.target # Whole) /\ b.answer = None
      /\ (pc[k] = "next" => b.target = Whole /\ b.excused = {})
      /\ (pc[k] = "gate" => (b.excused # {} => b.erred))
  BY <1>1 DEF CallOK, WholeOK
<1>3. ~ Refused(b) => (b.excused # {} => ~ strict)
  BY <1>1, <1>2 DEF Refused
<1>4. CASE Deny(k)
  BY <1>1, <1>4, DenyKeeps DEF Gate
<1>5. CASE ~ Refused(b) /\ b.target # Whole /\ Goto(k, "mint")
           /\ Set(k, [b EXCEPT !.reach = IF b.exports = {} THEN {b.target} ELSE {}])
  <2> DEFINE X == IF b.exports = {} THEN {b.target} ELSE {}
             n == [b EXCEPT !.reach = X]
  <2>1. pc[k] = "gate" /\ SingleOK(past, "gate", b) /\ b.target \in Tables
    BY <1>1, <1>2, <1>5, CredentialVendAssumption DEF CallOK, Targets
  <2>2. b.exports = {} => Allowed(past, b, b.target)
    BY <1>5, <2>1 DEF Refused, SingleOK
  <2>3. X \in SUBSET Tables /\ (\A t \in X : t = b.target /\ b.exports = {})
        /\ (b.exports = {} => b.target \in X)
    BY <2>1
  <2> HIDE DEF X
  <2>4. /\ n \in Calling /\ n.caller = b.caller /\ n.target = b.target /\ n.load = b.load
        /\ n.since = b.since /\ n.excused = b.excused /\ n.answer = None
        /\ n.routes = b.routes /\ n.exports = b.exports /\ n.reach = X
    BY <1>2, <2>3 DEF Calling
  <2> HIDE DEF n
  <2>5. \A t \in n.reach : Allowed(past, n, t)
    BY <2>2, <2>3, <2>4 DEF Allowed
  <2>6. Readable(past, n)
    <3>1. SUFFICES ASSUME NEW r \in b.routes
                   PROVE  /\ r.export => r.table \in n.exports
                          /\ ~ r.export => r.table \in n.reach
      BY <2>4 DEF Readable
    <3>2. IF r.export THEN r.table \in b.exports ELSE r.table = b.target /\ b.exports = {}
      BY <2>1, <3>1 DEF SingleOK
    <3>3. QED
      BY <2>3, <2>4, <3>2
  <2>7. "mint" \in Labels
    BY DEF Labels
  <2>8. CallOK(past, strict, "mint", n)
    BY <1>2, <1>3, <1>5, <2>3, <2>4, <2>5, <2>6, <2>7 DEF CallOK, SingleOK
  <2>9. QED
    BY <1>5, <2>8, Mine, Frame DEF Gate, Goto, Set, Calm, governance, n, X
<1>6. CASE ~ Refused(b) /\ b.target = Whole /\ Goto(k, "scope") /\ UNCHANGED call
  <2>1. (RolesRead(past, b) \/ RolesLost(b)) /\ Routed(past, b)
    BY <1>1, <1>6 DEF CallOK, WholeOK
  <2>2. "scope" \in Labels
    BY DEF Labels
  <2>3. CallOK(past, strict, "scope", b)
    BY <1>2, <1>3, <1>6, <2>1, <2>2 DEF CallOK, SingleOK, WholeOK
  <2>4. call' = [call EXCEPT ![k] = b]
    BY <1>6, Mine
  <2>5. QED
    BY <1>6, <2>3, <2>4, Mine, Frame DEF Gate, Goto, Calm, governance
<1>7. QED
  BY <1>4, <1>5, <1>6 DEF Gate

\* Without a policy at the file tier only a session with its tag has masks
\* there.
LEMMA ScopeKeeps == ASSUME IInv, NEW k \in Calls, Scope(k) PROVE IInv'
<1> DEFINE b == call[k]
<1>1. CallOK(past, strict, "scope", b)
  BY Mine DEF Scope, At
<1>2. Planned(past, strict, b)
  BY <1>1, PlannedFacts
<1>3. CASE ~ b.caller.agent /\ ~ HasFileLayer /\ Goto(k, "mint")
           /\ Set(k, [b EXCEPT !.reach = Tables, !.exports = Tables])
  <2> DEFINE n == [b EXCEPT !.reach = Tables, !.exports = Tables]
  <2>1. /\ n \in Calling /\ n.caller = b.caller /\ n.target = Whole /\ n.load = b.load
        /\ n.since = b.since /\ n.excused = b.excused /\ n.answer = None
        /\ n.routes = b.routes /\ n.exports = Tables /\ n.reach = Tables
    BY <1>2 DEF Calling, Planned
  <2> HIDE DEF n
  <2>2. ASSUME NEW t \in Tables PROVE Allowed(past, n, t)
    <3>1. Rules.tier[t] # "file" /\ Rules.tier[t] \in Tiers
      BY <1>3, Mine, CredentialVendAssumption DEF HasFileLayer
    <3>2. Agent \notin Meant(Rules, b.caller)
      BY <1>2, <1>3, Mine, RolesTyped DEF Planned
    <3>3. Tier(Rules, Meant(Rules, b.caller), t) # "file"
      BY <3>1, <3>2, Mine, TierFacts DEF Tiers
    <3>4. Len(past) \in b.since..Len(past) /\ past[Len(past)] = Rules
      BY <1>2, Mine DEF Planned, Calling, Last
    <3>5. QED
      BY <2>1, <3>3, <3>4 DEF Allowed, Open
  <2>3. Readable(past, n)
    BY <1>2, <2>1 DEF Readable, Calling, Planned
  <2>4. "mint" \in Labels
    BY DEF Labels
  <2>5. CallOK(past, strict, "mint", n)
    BY <1>2, <2>1, <2>2, <2>3, <2>4 DEF CallOK, SingleOK, WholeOK, Planned
  <2>6. QED
    BY <1>3, <2>5, Mine, Frame DEF Scope, Goto, Set, Calm, governance, n
<1>4. CASE Set(k, [b EXCEPT !.reach = Namespace]) /\ Goto(k, "deny")
  <2> DEFINE n == [b EXCEPT !.reach = Namespace]
  <2>1. /\ n \in Calling /\ n.caller = b.caller /\ n.target = Whole /\ n.load = b.load
        /\ n.since = b.since /\ n.excused = b.excused /\ n.answer = None /\ n.roles = b.roles
        /\ n.routes = b.routes /\ n.exports = b.exports /\ n.reach = Namespace
    BY <1>2, CredentialVendAssumption DEF Calling, Planned
  <2> HIDE DEF n
  <2>2. (RolesRead(past, n) \/ RolesLost(n)) /\ Routed(past, n)
    BY <1>2, <2>1 DEF RolesRead, RolesLost, Routed, Planned
  <2>3. "deny" \in Labels
    BY DEF Labels
  <2>4. CallOK(past, strict, "deny", n)
    BY <1>2, <2>1, <2>2, <2>3 DEF CallOK, SingleOK, WholeOK, Planned
  <2>5. QED
    BY <1>4, <2>4, Mine, Frame DEF Scope, Goto, Set, Calm, governance, n
<1>5. QED
  BY <1>3, <1>4 DEF Scope

\* The carving goes on: what has been looked at, and is left, is allowed.
LEMMA CarveOK ==
    ASSUME NEW p, NEW s, NEW b, Planned(p, s, b),
           NEW T \in SUBSET Namespace, NEW X \in SUBSET Tables,
           \A t \in X \ T : Allowed(p, b, t),
           \A r \in b.routes : ~ r.export /\ b.since = Len(p) => r.table \in X
    PROVE  CallOK(p, s, "carve", [b EXCEPT !.todo = T, !.reach = X])
<1> DEFINE n == [b EXCEPT !.todo = T, !.reach = X]
<1>1. /\ n \in Calling /\ n.caller = b.caller /\ n.target = Whole /\ n.load = b.load
      /\ n.since = b.since /\ n.excused = b.excused /\ n.answer = None /\ n.roles = b.roles
      /\ n.routes = b.routes /\ n.exports = b.exports /\ n.reach = X /\ n.todo = T
  BY DEF Calling, Planned
<1> HIDE DEF n
<1>2. (RolesRead(p, n) \/ RolesLost(n)) /\ Routed(p, n)
  BY <1>1 DEF RolesRead, RolesLost, Routed, Planned
<1>3. Readable(p, n)
  BY <1>1 DEF Readable, Routed, Planned
<1>4. \A t \in n.reach \ n.todo : Allowed(p, n, t)
  BY <1>1 DEF Allowed
<1>5. "carve" \in Labels
  BY DEF Labels
<1>6. CallOK(p, s, "carve", n)
  BY <1>1, <1>2, <1>3, <1>4, <1>5 DEF CallOK, SingleOK, WholeOK, Planned
<1>7. QED
  BY <1>6 DEF n

LEMMA DenyCandidatesKeeps == ASSUME IInv, NEW k \in Calls, DenyCandidates(k) PROVE IInv'
<1> DEFINE b == call[k]
           T == Governed(Rules) \cap Namespace
<1>1. CallOK(past, strict, "deny", b)
  BY Mine DEF DenyCandidates, At
<1>2. Planned(past, strict, b) /\ b.reach = Namespace /\ b \in Calling
  <2>1. b.reach = Namespace /\ Planned(past, strict, b)
    BY <1>1, PlannedFacts
  <2>2. QED
    BY <2>1 DEF Planned
<1>3. ASSUME NEW t \in Namespace \ T PROVE Allowed(past, b, t)
  <2>1. t \in Tables /\ Rules.tier[t] = "none"
    BY CredentialVendAssumption DEF Governed
  <2>2. Tier(Rules, b.roles, t) # "file"
    BY <2>1, Mine, TierFacts
  <2>3. QED
    BY <1>2, <2>2, Mine, Lenient DEF Planned
<1>4. \A r \in b.routes : r.table \in Namespace
  BY <1>2 DEF Planned, Routed
<1>5. T \in SUBSET Namespace /\ Namespace \in SUBSET Tables
  BY CredentialVendAssumption
<1> HIDE DEF T
<1>6. CallOK(past, strict, "carve", [b EXCEPT !.todo = T, !.reach = Namespace])
  BY <1>2, <1>3, <1>4, <1>5, CarveOK
<1>7. [b EXCEPT !.todo = T, !.reach = Namespace] = [b EXCEPT !.todo = T]
  BY <1>2 DEF Calling
<1>8. QED
  BY <1>6, <1>7, Mine, Frame DEF DenyCandidates, Goto, Set, Calm, governance, T

LEMMA DenyNextKeeps == ASSUME IInv, NEW k \in Calls, DenyNext(k) PROVE IInv'
<1> DEFINE b == call[k]
<1>1. PICK t \in b.todo :
        Set(k, [b EXCEPT !.todo = @ \ {t},
                  !.reach = IF Tier(Rules, b.roles, t) = "file" THEN @ \ {t} ELSE @])
  BY DEF DenyNext
<1> DEFINE T == b.todo \ {t}
           X == IF Tier(Rules, b.roles, t) = "file" THEN b.reach \ {t} ELSE b.reach
<1>2. CallOK(past, strict, "carve", b) /\ pc[k] = "carve"
  BY Mine DEF DenyNext, At
<1>3. /\ Planned(past, strict, b) /\ b \in Calling
      /\ \A u \in b.reach \ b.todo : Allowed(past, b, u)
      /\ Readable(past, b)
  <2>1. /\ Planned(past, strict, b) /\ Readable(past, b)
        /\ \A u \in b.reach \ b.todo : Allowed(past, b, u)
    BY <1>2, PlannedFacts
  <2>2. QED
    BY <2>1 DEF Planned
<1>4. T \in SUBSET Namespace /\ X \in SUBSET Tables /\ t \in Namespace
  BY <1>3 DEF Calling
<1>5. ASSUME NEW u \in X \ T PROVE Allowed(past, b, u)
  <2>1. CASE u = t
    <3>1. Tier(Last(past), b.roles, t) # "file"
      BY <2>1, Mine
    <3>2. QED
      BY <1>3, <1>4, <2>1, <3>1, Mine, Lenient DEF Planned
  <2>2. CASE u # t
    BY <1>3, <2>2
  <2>3. QED
    BY <2>1, <2>2
<1>6. ASSUME NEW r \in b.routes, ~ r.export, b.since = Len(past) PROVE r.table \in X
  <2>1. Tier(Rules, b.roles, r.table) # "file" /\ r.table \in b.reach
    BY <1>3, <1>6, Mine DEF Planned, Routed, Readable
  <2>2. QED
    BY <2>1
<1>7. call' = [call EXCEPT ![k] = [b EXCEPT !.todo = T, !.reach = X]]
  BY <1>1, <1>3 DEF Set, Calling
<1> HIDE DEF T, X
<1>8. CallOK(past, strict, "carve", [b EXCEPT !.todo = T, !.reach = X])
  BY <1>3, <1>4, <1>5, <1>6, CarveOK
<1>9. pc' = [pc EXCEPT ![k] = "carve"]
  BY <1>2, Mine DEF DenyNext
<1>10. QED
  BY <1>7, <1>8, <1>9, Mine, Frame DEF DenyNext, Calm, governance

----------------------------------------------------------------------------
(***************************************************************************)
(* The credential.                                                         *)
(***************************************************************************)

\* An answer keeps the promises if what the vend reaches, of what it was asked
\* for, is allowed, and what it routes to is in reach.
LEMMA AnswerKeeps ==
    ASSUME IInv, NEW b \in Calling, b.caller \in Callers, NEW given \in BOOLEAN,
           \A t \in b.reach : ~ b.load \/ t = b.target => Allowed(past, b, t),
           Readable(past, b), b.excused # {} => ~ strict
    PROVE  AnswerOK(past, strict, b.since, b.caller, Answer(b, given))
<1> DEFINE a == Answer(b, given)
           steady == b.since = Version
           beyond == IF given /\ b.load THEN b.reach \ {b.target} ELSE {}
<1>1. /\ a.base = (IF given THEN b.reach ELSE {}) /\ a.exports = (IF given THEN b.exports ELSE {})
      /\ a.routes = b.routes /\ a.given = given /\ (a.steady <=> steady)
      /\ a.excused = (IF given THEN b.excused ELSE {}) /\ a.beyond = beyond
  BY DEF Answer
<1>2. a \in Answers
  <2> DEFINE X == IF given THEN b.reach ELSE {}
             Y == IF given THEN b.exports ELSE {}
             Z == IF given THEN b.excused ELSE {}
  <2>1. /\ X \in SUBSET Tables /\ Y \in SUBSET Tables /\ Z \in SUBSET Tables
        /\ beyond \in SUBSET Tables /\ steady \in BOOLEAN
        /\ b.routes \in SUBSET [table : Tables, export : BOOLEAN]
    BY DEF Calling
  <2>2. a = [base |-> X, exports |-> Y, routes |-> b.routes, given |-> given, excused |-> Z,
             beyond |-> beyond, steady |-> steady]
    BY DEF Answer
  <2> HIDE DEF X, Y, Z, beyond, steady, a
  <2>3. QED
    BY <2>1, <2>2 DEF Answers
<1>3. \A t \in a.base \ a.beyond : Open(past, b.since, b.caller, t) \/ (~ strict /\ t \in a.excused)
  <2> HIDE DEF a
  <2>1. SUFFICES ASSUME NEW t \in a.base \ a.beyond
                 PROVE  Open(past, b.since, b.caller, t) \/ (~ strict /\ t \in a.excused)
    OBVIOUS
  <2>2. given /\ t \in b.reach /\ (~ b.load \/ t = b.target)
    BY <1>1, <2>1
  <2>3. Allowed(past, b, t)
    BY <2>2
  <2>4. QED
    BY <1>1, <2>2, <2>3 DEF Allowed
<1>4. a.given /\ a.steady => \A r \in a.routes : r.table \in IF r.export THEN a.exports ELSE a.base
  <2>1. Version = Len(past)
    BY DEF Version
  <2> HIDE DEF a
  <2>2. QED
    BY <1>1, <2>1 DEF Readable
<1>5. QED
  BY <1>2, <1>3, <1>4 DEF AnswerOK

\* What every end of a vend of ducklake-credentials starts from.
LEMMA ScopedFacts ==
    ASSUME IInv, NEW k \in Calls, Scoped(k)
    PROVE  LET b == call[k] IN
           /\ CallOK(past, strict, pc[k], b) /\ pc[k] # "idle" /\ pc[k] \in {"mint", "carve"}
           /\ b.caller \in Callers /\ b.target \in Targets /\ b.since <= Len(past)
           /\ b.since \in Nat \ {0}
           /\ \A given \in BOOLEAN : AnswerOK(past, strict, b.since, b.caller, Answer(b, given))
<1> DEFINE b == call[k]
<1>1. CallOK(past, strict, pc[k], b) /\ pc[k] \in {"mint", "carve"} /\ (pc[k] = "carve" => b.todo = {})
  BY Mine DEF Scoped, At
<1>2. /\ b \in Calling /\ b.caller \in Callers /\ b.target \in Targets /\ b.since <= Len(past)
      /\ (b.excused # {} => ~ strict)
  BY <1>1 DEF CallOK
<1>3. (\A t \in b.reach : Allowed(past, b, t)) /\ Readable(past, b)
  <2>1. CASE pc[k] = "mint"
    BY <1>1, <2>1 DEF CallOK
  <2>2. CASE pc[k] = "carve"
    BY <1>1, <2>2, PlannedFacts
  <2>3. QED
    BY <1>1, <2>1, <2>2
<1>4. \A given \in BOOLEAN : AnswerOK(past, strict, b.since, b.caller, Answer(b, given))
  BY <1>2, <1>3, AnswerKeeps
<1>5. QED
  BY <1>1, <1>2, <1>4 DEF Calling

\* An answer is given and cached under the version that was read first.
LEMMA CachedKeeps ==
    ASSUME IInv, NEW k \in Calls, Scoped(k), NEW given \in BOOLEAN,
           LET b == call[k]  a == Answer(b, given) IN
             /\ End(k, a)
             /\ cache' = [cache EXCEPT ![<<b.caller, b.target>>] = [stamp |-> b.since, answer |-> a]],
           UNCHANGED <<governance, strict>>
    PROVE  IInv'
<1> DEFINE b == call[k]
           a == Answer(b, given)
           e == [stamp |-> b.since, answer |-> a]
           n == [Blank EXCEPT !.caller = b.caller, !.target = b.target, !.since = b.since, !.answer = a]
<1>1. /\ CallOK(past, strict, pc[k], b) /\ pc[k] # "idle"
      /\ b.caller \in Callers /\ b.target \in Targets /\ b.since <= Len(past) /\ b.since \in Nat \ {0}
      /\ AnswerOK(past, strict, b.since, b.caller, a)
  BY ScopedFacts
<1>2. End(k, a) /\ cache' = [cache EXCEPT ![<<b.caller, b.target>>] = e]
  OBVIOUS
<1> HIDE DEF a
<1>3. CallOK(past, strict, "done", n)
  BY <1>1, EndOK
<1>4. EntryOK(past, strict, b.caller, e)
  BY <1>1 DEF EntryOK, AnswerOK
<1>5. pc' = [pc EXCEPT ![k] = "done"] /\ call' = [call EXCEPT ![k] = n]
  BY <1>2 DEF End, Goto, Set
<1>6. past' = past /\ stamped' = stamped /\ strict' = strict
  BY DEF governance
<1> HIDE DEF e, n
<1>7. QED
  BY <1>1, <1>2, <1>3, <1>4, <1>5, <1>6, FrameCached

LEMMA MintKeeps == ASSUME IInv, NEW k \in Calls, Mint(k) PROVE IInv'
BY CachedKeeps DEF Mint, Given

LEMMA GatewayMintKeeps == ASSUME IInv, NEW k \in Calls, GatewayMint(k) PROVE IInv'
<1>1. CASE Deny(k) /\ UNCHANGED cache
  <2>1. Calm /\ pc[k] # "idle"
    BY <1>1, ScopedFacts DEF GatewayMint, Calm
  <2>2. QED
    BY <1>1, <2>1, DenyKeeps
<1>2. QED
  BY <1>1, CachedKeeps DEF GatewayMint

\* LoadTable: of the table it was asked for, the answer reads the bytes only if
\* the plan has let it, whatever else a writer's credential covers.
LEMMA LoadMintKeeps == ASSUME IInv, NEW k \in Calls, LoadMint(k) PROVE IInv'
<1> DEFINE b == call[k]
<1>1. CallOK(past, strict, "mint", b) /\ pc[k] = "mint" /\ b.load
  BY Mine DEF LoadMint, At
<1>2. /\ b \in Calling /\ b.caller \in Callers /\ b.since \in Nat \ {0} /\ (b.excused # {} => ~ strict)
      /\ (\A t \in b.reach : Allowed(past, b, t)) /\ Readable(past, b)
      /\ (b.exports = {} => b.target \in b.reach)
  BY <1>1 DEF CallOK, Calling
<1>3. ASSUME NEW a, AnswerOK(past, strict, b.since, b.caller, a), End(k, a), Calm
      PROVE  IInv'
  <2>1. CallOK(past, strict, "done", [Blank EXCEPT !.caller = b.caller, !.target = b.target,
                                                   !.since = b.since, !.answer = a])
    BY <1>1, <1>3, EndOK
  <2>2. QED
    BY <1>3, <2>1, Mine, Frame DEF End, Goto, Set, Calm, governance
<1>4. ASSUME NEW writes \in BOOLEAN,
             End(k, Answer([b EXCEPT !.reach = IF writes /\ b.exports = {} THEN Tables ELSE @], TRUE))
      PROVE  IInv'
  <2> DEFINE X == IF writes /\ b.exports = {} THEN Tables ELSE b.reach
             n == [b EXCEPT !.reach = X]
  <2>1. X \in SUBSET Tables /\ b.reach \subseteq X
    BY <1>2 DEF Calling
  <2>2. b.target \in X => Allowed(past, b, b.target)
    BY <1>2
  <2>3. End(k, Answer(n, TRUE))
    BY <1>4
  <2> HIDE DEF X
  <2>4. /\ n \in Calling /\ n.caller = b.caller /\ n.target = b.target /\ n.load = b.load
        /\ n.since = b.since /\ n.excused = b.excused
        /\ n.routes = b.routes /\ n.exports = b.exports /\ n.reach = X
    BY <1>2, <2>1 DEF Calling
  <2> HIDE DEF n
  <2>5. \A t \in n.reach : ~ n.load \/ t = n.target => Allowed(past, n, t)
    BY <1>1, <2>2, <2>4 DEF Allowed
  <2>6. Readable(past, n)
    BY <1>2, <2>1, <2>4 DEF Readable
  <2>7. AnswerOK(past, strict, b.since, b.caller, Answer(n, TRUE))
    BY <1>2, <2>4, <2>5, <2>6, AnswerKeeps
  <2>8. QED
    BY <1>3, <2>3, <2>7 DEF LoadMint
<1>5. CASE End(k, Answer(b, FALSE))
  BY <1>2, <1>3, <1>5, AnswerKeeps DEF LoadMint
<1>6. CASE Deny(k)
  BY <1>1, <1>6, DenyKeeps DEF LoadMint
<1>7. QED
  BY <1>4, <1>5, <1>6 DEF LoadMint

----------------------------------------------------------------------------
\* The invariant is inductive.
THEOREM Invariance == Spec => []IInv
<1>1. IInv /\ [Next]_vars => IInv'
  <2>1. ASSUME IInv, NEW k \in Calls, Vending(k) PROVE IInv'
    <3>1. CASE ProvisionFails(k)
      BY <2>1, <3>1, DenyKeeps DEF ProvisionFails, At
    <3>2. CASE DenyFails(k)
      BY <2>1, <3>2, DenyKeeps DEF DenyFails
    <3>3. QED
      BY <2>1, <3>1, <3>2, LoadKeeps, PlanLoadKeeps, LoadMintKeeps, RequestKeeps, HitKeeps,
         MissKeeps, ReadRolesKeeps, PlanTableKeeps, CandidatesKeeps, PlanNextKeeps,
         PlanningFailsKeeps, GateKeeps, ScopeKeeps, DenyCandidatesKeeps, DenyNextKeeps, MintKeeps,
         GatewayMintKeeps
         DEF Vending
  <2>2. ASSUME IInv, UNCHANGED vars PROVE IInv'
    BY <2>2 DEF IInv, vars, governance, vend
  <2>3. QED
    BY <2>1, <2>2, ChangeKeeps DEF Next, Done
<1>2. QED
  BY <1>1, Initially, PTL DEF Spec

\* The state has its shape; an answer comes only at the end of a vend.
THEOREM TypeCorrect == Spec => []TypeOK
<1>1. IInv => TypeOK
  <2> SUFFICES ASSUME IInv PROVE TypeOK
    OBVIOUS
  <2>1. ASSUME NEW k \in Calls
        PROVE  /\ call[k].todo \subseteq Namespace /\ call[k].since \in 1..Version
               /\ call[k].answer # None => At(k, "done") /\ call[k].answer \in Answers
    <3>1. CallOK(past, strict, pc[k], call[k]) /\ Version = Len(past) /\ Len(past) \in Nat
      BY Mine
    <3>2. QED
      BY <3>1 DEF CallOK, Calling, At
  <2>2. ASSUME NEW x \in Callers \X Targets
        PROVE  cache[x] # None => cache[x].answer \in Answers /\ cache[x].stamp \in 1..Version
    <3>1. PICK c \in Callers, y \in Targets : x = <<c, y>>
      OBVIOUS
    <3>2. EntryOK(past, strict, c, cache[x])
      BY <3>1 DEF IInv
    <3>3. QED
      BY <3>2 DEF EntryOK, IInv, Version
  <2>3. QED
    BY <2>1, <2>2 DEF TypeOK, IInv, Version
<1>2. QED
  BY <1>1, Invariance, PTL

\* No credential reads the bytes of a table that the rules have withheld from
\* its caller ever since it was asked for, unless the planning failed and the
\* mode is not strict: for all rules and changes of them, and for answers from
\* the cache.
THEOREM BaseHidden == Spec => []BaseStaysHidden
<1>1. IInv => BaseStaysHidden
  <2> SUFFICES ASSUME IInv, NEW k \in Calls, NEW t \in Shown(k)
               PROVE  WasOpen(k, t) \/ (~ strict /\ t \in call[k].answer.excused)
    BY DEF BaseStaysHidden
  <2>1. call[k].answer # None /\ t \in call[k].answer.base \ call[k].answer.beyond
    BY DEF Shown
  <2>2. AnswerOK(past, strict, call[k].since, call[k].caller, call[k].answer)
    BY <2>1, Mine DEF CallOK
  <2>3. QED
    BY <2>1, <2>2 DEF AnswerOK, Open, WasOpen, Version
<1>2. QED
  BY <1>1, Invariance, PTL

\* What a session is routed to it can read, if the rules did not change while
\* it was vended.
THEOREM RoutesReadable == Spec => []RoutesAreReadable
<1>1. IInv => RoutesAreReadable
  <2> SUFFICES ASSUME IInv, NEW k \in Calls, call[k].answer # None
               PROVE  LET a == call[k].answer IN
                      a.given /\ a.steady =>
                          \A r \in a.routes : r.table \in IF r.export THEN a.exports ELSE a.base
    BY DEF RoutesAreReadable
  <2>1. AnswerOK(past, strict, call[k].since, call[k].caller, call[k].answer)
    BY Mine DEF CallOK
  <2>2. QED
    BY <2>1 DEF AnswerOK
<1>2. QED
  BY <1>1, Invariance, PTL
=============================================================================
