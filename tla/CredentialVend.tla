--------------------------- MODULE CredentialVend ---------------------------
(***************************************************************************)
(* ducklake-credentials (server.py): what a DuckLake-direct session is     *)
(* given to read with, while governance changes.  A vend resolves roles,   *)
(* plans one table or, one after the other, every governed table of a      *)
(* namespace, and scopes an S3 credential, in steps that each read         *)
(* governance anew.  (The Postgres role of the session: ReaderRoles.)      *)
(* Beside it, what LoadTable gives an Iceberg client to read the table     *)
(* with (_build_load_response; its metadata: Materialize).                 *)
(*                                                                         *)
(* The rules are abstracted to the tier at which each table is masked: at  *)
(* the view tier the client's view masks, at the file tier the bytes of    *)
(* the table are withheld and an export is read instead.                   *)
(***************************************************************************)
EXTENDS Naturals, Sequences

CONSTANTS
    None,
    Calls,        \* vends
    Tables,
    Namespace,    \* the tables of the namespace that is vended
    Asked,        \* of these, the ones that are asked for by name
    Whole,        \* target of a vend for the whole namespace
    Callers,      \* [sub, agent, roles]: sessions, with the roles of the token
    Bypass,       \* the role every mask lets pass
    Agent,        \* tag of a session that runs arbitrary SQL (actor:agent)
    Regimes,      \* rules a catalog may have: [tier, granted]
    MaxChanges    \* bound on changes of the rules

Tiers == {"none", "view", "file"}

ASSUME CredentialVendAssumption ==
    /\ Asked \subseteq Namespace /\ Namespace \subseteq Tables /\ Whole \notin Tables
    /\ Agent # Bypass /\ (\A c \in Callers : c.agent \in BOOLEAN)
    /\ \A r \in Regimes : r.tier \in [Tables -> Tiers]
    /\ MaxChanges \in Nat

VARIABLES
    past,       \* the rules so far; the last ones are in force
    stamped,    \* tables with the property duckicelake.file-layer-masking
    strict,     \* governance_fail_closed
    pc, call,   \* the vends
    cache       \* _CRED_CACHE of the process

governance == <<past, stamped>>
vend == <<pc, call>>
vars == <<governance, strict, vend, cache>>

Version == Len(past)
Rules == past[Version]

\* build_plan, for the roles of a session; masks are at the file tier by force
\* for an agent.
Tier(r, roles, t) ==
    CASE r.tier[t] = "none" \/ Bypass \in roles -> "none"
      [] r.tier[t] # "none" /\ Bypass \notin roles /\ Agent \in roles -> "file"
      [] OTHER -> r.tier[t]

\* The roles a session has when nothing fails: those of the token, those that
\* are granted, and its tag.  A role may have any name, also that of the tag.
RolesOf(r, c) == c.roles \cup r.granted[c.sub] \cup (IF c.agent THEN {Agent} ELSE {})

Governed(r) == { t \in Tables : r.tier[t] # "none" }

Blank == [caller |-> None, target |-> None, load |-> FALSE, since |-> 1, roles |-> {},
          todo |-> {}, exports |-> {}, routes |-> {}, required |-> FALSE, erred |-> FALSE,
          excused |-> {}, reach |-> {}, answer |-> None]

Targets == Asked \cup {Whole}

Init ==
    /\ past \in { <<r>> : r \in Regimes }
    /\ stamped = {}
    /\ strict \in BOOLEAN
    /\ pc = [k \in Calls |-> "idle"]
    /\ call = [k \in Calls |-> Blank]
    /\ cache = [x \in Callers \X Targets |-> None]

At(k, l) == pc[k] = l
Goto(k, l) == pc' = [pc EXCEPT ![k] = l]
Set(k, b) == call' = [call EXCEPT ![k] = b]

End(k, a) ==
    /\ Goto(k, "done")
    /\ Set(k, [Blank EXCEPT !.caller = call[k].caller, !.target = call[k].target,
                            !.since = call[k].since, !.answer = a])

\* 403, 404 or 503.
Deny(k) == End(k, None)

Calm == UNCHANGED <<governance, strict, cache>>

\* Any authoring.  It clears the property of the tables it concerns, one by one
\* and where it can.
Change ==
    /\ Version <= MaxChanges
    /\ \E r \in Regimes : past' = Append(past, r)
    /\ stamped' \in SUBSET stamped
    /\ UNCHANGED <<strict, vend, cache>>

----------------------------------------------------------------------------
(***************************************************************************)
(* The request.                                                            *)
(***************************************************************************)

\* The version is read before anything else.  (When it cannot be, the cache is
\* not used.)
Request(k) ==
    /\ At(k, "idle")
    /\ \E c \in Callers, x \in Targets :
          Set(k, [Blank EXCEPT !.caller = c, !.target = x, !.since = Version])
    /\ Goto(k, "cache")
    /\ Calm

\* LoadTable: no cache.  (Creating and committing answer without governance.)
Load(k) ==
    /\ At(k, "idle")
    /\ \E c \in Callers, x \in Asked :
          Set(k, [Blank EXCEPT !.caller = c, !.target = x, !.load = TRUE, !.since = Version])
    /\ Goto(k, "roles")
    /\ Calm

Entry(k) == cache[<<call[k].caller, call[k].target>>]

\* An answer of this version, within its time to live.
Hit(k) ==
    /\ At(k, "cache")
    /\ Entry(k) # None /\ Entry(k).stamp = call[k].since
    /\ End(k, Entry(k).answer)
    /\ Calm

\* Also when the answer is too old, or in another process.  Row security and
\* the reader's role come first.
Miss(k) ==
    /\ At(k, "cache")
    /\ Goto(k, "roles") /\ UNCHANGED call
    /\ Calm

\* 503, when row security or the role fails.
ProvisionFails(k) ==
    /\ At(k, "roles") /\ ~ call[k].load
    /\ Deny(k)
    /\ Calm

----------------------------------------------------------------------------
(***************************************************************************)
(* Planning.                                                               *)
(***************************************************************************)

ReadRoles(k) ==
    /\ At(k, "roles")
    /\ Set(k, [call[k] EXCEPT !.roles = RolesOf(Rules, call[k].caller)])
    /\ Goto(k, IF call[k].target = Whole THEN "candidates" ELSE "plan")
    /\ Calm

\* ensure_export_for_plan, or the current_export of an earlier vend: only the
\* file tier asks for one, and it may fail.
Export(tier) == IF tier = "file" THEN BOOLEAN ELSE {FALSE}

\* ensure_view_for_plan and ensure_transparent_schema: made (anew when the one
\* that is there reads another export), or not, when masking is disabled for
\* the table or the catalog fails.
View == BOOLEAN

\* _ensure_file_layer_properties, best effort, of a plan that is not forced.
MayStamp(t, routed) ==
    {stamped} \cup IF routed /\ Rules.tier[t] = "file" THEN {stamped \cup {t}} ELSE {}

\* A table at the file tier needs its export, fresh or left by an earlier
\* vend; then the view is made, over the export if there is one.  Without a
\* view, or with one and the property stamped (if the plan is not forced).
PlanTable(k) ==
    /\ At(k, "plan") /\ ~ call[k].load
    /\ LET t == call[k].target
           tier == Tier(Rules, call[k].roles, t)
       IN  \/ tier = "none" /\ UNCHANGED <<call, stamped>>
           \/ \E e \in Export(tier), v \in View :
                 /\ tier # "none"
                 /\ Set(k, [call[k] EXCEPT !.exports = IF e THEN {t} ELSE {}, !.required = tier = "file",
                              !.routes = IF v THEN {[table |-> t, export |-> e]} ELSE {},
                              !.erred = ~ v])
                 /\ stamped' \in MayStamp(t, v /\ e)
    /\ Goto(k, "gate")
    /\ UNCHANGED <<past, strict, cache>>

\* LoadTable needs the export and its shadow metadata, and of an old snapshot
\* there is none.  The shadow is the route of an Iceberg client, the view that
\* of the others; with neither only the signals are left.  When what follows
\* raises (the audit), the export is given up and the tier is not.
PlanLoad(k) ==
    /\ At(k, "plan") /\ call[k].load
    /\ LET t == call[k].target
           tier == Tier(Rules, call[k].roles, t)
           b == [call[k] EXCEPT !.required = tier = "file"]
       IN  \/ tier = "none" /\ UNCHANGED <<call, stamped>>
           \/ \E e \in Export(tier), v \in View :
                 /\ tier # "none"
                 /\ \/ Set(k, [b EXCEPT !.exports = IF e THEN {t} ELSE {},
                              !.routes = IF e \/ v THEN {[table |-> t, export |-> e]} ELSE {},
                              !.erred = ~ e /\ ~ v])
                    \/ tier = "file" /\ Set(k, [b EXCEPT !.erred = TRUE])
                 /\ stamped' \in MayStamp(t, e)
    /\ Goto(k, "gate")
    /\ UNCHANGED <<past, strict, cache>>

\* Mistaken: of the whole catalog.
CandidatesOfAll(k) ==
    /\ At(k, "candidates")
    /\ Set(k, [call[k] EXCEPT !.todo = Governed(Rules)])
    /\ Goto(k, "next")
    /\ Calm

\* tables_with_policies
Candidates(k) ==
    /\ At(k, "candidates")
    /\ Set(k, [call[k] EXCEPT !.todo = Governed(Rules) \cap Namespace])
    /\ Goto(k, "next")
    /\ Calm

\* A table of the namespace: without its export it is left alone, without its
\* view it has no route.
PlanNext(k) ==
    /\ At(k, "next")
    /\ \E t \in call[k].todo :
          LET tier == Tier(Rules, call[k].roles, t)
              b == [call[k] EXCEPT !.todo = @ \ {t}]
          IN  \/ tier = "none" /\ Set(k, b)
              \/ \E e \in Export(tier) : tier = "file" /\ ~ e /\ Set(k, b)
              \/ \E e \in Export(tier), v \in View :
                    /\ tier = "view" \/ e
                    /\ Set(k, [b EXCEPT
                          !.exports = IF e THEN @ \cup {t} ELSE @,
                          !.routes = IF v THEN @ \cup {[table |-> t, export |-> e]} ELSE @])
    /\ UNCHANGED pc
    /\ Calm

\* What a failure of the planning leaves undecided (for the properties): a
\* table that does not carry the property; and whether an agent is one, when
\* its roles were not read.
Unsure(k) ==
    IF call[k].target # Whole THEN {call[k].target} \ stamped
    ELSE IF At(k, "roles") /\ call[k].caller.agent THEN Namespace
    ELSE {}

\* Whatever raises: the routes are forgotten, and a table that carries the
\* property, or cannot be asked, is held to the file tier.
PlanningFails(k) ==
    /\ pc[k] \in {"roles", "candidates", "next", "plan"}
    /\ LET b == call[k] IN
       \E assumed \in BOOLEAN :
          Set(k, [b EXCEPT !.todo = {}, !.routes = {}, !.erred = TRUE, !.excused = Unsure(k),
                    !.required = b.target # Whole /\ (b.target \in stamped \/ assumed),
                    !.roles = IF At(k, "roles") THEN b.caller.roles ELSE @])
    /\ Goto(k, "gate")
    /\ Calm

----------------------------------------------------------------------------
(***************************************************************************)
(* Scoping.                                                                *)
(***************************************************************************)

Refused(b) == (b.required /\ b.exports = {}) \/ (strict /\ b.erred)

\* A table is read through its export alone, or as it is.
Gate(k) ==
    /\ At(k, "gate") \/ (At(k, "next") /\ call[k].todo = {})
    /\ LET b == call[k] IN
       \/ Refused(b) /\ Deny(k)
       \/ /\ ~ Refused(b) /\ b.target # Whole
          /\ Set(k, [b EXCEPT !.reach = IF b.exports = {} THEN {b.target} ELSE {}])
          /\ Goto(k, "mint")
       \/ ~ Refused(b) /\ b.target = Whole /\ Goto(k, "scope") /\ UNCHANGED call
    /\ Calm

\* has_file_layer_policies, of the catalog
HasFileLayer == \E t \in Tables : Rules.tier[t] = "file"

\* The catalog, if the session is no agent's, whatever its roles are called, and
\* nothing in the catalog is withheld from anybody; or the namespace, less what
\* is withheld from this session.  (A policy that is attached to no table
\* counts too.)
Scope(k) ==
    /\ At(k, "scope")
    /\ \/ /\ ~ call[k].caller.agent /\ ~ HasFileLayer
          /\ Set(k, [call[k] EXCEPT !.reach = Tables, !.exports = Tables]) /\ Goto(k, "mint")
       \/ Set(k, [call[k] EXCEPT !.reach = Namespace]) /\ Goto(k, "deny")
    /\ Calm

DenyCandidates(k) ==
    /\ At(k, "deny")
    /\ Set(k, [call[k] EXCEPT !.todo = Governed(Rules) \cap Namespace])
    /\ Goto(k, "carve")
    /\ Calm

\* Mistaken: every governed table is carved out.
DenyEvery(k) ==
    /\ At(k, "carve")
    /\ \E t \in call[k].todo :
          Set(k, [call[k] EXCEPT !.todo = @ \ {t}, !.reach = @ \ {t}])
    /\ UNCHANGED pc
    /\ Calm

\* _file_layer_deny_prefixes plans every candidate anew, with the roles of
\* the first plan.
DenyNext(k) ==
    /\ At(k, "carve")
    /\ \E t \in call[k].todo :
          Set(k, [call[k] EXCEPT !.todo = @ \ {t},
                    !.reach = IF Tier(Rules, call[k].roles, t) = "file" THEN @ \ {t} ELSE @])
    /\ UNCHANGED pc
    /\ Calm

\* 503, rather than a grant that is not fully scoped.
DenyFails(k) ==
    /\ pc[k] \in {"scope", "deny", "carve"}
    /\ Deny(k)
    /\ Calm

----------------------------------------------------------------------------
(***************************************************************************)
(* The credential.                                                         *)
(***************************************************************************)

\* What a credential reads: what is under its prefixes and not carved out, or
\* all that a writer's covers.
Answer(b, given) ==
    [base    |-> IF given THEN b.reach ELSE {},
     exports |-> IF given THEN b.exports ELSE {},
     routes  |-> b.routes,
     given   |-> given,
     excused |-> IF given THEN b.excused ELSE {},
     beyond  |-> IF given /\ b.load THEN b.reach \ {b.target} ELSE {},
     steady  |-> b.since = Version]

\* vend_credentials gives a credential, or none: a policy too long with what
\* it has to deny is not shortened, and STS may fail.
Given == BOOLEAN

Scoped(k) ==
    /\ ~ call[k].load
    /\ At(k, "mint") \/ (At(k, "carve") /\ call[k].todo = {})

\* Mistaken: the answer is cached under the version of its end.
MintLate(k) ==
    /\ Scoped(k)
    /\ \E given \in Given :
          LET b == call[k]  a == Answer(b, given) IN
          /\ End(k, a)
          /\ cache' = [cache EXCEPT ![<<b.caller, b.target>>] = [stamp |-> Version, answer |-> a]]
    /\ UNCHANGED <<governance, strict>>

\* The answer is kept under the version that was read first.
Mint(k) ==
    /\ Scoped(k)
    /\ \E given \in Given :
          LET b == call[k]  a == Answer(b, given) IN
          /\ End(k, a)
          /\ cache' = [cache EXCEPT ![<<b.caller, b.target>>] = [stamp |-> b.since, answer |-> a]]
    /\ UNCHANGED <<governance, strict>>

\* mint_credentials, where the proxy's gateway stands in for STS: the same
\* scope, packed into the credential; without a secret it answers 500.
GatewayMint(k) ==
    /\ Scoped(k)
    /\ \/ LET b == call[k]  a == Answer(b, TRUE) IN
          /\ End(k, a)
          /\ cache' = [cache EXCEPT ![<<b.caller, b.target>>] = [stamp |-> b.since, answer |-> a]]
       \/ Deny(k) /\ UNCHANGED cache
    /\ UNCHANGED <<governance, strict>>

\* What LoadTable gives: the export to read; or, because it cannot tell readers
\* from writers, the whole data prefix to write (sts.py: a writer's files have
\* no names yet); from the gateway, the prefix of the table; or nothing, when
\* nothing is asked for or each request is to be signed.  A failure is a 500.
LoadMint(k) ==
    /\ At(k, "mint") /\ call[k].load
    /\ LET b == call[k] IN
       \/ \E writes \in BOOLEAN :
             End(k, Answer([b EXCEPT !.reach = IF writes /\ b.exports = {} THEN Tables ELSE @], TRUE))
       \/ End(k, Answer(b, FALSE))
       \/ Deny(k)
    /\ Calm

----------------------------------------------------------------------------
Vending(k) ==
    \/ Load(k) \/ PlanLoad(k) \/ LoadMint(k)
    \/ Request(k) \/ Hit(k) \/ Miss(k) \/ ProvisionFails(k)
    \/ ReadRoles(k) \/ PlanTable(k) \/ Candidates(k) \/ PlanNext(k)
    \/ PlanningFails(k) \/ Gate(k) \/ Scope(k)
    \/ DenyCandidates(k) \/ DenyNext(k) \/ DenyFails(k) \/ Mint(k) \/ GatewayMint(k)

Done == (\A k \in Calls : At(k, "done")) /\ UNCHANGED vars

Next ==
    \/ Change
    \/ \E k \in Calls : Vending(k)
    \/ Done

Spec == Init /\ [][Next]_vars

----------------------------------------------------------------------------
(***************************************************************************)
(* Properties.                                                             *)
(***************************************************************************)

Answers == [base : SUBSET Tables, exports : SUBSET Tables,
            routes : SUBSET [table : Tables, export : BOOLEAN],
            excused : SUBSET Tables, beyond : SUBSET Tables,
            given : BOOLEAN, steady : BOOLEAN]

\* The shape of the state.
TypeOK ==
    /\ past \in Seq(Regimes) /\ Version \in 1..MaxChanges + 1
    /\ stamped \subseteq Namespace
    /\ \A k \in Calls :
          /\ call[k].todo \subseteq Namespace /\ call[k].since \in 1..Version
          /\ call[k].answer # None => At(k, "done") /\ call[k].answer \in Answers
    /\ \A x \in Callers \X Targets :
          cache[x] # None => cache[x].answer \in Answers /\ cache[x].stamp \in 1..Version

\* The bytes an answer lets one read, of what it was asked for.
Shown(k) ==
    IF call[k].answer = None THEN {} ELSE call[k].answer.base \ call[k].answer.beyond

\* The roles a session is to be judged by: a role of the tag's name makes nobody
\* an agent.
Meant(r, c) ==
    ((c.roles \cup r.granted[c.sub]) \ {Agent}) \cup (IF c.agent THEN {Agent} ELSE {})

\* The rules have let the caller read the bytes of t at some moment since the
\* request: they withhold what is masked at the file tier, and from an agent
\* what is masked at all.
WasOpen(k, t) ==
    \E v \in call[k].since..Version :
        Tier(past[v], Meant(past[v], call[k].caller), t) # "file"

\* A credential reads the bytes of a table only if the rules were such, at
\* some moment since it was asked for, that the caller could have them:
\* whatever the vend read before and after a change, whichever exports and
\* views were made, and also when the answer comes from the cache.  When the
\* planning fails this holds in strict mode, and otherwise of every table
\* that carries the property (server.py:1626-1668, 1669-1710, 2806-2890).  What
\* LoadTable gives for one table reads the others too, when it is to write.
\* Somebody who is no agent but has a role named like the tag is judged as no
\* agent: the planning takes them for one (policies.py:228), the choice of the
\* scope goes by the session (server.py:253) and may give them the catalog.
BaseStaysHidden ==
    \A k \in Calls : \A t \in Shown(k) :
        WasOpen(k, t) \/ (~ strict /\ t \in call[k].answer.excused)

\* What a session is routed to it can read with its credential, if the rules
\* did not change meanwhile: the planning, which routes, and the carve-outs,
\* which withhold, plan the same tables apart (server.py:1600-1640,
\* 1691-1710).
RoutesAreReadable ==
    \A k \in Calls : call[k].answer # None =>
        LET a == call[k].answer IN
        a.given /\ a.steady =>
            \A r \in a.routes : r.table \in IF r.export THEN a.exports ELSE a.base
=============================================================================
