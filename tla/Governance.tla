----------------------------- MODULE Governance -----------------------------
(***************************************************************************)
(* The governance store and the DDL that carries it along: the authoring   *)
(* calls of governance_api.py on governance.GovernanceStore, the table and *)
(* namespace calls of server.py, and reads that derive a plan.             *)
(*                                                                         *)
(* The store's cursors autocommit: every statement is a transaction of its *)
(* own, and an action here.  Only a schema change runs inside the commit   *)
(* of commit_table, while its ALTER TABLE is a transaction of DuckDB's.    *)
(***************************************************************************)
EXTENDS Policies

CONSTANTS
    Calls,       \* requests, each made once
    Ids,         \* table objects (table_id), each created once
    First,       \* the table there is, with its column
    Seeds,       \* what admins may have authored
    MaxFaults    \* bound: crashes, aborted commits, best-effort steps that fail

ASSUME GovernanceAssumption ==
    /\ None \notin Ids \cup Calls
    /\ First \in Tables \X Columns /\ Seeds \subseteq Model
    /\ MaxFaults \in Nat

VARIABLES
    gov,         \* the sidecar tables
    version,     \* duckicelake_governance_version
    audit,       \* calls that have written their audit row
    namespaces,  \* ducklake_schema
    live,        \* ducklake_table: the object of each name, or None
    cols,        \* ducklake_column: the columns of each object
    artifacts,   \* masking views and masked exports: <<kind, signature>>
    stamped,     \* tables with duckicelake.file-layer-masking
    pc,          \* where each call is
    call,        \* what each call was asked, and has read
    faults,      \* faults so far
    owed,        \* history: the policies each object is to be under
    overlap,     \* history: have calls overlapped, have two of DDL?
    ahead        \* history: has a row been there before what it is about?

store == <<gov, version>>
catalog == <<namespaces, live, cols>>
derived == <<artifacts, stamped>>
system == <<store, audit, catalog, derived, pc, call, faults>>
vars == <<system, owed, overlap, ahead>>

Ended == {"ok", "exists", "missing", "conflict", "failed", "broken", "crashed"}

\* get_columns of every name: {} of one that is not live.
ColumnsOf(l, cs) == [t \in Tables |-> IF l[t] = None THEN {} ELSE cs[l[t]]]
Cols == ColumnsOf(live, cols)
Unused == { i \in Ids : cols[i] = {} }

\* The policies that object i is under.
Under(g, l, cs, i) ==
    UNION { FiltersOn(g, t) \cup UNION { MasksOn(g, t, c) : c \in cs[i] }
            : t \in { x \in Tables : l[x] = i } }

\* Does a row, of objectTag or attachment, name what does not exist?
Stray(r, cs) ==
    /\ r.schema # None
    /\ IF r.table = None THEN \A t \in Tables : t[1] = r.schema => cs[t] = {}
       ELSE IF r.column = None THEN cs[<<r.schema, r.table>>] = {}
       ELSE r.column \notin cs[<<r.schema, r.table>>]

Rows(g) == g.objectTag \cup g.attachment

\* Column c of t has one mask, or several that come with one tag.
OneSource(g, t, c) ==
    \/ \A a, b \in Masking(g, t, c) : a.policy = b.policy
    \/ \E tag \in Tags : \A a \in Masking(g, t, c) : a.target = "tag" /\ a.tag = tag

\* What was authored was looked at as it was.
ASSUME SeedsAreAuthored == \A g \in Seeds : OneSource(g, First[1], First[2])

\* A request, with what it was given and what it has read.
Blank == [op |-> "author", what |-> None, row |-> None, affected |-> {}, policies |-> {},
          todo |-> {}, at |-> None, to |-> None, object |-> None,
          change |-> <<>>, agent |-> FALSE, stamp |-> 0, roles |-> {}, columns |-> {},
          model |-> Empty, plan |-> None]

Init ==
    /\ gov \in Seeds
    /\ version = 1 /\ audit = {}
    /\ namespaces = Schemas
    /\ \E i \in Ids :
        /\ live = [t \in Tables |-> IF t = First[1] THEN i ELSE None]
        /\ cols = [x \in Ids |-> IF x = i THEN {First[2]} ELSE {}]
    /\ artifacts = {} /\ stamped = {}
    /\ pc = [k \in Calls |-> "idle"]
    /\ call = [k \in Calls |-> Blank]
    /\ faults = 0
    /\ owed = [i \in Ids |-> Under(gov, live, cols, i)]
    /\ overlap = {}
    /\ ahead = \E r \in Rows(gov) : Stray(r, Cols)

At(k, l) == pc[k] = l
Goto(k, l) == pc' = [pc EXCEPT ![k] = l]
Keep(k, b) == call' = [call EXCEPT ![k] = b]
Ask(k, b, l) == At(k, "idle") /\ Keep(k, b) /\ Goto(k, l)

\* Mistaken: no trigger on duckicelake_role_grant.
StatementUncounted(g) ==
    gov' = g /\ version' = IF gov.roleGrant = g.roleGrant THEN version + 1 ELSE version

\* A statement on a governed table: the trigger counts it, whatever it did.
Statement(g) == gov' = g /\ version' = version + 1

----------------------------------------------------------------------------
(***************************************************************************)
(* Authoring in one statement, and its audit row.                          *)
(***************************************************************************)

Author(k, g, l) ==
    /\ At(k, "idle")
    /\ Statement(g)
    /\ Goto(k, l)
    /\ UNCHANGED <<audit, catalog, derived, call, faults>>

CreateTag(k) ==
    \E t \in Tags : Author(k, [gov EXCEPT !.tag = @ \cup {t}], "audit")

CreateMaskingPolicy(k) ==
    \E p \in MaskPolicies, b \in MaskBody :
        Author(k, [gov EXCEPT !.masking[p] = b], "audit")

CreateRowAccessPolicy(k) ==
    \E p \in RowPolicies, b \in RowBody :
        Author(k, [gov EXCEPT !.rowAccess[p] = b], "audit")

CreateRole(k) ==
    \E r \in Roles : Author(k, [gov EXCEPT !.role = @ \cup {r}], "audit")

GrantRole(k) ==
    \E x \in Roles \X Principals :
        Author(k, [gov EXCEPT !.roleGrant = @ \cup {x}], "audit")

GrantObject(k) ==
    \E x \in ObjectGrant :
        Author(k, [gov EXCEPT !.objectGrant = @ \cup {x}], "audit")

RevokeRole(k) ==
    \E x \in Roles \X Principals :
        Author(k, [gov EXCEPT !.roleGrant = @ \ {x}],
               IF x \in gov.roleGrant THEN "audit" ELSE "ok")

RevokeObjectGrant(k) ==
    \E x \in ObjectGrant :
        Author(k, [gov EXCEPT !.objectGrant = @ \ {x}],
               IF x \in gov.objectGrant THEN "audit" ELSE "ok")

SetStaticKey(k) ==
    \E p \in Principals, key \in {"shared", "confined"} :
        Author(k, [gov EXCEPT !.staticKey[p] = key], "ok")

DeleteStaticKey(k) ==
    \E p \in Principals :
        Author(k, [gov EXCEPT !.staticKey[p] = "none"],
               IF gov.staticKey[p] = "none" THEN "missing" ELSE "ok")

Audit(k) ==
    /\ At(k, "audit")
    /\ audit' = audit \cup {k}
    /\ Goto(k, "resync")
    /\ UNCHANGED <<store, catalog, derived, call, faults>>

----------------------------------------------------------------------------
(***************************************************************************)
(* Authoring that looks first.  Nothing is held between the look and the   *)
(* statement.                                                              *)
(***************************************************************************)

\* attach_policy.  A second mask is looked for, a second filter is not.
AttachPolicy(k) ==
    /\ \E a \in Attachment :
        Ask(k, [Blank EXCEPT !.row = a, !.policies = {a.policy},
                             !.affected = IF a.target = "column"
                                          THEN {<<<<a.schema, a.table>>, a.column>>} ELSE {}],
            IF a.policy \in RowPolicies THEN "insert"
            ELSE IF a.target = "tag" THEN "expand" ELSE "check")
    /\ UNCHANGED <<store, audit, catalog, derived, faults>>

\* assign_object_tag: the masks that ride the tag.
AssignObjectTag(k) ==
    /\ \E r \in TagRow :
        LET masks == MasksOnTag(gov, r.tag)
        IN  Ask(k, [Blank EXCEPT !.row = r, !.policies = masks],
                IF masks = {} THEN "insert" ELSE "expand")
    /\ UNCHANGED <<store, audit, catalog, derived, faults>>

\* Mistaken: the check looks at the column's own row only.
ExpandOwn(k) ==
    /\ At(k, "expand")
    /\ LET row == call[k].row
       IN  Keep(k, [call[k] EXCEPT !.affected = Reached({row} \cap { r \in TagRow : r.on = "column" }, Cols)])
    /\ Goto(k, "check")
    /\ UNCHANGED <<store, audit, catalog, derived, faults>>

\* The columns the new row is to reach.
Expand(k) ==
    /\ At(k, "expand")
    /\ LET row == call[k].row
           rows == IF row \in TagRow THEN {row} ELSE { r \in gov.objectTag : r.tag = row.tag }
       IN  Keep(k, [call[k] EXCEPT !.affected = Reached(rows, Cols)])
    /\ Goto(k, "check")
    /\ UNCHANGED <<store, audit, catalog, derived, faults>>

\* _assert_columns_unmasked, table by table: no mask but the new one.
HasAnother(t, cs, policies) ==
    \E c \in cs \cap Cols[t], p \in policies : MasksOn(gov, t, c) \ {p} # {}

Check(k) ==
    /\ At(k, "check")
    /\ LET affected == call[k].affected
       IN  IF affected = {}
           THEN Goto(k, "insert") /\ UNCHANGED call
           ELSE \E t \in { x[1] : x \in affected } :
                    LET cs == { x[2] : x \in { y \in affected : y[1] = t } }
                    IN  /\ Goto(k, IF HasAnother(t, cs, call[k].policies)
                                   THEN "conflict" ELSE "check")
                        /\ Keep(k, [call[k] EXCEPT !.affected = { x \in @ : x[1] # t }])
    /\ UNCHANGED <<store, audit, catalog, derived, faults>>

Insert(k) ==
    /\ At(k, "insert")
    /\ LET row == call[k].row
       IN  Statement(IF row \in TagRow THEN [gov EXCEPT !.objectTag = @ \cup {row}]
                                       ELSE [gov EXCEPT !.attachment = @ \cup {row}])
    /\ Goto(k, "audit")
    /\ UNCHANGED <<audit, catalog, derived, call, faults>>

\* detach_policy and remove_object_tag find the tables to resync first.
Detach(k) ==
    /\ \E a \in Attachment :
        LET reached == Reached({ r \in gov.objectTag : r.tag = a.tag }, Cols)
            tables == IF a.target = "tag" THEN { x[1] : x \in reached }
                                          ELSE {<<a.schema, a.table>>}
        IN  Ask(k, [Blank EXCEPT !.row = a, !.todo = tables], "remove")
    /\ UNCHANGED <<store, audit, catalog, derived, faults>>

RemoveObjectTag(k) ==
    /\ \E r \in TagRow :
        Ask(k, [Blank EXCEPT !.row = r, !.todo = { x[1] : x \in Reached({r}, Cols) }], "remove")
    /\ UNCHANGED <<store, audit, catalog, derived, faults>>

Remove(k) ==
    /\ At(k, "remove")
    /\ LET row == call[k].row
       IN  /\ Statement([gov EXCEPT !.objectTag = @ \ {row}, !.attachment = @ \ {row}])
           /\ Goto(k, IF row \in Rows(gov) THEN "audit" ELSE "ok")
    /\ UNCHANGED <<audit, catalog, derived, call, faults>>

\* Deletes count what refers to the object, and refuse.
TagUses(t) == { r \in gov.objectTag : r.tag = t }
Attachments(w) == { a \in gov.attachment : a.policy = w \/ a.tag = w }
RoleGrants(r) == { x \in gov.roleGrant : x[1] = r }
ObjectGrants(r) == { x \in gov.objectGrant : x.role = r }

Delete(k) ==
    /\ \E w \in MaskPolicies \cup RowPolicies \cup Tags \cup Roles :
        LET uses == IF w \in Tags THEN TagUses(w) ELSE IF w \in Roles THEN RoleGrants(w)
                                                  ELSE Attachments(w)
        IN  Ask(k, [Blank EXCEPT !.what = w],
                IF uses # {} THEN "conflict"
                ELSE IF w \in Tags \cup Roles THEN "count" ELSE "delete")
    /\ UNCHANGED <<store, audit, catalog, derived, faults>>

Count(k) ==
    /\ At(k, "count")
    /\ LET w == call[k].what
           uses == IF w \in Tags THEN Attachments(w) ELSE ObjectGrants(w)
       IN  Goto(k, IF uses # {} THEN "conflict" ELSE "delete")
    /\ UNCHANGED <<store, audit, catalog, derived, call, faults>>

DeleteRow(k) ==
    /\ At(k, "delete")
    /\ LET w == call[k].what
           there == CASE w \in MaskPolicies -> gov.masking[w] # None
                      [] w \in RowPolicies -> gov.rowAccess[w] # None
                      [] w \in Tags -> w \in gov.tag
                      [] w \in Roles -> w \in gov.role
       IN  /\ Statement([gov EXCEPT
                !.masking = [p \in MaskPolicies |-> IF p = w THEN None ELSE @[p]],
                !.rowAccess = [p \in RowPolicies |-> IF p = w THEN None ELSE @[p]],
                !.tag = @ \ {w}, !.role = @ \ {w}])
           /\ Goto(k, IF there THEN "audit" ELSE "missing")
    /\ UNCHANGED <<audit, catalog, derived, call, faults>>

----------------------------------------------------------------------------
(***************************************************************************)
(* _resync_table_governance, of each table in todo: three steps, each of   *)
(* which may fail and is then logged.                                      *)
(***************************************************************************)

Clear(kind, t) == artifacts' = { a \in artifacts : a[1] # kind \/ a[2].table # t }

BestEffort(did) ==
    \/ did /\ UNCHANGED faults
    \/ faults < MaxFaults /\ faults' = faults + 1 /\ UNCHANGED derived

ResyncViews(k) ==
    /\ At(k, "resync")
    /\ \E t \in call[k].todo :
        /\ BestEffort(Clear("view", t) /\ UNCHANGED stamped)
        /\ Keep(k, [call[k] EXCEPT !.at = t, !.todo = @ \ {t}])
    /\ Goto(k, "exports")
    /\ UNCHANGED <<store, audit, catalog>>

ResyncExports(k) ==
    /\ At(k, "exports")
    /\ BestEffort(Clear("export", call[k].at) /\ UNCHANGED stamped)
    /\ Goto(k, "properties")
    /\ UNCHANGED <<store, audit, catalog, call>>

ResyncProperties(k) ==
    /\ At(k, "properties")
    /\ BestEffort(stamped' = stamped \ {call[k].at} /\ UNCHANGED artifacts)
    /\ Goto(k, "resync")
    /\ UNCHANGED <<store, audit, catalog, call>>

Answer(k) ==
    /\ At(k, "resync") /\ call[k].todo = {}
    /\ Goto(k, "ok")
    /\ UNCHANGED <<store, audit, catalog, derived, call, faults>>

----------------------------------------------------------------------------
(***************************************************************************)
(* Namespaces and tables.  What the server checks, DuckDB checks again.    *)
(***************************************************************************)

CreateNamespace(k) ==
    /\ \E s \in Schemas : Ask(k, [Blank EXCEPT !.op = "ddl", !.at = s],
                              IF s \in namespaces THEN "exists" ELSE "create namespace")
    /\ UNCHANGED <<store, audit, catalog, derived, faults>>

DropNamespace(k) ==
    /\ \E s \in Schemas : Ask(k, [Blank EXCEPT !.op = "ddl", !.at = s],
                              IF s \notin namespaces THEN "missing" ELSE "drop namespace")
    /\ UNCHANGED <<store, audit, catalog, derived, faults>>

\* DROP SCHEMA, without CASCADE.
AlterNamespace(k) ==
    /\ LET s == call[k].at
       IN  \/ /\ At(k, "create namespace")
              /\ namespaces' = namespaces \cup {s}
              /\ Goto(k, IF s \in namespaces THEN "failed" ELSE "ok")
           \/ /\ At(k, "drop namespace")
              /\ IF s \in namespaces /\ \A t \in Tables : t[1] = s => live[t] = None
                 THEN namespaces' = namespaces \ {s} /\ Goto(k, "ok")
                 ELSE Goto(k, "failed") /\ UNCHANGED namespaces
    /\ UNCHANGED <<store, audit, live, cols, derived, call, faults>>

CreateTable(k) ==
    /\ \E t \in Tables :
        Ask(k, [Blank EXCEPT !.op = "ddl", !.at = t],
            IF t[1] \notin namespaces THEN "missing"
            ELSE IF live[t] # None THEN "exists" ELSE "create")
    /\ UNCHANGED <<store, audit, catalog, derived, faults>>

Create(k) ==
    /\ At(k, "create")
    /\ LET t == call[k].at
       IN  IF t[1] \notin namespaces \/ live[t] # None
           THEN Goto(k, "failed") /\ UNCHANGED <<live, cols>>
           ELSE \E i \in Unused, c \in Columns :
                    /\ live' = [live EXCEPT ![t] = i]
                    /\ cols' = [cols EXCEPT ![i] = {c}]
                    /\ Goto(k, "ok")
    /\ UNCHANGED <<store, audit, namespaces, derived, call, faults>>

DropTable(k) ==
    /\ \E t \in Tables : Ask(k, [Blank EXCEPT !.op = "ddl", !.at = t, !.todo = {t}],
                             IF live[t] = None THEN "missing" ELSE "drop")
    /\ UNCHANGED <<store, audit, catalog, derived, faults>>

Drop(k) ==
    /\ At(k, "drop")
    /\ LET t == call[k].at
       IN  IF live[t] = None
           THEN Goto(k, "failed") /\ UNCHANGED <<live, call>>
           ELSE /\ live' = [live EXCEPT ![t] = None]
                /\ Keep(k, [call[k] EXCEPT !.object = live[t]])
                /\ Goto(k, "purge tags")
    /\ UNCHANGED <<store, audit, namespaces, cols, derived, faults>>

Named(rows, t) == { r \in rows : r.schema = t[1] /\ r.table = t[2] }

\* purge_table_governance: three statements.
PurgeTags(k) ==
    /\ At(k, "purge tags")
    /\ Statement([gov EXCEPT !.objectTag = @ \ Named(@, call[k].at)])
    /\ Goto(k, "purge attachments")
    /\ UNCHANGED <<audit, catalog, derived, call, faults>>

\* Mistaken: only attachments to the table itself go.
PurgeFilters(k) ==
    /\ At(k, "purge attachments")
    /\ Statement([gov EXCEPT
            !.attachment = @ \ { a \in Named(@, call[k].at) : a.column = None }])
    /\ Goto(k, "purge grants")
    /\ UNCHANGED <<audit, catalog, derived, call, faults>>

PurgeAttachments(k) ==
    /\ At(k, "purge attachments")
    /\ Statement([gov EXCEPT !.attachment = @ \ Named(@, call[k].at)])
    /\ Goto(k, "purge grants")
    /\ UNCHANGED <<audit, catalog, derived, call, faults>>

PurgeGrants(k) ==
    /\ At(k, "purge grants")
    /\ Statement([gov EXCEPT !.objectGrant = @ \ Named(@, call[k].at)])
    /\ Goto(k, "audit")
    /\ UNCHANGED <<audit, catalog, derived, call, faults>>

RenameTable(k) ==
    /\ \E t \in Tables : \E u \in Tables \ {t} :
        Ask(k, [Blank EXCEPT !.op = "ddl", !.at = t, !.to = u, !.todo = {t, u}],
            IF live[t] = None THEN "missing"
            ELSE IF live[u] # None THEN "exists" ELSE "rename")
    /\ UNCHANGED <<store, audit, catalog, derived, faults>>

\* Mistaken: the old name stays.
RenameTwice(k) ==
    /\ At(k, "rename")
    /\ live' = [live EXCEPT ![call[k].to] = live[call[k].at]]
    /\ Keep(k, [call[k] EXCEPT !.object = live[call[k].at]])
    /\ Goto(k, "carry tags")
    /\ UNCHANGED <<store, audit, namespaces, cols, derived, faults>>

Rename(k) ==
    /\ At(k, "rename")
    /\ LET t == call[k].at
           u == call[k].to
       IN  IF t[1] # u[1] \/ live[t] = None \/ live[u] # None
           THEN Goto(k, "failed") /\ UNCHANGED <<live, call>>
           ELSE /\ live' = [live EXCEPT ![t] = None, ![u] = live[t]]
                /\ Keep(k, [call[k] EXCEPT !.object = live[t]])
                /\ Goto(k, "carry tags")
    /\ UNCHANGED <<store, audit, namespaces, cols, derived, faults>>

Renamed(r, u) == [r EXCEPT !.schema = u[1], !.table = u[2]]
Carried(rows, t, u) == { Renamed(r, u) : r \in Named(rows, t) }
Left(rows, t) == rows \ Named(rows, t)

\* A row that is there under the new name already breaks the primary key,
\* and with it the call.
CarryRows(k, rows, new, next) ==
    IF Carried(rows, call[k].at, call[k].to) \cap Left(rows, call[k].at) = {}
    THEN Statement(new) /\ Goto(k, next)
    ELSE Goto(k, "broken") /\ UNCHANGED store

\* Mistaken: only the rows of the table itself move.
MovedTable(rows, k) ==
    LET own == { r \in Named(rows, call[k].at) : "column" \notin DOMAIN r \/ r.column = None }
    IN  (rows \ own) \cup { Renamed(r, call[k].to) : r \in own }

Moved(rows, k) == Left(rows, call[k].at) \cup Carried(rows, call[k].at, call[k].to)

\* rename_table_governance: three statements.
CarryTags(k) ==
    /\ At(k, "carry tags")
    /\ CarryRows(k, gov.objectTag, [gov EXCEPT !.objectTag = Moved(@, k)], "carry attachments")
    /\ UNCHANGED <<audit, catalog, derived, call, faults>>

CarryAttachments(k) ==
    /\ At(k, "carry attachments")
    /\ CarryRows(k, gov.attachment, [gov EXCEPT !.attachment = Moved(@, k)], "carry grants")
    /\ UNCHANGED <<audit, catalog, derived, call, faults>>

CarryGrants(k) ==
    /\ At(k, "carry grants")
    /\ CarryRows(k, gov.objectGrant, [gov EXCEPT !.objectGrant = Moved(@, k)], "audit")
    /\ UNCHANGED <<audit, catalog, derived, call, faults>>

----------------------------------------------------------------------------
(***************************************************************************)
(* A commit that changes the schema: _apply_schema_diff, then the rest of  *)
(* the commit, which may fail.                                             *)
(***************************************************************************)

Change ==
    ({"rename"} \X { x \in Columns \X Columns : x[1] # x[2] })
    \cup ({"add", "drop"} \X { x \in Columns \X Columns : x[1] = x[2] })

AlterSchema(k) ==
    /\ \E t \in { x \in Tables : live[x] # None }, ch \in Change :
        Ask(k, [Blank EXCEPT !.op = "ddl", !.at = t, !.change = ch], "alter")
    /\ UNCHANGED <<store, audit, catalog, derived, faults>>

\* ALTER TABLE is final, whatever becomes of the commit.
Altered(cs, ch) ==
    CASE ch[1] = "add" -> cs \cup {ch[2][1]}
      [] ch[1] = "drop" -> cs \ {ch[2][1]}
      [] ch[1] = "rename" -> (cs \ {ch[2][1]}) \cup {ch[2][2]}

Possible(cs, ch) ==
    CASE ch[1] = "add" -> ch[2][1] \notin cs
      [] ch[1] = "drop" -> ch[2][1] \in cs /\ cs # {ch[2][1]}
      [] ch[1] = "rename" -> ch[2][1] \in cs /\ ch[2][2] \notin cs

Alter(k) ==
    /\ At(k, "alter")
    /\ LET t == call[k].at
           ch == call[k].change
       IN  IF live[t] # None /\ Possible(Cols[t], ch)
           THEN /\ cols' = [cols EXCEPT ![live[t]] = Altered(@, ch)]
                /\ Keep(k, [call[k] EXCEPT !.object = live[t]])
                /\ Goto(k, "commit")
           ELSE Goto(k, "failed") /\ UNCHANGED <<cols, call>>
    /\ UNCHANGED <<store, audit, namespaces, live, derived, faults>>

\* rename_column_governance, on the cursor of the commit's transaction.
ColumnRows(rows, k) ==
    { r \in Named(rows, call[k].at) : r.column = call[k].change[2][1] }
Recolumned(rows, k) ==
    (rows \ ColumnRows(rows, k))
    \cup { [r EXCEPT !.column = call[k].change[2][2]] : r \in ColumnRows(rows, k) }
\* A row is there under the new column already, and breaks the primary key.
Collides(rows, k) ==
    \E r \in ColumnRows(rows, k) :
        [r EXCEPT !.column = call[k].change[2][2]] \in rows \ ColumnRows(rows, k)

CommitSchema(k) ==
    /\ At(k, "commit")
    /\ IF call[k].change[1] = "rename"
       THEN /\ ~ Collides(gov.objectTag, k) /\ ~ Collides(gov.attachment, k)
            /\ Statement([gov EXCEPT !.objectTag = Recolumned(@, k),
                                     !.attachment = Recolumned(@, k)])
            /\ audit' = audit \cup {k}
       ELSE UNCHANGED <<store, audit>>
    /\ Goto(k, "collect views")
    /\ UNCHANGED <<catalog, derived, call, faults>>

\* The carry breaks a key, or a later step of the commit raises.
AbortSchema(k) ==
    /\ At(k, "commit")
    /\ IF call[k].change[1] = "rename"
          /\ (Collides(gov.objectTag, k) \/ Collides(gov.attachment, k))
       THEN UNCHANGED faults
       ELSE faults < MaxFaults /\ faults' = faults + 1
    /\ Goto(k, "broken")
    /\ UNCHANGED <<store, audit, catalog, derived, call>>

\* After the commit: gc_orphans, gc_table.
CollectArtifacts(k) ==
    /\ \/ /\ At(k, "collect views")
          /\ BestEffort(Clear("view", call[k].at) /\ UNCHANGED stamped)
          /\ Goto(k, "collect exports")
       \/ /\ At(k, "collect exports")
          /\ BestEffort(Clear("export", call[k].at) /\ UNCHANGED stamped)
          /\ Goto(k, "ok")
    /\ UNCHANGED <<store, audit, catalog, call>>

----------------------------------------------------------------------------
(***************************************************************************)
(* A read: the stamp, the roles, then plan_for, whose SELECTs each see     *)
(* what is committed by then; and what a masked read leaves behind.        *)
(***************************************************************************)

Read(k) ==
    /\ \E t \in { x \in Tables : live[x] # None }, p \in Principals, agent \in BOOLEAN :
        Ask(k, [Blank EXCEPT !.op = "read", !.at = t, !.what = p, !.agent = agent], "stamp")
    /\ UNCHANGED <<store, audit, catalog, derived, faults>>

ReadStamp(k) ==
    /\ At(k, "stamp")
    /\ Keep(k, [call[k] EXCEPT !.stamp = version])
    /\ Goto(k, "roles")
    /\ UNCHANGED <<store, audit, catalog, derived, faults>>

CallerRoles(g, b) == RolesOf(g, b.what) \cup IF b.agent THEN {Agent} ELSE {}

ReadRoles(k) ==
    /\ At(k, "roles")
    /\ Keep(k, [call[k] EXCEPT !.roles = CallerRoles(gov, call[k])])
    /\ Goto(k, "columns")
    /\ UNCHANGED <<store, audit, catalog, derived, faults>>

ReadColumns(k) ==
    /\ At(k, "columns")
    /\ Keep(k, [call[k] EXCEPT !.columns = Cols[call[k].at]])
    /\ Goto(k, "tags")
    /\ UNCHANGED <<store, audit, catalog, derived, faults>>

ReadTags(k) ==
    /\ At(k, "tags")
    /\ Keep(k, [call[k] EXCEPT !.model.objectTag = gov.objectTag])
    /\ Goto(k, "attachments")
    /\ UNCHANGED <<store, audit, catalog, derived, faults>>

ReadAttachments(k) ==
    /\ At(k, "attachments")
    /\ Keep(k, [call[k] EXCEPT !.model.attachment = gov.attachment])
    /\ Goto(k, "masking")
    /\ UNCHANGED <<store, audit, catalog, derived, faults>>

ReadMasking(k) ==
    /\ At(k, "masking")
    /\ Keep(k, [call[k] EXCEPT !.model.masking = gov.masking])
    /\ Goto(k, "rowAccess")
    /\ UNCHANGED <<store, audit, catalog, derived, faults>>

ReadRowAccess(k) ==
    /\ At(k, "rowAccess")
    /\ LET b == call[k]
           model == [b.model EXCEPT !.rowAccess = gov.rowAccess]
           plan == Plan(model, b.at, b.columns, b.roles)
       IN  /\ Keep(k, [b EXCEPT !.model = Empty, !.plan = plan])
           /\ Goto(k, IF IsEmpty(plan) THEN "ok" ELSE "materialise")
    /\ UNCHANGED <<store, audit, catalog, derived, faults>>

Materialise(k) ==
    /\ At(k, "materialise")
    /\ LET b == call[k]
           sig == Signature(b.at, b.columns, b.plan)
       IN  /\ artifacts' = artifacts \cup
                  (IF b.plan.fileLayer THEN {"view", "export"} ELSE {"view"}) \X {sig}
           /\ Goto(k, IF b.plan.fileLayer /\ ~ b.plan.forced THEN "interlock" ELSE "ok")
    /\ UNCHANGED <<store, audit, catalog, stamped, call, faults>>

\* _ensure_file_layer_properties.
Interlock(k) ==
    /\ At(k, "interlock")
    /\ stamped' = stamped \cup {call[k].at}
    /\ Goto(k, "ok")
    /\ UNCHANGED <<store, audit, catalog, artifacts, call, faults>>

----------------------------------------------------------------------------
Crash(k) ==
    /\ pc[k] \notin Ended \cup {"idle"} /\ call[k].op # "read"
    /\ faults < MaxFaults /\ faults' = faults + 1
    /\ Goto(k, "crashed")
    /\ UNCHANGED <<store, audit, catalog, derived, call>>

Authoring(k) ==
    \/ CreateTag(k) \/ CreateMaskingPolicy(k) \/ CreateRowAccessPolicy(k)
    \/ CreateRole(k) \/ GrantRole(k) \/ GrantObject(k)
    \/ RevokeRole(k) \/ RevokeObjectGrant(k) \/ SetStaticKey(k) \/ DeleteStaticKey(k)
    \/ AttachPolicy(k) \/ AssignObjectTag(k) \/ Expand(k) \/ Check(k) \/ Insert(k)
    \/ Detach(k) \/ RemoveObjectTag(k) \/ Remove(k)
    \/ Delete(k) \/ Count(k) \/ DeleteRow(k)
    \/ Audit(k) \/ ResyncViews(k) \/ ResyncExports(k) \/ ResyncProperties(k) \/ Answer(k)

Definition(k) ==
    \/ CreateNamespace(k) \/ DropNamespace(k) \/ AlterNamespace(k)
    \/ CreateTable(k) \/ Create(k)
    \/ DropTable(k) \/ Drop(k) \/ PurgeTags(k) \/ PurgeAttachments(k) \/ PurgeGrants(k)
    \/ RenameTable(k) \/ Rename(k) \/ CarryTags(k) \/ CarryAttachments(k) \/ CarryGrants(k)
    \/ AlterSchema(k) \/ Alter(k) \/ CommitSchema(k) \/ AbortSchema(k) \/ CollectArtifacts(k)

Reading(k) ==
    \/ Read(k) \/ ReadStamp(k) \/ ReadRoles(k) \/ ReadColumns(k) \/ ReadTags(k)
    \/ ReadAttachments(k) \/ ReadMasking(k) \/ ReadRowAccess(k)
    \/ Materialise(k) \/ Interlock(k)

(***************************************************************************)
(* History.  An object owes its policies to whoever attached them, until   *)
(* somebody takes them away by name.                                       *)
(***************************************************************************)

\* Policies a step of call k takes away on purpose.
Released(k) ==
    CASE At(k, "remove") /\ pc'[k] # "remove" /\ call[k].row \in Attachment ->
             {call[k].row.policy}
      [] At(k, "remove") /\ pc'[k] # "remove" /\ call[k].row \in TagRow ->
             { a.policy : a \in Attachments(call[k].row.tag) }
      [] At(k, "alter") /\ pc'[k] = "commit" /\ call[k].change[1] = "drop" -> MaskPolicies
      [] OTHER -> {}

Busy == { k \in Calls : pc'[k] \notin Ended \cup {"idle"} /\ call'[k].op # "read" }

History ==
    /\ owed' = [i \in Ids |->
           IF \A t \in Tables : live'[t] # i THEN {}
           ELSE (owed[i] \ UNION { Released(k) : k \in Calls })
                \cup Under(gov', live', cols', i)]
    /\ overlap' = overlap
           \cup (IF \E k, l \in Busy : k # l THEN {"any"} ELSE {})
           \cup (IF \E k, l \in Busy : k # l /\ call'[k].op = "ddl" /\ call'[l].op = "ddl"
                 THEN {"ddl"} ELSE {})
    /\ ahead' = \/ ahead
                \/ \E r \in Rows(gov') \ Rows(gov) : Stray(r, ColumnsOf(live', cols'))
                \/ \E t \in Tables : live'[t] # None /\
                       \E c \in cols'[live'[t]] \ cols[live'[t]] : MasksOn(gov', t, c) # {}

Step == \E k \in Calls : Authoring(k) \/ Definition(k) \/ Reading(k) \/ Crash(k)

\* All calls have been answered.
Done == (\A k \in Calls : pc[k] \in Ended) /\ UNCHANGED vars

Next == (Step /\ History) \/ Done

Spec == Init /\ [][Next]_vars

----------------------------------------------------------------------------
(***************************************************************************)
(* Properties.                                                             *)
(***************************************************************************)

\* The sidecars hold rows of their own columns, names belong to one object
\* each, and what calls remember is of the kind they read.
TypeOK ==
    /\ gov \in Model /\ version \in Nat \ {0} /\ audit \subseteq Calls
    /\ namespaces \subseteq Schemas
    /\ live \in [Tables -> Ids \cup {None}] /\ cols \in [Ids -> SUBSET Columns]
    /\ \A t, u \in Tables : live[t] = live[u] /\ live[t] # None => t = u
    /\ stamped \subseteq Tables
    /\ \A a \in artifacts : a[1] \in {"view", "export"} /\ a[2].table \in Tables
    /\ DOMAIN pc = Calls /\ DOMAIN call = Calls
    /\ \A k \in Calls :
        /\ call[k].row \in TagRow \cup Attachment \cup {None}
        /\ call[k].affected \subseteq (Tables \X Columns)
        /\ call[k].policies \subseteq MaskPolicies \cup RowPolicies
        /\ call[k].todo \subseteq Tables /\ call[k].stamp \in Nat
        /\ call[k].model \in Model
    /\ faults \in 0 .. MaxFaults
    /\ owed \in [Ids -> SUBSET (MaskPolicies \cup RowPolicies)]
    /\ overlap \subseteq {"any", "ddl"} /\ ahead \in BOOLEAN

\* Calls that died, or were undone, half way.
Died == \E k \in Calls : pc[k] \in {"broken", "crashed"}

\* A column has one mask: the look of attach_policy and assign_object_tag
\* finds every column the new row reaches, through whatever rows the others
\* came.  Two calls that look before either writes, columns that come into
\* being under policies and rows that a call left half carried are what it
\* cannot see; and of the masks of one tag it looks for each apart
\* (governance.py:629), so they may all come to a column that has none.
OneMaskPerColumn ==
    Died \/ "any" \in overlap \/ ahead
    \/ \A t \in Tables : \A c \in Cols[t] : OneSource(gov, t, c)

\* A plan put together from six statements is the plan of one version, when
\* the version read before them is still the version after them.  The caches
\* of vended credentials and of result sets rest on it.
StampedPlanIsWhole ==
    \A k \in Calls :
        LET b == call[k]
        IN  b.plan # None /\ b.stamp = version
                => b.plan = Plan(gov, b.at, b.columns, CallerRoles(gov, b))

Between(i) ==
    \E k \in Calls : call[k].object = i /\ pc[k] \in {"carry tags", "carry attachments", "commit"}

\* What was put on a table stays on it through drops, renames and schema
\* changes, until somebody takes it off: outside the window between the
\* change of name and the carry, and as long as no two calls of DDL overlap
\* and none dies half way.
PoliciesStay ==
    Died \/ "ddl" \in overlap
    \/ \A i \in Ids : Between(i) \/ owed[i] \subseteq Under(gov, live, cols, i)

\* Nothing waits under the name of a table that is gone, for another table
\* to inherit: once a drop or a rename is through, no row has the old name,
\* unless it was authored for a table that was not there.
NothingIsLeftBehind ==
    Died \/ ahead
    \/ \A r \in Rows(gov) :
        \/ r.table = None \/ live[<<r.schema, r.table>>] # None
        \/ \E k \in Calls :
            /\ call[k].at = <<r.schema, r.table>>
            /\ pc[k] \in {"purge tags", "purge attachments", "carry tags", "carry attachments"}

\* tables_with_policies and has_file_layer_policies, which vending asks
\* before it plans, leave out no table that some caller has a plan for.
CandidatesCoverPlans ==
    \A t \in { x \in Tables : live[x] # None }, roles \in SUBSET Roles :
        LET plan == Plan(gov, t, Cols[t], roles)
        IN  /\ ~ IsEmpty(plan) =>
                   t \in Candidates(gov, t[1], { x \in Tables : live[x] # None })
            /\ plan.fileLayer /\ ~ plan.forced => HasFileLayer(gov)

\* server.py:1982 and 2541: the carry is there so that the mask keeps
\* applying, "else it silently lapses".  With no crash, and when every call
\* has been answered, each table is under what it owes.
MasksNeverLapse ==
    (\A k \in Calls : pc[k] \in (Ended \cup {"idle"}) \ {"crashed"}) /\ "ddl" \notin overlap
        => \A i \in Ids : owed[i] \subseteq Under(gov, live, cols, i)
=============================================================================
