------------------------------ MODULE Policies ------------------------------
(***************************************************************************)
(* The governance model of a catalog and what follows from it: which       *)
(* masking and row-access policies reach a table (governance.py), and      *)
(* the plan that is enforced for a caller (policies.py).                   *)
(*                                                                         *)
(* A model is a record g of the sidecar tables; everything here is a       *)
(* function of it.                                                         *)
(***************************************************************************)
EXTENDS Integers, FiniteSets

CONSTANTS
    Schemas, Names,   \* namespaces, and names of tables
    Columns,
    Tags, MaskPolicies, RowPolicies,
    Roles, Principals,
    Agent,            \* the context role actor:agent, or an airtight channel's
    None              \* NULL

Tables == Schemas \X Names

ASSUME PoliciesAssumption ==
    /\ None \notin Names \cup Columns \cup Tags \cup Schemas
    /\ MaskPolicies \cap RowPolicies = {}
    /\ Agent \in Roles

\* duckicelake_object_tag.  A schema's row has no name, a table's no column;
\* those of views, which no plan reads, are left out.
TagRow ==
    [on : {"schema"}, schema : Schemas, table : {None}, column : {None}, tag : Tags]
    \cup [on : {"table"}, schema : Schemas, table : Names, column : {None}, tag : Tags]
    \cup [on : {"column"}, schema : Schemas, table : Names, column : Columns, tag : Tags]

\* duckicelake_policy_attachment, with the pairs of kind and target that
\* VALID_ATTACH_TARGETS lets through; columns is not read by any plan.
Attachment ==
    [policy : MaskPolicies \cup RowPolicies, target : {"tag"}, tag : Tags,
     schema : {None}, table : {None}, column : {None}]
    \cup [policy : MaskPolicies, target : {"column"}, tag : {None},
          schema : Schemas, table : Names, column : Columns]
    \cup [policy : RowPolicies, target : {"table"}, tag : {None},
          schema : Schemas, table : Names, column : {None}]

ObjectGrant == [schema : Schemas, table : Names \cup {None}, role : Roles]

\* unmasked_roles and file_layer_masking.  A body's text is not modelled.
MaskBody == [bypass : SUBSET Roles, fileLayer : BOOLEAN]
RowBody == [bypass : SUBSET Roles]

Model ==
    [tag          : SUBSET Tags,
     objectTag    : SUBSET TagRow,
     masking      : [MaskPolicies -> MaskBody \cup {None}],
     rowAccess    : [RowPolicies -> RowBody \cup {None}],
     attachment   : SUBSET Attachment,
     role         : SUBSET Roles,
     roleGrant    : SUBSET (Roles \X Principals),
     objectGrant  : SUBSET ObjectGrant,
     staticKey    : [Principals -> {"none", "shared", "confined"}]]

Empty ==
    [tag |-> {}, objectTag |-> {}, masking |-> [p \in MaskPolicies |-> None],
     rowAccess |-> [p \in RowPolicies |-> None], attachment |-> {},
     role |-> {}, roleGrant |-> {}, objectGrant |-> {},
     staticKey |-> [p \in Principals |-> "none"]]

\* roles_for_principal.
RolesOf(g, p) == { r \in Roles : <<r, p>> \in g.roleGrant }

----------------------------------------------------------------------------
(***************************************************************************)
(* resolve_effective_policies.                                             *)
(***************************************************************************)

\* Tags that cascade to every column of t: its own and its schema's.
Cascading(g, t) ==
    { r.tag : r \in { x \in g.objectTag :
                        /\ x.schema = t[1]
                        /\ x.on = "schema" \/ (x.on = "table" /\ x.table = t[2]) } }

TagsOn(g, t, c) ==
    Cascading(g, t) \cup
    { r.tag : r \in { x \in g.objectTag :
                        x.on = "column" /\ x.schema = t[1] /\ x.table = t[2] /\ x.column = c } }

\* The attachments of masks that reach column c of t, and their policies,
\* whoever reads it.
Masking(g, t, c) ==
    { x \in g.attachment :
        /\ x.policy \in MaskPolicies
        /\ \/ x.target = "tag" /\ x.tag \in TagsOn(g, t, c)
           \/ x.target = "column" /\ x.schema = t[1] /\ x.table = t[2] /\ x.column = c }

MasksOn(g, t, c) == { a.policy : a \in Masking(g, t, c) }

FiltersOn(g, t) ==
    { a.policy : a \in { x \in g.attachment :
        /\ x.policy \in RowPolicies
        /\ \/ x.target = "table" /\ x.schema = t[1] /\ x.table = t[2]
           \/ x.target = "tag" /\ x.tag \in Cascading(g, t) } }

----------------------------------------------------------------------------
(***************************************************************************)
(* build_plan.                                                             *)
(***************************************************************************)

\* A masking policy whose definition is missing masks with NULL and nobody
\* bypasses it; a row-access policy without one filters nothing.
Bypasses(body, roles) == body # None /\ body.bypass \cap roles # {}

Applicable(g, t, c, roles) ==
    { p \in MasksOn(g, t, c) : ~ Bypasses(g.masking[p], roles) }

\* The lowest name of several: any fixed choice.
Lowest(S) == CHOOSE p \in S : TRUE

Plan(g, t, cols, roles) ==
    LET masked == { c \in cols : Applicable(g, t, c, roles) # {} }
        masks == { <<c, Lowest(Applicable(g, t, c, roles))>> : c \in masked }
        filters == { p \in FiltersOn(g, t) :
                        g.rowAccess[p] # None /\ ~ Bypasses(g.rowAccess[p], roles) }
        layered == { m[2] : m \in { x \in masks : g.masking[x[2]] # None
                                                  /\ g.masking[x[2]].fileLayer } }
        forced == Agent \in roles /\ layered = {} /\ (masks # {} \/ filters # {})
    IN  [masks     |-> masks,
         filters   |-> filters,
         fileLayer |-> layered # {} \/ forced,
         forced    |-> forced,
         bypass    |-> UNION { g.masking[p].bypass : p \in layered }]

IsEmpty(plan) == plan.masks = {} /\ plan.filters = {}

\* mask_signature: what a masking view and an export are named by.
Signature(t, cols, plan) ==
    [table |-> t, columns |-> cols, masks |-> plan.masks,
     filters |-> plan.filters, fileLayer |-> plan.fileLayer]

----------------------------------------------------------------------------
(***************************************************************************)
(* Queries of the model.                                                   *)
(***************************************************************************)

\* Mistaken: a tag of the schema is not expanded.
NamedCandidates(g, s, live) ==
    LET attached == { a.tag : a \in { x \in g.attachment : x.target = "tag" } }
    IN  { <<s, r.table>> : r \in { x \in g.objectTag :
                x.schema = s /\ x.table # None /\ x.tag \in attached } }
        \cup { <<s, a.table>> : a \in { x \in g.attachment :
                x.target \in {"column", "table"} /\ x.schema = s } }

\* tables_with_policies, of a schema whose live tables are given.
Candidates(g, s, live) ==
    LET attached == { a.tag : a \in { x \in g.attachment : x.target = "tag" } }
        tagged(on) == { r \in g.objectTag : r.schema = s /\ r.on \in on /\ r.tag \in attached }
    IN  IF tagged({"schema"}) # {}
        THEN { t \in live : t[1] = s }
        ELSE { <<s, r.table>> : r \in tagged({"table", "column"}) }
             \cup { <<s, a.table>> : a \in { x \in g.attachment :
                        x.target \in {"column", "table"} /\ x.schema = s } }

\* has_file_layer_policies.
HasFileLayer(g) == \E p \in MaskPolicies : g.masking[p] # None /\ g.masking[p].fileLayer

\* _columns_carrying_tag, _expand_tag_rows: the columns some rows reach,
\* where cols has the columns of every live table, and {} of any other name.
Reached(rows, cols) ==
    UNION { CASE r.on = "column" -> { <<<<r.schema, r.table>>, r.column>> }
              [] r.on = "table"  -> { <<r.schema, r.table>> } \X cols[<<r.schema, r.table>>]
              [] OTHER -> UNION { { t } \X cols[t] : t \in { x \in Tables : x[1] = r.schema } }
            : r \in rows }

\* _masking_policies_on_tag.
MasksOnTag(g, tag) ==
    { a.policy : a \in { x \in g.attachment :
                            x.policy \in MaskPolicies /\ x.target = "tag" /\ x.tag = tag } }
=============================================================================
