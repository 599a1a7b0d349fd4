------------------------- MODULE Governance_proofs -------------------------
(***************************************************************************)
(* Proofs about Governance, for any number of calls, tables, columns, tags *)
(* and policies, and any faults.                                           *)
(*                                                                         *)
(* Types come first (TypeCorrect).  That a stamped plan is whole follows a *)
(* read from the version it has stamped (Fresh).  Rows of a name that is   *)
(* gone are in the hands of a call (Covered).  Names and rows change at    *)
(* different moments, so what tables are under and what masks a column has *)
(* is stated of the rows as they will be when the carry in flight is       *)
(* through (Soon), and brought back to the rows there are where no carry   *)
(* is (Away, Back).  What a call that looks before it writes has seen is   *)
(* LookInv; it makes a column keep to one mask.                            *)
(***************************************************************************)
EXTENDS Governance, TLAPS

Plans == [masks : SUBSET (Columns \X MaskPolicies), filters : SUBSET RowPolicies,
          fileLayer : BOOLEAN, forced : BOOLEAN, bypass : SUBSET Roles]

Signatures == [table : Tables, columns : SUBSET Columns,
               masks : SUBSET (Columns \X MaskPolicies), filters : SUBSET RowPolicies,
               fileLayer : BOOLEAN]

Calling ==
    [op : {"author", "ddl", "read"},
     what : MaskPolicies \cup RowPolicies \cup Tags \cup Roles \cup Principals \cup {None},
     row : TagRow \cup Attachment \cup {None}, affected : SUBSET (Tables \X Columns),
     policies : SUBSET (MaskPolicies \cup RowPolicies), todo : SUBSET Tables,
     at : Tables \cup Schemas \cup {None}, to : Tables \cup {None}, object : Ids \cup {None},
     change : Change \cup {<<>>}, agent : BOOLEAN, stamp : Nat, roles : SUBSET Roles,
     columns : SUBSET Columns, model : Model, plan : Plans \cup {None}]

Looking == {"expand", "check", "insert"}
Authors == Looking \cup {"remove", "count", "delete"}
Purging == {"purge tags", "purge attachments", "purge grants"}
Carrying == {"carry tags", "carry attachments", "carry grants"}
Altering == {"alter", "commit"}
OnTables == Purging \cup Carrying \cup Altering
            \cup {"create", "drop", "rename", "collect views", "collect exports"}
OnNamespaces == {"create namespace", "drop namespace"}
Answering == {"audit", "resync", "exports", "properties"}
Reads == {"stamp", "roles", "columns", "tags", "attachments", "masking", "rowAccess",
          "materialise", "interlock"}
Labels == {"idle"} \cup Ended \cup Authors \cup OnTables \cup OnNamespaces \cup Answering \cup Reads

\* A call at l that has read b.
CallOK(l, b) ==
    /\ l \in Labels /\ b \in Calling
    /\ l = "idle" => b = Blank
    /\ l \in Authors => b.op = "author"
    /\ l \in OnTables \cup OnNamespaces => b.op = "ddl"
    /\ l \in Answering => b.op # "read"
    /\ l \in Reads => b.op = "read"
    /\ l \in Looking \cup {"remove"} => b.row \in TagRow \cup Attachment
    /\ l \in OnTables \cup Reads \cup {"exports", "properties"} => b.at \in Tables
    /\ l \in OnNamespaces => b.at \in Schemas
    /\ l \in Carrying \cup {"rename"} => b.to \in Tables /\ b.to # b.at
    /\ l \in Altering => b.change \in Change
    /\ l = "materialise" => b.plan \in Plans

WorldOK ==
    /\ gov \in Model /\ version \in Nat \ {0} /\ audit \subseteq Calls
    /\ namespaces \subseteq Schemas
    /\ live \in [Tables -> Ids \cup {None}] /\ cols \in [Ids -> SUBSET Columns]
    /\ stamped \subseteq Tables /\ artifacts \subseteq {"view", "export"} \X Signatures
    /\ faults \in 0 .. MaxFaults

\* A name has an object of its own, with columns.
ObjectsOK ==
    /\ \A t, u \in Tables : live[t] = live[u] /\ live[t] # None => t = u
    /\ \A t \in Tables : live[t] # None => cols[live[t]] # {}

CallsOK ==
    /\ pc \in [Calls -> Labels] /\ call \in [Calls -> Calling]
    /\ \A k \in Calls : CallOK(pc[k], call[k])

HistoryOK ==
    /\ owed \in [Ids -> SUBSET (MaskPolicies \cup RowPolicies)]
    /\ overlap \subseteq {"any", "ddl"} /\ ahead \in BOOLEAN

TypeInv == WorldOK /\ ObjectsOK /\ CallsOK /\ HistoryOK

Moves(k) ==
    /\ pc[k] \notin Ended
    /\ pc' = [pc EXCEPT ![k] = pc'[k]]
    /\ call' = [call EXCEPT ![k] = call'[k]]
    /\ CallOK(pc'[k], call'[k])

Goes(k) == Moves(k) /\ WorldOK' /\ ObjectsOK'

----------------------------------------------------------------------------
LEMMA Nones == None \notin Ids /\ None \notin Names /\ None \notin Columns
               /\ None \notin Tags /\ None \notin Schemas /\ None \notin Calls
BY PoliciesAssumption, GovernanceAssumption

LEMMA EmptyTyped == Empty \in Model
BY DEF Empty, Model

LEMMA BlankTyped == Blank \in Calling
BY EmptyTyped DEF Blank, Calling

LEMMA MasksTyped ==
    ASSUME NEW g, NEW t, NEW c PROVE MasksOn(g, t, c) \subseteq MaskPolicies
BY DEF MasksOn, Masking

LEMMA FiltersTyped ==
    ASSUME NEW g, NEW t PROVE FiltersOn(g, t) \subseteq RowPolicies
BY DEF FiltersOn

LEMMA LowestOf == ASSUME NEW S, S # {} PROVE Lowest(S) \in S
BY DEF Lowest

LEMMA PlanTyped ==
    ASSUME NEW g \in Model, NEW t, NEW cs \in SUBSET Columns, NEW roles
    PROVE  Plan(g, t, cs, roles) \in Plans
<1> DEFINE masked == { c \in cs : Applicable(g, t, c, roles) # {} }
           masks == { <<c, Lowest(Applicable(g, t, c, roles))>> : c \in masked }
           filters == { p \in FiltersOn(g, t) :
                          g.rowAccess[p] # None /\ ~ Bypasses(g.rowAccess[p], roles) }
           layered == { m[2] : m \in { x \in masks : g.masking[x[2]] # None
                                                     /\ g.masking[x[2]].fileLayer } }
           forced == Agent \in roles /\ layered = {} /\ (masks # {} \/ filters # {})
           bypass == UNION { g.masking[p].bypass : p \in layered }
<1>1. masks \subseteq Columns \X MaskPolicies
  <2>1. SUFFICES ASSUME NEW c \in masked
                 PROVE  <<c, Lowest(Applicable(g, t, c, roles))>> \in Columns \X MaskPolicies
    OBVIOUS
  <2>2. Lowest(Applicable(g, t, c, roles)) \in Applicable(g, t, c, roles)
    BY LowestOf
  <2>3. QED
    BY <2>2, MasksTyped DEF Applicable
<1>2. filters \subseteq RowPolicies
  BY FiltersTyped
<1>3. bypass \subseteq Roles
  <2>1. ASSUME NEW p \in layered PROVE g.masking[p].bypass \subseteq Roles
    <3>1. p \in MaskPolicies /\ g.masking[p] # None
      BY <1>1
    <3>2. g.masking[p] \in MaskBody
      BY <3>1 DEF Model
    <3>3. QED
      BY <3>2 DEF MaskBody
  <2>2. QED
    BY <2>1
<1>4. forced \in BOOLEAN /\ (layered # {} \/ forced) \in BOOLEAN
  OBVIOUS
<1> HIDE DEF masks, filters, bypass, forced, layered
<1>5. [masks |-> masks, filters |-> filters, fileLayer |-> layered # {} \/ forced,
       forced |-> forced, bypass |-> bypass] \in Plans
  BY <1>1, <1>2, <1>3, <1>4 DEF Plans
<1>6. QED
  BY <1>5 DEF Plan, masks, masked, filters, layered, forced, bypass

LEMMA Initially == Init => TypeInv
<1> SUFFICES ASSUME Init PROVE TypeInv
  OBVIOUS
<1> USE Nones
<1>1. First[1] \in Tables /\ First[2] \in Columns /\ gov \in Model
  BY GovernanceAssumption DEF Init
<1>2. PICK i \in Ids : /\ live = [t \in Tables |-> IF t = First[1] THEN i ELSE None]
                       /\ cols = [x \in Ids |-> IF x = i THEN {First[2]} ELSE {}]
  BY DEF Init
<1>3. WorldOK /\ ObjectsOK
  BY <1>1, <1>2, GovernanceAssumption DEF Init, WorldOK, ObjectsOK
<1>4. CallsOK
  BY BlankTyped DEF Init, CallsOK, CallOK, Labels, Authors, Looking, OnTables, Purging,
     Carrying, Altering, OnNamespaces, Answering, Reads, Ended
<1>5. \A x \in Ids : Under(gov, live, cols, x) \subseteq MaskPolicies \cup RowPolicies
  BY MasksTyped, FiltersTyped DEF Under
<1>6. HistoryOK
  BY <1>5 DEF Init, HistoryOK
<1>7. QED
  BY <1>3, <1>4, <1>6 DEF TypeInv

----------------------------------------------------------------------------
(***************************************************************************)
(* Types, action by action.                                                *)
(***************************************************************************)
USE DEF Labels, Ended, Authors, Looking, OnTables, Purging, Carrying, Altering, OnNamespaces,
        Answering, Reads

LEMMA Stays ==
    ASSUME WorldOK, ObjectsOK, UNCHANGED <<store, audit, catalog, derived, faults>>
    PROVE  WorldOK' /\ ObjectsOK'
BY DEF WorldOK, ObjectsOK, store, catalog, derived

LEMMA Steps ==
    ASSUME TypeInv, NEW k \in Calls, NEW l, NEW b, CallOK(l, b), pc[k] \notin Ended,
           pc' = [pc EXCEPT ![k] = l], call' = [call EXCEPT ![k] = b]
    PROVE  Moves(k)
BY DEF Moves, TypeInv, CallsOK

\* A call sets out.
LEMMA Asks ==
    ASSUME TypeInv, NEW k \in Calls, NEW l, NEW b, CallOK(l, b), Ask(k, b, l),
           UNCHANGED <<store, audit, catalog, derived, faults>>
    PROVE  Goes(k)
BY Steps, Stays DEF Ask, At, Keep, Goto, Goes, TypeInv

\* A call goes on, with what it knows.
LEMMA GoesOn ==
    ASSUME TypeInv, NEW k \in Calls, NEW l, CallOK(l, call[k]), pc[k] \notin Ended, Goto(k, l),
           UNCHANGED call
    PROVE  Moves(k)
<1>1. call' = [call EXCEPT ![k] = call[k]]
  BY DEF TypeInv, CallsOK
<1>2. QED
  BY <1>1, Steps DEF Goto

LEMMA Mine == ASSUME TypeInv, NEW k \in Calls PROVE CallOK(pc[k], call[k]) /\ call[k] \in Calling
BY DEF TypeInv, CallsOK

LEMMA ReachedTyped ==
    ASSUME NEW rows \in SUBSET TagRow, NEW cs \in [Tables -> SUBSET Columns]
    PROVE  Reached(rows, cs) \subseteq Tables \X Columns
<1>1. ASSUME NEW r \in rows
      PROVE  (CASE r.on = "column" -> { <<<<r.schema, r.table>>, r.column>> }
                [] r.on = "table"  -> { <<r.schema, r.table>> } \X cs[<<r.schema, r.table>>]
                [] OTHER -> UNION { { t } \X cs[t] : t \in { x \in Tables : x[1] = r.schema } })
             \subseteq Tables \X Columns
  <2>1. CASE r.on = "column"
    BY <2>1 DEF TagRow, Tables
  <2>2. CASE r.on = "table"
    <3>1. <<r.schema, r.table>> \in Tables
      BY <2>2 DEF TagRow, Tables
    <3>2. QED
      BY <2>2, <3>1
  <2>3. CASE r.on # "column" /\ r.on # "table"
    BY <2>3
  <2>4. QED
    BY <2>1, <2>2, <2>3
<1>2. QED
  BY <1>1 DEF Reached

LEMMA ColsTyped == WorldOK => Cols \in [Tables -> SUBSET Columns]
BY Nones DEF WorldOK, Cols, ColumnsOf

LEMMA AuthorGoes ==
    ASSUME TypeInv, NEW k \in Calls, NEW g \in Model, NEW l \in {"audit", "ok", "missing"}, Author(k, g, l)
    PROVE  Goes(k)
<1>1. CallOK(l, call[k])
  <2>1. call[k] = Blank /\ Blank \in Calling
    BY Mine, BlankTyped DEF Author, At, CallOK
  <2>2. Blank.op = "author"
    BY DEF Blank
  <2>3. QED
    BY <2>1, <2>2 DEF CallOK
<1>2. Moves(k)
  BY <1>1, GoesOn DEF Author, At
<1>3. WorldOK' /\ ObjectsOK'
  BY DEF Author, Statement, TypeInv, WorldOK, ObjectsOK, catalog, derived
<1>4. QED
  BY <1>2, <1>3 DEF Goes

LEMMA Updated ==
    ASSUME NEW g \in Model
    PROVE  /\ \A T \in SUBSET TagRow : [g EXCEPT !.objectTag = T] \in Model
           /\ \A A \in SUBSET Attachment : [g EXCEPT !.attachment = A] \in Model
           /\ \A T \in SUBSET TagRow, A \in SUBSET Attachment :
                 [g EXCEPT !.objectTag = T, !.attachment = A] \in Model
           /\ \A G \in SUBSET ObjectGrant : [g EXCEPT !.objectGrant = G] \in Model
           /\ g.objectTag \subseteq TagRow /\ g.attachment \subseteq Attachment
           /\ g.objectGrant \subseteq ObjectGrant
           /\ g.masking \in [MaskPolicies -> MaskBody \cup {None}]
           /\ g.rowAccess \in [RowPolicies -> RowBody \cup {None}]
BY DEF Model

LEMMA StatementsGo ==
    ASSUME TypeInv, NEW k \in Calls,
           \/ CreateTag(k) \/ CreateMaskingPolicy(k) \/ CreateRowAccessPolicy(k)
           \/ CreateRole(k) \/ GrantRole(k) \/ GrantObject(k)
           \/ RevokeRole(k) \/ RevokeObjectGrant(k) \/ SetStaticKey(k) \/ DeleteStaticKey(k)
    PROVE  Goes(k)
<1> gov \in Model
  BY DEF TypeInv, WorldOK
<1>1. CASE CreateTag(k)
  <2>1. PICK t \in Tags : Author(k, [gov EXCEPT !.tag = @ \cup {t}], "audit")
    BY <1>1 DEF CreateTag
  <2>2. [gov EXCEPT !.tag = @ \cup {t}] \in Model
    BY DEF Model
  <2>3. QED
    BY <2>1, <2>2, AuthorGoes
<1>2. CASE CreateMaskingPolicy(k)
  <2>1. PICK p \in MaskPolicies, b \in MaskBody : Author(k, [gov EXCEPT !.masking[p] = b], "audit")
    BY <1>2 DEF CreateMaskingPolicy
  <2>2. [gov EXCEPT !.masking[p] = b] \in Model
    BY DEF Model
  <2>3. QED
    BY <2>1, <2>2, AuthorGoes
<1>3. CASE CreateRowAccessPolicy(k)
  <2>1. PICK p \in RowPolicies, b \in RowBody : Author(k, [gov EXCEPT !.rowAccess[p] = b], "audit")
    BY <1>3 DEF CreateRowAccessPolicy
  <2>2. [gov EXCEPT !.rowAccess[p] = b] \in Model
    BY DEF Model
  <2>3. QED
    BY <2>1, <2>2, AuthorGoes
<1>4. CASE CreateRole(k)
  <2>1. PICK r \in Roles : Author(k, [gov EXCEPT !.role = @ \cup {r}], "audit")
    BY <1>4 DEF CreateRole
  <2>2. [gov EXCEPT !.role = @ \cup {r}] \in Model
    BY DEF Model
  <2>3. QED
    BY <2>1, <2>2, AuthorGoes
<1>5. CASE GrantRole(k)
  <2>1. PICK x \in Roles \X Principals : Author(k, [gov EXCEPT !.roleGrant = @ \cup {x}], "audit")
    BY <1>5 DEF GrantRole
  <2>2. [gov EXCEPT !.roleGrant = @ \cup {x}] \in Model
    BY DEF Model
  <2>3. QED
    BY <2>1, <2>2, AuthorGoes
<1>6. CASE GrantObject(k)
  <2>1. PICK x \in ObjectGrant : Author(k, [gov EXCEPT !.objectGrant = @ \cup {x}], "audit")
    BY <1>6 DEF GrantObject
  <2>2. [gov EXCEPT !.objectGrant = @ \cup {x}] \in Model
    BY DEF Model
  <2>3. QED
    BY <2>1, <2>2, AuthorGoes
<1>7. CASE RevokeRole(k)
  <2>1. PICK x \in Roles \X Principals :
            Author(k, [gov EXCEPT !.roleGrant = @ \ {x}], IF x \in gov.roleGrant THEN "audit" ELSE "ok")
    BY <1>7 DEF RevokeRole
  <2>2. [gov EXCEPT !.roleGrant = @ \ {x}] \in Model
    BY DEF Model
  <2>3. QED
    BY <2>1, <2>2, AuthorGoes
<1>8. CASE RevokeObjectGrant(k)
  <2>1. PICK x \in ObjectGrant :
            Author(k, [gov EXCEPT !.objectGrant = @ \ {x}], IF x \in gov.objectGrant THEN "audit" ELSE "ok")
    BY <1>8 DEF RevokeObjectGrant
  <2>2. [gov EXCEPT !.objectGrant = @ \ {x}] \in Model
    BY DEF Model
  <2>3. QED
    BY <2>1, <2>2, AuthorGoes
<1>9. CASE SetStaticKey(k)
  <2>1. PICK p \in Principals, key \in {"shared", "confined"} :
            Author(k, [gov EXCEPT !.staticKey[p] = key], "ok")
    BY <1>9 DEF SetStaticKey
  <2>2. [gov EXCEPT !.staticKey[p] = key] \in Model
    BY DEF Model
  <2>3. QED
    BY <2>1, <2>2, AuthorGoes
<1>10. CASE DeleteStaticKey(k)
  <2>1. PICK p \in Principals :
            Author(k, [gov EXCEPT !.staticKey[p] = "none"],
                   IF gov.staticKey[p] = "none" THEN "missing" ELSE "ok")
    BY <1>10 DEF DeleteStaticKey
  <2>2. [gov EXCEPT !.staticKey[p] = "none"] \in Model
    BY DEF Model
  <2>3. QED
    BY <2>1, <2>2, AuthorGoes
<1>11. QED
  BY <1>1, <1>2, <1>3, <1>4, <1>5, <1>6, <1>7, <1>8, <1>9, <1>10

LEMMA AttachPolicyGoes == ASSUME TypeInv, NEW k \in Calls, AttachPolicy(k) PROVE Goes(k)
<1>1. PICK a \in Attachment :
        Ask(k, [Blank EXCEPT !.row = a, !.policies = {a.policy},
                             !.affected = IF a.target = "column"
                                          THEN {<<<<a.schema, a.table>>, a.column>>} ELSE {}],
            IF a.policy \in RowPolicies THEN "insert"
            ELSE IF a.target = "tag" THEN "expand" ELSE "check")
  BY DEF AttachPolicy
<1> DEFINE affected == IF a.target = "column" THEN {<<<<a.schema, a.table>>, a.column>>} ELSE {}
           b == [Blank EXCEPT !.row = a, !.policies = {a.policy}, !.affected = affected]
           l == IF a.policy \in RowPolicies THEN "insert"
                ELSE IF a.target = "tag" THEN "expand" ELSE "check"
<1>2. affected \in SUBSET (Tables \X Columns) /\ a.policy \in MaskPolicies \cup RowPolicies
  BY DEF Attachment, Tables
<1> HIDE DEF affected
<1>4. b \in Calling /\ b.op = "author" /\ b.row = a
  BY <1>2, BlankTyped DEF Calling, Blank
<1> HIDE DEF b
<1>5. CallOK(l, b)
  BY <1>4 DEF CallOK
<1>6. Ask(k, b, l) /\ UNCHANGED <<store, audit, catalog, derived, faults>>
  BY <1>1 DEF b, affected, AttachPolicy
<1>7. QED
  BY <1>5, <1>6, Asks

LEMMA AssignObjectTagGoes == ASSUME TypeInv, NEW k \in Calls, AssignObjectTag(k) PROVE Goes(k)
<1>1. PICK r \in TagRow :
        Ask(k, [Blank EXCEPT !.row = r, !.policies = MasksOnTag(gov, r.tag)],
            IF MasksOnTag(gov, r.tag) = {} THEN "insert" ELSE "expand")
  BY DEF AssignObjectTag
<1>2. PICK masks : masks = MasksOnTag(gov, r.tag)
  OBVIOUS
<1>3. masks \subseteq MaskPolicies
  BY <1>2 DEF MasksOnTag
<1> DEFINE b == [Blank EXCEPT !.row = r, !.policies = masks]
           l == IF masks = {} THEN "insert" ELSE "expand"
<1>5. b \in Calling /\ b.op = "author" /\ b.row = r
  BY <1>3, BlankTyped DEF Calling, Blank
<1>6. Ask(k, b, l) /\ UNCHANGED <<store, audit, catalog, derived, faults>>
  BY <1>1, <1>2 DEF AssignObjectTag
<1> HIDE DEF b
<1>7. CallOK(l, b)
  BY <1>5 DEF CallOK
<1>8. QED
  BY <1>6, <1>7, Asks

LEMMA TablesReached ==
    ASSUME TypeInv, NEW rows \in SUBSET TagRow
    PROVE  { x[1] : x \in Reached(rows, Cols) } \subseteq Tables
BY ReachedTyped, ColsTyped DEF TypeInv

LEMMA DetachGoes == ASSUME TypeInv, NEW k \in Calls, Detach(k) PROVE Goes(k)
<1>1. PICK a \in Attachment :
        Ask(k, [Blank EXCEPT !.row = a, !.todo =
                  IF a.target = "tag" THEN { x[1] : x \in Reached({ r \in gov.objectTag : r.tag = a.tag }, Cols) }
                                      ELSE {<<a.schema, a.table>>}], "remove")
  BY DEF Detach
<1>2. PICK tables : tables = IF a.target = "tag"
                             THEN { x[1] : x \in Reached({ r \in gov.objectTag : r.tag = a.tag }, Cols) }
                             ELSE {<<a.schema, a.table>>}
  OBVIOUS
<1>3. tables \subseteq Tables
  <2>1. CASE a.target = "tag"
    <3>1. { r \in gov.objectTag : r.tag = a.tag } \in SUBSET TagRow
      BY Updated DEF TypeInv, WorldOK
    <3>2. QED
      BY <1>2, <2>1, <3>1, TablesReached
  <2>2. CASE a.target # "tag"
    BY <1>2, <2>2 DEF Attachment, Tables
  <2>3. QED
    BY <2>1, <2>2
<1> DEFINE b == [Blank EXCEPT !.row = a, !.todo = tables]
<1>4. b \in Calling /\ b.op = "author" /\ b.row = a
  BY <1>3, BlankTyped DEF Calling, Blank
<1>5. Ask(k, b, "remove") /\ UNCHANGED <<store, audit, catalog, derived, faults>>
  BY <1>1, <1>2 DEF Detach
<1> HIDE DEF b
<1>6. CallOK("remove", b)
  BY <1>4 DEF CallOK
<1>7. QED
  BY <1>5, <1>6, Asks

LEMMA RemoveObjectTagGoes == ASSUME TypeInv, NEW k \in Calls, RemoveObjectTag(k) PROVE Goes(k)
<1>1. PICK r \in TagRow :
        Ask(k, [Blank EXCEPT !.row = r, !.todo = { x[1] : x \in Reached({r}, Cols) }], "remove")
  BY DEF RemoveObjectTag
<1>2. PICK tables : tables = { x[1] : x \in Reached({r}, Cols) }
  OBVIOUS
<1>3. tables \subseteq Tables
  BY <1>2, TablesReached
<1> DEFINE b == [Blank EXCEPT !.row = r, !.todo = tables]
<1>4. b \in Calling /\ b.op = "author" /\ b.row = r
  BY <1>3, BlankTyped DEF Calling, Blank
<1>5. Ask(k, b, "remove") /\ UNCHANGED <<store, audit, catalog, derived, faults>>
  BY <1>1, <1>2 DEF RemoveObjectTag
<1> HIDE DEF b
<1>6. CallOK("remove", b)
  BY <1>4 DEF CallOK
<1>7. QED
  BY <1>5, <1>6, Asks

LEMMA DeleteGoes == ASSUME TypeInv, NEW k \in Calls, Delete(k) PROVE Goes(k)
<1>1. PICK w \in MaskPolicies \cup RowPolicies \cup Tags \cup Roles, l \in {"conflict", "count", "delete"} :
        Ask(k, [Blank EXCEPT !.what = w], l)
  BY DEF Delete
<1> DEFINE b == [Blank EXCEPT !.what = w]
<1>2. b \in Calling /\ b.op = "author"
  BY BlankTyped DEF Calling, Blank
<1>3. Ask(k, b, l) /\ UNCHANGED <<store, audit, catalog, derived, faults>>
  BY <1>1 DEF Delete
<1> HIDE DEF b
<1>4. CallOK(l, b)
  BY <1>2 DEF CallOK
<1>5. QED
  BY <1>3, <1>4, Asks

LEMMA NamespacesAsked ==
    ASSUME TypeInv, NEW k \in Calls, CreateNamespace(k) \/ DropNamespace(k) PROVE Goes(k)
<1>1. PICK s \in Schemas, l \in {"exists", "create namespace", "missing", "drop namespace"} :
        Ask(k, [Blank EXCEPT !.op = "ddl", !.at = s], l)
  BY DEF CreateNamespace, DropNamespace
<1> DEFINE b == [Blank EXCEPT !.op = "ddl", !.at = s]
<1>2. b \in Calling /\ b.op = "ddl" /\ b.at = s
  BY BlankTyped DEF Calling, Blank
<1>3. Ask(k, b, l) /\ UNCHANGED <<store, audit, catalog, derived, faults>>
  BY <1>1 DEF CreateNamespace, DropNamespace
<1> HIDE DEF b
<1>4. CallOK(l, b)
  BY <1>2 DEF CallOK
<1>5. QED
  BY <1>3, <1>4, Asks

LEMMA CreateTableGoes == ASSUME TypeInv, NEW k \in Calls, CreateTable(k) PROVE Goes(k)
<1>1. PICK t \in Tables, l \in {"missing", "exists", "create"} :
        Ask(k, [Blank EXCEPT !.op = "ddl", !.at = t], l)
  BY DEF CreateTable
<1> DEFINE b == [Blank EXCEPT !.op = "ddl", !.at = t]
<1>2. b \in Calling /\ b.op = "ddl" /\ b.at = t
  BY BlankTyped DEF Calling, Blank
<1>3. Ask(k, b, l) /\ UNCHANGED <<store, audit, catalog, derived, faults>>
  BY <1>1 DEF CreateTable
<1> HIDE DEF b
<1>4. CallOK(l, b)
  BY <1>2 DEF CallOK
<1>5. QED
  BY <1>3, <1>4, Asks

LEMMA DropTableGoes == ASSUME TypeInv, NEW k \in Calls, DropTable(k) PROVE Goes(k)
<1>1. PICK t \in Tables, l \in {"missing", "drop"} :
        Ask(k, [Blank EXCEPT !.op = "ddl", !.at = t, !.todo = {t}], l)
  BY DEF DropTable
<1> DEFINE b == [Blank EXCEPT !.op = "ddl", !.at = t, !.todo = {t}]
<1>2. b \in Calling /\ b.op = "ddl" /\ b.at = t
  BY BlankTyped DEF Calling, Blank
<1>3. Ask(k, b, l) /\ UNCHANGED <<store, audit, catalog, derived, faults>>
  BY <1>1 DEF DropTable
<1> HIDE DEF b
<1>4. CallOK(l, b)
  BY <1>2 DEF CallOK
<1>5. QED
  BY <1>3, <1>4, Asks

LEMMA RenameTableGoes == ASSUME TypeInv, NEW k \in Calls, RenameTable(k) PROVE Goes(k)
<1>1. PICK t \in Tables, u \in Tables, l \in {"missing", "exists", "rename"} :
        Ask(k, [Blank EXCEPT !.op = "ddl", !.at = t, !.to = u, !.todo = {t, u}], l) /\ u # t
  BY DEF RenameTable
<1> DEFINE b == [Blank EXCEPT !.op = "ddl", !.at = t, !.to = u, !.todo = {t, u}]
<1>2. b \in Calling /\ b.op = "ddl" /\ b.at = t /\ b.to = u
  BY BlankTyped DEF Calling, Blank
<1>3. Ask(k, b, l) /\ UNCHANGED <<store, audit, catalog, derived, faults>>
  BY <1>1 DEF RenameTable
<1> HIDE DEF b
<1>4. CallOK(l, b)
  BY <1>1, <1>2 DEF CallOK
<1>5. QED
  BY <1>3, <1>4, Asks

LEMMA AlterSchemaGoes == ASSUME TypeInv, NEW k \in Calls, AlterSchema(k) PROVE Goes(k)
<1>1. PICK t \in Tables, ch \in Change :
        Ask(k, [Blank EXCEPT !.op = "ddl", !.at = t, !.change = ch], "alter")
  BY DEF AlterSchema
<1> DEFINE b == [Blank EXCEPT !.op = "ddl", !.at = t, !.change = ch]
<1>2. b \in Calling /\ b.op = "ddl" /\ b.at = t /\ b.change = ch
  BY BlankTyped DEF Calling, Blank
<1>3. Ask(k, b, "alter") /\ UNCHANGED <<store, audit, catalog, derived, faults>>
  BY <1>1 DEF AlterSchema
<1> HIDE DEF b
<1>4. CallOK("alter", b)
  BY <1>2 DEF CallOK
<1>5. QED
  BY <1>3, <1>4, Asks

LEMMA ReadGoes == ASSUME TypeInv, NEW k \in Calls, Read(k) PROVE Goes(k)
<1>1. PICK t \in Tables, p \in Principals, agent \in BOOLEAN :
        Ask(k, [Blank EXCEPT !.op = "read", !.at = t, !.what = p, !.agent = agent], "stamp")
  BY DEF Read
<1> DEFINE b == [Blank EXCEPT !.op = "read", !.at = t, !.what = p, !.agent = agent]
<1>2. b \in Calling /\ b.op = "read" /\ b.at = t
  BY BlankTyped DEF Calling, Blank
<1>3. Ask(k, b, "stamp") /\ UNCHANGED <<store, audit, catalog, derived, faults>>
  BY <1>1 DEF Read
<1> HIDE DEF b
<1>4. CallOK("stamp", b)
  BY <1>2 DEF CallOK
<1>5. QED
  BY <1>3, <1>4, Asks

\* A call has read something.
LEMMA Learns ==
    ASSUME TypeInv, NEW k \in Calls, NEW l, NEW b, CallOK(l, b), pc[k] \notin Ended, Keep(k, b),
           Goto(k, l), UNCHANGED <<store, audit, catalog, derived, faults>>
    PROVE  Goes(k)
BY Steps, Stays DEF Keep, Goto, Goes, TypeInv

\* A call has written, or has failed to.
LEMMA Writes ==
    ASSUME TypeInv, NEW k \in Calls, NEW g \in Model,
           Statement(g) \/ UNCHANGED store, audit' \subseteq Calls, UNCHANGED <<catalog, derived, faults>>
    PROVE  WorldOK' /\ ObjectsOK'
BY DEF Statement, TypeInv, WorldOK, ObjectsOK, store, catalog, derived

LEMMA ExpandGoes == ASSUME TypeInv, NEW k \in Calls, Expand(k) PROVE Goes(k)
<1>1. CallOK("expand", call[k])
  BY Mine DEF Expand, At
<1> DEFINE row == call[k].row
           rows == IF row \in TagRow THEN {row} ELSE { r \in gov.objectTag : r.tag = row.tag }
<1>2. rows \in SUBSET TagRow
  BY Updated DEF TypeInv, WorldOK
<1>3. PICK reached : reached = Reached(rows, Cols)
  OBVIOUS
<1>4. reached \subseteq Tables \X Columns
  BY <1>2, <1>3, ReachedTyped, ColsTyped DEF TypeInv
<1> DEFINE b == [call[k] EXCEPT !.affected = reached]
<1>5. b \in Calling /\ b.op = "author" /\ b.row \in TagRow \cup Attachment
  BY <1>1, <1>4 DEF Calling, CallOK
<1>6. Keep(k, b) /\ Goto(k, "check") /\ UNCHANGED <<store, audit, catalog, derived, faults>>
  BY <1>3 DEF Expand
<1> HIDE DEF b
<1>7. CallOK("check", b)
  BY <1>5 DEF CallOK
<1>8. QED
  BY <1>6, <1>7, Learns DEF Expand, At

LEMMA CheckGoes == ASSUME TypeInv, NEW k \in Calls, Check(k) PROVE Goes(k)
<1>1. CallOK("check", call[k])
  BY Mine DEF Check, At
<1> DEFINE affected == call[k].affected
<1>2. CASE affected = {}
  <2>1. Goto(k, "insert") /\ UNCHANGED call /\ UNCHANGED <<store, audit, catalog, derived, faults>>
    BY <1>2 DEF Check
  <2>2. CallOK("insert", call[k])
    BY <1>1 DEF CallOK
  <2>3. QED
    BY <2>1, <2>2, GoesOn, Stays DEF Check, At, Goes, TypeInv
<1>3. CASE affected # {}
  <2>0. PICK t \in { x[1] : x \in affected } :
          LET cs == { x[2] : x \in { y \in affected : y[1] = t } }
          IN  /\ Goto(k, IF HasAnother(t, cs, call[k].policies) THEN "conflict" ELSE "check")
              /\ Keep(k, [call[k] EXCEPT !.affected = { x \in @ : x[1] # t }])
    BY <1>3 DEF Check
  <2>1. PICK l \in {"conflict", "check"} : Goto(k, l)
    BY <2>0
  <2> DEFINE b == [call[k] EXCEPT !.affected = { x \in @ : x[1] # t }]
  <2>2. b \in Calling /\ b.op = "author" /\ b.row \in TagRow \cup Attachment
    BY <1>1 DEF Calling, CallOK
  <2>3. Keep(k, b) /\ UNCHANGED <<store, audit, catalog, derived, faults>>
    BY <2>0 DEF Check
  <2> HIDE DEF b
  <2>4. CallOK(l, b)
    BY <2>2 DEF CallOK
  <2>5. QED
    BY <2>1, <2>3, <2>4, Learns DEF Check, At
<1>4. QED
  BY <1>2, <1>3

LEMMA InsertGoes == ASSUME TypeInv, NEW k \in Calls, Insert(k) PROVE Goes(k)
<1>1. CallOK("insert", call[k])
  BY Mine DEF Insert, At
<1> DEFINE row == call[k].row
           g == IF row \in TagRow THEN [gov EXCEPT !.objectTag = @ \cup {row}]
                                  ELSE [gov EXCEPT !.attachment = @ \cup {row}]
<1>2. gov \in Model
  BY DEF TypeInv, WorldOK
<1>3. row \in TagRow \cup Attachment
  BY <1>1 DEF CallOK
<1>4. g \in Model
  BY <1>2, <1>3 DEF Model
<1>5. Statement(g) /\ Goto(k, "audit") /\ UNCHANGED <<audit, catalog, derived, call, faults>>
  BY DEF Insert
<1> HIDE DEF g
<1>6. WorldOK' /\ ObjectsOK'
  BY <1>4, <1>5, Writes DEF TypeInv, WorldOK
<1>7. CallOK("audit", call[k])
  BY <1>1 DEF CallOK
<1>8. QED
  BY <1>5, <1>6, <1>7, GoesOn DEF Insert, At, Goes

LEMMA RemoveGoes == ASSUME TypeInv, NEW k \in Calls, Remove(k) PROVE Goes(k)
<1>1. CallOK("remove", call[k])
  BY Mine DEF Remove, At
<1> DEFINE row == call[k].row
           g == [gov EXCEPT !.objectTag = @ \ {row}, !.attachment = @ \ {row}]
<1>2. gov \in Model
  BY DEF TypeInv, WorldOK
<1>3. g \in Model
  BY <1>2 DEF Model
<1>4. Statement(g) /\ UNCHANGED <<audit, catalog, derived, call, faults>>
  BY DEF Remove
<1>5. PICK l \in {"audit", "ok"} : Goto(k, l)
  BY DEF Remove
<1> HIDE DEF g
<1>6. WorldOK' /\ ObjectsOK'
  BY <1>3, <1>4, Writes DEF TypeInv, WorldOK
<1>7. CallOK(l, call[k])
  BY <1>1 DEF CallOK
<1>8. QED
  BY <1>4, <1>5, <1>6, <1>7, GoesOn DEF Remove, At, Goes

LEMMA CountGoes == ASSUME TypeInv, NEW k \in Calls, Count(k) PROVE Goes(k)
<1>1. CallOK("count", call[k])
  BY Mine DEF Count, At
<1>2. PICK l \in {"conflict", "delete"} : Goto(k, l)
  BY DEF Count
<1>3. CallOK(l, call[k])
  BY <1>1 DEF CallOK
<1>4. QED
  BY <1>2, <1>3, GoesOn, Stays DEF Count, At, Goes, TypeInv

LEMMA DeleteRowGoes == ASSUME TypeInv, NEW k \in Calls, DeleteRow(k) PROVE Goes(k)
<1>1. CallOK("delete", call[k])
  BY Mine DEF DeleteRow, At
<1>2. PICK w : w = call[k].what
  OBVIOUS
<1> DEFINE g == [gov EXCEPT
                !.masking = [p \in MaskPolicies |-> IF p = w THEN None ELSE @[p]],
                !.rowAccess = [p \in RowPolicies |-> IF p = w THEN None ELSE @[p]],
                !.tag = @ \ {w}, !.role = @ \ {w}]
<1>3. gov \in Model
  BY DEF TypeInv, WorldOK
<1>4. /\ [p \in MaskPolicies |-> IF p = w THEN None ELSE gov.masking[p]]
             \in [MaskPolicies -> MaskBody \cup {None}]
      /\ [p \in RowPolicies |-> IF p = w THEN None ELSE gov.rowAccess[p]]
             \in [RowPolicies -> RowBody \cup {None}]
  BY <1>3, Updated
<1>5. g \in Model
  BY <1>3, <1>4 DEF Model
<1>6. Statement(g) /\ UNCHANGED <<audit, catalog, derived, call, faults>>
  BY <1>2 DEF DeleteRow
<1>7. PICK l \in {"audit", "missing"} : Goto(k, l)
  BY DEF DeleteRow
<1> HIDE DEF g
<1>8. WorldOK' /\ ObjectsOK'
  BY <1>5, <1>6, Writes DEF TypeInv, WorldOK
<1>9. CallOK(l, call[k])
  BY <1>1 DEF CallOK
<1>10. QED
  BY <1>6, <1>7, <1>8, <1>9, GoesOn DEF DeleteRow, At, Goes

LEMMA AuditGoes == ASSUME TypeInv, NEW k \in Calls, Audit(k) PROVE Goes(k)
<1>1. CallOK("audit", call[k])
  BY Mine DEF Audit, At
<1>2. CallOK("resync", call[k])
  BY <1>1 DEF CallOK
<1>3. WorldOK' /\ ObjectsOK'
  BY DEF Audit, TypeInv, WorldOK, ObjectsOK, store, catalog, derived
<1>4. QED
  BY <1>2, <1>3, GoesOn DEF Audit, At, Goes

\* Artifacts and stamps go, at the most.
Cleaned ==
    /\ faults' = faults \/ (faults < MaxFaults /\ faults' = faults + 1)
    /\ artifacts' \subseteq artifacts /\ stamped' \subseteq stamped

LEMMA Cleans ==
    ASSUME TypeInv, Cleaned, UNCHANGED <<store, audit, catalog>>
    PROVE  WorldOK' /\ ObjectsOK'
<1>1. faults' \in 0 .. MaxFaults
  BY GovernanceAssumption DEF Cleaned, TypeInv, WorldOK
<1>2. QED
  BY <1>1 DEF Cleaned, TypeInv, WorldOK, ObjectsOK, store, catalog

LEMMA ResyncsGo ==
    ASSUME TypeInv, NEW k \in Calls, ResyncViews(k) \/ ResyncExports(k) \/ ResyncProperties(k) \/ Answer(k)
    PROVE  Goes(k)
<1>1. CASE ResyncViews(k)
  <2>1. CallOK("resync", call[k])
    BY <1>1, Mine DEF ResyncViews, At
  <2>2. PICK t \in call[k].todo : /\ BestEffort(Clear("view", t) /\ UNCHANGED stamped)
                                  /\ Keep(k, [call[k] EXCEPT !.at = t, !.todo = @ \ {t}])
    BY <1>1 DEF ResyncViews
  <2>3. WorldOK' /\ ObjectsOK'
    <3>1. Cleaned
      BY <2>2 DEF BestEffort, Clear, Cleaned, derived
    <3>2. QED
      BY <1>1, <3>1, Cleans DEF ResyncViews
  <2>9. PICK todo : todo = call[k].todo \ {t}
    OBVIOUS
  <2> DEFINE b == [call[k] EXCEPT !.at = t, !.todo = todo]
  <2>4. b \in Calling /\ b.op # "read" /\ b.at \in Tables
    <3>1. call[k] \in Calling /\ call[k].op # "read"
      BY <2>1 DEF CallOK
    <3>2. t \in Tables /\ todo \in SUBSET Tables
      BY <2>2, <2>9, <3>1 DEF Calling
    <3>3. PICK c \in Calling : c = call[k] /\ c.op # "read"
      BY <3>1
    <3>4. b = [c EXCEPT !.at = t, !.todo = todo]
      BY <3>3
    <3> HIDE DEF b
    <3>5. b.op # "read" /\ b.at = t
      BY <3>3, <3>4 DEF Calling
    <3>6. b \in Calling
      BY <3>2, <3>4 DEF Calling
    <3>7. QED
      BY <3>2, <3>5, <3>6
  <2>5. Keep(k, b) /\ Goto(k, "exports")
    BY <1>1, <2>2, <2>9 DEF ResyncViews
  <2> HIDE DEF b
  <2>6. CallOK("exports", b)
    BY <2>4 DEF CallOK
  <2>7. QED
    BY <1>1, <2>3, <2>5, <2>6, Steps DEF Goes, Keep, Goto, ResyncViews, At
<1>2. CASE ResyncExports(k)
  <2>1. CallOK("exports", call[k])
    BY <1>2, Mine DEF ResyncExports, At
  <2>2. CallOK("properties", call[k])
    BY <2>1 DEF CallOK
  <2>3. WorldOK' /\ ObjectsOK'
    <3>1. Cleaned
      BY <1>2 DEF ResyncExports, BestEffort, Clear, Cleaned, derived
    <3>2. QED
      BY <1>2, <3>1, Cleans DEF ResyncExports
  <2>4. QED
    BY <1>2, <2>2, <2>3, GoesOn DEF Goes, ResyncExports, At
<1>3. CASE ResyncProperties(k)
  <2>1. CallOK("properties", call[k])
    BY <1>3, Mine DEF ResyncProperties, At
  <2>2. CallOK("resync", call[k])
    BY <2>1 DEF CallOK
  <2>3. WorldOK' /\ ObjectsOK'
    <3>1. Cleaned
      BY <1>3 DEF ResyncProperties, BestEffort, Cleaned, derived
    <3>2. QED
      BY <1>3, <3>1, Cleans DEF ResyncProperties
  <2>4. QED
    BY <1>3, <2>2, <2>3, GoesOn DEF Goes, ResyncProperties, At
<1>4. CASE Answer(k)
  <2>1. CallOK("ok", call[k])
    BY <1>4, Mine DEF Answer, At, CallOK
  <2>2. QED
    BY <1>4, <2>1, GoesOn, Stays DEF Answer, At, Goes, TypeInv
<1>5. QED
  BY <1>1, <1>2, <1>3, <1>4

LEMMA AlterNamespaceGoes == ASSUME TypeInv, NEW k \in Calls, AlterNamespace(k) PROVE Goes(k)
<1>1. pc[k] \in OnNamespaces /\ CallOK(pc[k], call[k])
  BY Mine DEF AlterNamespace, At
<1>2. call[k].at \in Schemas /\ call[k] \in Calling
  BY <1>1 DEF CallOK
<1>3. PICK l \in {"failed", "ok"} : Goto(k, l)
  BY DEF AlterNamespace
<1>4. namespaces' \subseteq Schemas
  BY <1>2 DEF AlterNamespace, TypeInv, WorldOK
<1>5. CallOK(l, call[k])
  BY <1>2 DEF CallOK
<1>6. Moves(k)
  BY <1>1, <1>3, <1>5, GoesOn DEF AlterNamespace
<1>7. WorldOK' /\ ObjectsOK'
  BY <1>4 DEF AlterNamespace, TypeInv, WorldOK, ObjectsOK, store, derived
<1>8. QED
  BY <1>6, <1>7 DEF Goes

LEMMA CreateGoes == ASSUME TypeInv, NEW k \in Calls, Create(k) PROVE Goes(k)
<1>1. CallOK("create", call[k]) /\ pc[k] = "create"
  BY Mine DEF Create, At
<1>2. PICK t \in Tables : t = call[k].at
  BY <1>1 DEF CallOK
<1>3. CallOK("failed", call[k]) /\ CallOK("ok", call[k])
  BY <1>1 DEF CallOK
<1>4. CASE t[1] \notin namespaces \/ live[t] # None
  <2>1. Goto(k, "failed") /\ UNCHANGED <<live, cols>>
    BY <1>2, <1>4 DEF Create
  <2>2. Moves(k)
    BY <1>1, <1>3, <2>1, GoesOn DEF Create
  <2>3. UNCHANGED <<store, audit, catalog, derived, faults>>
    BY <2>1 DEF Create, catalog
  <2>4. QED
    BY <2>2, <2>3, Stays DEF Goes, TypeInv
<1>5. CASE ~ (t[1] \notin namespaces \/ live[t] # None)
  <2>1. PICK i \in Unused, c \in Columns : /\ live' = [live EXCEPT ![t] = i]
                                          /\ cols' = [cols EXCEPT ![i] = {c}]
                                          /\ Goto(k, "ok")
    BY <1>2, <1>5 DEF Create
  <2>2. i \in Ids /\ cols[i] = {} /\ i # None
    BY Nones DEF Unused
  <2>3. \A u \in Tables : live[u] # i
    BY <2>2 DEF TypeInv, ObjectsOK
  <2>4. WorldOK'
    BY <2>1, <2>2 DEF Create, TypeInv, WorldOK, store, derived
  <2>5. live \in [Tables -> Ids \cup {None}] /\ cols \in [Ids -> SUBSET Columns] /\ ObjectsOK
    BY DEF TypeInv, WorldOK
  <2>6. ObjectsOK'
    BY <2>1, <2>2, <2>3, <2>5 DEF ObjectsOK
  <2>7. Moves(k)
    BY <1>1, <1>3, <2>1, GoesOn DEF Create
  <2>8. QED
    BY <2>4, <2>6, <2>7 DEF Goes
<1>6. QED
  BY <1>4, <1>5

LEMMA DropGoes == ASSUME TypeInv, NEW k \in Calls, Drop(k) PROVE Goes(k)
<1>1. CallOK("drop", call[k]) /\ pc[k] = "drop"
  BY Mine DEF Drop, At
<1>2. PICK t \in Tables : t = call[k].at
  BY <1>1 DEF CallOK
<1>3. CASE live[t] = None
  <2>1. Goto(k, "failed") /\ UNCHANGED <<live, call>>
    BY <1>2, <1>3 DEF Drop
  <2>2. CallOK("failed", call[k])
    BY <1>1 DEF CallOK
  <2>3. UNCHANGED <<store, audit, catalog, derived, faults>>
    BY <2>1 DEF Drop, catalog
  <2>4. QED
    BY <1>1, <2>1, <2>2, <2>3, GoesOn, Stays DEF Goes, TypeInv
<1>4. CASE live[t] # None
  <2>1. /\ live' = [live EXCEPT ![t] = None]
        /\ Keep(k, [call[k] EXCEPT !.object = live[t]])
        /\ Goto(k, "purge tags")
    BY <1>2, <1>4 DEF Drop
  <2>2. live \in [Tables -> Ids \cup {None}] /\ cols \in [Ids -> SUBSET Columns] /\ ObjectsOK
    BY DEF TypeInv, WorldOK
  <2>3. WorldOK' /\ ObjectsOK'
    BY <2>1, <2>2 DEF Drop, TypeInv, WorldOK, ObjectsOK, store, derived
  <2>4. PICK c \in Calling : c = call[k] /\ c.op = "ddl" /\ c.at = t
    BY <1>1, <1>2 DEF CallOK
  <2> DEFINE b == [c EXCEPT !.object = live[t]]
  <2>5. b \in Calling /\ b.op = "ddl" /\ b.at = t
    BY <1>4, <2>2, <2>4 DEF Calling
  <2>6. Keep(k, b)
    BY <2>1, <2>4
  <2> HIDE DEF b
  <2>7. CallOK("purge tags", b)
    BY <2>5 DEF CallOK
  <2>8. QED
    BY <1>1, <2>1, <2>3, <2>6, <2>7, Steps DEF Goes, Keep, Goto
<1>5. QED
  BY <1>3, <1>4

LEMMA RenameGoes == ASSUME TypeInv, NEW k \in Calls, Rename(k) PROVE Goes(k)
<1>1. CallOK("rename", call[k]) /\ pc[k] = "rename"
  BY Mine DEF Rename, At
<1>2. PICK t \in Tables : t = call[k].at
  BY <1>1 DEF CallOK
<1>3. PICK u \in Tables \ {t} : u = call[k].to
  BY <1>1, <1>2 DEF CallOK
<1>4. CASE t[1] # u[1] \/ live[t] = None \/ live[u] # None
  <2>1. Goto(k, "failed") /\ UNCHANGED <<live, call>>
    BY <1>2, <1>3, <1>4 DEF Rename
  <2>2. CallOK("failed", call[k])
    BY <1>1 DEF CallOK
  <2>3. UNCHANGED <<store, audit, catalog, derived, faults>>
    BY <2>1 DEF Rename, catalog
  <2>4. QED
    BY <1>1, <2>1, <2>2, <2>3, GoesOn, Stays DEF Goes, TypeInv
<1>5. CASE ~ (t[1] # u[1] \/ live[t] = None \/ live[u] # None)
  <2>1. /\ live' = [live EXCEPT ![t] = None, ![u] = live[t]]
        /\ Keep(k, [call[k] EXCEPT !.object = live[t]])
        /\ Goto(k, "carry tags")
    BY <1>2, <1>3, <1>5 DEF Rename
  <2>2. live \in [Tables -> Ids \cup {None}] /\ cols \in [Ids -> SUBSET Columns] /\ ObjectsOK
    BY DEF TypeInv, WorldOK
  <2>3. WorldOK' /\ ObjectsOK'
    BY <1>5, <2>1, <2>2 DEF Rename, TypeInv, WorldOK, ObjectsOK, store, derived
  <2>4. PICK c \in Calling : c = call[k] /\ c.op = "ddl" /\ c.at = t /\ c.to = u
    BY <1>1, <1>2, <1>3 DEF CallOK
  <2> DEFINE b == [c EXCEPT !.object = live[t]]
  <2>5. b \in Calling /\ b.op = "ddl" /\ b.at = t /\ b.to = u
    BY <1>5, <2>2, <2>4 DEF Calling
  <2>6. Keep(k, b)
    BY <2>1, <2>4
  <2> HIDE DEF b
  <2>7. CallOK("carry tags", b)
    BY <2>5 DEF CallOK
  <2>8. QED
    BY <1>1, <2>1, <2>3, <2>6, <2>7, Steps DEF Goes, Keep, Goto
<1>6. QED
  BY <1>4, <1>5

LEMMA PurgesGo ==
    ASSUME TypeInv, NEW k \in Calls, PurgeTags(k) \/ PurgeAttachments(k) \/ PurgeGrants(k)
    PROVE  Goes(k)
<1>1. pc[k] \in Purging /\ CallOK(pc[k], call[k])
  BY Mine DEF PurgeTags, PurgeAttachments, PurgeGrants, At
<1>2. gov \in Model
  BY DEF TypeInv, WorldOK
<1>3. /\ [gov EXCEPT !.objectTag = @ \ Named(@, call[k].at)] \in Model
      /\ [gov EXCEPT !.attachment = @ \ Named(@, call[k].at)] \in Model
      /\ [gov EXCEPT !.objectGrant = @ \ Named(@, call[k].at)] \in Model
  BY <1>2 DEF Model
<1>4. PICK g \in Model : Statement(g)
  BY <1>3 DEF PurgeTags, PurgeAttachments, PurgeGrants
<1>5. PICK l \in {"purge attachments", "purge grants", "audit"} : Goto(k, l)
  BY DEF PurgeTags, PurgeAttachments, PurgeGrants
<1>6. UNCHANGED <<audit, catalog, derived, call, faults>>
  BY DEF PurgeTags, PurgeAttachments, PurgeGrants
<1>7. WorldOK' /\ ObjectsOK'
  BY <1>4, <1>6, Writes DEF TypeInv, WorldOK
<1>8. CallOK(l, call[k])
  BY <1>1 DEF CallOK
<1>9. QED
  BY <1>1, <1>5, <1>6, <1>7, <1>8, GoesOn DEF Goes

\* The rows of a table keep their kind under its new name.
LEMMA MovedTyped ==
    ASSUME NEW t \in Tables, NEW u \in Tables, NEW Kind \in {TagRow, Attachment, ObjectGrant},
           NEW rows \in SUBSET Kind
    PROVE  Left(rows, t) \cup Carried(rows, t, u) \subseteq Kind
<1>1. ASSUME NEW r \in Named(rows, t) PROVE Renamed(r, u) \in Kind
  <2>1. r \in Kind /\ r.table \in Names /\ r.table # None
    BY Nones DEF Named, Tables
  <2>2. u[1] \in Schemas /\ u[2] \in Names
    BY DEF Tables
  <2>3. CASE Kind = TagRow
    BY <2>1, <2>2, <2>3, Nones DEF Renamed, TagRow
  <2>4. CASE Kind = Attachment
    BY <2>1, <2>2, <2>4, Nones DEF Renamed, Attachment
  <2>5. CASE Kind = ObjectGrant
    BY <2>1, <2>2, <2>5 DEF Renamed, ObjectGrant
  <2>6. QED
    BY <2>3, <2>4, <2>5
<1>2. QED
  BY <1>1 DEF Left, Carried

LEMMA CarriesGo ==
    ASSUME TypeInv, NEW k \in Calls, CarryTags(k) \/ CarryAttachments(k) \/ CarryGrants(k)
    PROVE  Goes(k)
<1>1. pc[k] \in Carrying /\ CallOK(pc[k], call[k])
  BY Mine DEF CarryTags, CarryAttachments, CarryGrants, At
<1>2. call[k].at \in Tables /\ call[k].to \in Tables
  BY <1>1 DEF CallOK
<1>3. gov \in Model
  BY DEF TypeInv, WorldOK
<1>4. /\ Moved(gov.objectTag, k) \subseteq TagRow
      /\ Moved(gov.attachment, k) \subseteq Attachment
      /\ Moved(gov.objectGrant, k) \subseteq ObjectGrant
  BY <1>2, <1>3, MovedTyped, Updated DEF Moved
<1>5. /\ [gov EXCEPT !.objectTag = Moved(@, k)] \in Model
      /\ [gov EXCEPT !.attachment = Moved(@, k)] \in Model
      /\ [gov EXCEPT !.objectGrant = Moved(@, k)] \in Model
  BY <1>3, <1>4, Updated
<1>6. PICK g \in Model : Statement(g) \/ UNCHANGED store
  BY <1>3, <1>5 DEF CarryTags, CarryAttachments, CarryGrants, CarryRows
<1>7. PICK l \in {"carry attachments", "carry grants", "audit", "broken"} : Goto(k, l)
  BY DEF CarryTags, CarryAttachments, CarryGrants, CarryRows
<1>8. UNCHANGED <<audit, catalog, derived, call, faults>>
  BY DEF CarryTags, CarryAttachments, CarryGrants
<1>9. WorldOK' /\ ObjectsOK'
  BY <1>6, <1>8, Writes DEF TypeInv, WorldOK
<1>10. CallOK(l, call[k])
  BY <1>1 DEF CallOK
<1>11. QED
  BY <1>1, <1>7, <1>8, <1>9, <1>10, GoesOn DEF Goes

LEMMA Changes ==
    ASSUME NEW ch \in Change
    PROVE  /\ ch[1] \in {"rename", "add", "drop"}
           /\ ch[2][1] \in Columns /\ ch[2][2] \in Columns
           /\ ch[1] = "rename" => ch[2][1] # ch[2][2]
BY DEF Change

LEMMA AlteredTyped ==
    ASSUME NEW ch \in Change, NEW cs \in SUBSET Columns, cs # {}, Possible(cs, ch)
    PROVE  Altered(cs, ch) \subseteq Columns /\ Altered(cs, ch) # {}
<1>1. CASE ch[1] = "add"
  BY <1>1, Changes DEF Altered
<1>2. CASE ch[1] = "drop"
  BY <1>2, Changes DEF Altered, Possible
<1>3. CASE ch[1] = "rename"
  BY <1>3, Changes DEF Altered
<1>4. QED
  BY <1>1, <1>2, <1>3, Changes

LEMMA AlterGoes == ASSUME TypeInv, NEW k \in Calls, Alter(k) PROVE Goes(k)
<1>1. CallOK("alter", call[k]) /\ pc[k] = "alter"
  BY Mine DEF Alter, At
<1>2. PICK t \in Tables : t = call[k].at
  BY <1>1 DEF CallOK
<1>3. PICK ch \in Change : ch = call[k].change
  BY <1>1 DEF CallOK
<1>4. CASE ~ (live[t] # None /\ Possible(Cols[t], ch))
  <2>1. Goto(k, "failed") /\ UNCHANGED <<cols, call>>
    BY <1>2, <1>3, <1>4 DEF Alter
  <2>2. CallOK("failed", call[k])
    BY <1>1 DEF CallOK
  <2>3. UNCHANGED <<store, audit, catalog, derived, faults>>
    BY <2>1 DEF Alter, catalog
  <2>4. QED
    BY <1>1, <2>1, <2>2, <2>3, GoesOn, Stays DEF Goes, TypeInv
<1>5. CASE live[t] # None /\ Possible(Cols[t], ch)
  <2>1. /\ cols' = [cols EXCEPT ![live[t]] = Altered(@, ch)]
        /\ Keep(k, [call[k] EXCEPT !.object = live[t]])
        /\ Goto(k, "commit")
    BY <1>2, <1>3, <1>5 DEF Alter
  <2>2. live \in [Tables -> Ids \cup {None}] /\ cols \in [Ids -> SUBSET Columns] /\ ObjectsOK
    BY DEF TypeInv, WorldOK
  <2>3. PICK i \in Ids : i = live[t]
    BY <1>5, <2>2
  <2>4. Cols[t] = cols[i]
    BY <1>5, <2>3 DEF Cols, ColumnsOf
  <2>5. cols[i] # {}
    BY <1>5, <2>2, <2>3 DEF ObjectsOK
  <2>6. PICK new : new = Altered(cols[i], ch)
    OBVIOUS
  <2>7. new \subseteq Columns /\ new # {}
    BY <1>5, <2>2, <2>4, <2>5, <2>6, AlteredTyped
  <2>8. cols' = [cols EXCEPT ![i] = new]
    BY <2>1, <2>2, <2>3, <2>6
  <2>9. WorldOK'
    BY <2>2, <2>7, <2>8 DEF Alter, TypeInv, WorldOK, store, derived
  <2>10. live' = live
    BY DEF Alter
  <2>11. ObjectsOK'
    BY <2>2, <2>7, <2>8, <2>10 DEF ObjectsOK
  <2>12. PICK c \in Calling : c = call[k] /\ c.op = "ddl" /\ c.at = t /\ c.change = ch
    BY <1>1, <1>2, <1>3 DEF CallOK
  <2> DEFINE b == [c EXCEPT !.object = i]
  <2>13. b \in Calling /\ b.op = "ddl" /\ b.at = t /\ b.change = ch
    BY <2>12 DEF Calling
  <2>14. Keep(k, b)
    BY <2>1, <2>3, <2>12
  <2> HIDE DEF b
  <2>15. CallOK("commit", b)
    BY <2>13 DEF CallOK
  <2>16. QED
    BY <1>1, <2>1, <2>9, <2>11, <2>14, <2>15, Steps DEF Goes, Keep, Goto
<1>6. QED
  BY <1>4, <1>5

\* Rows of a column keep their kind under its new name.
LEMMA RecolumnedTyped ==
    ASSUME NEW k, call[k].at \in Tables, call[k].change \in Change,
           NEW Kind \in {TagRow, Attachment}, NEW rows \in SUBSET Kind
    PROVE  Recolumned(rows, k) \subseteq Kind
<1>1. PICK ch \in Change : ch = call[k].change
  OBVIOUS
<1>2. ch[2][1] \in Columns /\ ch[2][2] \in Columns
  BY Changes
<1>3. ASSUME NEW r \in ColumnRows(rows, k) PROVE [r EXCEPT !.column = ch[2][2]] \in Kind
  <2>1. r \in Kind /\ r.table \in Names /\ r.table # None /\ r.column \in Columns /\ r.column # None
    BY <1>1, <1>2, Nones DEF ColumnRows, Named, Tables
  <2>2. CASE Kind = TagRow
    BY <1>2, <2>1, <2>2, Nones DEF TagRow
  <2>3. CASE Kind = Attachment
    BY <1>2, <2>1, <2>3, Nones DEF Attachment
  <2>4. QED
    BY <2>2, <2>3
<1>4. QED
  BY <1>1, <1>3 DEF Recolumned

LEMMA CommitSchemaGoes == ASSUME TypeInv, NEW k \in Calls, CommitSchema(k) PROVE Goes(k)
<1>1. CallOK("commit", call[k]) /\ pc[k] = "commit"
  BY Mine DEF CommitSchema, At
<1>2. call[k].at \in Tables /\ call[k].change \in Change
  BY <1>1 DEF CallOK
<1>3. gov \in Model
  BY DEF TypeInv, WorldOK
<1>4. Recolumned(gov.objectTag, k) \subseteq TagRow /\ Recolumned(gov.attachment, k) \subseteq Attachment
  BY <1>2, <1>3, RecolumnedTyped, Updated
<1>5. [gov EXCEPT !.objectTag = Recolumned(@, k), !.attachment = Recolumned(@, k)] \in Model
  BY <1>3, <1>4, Updated
<1>6. PICK g \in Model : Statement(g) \/ UNCHANGED store
  BY <1>3, <1>5 DEF CommitSchema
<1>7. audit' \subseteq Calls
  BY DEF CommitSchema, TypeInv, WorldOK
<1>8. Goto(k, "collect views") /\ UNCHANGED <<catalog, derived, call, faults>>
  BY DEF CommitSchema
<1>9. WorldOK' /\ ObjectsOK'
  BY <1>6, <1>7, <1>8, Writes
<1>10. CallOK("collect views", call[k])
  BY <1>1 DEF CallOK
<1>11. QED
  BY <1>1, <1>8, <1>9, <1>10, GoesOn DEF Goes

LEMMA Faulty ==
    ASSUME TypeInv, faults' = faults \/ (faults < MaxFaults /\ faults' = faults + 1),
           UNCHANGED <<store, audit, catalog, derived>>
    PROVE  WorldOK' /\ ObjectsOK'
<1>1. Cleaned
  BY DEF Cleaned, derived
<1>2. QED
  BY <1>1, Cleans

LEMMA AbortSchemaGoes == ASSUME TypeInv, NEW k \in Calls, AbortSchema(k) PROVE Goes(k)
<1>1. CallOK("commit", call[k]) /\ pc[k] = "commit"
  BY Mine DEF AbortSchema, At
<1>2. CallOK("broken", call[k])
  BY <1>1 DEF CallOK
<1>3. WorldOK' /\ ObjectsOK'
  BY Faulty DEF AbortSchema
<1>4. QED
  BY <1>1, <1>2, <1>3, GoesOn DEF AbortSchema, Goes

LEMMA CollectArtifactsGoes == ASSUME TypeInv, NEW k \in Calls, CollectArtifacts(k) PROVE Goes(k)
<1>1. pc[k] \in {"collect views", "collect exports"} /\ CallOK(pc[k], call[k])
  BY Mine DEF CollectArtifacts, At
<1>2. PICK l \in {"collect exports", "ok"} : Goto(k, l)
  BY DEF CollectArtifacts
<1>3. CallOK(l, call[k])
  BY <1>1 DEF CallOK
<1>4. Cleaned
  BY DEF CollectArtifacts, BestEffort, Clear, Cleaned, derived
<1>5. WorldOK' /\ ObjectsOK'
  BY <1>4, Cleans DEF CollectArtifacts
<1>6. QED
  BY <1>1, <1>2, <1>3, <1>5, GoesOn DEF CollectArtifacts, Goes

LEMMA CrashGoes == ASSUME TypeInv, NEW k \in Calls, Crash(k) PROVE Goes(k)
<1>1. CallOK("crashed", call[k]) /\ pc[k] \notin Ended
  BY Mine DEF Crash, CallOK
<1>2. WorldOK' /\ ObjectsOK'
  BY Faulty DEF Crash
<1>3. QED
  BY <1>1, <1>2, GoesOn DEF Crash, Goes

\* One more thing read, and on to the next.
LEMMA Remembered ==
    ASSUME NEW b \in Calling, b.op = "read", b.at \in Tables
    PROVE  /\ \A v \in Nat : CallOK("roles", [b EXCEPT !.stamp = v])
           /\ \A R \in SUBSET Roles : CallOK("columns", [b EXCEPT !.roles = R])
           /\ \A C \in SUBSET Columns : CallOK("tags", [b EXCEPT !.columns = C])
           /\ \A m \in Model, l \in {"attachments", "masking", "rowAccess"} :
                 CallOK(l, [b EXCEPT !.model = m])
           /\ \A m \in Model, p \in Plans, l \in {"ok", "materialise"} :
                 CallOK(l, [b EXCEPT !.model = m, !.plan = p])
<1>1. \A v \in Nat : LET d == [b EXCEPT !.stamp = v]
                     IN  d \in Calling /\ d.op = "read" /\ d.at \in Tables
  BY DEF Calling
<1>2. \A R \in SUBSET Roles : LET d == [b EXCEPT !.roles = R]
                              IN  d \in Calling /\ d.op = "read" /\ d.at \in Tables
  BY DEF Calling
<1>3. \A C \in SUBSET Columns : LET d == [b EXCEPT !.columns = C]
                                IN  d \in Calling /\ d.op = "read" /\ d.at \in Tables
  BY DEF Calling
<1>4. \A m \in Model : LET d == [b EXCEPT !.model = m]
                       IN  d \in Calling /\ d.op = "read" /\ d.at \in Tables
  BY DEF Calling
<1>5. \A m \in Model, p \in Plans :
        LET d == [b EXCEPT !.model = m, !.plan = p]
        IN  d \in Calling /\ d.op = "read" /\ d.at \in Tables /\ d.plan = p
  BY DEF Calling
<1>6. ASSUME NEW d \in Calling, d.op = "read", d.at \in Tables, NEW l \in Reads, l # "materialise"
      PROVE  CallOK(l, d)
  BY <1>6 DEF CallOK
<1>7. ASSUME NEW d \in Calling, d.op = "read", d.at \in Tables, d.plan \in Plans,
             NEW l \in {"ok", "materialise"}
      PROVE  CallOK(l, d)
  BY <1>7 DEF CallOK
<1>8. QED
  BY <1>1, <1>2, <1>3, <1>4, <1>5, <1>6, <1>7

LEMMA ReadsGo ==
    ASSUME TypeInv, NEW k \in Calls,
           \/ ReadStamp(k) \/ ReadRoles(k) \/ ReadColumns(k) \/ ReadTags(k)
           \/ ReadAttachments(k) \/ ReadMasking(k) \/ ReadRowAccess(k)
    PROVE  Goes(k)
<1>1. pc[k] \in Reads /\ CallOK(pc[k], call[k])
  BY Mine DEF ReadStamp, ReadRoles, ReadColumns, ReadTags, ReadAttachments, ReadMasking,
     ReadRowAccess, At
<1>2. PICK b \in Calling : b = call[k] /\ b.op = "read" /\ b.at \in Tables
  BY <1>1 DEF CallOK
<1>3. gov \in Model /\ version \in Nat /\ b.model \in Model
  BY <1>2 DEF TypeInv, WorldOK, Calling
<1>4. UNCHANGED <<store, audit, catalog, derived, faults>>
  BY DEF ReadStamp, ReadRoles, ReadColumns, ReadTags, ReadAttachments, ReadMasking, ReadRowAccess
<1>5. CASE ReadStamp(k)
  <2>1. CallOK("roles", [b EXCEPT !.stamp = version])
    BY <1>2, <1>3, Remembered
  <2>2. QED
    BY <1>1, <1>2, <1>4, <1>5, <2>1, Learns DEF ReadStamp
<1>6. CASE ReadRoles(k)
  <2>1. CallerRoles(gov, b) \subseteq Roles
    BY <1>3, PoliciesAssumption DEF CallerRoles, RolesOf
  <2>2. CallOK("columns", [b EXCEPT !.roles = CallerRoles(gov, b)])
    BY <1>2, <2>1, Remembered
  <2>3. QED
    BY <1>1, <1>2, <1>4, <1>6, <2>2, Learns DEF ReadRoles
<1>7. CASE ReadColumns(k)
  <2>1. Cols[b.at] \subseteq Columns
    BY <1>2, ColsTyped DEF TypeInv
  <2>2. CallOK("tags", [b EXCEPT !.columns = Cols[b.at]])
    BY <1>2, <2>1, Remembered
  <2>3. QED
    BY <1>1, <1>2, <1>4, <1>7, <2>2, Learns DEF ReadColumns
<1>8. CASE ReadTags(k)
  <2>1. [b.model EXCEPT !.objectTag = gov.objectTag] \in Model
    BY <1>3, Updated
  <2>2. CallOK("attachments", [b EXCEPT !.model.objectTag = gov.objectTag])
    BY <1>2, <2>1, Remembered
  <2>3. QED
    BY <1>1, <1>2, <1>4, <1>8, <2>2, Learns DEF ReadTags
<1>9. CASE ReadAttachments(k)
  <2>1. [b.model EXCEPT !.attachment = gov.attachment] \in Model
    BY <1>3, Updated
  <2>2. CallOK("masking", [b EXCEPT !.model.attachment = gov.attachment])
    BY <1>2, <2>1, Remembered
  <2>3. QED
    BY <1>1, <1>2, <1>4, <1>9, <2>2, Learns DEF ReadAttachments
<1>10. CASE ReadMasking(k)
  <2>1. [b.model EXCEPT !.masking = gov.masking] \in Model
    BY <1>3 DEF Model
  <2>2. CallOK("rowAccess", [b EXCEPT !.model.masking = gov.masking])
    BY <1>2, <2>1, Remembered
  <2>3. QED
    BY <1>1, <1>2, <1>4, <1>10, <2>2, Learns DEF ReadMasking
<1>11. CASE ReadRowAccess(k)
  <2>1. PICK plan : plan = Plan([b.model EXCEPT !.rowAccess = gov.rowAccess], b.at, b.columns, b.roles)
    OBVIOUS
  <2>2. [b.model EXCEPT !.rowAccess = gov.rowAccess] \in Model
    BY <1>3 DEF Model
  <2>3. plan \in Plans
    BY <1>2, <2>1, <2>2, PlanTyped DEF Calling
  <2>4. PICK l \in {"ok", "materialise"} : Goto(k, l)
    BY <1>11 DEF ReadRowAccess
  <2>5. CallOK(l, [b EXCEPT !.model = Empty, !.plan = plan])
    BY <1>2, <2>3, EmptyTyped, Remembered
  <2>6. Keep(k, [b EXCEPT !.model = Empty, !.plan = plan])
    BY <1>2, <1>11, <2>1 DEF ReadRowAccess
  <2>7. QED
    BY <1>1, <1>4, <2>4, <2>5, <2>6, Learns
<1>12. QED
  BY <1>5, <1>6, <1>7, <1>8, <1>9, <1>10, <1>11

LEMMA MaterialiseGoes == ASSUME TypeInv, NEW k \in Calls, Materialise(k) PROVE Goes(k)
<1>1. pc[k] = "materialise" /\ CallOK("materialise", call[k])
  BY Mine DEF Materialise, At
<1>2. PICK b \in Calling : b = call[k] /\ b.op = "read" /\ b.at \in Tables /\ b.plan \in Plans
  BY <1>1 DEF CallOK
<1>3. PICK sig : sig = Signature(b.at, b.columns, b.plan)
  OBVIOUS
<1>4. b.columns \subseteq Columns
  BY <1>2 DEF Calling
<1>5. sig \in Signatures
  BY <1>2, <1>3, <1>4 DEF Signature, Signatures, Plans
<1>6. artifacts' \subseteq {"view", "export"} \X Signatures
  <2>1. artifacts \subseteq {"view", "export"} \X Signatures
    BY DEF TypeInv, WorldOK
  <2>2. artifacts' \subseteq artifacts \cup {"view", "export"} \X {sig}
    BY <1>2, <1>3 DEF Materialise
  <2>3. QED
    BY <1>5, <2>1, <2>2
<1>7. WorldOK' /\ ObjectsOK'
  BY <1>6 DEF Materialise, TypeInv, WorldOK, ObjectsOK, store, catalog
<1>8. PICK l \in {"interlock", "ok"} : Goto(k, l)
  BY DEF Materialise
<1>9. CallOK(l, call[k])
  BY <1>1 DEF CallOK
<1>10. QED
  BY <1>1, <1>7, <1>8, <1>9, GoesOn DEF Materialise, Goes

LEMMA InterlockGoes == ASSUME TypeInv, NEW k \in Calls, Interlock(k) PROVE Goes(k)
<1>1. pc[k] = "interlock" /\ CallOK("interlock", call[k])
  BY Mine DEF Interlock, At
<1>2. CallOK("ok", call[k]) /\ call[k].at \in Tables
  BY <1>1 DEF CallOK
<1>3. WorldOK' /\ ObjectsOK'
  BY <1>2 DEF Interlock, TypeInv, WorldOK, ObjectsOK, store, catalog
<1>4. QED
  BY <1>1, <1>2, <1>3, GoesOn DEF Interlock, Goes

\* Every step is a step of one call, and keeps the types of the world.
LEMMA StepGoes ==
    ASSUME TypeInv, NEW k \in Calls, Authoring(k) \/ Definition(k) \/ Reading(k) \/ Crash(k)
    PROVE  Goes(k)
<1>1. CASE Authoring(k)
  BY <1>1, StatementsGo, AttachPolicyGoes, AssignObjectTagGoes, ExpandGoes, CheckGoes, InsertGoes,
     DetachGoes, RemoveObjectTagGoes, RemoveGoes, DeleteGoes, CountGoes, DeleteRowGoes, AuditGoes,
     ResyncsGo DEF Authoring
<1>2. CASE Definition(k)
  BY <1>2, NamespacesAsked, AlterNamespaceGoes, CreateTableGoes, CreateGoes, DropTableGoes, DropGoes,
     PurgesGo, RenameTableGoes, RenameGoes, CarriesGo, AlterSchemaGoes, AlterGoes, CommitSchemaGoes,
     AbortSchemaGoes, CollectArtifactsGoes DEF Definition
<1>3. CASE Reading(k)
  BY <1>3, ReadGoes, ReadsGo, MaterialiseGoes, InterlockGoes DEF Reading
<1>4. QED
  BY <1>1, <1>2, <1>3, CrashGoes

LEMMA TypesKept == TypeInv /\ [Next]_vars => TypeInv'
<1> SUFFICES ASSUME TypeInv, [Next]_vars PROVE TypeInv'
  OBVIOUS
<1>1. CASE UNCHANGED vars
  <2>1. WorldOK' /\ ObjectsOK' /\ HistoryOK'
    BY <1>1 DEF vars, system, store, catalog, derived, TypeInv, WorldOK, ObjectsOK, HistoryOK
  <2>2. pc' = pc /\ call' = call
    BY <1>1 DEF vars, system
  <2>3. CallsOK'
    BY <2>2 DEF TypeInv, CallsOK
  <2>4. QED
    BY <2>1, <2>3 DEF TypeInv
<1>2. CASE Step /\ History
  <2>1. PICK k \in Calls : Goes(k)
    BY <1>2, StepGoes DEF Step
  <2>2. WorldOK' /\ ObjectsOK'
    BY <2>1 DEF Goes
  <2>3. CallsOK'
    <3>1. pc'[k] \in Labels /\ call'[k] \in Calling /\ CallOK(pc'[k], call'[k])
      BY <2>1 DEF Goes, Moves, CallOK
    <3>2. pc' = [pc EXCEPT ![k] = pc'[k]] /\ call' = [call EXCEPT ![k] = call'[k]]
      BY <2>1 DEF Goes, Moves
    <3>3. pc \in [Calls -> Labels] /\ call \in [Calls -> Calling]
      BY DEF TypeInv, CallsOK
    <3>4. pc' \in [Calls -> Labels] /\ call' \in [Calls -> Calling]
      BY <3>1, <3>2, <3>3
    <3>5. ASSUME NEW j \in Calls PROVE CallOK(pc'[j], call'[j])
      <4>1. CASE j = k
        BY <3>1, <4>1
      <4>2. CASE j # k
        <5>1. pc'[j] = pc[j] /\ call'[j] = call[j]
          BY <3>2, <3>3, <4>2
        <5>2. QED
          BY <5>1, Mine
      <4>3. QED
        BY <4>1, <4>2
    <3>6. QED
      BY <3>4, <3>5 DEF CallsOK
  <2>4. HistoryOK'
    <3>1. \A i \in Ids : Under(gov', live', cols', i) \subseteq MaskPolicies \cup RowPolicies
      BY MasksTyped, FiltersTyped DEF Under
    <3>2. owed' \in [Ids -> SUBSET (MaskPolicies \cup RowPolicies)]
      BY <1>2, <3>1 DEF History, TypeInv, HistoryOK
    <3>3. overlap' \subseteq {"any", "ddl"} /\ ahead' \in BOOLEAN
      BY <1>2 DEF History, TypeInv, HistoryOK
    <3>4. QED
      BY <3>2, <3>3 DEF HistoryOK
  <2>5. QED
    BY <2>2, <2>3, <2>4 DEF TypeInv
<1>3. QED
  BY <1>1, <1>2 DEF Next, Done

LEMMA Typed == Spec => []TypeInv
<1>1. Init => TypeInv
  BY Initially
<1>2. TypeInv /\ [Next]_vars => TypeInv'
  BY TypesKept
<1>3. QED
  BY <1>1, <1>2, PTL DEF Spec

LEMMA TypesSuffice == TypeInv => TypeOK
<1> SUFFICES ASSUME TypeInv PROVE TypeOK
  OBVIOUS
<1>1. \A a \in artifacts : a[1] \in {"view", "export"} /\ a[2].table \in Tables
  BY DEF TypeInv, WorldOK, Signatures
<1>2. ASSUME NEW k \in Calls
      PROVE  /\ call[k].row \in TagRow \cup Attachment \cup {None}
             /\ call[k].affected \subseteq (Tables \X Columns)
             /\ call[k].policies \subseteq MaskPolicies \cup RowPolicies
             /\ call[k].todo \subseteq Tables /\ call[k].stamp \in Nat
             /\ call[k].model \in Model
  BY Mine DEF Calling
<1>3. QED
  BY <1>1, <1>2 DEF TypeInv, WorldOK, ObjectsOK, CallsOK, HistoryOK, TypeOK

\* TypeOK: what the sidecar tables, the catalog and the calls hold is of the
\* kind the code reads from them, whatever is authored, defined and read.
THEOREM TypeCorrect == Spec => []TypeOK
BY Typed, TypesSuffice, PTL

----------------------------------------------------------------------------
(***************************************************************************)
(* What a plan rests on.                                                   *)
(***************************************************************************)

\* An attachment that reaches the table.
Reaches(x, g, t) ==
    \/ x.target \in {"column", "table"} /\ x.schema = t[1] /\ x.table = t[2]
    \/ x.target = "tag" /\ \E r \in g.objectTag :
           /\ r.tag = x.tag /\ r.schema = t[1]
           /\ r.on = "schema" \/ r.table = t[2]

LEMMA TagsReach ==
    ASSUME NEW g, NEW t, NEW c, NEW tag \in TagsOn(g, t, c)
    PROVE  \E r \in g.objectTag : r.tag = tag /\ r.schema = t[1] /\ (r.on = "schema" \/ r.table = t[2])
BY DEF TagsOn, Cascading

LEMMA PlanReached ==
    ASSUME NEW g, NEW t, NEW cs, NEW roles, ~ IsEmpty(Plan(g, t, cs, roles))
    PROVE  \E x \in g.attachment : Reaches(x, g, t)
<1> DEFINE masked == { c \in cs : Applicable(g, t, c, roles) # {} }
<1>1. masked # {} \/ FiltersOn(g, t) # {}
  BY DEF IsEmpty, Plan
<1>2. CASE masked # {}
  <2>1. PICK c \in cs : MasksOn(g, t, c) # {}
    BY <1>2 DEF Applicable
  <2>2. PICK x \in g.attachment :
            \/ x.target = "tag" /\ x.tag \in TagsOn(g, t, c)
            \/ x.target = "column" /\ x.schema = t[1] /\ x.table = t[2] /\ x.column = c
    BY <2>1 DEF MasksOn, Masking
  <2>3. QED
    BY <2>2, TagsReach DEF Reaches
<1>3. CASE FiltersOn(g, t) # {}
  <2>1. PICK x \in g.attachment :
            \/ x.target = "table" /\ x.schema = t[1] /\ x.table = t[2]
            \/ x.target = "tag" /\ x.tag \in Cascading(g, t)
    BY <1>3 DEF FiltersOn
  <2>2. Cascading(g, t) \subseteq TagsOn(g, t, None)
    BY DEF TagsOn
  <2>3. QED
    BY <2>1, <2>2, TagsReach DEF Reaches
<1>4. QED
  BY <1>1, <1>2, <1>3

LEMMA ReachedIsCandidate ==
    ASSUME NEW g \in Model, NEW t \in Tables, NEW there, t \in there,
           NEW x \in g.attachment, Reaches(x, g, t)
    PROVE  t \in Candidates(g, t[1], there)
<1> DEFINE attached == { a.tag : a \in { y \in g.attachment : y.target = "tag" } }
           tagged(on) == { r \in g.objectTag : r.schema = t[1] /\ r.on \in on /\ r.tag \in attached }
<1>1. t = <<t[1], t[2]>> /\ t[2] # None
  BY Nones DEF Tables
<1>2. CASE tagged({"schema"}) # {}
  BY <1>2 DEF Candidates
<1>3. CASE tagged({"schema"}) = {}
  <2>1. CASE x.target \in {"column", "table"} /\ x.schema = t[1] /\ x.table = t[2]
    BY <1>1, <1>3, <2>1 DEF Candidates
  <2>2. CASE x.target = "tag"
    <3>1. PICK r \in g.objectTag : r.tag = x.tag /\ r.schema = t[1] /\ (r.on = "schema" \/ r.table = t[2])
      BY <2>2 DEF Reaches
    <3>2. r.tag \in attached
      BY <2>2, <3>1
    <3>3. r.on # "schema"
      BY <1>3, <3>1, <3>2
    <3>4. r.on \in {"table", "column"}
      BY <3>3 DEF Model, TagRow
    <3>5. r \in tagged({"table", "column"})
      BY <3>1, <3>2, <3>4
    <3>6. QED
      BY <1>1, <1>3, <3>1, <3>3, <3>5 DEF Candidates
  <2>3. QED
    BY <2>1, <2>2 DEF Reaches
<1>4. QED
  BY <1>2, <1>3

LEMMA LayeredIsKnown ==
    ASSUME NEW g, NEW t, NEW cs, NEW roles, Plan(g, t, cs, roles).fileLayer,
           ~ Plan(g, t, cs, roles).forced
    PROVE  HasFileLayer(g)
<1> DEFINE masks == { <<c, Lowest(Applicable(g, t, c, roles))>> :
                        c \in { x \in cs : Applicable(g, t, x, roles) # {} } }
           layered == { m[2] : m \in { x \in masks : g.masking[x[2]] # None
                                                     /\ g.masking[x[2]].fileLayer } }
<1>1. layered # {}
  BY DEF Plan
<1>2. PICK c, p : p \in Applicable(g, t, c, roles) /\ g.masking[p] # None /\ g.masking[p].fileLayer
  BY <1>1, LowestOf
<1>3. p \in MaskPolicies
  BY <1>2, MasksTyped DEF Applicable
<1>4. QED
  BY <1>2, <1>3 DEF HasFileLayer

LEMMA CandidatesSuffice == TypeInv => CandidatesCoverPlans
<1> SUFFICES ASSUME TypeInv PROVE CandidatesCoverPlans
  OBVIOUS
<1>1. gov \in Model
  BY DEF TypeInv, WorldOK
<1>2. PICK there : there = { x \in Tables : live[x] # None }
  OBVIOUS
<1>3. ASSUME NEW t \in there, NEW roles \in SUBSET Roles
      PROVE  LET plan == Plan(gov, t, Cols[t], roles)
             IN  /\ ~ IsEmpty(plan) => t \in Candidates(gov, t[1], there)
                 /\ plan.fileLayer /\ ~ plan.forced => HasFileLayer(gov)
  <2>1. PICK cs : cs = Cols[t]
    OBVIOUS
  <2>2. ~ IsEmpty(Plan(gov, t, cs, roles)) => t \in Candidates(gov, t[1], there)
    BY <1>1, <1>2, PlanReached, ReachedIsCandidate
  <2>3. QED
    BY <2>1, <2>2, LayeredIsKnown
<1>4. QED
  BY <1>2, <1>3 DEF CandidatesCoverPlans

\* CandidatesCoverPlans: tables_with_policies and has_file_layer_policies
\* leave out no table that a caller of any roles has a plan for.
THEOREM NoneLeftOut == Spec => []CandidatesCoverPlans
BY Typed, CandidatesSuffice, PTL

----------------------------------------------------------------------------
(***************************************************************************)
(* A plan is of one version.                                               *)
(***************************************************************************)

\* What a plan is a function of.
LEMMA SamePlan ==
    ASSUME NEW g, NEW h, g.objectTag = h.objectTag, g.attachment = h.attachment,
           g.masking = h.masking, g.rowAccess = h.rowAccess, NEW t, NEW cs, NEW roles
    PROVE  Plan(g, t, cs, roles) = Plan(h, t, cs, roles)
<1>1. Cascading(g, t) = Cascading(h, t)
  BY DEF Cascading
<1>2. \A c : TagsOn(g, t, c) = TagsOn(h, t, c)
  BY <1>1 DEF TagsOn
<1>3. \A c : MasksOn(g, t, c) = MasksOn(h, t, c)
  BY <1>2 DEF MasksOn, Masking
<1>4. FiltersOn(g, t) = FiltersOn(h, t)
  BY <1>1 DEF FiltersOn
<1>5. \A c : Applicable(g, t, c, roles) = Applicable(h, t, c, roles)
  BY <1>3 DEF Applicable
<1>6. QED
  BY <1>4, <1>5 DEF Plan

Deriving == {"stamp", "roles", "columns", "tags", "attachments", "masking", "rowAccess"}

\* What a read has read by l, of the version it has stamped.
Fresh(l, b, g) ==
    /\ l \in Deriving \ {"stamp", "roles"} => b.roles = CallerRoles(g, b)
    /\ l \in {"attachments", "masking", "rowAccess"} => b.model.objectTag = g.objectTag
    /\ l \in {"masking", "rowAccess"} => b.model.attachment = g.attachment
    /\ l = "rowAccess" => b.model.masking = g.masking
    /\ b.plan # None => b.plan = Plan(g, b.at, b.columns, CallerRoles(g, b))

WholeOK(l, b, g, v) ==
    /\ b.op # "read" => b.plan = None /\ b.stamp = 0
    /\ l \in Deriving => b.plan = None
    /\ b.stamp <= v
    /\ b.stamp = v => Fresh(l, b, g)

WholeInv == \A k \in Calls : WholeOK(pc[k], call[k], gov, version)

LEMMA After ==
    ASSUME TypeInv, NEW k \in Calls
    PROVE  /\ \A l : Goto(k, l) => pc'[k] = l
           /\ \A b : Keep(k, b) => call'[k] = b
           /\ \A b, l : Ask(k, b, l) => pc[k] = "idle" /\ pc'[k] = l /\ call'[k] = b
BY DEF TypeInv, CallsOK, Goto, Keep, Ask, At

LEMMA BlankIs == Blank.plan = None /\ Blank.stamp = 0 /\ Blank.op = "author"
BY DEF Blank

Modest(b) == b.op # "read" /\ b.plan = None /\ b.stamp = 0

LEMMA ModestAsks ==
    ASSUME TypeInv, NEW k \in Calls,
           \/ AttachPolicy(k) \/ AssignObjectTag(k) \/ Detach(k) \/ RemoveObjectTag(k) \/ Delete(k)
           \/ CreateNamespace(k) \/ DropNamespace(k) \/ CreateTable(k) \/ DropTable(k)
           \/ RenameTable(k) \/ AlterSchema(k)
    PROVE  Modest(call'[k]) /\ UNCHANGED store
<1>1. \A x, y, z, w : LET b == [Blank EXCEPT !.row = x, !.policies = y, !.affected = z]
                          d == [Blank EXCEPT !.row = x, !.policies = y]
                          e == [Blank EXCEPT !.row = x, !.todo = y]
                          f == [Blank EXCEPT !.what = x]
                      IN  Modest(b) /\ Modest(d) /\ Modest(e) /\ Modest(f)
  BY DEF Blank, Modest
<1>2. \A x, y, z : LET b == [Blank EXCEPT !.op = "ddl", !.at = x]
                       d == [Blank EXCEPT !.op = "ddl", !.at = x, !.todo = y]
                       e == [Blank EXCEPT !.op = "ddl", !.at = x, !.to = y, !.todo = z]
                       f == [Blank EXCEPT !.op = "ddl", !.at = x, !.change = y]
                   IN  Modest(b) /\ Modest(d) /\ Modest(e) /\ Modest(f)
  BY DEF Blank, Modest
<1>3. PICK b, l : Ask(k, b, l) /\ Modest(b)
  <2>1. CASE AttachPolicy(k)
    <3>1. PICK a \in Attachment : \E l :
            Ask(k, [Blank EXCEPT !.row = a, !.policies = {a.policy}, !.affected =
                       IF a.target = "column" THEN {<<<<a.schema, a.table>>, a.column>>} ELSE {}], l)
      BY <2>1 DEF AttachPolicy
    <3>2. QED
      BY <1>1, <3>1
  <2>2. CASE AssignObjectTag(k)
    BY <1>1, <2>2 DEF AssignObjectTag
  <2>3. CASE Detach(k)
    BY <1>1, <2>3 DEF Detach
  <2>4. CASE RemoveObjectTag(k)
    BY <1>1, <2>4 DEF RemoveObjectTag
  <2>5. CASE Delete(k)
    BY <1>1, <2>5 DEF Delete
  <2>6. CASE CreateNamespace(k) \/ DropNamespace(k)
    BY <1>2, <2>6 DEF CreateNamespace, DropNamespace
  <2>7. CASE CreateTable(k)
    BY <1>2, <2>7 DEF CreateTable
  <2>8. CASE DropTable(k)
    <3>1. PICK t \in Tables : \E l : Ask(k, [Blank EXCEPT !.op = "ddl", !.at = t, !.todo = {t}], l)
      BY <2>8 DEF DropTable
    <3>2. Modest([Blank EXCEPT !.op = "ddl", !.at = t, !.todo = {t}])
      BY <1>2
    <3>3. QED
      BY <3>1, <3>2
  <2>9. CASE RenameTable(k)
    <3>1. PICK t \in Tables, u \in Tables : \E l :
            Ask(k, [Blank EXCEPT !.op = "ddl", !.at = t, !.to = u, !.todo = {t, u}], l)
      BY <2>9 DEF RenameTable
    <3>2. Modest([Blank EXCEPT !.op = "ddl", !.at = t, !.to = u, !.todo = {t, u}])
      BY <1>2
    <3>3. QED
      BY <3>1, <3>2
  <2>10. CASE AlterSchema(k)
    BY <1>2, <2>10 DEF AlterSchema
  <2>11. QED
    BY <2>1, <2>2, <2>3, <2>4, <2>5, <2>6, <2>7, <2>8, <2>9, <2>10
<1>4. UNCHANGED store
  BY DEF AttachPolicy, AssignObjectTag, Detach, RemoveObjectTag, Delete, CreateNamespace,
     DropNamespace, CreateTable, DropTable, RenameTable, AlterSchema
<1>5. QED
  BY <1>3, <1>4, After

LEMMA NoReader ==
    ASSUME TypeInv, NEW k \in Calls, pc[k] \notin Ended, pc[k] \notin Reads PROVE call[k].op # "read"
<1>1. CallOK(pc[k], call[k]) /\ pc[k] \in Labels
  BY Mine DEF CallOK
<1>2. CASE pc[k] = "idle"
  BY <1>1, <1>2, BlankIs DEF CallOK
<1>3. CASE pc[k] # "idle"
  BY <1>1, <1>3 DEF CallOK
<1>4. QED
  BY <1>2, <1>3

LEMMA ModestSteps ==
    ASSUME TypeInv, WholeInv, NEW k \in Calls, Authoring(k) \/ Definition(k) \/ Crash(k)
    PROVE  Modest(call'[k]) /\ (UNCHANGED store \/ version' = version + 1)
<1>1. ASSUME pc[k] \notin Ended \cup Reads PROVE Modest(call[k])
  BY <1>1, NoReader DEF WholeInv, WholeOK, Modest
<1>2. CASE \/ CreateTag(k) \/ CreateMaskingPolicy(k) \/ CreateRowAccessPolicy(k)
           \/ CreateRole(k) \/ GrantRole(k) \/ GrantObject(k)
           \/ RevokeRole(k) \/ RevokeObjectGrant(k) \/ SetStaticKey(k) \/ DeleteStaticKey(k)
  <2>1. PICK g, l : Author(k, g, l)
    BY <1>2 DEF CreateTag, CreateMaskingPolicy, CreateRowAccessPolicy, CreateRole, GrantRole,
       GrantObject, RevokeRole, RevokeObjectGrant, SetStaticKey, DeleteStaticKey
  <2>2. QED
    BY <1>1, <2>1 DEF Author, At, Statement
<1>3. CASE \/ AttachPolicy(k) \/ AssignObjectTag(k) \/ Detach(k) \/ RemoveObjectTag(k) \/ Delete(k)
           \/ CreateNamespace(k) \/ DropNamespace(k) \/ CreateTable(k) \/ DropTable(k)
           \/ RenameTable(k) \/ AlterSchema(k)
  BY <1>3, ModestAsks
<1>4. CASE \/ Insert(k) \/ Remove(k) \/ Count(k) \/ DeleteRow(k) \/ Audit(k)
           \/ ResyncExports(k) \/ ResyncProperties(k) \/ Answer(k)
  BY <1>1, <1>4 DEF Insert, Remove, Count, DeleteRow, Audit, ResyncExports, ResyncProperties,
     Answer, At, Statement
<1>5. CASE \/ AlterNamespace(k) \/ Create(k) \/ PurgeTags(k) \/ PurgeAttachments(k) \/ PurgeGrants(k)
           \/ CarryTags(k) \/ CarryAttachments(k) \/ CarryGrants(k)
           \/ CommitSchema(k) \/ AbortSchema(k) \/ CollectArtifacts(k)
  BY <1>1, <1>5 DEF AlterNamespace, Create, PurgeTags, PurgeAttachments, PurgeGrants, CarryTags,
     CarryAttachments, CarryGrants, CarryRows, CommitSchema, AbortSchema, CollectArtifacts, At, Statement
<1>6. CASE Expand(k) \/ Check(k) \/ ResyncViews(k) \/ Drop(k) \/ Rename(k) \/ Alter(k)
  <2>1. UNCHANGED store /\ pc[k] \notin Ended \cup Reads
    BY <1>6 DEF Expand, Check, ResyncViews, Drop, Rename, Alter, At
  <2>2. \A x, y : /\ Modest([call[k] EXCEPT !.affected = x]) /\ Modest([call[k] EXCEPT !.object = x])
                  /\ Modest([call[k] EXCEPT !.at = x, !.todo = y])
    <3>1. PICK b \in Calling : b = call[k] /\ Modest(b)
      BY <1>1, <2>1, Mine
    <3>2. \A x, y : /\ Modest([b EXCEPT !.affected = x]) /\ Modest([b EXCEPT !.object = x])
                    /\ Modest([b EXCEPT !.at = x, !.todo = y])
      BY <3>1 DEF Calling, Modest
    <3>3. QED
      BY <3>1, <3>2
  <2>3. CASE UNCHANGED call
    BY <1>1, <2>1, <2>3
  <2>4. CASE Expand(k)
    <3>1. PICK rows : Keep(k, [call[k] EXCEPT !.affected = Reached(rows, Cols)])
      BY <2>4 DEF Expand
    <3>2. QED
      BY <2>1, <2>2, <3>1, After
  <2>5. CASE Check(k) /\ call' # call
    <3>1. PICK t : Keep(k, [call[k] EXCEPT !.affected = { x \in @ : x[1] # t }])
      BY <2>5 DEF Check
    <3>2. QED
      BY <2>1, <2>2, <3>1, After
  <2>6. CASE ResyncViews(k)
    <3>1. PICK t : Keep(k, [call[k] EXCEPT !.at = t, !.todo = @ \ {t}])
      BY <2>6 DEF ResyncViews
    <3>2. Modest([call[k] EXCEPT !.at = t, !.todo = @ \ {t}])
      BY <2>2
    <3>3. QED
      BY <2>1, <3>1, <3>2, After
  <2>7. CASE (Drop(k) \/ Rename(k) \/ Alter(k)) /\ call' # call
    <3>1. Keep(k, [call[k] EXCEPT !.object = live[call[k].at]])
      BY <2>7 DEF Drop, Rename, Alter
    <3>2. QED
      BY <2>1, <2>2, <3>1, After
  <2>8. QED
    BY <1>6, <2>3, <2>4, <2>5, <2>6, <2>7
<1>7. CASE Crash(k)
  BY <1>1, <1>7, NoReader, Mine DEF Crash, Modest, WholeInv, WholeOK
<1>8. QED
  BY <1>2, <1>3, <1>4, <1>5, <1>6, <1>7 DEF Authoring, Definition

\* A read puts together what it stamped.
LEMMA ReadsWhole ==
    ASSUME TypeInv, WholeInv, NEW k \in Calls, Reading(k)
    PROVE  UNCHANGED store /\ WholeOK(pc'[k], call'[k], gov, version)
<1>1. CASE Read(k)
  <2>1. PICK t, p, agent : Ask(k, [Blank EXCEPT !.op = "read", !.at = t, !.what = p, !.agent = agent], "stamp")
    BY <1>1 DEF Read
  <2> DEFINE b == [Blank EXCEPT !.op = "read", !.at = t, !.what = p, !.agent = agent]
  <2>2. b.plan = None /\ b.stamp = 0
    BY DEF Blank
  <2>3. call'[k] = b /\ pc'[k] = "stamp"
    BY <2>1, After
  <2> HIDE DEF b
  <2>4. 0 <= version
    BY DEF TypeInv, WorldOK
  <2>5. QED
    BY <1>1, <2>2, <2>3, <2>4 DEF Read, WholeOK, Fresh
<1>2. CASE Materialise(k) \/ Interlock(k)
  <2>1. pc[k] \in {"materialise", "interlock"} /\ UNCHANGED <<call, store>>
    BY <1>2 DEF Materialise, Interlock, At
  <2>2. pc'[k] \in {"interlock", "ok"}
    BY <1>2, After DEF Materialise, Interlock
  <2>3. WholeOK(pc[k], call[k], gov, version)
    BY DEF WholeInv
  <2>4. QED
    BY <2>1, <2>2, <2>3 DEF WholeOK, Fresh, Deriving
<1>3. CASE \/ ReadStamp(k) \/ ReadRoles(k) \/ ReadColumns(k) \/ ReadTags(k)
           \/ ReadAttachments(k) \/ ReadMasking(k) \/ ReadRowAccess(k)
  <2>1. UNCHANGED store
    BY <1>3 DEF ReadStamp, ReadRoles, ReadColumns, ReadTags, ReadAttachments, ReadMasking, ReadRowAccess
  <2>2. pc[k] \in Deriving /\ CallOK(pc[k], call[k]) /\ WholeOK(pc[k], call[k], gov, version)
    BY <1>3, Mine DEF ReadStamp, ReadRoles, ReadColumns, ReadTags, ReadAttachments, ReadMasking,
       ReadRowAccess, At, WholeInv, Deriving
  <2>3. PICK b \in Calling : b = call[k] /\ b.op = "read" /\ b.plan = None
    BY <2>2 DEF CallOK, WholeOK, Deriving
  <2>4. WholeOK(pc[k], b, gov, version) /\ version \in Nat /\ b.stamp \in Nat
    BY <2>2, <2>3 DEF TypeInv, WorldOK, Calling
  <2>5. CASE ReadStamp(k)
    <3> DEFINE d == [b EXCEPT !.stamp = version]
    <3>1. d.op = "read" /\ d.plan = None /\ d.stamp = version
      BY <2>3 DEF Calling
    <3>2. call'[k] = d /\ pc'[k] = "roles"
      BY <2>3, <2>5, After DEF ReadStamp
    <3> HIDE DEF d
    <3>3. QED
      BY <2>1, <2>4, <3>1, <3>2 DEF WholeOK, Fresh
  <2>6. CASE ReadRoles(k)
    <3>1. PICK R : R = CallerRoles(gov, b)
      OBVIOUS
    <3> DEFINE d == [b EXCEPT !.roles = R]
    <3>2. d.op = "read" /\ d.plan = None /\ d.stamp = b.stamp /\ d.roles = R
          /\ d.what = b.what /\ d.agent = b.agent
      BY <2>3 DEF Calling
    <3>3. call'[k] = d /\ pc'[k] = "columns"
      BY <2>3, <2>6, <3>1, After DEF ReadRoles
    <3> HIDE DEF d
    <3>4. d.roles = CallerRoles(gov, d)
      BY <3>1, <3>2 DEF CallerRoles
    <3>5. QED
      BY <2>1, <2>4, <3>2, <3>3, <3>4 DEF WholeOK, Fresh
  <2>7. CASE ReadColumns(k)
    <3>1. PICK C : C = Cols[b.at]
      OBVIOUS
    <3> DEFINE d == [b EXCEPT !.columns = C]
    <3>2. d.op = "read" /\ d.plan = None /\ d.stamp = b.stamp /\ d.roles = b.roles
          /\ d.what = b.what /\ d.agent = b.agent
      BY <2>3 DEF Calling
    <3>3. call'[k] = d /\ pc[k] = "columns" /\ pc'[k] = "tags"
      BY <2>3, <2>7, <3>1, After DEF ReadColumns, At
    <3> HIDE DEF d
    <3>4. CallerRoles(gov, d) = CallerRoles(gov, b)
      BY <3>2 DEF CallerRoles
    <3>5. QED
      BY <2>1, <2>4, <3>2, <3>3, <3>4 DEF WholeOK, Fresh, Deriving
  <2>8. CASE ReadTags(k)
    <3>1. PICK m : m = [b.model EXCEPT !.objectTag = gov.objectTag]
      OBVIOUS
    <3> DEFINE d == [b EXCEPT !.model = m]
    <3>2. m.objectTag = gov.objectTag
      BY <3>1 DEF Calling, Model
    <3>3. d.op = "read" /\ d.plan = None /\ d.stamp = b.stamp /\ d.roles = b.roles
          /\ d.what = b.what /\ d.agent = b.agent /\ d.model = m
      BY <2>3 DEF Calling
    <3>4. call'[k] = d /\ pc[k] = "tags" /\ pc'[k] = "attachments"
      BY <2>3, <2>8, <3>1, After DEF ReadTags, At
    <3> HIDE DEF d
    <3>5. CallerRoles(gov, d) = CallerRoles(gov, b)
      BY <3>3 DEF CallerRoles
    <3>6. QED
      BY <2>1, <2>4, <3>2, <3>3, <3>4, <3>5 DEF WholeOK, Fresh, Deriving
  <2>9. CASE ReadAttachments(k)
    <3>1. PICK m : m = [b.model EXCEPT !.attachment = gov.attachment]
      OBVIOUS
    <3> DEFINE d == [b EXCEPT !.model = m]
    <3>2. m.objectTag = b.model.objectTag /\ m.attachment = gov.attachment
      BY <3>1 DEF Calling, Model
    <3>3. d.op = "read" /\ d.plan = None /\ d.stamp = b.stamp /\ d.roles = b.roles
          /\ d.what = b.what /\ d.agent = b.agent /\ d.model = m
      BY <2>3 DEF Calling
    <3>4. call'[k] = d /\ pc[k] = "attachments" /\ pc'[k] = "masking"
      BY <2>3, <2>9, <3>1, After DEF ReadAttachments, At
    <3> HIDE DEF d
    <3>5. CallerRoles(gov, d) = CallerRoles(gov, b)
      BY <3>3 DEF CallerRoles
    <3>6. QED
      BY <2>1, <2>4, <3>2, <3>3, <3>4, <3>5 DEF WholeOK, Fresh, Deriving
  <2>10. CASE ReadMasking(k)
    <3>1. PICK m : m = [b.model EXCEPT !.masking = gov.masking]
      OBVIOUS
    <3> DEFINE d == [b EXCEPT !.model = m]
    <3>2. m.objectTag = b.model.objectTag /\ m.attachment = b.model.attachment /\ m.masking = gov.masking
      BY <3>1 DEF Calling, Model
    <3>3. d.op = "read" /\ d.plan = None /\ d.stamp = b.stamp /\ d.roles = b.roles
          /\ d.what = b.what /\ d.agent = b.agent /\ d.model = m
      BY <2>3 DEF Calling
    <3>4. call'[k] = d /\ pc[k] = "masking" /\ pc'[k] = "rowAccess"
      BY <2>3, <2>10, <3>1, After DEF ReadMasking, At
    <3> HIDE DEF d
    <3>5. CallerRoles(gov, d) = CallerRoles(gov, b)
      BY <3>3 DEF CallerRoles
    <3>6. QED
      BY <2>1, <2>4, <3>2, <3>3, <3>4, <3>5 DEF WholeOK, Fresh, Deriving
  <2>11. CASE ReadRowAccess(k)
    <3>1. PICK m : m = [b.model EXCEPT !.rowAccess = gov.rowAccess]
      OBVIOUS
    <3>2. m.objectTag = b.model.objectTag /\ m.attachment = b.model.attachment
          /\ m.masking = b.model.masking /\ m.rowAccess = gov.rowAccess
      BY <3>1 DEF Calling, Model
    <3>3. PICK plan : plan = Plan(m, b.at, b.columns, b.roles)
      OBVIOUS
    <3> DEFINE d == [b EXCEPT !.model = Empty, !.plan = plan]
    <3>4. d.op = "read" /\ d.plan = plan /\ d.stamp = b.stamp /\ d.roles = b.roles
          /\ d.what = b.what /\ d.agent = b.agent /\ d.at = b.at /\ d.columns = b.columns
      BY <2>3 DEF Calling
    <3>5. call'[k] = d /\ pc[k] = "rowAccess" /\ pc'[k] \in {"ok", "materialise"}
      BY <2>3, <2>11, <3>1, <3>3, After DEF ReadRowAccess, At
    <3> HIDE DEF d
    <3>6. CallerRoles(gov, d) = CallerRoles(gov, b)
      BY <3>4 DEF CallerRoles
    <3>7. b.stamp = version => plan = Plan(gov, b.at, b.columns, CallerRoles(gov, b))
      BY <2>4, <3>2, <3>3, <3>5, SamePlan DEF WholeOK, Fresh, Deriving
    <3>8. QED
      BY <2>1, <2>4, <3>4, <3>5, <3>6, <3>7 DEF WholeOK, Fresh, Deriving
  <2>12. QED
    BY <1>3, <2>5, <2>6, <2>7, <2>8, <2>9, <2>10, <2>11
<1>4. QED
  BY <1>1, <1>2, <1>3 DEF Reading

LEMMA WholeKept == TypeInv /\ WholeInv /\ [Next]_vars => WholeInv'
<1> SUFFICES ASSUME TypeInv, WholeInv, [Next]_vars PROVE WholeInv'
  OBVIOUS
<1>1. CASE UNCHANGED vars
  <2>1. gov' = gov /\ version' = version /\ pc' = pc /\ call' = call
    BY <1>1 DEF vars, system, store
  <2>2. QED
    BY <2>1 DEF WholeInv
<1>2. CASE Step
  <2>1. PICK k \in Calls : Authoring(k) \/ Definition(k) \/ Reading(k) \/ Crash(k)
    BY <1>2 DEF Step
  <2>2. Goes(k)
    BY <2>1, StepGoes
  <2>3. version \in Nat /\ gov' \in Model /\ version' \in Nat
    BY <2>2 DEF TypeInv, WorldOK, Goes
  <2>4. UNCHANGED store \/ version' = version + 1
    BY <2>1, ModestSteps, ReadsWhole
  <2>5. WholeOK(pc'[k], call'[k], gov', version')
    <3>1. CASE Reading(k)
      BY <3>1, ReadsWhole DEF store
    <3>2. CASE Authoring(k) \/ Definition(k) \/ Crash(k)
      <4>1. Modest(call'[k])
        BY <3>2, ModestSteps
      <4>2. version' # 0 /\ 0 <= version'
        BY <2>2, <2>3 DEF Goes, WorldOK
      <4>3. QED
        BY <4>1, <4>2 DEF Modest, WholeOK
    <3>3. QED
      BY <2>1, <3>1, <3>2
  <2>6. ASSUME NEW j \in Calls, j # k PROVE WholeOK(pc'[j], call'[j], gov', version')
    <3>1. pc'[j] = pc[j] /\ call'[j] = call[j]
      BY <2>2, <2>6 DEF Goes, Moves, TypeInv, CallsOK
    <3>2. WholeOK(pc[j], call[j], gov, version) /\ call[j].stamp \in Nat
      BY Mine DEF WholeInv, Calling
    <3>3. CASE UNCHANGED store
      BY <3>1, <3>2, <3>3 DEF store
    <3>4. CASE version' = version + 1
      BY <2>3, <3>1, <3>2, <3>4 DEF WholeOK
    <3>5. QED
      BY <2>4, <3>3, <3>4
  <2>7. QED
    BY <2>5, <2>6 DEF WholeInv
<1>3. QED
  BY <1>1, <1>2 DEF Next, Done

LEMMA InitiallyWhole == Init => WholeInv
<1> SUFFICES ASSUME Init, NEW k \in Calls PROVE WholeOK(pc[k], call[k], gov, version)
  BY DEF WholeInv
<1>1. pc[k] = "idle" /\ call[k] = Blank /\ version = 1
  BY DEF Init
<1>2. QED
  BY <1>1, BlankIs DEF WholeOK, Deriving

LEMMA WholeSuffices == TypeInv /\ WholeInv => StampedPlanIsWhole
BY DEF WholeInv, WholeOK, Fresh, StampedPlanIsWhole

\* StampedPlanIsWhole: a plan read in six statements is the plan of the
\* version stamped before them, if that is still the version.
THEOREM PlansAreWhole == Spec => []StampedPlanIsWhole
<1>1. Init => WholeInv
  BY InitiallyWhole
<1>2. TypeInv /\ WholeInv /\ [Next]_vars => WholeInv'
  BY WholeKept
<1>3. Spec => []WholeInv
  BY <1>1, <1>2, Typed, PTL DEF Spec
<1>4. QED
  BY <1>3, Typed, WholeSuffices, PTL

----------------------------------------------------------------------------
(***************************************************************************)
(* Steps and histories.                                                    *)
(***************************************************************************)

\* Between the catalog's change and the rows'.
Windows == {"purge tags", "purge attachments", "carry tags", "carry attachments", "commit"}

SameRows == gov'.objectTag = gov.objectTag /\ gov'.attachment = gov.attachment

\* The steps that change rows, names or columns; all others are calm.
Turning(k) ==
    \/ Insert(k) \/ Remove(k) \/ Create(k) \/ Drop(k) \/ PurgeTags(k) \/ PurgeAttachments(k)
    \/ Rename(k) \/ CarryTags(k) \/ CarryAttachments(k) \/ Alter(k) \/ CommitSchema(k)

Calm(k) ==
    /\ SameRows /\ live' = live /\ cols' = cols
    /\ pc'[k] \in {"broken", "crashed"} \/ (pc[k] \notin Windows /\ pc'[k] \notin Windows)

LEMMA AuthorCalm ==
    ASSUME TypeInv, NEW k \in Calls, NEW g, NEW l \in {"audit", "ok", "missing"}, Author(k, g, l),
           g.objectTag = gov.objectTag, g.attachment = gov.attachment
    PROVE  Calm(k)
BY After DEF Author, Statement, At, Calm, SameRows, catalog, Windows

LEMMA CalmStatements ==
    ASSUME TypeInv, NEW k \in Calls,
           \/ CreateTag(k) \/ CreateMaskingPolicy(k) \/ CreateRowAccessPolicy(k)
           \/ CreateRole(k) \/ GrantRole(k) \/ GrantObject(k)
           \/ RevokeRole(k) \/ RevokeObjectGrant(k) \/ SetStaticKey(k) \/ DeleteStaticKey(k)
    PROVE  Calm(k)
<1>1. PICK h : h = gov
  OBVIOUS
<1>2. h \in Model
  BY <1>1 DEF TypeInv, WorldOK
<1>3. \A x : /\ [h EXCEPT !.tag = x].objectTag = h.objectTag
             /\ [h EXCEPT !.tag = x].attachment = h.attachment
             /\ [h EXCEPT !.masking = x].objectTag = h.objectTag
             /\ [h EXCEPT !.masking = x].attachment = h.attachment
             /\ [h EXCEPT !.rowAccess = x].objectTag = h.objectTag
             /\ [h EXCEPT !.rowAccess = x].attachment = h.attachment
  BY <1>2 DEF Model
<1>4. \A x : /\ [h EXCEPT !.role = x].objectTag = h.objectTag
             /\ [h EXCEPT !.role = x].attachment = h.attachment
             /\ [h EXCEPT !.roleGrant = x].objectTag = h.objectTag
             /\ [h EXCEPT !.roleGrant = x].attachment = h.attachment
             /\ [h EXCEPT !.objectGrant = x].objectTag = h.objectTag
             /\ [h EXCEPT !.objectGrant = x].attachment = h.attachment
             /\ [h EXCEPT !.staticKey = x].objectTag = h.objectTag
             /\ [h EXCEPT !.staticKey = x].attachment = h.attachment
  BY <1>2 DEF Model
<1>5. CASE CreateTag(k)
  BY <1>1, <1>3, <1>5, AuthorCalm DEF CreateTag
<1>6. CASE CreateMaskingPolicy(k)
  BY <1>1, <1>3, <1>6, AuthorCalm DEF CreateMaskingPolicy
<1>7. CASE CreateRowAccessPolicy(k)
  BY <1>1, <1>3, <1>7, AuthorCalm DEF CreateRowAccessPolicy
<1>8. CASE CreateRole(k)
  BY <1>1, <1>4, <1>8, AuthorCalm DEF CreateRole
<1>9. CASE GrantRole(k)
  BY <1>1, <1>4, <1>9, AuthorCalm DEF GrantRole
<1>10. CASE GrantObject(k)
  BY <1>1, <1>4, <1>10, AuthorCalm DEF GrantObject
<1>11. CASE RevokeRole(k)
  BY <1>1, <1>4, <1>11, AuthorCalm DEF RevokeRole
<1>12. CASE RevokeObjectGrant(k)
  BY <1>1, <1>4, <1>12, AuthorCalm DEF RevokeObjectGrant
<1>13. CASE SetStaticKey(k)
  BY <1>1, <1>4, <1>13, AuthorCalm DEF SetStaticKey
<1>14. CASE DeleteStaticKey(k)
  BY <1>1, <1>4, <1>14, AuthorCalm DEF DeleteStaticKey
<1>15. QED
  BY <1>5, <1>6, <1>7, <1>8, <1>9, <1>10, <1>11, <1>12, <1>13, <1>14

LEMMA CalmAsks ==
    ASSUME TypeInv, NEW k \in Calls,
           \/ AttachPolicy(k) \/ AssignObjectTag(k) \/ Detach(k) \/ RemoveObjectTag(k) \/ Delete(k)
           \/ CreateNamespace(k) \/ DropNamespace(k) \/ CreateTable(k) \/ DropTable(k)
           \/ RenameTable(k) \/ AlterSchema(k) \/ Read(k)
    PROVE  Calm(k)
<1>0. pc \in [Calls -> Labels]
  BY DEF TypeInv, CallsOK
<1>1. UNCHANGED <<store, audit, catalog, derived, faults>>
  BY DEF AttachPolicy, AssignObjectTag, Detach, RemoveObjectTag, Delete, CreateNamespace,
     DropNamespace, CreateTable, DropTable, RenameTable, AlterSchema, Read
<1>2. pc[k] = "idle" /\ pc'[k] \notin Windows
  <2>1. CASE AttachPolicy(k)
    BY <2>1, <1>0 DEF Ask, At, Goto, AttachPolicy, Windows
  <2>2. CASE AssignObjectTag(k)
    BY <2>2, <1>0 DEF Ask, At, Goto, AssignObjectTag, Windows
  <2>3. CASE Detach(k) \/ RemoveObjectTag(k)
    BY <2>3, <1>0 DEF Ask, At, Goto, Detach, RemoveObjectTag, Windows
  <2>4. CASE Delete(k)
    BY <2>4, <1>0 DEF Ask, At, Goto, Delete, Windows
  <2>5. CASE CreateNamespace(k) \/ DropNamespace(k) \/ CreateTable(k)
    BY <2>5, <1>0 DEF Ask, At, Goto, CreateNamespace, DropNamespace, CreateTable, Windows
  <2>6. CASE DropTable(k) \/ RenameTable(k) \/ AlterSchema(k) \/ Read(k)
    BY <2>6, <1>0 DEF Ask, At, Goto, DropTable, RenameTable, AlterSchema, Read, Windows
  <2>7. QED
    BY <2>1, <2>2, <2>3, <2>4, <2>5, <2>6
<1>3. QED
  BY <1>1, <1>2 DEF Calm, SameRows, catalog, store, Windows

LEMMA CalmOrTurning ==
    ASSUME TypeInv, NEW k \in Calls, Authoring(k) \/ Definition(k) \/ Reading(k) \/ Crash(k)
    PROVE  Calm(k) \/ Turning(k)
<1>1. CASE \/ Expand(k) \/ Check(k) \/ Count(k) \/ Audit(k) \/ ResyncViews(k) \/ ResyncExports(k)
           \/ ResyncProperties(k) \/ Answer(k)
  BY <1>1, After DEF Expand, Check, Count, Audit, ResyncViews, ResyncExports, ResyncProperties,
     Answer, At, Calm, SameRows, Windows, store, catalog
<1>2. CASE DeleteRow(k)
  <2>1. PICK h \in Model : h = gov
    BY DEF TypeInv, WorldOK
  <2>2. PICK x, y, z, w : gov' = [h EXCEPT !.masking = x, !.rowAccess = y, !.tag = z, !.role = w]
    BY <1>2, <2>1 DEF DeleteRow, Statement
  <2>3. SameRows
    BY <2>1, <2>2 DEF Model, SameRows
  <2>4. QED
    BY <1>2, <2>3, After DEF DeleteRow, At, Calm, Windows, catalog
<1>3. CASE AlterNamespace(k) \/ AbortSchema(k) \/ CollectArtifacts(k) \/ Crash(k)
  BY <1>3, After DEF AlterNamespace, AbortSchema, CollectArtifacts, Crash, At, Calm, SameRows,
     Windows, store, catalog
<1>4. CASE PurgeGrants(k) \/ CarryGrants(k)
  <2>1. PICK h \in Model : h = gov
    BY DEF TypeInv, WorldOK
  <2>2. \A x : /\ [h EXCEPT !.objectGrant = x].objectTag = h.objectTag
               /\ [h EXCEPT !.objectGrant = x].attachment = h.attachment
    BY DEF Model
  <2>3. SameRows
    BY <1>4, <2>1, <2>2 DEF PurgeGrants, CarryGrants, CarryRows, Statement, SameRows, store
  <2>4. QED
    BY <1>4, <2>3, After DEF PurgeGrants, CarryGrants, CarryRows, At, Calm, Windows, catalog
<1>5. CASE \/ ReadStamp(k) \/ ReadRoles(k) \/ ReadColumns(k) \/ ReadTags(k)
           \/ ReadAttachments(k) \/ ReadMasking(k) \/ ReadRowAccess(k)
           \/ Materialise(k) \/ Interlock(k)
  BY <1>5, After DEF ReadStamp, ReadRoles, ReadColumns, ReadTags, ReadAttachments, ReadMasking,
     ReadRowAccess, Materialise, Interlock, At, Calm, SameRows, Windows, store, catalog
<1>6. QED
  BY <1>1, <1>2, <1>3, <1>4, <1>5, CalmStatements, CalmAsks
     DEF Authoring, Definition, Reading, Turning

LEMMA HistoryGrows ==
    ASSUME TypeInv, NEW k \in Calls, Goes(k), History
    PROVE  /\ Died => Died'
           /\ overlap \subseteq overlap' /\ (ahead => ahead')
           /\ \A j \in Calls : j # k => pc'[j] = pc[j] /\ call'[j] = call[j]
<1>1. \A j \in Calls : j # k => pc'[j] = pc[j] /\ call'[j] = call[j]
  BY DEF Goes, Moves, TypeInv, CallsOK
<1>2. pc[k] \notin Ended
  BY DEF Goes, Moves
<1>3. Died => Died'
  BY <1>1, <1>2 DEF Died
<1>4. QED
  BY <1>1, <1>3 DEF History

----------------------------------------------------------------------------
(***************************************************************************)
(* Calls that overlap, and names in the hands of one.                      *)
(***************************************************************************)

Active(k) == pc[k] \notin Ended \cup {"idle"} /\ call[k].op # "read"
Defining(k) == Active(k) /\ call[k].op = "ddl"

OverlapOK ==
    /\ "any" \in overlap \/ \A k, l \in Calls : Active(k) /\ Active(l) => k = l
    /\ "ddl" \in overlap \/ \A k, l \in Calls : Defining(k) /\ Defining(l) => k = l
    /\ "ddl" \in overlap => "any" \in overlap

LEMMA OverlapKept == OverlapOK /\ [Next]_vars => OverlapOK'
<1> SUFFICES ASSUME OverlapOK, [Next]_vars PROVE OverlapOK'
  OBVIOUS
<1>1. CASE UNCHANGED vars
  BY <1>1 DEF vars, system, OverlapOK, Active, Defining
<1>2. CASE History
  <2>1. \A k \in Calls : (k \in Busy) = Active(k)'
    BY DEF Busy, Active
  <2>2. "any" \in overlap' \/ \A k, l \in Calls : Active(k)' /\ Active(l)' => k = l
    BY <1>2, <2>1 DEF History
  <2>3. "ddl" \in overlap' \/ \A k, l \in Calls : Defining(k)' /\ Defining(l)' => k = l
    BY <1>2, <2>1 DEF History, Defining
  <2>4. "ddl" \in overlap' => "any" \in overlap'
    BY <1>2 DEF History, OverlapOK
  <2>5. QED
    BY <2>2, <2>3, <2>4 DEF OverlapOK
<1>3. QED
  BY <1>1, <1>2 DEF Next, Done

\* A call of DDL, in its window, finds the names as it left them.
Held(l, b) ==
    /\ l \in {"purge tags", "purge attachments"} => live[b.at] = None
    /\ l \in {"carry tags", "carry attachments"} =>
           live[b.at] = None /\ live[b.to] = b.object /\ b.object # None
    /\ l = "commit" =>
           /\ live[b.at] = b.object /\ b.object # None
           /\ b.change[1] = "rename" => b.change[2][1] \notin Cols[b.at]

LiveOK == "ddl" \in overlap \/ \A k \in Calls : Held(pc[k], call[k])

LEMMA WindowDefines ==
    ASSUME TypeInv, NEW k \in Calls, pc[k] \in Windows \cup {"create", "drop", "rename", "alter"}
    PROVE  Defining(k) /\ call[k].at \in Tables
<1>1. CallOK(pc[k], call[k])
  BY Mine
<1>2. QED
  BY <1>1 DEF CallOK, Windows, Defining, Active

\* Names and columns change in the hands of DDL only.
LEMMA NamesChange ==
    ASSUME TypeInv, NEW k \in Calls, Calm(k) \/ Turning(k)
    PROVE  \/ live' = live /\ cols' = cols
           \/ Create(k) /\ pc[k] = "create"
           \/ Drop(k) /\ pc[k] = "drop"
           \/ Rename(k) /\ pc[k] = "rename"
           \/ Alter(k) /\ pc[k] = "alter"
BY DEF Calm, Turning, Insert, Remove, PurgeTags, PurgeAttachments, CarryTags, CarryAttachments,
   CommitSchema, Create, Drop, Rename, Alter, At, catalog

LEMMA LiveKept == TypeInv /\ OverlapOK /\ LiveOK /\ [Next]_vars => LiveOK'
<1> SUFFICES ASSUME TypeInv, OverlapOK, LiveOK, [Next]_vars PROVE LiveOK'
  OBVIOUS
<1>1. CASE UNCHANGED vars
  BY <1>1 DEF vars, system, catalog, LiveOK, Held, Cols, ColumnsOf
<1>2. CASE Step /\ History
  <2>1. PICK k \in Calls : Authoring(k) \/ Definition(k) \/ Reading(k) \/ Crash(k)
    BY <1>2 DEF Step
  <2>2. Goes(k) /\ (Calm(k) \/ Turning(k))
    BY <2>1, StepGoes, CalmOrTurning
  <2> SUFFICES ASSUME "ddl" \notin overlap', NEW j \in Calls PROVE Held(pc[j], call[j])'
    BY DEF LiveOK
  <2>3. "ddl" \notin overlap /\ Held(pc[j], call[j]) /\ Held(pc[k], call[k])
    BY <1>2, <2>2, HistoryGrows DEF LiveOK
  <2>4. CASE j # k
    <3>1. pc'[j] = pc[j] /\ call'[j] = call[j]
      BY <1>2, <2>2, <2>4, HistoryGrows
    <3>2. CASE pc[j] \notin Windows
      BY <3>1, <3>2 DEF Held, Windows
    <3>3. CASE pc[j] \in Windows
      <4>1. ~ Defining(k)
        BY <2>3, <2>4, <3>3, WindowDefines DEF OverlapOK
      <4>2. live' = live /\ cols' = cols
        BY <2>2, <4>1, NamesChange, WindowDefines
      <4>3. QED
        BY <2>3, <3>1, <4>2 DEF Held, Cols, ColumnsOf
    <3>4. QED
      BY <3>2, <3>3
  <2>5. CASE j = k
    <3>1. CASE pc'[k] \notin Windows
      BY <2>5, <3>1 DEF Held, Windows
    <3>2. CASE pc'[k] \in Windows
      <4>0. live \in [Tables -> Ids \cup {None}] /\ cols \in [Ids -> SUBSET Columns]
            /\ call \in [Calls -> Calling] /\ CallOK(pc[k], call[k])
        BY Mine DEF TypeInv, WorldOK, CallsOK
      <4>1. Turning(k)
        BY <2>2, <3>2 DEF Calm, Windows
      <4>2. CASE Insert(k) \/ Remove(k) \/ Create(k) \/ CommitSchema(k)
        BY <3>2, <4>2, After DEF Insert, Remove, Create, CommitSchema, Windows
      <4>3. CASE Drop(k)
        <5>1. pc[k] = "drop" /\ call[k].at \in Tables
          BY <4>3, WindowDefines DEF Drop, At
        <5>2. live' = [live EXCEPT ![call[k].at] = None] /\ pc'[k] = "purge tags"
              /\ call'[k] = [call[k] EXCEPT !.object = live[call[k].at]]
          BY <3>2, <4>3, After DEF Drop, Windows
        <5>3. call'[k].at = call[k].at
          BY <4>0, <5>2 DEF Calling
        <5>4. QED
          BY <2>5, <4>0, <5>1, <5>2, <5>3 DEF Held
      <4>4. CASE PurgeTags(k) \/ PurgeAttachments(k)
        <5>1. pc[k] \in {"purge tags", "purge attachments"} /\ UNCHANGED <<live, call>>
          BY <4>4 DEF PurgeTags, PurgeAttachments, At, catalog
        <5>2. pc'[k] \in {"purge attachments", "purge grants"}
          BY <4>4, After DEF PurgeTags, PurgeAttachments
        <5>3. QED
          BY <2>3, <2>5, <5>1, <5>2 DEF Held
      <4>5. CASE Rename(k)
        <5>1. pc[k] = "rename" /\ call[k].at \in Tables
          BY <4>5, WindowDefines DEF Rename, At
        <5>2. call[k].to \in Tables /\ call[k].to # call[k].at
          BY <4>0, <5>1 DEF CallOK
        <5>3. /\ live' = [live EXCEPT ![call[k].at] = None, ![call[k].to] = live[call[k].at]]
              /\ live[call[k].at] # None
              /\ pc'[k] = "carry tags"
              /\ call'[k] = [call[k] EXCEPT !.object = live[call[k].at]]
          BY <3>2, <4>5, After DEF Rename, Windows
        <5>4. call'[k].at = call[k].at /\ call'[k].to = call[k].to /\ call'[k].object = live[call[k].at]
          <6>1. PICK c \in Calling : c = call[k]
            BY <4>0
          <6>2. PICK i : i = live[call[k].at]
            OBVIOUS
          <6>3. call'[k] = [c EXCEPT !.object = i]
            BY <5>3, <6>1, <6>2
          <6>4. QED
            BY <6>1, <6>2, <6>3 DEF Calling
        <5>5. QED
          BY <2>5, <4>0, <5>1, <5>2, <5>3, <5>4 DEF Held
      <4>6. CASE CarryTags(k) \/ CarryAttachments(k)
        <5>1. pc[k] \in {"carry tags", "carry attachments"} /\ UNCHANGED <<live, call>>
          BY <4>6 DEF CarryTags, CarryAttachments, At, catalog
        <5>2. pc'[k] \in {"carry attachments", "carry grants", "broken"}
          BY <4>6, After DEF CarryTags, CarryAttachments, CarryRows
        <5>3. QED
          BY <2>3, <2>5, <5>1, <5>2 DEF Held
      <4>7. CASE Alter(k)
        <5>1. pc[k] = "alter" /\ call[k].at \in Tables
          BY <4>7, WindowDefines DEF Alter, At
        <5>2. PICK ch \in Change : ch = call[k].change
          BY <4>0, <5>1 DEF CallOK
        <5>3. /\ live[call[k].at] # None /\ live' = live
              /\ cols' = [cols EXCEPT ![live[call[k].at]] = Altered(@, ch)]
              /\ pc'[k] = "commit"
              /\ call'[k] = [call[k] EXCEPT !.object = live[call[k].at]]
          BY <3>2, <4>7, <5>2, After DEF Alter, Windows
        <5>4. call'[k].at = call[k].at /\ call'[k].change = ch /\ call'[k].object = live[call[k].at]
          BY <4>0, <5>2, <5>3 DEF Calling
        <5>5. PICK i \in Ids : i = live[call[k].at]
          BY <4>0, <5>1, <5>3
        <5>6. cols'[i] = Altered(cols[i], ch) /\ i # None
          BY <4>0, <5>3, <5>5, Nones
        <5>7. ch[1] = "rename" => ch[2][1] \notin Cols'[call[k].at]
          <6>1. Cols'[call[k].at] = Altered(cols[i], ch)
            BY <5>1, <5>3, <5>5, <5>6 DEF Cols, ColumnsOf
          <6>2. ch[1] = "rename" => ch[2][1] \notin Altered(cols[i], ch)
            BY Changes DEF Altered
          <6>3. QED
            BY <6>1, <6>2
        <5>8. QED
          BY <2>5, <5>3, <5>4, <5>7 DEF Held
      <4>8. QED
        BY <4>1, <4>2, <4>3, <4>4, <4>5, <4>6, <4>7 DEF Turning
    <3>3. QED
      BY <3>1, <3>2
  <2>6. QED
    BY <2>4, <2>5
<1>3. QED
  BY <1>1, <1>2 DEF Next, Done

----------------------------------------------------------------------------
(***************************************************************************)
(* Rows of names that are gone.                                            *)
(***************************************************************************)

TagWindow == {"purge tags", "carry tags"}
AttachmentWindow == TagWindow \cup {"purge attachments", "carry attachments"}

\* The name of a row is live, or a call at one of ls is about to see to it.
Covered(r, ls) ==
    \/ r.table = None \/ live[<<r.schema, r.table>>] # None
    \/ \E k \in Calls : call[k].at = <<r.schema, r.table>> /\ pc[k] \in ls

LeftInv ==
    Died \/ ahead
    \/ /\ \A r \in gov.objectTag : Covered(r, TagWindow)
       /\ \A r \in gov.attachment : Covered(r, AttachmentWindow)

LEMMA RowKinds ==
    /\ TagRow \cap Attachment = {}
    /\ \A r \in TagRow \cup Attachment :
          /\ r.table # None => r.table \in Names /\ r.schema \in Schemas /\ r.schema # None
          /\ r.schema = None => r.table = None
<1>1. ASSUME NEW r \in TagRow, r \in Attachment PROVE FALSE
  <2>1. "on" \in DOMAIN r
    BY DEF TagRow
  <2>2. "on" \notin DOMAIN r
    BY <1>1 DEF Attachment
  <2>3. QED
    BY <2>1, <2>2
<1>2. ASSUME NEW r \in TagRow
      PROVE  /\ r.table # None => r.table \in Names /\ r.schema \in Schemas /\ r.schema # None
             /\ r.schema = None => r.table = None
  BY Nones DEF TagRow
<1>3. ASSUME NEW r \in Attachment
      PROVE  /\ r.table # None => r.table \in Names /\ r.schema \in Schemas /\ r.schema # None
             /\ r.schema = None => r.table = None
  BY Nones DEF Attachment
<1>4. QED
  BY <1>1, <1>2, <1>3

\* A row that comes in time comes to a live name.
LEMMA NewRows ==
    ASSUME TypeInv, WorldOK', History, ~ ahead', NEW r \in Rows(gov') \ Rows(gov)
    PROVE  r.table = None \/ live'[<<r.schema, r.table>>] # None
<1>1. ~ Stray(r, ColumnsOf(live', cols'))
  BY DEF History
<1>2. r \in TagRow \cup Attachment
  BY Updated DEF WorldOK, Rows
<1>3. CASE r.table # None
  <2>1. <<r.schema, r.table>> \in Tables /\ r.schema # None
    BY <1>2, <1>3, RowKinds DEF Tables
  <2>2. ColumnsOf(live', cols')[<<r.schema, r.table>>] # {}
    BY <1>1, <1>3, <2>1 DEF Stray
  <2>3. QED
    BY <2>1, <2>2 DEF ColumnsOf
<1>4. QED
  BY <1>3

\* A name goes with a call that sees to its rows.
LEMMA NamesGo ==
    ASSUME TypeInv, NEW k \in Calls, Calm(k) \/ Turning(k), NEW t \in Tables,
           live[t] # None, live'[t] = None
    PROVE  call'[k].at = t /\ pc'[k] \in TagWindow
<1>1. live \in [Tables -> Ids \cup {None}] /\ CallOK(pc[k], call[k])
  BY Mine DEF TypeInv, WorldOK
<1>2. PICK c \in Calling : c = call[k]
  BY Mine
<1>3. CASE Drop(k) /\ pc[k] = "drop"
  <2>1. live' = [live EXCEPT ![c.at] = None] /\ pc'[k] = "purge tags" 
        /\ call'[k] = [c EXCEPT !.object = live[c.at]]
    BY <1>2, <1>3, After DEF Drop
  <2>2. call'[k].at = c.at
    BY <2>1 DEF Calling
  <2>3. QED
    BY <1>1, <1>2, <1>3, <2>1, <2>2 DEF CallOK, TagWindow
<1>4. CASE Rename(k) /\ pc[k] = "rename"
  <2>1. live' = [live EXCEPT ![c.at] = None, ![c.to] = live[c.at]] /\ pc'[k] = "carry tags"
        /\ live[c.to] = None
    BY <1>2, <1>4, After DEF Rename
  <2>2. PICK i : i = live[c.at]
    OBVIOUS
  <2>3. call'[k] = [c EXCEPT !.object = i]
    BY <1>2, <1>4, <2>1, <2>2, After DEF Rename
  <2>4. call'[k].at = c.at
    BY <2>3 DEF Calling
  <2>5. c.at \in Tables /\ c.to \in Tables
    BY <1>1, <1>2, <1>4 DEF CallOK
  <2>6. t = c.at
    BY <1>1, <2>1, <2>5
  <2>7. QED
    BY <2>1, <2>4, <2>6 DEF TagWindow
<1>5. CASE Create(k)
  <2>1. live' = live \/ \E i \in Unused : live' = [live EXCEPT ![c.at] = i]
    BY <1>2, <1>5 DEF Create
  <2>2. \A i \in Unused : i # None
    BY Nones DEF Unused
  <2>3. QED
    BY <1>1, <2>1, <2>2
<1>6. CASE Alter(k)
  BY <1>6 DEF Alter
<1>7. QED
  BY <1>3, <1>4, <1>5, <1>6, NamesChange

\* A call that goes on from its window has seen to the rows.
LEMMA RowsSeenTo ==
    ASSUME TypeInv, NEW k \in Calls, Calm(k) \/ Turning(k), pc'[k] \notin {"broken", "crashed"},
           NEW t \in Tables, call[k].at = t
    PROVE  /\ \A r \in gov.objectTag \cap gov'.objectTag :
                 pc[k] \in TagWindow => <<r.schema, r.table>> # t
           /\ \A r \in gov.attachment \cap gov'.attachment :
                 pc[k] \in AttachmentWindow =>
                    <<r.schema, r.table>> # t \/ (pc'[k] \in AttachmentWindow /\ call'[k].at = t)
<1>1. CASE pc[k] \notin AttachmentWindow
  BY <1>1 DEF AttachmentWindow
<1>2. CASE pc[k] \in AttachmentWindow
  <2>1. PICK h \in Model : h = gov
    BY DEF TypeInv, WorldOK
  <2>2. CallOK(pc[k], call[k])
    BY Mine
  <2>3. Turning(k)
    BY <1>2 DEF Calm, AttachmentWindow, TagWindow, Windows
  <2>9. ASSUME NEW rows, NEW r \in rows \ Named(rows, t) PROVE <<r.schema, r.table>> # t
    BY DEF Named
  <2>4. CASE PurgeTags(k)
    <3>1. gov' = [h EXCEPT !.objectTag = @ \ Named(@, t)] /\ pc[k] = "purge tags"
          /\ pc'[k] = "purge attachments" /\ call' = call
      BY <2>1, <2>4, After DEF PurgeTags, Statement, At
    <3>2. gov'.objectTag = gov.objectTag \ Named(gov.objectTag, t)
      BY <2>1, <3>1 DEF Model
    <3>3. QED
      BY <2>9, <3>1, <3>2 DEF AttachmentWindow, TagWindow
  <2>5. CASE PurgeAttachments(k)
    <3>1. gov' = [h EXCEPT !.attachment = @ \ Named(@, t)] /\ pc[k] = "purge attachments"
      BY <2>1, <2>5 DEF PurgeAttachments, Statement, At
    <3>2. gov'.attachment = gov.attachment \ Named(gov.attachment, t)
      BY <2>1, <3>1 DEF Model
    <3>3. QED
      BY <2>9, <3>1, <3>2 DEF AttachmentWindow, TagWindow
  <2>6. CASE CarryTags(k) \/ CarryAttachments(k)
    <3>1. PICK u \in Tables : u = call[k].to /\ u # t
      BY <2>2, <2>6 DEF CallOK, CarryTags, CarryAttachments, At
    <3>2. ASSUME NEW rows, Carried(rows, t, u) \cap Left(rows, t) = {},
                 NEW r \in rows \cap (Left(rows, t) \cup Carried(rows, t, u)), rows \subseteq TagRow \cup Attachment
          PROVE  <<r.schema, r.table>> # t
      <4>1. CASE r \in Left(rows, t)
        BY <4>1 DEF Left, Named
      <4>2. CASE r \in Carried(rows, t, u)
        <5>1. PICK q \in Named(rows, t) : r = Renamed(q, u)
          BY <4>2 DEF Carried
        <5>2. q \in TagRow \cup Attachment
          BY <3>2, <5>1 DEF Named
        <5>3. r.schema = u[1] /\ r.table = u[2]
          BY <5>1, <5>2 DEF Renamed, TagRow, Attachment
        <5>4. QED
          BY <3>1, <5>3 DEF Tables
      <4>3. QED
        BY <3>2, <4>1, <4>2
    <3>3. CASE CarryTags(k)
      <4>1. /\ Carried(h.objectTag, t, u) \cap Left(h.objectTag, t) = {}
            /\ gov' = [h EXCEPT !.objectTag = Moved(@, k)]
            /\ pc[k] = "carry tags" /\ pc'[k] = "carry attachments" /\ call' = call
        BY <2>1, <3>1, <3>3, After DEF CarryTags, CarryRows, Statement, At
      <4>2. gov'.objectTag = Left(h.objectTag, t) \cup Carried(h.objectTag, t, u)
        BY <3>1, <4>1 DEF Moved, Model
      <4>3. h.objectTag \subseteq TagRow
        BY Updated
      <4>4. QED
        BY <2>1, <3>2, <4>1, <4>2, <4>3 DEF AttachmentWindow, TagWindow
    <3>4. CASE CarryAttachments(k)
      <4>1. /\ Carried(h.attachment, t, u) \cap Left(h.attachment, t) = {}
            /\ gov' = [h EXCEPT !.attachment = Moved(@, k)]
            /\ pc[k] = "carry attachments"
        BY <2>1, <3>1, <3>4, After DEF CarryAttachments, CarryRows, Statement, At
      <4>2. gov'.attachment = Left(h.attachment, t) \cup Carried(h.attachment, t, u)
        BY <3>1, <4>1 DEF Moved, Model
      <4>3. h.attachment \subseteq Attachment
        BY Updated
      <4>4. QED
        BY <2>1, <3>2, <4>1, <4>2, <4>3 DEF AttachmentWindow, TagWindow
    <3>5. QED
      BY <2>6, <3>3, <3>4
  <2>7. QED
    BY <1>2, <2>3, <2>4, <2>5, <2>6 DEF Turning, Insert, Remove, Create, Drop, Rename, Alter,
       CommitSchema, At, AttachmentWindow, TagWindow
<1>3. QED
  BY <1>1, <1>2

LEMMA LeftKept == TypeInv /\ LeftInv /\ [Next]_vars => LeftInv'
<1> SUFFICES ASSUME TypeInv, LeftInv, [Next]_vars PROVE LeftInv'
  OBVIOUS
<1>1. CASE UNCHANGED vars
  BY <1>1 DEF vars, system, store, catalog, LeftInv, Covered, Died
<1>2. CASE Step /\ History
  <2>1. PICK k \in Calls : Authoring(k) \/ Definition(k) \/ Reading(k) \/ Crash(k)
    BY <1>2 DEF Step
  <2>2. Goes(k) /\ (Calm(k) \/ Turning(k))
    BY <2>1, StepGoes, CalmOrTurning
  <2> SUFFICES ASSUME ~ Died', ~ ahead'
               PROVE  /\ \A r \in gov'.objectTag : Covered(r, TagWindow)'
                      /\ \A r \in gov'.attachment : Covered(r, AttachmentWindow)'
    BY DEF LeftInv
  <2>3. /\ \A r \in gov.objectTag : Covered(r, TagWindow)
        /\ \A r \in gov.attachment : Covered(r, AttachmentWindow)
    BY <1>2, <2>2, HistoryGrows DEF LeftInv
  <2>4. WorldOK' /\ gov \in Model /\ gov' \in Model /\ pc'[k] \notin {"broken", "crashed"}
    BY <2>2 DEF Goes, TypeInv, WorldOK, Died
  <2>5. \A r \in Rows(gov') \ Rows(gov) : r.table = None \/ live'[<<r.schema, r.table>>] # None
    BY <1>2, <2>4, NewRows
  <2>6. /\ gov.objectTag \subseteq TagRow /\ gov'.objectTag \subseteq TagRow
        /\ gov.attachment \subseteq Attachment /\ gov'.attachment \subseteq Attachment
    BY <2>4, Updated
  \* A row that was covered is, unless it is k that covered it and goes on.
  <2>7. ASSUME NEW r \in TagRow \cup Attachment, NEW ls \in {TagWindow, AttachmentWindow}, Covered(r, ls),
               r.table # None => (pc[k] \in ls /\ call[k].at = <<r.schema, r.table>>
                                     => pc'[k] \in ls /\ call'[k].at = <<r.schema, r.table>>)
        PROVE  Covered(r, ls)'
    <3>1. CASE r.table = None
      BY <3>1 DEF Covered
    <3>2. CASE r.table # None
      <4>1. PICK t \in Tables : t = <<r.schema, r.table>>
        BY <3>2, RowKinds DEF Tables
      <4>2. CASE live'[t] # None
        BY <4>1, <4>2 DEF Covered
      <4>3. CASE live[t] # None /\ live'[t] = None
        <5>1. call'[k].at = t /\ pc'[k] \in TagWindow
          BY <2>2, <4>3, NamesGo
        <5>2. QED
          BY <4>1, <5>1 DEF Covered, AttachmentWindow
      <4>4. CASE live[t] = None
        <5>1. PICK j \in Calls : call[j].at = t /\ pc[j] \in ls
          BY <2>7, <3>2, <4>1, <4>4 DEF Covered
        <5>2. CASE j = k
          BY <2>7, <3>2, <4>1, <5>1, <5>2 DEF Covered
        <5>3. CASE j # k
          <6>1. pc'[j] = pc[j] /\ call'[j] = call[j]
            BY <1>2, <2>2, <5>3, HistoryGrows
          <6>2. QED
            BY <4>1, <5>1, <6>1 DEF Covered
        <5>4. QED
          BY <5>2, <5>3
      <4>5. QED
        BY <4>2, <4>3, <4>4
    <3>3. QED
      BY <3>1, <3>2
  <2>8. ASSUME NEW r \in gov'.objectTag PROVE Covered(r, TagWindow)'
    <3>1. CASE r \notin gov.objectTag
      <4>1. r \notin Rows(gov) /\ r \in Rows(gov')
        BY <2>6, <3>1, RowKinds DEF Rows
      <4>2. QED
        BY <2>5, <4>1 DEF Covered
    <3>2. CASE r \in gov.objectTag
      <4>1. r.table # None /\ call[k].at = <<r.schema, r.table>> => pc[k] \notin TagWindow
        BY <2>2, <2>4, <2>6, <3>2, RowKinds, RowsSeenTo DEF Tables
      <4>2. QED
        BY <2>3, <2>6, <2>7, <3>2, <4>1
    <3>3. QED
      BY <3>1, <3>2
  <2>9. ASSUME NEW r \in gov'.attachment PROVE Covered(r, AttachmentWindow)'
    <3>1. CASE r \notin gov.attachment
      <4>1. r \notin Rows(gov) /\ r \in Rows(gov')
        BY <2>6, <3>1, RowKinds DEF Rows
      <4>2. QED
        BY <2>5, <4>1 DEF Covered
    <3>2. CASE r \in gov.attachment
      <4>1. r.table # None => (pc[k] \in AttachmentWindow /\ call[k].at = <<r.schema, r.table>>
                  => pc'[k] \in AttachmentWindow /\ call'[k].at = <<r.schema, r.table>>)
        BY <2>2, <2>4, <2>6, <3>2, RowKinds, RowsSeenTo DEF Tables
      <4>2. QED
        BY <2>3, <2>6, <2>7, <3>2, <4>1
    <3>3. QED
      BY <3>1, <3>2
  <2>10. QED
    BY <2>8, <2>9
<1>3. QED
  BY <1>1, <1>2 DEF Next, Done

LEMMA InitiallyLeft == Init => LeftInv
<1> SUFFICES ASSUME Init, ~ ahead, NEW r \in Rows(gov)
             PROVE  r.table = None \/ live[<<r.schema, r.table>>] # None
  BY DEF LeftInv, Covered, Rows
<1>1. TypeInv
  BY Initially
<1>2. ~ Stray(r, Cols) /\ r \in TagRow \cup Attachment
  BY <1>1, Updated DEF Init, TypeInv, WorldOK, Rows
<1>3. CASE r.table # None
  <2>1. <<r.schema, r.table>> \in Tables /\ r.schema # None
    BY <1>2, <1>3, RowKinds DEF Tables
  <2>2. Cols[<<r.schema, r.table>>] # {}
    BY <1>2, <1>3, <2>1 DEF Stray
  <2>3. QED
    BY <2>1, <2>2 DEF Cols, ColumnsOf
<1>4. QED
  BY <1>3

LEMMA LeftAlways == Spec => []LeftInv
<1>1. Init => LeftInv
  BY InitiallyLeft
<1>2. TypeInv /\ LeftInv /\ [Next]_vars => LeftInv'
  BY LeftKept
<1>3. QED
  BY <1>1, <1>2, Typed, PTL DEF Spec

LEMMA LeftSuffices == LeftInv => NothingIsLeftBehind
BY DEF LeftInv, NothingIsLeftBehind, Covered, Rows, TagWindow, AttachmentWindow

\* NothingIsLeftBehind: purge_table_governance and rename_table_governance
\* leave no row under a name that is gone, whatever calls overlap.
THEOREM RowsFollowNames == Spec => []NothingIsLeftBehind
BY LeftAlways, LeftSuffices, PTL

----------------------------------------------------------------------------
(***************************************************************************)
(* What reaches a column of one model reaches a column of another.  Of a   *)
(* model only the rows count.                                              *)
(***************************************************************************)

OfTable(r, t) == r.schema = t[1] /\ r.table = t[2]
Cascades(r, t) == r.schema = t[1] /\ (r.on = "schema" \/ (r.on = "table" /\ r.table = t[2]))
Tagged(r, t, c) == Cascades(r, t) \/ (r.on = "column" /\ OfTable(r, t) /\ r.column = c)

Alike(a, b) == a.policy = b.policy /\ a.target = b.target /\ a.tag = b.tag

TagsLend(g, h) == \A a \in g.attachment : a.target = "tag" => \E e \in h.attachment : Alike(e, a)

MaskLends(g, t, c, h, u, d) ==
    /\ \A r \in g.objectTag : Tagged(r, t, c) => \E q \in h.objectTag : q.tag = r.tag /\ Tagged(q, u, d)
    /\ TagsLend(g, h)
    /\ \A a \in g.attachment : a.target = "column" /\ OfTable(a, t) /\ a.column = c =>
           \E e \in h.attachment : Alike(e, a) /\ OfTable(e, u) /\ e.column = d

FilterLends(g, t, h, u) ==
    /\ \A r \in g.objectTag : Cascades(r, t) => \E q \in h.objectTag : q.tag = r.tag /\ Cascades(q, u)
    /\ TagsLend(g, h)
    /\ \A a \in g.attachment : a.target = "table" /\ OfTable(a, t) =>
           \E e \in h.attachment : Alike(e, a) /\ OfTable(e, u)

MaskingLends(g, t, c, h, u, d) ==
    \A a \in Masking(g, t, c) : \E e \in Masking(h, u, d) : Alike(e, a)

LEMMA TagsAre ==
    ASSUME NEW g, NEW t
    PROVE  /\ \A tag : tag \in Cascading(g, t) <=> \E r \in g.objectTag : r.tag = tag /\ Cascades(r, t)
           /\ \A c, tag : tag \in TagsOn(g, t, c) <=> \E r \in g.objectTag : r.tag = tag /\ Tagged(r, t, c)
BY DEF Cascading, TagsOn, Cascades, Tagged, OfTable

LEMMA MasksLent ==
    ASSUME NEW g, NEW t, NEW c, NEW h, NEW u, NEW d, MaskLends(g, t, c, h, u, d)
    PROVE  MaskingLends(g, t, c, h, u, d)
<1> SUFFICES ASSUME NEW a \in Masking(g, t, c) PROVE \E e \in Masking(h, u, d) : Alike(e, a)
  BY DEF MaskingLends
<1>1. a \in g.attachment /\ a.policy \in MaskPolicies
  BY DEF Masking
<1>2. CASE a.target = "tag" /\ a.tag \in TagsOn(g, t, c)
  <2>1. PICK e \in h.attachment : Alike(e, a)
    BY <1>1, <1>2 DEF MaskLends, TagsLend
  <2>2. a.tag \in TagsOn(h, u, d)
    <3>1. PICK r \in g.objectTag : r.tag = a.tag /\ Tagged(r, t, c)
      BY <1>2 DEF TagsOn, Cascading, Tagged, Cascades, OfTable
    <3>2. PICK q \in h.objectTag : q.tag = a.tag /\ Tagged(q, u, d)
      BY <3>1 DEF MaskLends
    <3>3. QED
      BY <3>2 DEF TagsOn, Cascading, Tagged, Cascades, OfTable
  <2>3. QED
    BY <1>1, <1>2, <2>1, <2>2 DEF Masking, Alike
<1>3. CASE a.target = "column" /\ OfTable(a, t) /\ a.column = c
  <2>1. PICK e \in h.attachment : Alike(e, a) /\ OfTable(e, u) /\ e.column = d
    BY <1>1, <1>3 DEF MaskLends
  <2>2. QED
    BY <1>1, <1>3, <2>1 DEF Masking, Alike, OfTable
<1>4. QED
  BY <1>2, <1>3 DEF Masking, OfTable

LEMMA MasksOnLent ==
    ASSUME NEW g, NEW t, NEW c, NEW h, NEW u, NEW d, MaskingLends(g, t, c, h, u, d)
    PROVE  MasksOn(g, t, c) \subseteq MasksOn(h, u, d)
BY DEF MaskingLends, MasksOn, Alike

LEMMA FiltersLent ==
    ASSUME NEW g, NEW t, NEW h, NEW u, FilterLends(g, t, h, u)
    PROVE  FiltersOn(g, t) \subseteq FiltersOn(h, u)
<1> SUFFICES ASSUME NEW p \in FiltersOn(g, t) PROVE p \in FiltersOn(h, u)
  OBVIOUS
<1>1. PICK a \in g.attachment :
        /\ a.policy = p /\ p \in RowPolicies
        /\ (a.target = "table" /\ OfTable(a, t)) \/ (a.target = "tag" /\ a.tag \in Cascading(g, t))
  BY DEF FiltersOn, OfTable
<1>2. CASE a.target = "table" /\ OfTable(a, t)
  <2>1. PICK e \in h.attachment : Alike(e, a) /\ OfTable(e, u)
    BY <1>1, <1>2 DEF FilterLends
  <2>2. QED
    BY <1>1, <1>2, <2>1 DEF FiltersOn, Alike, OfTable
<1>3. CASE a.target = "tag" /\ a.tag \in Cascading(g, t)
  <2>1. PICK e \in h.attachment : Alike(e, a)
    BY <1>1, <1>3 DEF FilterLends, TagsLend
  <2>2. a.tag \in Cascading(h, u)
    BY <1>3, TagsAre DEF FilterLends
  <2>3. QED
    BY <1>1, <1>3, <2>1, <2>2 DEF FiltersOn, Alike
<1>4. QED
  BY <1>1, <1>2, <1>3

LEMMA OneLent ==
    ASSUME NEW g, NEW t, NEW c, NEW h, NEW u, NEW d, MaskingLends(g, t, c, h, u, d), OneSource(h, u, d)
    PROVE  OneSource(g, t, c)
BY DEF MaskingLends, OneSource, Alike

\* Rows that are there as well.
LEMMA MoreRows ==
    ASSUME NEW g, NEW h, g.objectTag \subseteq h.objectTag, g.attachment \subseteq h.attachment, NEW t
    PROVE  FilterLends(g, t, h, t) /\ \A c : MaskLends(g, t, c, h, t, c)
BY DEF FilterLends, MaskLends, TagsLend, Alike

UnderBy(p, g, t, cs) == p \in FiltersOn(g, t) \/ \E c \in cs : p \in MasksOn(g, t, c)

LEMMA UnderIs ==
    ASSUME NEW g, NEW l, NEW cs, NEW i, NEW p
    PROVE  p \in Under(g, l, cs, i) <=> \E t \in Tables : l[t] = i /\ UnderBy(p, g, t, cs[i])
BY DEF Under, UnderBy

----------------------------------------------------------------------------
(***************************************************************************)
(* The rows as they will be, when the carry in flight is through.          *)
(***************************************************************************)

Flights == {"carry tags", "carry attachments", "commit"}
Carries == {"carry tags", "carry attachments"}
TagCarry == {"carry tags"}

Renames(l, b) == l = "commit" /\ b.change[1] = "rename"

\* A carry is still to move the row; a change of column is.
Flies(l, b, ls, r) == l \in ls /\ OfTable(r, b.at)
Turns(l, b, r) == Renames(l, b) /\ OfTable(r, b.at) /\ r.column = b.change[2][1]

Will(l, b, ls, r) ==
    IF Flies(l, b, ls, r) THEN Renamed(r, b.to)
    ELSE IF Turns(l, b, r) THEN [r EXCEPT !.column = b.change[2][2]]
    ELSE r

Soon(l, b, g) ==
    [objectTag  |-> { Will(l, b, TagCarry, r) : r \in g.objectTag },
     attachment |-> { Will(l, b, Carries, r) : r \in g.attachment }]

FlightOK(l, b) ==
    /\ l \in Carries => b.at \in Tables /\ b.to \in Tables /\ b.at # b.to
    /\ l = "commit" => b.at \in Tables /\ b.change \in Change

LEMMA WillFly ==
    ASSUME NEW l, NEW b, NEW ls, NEW r \in TagRow \cup Attachment, Flies(l, b, ls, r)
    PROVE  /\ OfTable(Will(l, b, ls, r), b.to)
           /\ Will(l, b, ls, r).column = r.column
           /\ Will(l, b, ls, r).tag = r.tag
           /\ r \in TagRow => Will(l, b, ls, r).on = r.on
           /\ r \in Attachment => Alike(Will(l, b, ls, r), r)
<1>1. Will(l, b, ls, r) = [r EXCEPT !.schema = b.to[1], !.table = b.to[2]]
  BY DEF Will, Renamed
<1>2. CASE r \in TagRow
  BY <1>1, <1>2, RowKinds DEF TagRow, OfTable
<1>3. CASE r \in Attachment
  BY <1>1, <1>3, RowKinds DEF Attachment, OfTable, Alike
<1>4. QED
  BY <1>2, <1>3

LEMMA WillTurn ==
    ASSUME NEW l, NEW b, NEW ls, NEW r \in TagRow \cup Attachment, ~ Flies(l, b, ls, r), Turns(l, b, r)
    PROVE  /\ OfTable(Will(l, b, ls, r), b.at)
           /\ Will(l, b, ls, r).column = b.change[2][2]
           /\ Will(l, b, ls, r).tag = r.tag
           /\ r \in TagRow => Will(l, b, ls, r).on = r.on
           /\ r \in Attachment => Alike(Will(l, b, ls, r), r)
<1>1. Will(l, b, ls, r) = [r EXCEPT !.column = b.change[2][2]] /\ OfTable(r, b.at)
  BY DEF Will, Turns
<1>2. CASE r \in TagRow
  BY <1>1, <1>2, RowKinds DEF TagRow, OfTable
<1>3. CASE r \in Attachment
  BY <1>1, <1>3, RowKinds DEF Attachment, OfTable, Alike
<1>4. QED
  BY <1>2, <1>3

LEMMA WillStay ==
    ASSUME NEW l, NEW b, NEW ls, NEW r, ~ Flies(l, b, ls, r), ~ Turns(l, b, r)
    PROVE  Will(l, b, ls, r) = r
BY DEF Will

LEMMA WillKeep ==
    ASSUME NEW l, NEW b, NEW ls, NEW r \in TagRow \cup Attachment
    PROVE  /\ Will(l, b, ls, r).tag = r.tag
           /\ r \in TagRow => Will(l, b, ls, r).on = r.on
           /\ r \in Attachment => Alike(Will(l, b, ls, r), r)
<1>1. CASE Flies(l, b, ls, r)
  BY <1>1, WillFly
<1>2. CASE ~ Flies(l, b, ls, r) /\ Turns(l, b, r)
  BY <1>2, WillTurn
<1>3. CASE ~ Flies(l, b, ls, r) /\ ~ Turns(l, b, r)
  BY <1>3, WillStay DEF Alike
<1>4. QED
  BY <1>1, <1>2, <1>3

LEMMA RowShapes ==
    /\ \A r \in TagRow :
          /\ r.on \in {"schema", "table", "column"}
          /\ r.on = "schema" => r.table = None /\ r.column = None
          /\ r.on = "table" => r.table \in Names /\ r.column = None
          /\ r.on = "column" => r.table \in Names /\ r.column \in Columns
    /\ \A a \in Attachment :
          /\ a.target \in {"tag", "table", "column"}
          /\ a.target = "tag" => a.schema = None /\ a.table = None /\ a.column = None
          /\ a.target = "table" => a.table \in Names /\ a.column = None
          /\ a.target = "column" => a.table \in Names /\ a.column \in Columns
BY DEF TagRow, Attachment

LEMMA FlightsAbout ==
    ASSUME NEW l, NEW b, FlightOK(l, b)
    PROVE  /\ l \in Carries => /\ b.at[2] \in Names /\ b.to[2] \in Names
                               /\ b.at[2] # None /\ b.to[2] # None /\ ~ Renames(l, b)
           /\ Renames(l, b) => /\ l = "commit" /\ b.at[2] # None
                               /\ b.change[2][1] # None /\ b.change[2][2] # None
                               /\ b.change[2][1] # b.change[2][2]
<1>1. ASSUME l \in Carries
      PROVE  /\ b.at[2] \in Names /\ b.to[2] \in Names
             /\ b.at[2] # None /\ b.to[2] # None /\ ~ Renames(l, b)
  BY <1>1, Nones DEF FlightOK, Tables, Renames, Carries
<1>2. ASSUME Renames(l, b)
      PROVE  /\ l = "commit" /\ b.at[2] # None
             /\ b.change[2][1] # None /\ b.change[2][2] # None
             /\ b.change[2][1] # b.change[2][2]
  BY <1>2, Nones, Changes DEF FlightOK, Tables, Renames
<1>3. QED
  BY <1>1, <1>2

\* A row of no table, and one of a whole table that is not carried, stay.
LEMMA RowsStay ==
    ASSUME NEW l, NEW b, FlightOK(l, b), NEW ls \in {TagCarry, Carries}, NEW r \in TagRow \cup Attachment
    PROVE  /\ r.table = None => Will(l, b, ls, r) = r
           /\ r.column = None /\ ~ Flies(l, b, ls, r) => Will(l, b, ls, r) = r
<1>1. r.column = None => ~ Turns(l, b, r)
  BY FlightsAbout DEF Turns
<1>2. r.table = None => ~ Turns(l, b, r) /\ ~ Flies(l, b, ls, r)
  BY FlightsAbout DEF Turns, Flies, OfTable, Carries, TagCarry
<1>3. QED
  BY <1>1, <1>2, WillStay

\* What reaches a table that the flight is not from reaches it afterwards.
LEMMA Away ==
    ASSUME NEW g, g.objectTag \subseteq TagRow, g.attachment \subseteq Attachment,
           NEW l, NEW b, FlightOK(l, b), NEW t \in Tables, l \in Carries => t # b.at
    PROVE  /\ FilterLends(g, t, Soon(l, b, g), t)
           /\ \A c : (Renames(l, b) /\ t = b.at => c # b.change[2][1])
                        => MaskLends(g, t, c, Soon(l, b, g), t, c)
<1> DEFINE h == Soon(l, b, g)
<1>1. /\ \A r \in g.objectTag : Will(l, b, TagCarry, r) \in h.objectTag
      /\ \A a \in g.attachment : Will(l, b, Carries, a) \in h.attachment
  BY DEF Soon
<1>2. t = <<t[1], t[2]>> /\ (l \in Carries \/ Renames(l, b) => b.at = <<b.at[1], b.at[2]>>)
  BY DEF Tables, FlightOK, Renames
<1> HIDE DEF h
<1>3. ASSUME NEW r, OfTable(r, t), NEW ls \in {TagCarry, Carries} PROVE ~ Flies(l, b, ls, r)
  BY <1>2, <1>3 DEF Flies, OfTable, Carries, TagCarry
<1>4. ASSUME NEW r, OfTable(r, t), Renames(l, b) /\ t = b.at => r.column # b.change[2][1]
      PROVE  ~ Turns(l, b, r)
  BY <1>2, <1>4 DEF Turns, OfTable
<1>5. ASSUME NEW r \in g.objectTag, Cascades(r, t) PROVE r \in h.objectTag
  <2>0. r \in TagRow
    OBVIOUS
  <2>1. r.table = None \/ (r.column = None /\ OfTable(r, t))
    BY <1>5, <2>0, RowShapes DEF Cascades, OfTable
  <2>2. Will(l, b, TagCarry, r) = r
    BY <1>3, <2>0, <2>1, RowsStay
  <2>3. QED
    BY <1>1, <2>2
<1>6. TagsLend(g, h)
  <2>1. \A a \in g.attachment : Alike(Will(l, b, Carries, a), a)
    BY WillKeep
  <2>2. QED
    BY <1>1, <2>1 DEF TagsLend
<1>7. FilterLends(g, t, h, t)
  <2>1. ASSUME NEW a \in g.attachment, a.target = "table", OfTable(a, t) PROVE a \in h.attachment
    <3>1. a \in Attachment /\ a.column = None
      BY <2>1, RowShapes
    <3>2. Will(l, b, Carries, a) = a
      BY <1>3, <2>1, <3>1, RowsStay
    <3>3. QED
      BY <1>1, <3>2
  <2>2. QED
    BY <1>5, <1>6, <2>1 DEF FilterLends, Alike
<1>8. ASSUME NEW c, Renames(l, b) /\ t = b.at => c # b.change[2][1] PROVE MaskLends(g, t, c, h, t, c)
  <2>1. ASSUME NEW r \in g.objectTag, OfTable(r, t), r.column = c PROVE r \in h.objectTag
    <3>1. Will(l, b, TagCarry, r) = r
      BY <1>3, <1>4, <1>8, <2>1, WillStay
    <3>2. QED
      BY <1>1, <3>1
  <2>2. ASSUME NEW a \in g.attachment, OfTable(a, t), a.column = c PROVE a \in h.attachment
    <3>1. Will(l, b, Carries, a) = a
      BY <1>3, <1>4, <1>8, <2>2, WillStay
    <3>2. QED
      BY <1>1, <3>1
  <2>3. QED
    BY <1>5, <1>6, <2>1, <2>2 DEF MaskLends, Tagged, Alike
<1>9. QED
  BY <1>7, <1>8 DEF h

\* What reaches a table afterwards that the flight is not to reaches it now.
LEMMA Back ==
    ASSUME NEW g, g.objectTag \subseteq TagRow, g.attachment \subseteq Attachment,
           NEW l, NEW b, FlightOK(l, b), NEW t \in Tables, l \in Carries => t # b.to
    PROVE  /\ FilterLends(Soon(l, b, g), t, g, t)
           /\ \A c : (Renames(l, b) /\ t = b.at => c # b.change[2][2])
                        => MaskLends(Soon(l, b, g), t, c, g, t, c)
<1> DEFINE h == Soon(l, b, g)
<1>1. /\ \A q \in h.objectTag : \E r \in g.objectTag : q = Will(l, b, TagCarry, r)
      /\ \A e \in h.attachment : \E a \in g.attachment : e = Will(l, b, Carries, a)
  BY DEF Soon
<1>2. t = <<t[1], t[2]>> /\ (l \in Carries => b.to = <<b.to[1], b.to[2]>>)
                         /\ (Renames(l, b) => b.at = <<b.at[1], b.at[2]>>)
  BY DEF Tables, FlightOK, Renames
<1> HIDE DEF h
<1>3. ASSUME NEW r \in TagRow \cup Attachment, NEW ls \in {TagCarry, Carries},
             OfTable(Will(l, b, ls, r), t)
      PROVE  ~ Flies(l, b, ls, r)
  <2>1. SUFFICES ASSUME Flies(l, b, ls, r) PROVE FALSE
    OBVIOUS
  <2>2. OfTable(Will(l, b, ls, r), b.to) /\ l \in Carries
    BY <2>1, WillFly DEF Flies, Carries, TagCarry
  <2>3. QED
    BY <1>2, <1>3, <2>2 DEF OfTable
<1>4. ASSUME NEW r \in TagRow \cup Attachment, NEW ls \in {TagCarry, Carries}, NEW q,
             q = Will(l, b, ls, r), OfTable(q, t), Renames(l, b) /\ t = b.at => q.column # b.change[2][2]
      PROVE  q = r
  <2>1. ~ Flies(l, b, ls, r)
    BY <1>3, <1>4
  <2>2. CASE Turns(l, b, r)
    <3>1. OfTable(Will(l, b, ls, r), b.at) /\ Will(l, b, ls, r).column = b.change[2][2]
      BY <2>1, <2>2, WillTurn
    <3>2. OfTable(q, b.at) /\ q.column = b.change[2][2] /\ Renames(l, b)
      BY <1>4, <2>2, <3>1 DEF Turns
    <3>3. QED
      BY <1>2, <1>4, <3>2 DEF OfTable
  <2>3. CASE ~ Turns(l, b, r)
    BY <1>4, <2>1, <2>3, WillStay
  <2>4. QED
    BY <2>2, <2>3
<1>5. ASSUME NEW q \in h.objectTag, Cascades(q, t)
      PROVE  q \in g.objectTag
  <2>1. PICK r \in g.objectTag : q = Will(l, b, TagCarry, r)
    BY <1>1
  <2>2. r \in TagRow
    OBVIOUS
  <2>3. q.on = r.on
    <3>1. Will(l, b, TagCarry, r).on = r.on
      BY <2>2, WillKeep
    <3>2. QED
      BY <2>1, <3>1
  <2>4. r.table = None \/ (r.column = None /\ OfTable(q, t))
    BY <1>5, <2>2, <2>3, RowShapes DEF Cascades, OfTable
  <2>5. q = r
    BY <1>3, <2>1, <2>2, <2>4, RowsStay
  <2>6. QED
    BY <2>5
<1>6. TagsLend(h, g)
  <2>1. \A a \in g.attachment : Alike(Will(l, b, Carries, a), a)
    BY WillKeep
  <2>2. QED
    BY <1>1, <2>1 DEF TagsLend, Alike
<1>7. FilterLends(h, t, g, t)
  <2>1. ASSUME NEW e \in h.attachment, e.target = "table", OfTable(e, t) PROVE e \in g.attachment
    <3>1. PICK a \in g.attachment : e = Will(l, b, Carries, a)
      BY <1>1
    <3>2. a \in Attachment
      OBVIOUS
    <3>3. a.target = "table"
      BY <2>1, <3>1, <3>2, WillKeep DEF Alike
    <3>4. a.column = None
      BY <3>2, <3>3, RowShapes
    <3>5. e = a
      BY <1>3, <2>1, <3>1, <3>2, <3>4, RowsStay
    <3>6. QED
      BY <3>5
  <2>2. QED
    BY <1>5, <1>6, <2>1 DEF FilterLends, Alike
<1>8. ASSUME NEW c, Renames(l, b) /\ t = b.at => c # b.change[2][2] PROVE MaskLends(h, t, c, g, t, c)
  <2>1. ASSUME NEW q \in h.objectTag, OfTable(q, t), q.column = c PROVE q \in g.objectTag
    <3>1. PICK r \in g.objectTag : q = Will(l, b, TagCarry, r)
      BY <1>1
    <3>2. r \in TagRow
      OBVIOUS
    <3>3. q = r
      BY <1>4, <1>8, <2>1, <3>1, <3>2
    <3>4. QED
      BY <3>3
  <2>2. ASSUME NEW e \in h.attachment, OfTable(e, t), e.column = c PROVE e \in g.attachment
    <3>1. PICK a \in g.attachment : e = Will(l, b, Carries, a)
      BY <1>1
    <3>2. a \in Attachment
      OBVIOUS
    <3>3. e = a
      BY <1>4, <1>8, <2>2, <3>1, <3>2
    <3>4. QED
      BY <3>3
  <2>3. QED
    BY <1>5, <1>6, <2>1, <2>2 DEF MaskLends, Tagged, Alike
<1>9. QED
  BY <1>7, <1>8 DEF h

\* Where no carry is in flight, the rows are as they will be.
LEMMA Landed ==
    ASSUME NEW l, NEW b, NEW g, l \notin Carries, ~ Renames(l, b)
    PROVE  Soon(l, b, g) = [objectTag |-> g.objectTag, attachment |-> g.attachment]
<1>1. \A ls \in {TagCarry, Carries} : \A r : Will(l, b, ls, r) = r
  BY WillStay DEF Flies, Turns, TagCarry, Carries
<1>2. /\ { Will(l, b, TagCarry, r) : r \in g.objectTag } = g.objectTag
      /\ { Will(l, b, Carries, r) : r \in g.attachment } = g.attachment
  BY <1>1
<1>3. QED
  BY <1>2 DEF Soon

\* What reached the old name will reach the new one.
LEMMA CarryForward ==
    ASSUME NEW g, g.objectTag \subseteq TagRow, g.attachment \subseteq Attachment,
           NEW l \in TagCarry, NEW b, FlightOK(l, b), b.at[1] = b.to[1]
    PROVE  /\ FilterLends(g, b.at, Soon(l, b, g), b.to)
           /\ \A c : MaskLends(g, b.at, c, Soon(l, b, g), b.to, c)
<1> DEFINE h == Soon(l, b, g)
<1>1. /\ \A r \in g.objectTag : Will(l, b, TagCarry, r) \in h.objectTag
      /\ \A a \in g.attachment : Will(l, b, Carries, a) \in h.attachment
  BY DEF Soon
<1> HIDE DEF h
<1>2. ASSUME NEW r, OfTable(r, b.at) PROVE Flies(l, b, TagCarry, r) /\ Flies(l, b, Carries, r)
  BY <1>2 DEF Flies, TagCarry, Carries
<1>3. ASSUME NEW r \in g.objectTag, Cascades(r, b.at)
      PROVE  \E q \in h.objectTag : q.tag = r.tag /\ Cascades(q, b.to)
  <2>0. r \in TagRow
    OBVIOUS
  <2>1. CASE r.on = "schema"
    <3>1. Will(l, b, TagCarry, r) = r
      BY <2>0, <2>1, RowsStay, RowShapes
    <3>2. Cascades(r, b.to)
      BY <1>3, <2>1 DEF Cascades
    <3>3. QED
      BY <1>1, <3>1, <3>2
  <2>2. CASE r.on = "table" /\ OfTable(r, b.at)
    <3>1. PICK q : q = Will(l, b, TagCarry, r)
      OBVIOUS
    <3>2. OfTable(q, b.to) /\ q.on = r.on /\ q.tag = r.tag
      BY <1>2, <2>0, <2>2, <3>1, WillFly
    <3>3. QED
      BY <1>1, <2>2, <3>1, <3>2 DEF Cascades, OfTable
  <2>3. QED
    BY <1>3, <2>1, <2>2 DEF Cascades, OfTable
<1>4. TagsLend(g, h)
  <2>1. \A a \in g.attachment : Alike(Will(l, b, Carries, a), a)
    BY WillKeep
  <2>2. QED
    BY <1>1, <2>1 DEF TagsLend
<1>5. ASSUME NEW a \in g.attachment, OfTable(a, b.at)
      PROVE  \E e \in h.attachment : Alike(e, a) /\ OfTable(e, b.to) /\ e.column = a.column
  <2>1. a \in Attachment
    OBVIOUS
  <2>2. PICK e : e = Will(l, b, Carries, a)
    OBVIOUS
  <2>3. Alike(e, a) /\ OfTable(e, b.to) /\ e.column = a.column
    BY <1>2, <1>5, <2>1, <2>2, WillFly
  <2>4. QED
    BY <1>1, <2>2, <2>3
<1>6. FilterLends(g, b.at, h, b.to)
  BY <1>3, <1>4, <1>5 DEF FilterLends
<1>7. ASSUME NEW c PROVE MaskLends(g, b.at, c, h, b.to, c)
  <2>1. ASSUME NEW r \in g.objectTag, r.on = "column", OfTable(r, b.at), r.column = c
        PROVE  \E q \in h.objectTag : q.tag = r.tag /\ Tagged(q, b.to, c)
    <3>0. r \in TagRow
      OBVIOUS
    <3>1. PICK q : q = Will(l, b, TagCarry, r)
      OBVIOUS
    <3>2. OfTable(q, b.to) /\ q.on = r.on /\ q.tag = r.tag /\ q.column = r.column
      BY <1>2, <2>1, <3>0, <3>1, WillFly
    <3>3. QED
      BY <1>1, <2>1, <3>1, <3>2 DEF Tagged
  <2>2. \A r \in g.objectTag : Tagged(r, b.at, c) => \E q \in h.objectTag : q.tag = r.tag /\ Tagged(q, b.to, c)
    BY <1>3, <2>1 DEF Tagged
  <2>3. QED
    BY <1>4, <1>5, <2>2 DEF MaskLends
<1>8. QED
  BY <1>6, <1>7 DEF h

\* What reached the old column will reach the new one.
LEMMA TurnForward ==
    ASSUME NEW g, g.objectTag \subseteq TagRow, g.attachment \subseteq Attachment,
           NEW l, NEW b, FlightOK(l, b), Renames(l, b)
    PROVE  MaskLends(g, b.at, b.change[2][1], Soon(l, b, g), b.at, b.change[2][2])
<1> DEFINE h == Soon(l, b, g)
<1>1. /\ \A r \in g.objectTag : Will(l, b, TagCarry, r) \in h.objectTag
      /\ \A a \in g.attachment : Will(l, b, Carries, a) \in h.attachment
  BY DEF Soon
<1> HIDE DEF h
<1>2. \A r : ~ Flies(l, b, TagCarry, r) /\ ~ Flies(l, b, Carries, r)
  BY DEF Flies, TagCarry, Carries, Renames
<1>3. ASSUME NEW r \in g.objectTag, Tagged(r, b.at, b.change[2][1])
      PROVE  \E q \in h.objectTag : q.tag = r.tag /\ Tagged(q, b.at, b.change[2][2])
  <2>0. r \in TagRow
    OBVIOUS
  <2>1. CASE Cascades(r, b.at)
    <3>1. r.column = None
      BY <2>0, <2>1, RowShapes DEF Cascades
    <3>2. Will(l, b, TagCarry, r) = r
      BY <1>2, <2>0, <3>1, RowsStay
    <3>3. QED
      BY <1>1, <2>1, <3>2 DEF Tagged
  <2>2. CASE r.on = "column" /\ OfTable(r, b.at) /\ r.column = b.change[2][1]
    <3>1. PICK q : q = Will(l, b, TagCarry, r)
      OBVIOUS
    <3>2. Turns(l, b, r)
      BY <2>2 DEF Turns
    <3>3. OfTable(q, b.at) /\ q.on = r.on /\ q.tag = r.tag /\ q.column = b.change[2][2]
      BY <1>2, <2>0, <3>1, <3>2, WillTurn
    <3>4. QED
      BY <1>1, <2>2, <3>1, <3>3 DEF Tagged
  <2>3. QED
    BY <1>3, <2>1, <2>2 DEF Tagged
<1>4. TagsLend(g, h)
  <2>1. \A a \in g.attachment : Alike(Will(l, b, Carries, a), a)
    BY WillKeep
  <2>2. QED
    BY <1>1, <2>1 DEF TagsLend
<1>5. ASSUME NEW a \in g.attachment, OfTable(a, b.at), a.column = b.change[2][1]
      PROVE  \E e \in h.attachment : Alike(e, a) /\ OfTable(e, b.at) /\ e.column = b.change[2][2]
  <2>1. a \in Attachment /\ Turns(l, b, a)
    BY <1>5 DEF Turns
  <2>2. PICK e : e = Will(l, b, Carries, a)
    OBVIOUS
  <2>3. Alike(e, a) /\ OfTable(e, b.at) /\ e.column = b.change[2][2]
    BY <1>2, <2>1, <2>2, WillTurn
  <2>4. QED
    BY <1>1, <2>2, <2>3
<1>6. MaskLends(g, b.at, b.change[2][1], h, b.at, b.change[2][2])
  BY <1>3, <1>4, <1>5 DEF MaskLends
<1>7. QED
  BY <1>6 DEF h

\* What will reach a new name that had no rows reached the old one.
LEMMA CarryBack ==
    ASSUME NEW g, g.objectTag \subseteq TagRow, g.attachment \subseteq Attachment,
           NEW l \in TagCarry, NEW b, FlightOK(l, b), b.at[1] = b.to[1],
           \A r \in g.objectTag \cup g.attachment : ~ OfTable(r, b.to)
    PROVE  \A c : MaskLends(Soon(l, b, g), b.to, c, g, b.at, c)
<1> DEFINE h == Soon(l, b, g)
<1>1. /\ \A q \in h.objectTag : \E r \in g.objectTag : q = Will(l, b, TagCarry, r)
      /\ \A e \in h.attachment : \E a \in g.attachment : e = Will(l, b, Carries, a)
  BY DEF Soon
<1> HIDE DEF h
<1>2. \A r : ~ Turns(l, b, r)
  BY DEF Turns, Renames, TagCarry
<1>3. ASSUME NEW r \in g.objectTag \cup g.attachment, r \in TagRow \cup Attachment,
             NEW ls \in {TagCarry, Carries}, NEW q, q = Will(l, b, ls, r), OfTable(q, b.to)
      PROVE  Flies(l, b, ls, r)
  BY <1>2, <1>3, WillStay
<1>4. ASSUME NEW c, NEW q \in h.objectTag, Tagged(q, b.to, c)
      PROVE  \E r \in g.objectTag : r.tag = q.tag /\ Tagged(r, b.at, c)
  <2>1. PICK r \in g.objectTag : q = Will(l, b, TagCarry, r)
    BY <1>1
  <2>2. r \in TagRow
    OBVIOUS
  <2>3. q.on = r.on /\ q.tag = r.tag
    <3>1. Will(l, b, TagCarry, r).on = r.on /\ Will(l, b, TagCarry, r).tag = r.tag
      BY <2>2, WillKeep
    <3>2. QED
      BY <2>1, <3>1
  <2>4. CASE r.on = "schema"
    <3>1. q = r
      BY <2>1, <2>2, <2>4, RowsStay, RowShapes
    <3>2. Cascades(r, b.at)
      BY <1>4, <2>4, <3>1, <2>2, RowShapes DEF Tagged, Cascades
    <3>3. QED
      BY <2>3, <3>2 DEF Tagged
  <2>5. CASE r.on # "schema"
    <3>1. OfTable(q, b.to)
      BY <1>4, <2>3, <2>5 DEF Tagged, Cascades, OfTable
    <3>2. Flies(l, b, TagCarry, r)
      BY <1>3, <2>1, <2>2, <3>1
    <3>3. OfTable(r, b.at)
      BY <3>2 DEF Flies
    <3>4. q.column = r.column
      <4>1. Will(l, b, TagCarry, r).column = r.column
        BY <2>2, <3>2, WillFly
      <4>2. QED
        BY <2>1, <4>1
    <3>5. Tagged(r, b.at, c)
      BY <1>4, <2>3, <2>5, <3>3, <3>4 DEF Tagged, Cascades, OfTable
    <3>6. QED
      BY <2>3, <3>5
  <2>6. QED
    BY <2>4, <2>5
<1>5. TagsLend(h, g)
  <2>1. \A a \in g.attachment : Alike(Will(l, b, Carries, a), a)
    BY WillKeep
  <2>2. QED
    BY <1>1, <2>1 DEF TagsLend, Alike
<1>6. ASSUME NEW e \in h.attachment, OfTable(e, b.to)
      PROVE  \E a \in g.attachment : Alike(a, e) /\ OfTable(a, b.at) /\ a.column = e.column
  <2>1. PICK a \in g.attachment : e = Will(l, b, Carries, a)
    BY <1>1
  <2>2. a \in Attachment
    OBVIOUS
  <2>3. Flies(l, b, Carries, a)
    BY <1>3, <1>6, <2>1, <2>2
  <2>4. Alike(Will(l, b, Carries, a), a) /\ Will(l, b, Carries, a).column = a.column
    BY <2>2, <2>3, WillFly
  <2>5. Alike(a, e) /\ OfTable(a, b.at) /\ a.column = e.column
    BY <2>1, <2>3, <2>4 DEF Alike, Flies
  <2>6. QED
    BY <2>5
<1>7. \A c : MaskLends(h, b.to, c, g, b.at, c)
  BY <1>4, <1>5, <1>6 DEF MaskLends
<1>8. QED
  BY <1>7 DEF h

\* What will mask a new column that had no mask masked the old one.
LEMMA TurnBack ==
    ASSUME NEW g, g.objectTag \subseteq TagRow, g.attachment \subseteq Attachment,
           NEW l, NEW b, FlightOK(l, b), Renames(l, b), MasksOn(g, b.at, b.change[2][2]) = {}
    PROVE  MaskingLends(Soon(l, b, g), b.at, b.change[2][2], g, b.at, b.change[2][1])
<1> DEFINE h == Soon(l, b, g)
<1>1. /\ \A q \in h.objectTag : \E r \in g.objectTag : q = Will(l, b, TagCarry, r)
      /\ \A e \in h.attachment : \E a \in g.attachment : e = Will(l, b, Carries, a)
  BY DEF Soon
<1>2. PICK old, new : old = b.change[2][1] /\ new = b.change[2][2]
  OBVIOUS
<1>3. \A r : ~ Flies(l, b, TagCarry, r) /\ ~ Flies(l, b, Carries, r)
  BY DEF Flies, TagCarry, Carries, Renames
<1>4. Masking(g, b.at, new) = {}
  BY <1>2 DEF MasksOn
<1>5. old \in Columns
  BY <1>2, Changes DEF FlightOK, Renames
<1> HIDE DEF h
<1>6. ASSUME NEW e \in Masking(h, b.at, new) PROVE \E a \in Masking(g, b.at, old) : Alike(a, e)
  <2>1. PICK a \in g.attachment : e = Will(l, b, Carries, a)
    BY <1>1 DEF Masking
  <2>2. a \in Attachment
    OBVIOUS
  <2>3. Alike(e, a)
    BY <2>1, <2>2, WillKeep
  <2>4. a.policy \in MaskPolicies
    BY <2>3 DEF Masking, Alike
  <2>5. CASE e.target = "tag" /\ e.tag \in TagsOn(h, b.at, new)
    <3>1. PICK q \in h.objectTag : q.tag = a.tag /\ Tagged(q, b.at, new)
      BY <2>3, <2>5 DEF TagsOn, Cascading, Tagged, Cascades, OfTable, Alike
    <3>2. PICK r \in g.objectTag : q = Will(l, b, TagCarry, r)
      BY <1>1
    <3>3. r \in TagRow
      OBVIOUS
    <3>4. r.tag = a.tag
      <4>1. Will(l, b, TagCarry, r).tag = r.tag
        BY <3>3, WillKeep
      <4>2. QED
        BY <3>1, <3>2, <4>1
    <3>5. CASE Turns(l, b, r)
      <4>1. r.column = old /\ OfTable(r, b.at)
        BY <1>2, <3>5 DEF Turns
      <4>2. r.on = "column"
        BY <1>5, <3>3, <4>1, RowShapes, Nones
      <4>3. Tagged(r, b.at, old)
        BY <4>1, <4>2 DEF Tagged
      <4>4. a.tag \in TagsOn(g, b.at, old)
        BY <3>4, <4>3 DEF TagsOn, Cascading, Tagged, Cascades, OfTable
      <4>5. QED
        BY <2>3, <2>4, <2>5, <4>4 DEF Masking, Alike
    <3>6. CASE ~ Turns(l, b, r)
      <4>1. q = r
        BY <1>3, <3>2, <3>6, WillStay
      <4>2. ASSUME NEW c, Tagged(r, b.at, c) PROVE a \in Masking(g, b.at, c)
        <5>1. a.tag \in TagsOn(g, b.at, c)
          BY <3>4, <4>2 DEF TagsOn, Cascading, Tagged, Cascades, OfTable
        <5>2. QED
          BY <2>3, <2>4, <2>5, <5>1 DEF Masking, Alike
      <4>3. QED
        BY <1>4, <3>1, <4>1, <4>2
    <3>7. QED
      BY <3>5, <3>6
  <2>6. CASE e.target = "column" /\ OfTable(e, b.at) /\ e.column = new
    <3>1. CASE Turns(l, b, a)
      <4>1. a.column = old /\ OfTable(a, b.at)
        BY <1>2, <3>1 DEF Turns
      <4>2. QED
        BY <2>3, <2>4, <2>6, <4>1 DEF Masking, Alike, OfTable
    <3>2. CASE ~ Turns(l, b, a)
      <4>1. e = a
        BY <1>3, <2>1, <3>2, WillStay
      <4>2. QED
        BY <1>4, <2>4, <2>6, <4>1 DEF Masking, OfTable
    <3>3. QED
      BY <3>1, <3>2
  <2>7. QED
    BY <2>5, <2>6 DEF Masking, OfTable
<1>7. MaskingLends(h, b.at, new, g, b.at, old)
  BY <1>6 DEF MaskingLends
<1>8. QED
  BY <1>2, <1>7 DEF h

LEMMA UnderLent ==
    ASSUME NEW p, NEW g, NEW t, NEW cs, NEW h, NEW u, NEW ds, FilterLends(g, t, h, u),
           \A c \in cs : \E d \in ds : MaskLends(g, t, c, h, u, d), UnderBy(p, g, t, cs)
    PROVE  UnderBy(p, h, u, ds)
<1>1. CASE p \in FiltersOn(g, t)
  BY <1>1, FiltersLent DEF UnderBy
<1>2. ASSUME NEW c \in cs, p \in MasksOn(g, t, c) PROVE UnderBy(p, h, u, ds)
  <2>1. PICK d \in ds : MaskLends(g, t, c, h, u, d)
    BY <1>2
  <2>2. MasksOn(g, t, c) \subseteq MasksOn(h, u, d)
    BY <2>1, MasksLent, MasksOnLent
  <2>3. QED
    BY <1>2, <2>2 DEF UnderBy
<1>3. QED
  BY <1>1, <1>2 DEF UnderBy

AtRest(l, b) == l \notin Carries /\ ~ Renames(l, b)

LEMMA AtRestBy ==
    ASSUME NEW l, NEW b, AtRest(l, b), NEW g, NEW t, NEW p, NEW cs
    PROVE  UnderBy(p, Soon(l, b, g), t, cs) <=> UnderBy(p, g, t, cs)
<1>1. PICK h : h = Soon(l, b, g)
  OBVIOUS
<1>2. h.objectTag = g.objectTag /\ h.attachment = g.attachment
  BY <1>1, Landed DEF AtRest
<1>3. /\ FilterLends(g, t, h, t) /\ \A c : MaskLends(g, t, c, h, t, c)
      /\ FilterLends(h, t, g, t) /\ \A c : MaskLends(h, t, c, g, t, c)
  BY <1>2, MoreRows
<1>4. UnderBy(p, g, t, cs) => UnderBy(p, h, t, cs)
  BY <1>3, UnderLent
<1>5. UnderBy(p, h, t, cs) => UnderBy(p, g, t, cs)
  BY <1>3, UnderLent
<1>6. QED
  BY <1>1, <1>4, <1>5

\* The call that is between its names and its rows, if there is one.
InFlight(l, b) ==
    \/ \E k \in Calls : pc[k] \in Flights /\ l = pc[k] /\ b = call[k]
    \/ (\A k \in Calls : pc[k] \notin Flights) /\ l = "idle" /\ b = Blank

Flown ==
    /\ \E l, b : InFlight(l, b)
    /\ \A l, b : InFlight(l, b) => FlightOK(l, b)
    /\ "ddl" \notin overlap =>
          /\ \A l, b : InFlight(l, b) => Held(l, b)
          /\ \A j, k \in Calls : pc[j] \in Flights /\ pc[k] \in Flights => j = k
          /\ \A k \in Calls : pc[k] \in Flights =>
                \A l, b : InFlight(l, b) => l = pc[k] /\ b = call[k]
          /\ \A k \in Calls : pc[k] \notin Flights /\ Defining(k) =>
                \A l, b : InFlight(l, b) => AtRest(l, b)

LEMMA FlightsKnown == TypeInv /\ OverlapOK /\ LiveOK => Flown
<1> SUFFICES ASSUME TypeInv, OverlapOK, LiveOK PROVE Flown
  OBVIOUS
<1>1. \E l, b : InFlight(l, b)
  BY DEF InFlight
<1>2. ASSUME NEW l, NEW b, InFlight(l, b) PROVE FlightOK(l, b)
  <2>1. CASE \E k \in Calls : pc[k] \in Flights /\ l = pc[k] /\ b = call[k]
    <3>1. PICK k \in Calls : pc[k] \in Flights /\ l = pc[k] /\ b = call[k]
      BY <2>1
    <3>2. CallOK(l, b)
      BY <3>1, Mine
    <3>3. QED
      BY <3>1, <3>2 DEF CallOK, FlightOK, Carries, Carrying, OnTables, Altering
  <2>2. CASE l = "idle"
    BY <2>2 DEF FlightOK, Carries
  <2>3. QED
    BY <1>2, <2>1, <2>2 DEF InFlight
<1>3. ASSUME NEW k \in Calls, pc[k] \in Flights PROVE Defining(k)
  BY <1>3, WindowDefines DEF Flights, Windows
<1>4. ASSUME "ddl" \notin overlap, NEW l, NEW b, InFlight(l, b) PROVE Held(l, b)
  BY <1>4 DEF InFlight, LiveOK, Held
<1>5. ASSUME "ddl" \notin overlap, NEW k \in Calls, NEW l, NEW b, InFlight(l, b), Defining(k)
      PROVE  /\ pc[k] \in Flights => l = pc[k] /\ b = call[k]
             /\ pc[k] \notin Flights => AtRest(l, b)
  <2>1. \A j \in Calls : pc[j] \in Flights => j = k
    BY <1>3, <1>5 DEF OverlapOK
  <2>2. QED
    BY <1>5, <2>1 DEF InFlight, AtRest, Carries, Renames
<1>6. "ddl" \notin overlap => \A j, k \in Calls : pc[j] \in Flights /\ pc[k] \in Flights => j = k
  BY <1>3 DEF OverlapOK
<1>7. QED
  BY <1>1, <1>2, <1>3, <1>4, <1>5, <1>6 DEF Flown

\* How a step of k moves what is in flight.
LEMMA FlightSteps ==
    ASSUME TypeInv, TypeInv', Flown, Flown', NEW k \in Calls, Goes(k), Calm(k) \/ Turning(k), History,
           ~ Died', "ddl" \notin overlap', NEW m, NEW c, InFlight(m, c)'
    PROVE  \E l, b : /\ InFlight(l, b)
                     /\ \/ pc[k] \notin Flights /\ pc'[k] \notin Flights /\ m = l /\ c = b
                        \/ pc[k] \notin Flights /\ pc'[k] \in Flights
                              /\ m = pc'[k] /\ c = call'[k] /\ AtRest(l, b)
                        \/ pc[k] \in Flights /\ l = pc[k] /\ b = call[k] /\ pc'[k] \in Flights
                              /\ m = pc'[k] /\ c = call'[k]
                        \/ pc[k] \in Flights /\ l = pc[k] /\ b = call[k] /\ pc'[k] \notin Flights
                              /\ AtRest(m, c)
<1>1. "ddl" \notin overlap /\ \A j \in Calls : j # k => pc'[j] = pc[j] /\ call'[j] = call[j]
  BY HistoryGrows
<1>2. CASE pc'[k] \in Flights
  <2>1. m = pc'[k] /\ c = call'[k]
    BY <1>2 DEF Flown
  <2>2. CASE pc[k] \in Flights
    <3>1. InFlight(pc[k], call[k])
      BY <2>2 DEF InFlight
    <3>2. QED
      BY <1>2, <2>1, <2>2, <3>1
  <2>3. CASE pc[k] \notin Flights
    <3>1. PICK l, b : InFlight(l, b)
      BY DEF Flown
    <3>2. CASE \E j \in Calls : pc[j] \in Flights
      <4>1. PICK j \in Calls : pc[j] \in Flights
        BY <3>2
      <4>2. j # k /\ pc'[j] \in Flights
        BY <1>1, <2>3, <4>1
      <4>3. QED
        BY <1>2, <4>2 DEF Flown
    <3>3. CASE \A j \in Calls : pc[j] \notin Flights
      <4>1. AtRest(l, b)
        BY <3>1, <3>3 DEF InFlight, AtRest, Carries, Renames
      <4>2. QED
        BY <1>2, <2>1, <2>3, <3>1, <4>1
    <3>4. QED
      BY <3>2, <3>3
  <2>4. QED
    BY <2>2, <2>3
<1>3. CASE pc'[k] \notin Flights /\ pc[k] \in Flights
  <2>1. InFlight(pc[k], call[k])
    BY <1>3 DEF InFlight
  <2>2. \A j \in Calls : pc[j] \in Flights => j = k
    BY <1>1, <1>3 DEF Flown
  <2>3. AtRest(m, c)
    BY <1>1, <1>3, <2>2 DEF InFlight, AtRest, Carries, Renames
  <2>4. QED
    BY <1>3, <2>1, <2>3
<1>4. CASE pc'[k] \notin Flights /\ pc[k] \notin Flights
  <2>1. InFlight(m, c)
    BY <1>1, <1>4 DEF InFlight
  <2>2. QED
    BY <1>4, <2>1
<1>5. QED
  BY <1>2, <1>3, <1>4

\* The rows that put policy p where it is are all there still.
KeepsPolicy(p, g, h) ==
    \A a \in g.attachment : a.policy = p =>
        /\ a \in h.attachment
        /\ a.target = "tag" => \A r \in g.objectTag : r.tag = a.tag => r \in h.objectTag

LEMMA PolicyKept ==
    ASSUME NEW p, NEW g, NEW h, KeepsPolicy(p, g, h), NEW t, NEW cs, UnderBy(p, g, t, cs)
    PROVE  UnderBy(p, h, t, cs)
<1>1. CASE p \in FiltersOn(g, t)
  <2>1. PICK a \in g.attachment :
            /\ a.policy = p /\ p \in RowPolicies
            /\ (a.target = "table" /\ OfTable(a, t)) \/ (a.target = "tag" /\ a.tag \in Cascading(g, t))
    BY <1>1 DEF FiltersOn, OfTable
  <2>2. a \in h.attachment
    BY <2>1 DEF KeepsPolicy
  <2>3. a.target = "tag" /\ a.tag \in Cascading(g, t) => a.tag \in Cascading(h, t)
    BY <2>1 DEF KeepsPolicy, Cascading
  <2>4. p \in FiltersOn(h, t)
    BY <2>1, <2>2, <2>3 DEF FiltersOn, OfTable
  <2>5. QED
    BY <2>4 DEF UnderBy
<1>2. ASSUME NEW c \in cs, p \in MasksOn(g, t, c) PROVE UnderBy(p, h, t, cs)
  <2>1. PICK a \in g.attachment : a \in Masking(g, t, c) /\ a.policy = p
    BY <1>2 DEF MasksOn, Masking
  <2>2. a \in h.attachment
    BY <2>1 DEF KeepsPolicy
  <2>3. a.target = "tag" /\ a.tag \in TagsOn(g, t, c) => a.tag \in TagsOn(h, t, c)
    BY <2>1 DEF KeepsPolicy, TagsOn, Cascading
  <2>4. a \in Masking(h, t, c)
    BY <2>1, <2>2, <2>3 DEF Masking
  <2>5. QED
    BY <1>2, <2>1, <2>4 DEF UnderBy, MasksOn
<1>3. QED
  BY <1>1, <1>2 DEF UnderBy

LEMMA PolicyWillKeep ==
    ASSUME NEW p, NEW g, NEW h, KeepsPolicy(p, g, h), NEW l, NEW b,
           g.objectTag \subseteq TagRow, g.attachment \subseteq Attachment
    PROVE  KeepsPolicy(p, Soon(l, b, g), Soon(l, b, h))
<1> DEFINE x == Soon(l, b, g)
           y == Soon(l, b, h)
<1>1. /\ \A q \in x.objectTag : \E r \in g.objectTag : q = Will(l, b, TagCarry, r)
      /\ \A e \in x.attachment : \E a \in g.attachment : e = Will(l, b, Carries, a)
      /\ \A r \in h.objectTag : Will(l, b, TagCarry, r) \in y.objectTag
      /\ \A a \in h.attachment : Will(l, b, Carries, a) \in y.attachment
  BY DEF Soon
<1> HIDE DEF x, y
<1>2. ASSUME NEW e \in x.attachment, e.policy = p
      PROVE  /\ e \in y.attachment
             /\ e.target = "tag" => \A q \in x.objectTag : q.tag = e.tag => q \in y.objectTag
  <2>1. PICK a \in g.attachment : e = Will(l, b, Carries, a)
    BY <1>1
  <2>2. a \in Attachment
    OBVIOUS
  <2>3. Alike(e, a)
    BY <2>1, <2>2, WillKeep
  <2>4. a \in h.attachment
    BY <1>2, <2>3 DEF KeepsPolicy, Alike
  <2>5. ASSUME e.target = "tag", NEW q \in x.objectTag, q.tag = e.tag PROVE q \in y.objectTag
    <3>1. PICK r \in g.objectTag : q = Will(l, b, TagCarry, r)
      BY <1>1
    <3>2. r \in TagRow
      OBVIOUS
    <3>3. Will(l, b, TagCarry, r).tag = r.tag
      BY <3>2, WillKeep
    <3>4. r.tag = a.tag
      BY <2>3, <2>5, <3>1, <3>3 DEF Alike
    <3>5. r \in h.objectTag
      BY <1>2, <2>3, <2>5, <3>4 DEF KeepsPolicy, Alike
    <3>6. QED
      BY <1>1, <3>1, <3>5
  <2>6. QED
    BY <1>1, <2>1, <2>4, <2>5
<1>3. KeepsPolicy(p, x, y)
  BY <1>2 DEF KeepsPolicy
<1>4. QED
  BY <1>3 DEF x, y

\* A statement takes no policy away but those it is made to.
LEMMA RowsKept ==
    ASSUME TypeInv, NEW k \in Calls, SameRows \/ Insert(k) \/ Remove(k), NEW p, p \notin Released(k)
    PROVE  KeepsPolicy(p, gov, gov')
<1>1. PICK h \in Model : h = gov
  BY DEF TypeInv, WorldOK
<1>2. h.objectTag \subseteq TagRow /\ h.attachment \subseteq Attachment
  BY Updated
<1>3. CASE SameRows
  BY <1>3 DEF SameRows, KeepsPolicy
<1>4. PICK r : r = call[k].row
  OBVIOUS
<1>5. CASE Insert(k)
  <2>1. gov' = IF r \in TagRow THEN [h EXCEPT !.objectTag = @ \cup {r}]
                               ELSE [h EXCEPT !.attachment = @ \cup {r}]
    BY <1>1, <1>4, <1>5 DEF Insert, Statement
  <2>2. gov.objectTag \subseteq gov'.objectTag /\ gov.attachment \subseteq gov'.attachment
    BY <1>1, <2>1 DEF Model
  <2>3. QED
    BY <2>2 DEF KeepsPolicy
<1>6. CASE Remove(k)
  <2>1. gov' = [h EXCEPT !.objectTag = @ \ {r}, !.attachment = @ \ {r}]
    BY <1>1, <1>4, <1>6 DEF Remove, Statement
  <2>2. gov'.objectTag = h.objectTag \ {r} /\ gov'.attachment = h.attachment \ {r}
    BY <2>1 DEF Model
  <2>3. At(k, "remove") /\ pc'[k] # "remove"
    BY <1>6, After DEF Remove
  <2>4. r \in TagRow \cup Attachment
    BY <1>4, <2>3, Mine DEF CallOK, At
  <2>5. CASE r \in Attachment
    <3>1. r \notin TagRow
      BY <2>5, RowKinds
    <3>2. Released(k) = {r.policy}
      BY <1>4, <2>3, <2>5, <3>1 DEF Released, At
    <3>3. QED
      BY <1>1, <1>2, <2>2, <3>1, <3>2 DEF KeepsPolicy
  <2>6. CASE r \in TagRow
    <3>1. r \notin Attachment
      BY <2>6, RowKinds
    <3>2. Released(k) = { a.policy : a \in Attachments(r.tag) }
      BY <1>4, <2>3, <2>6, <3>1 DEF Released, At
    <3>3. \A a \in h.attachment : a.tag = r.tag => a.policy # p
      BY <1>1, <3>2 DEF Attachments
    <3>4. QED
      BY <1>1, <1>2, <2>2, <3>1, <3>3 DEF KeepsPolicy
  <2>7. QED
    BY <2>4, <2>5, <2>6
<1>7. QED
  BY <1>3, <1>5, <1>6

\* What the steps that move names and columns do, when they get through.
LEMMA RenameDoes ==
    ASSUME TypeInv, NEW k \in Calls, Rename(k), pc'[k] \in Flights
    PROVE  /\ pc[k] = "rename" /\ pc'[k] = "carry tags" /\ SameRows /\ cols' = cols
           /\ call[k].at \in Tables /\ call[k].to \in Tables /\ call[k].at # call[k].to
           /\ call[k].at[1] = call[k].to[1] /\ live[call[k].at] # None /\ live[call[k].to] = None
           /\ live' = [live EXCEPT ![call[k].at] = None, ![call[k].to] = live[call[k].at]]
           /\ call'[k].at = call[k].at /\ call'[k].to = call[k].to
<1>1. pc[k] = "rename" /\ SameRows /\ cols' = cols
  BY DEF Rename, At, SameRows, store
<1>2. call[k].at \in Tables /\ call[k].to \in Tables /\ call[k].at # call[k].to /\ call[k] \in Calling
  BY <1>1, Mine DEF CallOK, OnTables
<1>3. /\ ~ (call[k].at[1] # call[k].to[1] \/ live[call[k].at] = None \/ live[call[k].to] # None)
      /\ live' = [live EXCEPT ![call[k].at] = None, ![call[k].to] = live[call[k].at]]
      /\ pc'[k] = "carry tags" /\ call'[k] = [call[k] EXCEPT !.object = live[call[k].at]]
  BY After DEF Rename, Flights
<1>4. call'[k].at = call[k].at /\ call'[k].to = call[k].to
  <2>1. PICK c \in Calling : c = call[k]
    BY <1>2
  <2>2. PICK i : i = live[call[k].at]
    OBVIOUS
  <2>3. call'[k] = [c EXCEPT !.object = i]
    BY <1>3, <2>1, <2>2
  <2>4. QED
    BY <2>1, <2>3 DEF Calling
<1>5. QED
  BY <1>1, <1>2, <1>3, <1>4

LEMMA AlterDoes ==
    ASSUME TypeInv, NEW k \in Calls, Alter(k), pc'[k] \in Flights
    PROVE  /\ pc[k] = "alter" /\ pc'[k] = "commit" /\ SameRows /\ live' = live
           /\ call[k].at \in Tables /\ live[call[k].at] \in Ids /\ call[k].change \in Change
           /\ Possible(cols[live[call[k].at]], call[k].change)
           /\ cols'[live[call[k].at]] = Altered(cols[live[call[k].at]], call[k].change)
           /\ \A i \in Ids : i # live[call[k].at] => cols'[i] = cols[i]
           /\ call'[k].at = call[k].at /\ call'[k].change = call[k].change
<1>1. pc[k] = "alter" /\ SameRows /\ live' = live
  BY DEF Alter, At, SameRows, store
<1>2. call[k].at \in Tables /\ call[k].change \in Change /\ call[k] \in Calling
  BY <1>1, Mine DEF CallOK, OnTables, Altering
<1>0. live \in [Tables -> Ids \cup {None}] /\ cols \in [Ids -> SUBSET Columns]
  BY DEF TypeInv, WorldOK
<1>3. /\ live[call[k].at] # None /\ Possible(Cols[call[k].at], call[k].change)
      /\ cols' = [cols EXCEPT ![live[call[k].at]] = Altered(@, call[k].change)]
      /\ pc'[k] = "commit" /\ call'[k] = [call[k] EXCEPT !.object = live[call[k].at]]
  BY After DEF Alter, Flights
<1>4. call'[k].at = call[k].at /\ call'[k].change = call[k].change
  <2>1. PICK c \in Calling : c = call[k]
    BY <1>2
  <2>2. PICK i : i = live[call[k].at]
    OBVIOUS
  <2>3. call'[k] = [c EXCEPT !.object = i]
    BY <1>3, <2>1, <2>2
  <2>4. QED
    BY <2>1, <2>3 DEF Calling
<1>5. live[call[k].at] \in Ids /\ Cols[call[k].at] = cols[live[call[k].at]]
  BY <1>0, <1>2, <1>3 DEF Cols, ColumnsOf
<1>6. PICK i \in Ids : i = live[call[k].at]
  BY <1>5
<1>7. cols'[i] = Altered(cols[i], call[k].change) /\ \A j \in Ids : j # i => cols'[j] = cols[j]
  BY <1>0, <1>3, <1>6
<1>8. QED
  BY <1>1, <1>2, <1>3, <1>4, <1>5, <1>6, <1>7

\* Which of the steps that change no name may still be under way.
LEMMA PurgeDoes ==
    ASSUME TypeInv, NEW k \in Calls, PurgeTags(k) \/ PurgeAttachments(k)
    PROVE  /\ pc[k] \in {"purge tags", "purge attachments"} /\ pc'[k] \notin Flights
           /\ pc[k] \notin Flights /\ call[k].at \in Tables /\ live' = live /\ cols' = cols
           /\ gov.objectTag \ Named(gov.objectTag, call[k].at) \subseteq gov'.objectTag
           /\ gov'.objectTag \subseteq gov.objectTag
           /\ gov.attachment \ Named(gov.attachment, call[k].at) \subseteq gov'.attachment
           /\ gov'.attachment \subseteq gov.attachment
<1>1. PICK h \in Model : h = gov
  BY DEF TypeInv, WorldOK
<1>2. pc[k] \in {"purge tags", "purge attachments"} /\ live' = live /\ cols' = cols
  BY DEF PurgeTags, PurgeAttachments, At, catalog
<1>3. call[k].at \in Tables
  BY <1>2, Mine DEF CallOK, OnTables, Purging
<1>4. pc'[k] \notin Flights /\ pc[k] \notin Flights
  BY <1>2, After DEF PurgeTags, PurgeAttachments, Flights
<1>5. PICK t : t = call[k].at
  OBVIOUS
<1>6. CASE PurgeTags(k)
  <2>1. gov' = [h EXCEPT !.objectTag = @ \ Named(@, t)]
    BY <1>1, <1>5, <1>6 DEF PurgeTags, Statement
  <2>2. gov'.objectTag = h.objectTag \ Named(h.objectTag, t) /\ gov'.attachment = h.attachment
    BY <2>1 DEF Model
  <2>3. QED
    BY <1>1, <1>2, <1>3, <1>4, <1>5, <2>2
<1>7. CASE PurgeAttachments(k)
  <2>1. gov' = [h EXCEPT !.attachment = @ \ Named(@, t)]
    BY <1>1, <1>5, <1>7 DEF PurgeAttachments, Statement
  <2>2. gov'.attachment = h.attachment \ Named(h.attachment, t) /\ gov'.objectTag = h.objectTag
    BY <2>1 DEF Model
  <2>3. QED
    BY <1>1, <1>2, <1>3, <1>4, <1>5, <2>2
<1>8. QED
  BY <1>6, <1>7

WillAll(l, b, ls, R) == { Will(l, b, ls, r) : r \in R }

LEMMA SoonIs ==
    ASSUME NEW l, NEW b, NEW g
    PROVE  Soon(l, b, g) = [objectTag  |-> WillAll(l, b, TagCarry, g.objectTag),
                            attachment |-> WillAll(l, b, Carries, g.attachment)]
BY DEF Soon, WillAll

LEMMA WillCarry ==
    ASSUME NEW l, NEW b, NEW ls, l \in ls, ~ Renames(l, b), NEW R
    PROVE  WillAll(l, b, ls, R) = Left(R, b.at) \cup Carried(R, b.at, b.to)
<1>1. \A r \in Left(R, b.at) : Will(l, b, ls, r) = r
  BY DEF Left, Named, Will, Flies, Turns, OfTable
<1>2. \A r \in Named(R, b.at) : Will(l, b, ls, r) = Renamed(r, b.to)
  BY DEF Named, Will, Flies, OfTable
<1>3. R = Named(R, b.at) \cup Left(R, b.at)
  BY DEF Left, Named
<1>4. QED
  BY <1>1, <1>2, <1>3 DEF WillAll, Carried

LEMMA WillRemain ==
    ASSUME NEW l, NEW b, NEW ls, l \notin ls, ~ Renames(l, b), NEW R
    PROVE  WillAll(l, b, ls, R) = R
BY DEF WillAll, Will, Flies, Turns

LEMMA WillRecolumn ==
    ASSUME NEW l, NEW k \in Calls, NEW ls, l \notin ls, Renames(l, call[k]), NEW R
    PROVE  WillAll(l, call[k], ls, R) = Recolumned(R, k)
<1>1. PICK b : b = call[k]
  OBVIOUS
<1>2. \A r \in R : Turns(l, b, r) <=> r \in ColumnRows(R, k)
  BY <1>1 DEF Turns, OfTable, ColumnRows, Named
<1>3. \A r \in R : Will(l, b, ls, r) = IF r \in ColumnRows(R, k) THEN [r EXCEPT !.column = b.change[2][2]] ELSE r
  BY <1>2 DEF Will, Flies
<1>4. ColumnRows(R, k) \subseteq R
  BY DEF ColumnRows, Named
<1>5. WillAll(l, b, ls, R)
      = (R \ ColumnRows(R, k)) \cup { [r EXCEPT !.column = b.change[2][2]] : r \in ColumnRows(R, k) }
  BY <1>3, <1>4 DEF WillAll
<1>6. QED
  BY <1>1, <1>5 DEF Recolumned

\* A carry that gets through leaves what is to be as it was.
LEMMA Lands ==
    ASSUME TypeInv, NEW k \in Calls, CarryTags(k) \/ CarryAttachments(k) \/ CommitSchema(k),
           pc'[k] # "broken", NEW m, NEW c,
           \/ pc'[k] \in Flights /\ m = pc'[k] /\ c = call'[k]
           \/ pc'[k] \notin Flights /\ AtRest(m, c)
    PROVE  /\ pc[k] \in Flights /\ live' = live /\ cols' = cols
           /\ Soon(m, c, gov') = Soon(pc[k], call[k], gov)
<1>0. PICK h \in Model : h = gov
  BY DEF TypeInv, WorldOK
<1>1. PICK l, b : l = pc[k] /\ b = call[k]
  OBVIOUS
<1>2. live' = live /\ cols' = cols /\ call' = call
  BY DEF CarryTags, CarryAttachments, CommitSchema, catalog
<1>3. CASE CarryTags(k)
  <2>1. l = "carry tags" /\ pc'[k] = "carry attachments" /\ gov' = [h EXCEPT !.objectTag = Moved(@, k)]
    BY <1>0, <1>1, <1>3, After DEF CarryTags, CarryRows, At, Statement
  <2>2. m = "carry attachments" /\ c = b
    BY <1>1, <1>2, <2>1 DEF Flights
  <2>3. gov'.objectTag = Left(gov.objectTag, b.at) \cup Carried(gov.objectTag, b.at, b.to)
        /\ gov'.attachment = gov.attachment
    BY <1>0, <1>1, <2>1 DEF Moved, Model
  <2>4. /\ l \in TagCarry /\ l \in Carries /\ m \notin TagCarry /\ m \in Carries
        /\ ~ Renames(l, b) /\ ~ Renames(m, b) /\ l \in Flights
    BY <2>1, <2>2 DEF TagCarry, Carries, Renames, Flights
  <2>5. WillAll(l, b, TagCarry, gov.objectTag) = WillAll(m, b, TagCarry, gov'.objectTag)
    <3>1. WillAll(l, b, TagCarry, gov.objectTag) = gov'.objectTag
      BY <2>3, <2>4, WillCarry
    <3>2. WillAll(m, b, TagCarry, gov'.objectTag) = gov'.objectTag
      BY <2>4, WillRemain
    <3>3. QED
      BY <3>1, <3>2
  <2>6. WillAll(l, b, Carries, gov.attachment) = WillAll(m, b, Carries, gov'.attachment)
    <3>1. WillAll(l, b, Carries, gov.attachment) = Left(gov.attachment, b.at) \cup Carried(gov.attachment, b.at, b.to)
      BY <2>4, WillCarry
    <3>2. WillAll(m, b, Carries, gov'.attachment) = Left(gov.attachment, b.at) \cup Carried(gov.attachment, b.at, b.to)
      BY <2>3, <2>4, WillCarry
    <3>3. QED
      BY <3>1, <3>2
  <2>7. Soon(m, b, gov') = Soon(l, b, gov)
    BY <2>5, <2>6, SoonIs
  <2>8. QED
    BY <1>1, <1>2, <2>2, <2>4, <2>7
<1>4. CASE CarryAttachments(k)
  <2>1. l = "carry attachments" /\ pc'[k] = "carry grants" /\ gov' = [h EXCEPT !.attachment = Moved(@, k)]
    BY <1>0, <1>1, <1>4, After DEF CarryAttachments, CarryRows, At, Statement
  <2>2. AtRest(m, c)
    BY <2>1 DEF Flights
  <2>3. gov'.attachment = Left(gov.attachment, b.at) \cup Carried(gov.attachment, b.at, b.to)
        /\ gov'.objectTag = gov.objectTag
    BY <1>0, <1>1, <2>1 DEF Moved, Model
  <2>4. l \notin TagCarry /\ l \in Carries /\ ~ Renames(l, b) /\ l \in Flights
    BY <2>1 DEF TagCarry, Carries, Renames, Flights
  <2>5. WillAll(l, b, TagCarry, gov.objectTag) = gov.objectTag
    BY <2>4, WillRemain
  <2>6. WillAll(l, b, Carries, gov.attachment) = gov'.attachment
    BY <2>3, <2>4, WillCarry
  <2>7. Soon(l, b, gov) = [objectTag |-> gov'.objectTag, attachment |-> gov'.attachment]
    BY <2>3, <2>5, <2>6, SoonIs
  <2>8. QED
    BY <1>1, <1>2, <2>2, <2>4, <2>7, Landed DEF AtRest
<1>5. CASE CommitSchema(k)
  <2>1. l = "commit" /\ pc'[k] = "collect views"
    BY <1>1, <1>5, After DEF CommitSchema, At
  <2>2. AtRest(m, c)
    BY <2>1 DEF Flights
  <2>3. l \notin TagCarry /\ l \notin Carries /\ l \in Flights /\ (Renames(l, b) <=> b.change[1] = "rename")
    BY <2>1 DEF TagCarry, Carries, Renames, Flights
  <2>4. CASE Renames(l, b)
    <3>1. gov' = [h EXCEPT !.objectTag = Recolumned(@, k), !.attachment = Recolumned(@, k)]
      BY <1>0, <1>1, <1>5, <2>3, <2>4 DEF CommitSchema, Statement
    <3>2. gov'.objectTag = Recolumned(gov.objectTag, k) /\ gov'.attachment = Recolumned(gov.attachment, k)
      BY <1>0, <3>1 DEF Model
    <3>3. /\ WillAll(l, b, TagCarry, gov.objectTag) = gov'.objectTag
          /\ WillAll(l, b, Carries, gov.attachment) = gov'.attachment
      BY <1>1, <2>3, <2>4, <3>2, WillRecolumn
    <3>4. Soon(l, b, gov) = [objectTag |-> gov'.objectTag, attachment |-> gov'.attachment]
      BY <3>3, SoonIs
    <3>5. QED
      BY <1>1, <1>2, <2>2, <2>3, <3>4, Landed DEF AtRest
  <2>5. CASE ~ Renames(l, b)
    <3>1. gov' = gov
      BY <1>1, <1>5, <2>3, <2>5 DEF CommitSchema, store
    <3>2. Soon(l, b, gov) = [objectTag |-> gov.objectTag, attachment |-> gov.attachment]
      BY <2>3, <2>5, Landed
    <3>3. QED
      BY <1>1, <1>2, <2>2, <2>3, <3>1, <3>2, Landed DEF AtRest
  <2>6. QED
    BY <2>4, <2>5
<1>6. QED
  BY <1>3, <1>4, <1>5

LEMMA SameSoon ==
    ASSUME SameRows, NEW l, NEW b
    PROVE  Soon(l, b, gov') = Soon(l, b, gov)
BY SoonIs DEF SameRows

\* A policy of the table renamed, and of any other, when the name changes.
LEMMA RenameStays ==
    ASSUME TypeInv, NEW k \in Calls, Rename(k), pc'[k] \in Flights, FlightOK(pc'[k], call'[k]),
           NEW t \in Tables, NEW i \in Ids, live[t] = i, NEW p, UnderBy(p, gov, t, cols[i])
    PROVE  \E u \in Tables : live'[u] = i /\ UnderBy(p, Soon(pc'[k], call'[k], gov'), u, cols'[i])
<1>1. PICK l, b : l = pc'[k] /\ b = call'[k]
  OBVIOUS
<1>2. /\ l \in TagCarry /\ l \in Carries /\ ~ Renames(l, b) /\ SameRows /\ cols' = cols
      /\ b.at \in Tables /\ b.to \in Tables /\ b.at # b.to
      /\ b.at[1] = b.to[1] /\ live[b.at] # None /\ live[b.to] = None
      /\ live' = [live EXCEPT ![b.at] = None, ![b.to] = live[b.at]]
  BY <1>1, RenameDoes DEF TagCarry, Carries, Renames
<1>3. gov.objectTag \subseteq TagRow /\ gov.attachment \subseteq Attachment
      /\ live \in [Tables -> Ids \cup {None}] /\ i # None
  BY Updated, Nones DEF TypeInv, WorldOK
<1>4. FlightOK(l, b) /\ Soon(l, b, gov') = Soon(l, b, gov)
  BY <1>1, <1>2, SameSoon
<1>5. CASE t = b.at
  <2>1. live'[b.to] = i
    BY <1>2, <1>3, <1>5
  <2>2. FilterLends(gov, t, Soon(l, b, gov), b.to) /\ \A c : MaskLends(gov, t, c, Soon(l, b, gov), b.to, c)
    BY <1>2, <1>3, <1>4, <1>5, CarryForward
  <2>3. UnderBy(p, Soon(l, b, gov), b.to, cols[i])
    BY <2>2, UnderLent
  <2>4. QED
    BY <1>1, <1>2, <1>4, <2>1, <2>3
<1>6. CASE t # b.at
  <2>1. live'[t] = i
    BY <1>2, <1>3, <1>6
  <2>2. FilterLends(gov, t, Soon(l, b, gov), t) /\ \A c : MaskLends(gov, t, c, Soon(l, b, gov), t, c)
    BY <1>2, <1>3, <1>4, <1>6, Away
  <2>3. UnderBy(p, Soon(l, b, gov), t, cols[i])
    BY <2>2, UnderLent
  <2>4. QED
    BY <1>1, <1>2, <1>4, <2>1, <2>3
<1>7. QED
  BY <1>5, <1>6

LEMMA AlterStays ==
    ASSUME TypeInv, NEW k \in Calls, Alter(k), pc'[k] \in Flights, FlightOK(pc'[k], call'[k]),
           NEW t \in Tables, NEW i \in Ids, live[t] = i, NEW p, UnderBy(p, gov, t, cols[i]), p \notin Released(k)
    PROVE  \E u \in Tables : live'[u] = i /\ UnderBy(p, Soon(pc'[k], call'[k], gov'), u, cols'[i])
<1>1. PICK l, b : l = pc'[k] /\ b = call'[k]
  OBVIOUS
<1>2. PICK j \in Ids, ch \in Change : j = live[b.at] /\ ch = b.change
  BY <1>1, AlterDoes
<1>3. /\ pc[k] = "alter" /\ l = "commit" /\ SameRows /\ live' = live /\ b.at \in Tables
      /\ Possible(cols[j], ch) /\ cols'[j] = Altered(cols[j], ch)
      /\ \A x \in Ids : x # j => cols'[x] = cols[x]
      /\ call[k].change = ch
  BY <1>1, <1>2, AlterDoes
<1>4. gov.objectTag \subseteq TagRow /\ gov.attachment \subseteq Attachment
      /\ live \in [Tables -> Ids \cup {None}] /\ i # None /\ (j = i <=> t = b.at)
  BY <1>2, <1>3, Updated, Nones DEF TypeInv, WorldOK, ObjectsOK
<1>5. FlightOK(l, b) /\ Soon(l, b, gov') = Soon(l, b, gov) /\ l \notin Carries
      /\ (Renames(l, b) <=> ch[1] = "rename")
  BY <1>1, <1>2, <1>3, SameSoon DEF Carries, Renames
<1>6. /\ FilterLends(gov, t, Soon(l, b, gov), t)
      /\ \A c : (Renames(l, b) /\ t = b.at => c # b.change[2][1]) => MaskLends(gov, t, c, Soon(l, b, gov), t, c)
  BY <1>4, <1>5, Away
<1>7. CASE j # i
  <2>1. \A c : MaskLends(gov, t, c, Soon(l, b, gov), t, c)
    BY <1>4, <1>6, <1>7
  <2>2. UnderBy(p, Soon(l, b, gov), t, cols[i])
    BY <1>6, <2>1, UnderLent
  <2>3. QED
    BY <1>1, <1>3, <1>5, <1>7, <2>2
<1>8. CASE j = i /\ ch[1] = "rename"
  <2>1. cols'[i] = (cols[i] \ {ch[2][1]}) \cup {ch[2][2]}
    BY <1>3, <1>8 DEF Altered
  <2>2. MaskLends(gov, t, ch[2][1], Soon(l, b, gov), t, ch[2][2])
    BY <1>2, <1>4, <1>5, <1>8, TurnForward
  <2>3. \A c \in cols[i] : \E d \in cols'[i] : MaskLends(gov, t, c, Soon(l, b, gov), t, d)
    BY <1>2, <1>6, <2>1, <2>2
  <2>4. UnderBy(p, Soon(l, b, gov), t, cols'[i])
    BY <1>6, <2>3, UnderLent
  <2>5. QED
    BY <1>1, <1>3, <1>5, <2>4
<1>9. CASE j = i /\ ch[1] = "add"
  <2>1. cols[i] \subseteq cols'[i]
    BY <1>3, <1>9 DEF Altered
  <2>2. \A c : MaskLends(gov, t, c, Soon(l, b, gov), t, c)
    BY <1>5, <1>6, <1>9
  <2>3. UnderBy(p, Soon(l, b, gov), t, cols'[i])
    BY <1>6, <2>1, <2>2, UnderLent
  <2>4. QED
    BY <1>1, <1>3, <1>5, <2>3
<1>10. CASE j = i /\ ch[1] = "drop"
  <2>1. p \notin MaskPolicies
    BY <1>1, <1>3, <1>10 DEF Released, At
  <2>2. \A c : p \notin MasksOn(gov, t, c)
    BY <2>1 DEF MasksOn, Masking
  <2>3. p \in FiltersOn(Soon(l, b, gov), t)
    BY <1>6, <2>2, FiltersLent DEF UnderBy
  <2>4. QED
    BY <1>1, <1>3, <1>5, <2>3 DEF UnderBy
<1>11. QED
  BY <1>7, <1>8, <1>9, <1>10, Changes

\* A purge is of one name's rows.
LEMMA PurgedElsewhere ==
    ASSUME NEW g, g.objectTag \subseteq TagRow, g.attachment \subseteq Attachment, NEW h,
           NEW t \in Tables, NEW u \in Tables, t # u,
           g.objectTag \ Named(g.objectTag, u) \subseteq h.objectTag,
           g.attachment \ Named(g.attachment, u) \subseteq h.attachment
    PROVE  FilterLends(g, t, h, t) /\ \A c : MaskLends(g, t, c, h, t, c)
<1>1. u[2] # None /\ t = <<t[1], t[2]>> /\ u = <<u[1], u[2]>>
  BY Nones DEF Tables
<1>2. ASSUME NEW r, r.table = None \/ OfTable(r, t) PROVE r \notin Named(g.objectTag, u) /\ r \notin Named(g.attachment, u)
  BY <1>1, <1>2 DEF Named, OfTable
<1>3. ASSUME NEW r \in g.objectTag, NEW c, Tagged(r, t, c) PROVE r \in h.objectTag
  <2>1. r.table = None \/ OfTable(r, t)
    BY <1>3, RowShapes DEF Tagged, Cascades, OfTable
  <2>2. QED
    BY <1>2, <2>1
<1>4. ASSUME NEW a \in g.attachment, a.target = "tag" \/ OfTable(a, t) PROVE a \in h.attachment
  <2>1. a.table = None \/ OfTable(a, t)
    BY <1>4, RowShapes
  <2>2. QED
    BY <1>2, <2>1
<1>5. TagsLend(g, h)
  BY <1>4 DEF TagsLend, Alike
<1>6. \A r \in g.objectTag : Cascades(r, t) => r \in h.objectTag
  BY <1>3 DEF Tagged
<1>7. FilterLends(g, t, h, t)
  BY <1>4, <1>5, <1>6 DEF FilterLends, Alike
<1>8. \A c : MaskLends(g, t, c, h, t, c)
  BY <1>3, <1>4, <1>5 DEF MaskLends, Alike
<1>9. QED
  BY <1>7, <1>8

\* An object is under what it owes, once the carry in flight is through.
StayInv ==
    Died \/ "ddl" \in overlap
    \/ \A l, b : InFlight(l, b) => \A i \in Ids : owed[i] \subseteq Under(Soon(l, b, gov), live, cols, i)

\* A carry in flight takes nothing from where it is.
NewInv ==
    "ddl" \in overlap
    \/ \A l, b : InFlight(l, b) =>
          \A i \in Ids : Under(gov, live, cols, i) \subseteq Under(Soon(l, b, gov), live, cols, i)

LEMMA NewStays == TypeInv /\ Flown => NewInv
<1> SUFFICES ASSUME TypeInv, Flown, "ddl" \notin overlap, NEW l, NEW b, InFlight(l, b), NEW i \in Ids
             PROVE  Under(gov, live, cols, i) \subseteq Under(Soon(l, b, gov), live, cols, i)
  BY DEF NewInv
<1>1. FlightOK(l, b) /\ Held(l, b)
  BY DEF Flown
<1>2. gov.objectTag \subseteq TagRow /\ gov.attachment \subseteq Attachment /\ i # None
  BY Updated, Nones DEF TypeInv, WorldOK
<1>3. ASSUME NEW p, NEW t \in Tables, live[t] = i, UnderBy(p, gov, t, cols[i])
      PROVE  UnderBy(p, Soon(l, b, gov), t, cols[i])
  <2>1. l \in Carries => t # b.at
    BY <1>1, <1>2, <1>3 DEF Held, Carries
  <2>2. Renames(l, b) /\ t = b.at => b.change[2][1] \notin cols[i]
    BY <1>1, <1>2, <1>3 DEF Held, Renames, Cols, ColumnsOf
  <2>3. /\ FilterLends(gov, t, Soon(l, b, gov), t)
        /\ \A c \in cols[i] : MaskLends(gov, t, c, Soon(l, b, gov), t, c)
    BY <1>1, <1>2, <2>1, <2>2, Away
  <2>4. QED
    BY <1>3, <2>3, UnderLent
<1>4. QED
  BY <1>3, UnderIs

LEMMA StayKept ==
    TypeInv /\ TypeInv' /\ Flown /\ Flown' /\ LiveOK /\ NewInv' /\ StayInv /\ [Next]_vars => StayInv'
<1> SUFFICES ASSUME TypeInv, TypeInv', Flown, Flown', LiveOK, NewInv', StayInv, [Next]_vars PROVE StayInv'
  OBVIOUS
<1>1. CASE UNCHANGED vars
  BY <1>1 DEF vars, system, store, catalog, StayInv, Died, InFlight
<1>2. CASE Step /\ History
  <2>1. PICK k \in Calls : Authoring(k) \/ Definition(k) \/ Reading(k) \/ Crash(k)
    BY <1>2 DEF Step
  <2>2. Goes(k) /\ (Calm(k) \/ Turning(k))
    BY <2>1, StepGoes, CalmOrTurning
  <2> SUFFICES ASSUME ~ Died', "ddl" \notin overlap', NEW m, NEW c, InFlight(m, c)',
                      NEW i \in Ids, NEW p \in owed'[i]
               PROVE  p \in Under(Soon(m, c, gov'), live', cols', i)
    BY DEF StayInv
  <2>3. ~ Died /\ "ddl" \notin overlap
    BY <1>2, <2>2, HistoryGrows
  <2>4. CASE p \in Under(gov', live', cols', i)
    <3>1. Under(gov', live', cols', i) \subseteq Under(Soon(m, c, gov'), live', cols', i)
      BY DEF NewInv
    <3>2. QED
      BY <2>4, <3>1
  <2>5. CASE p \notin Under(gov', live', cols', i)
    <3>1. p \in owed[i] /\ p \notin Released(k) /\ \E t \in Tables : live'[t] = i
      <4>1. owed' = [x \in Ids |->
           IF \A t \in Tables : live'[t] # x THEN {}
           ELSE (owed[x] \ UNION { Released(j) : j \in Calls })
                \cup Under(gov', live', cols', x)]
        BY <1>2 DEF History
      <4>2. QED
        BY <2>5, <4>1
    <3>2. PICK l, b : /\ InFlight(l, b)
                      /\ \/ pc[k] \notin Flights /\ pc'[k] \notin Flights /\ m = l /\ c = b
                         \/ pc[k] \notin Flights /\ pc'[k] \in Flights
                               /\ m = pc'[k] /\ c = call'[k] /\ AtRest(l, b)
                         \/ pc[k] \in Flights /\ l = pc[k] /\ b = call[k] /\ pc'[k] \in Flights
                               /\ m = pc'[k] /\ c = call'[k]
                         \/ pc[k] \in Flights /\ l = pc[k] /\ b = call[k] /\ pc'[k] \notin Flights
                               /\ AtRest(m, c)
      BY <1>2, <2>2, FlightSteps
    <3>3. PICK t \in Tables : live[t] = i /\ UnderBy(p, Soon(l, b, gov), t, cols[i])
      BY <2>3, <3>1, <3>2, UnderIs DEF StayInv
    <3>4. FlightOK(m, c)
      BY DEF Flown
    <3>5. gov.objectTag \subseteq TagRow /\ gov.attachment \subseteq Attachment /\ i # None
          /\ live \in [Tables -> Ids \cup {None}] /\ cols \in [Ids -> SUBSET Columns]
      BY Updated, Nones DEF TypeInv, WorldOK
    <3>6. pc'[k] \notin {"broken", "crashed"}
      BY DEF Died
    <3> SUFFICES \E u \in Tables : live'[u] = i /\ UnderBy(p, Soon(m, c, gov'), u, cols'[i])
      BY UnderIs
    \* A step in flight that changes neither names nor what is to be.
    <3>7. CASE live' = live /\ cols' = cols /\ KeepsPolicy(p, gov, gov') /\ m = l /\ c = b
      BY <3>3, <3>5, <3>7, PolicyWillKeep, PolicyKept
    <3>8. CASE Calm(k)
      <4>1. pc[k] \notin Flights /\ pc'[k] \notin Flights
        BY <3>6, <3>8 DEF Calm, Flights, Windows
      <4>2. KeepsPolicy(p, gov, gov')
        BY <3>1, <3>8, RowsKept DEF Calm
      <4>3. QED
        BY <3>2, <3>7, <3>8, <4>1, <4>2 DEF Calm
    <3>9. CASE Insert(k) \/ Remove(k)
      <4>1. pc[k] \notin Flights /\ pc'[k] \notin Flights /\ live' = live /\ cols' = cols
        BY <3>9, After DEF Insert, Remove, At, Flights, catalog
      <4>2. KeepsPolicy(p, gov, gov')
        BY <3>1, <3>9, RowsKept
      <4>3. QED
        BY <3>2, <3>7, <4>1, <4>2
    <3>10. CASE Create(k) \/ Drop(k)
      <4>1. pc[k] \notin Flights /\ pc'[k] \notin Flights /\ SameRows
        BY <3>10, After DEF Create, Drop, At, Flights, SameRows, store
      <4>2. live'[t] = i /\ cols'[i] = cols[i]
        <5>1. CASE Create(k)
          <6>1. CASE live' = live /\ cols' = cols
            BY <3>3, <6>1
          <6>2. CASE ~ (live' = live /\ cols' = cols)
            <7>1. PICK x \in Unused, d \in Columns :
                      live' = [live EXCEPT ![call[k].at] = x] /\ cols' = [cols EXCEPT ![x] = {d}]
              BY <5>1, <6>2 DEF Create
            <7>2. live[call[k].at] = None
              BY <5>1, <6>2 DEF Create
            <7>3. cols[i] # {} /\ x # i
              BY <3>3, <3>5 DEF TypeInv, ObjectsOK, Unused
            <7>4. QED
              BY <3>3, <3>5, <7>1, <7>2, <7>3
          <6>3. QED
            BY <6>1, <6>2
        <5>2. CASE Drop(k)
          <6>1. cols' = cols
            BY <5>2 DEF Drop
          <6>2. live' = live \/ live' = [live EXCEPT ![call[k].at] = None]
            BY <5>2 DEF Drop
          <6>3. PICK u \in Tables : live'[u] = i
            BY <3>1
          <6>4. live[u] = i
            BY <3>5, <6>2, <6>3
          <6>5. u = t
            BY <3>3, <3>5, <6>4 DEF TypeInv, ObjectsOK
          <6>6. QED
            BY <6>1, <6>3, <6>5
        <5>3. QED
          BY <3>10, <5>1, <5>2
      <4>3. QED
        BY <3>2, <3>3, <4>1, <4>2, SameSoon
    <3>11. CASE PurgeTags(k) \/ PurgeAttachments(k)
      <4>1. /\ pc[k] \in {"purge tags", "purge attachments"} /\ pc'[k] \notin Flights
            /\ pc[k] \notin Flights /\ call[k].at \in Tables /\ live' = live /\ cols' = cols
            /\ gov.objectTag \ Named(gov.objectTag, call[k].at) \subseteq gov'.objectTag
            /\ gov.attachment \ Named(gov.attachment, call[k].at) \subseteq gov'.attachment
        BY <3>11, PurgeDoes
      <4>2. AtRest(l, b) /\ m = l /\ c = b
        BY <2>3, <3>2, <4>1, WindowDefines DEF Flown, Windows
      <4>3. t # call[k].at
        BY <2>3, <3>3, <3>5, <4>1 DEF LiveOK, Held
      <4>4. UnderBy(p, gov, t, cols[i])
        BY <3>3, <4>2, AtRestBy
      <4>5. UnderBy(p, gov', t, cols[i])
        <5>1. FilterLends(gov, t, gov', t) /\ \A x : MaskLends(gov, t, x, gov', t, x)
          BY <3>5, <4>1, <4>3, PurgedElsewhere
        <5>2. QED
          BY <4>4, <5>1, UnderLent
      <4>6. QED
        BY <3>3, <4>1, <4>2, <4>5, AtRestBy
    <3>12. CASE Rename(k) \/ Alter(k)
      <4>1. CASE pc'[k] \in Flights
        <5>1. pc[k] \notin Flights /\ m = pc'[k] /\ c = call'[k] /\ AtRest(l, b)
          BY <3>2, <3>12, <4>1, RenameDoes, AlterDoes DEF Flights
        <5>2. UnderBy(p, gov, t, cols[i])
          BY <3>3, <5>1, AtRestBy
        <5>3. QED
          BY <3>1, <3>3, <3>4, <3>12, <4>1, <5>1, <5>2, RenameStays, AlterStays
      <4>2. CASE pc'[k] \notin Flights
        <5>1. pc[k] \notin Flights /\ SameRows /\ live' = live /\ cols' = cols
          BY <3>12, <4>2, After DEF Rename, Alter, At, Flights, SameRows, store
        <5>2. QED
          BY <3>2, <3>3, <4>2, <5>1, SameSoon
      <4>3. QED
        BY <4>1, <4>2
    <3>13. CASE CarryTags(k) \/ CarryAttachments(k) \/ CommitSchema(k)
      <4>1. pc[k] \in Flights
        BY <3>13 DEF CarryTags, CarryAttachments, CommitSchema, At, Flights
      <4>2. live' = live /\ cols' = cols /\ Soon(m, c, gov') = Soon(pc[k], call[k], gov)
        BY <3>2, <3>6, <3>13, <4>1, Lands
      <4>3. QED
        BY <3>2, <3>3, <4>1, <4>2
    <3>14. QED
      BY <2>2, <3>8, <3>9, <3>10, <3>11, <3>12, <3>13 DEF Turning
  <2>6. QED
    BY <2>4, <2>5
<1>3. QED
  BY <1>1, <1>2 DEF Next, Done

LEMMA StaySuffices == TypeInv /\ Flown /\ StayInv => PoliciesStay
<1> SUFFICES ASSUME TypeInv, Flown, StayInv, ~ Died, "ddl" \notin overlap,
                    NEW i \in Ids, ~ Between(i), NEW p \in owed[i]
             PROVE  p \in Under(gov, live, cols, i)
  BY DEF PoliciesStay
<1>1. PICK l, b : InFlight(l, b)
  BY DEF Flown
<1>2. FlightOK(l, b) /\ Held(l, b)
  BY <1>1 DEF Flown
<1>3. gov.objectTag \subseteq TagRow /\ gov.attachment \subseteq Attachment
  BY Updated DEF TypeInv, WorldOK
<1>4. PICK t \in Tables : live[t] = i /\ UnderBy(p, Soon(l, b, gov), t, cols[i])
  BY <1>1, UnderIs DEF StayInv
<1>5. l \in Flights => b.object # i
  BY <1>1 DEF InFlight, Between, Flights
<1>6. /\ l \in Carries => t # b.to
      /\ Renames(l, b) => t # b.at
  BY <1>2, <1>4, <1>5 DEF Held, Carries, Flights, Renames
<1>7. FilterLends(Soon(l, b, gov), t, gov, t) /\ \A c : MaskLends(Soon(l, b, gov), t, c, gov, t, c)
  BY <1>2, <1>3, <1>6, Back
<1>8. UnderBy(p, gov, t, cols[i])
  BY <1>4, <1>7, UnderLent
<1>9. QED
  BY <1>4, <1>8, UnderIs

LEMMA InitiallyIdle == Init => OverlapOK /\ LiveOK
BY DEF Init, OverlapOK, LiveOK, Held, Active, Defining

LEMMA InitiallyStay == Init /\ NewInv => StayInv
BY DEF Init, NewInv, StayInv

LEMMA FlightsAlways == Spec => [](OverlapOK /\ LiveOK /\ Flown /\ NewInv)
<1>1. Init => OverlapOK /\ LiveOK
  BY InitiallyIdle
<1>2. OverlapOK /\ [Next]_vars => OverlapOK'
  BY OverlapKept
<1>3. TypeInv /\ OverlapOK /\ LiveOK /\ [Next]_vars => LiveOK'
  BY LiveKept
<1>4. TypeInv /\ OverlapOK /\ LiveOK => Flown
  BY FlightsKnown
<1>5. TypeInv /\ Flown => NewInv
  BY NewStays
<1>6. QED
  BY <1>1, <1>2, <1>3, <1>4, <1>5, Typed, PTL DEF Spec

\* PoliciesStay: what was attached to a table stays with it through drops,
\* renames and schema changes, while no two calls of DDL overlap and none
\* dies half way.
THEOREM TablesStayGoverned == Spec => []PoliciesStay
<1>1. Init /\ NewInv => StayInv
  BY InitiallyStay
<1>2. TypeInv /\ TypeInv' /\ Flown /\ Flown' /\ LiveOK /\ NewInv' /\ StayInv /\ [Next]_vars => StayInv'
  BY StayKept
<1>3. TypeInv /\ Flown /\ StayInv => PoliciesStay
  BY StaySuffices
<1>4. QED
  BY <1>1, <1>2, <1>3, Typed, FlightsAlways, PTL DEF Spec

----------------------------------------------------------------------------
(***************************************************************************)
(* What a call that looks before it writes has seen.                       *)
(***************************************************************************)

\* The new row brings its masks to column c of t.
Brings(row, t, c) ==
    \/ row \in TagRow /\ Tagged(row, t, c)
    \/ /\ row \in Attachment /\ row.policy \in MaskPolicies
       /\ \/ row.target = "tag" /\ \E r \in gov.objectTag : r.tag = row.tag /\ Tagged(r, t, c)
          \/ row.target = "column" /\ OfTable(row, t) /\ row.column = c

\* No mask is on column c of t but the new ones, each looked for apart.
Seen(P, t, c) == \A p \in P : MasksOn(gov, t, c) \subseteq {p}

Looked(l, b) ==
    /\ l \in Looking =>
          /\ b.row \in TagRow => b.policies = MasksOnTag(gov, b.row.tag)
          /\ b.row \in Attachment => b.policies = {b.row.policy}
    /\ l = "expand" => b.row \in TagRow \/ b.row.target = "tag"
    /\ l = "insert" => b.affected = {}
    /\ l \in {"check", "insert"} =>
          \A t \in Tables : \A c \in Cols[t] :
              Brings(b.row, t, c) => <<t, c>> \in b.affected \/ Seen(b.policies, t, c)

LookInv == "any" \in overlap \/ \A k \in Calls : Looked(pc[k], call[k])

LEMMA ReachedAre ==
    ASSUME NEW rows, rows \subseteq TagRow, NEW cs, NEW t \in Tables, NEW c \in cs[t],
           NEW r \in rows, Tagged(r, t, c)
    PROVE  <<t, c>> \in Reached(rows, cs)
<1>1. t = <<t[1], t[2]>> /\ r \in TagRow
  BY DEF Tables
<1> DEFINE X(q) == CASE q.on = "column" -> { <<<<q.schema, q.table>>, q.column>> }
                     [] q.on = "table"  -> { <<q.schema, q.table>> } \X cs[<<q.schema, q.table>>]
                     [] OTHER -> UNION { { x } \X cs[x] : x \in { y \in Tables : y[1] = q.schema } }
<1>6. X(r) \subseteq Reached(rows, cs)
  BY DEF Reached
<1>2. CASE r.on = "column"
  <2>1. t = <<r.schema, r.table>> /\ r.column = c
    BY <1>1, <1>2 DEF Tagged, Cascades, OfTable
  <2>2. <<t, c>> \in X(r)
    BY <1>2, <2>1
  <2>3. QED
    BY <1>6, <2>2
<1>3. CASE r.on = "table"
  <2>1. t = <<r.schema, r.table>>
    BY <1>1, <1>3 DEF Tagged, Cascades, OfTable
  <2>2. <<t, c>> \in X(r)
    BY <1>3, <2>1
  <2>3. QED
    BY <1>6, <2>2
<1>4. CASE r.on = "schema"
  <2>1. t \in { y \in Tables : y[1] = r.schema }
    BY <1>4 DEF Tagged, Cascades
  <2>2. <<t, c>> \in X(r)
    BY <1>4, <2>1
  <2>3. QED
    BY <1>6, <2>2
<1>5. QED
  BY <1>1, <1>2, <1>3, <1>4, RowShapes

LEMMA LookSteps ==
    ASSUME TypeInv, NEW k \in Calls, Authoring(k) \/ Definition(k) \/ Reading(k) \/ Crash(k),
           pc'[k] \in Looking
    PROVE  AttachPolicy(k) \/ AssignObjectTag(k) \/ Expand(k) \/ Check(k)
<1>1. CASE \/ CreateTag(k) \/ CreateMaskingPolicy(k) \/ CreateRowAccessPolicy(k)
           \/ CreateRole(k) \/ GrantRole(k) \/ GrantObject(k)
           \/ RevokeRole(k) \/ RevokeObjectGrant(k) \/ SetStaticKey(k) \/ DeleteStaticKey(k)
  <2>1. PICK g : \E l \in {"audit", "ok", "missing"} : Author(k, g, l)
    BY <1>1 DEF CreateTag, CreateMaskingPolicy, CreateRowAccessPolicy, CreateRole, GrantRole,
       GrantObject, RevokeRole, RevokeObjectGrant, SetStaticKey, DeleteStaticKey
  <2>2. QED
    BY <2>1, After DEF Author, Looking
<1>2. CASE \/ Detach(k) \/ RemoveObjectTag(k) \/ Delete(k)
           \/ CreateNamespace(k) \/ DropNamespace(k) \/ CreateTable(k) \/ DropTable(k)
           \/ RenameTable(k) \/ AlterSchema(k) \/ Read(k)
  <2>0. pc \in [Calls -> Labels]
    BY DEF TypeInv, CallsOK
  <2>1. CASE Detach(k) \/ RemoveObjectTag(k)
    BY <2>0, <2>1 DEF Ask, At, Goto, Detach, RemoveObjectTag, Looking
  <2>2. CASE Delete(k)
    BY <2>0, <2>2 DEF Ask, At, Goto, Delete, Looking
  <2>3. CASE CreateNamespace(k) \/ DropNamespace(k) \/ CreateTable(k)
    BY <2>0, <2>3 DEF Ask, At, Goto, CreateNamespace, DropNamespace, CreateTable, Looking
  <2>4. CASE DropTable(k) \/ RenameTable(k) \/ AlterSchema(k) \/ Read(k)
    BY <2>0, <2>4 DEF Ask, At, Goto, DropTable, RenameTable, AlterSchema, Read, Looking
  <2>5. QED
    BY <1>2, <2>1, <2>2, <2>3, <2>4
<1>3. CASE \/ Insert(k) \/ Remove(k) \/ Count(k) \/ DeleteRow(k) \/ Audit(k) \/ ResyncViews(k)
           \/ ResyncExports(k) \/ ResyncProperties(k) \/ Answer(k) \/ Crash(k)
  BY <1>3, After DEF Insert, Remove, Count, DeleteRow, Audit, ResyncViews, ResyncExports,
     ResyncProperties, Answer, Crash, Looking
<1>4. CASE \/ AlterNamespace(k) \/ Create(k) \/ Drop(k) \/ PurgeTags(k) \/ PurgeAttachments(k)
           \/ PurgeGrants(k) \/ Rename(k) \/ CarryTags(k) \/ CarryAttachments(k) \/ CarryGrants(k)
           \/ Alter(k) \/ CommitSchema(k) \/ AbortSchema(k) \/ CollectArtifacts(k)
  BY <1>4, After DEF AlterNamespace, Create, Drop, PurgeTags, PurgeAttachments, PurgeGrants, Rename,
     CarryTags, CarryAttachments, CarryGrants, CarryRows, Alter, CommitSchema, AbortSchema,
     CollectArtifacts, Looking
<1>5. CASE \/ ReadStamp(k) \/ ReadRoles(k) \/ ReadColumns(k) \/ ReadTags(k)
           \/ ReadAttachments(k) \/ ReadMasking(k) \/ ReadRowAccess(k)
           \/ Materialise(k) \/ Interlock(k)
  BY <1>5, After DEF ReadStamp, ReadRoles, ReadColumns, ReadTags, ReadAttachments, ReadMasking,
     ReadRowAccess, Materialise, Interlock, Looking
<1>6. QED
  BY <1>1, <1>2, <1>3, <1>4, <1>5 DEF Authoring, Definition, Reading

LEMMA SameMasks ==
    ASSUME SameRows
    PROVE  /\ \A tag : MasksOnTag(gov', tag) = MasksOnTag(gov, tag)
           /\ \A t, c : MasksOn(gov', t, c) = MasksOn(gov, t, c)
BY DEF SameRows, MasksOnTag, MasksOn, Masking, TagsOn, Cascading

\* Nothing moves under a call that is alone.
LEMMA TurningActs ==
    ASSUME TypeInv, NEW k \in Calls, Turning(k)
    PROVE  Active(k)
<1>1. pc[k] \in {"insert", "remove", "create", "drop", "purge tags", "purge attachments", "rename",
                 "carry tags", "carry attachments", "alter", "commit"}
  BY DEF Turning, Insert, Remove, Create, Drop, PurgeTags, PurgeAttachments, Rename, CarryTags,
     CarryAttachments, Alter, CommitSchema, At
<1>2. QED
  BY <1>1, NoReader DEF Active, Ended, Reads

LEMMA AttachLooks == ASSUME TypeInv, NEW k \in Calls, AttachPolicy(k) PROVE Looked(pc[k], call[k])'
<1>1. PICK a \in Attachment :
        Ask(k, [Blank EXCEPT !.row = a, !.policies = {a.policy},
                             !.affected = IF a.target = "column"
                                          THEN {<<<<a.schema, a.table>>, a.column>>} ELSE {}],
            IF a.policy \in RowPolicies THEN "insert"
            ELSE IF a.target = "tag" THEN "expand" ELSE "check")
  BY DEF AttachPolicy
<1>2. PICK x : x = IF a.target = "column" THEN {<<<<a.schema, a.table>>, a.column>>} ELSE {}
  OBVIOUS
<1>3. PICK l : l = IF a.policy \in RowPolicies THEN "insert"
                   ELSE IF a.target = "tag" THEN "expand" ELSE "check"
  OBVIOUS
<1>4. PICK b : b = [Blank EXCEPT !.row = a, !.policies = {a.policy}, !.affected = x]
  OBVIOUS
<1>5. b.row = a /\ b.policies = {a.policy} /\ b.affected = x
  BY <1>4 DEF Blank
<1>6. pc'[k] = l /\ call'[k] = b
  <2>1. Ask(k, b, l)
    BY <1>1, <1>2, <1>3, <1>4
  <2>2. QED
    BY <2>1, After
<1>7. a \notin TagRow
  BY RowKinds
<1>8. CASE a.policy \in RowPolicies
  <2>1. l = "insert" /\ a.policy \notin MaskPolicies
    BY <1>3, <1>8, PoliciesAssumption
  <2>2. a.target # "column"
    BY <2>1 DEF Attachment
  <2>3. x = {}
    BY <1>2, <2>2
  <2>4. QED
    BY <1>5, <1>6, <1>7, <2>1, <2>3 DEF Looked, Brings
<1>9. CASE a.policy \notin RowPolicies /\ a.target = "tag"
  <2>1. l = "expand"
    BY <1>3, <1>9
  <2>2. QED
    BY <1>5, <1>6, <1>7, <1>9, <2>1 DEF Looked
<1>10. CASE a.policy \notin RowPolicies /\ a.target # "tag"
  <2>1. l = "check"
    BY <1>3, <1>10
  <2>2. a.target = "column" /\ x = {<<<<a.schema, a.table>>, a.column>>}
    BY <1>2, <1>10 DEF Attachment
  <2>3. ASSUME NEW t \in Tables, NEW c, OfTable(a, t), a.column = c PROVE <<t, c>> \in x
    BY <2>2, <2>3 DEF OfTable, Tables
  <2>4. QED
    BY <1>5, <1>6, <1>7, <2>1, <2>2, <2>3 DEF Looked, Brings
<1>11. QED
  BY <1>8, <1>9, <1>10

LEMMA AssignLooks == ASSUME TypeInv, NEW k \in Calls, AssignObjectTag(k) PROVE Looked(pc[k], call[k])'
<1>1. PICK r \in TagRow :
        Ask(k, [Blank EXCEPT !.row = r, !.policies = MasksOnTag(gov, r.tag)],
            IF MasksOnTag(gov, r.tag) = {} THEN "insert" ELSE "expand")
  BY DEF AssignObjectTag
<1>2. PICK P : P = MasksOnTag(gov, r.tag)
  OBVIOUS
<1>3. PICK l : l = IF P = {} THEN "insert" ELSE "expand"
  OBVIOUS
<1>4. PICK b : b = [Blank EXCEPT !.row = r, !.policies = P]
  OBVIOUS
<1>5. b.row = r /\ b.policies = P /\ b.affected = {}
  BY <1>4 DEF Blank
<1>6. pc'[k] = l /\ call'[k] = b
  <2>1. Ask(k, b, l)
    BY <1>1, <1>2, <1>3, <1>4
  <2>2. QED
    BY <2>1, After
<1>7. r \notin Attachment /\ P = MasksOnTag(gov', r.tag)
  BY <1>2, RowKinds, SameMasks DEF AssignObjectTag, SameRows, store
<1>8. l = "expand" \/ (l = "insert" /\ P = {})
  BY <1>3
<1>9. QED
  BY <1>5, <1>6, <1>7, <1>8 DEF Looked, Seen

LEMMA ExpandLooks ==
    ASSUME TypeInv, NEW k \in Calls, Expand(k), Looked(pc[k], call[k])
    PROVE  Looked(pc[k], call[k])'
<1>1. PICK b \in Calling : b = call[k]
  BY Mine
<1>2. PICK rows : rows = IF b.row \in TagRow THEN {b.row} ELSE { r \in gov.objectTag : r.tag = b.row.tag }
  OBVIOUS
<1>3. PICK x : x = Reached(rows, Cols)
  OBVIOUS
<1>4. call'[k] = [b EXCEPT !.affected = x] /\ pc'[k] = "check" /\ pc[k] = "expand"
  BY <1>1, <1>2, <1>3, After DEF Expand, At
<1>5. call'[k].row = b.row /\ call'[k].policies = b.policies /\ call'[k].affected = x
  BY <1>4 DEF Calling
<1>6. gov' = gov /\ Cols' = Cols
  BY DEF Expand, store, catalog, Cols
<1>7. /\ b.row \in TagRow => b.policies = MasksOnTag(gov, b.row.tag)
      /\ b.row \in Attachment => b.policies = {b.row.policy}
      /\ b.row \in TagRow \/ b.row.target = "tag"
  BY <1>1, <1>4 DEF Looked, Looking
<1>8. rows \subseteq TagRow
  BY <1>2, Updated DEF TypeInv, WorldOK
<1>9. ASSUME NEW t \in Tables, NEW c \in Cols[t], Brings(b.row, t, c) PROVE <<t, c>> \in x
  <2>1. \E r \in rows : Tagged(r, t, c)
    BY <1>2, <1>7, <1>9, RowKinds DEF Brings
  <2>2. QED
    BY <1>3, <1>8, <2>1, ReachedAre
<1>10. PICK m : m = pc'[k]
  OBVIOUS
<1>11. ASSUME NEW t \in Tables, NEW c \in Cols'[t], Brings(b.row, t, c)' PROVE <<t, c>> \in x
  BY <1>6, <1>9, <1>11 DEF Brings
<1>12. QED
  BY <1>4, <1>5, <1>6, <1>7, <1>11 DEF Looked

LEMMA CheckLooks ==
    ASSUME TypeInv, NEW k \in Calls, Check(k), Looked(pc[k], call[k])
    PROVE  Looked(pc[k], call[k])'
<1>1. PICK b \in Calling : b = call[k]
  BY Mine
<1>2. gov' = gov /\ Cols' = Cols /\ pc[k] = "check"
  BY DEF Check, store, catalog, Cols, At
<1>3. /\ b.row \in TagRow => b.policies = MasksOnTag(gov, b.row.tag)
      /\ b.row \in Attachment => b.policies = {b.row.policy}
      /\ \A t \in Tables : \A c \in Cols[t] :
              Brings(b.row, t, c) => <<t, c>> \in b.affected \/ Seen(b.policies, t, c)
  BY <1>1, <1>2 DEF Looked, Looking
<1>4. CASE b.affected = {}
  <2>1. call'[k] = b /\ pc'[k] = "insert"
    BY <1>1, <1>4, After DEF Check
  <2>2. QED
    BY <1>2, <1>3, <1>4, <2>1 DEF Looked, Brings, Seen
<1>5. CASE b.affected # {}
  <2>1. PICK u \in { y[1] : y \in b.affected } :
            LET cs == { y[2] : y \in { z \in b.affected : z[1] = u } }
            IN  /\ Goto(k, IF HasAnother(u, cs, b.policies) THEN "conflict" ELSE "check")
                /\ Keep(k, [b EXCEPT !.affected = { y \in @ : y[1] # u }])
    BY <1>1, <1>5 DEF Check
  <2>2. PICK cs : cs = { y[2] : y \in { z \in b.affected : z[1] = u } }
    OBVIOUS
  <2>3. PICK x : x = { y \in b.affected : y[1] # u }
    OBVIOUS
  <2>4. call'[k] = [b EXCEPT !.affected = x]
        /\ pc'[k] = IF HasAnother(u, cs, b.policies) THEN "conflict" ELSE "check"
    BY <2>1, <2>2, <2>3, After
  <2>5. call'[k].row = b.row /\ call'[k].policies = b.policies /\ call'[k].affected = x
    BY <2>4 DEF Calling
  <2>6. CASE HasAnother(u, cs, b.policies)
    BY <2>4, <2>6 DEF Looked, Looking
  <2>7. CASE ~ HasAnother(u, cs, b.policies)
    <3>1. ASSUME NEW t \in Tables, NEW c \in Cols[t], Brings(b.row, t, c)
          PROVE  <<t, c>> \in x \/ Seen(b.policies, t, c)
      <4>1. CASE Seen(b.policies, t, c)
        BY <4>1
      <4>2. CASE <<t, c>> \in b.affected /\ t # u
        BY <2>3, <4>2
      <4>3. CASE <<t, c>> \in b.affected /\ t = u
        <5>1. c \in cs
          BY <2>2, <4>3
        <5>2. QED
          BY <2>7, <3>1, <4>3, <5>1 DEF HasAnother, Seen
      <4>4. QED
        BY <1>3, <3>1, <4>1, <4>2, <4>3
    <3>2. ASSUME NEW t \in Tables, NEW c \in Cols'[t], Brings(b.row, t, c)'
          PROVE  <<t, c>> \in x \/ Seen(b.policies, t, c)'
      BY <1>2, <3>1, <3>2 DEF Brings, Seen
    <3>3. QED
      BY <1>2, <1>3, <2>4, <2>5, <2>7, <3>2 DEF Looked
  <2>8. QED
    BY <2>6, <2>7
<1>6. QED
  BY <1>4, <1>5

LEMMA LookKept == TypeInv /\ OverlapOK /\ LookInv /\ [Next]_vars => LookInv'
<1> SUFFICES ASSUME TypeInv, OverlapOK, LookInv, [Next]_vars PROVE LookInv'
  OBVIOUS
<1>1. CASE UNCHANGED vars
  BY <1>1 DEF vars, system, store, catalog, LookInv, Looked, Brings, Seen, Cols
<1>2. CASE Step /\ History
  <2>1. PICK k \in Calls : Authoring(k) \/ Definition(k) \/ Reading(k) \/ Crash(k)
    BY <1>2 DEF Step
  <2>2. Goes(k) /\ (Calm(k) \/ Turning(k))
    BY <2>1, StepGoes, CalmOrTurning
  <2> SUFFICES ASSUME "any" \notin overlap', NEW j \in Calls PROVE Looked(pc[j], call[j])'
    BY DEF LookInv
  <2>3. "any" \notin overlap /\ \A i \in Calls : i # k => pc'[i] = pc[i] /\ call'[i] = call[i]
    BY <1>2, <2>2, HistoryGrows
  <2>4. CASE pc'[j] \notin Looking
    BY <2>4 DEF Looked, Looking
  <2>5. CASE pc'[j] \in Looking /\ j = k
    BY <2>1, <2>3, <2>5, LookSteps, AttachLooks, AssignLooks, ExpandLooks, CheckLooks DEF LookInv
  <2>6. CASE pc'[j] \in Looking /\ j # k
    <3>1. pc'[j] = pc[j] /\ call'[j] = call[j]
      BY <2>3, <2>6
    <3>2. Active(j)
      <4>1. CallOK(pc[j], call[j])
        BY Mine
      <4>2. QED
        BY <2>6, <3>1, <4>1 DEF Active, CallOK, Looking, Authors, Ended
    <3>3. ~ Active(k)
      BY <2>3, <2>6, <3>2 DEF OverlapOK
    <3>4. SameRows /\ Cols' = Cols /\ gov'.objectTag = gov.objectTag
      BY <2>2, <3>3, TurningActs DEF Calm, Cols, SameRows
    <3>5. Looked(pc[j], call[j])
      BY <2>3 DEF LookInv
    <3>6. PICK l, b : l = pc[j] /\ b = call[j]
      OBVIOUS
    <3>7. \A t, c : Brings(b.row, t, c)' <=> Brings(b.row, t, c)
      BY <3>4 DEF Brings
    <3>8. \A t, c : Seen(b.policies, t, c)' <=> Seen(b.policies, t, c)
      BY <3>4, SameMasks DEF Seen
    <3>9. MasksOnTag(gov', b.row.tag) = MasksOnTag(gov, b.row.tag)
      BY <3>4, SameMasks
    <3>10. QED
      BY <3>1, <3>4, <3>5, <3>6, <3>7, <3>8, <3>9 DEF Looked
  <2>7. QED
    BY <2>4, <2>5, <2>6
<1>3. QED
  BY <1>1, <1>2 DEF Next, Done

LEMMA LooksAlways == Spec => []LookInv
<1>1. Init => LookInv
  BY DEF Init, LookInv, Looked, Looking
<1>2. TypeInv /\ OverlapOK /\ LookInv /\ [Next]_vars => LookInv'
  BY LookKept
<1>3. QED
  BY <1>1, <1>2, Typed, FlightsAlways, PTL DEF Spec

\* Of a row that was looked for, one source remains.
LEMMA TagInserted ==
    ASSUME TypeInv, NEW r \in TagRow, NEW t, NEW c, OneSource(gov, t, c),
           Tagged(r, t, c) => Seen(MasksOnTag(gov, r.tag), t, c)
    PROVE  OneSource([gov EXCEPT !.objectTag = @ \cup {r}], t, c)
<1>1. PICK h : h = [gov EXCEPT !.objectTag = @ \cup {r}]
  OBVIOUS
<1>2. h.objectTag = gov.objectTag \cup {r} /\ h.attachment = gov.attachment
  BY <1>1 DEF TypeInv, WorldOK, Model
<1>3. CASE ~ Tagged(r, t, c)
  <2>1. MaskLends(h, t, c, gov, t, c)
    BY <1>2, <1>3 DEF MaskLends, TagsLend, Alike
  <2>2. QED
    BY <1>1, <2>1, MasksLent, OneLent
<1>4. CASE Tagged(r, t, c)
  <2>1. \A a \in Masking(h, t, c) :
            a \in Masking(gov, t, c) \/ (a.target = "tag" /\ a.tag = r.tag /\ a.policy \in MasksOnTag(gov, r.tag))
    <3>1. ASSUME NEW tag \in TagsOn(h, t, c) PROVE tag \in TagsOn(gov, t, c) \/ tag = r.tag
      <4>0. \A q \in gov.objectTag : Tagged(q, t, c) => q.tag \in TagsOn(gov, t, c)
        <5>1. \A x : x \in TagsOn(gov, t, c) <=> \E q \in gov.objectTag : q.tag = x /\ Tagged(q, t, c)
          BY TagsAre
        <5>2. QED
          BY <5>1
      <4>1. PICK q \in h.objectTag : q.tag = tag /\ Tagged(q, t, c)
        <5>1. \A x : x \in TagsOn(h, t, c) <=> \E q \in h.objectTag : q.tag = x /\ Tagged(q, t, c)
          BY TagsAre
        <5>2. QED
          BY <3>1, <5>1
      <4>2. CASE q \in gov.objectTag
        BY <4>0, <4>1, <4>2
      <4>3. QED
        BY <1>2, <4>1, <4>2
    <3>2. QED
      BY <1>2, <3>1 DEF Masking, MasksOnTag
  <2>2. CASE Masking(gov, t, c) = {}
    <3>1. r.tag \in Tags
      BY DEF TagRow
    <3>2. \A a \in Masking(h, t, c) : a.target = "tag" /\ a.tag = r.tag
      BY <2>1, <2>2
    <3>3. OneSource(h, t, c)
      BY <3>1, <3>2 DEF OneSource
    <3>4. QED
      BY <1>1, <3>3
  <2>3. CASE \E a \in Masking(gov, t, c) : TRUE
    <3>1. PICK e \in Masking(gov, t, c) : TRUE
      BY <2>3
    <3>2. \A p \in MasksOnTag(gov, r.tag) : \A a \in Masking(gov, t, c) : a.policy = p
      BY <1>4 DEF Seen, MasksOn
    <3>3. CASE MasksOnTag(gov, r.tag) = {}
      <4>1. Masking(h, t, c) \subseteq Masking(gov, t, c)
        BY <2>1, <3>3
      <4>2. QED
        BY <1>1, <4>1 DEF OneSource
    <3>4. CASE MasksOnTag(gov, r.tag) # {}
      <4>1. \A a \in Masking(h, t, c) : a.policy = e.policy
        BY <2>1, <3>1, <3>2, <3>4
      <4>2. QED
        BY <1>1, <4>1 DEF OneSource
    <3>5. QED
      BY <3>3, <3>4
  <2>4. QED
    BY <2>2, <2>3
<1>5. QED
  BY <1>3, <1>4

LEMMA AttachmentInserted ==
    ASSUME TypeInv, NEW a \in Attachment, NEW t, NEW c, OneSource(gov, t, c),
           Brings(a, t, c) => Seen({a.policy}, t, c)
    PROVE  OneSource([gov EXCEPT !.attachment = @ \cup {a}], t, c)
<1>1. PICK h : h = [gov EXCEPT !.attachment = @ \cup {a}]
  OBVIOUS
<1>2. h.objectTag = gov.objectTag /\ h.attachment = gov.attachment \cup {a}
  BY <1>1 DEF TypeInv, WorldOK, Model
<1>3. TagsOn(h, t, c) = TagsOn(gov, t, c)
  BY <1>2 DEF TagsOn, Cascading
<1>4. \A e \in Masking(h, t, c) : e \in Masking(gov, t, c) \/ (e = a /\ Brings(a, t, c))
  <2>1. \A tag : tag \in TagsOn(gov, t, c) <=> \E r \in gov.objectTag : r.tag = tag /\ Tagged(r, t, c)
    BY TagsAre
  <2>2. ASSUME NEW e \in Masking(h, t, c), e \notin Masking(gov, t, c) PROVE e = a /\ Brings(a, t, c)
    <3>1. e = a
      BY <1>2, <1>3, <2>2 DEF Masking
    <3>2. /\ a.policy \in MaskPolicies
          /\ \/ a.target = "tag" /\ a.tag \in TagsOn(gov, t, c)
             \/ a.target = "column" /\ OfTable(a, t) /\ a.column = c
      BY <1>3, <2>2, <3>1 DEF Masking, OfTable
    <3>3. QED
      BY <2>1, <3>1, <3>2 DEF Brings
  <2>3. QED
    BY <2>2
<1>5. CASE ~ Brings(a, t, c)
  <2>1. Masking(h, t, c) \subseteq Masking(gov, t, c)
    BY <1>4, <1>5
  <2>2. QED
    BY <1>1, <2>1 DEF OneSource
<1>6. CASE Brings(a, t, c)
  <2>1. \A e \in Masking(gov, t, c) : e.policy = a.policy
    BY <1>6 DEF Seen, MasksOn
  <2>2. \A e \in Masking(h, t, c) : e.policy = a.policy
    BY <1>4, <2>1
  <2>3. QED
    BY <1>1, <2>2 DEF OneSource
<1>7. QED
  BY <1>5, <1>6

----------------------------------------------------------------------------
(***************************************************************************)
(* The masks of a column, when the carry in flight is through.             *)
(***************************************************************************)

OneInv ==
    Died \/ "any" \in overlap \/ ahead
    \/ \A l, b : InFlight(l, b) => \A t \in Tables : \A c \in Cols[t] : OneSource(Soon(l, b, gov), t, c)

LEMMA OneAtRest ==
    ASSUME NEW l, NEW b, AtRest(l, b), NEW g, NEW t, NEW c
    PROVE  OneSource(Soon(l, b, g), t, c) <=> OneSource(g, t, c)
<1>1. Soon(l, b, g) = [objectTag |-> g.objectTag, attachment |-> g.attachment]
  BY Landed DEF AtRest
<1>2. Soon(l, b, g).objectTag = g.objectTag /\ Soon(l, b, g).attachment = g.attachment
  BY <1>1
<1>3. MaskLends(Soon(l, b, g), t, c, g, t, c) /\ MaskLends(g, t, c, Soon(l, b, g), t, c)
  BY <1>2, MoreRows
<1>4. QED
  BY <1>3, MasksLent, OneLent

LEMMA FewerRows ==
    ASSUME NEW g, NEW h, h.objectTag \subseteq g.objectTag, h.attachment \subseteq g.attachment,
           NEW t, NEW c, OneSource(g, t, c)
    PROVE  OneSource(h, t, c)
<1>1. MaskLends(h, t, c, g, t, c)
  BY MoreRows
<1>2. QED
  BY <1>1, MasksLent, OneLent

LEMMA NoSource == ASSUME NEW g, NEW t, NEW c, MasksOn(g, t, c) = {} PROVE OneSource(g, t, c)
BY DEF MasksOn, OneSource

\* A call at work alone, with no carry in flight, finds the rows at rest.
LEMMA Alone ==
    ASSUME TypeInv, OverlapOK, "any" \notin overlap, NEW k \in Calls, Active(k), pc[k] \notin Flights,
           NEW l, NEW b, InFlight(l, b)
    PROVE  AtRest(l, b)
<1>1. \A j \in Calls : pc[j] \notin Flights
  BY WindowDefines DEF OverlapOK, Defining, Flights, Windows
<1>2. QED
  BY <1>1 DEF InFlight, AtRest, Carries, Renames

\* A column that comes in time comes with no mask.
LEMMA NewColumns ==
    ASSUME History, ~ ahead', NEW t \in Tables, live'[t] # None,
           NEW c \in cols'[live'[t]], c \notin cols[live'[t]]
    PROVE  MasksOn(gov', t, c) = {}
BY DEF History

\* A row comes in to where it was looked for.
LEMMA InsertOne ==
    ASSUME TypeInv, LookInv, "any" \notin overlap, NEW k \in Calls, Insert(k),
           NEW t \in Tables, NEW c \in Cols[t], OneSource(gov, t, c)
    PROVE  OneSource(gov', t, c)
<1>1. PICK b \in Calling : b = call[k]
  BY Mine
<1>2. pc[k] = "insert"
  BY DEF Insert, At
<1>3. b.row \in TagRow \cup Attachment
  BY <1>1, <1>2, Mine DEF CallOK, Looking
<1>4. Looked("insert", b)
  BY <1>1, <1>2 DEF LookInv
<1>5. Brings(b.row, t, c) => Seen(b.policies, t, c)
  BY <1>4 DEF Looked
<1>6. CASE b.row \in TagRow
  <2>1. gov' = [gov EXCEPT !.objectTag = @ \cup {b.row}]
    BY <1>1, <1>6 DEF Insert, Statement
  <2>2. b.policies = MasksOnTag(gov, b.row.tag)
    BY <1>4, <1>6 DEF Looked, Looking
  <2>3. Tagged(b.row, t, c) => Seen(MasksOnTag(gov, b.row.tag), t, c)
    BY <1>5, <1>6, <2>2 DEF Brings
  <2>4. QED
    BY <1>6, <2>1, <2>3, TagInserted
<1>7. CASE b.row \in Attachment
  <2>1. b.row \notin TagRow
    BY <1>7, RowKinds
  <2>2. gov' = [gov EXCEPT !.attachment = @ \cup {b.row}]
    BY <1>1, <2>1 DEF Insert, Statement
  <2>3. b.policies = {b.row.policy}
    BY <1>4, <1>7 DEF Looked, Looking
  <2>4. QED
    BY <1>5, <1>7, <2>2, <2>3, AttachmentInserted
<1>8. QED
  BY <1>3, <1>6, <1>7

\* No row waits under the name a table is given.
LEMMA NothingWaits ==
    ASSUME TypeInv, OverlapOK, LeftInv, ~ Died, ~ ahead, "any" \notin overlap,
           NEW k \in Calls, Rename(k), pc'[k] \in Flights
    PROVE  \A r \in gov.objectTag \cup gov.attachment : ~ OfTable(r, call[k].to)
<1>1. /\ pc[k] = "rename" /\ call[k].to \in Tables /\ live[call[k].to] = None
  BY RenameDoes
<1>2. Active(k)
  BY <1>1, WindowDefines DEF Defining
<1>3. PICK u \in Tables : u = call[k].to
  BY <1>1
<1>4. SUFFICES ASSUME NEW r \in gov.objectTag \cup gov.attachment, OfTable(r, u) PROVE FALSE
  BY <1>3
<1>5. u = <<u[1], u[2]>> /\ u[2] # None
  BY Nones DEF Tables
<1>6. Covered(r, AttachmentWindow)
  BY DEF LeftInv, Covered, AttachmentWindow
<1>7. PICK j \in Calls : pc[j] \in AttachmentWindow
  BY <1>1, <1>3, <1>4, <1>5, <1>6 DEF Covered, OfTable
<1>8. Active(j)
  BY <1>7, WindowDefines DEF Defining, Windows, AttachmentWindow, TagWindow
<1>9. j = k
  BY <1>2, <1>8 DEF OverlapOK
<1>10. QED
  BY <1>1, <1>7, <1>9 DEF AttachmentWindow, TagWindow

LEMMA RenameOne ==
    ASSUME TypeInv, NEW k \in Calls, Rename(k), pc'[k] \in Flights, FlightOK(pc'[k], call'[k]),
           \A r \in gov.objectTag \cup gov.attachment : ~ OfTable(r, call[k].to),
           \A t \in Tables : \A c \in Cols[t] : OneSource(gov, t, c),
           NEW t \in Tables, NEW d \in Cols'[t]
    PROVE  OneSource(Soon(pc'[k], call'[k], gov'), t, d)
<1>1. /\ pc'[k] = "carry tags" /\ SameRows /\ cols' = cols
      /\ call[k].at \in Tables /\ call[k].to \in Tables /\ call[k].at # call[k].to
      /\ call[k].at[1] = call[k].to[1] /\ live[call[k].at] # None
      /\ live' = [live EXCEPT ![call[k].at] = None, ![call[k].to] = live[call[k].at]]
      /\ call'[k].at = call[k].at /\ call'[k].to = call[k].to
  BY RenameDoes
<1>2. PICK b : b = call'[k]
  OBVIOUS
<1>3. PICK l \in TagCarry : l = pc'[k]
  BY <1>1 DEF TagCarry
<1>4. FlightOK(l, b) /\ ~ Renames(l, b)
  BY <1>2, <1>3, FlightsAbout DEF TagCarry, Renames
<1>5. gov.objectTag \subseteq TagRow /\ gov.attachment \subseteq Attachment
  BY Updated DEF TypeInv, WorldOK
<1>6. live \in [Tables -> Ids \cup {None}] /\ live'[t] # None /\ d \in cols[live'[t]]
  BY <1>1 DEF Cols, ColumnsOf, TypeInv, WorldOK
<1>7. Soon(pc'[k], call'[k], gov') = Soon(l, b, gov)
  BY <1>1, <1>2, <1>3, SameSoon
<1>8. CASE t = b.to
  <2>1. d \in Cols[b.at]
    BY <1>1, <1>2, <1>6, <1>8 DEF Cols, ColumnsOf
  <2>2. b.at[1] = b.to[1] /\ \A r \in gov.objectTag \cup gov.attachment : ~ OfTable(r, b.to)
    BY <1>1, <1>2
  <2>3. MaskLends(Soon(l, b, gov), b.to, d, gov, b.at, d)
    BY <1>4, <1>5, <2>2, CarryBack
  <2>4. OneSource(gov, b.at, d)
    BY <1>1, <1>2, <2>1
  <2>5. OneSource(Soon(l, b, gov), b.to, d)
    BY <2>3, <2>4, MasksLent, OneLent
  <2>6. QED
    BY <1>7, <1>8, <2>5
<1>9. CASE t # b.to
  <2>1. d \in Cols[t]
    BY <1>1, <1>2, <1>6, <1>9 DEF Cols, ColumnsOf
  <2>2. MaskLends(Soon(l, b, gov), t, d, gov, t, d)
    BY <1>4, <1>5, <1>9, Back
  <2>3. OneSource(Soon(l, b, gov), t, d)
    BY <2>1, <2>2, MasksLent, OneLent
  <2>4. QED
    BY <1>7, <2>3
<1>10. QED
  BY <1>8, <1>9

LEMMA AlterOne ==
    ASSUME TypeInv, NEW k \in Calls, Alter(k), pc'[k] \in Flights, FlightOK(pc'[k], call'[k]),
           History, ~ ahead',
           \A t \in Tables : \A c \in Cols[t] : OneSource(gov, t, c),
           NEW t \in Tables, NEW d \in Cols'[t]
    PROVE  OneSource(Soon(pc'[k], call'[k], gov'), t, d)
<1>1. /\ pc'[k] = "commit" /\ SameRows /\ live' = live
      /\ call[k].at \in Tables /\ live[call[k].at] \in Ids /\ call[k].change \in Change
      /\ Possible(cols[live[call[k].at]], call[k].change)
      /\ cols'[live[call[k].at]] = Altered(cols[live[call[k].at]], call[k].change)
      /\ \A i \in Ids : i # live[call[k].at] => cols'[i] = cols[i]
      /\ call'[k].at = call[k].at /\ call'[k].change = call[k].change
  BY AlterDoes
<1>2. PICK b : b = call'[k]
  OBVIOUS
<1>3. PICK l : l = pc'[k]
  OBVIOUS
<1>4. FlightOK(l, b) /\ l \notin Carries /\ l = "commit" /\ b.at = call[k].at /\ b.change = call[k].change
  BY <1>1, <1>2, <1>3 DEF Carries
<1>5. gov.objectTag \subseteq TagRow /\ gov.attachment \subseteq Attachment
  BY Updated DEF TypeInv, WorldOK
<1>6. /\ live'[t] # None /\ live'[t] = live[t] /\ d \in cols'[live[t]] /\ live[t] \in Ids
      /\ Cols[t] = cols[live[t]]
  BY <1>1 DEF Cols, ColumnsOf, TypeInv, WorldOK
<1>7. Soon(pc'[k], call'[k], gov') = Soon(l, b, gov)
  BY <1>1, <1>2, <1>3, SameSoon
<1>8. d \notin Cols[t] => MasksOn(gov, t, d) = {}
  <2>1. SUFFICES ASSUME d \notin Cols[t] PROVE MasksOn(gov', t, d) = {}
    BY <1>1, SameMasks
  <2>2. QED
    BY <1>6, <2>1, NewColumns
<1>9. OneSource(gov, t, d)
  BY <1>8, NoSource
<1>10. CASE Renames(l, b) /\ t = b.at /\ d = b.change[2][2]
  <2>1. b.change[2][1] \in Cols[t] /\ b.change[2][2] \notin Cols[t]
    BY <1>1, <1>4, <1>6, <1>10 DEF Possible, Renames
  <2>2. MasksOn(gov, b.at, b.change[2][2]) = {}
    BY <1>8, <1>10, <2>1
  <2>3. MaskingLends(Soon(l, b, gov), b.at, b.change[2][2], gov, b.at, b.change[2][1])
    BY <1>4, <1>5, <1>10, <2>2, TurnBack
  <2>4. OneSource(gov, b.at, b.change[2][1])
    BY <1>10, <2>1
  <2>5. OneSource(Soon(l, b, gov), b.at, b.change[2][2])
    BY <2>3, <2>4, OneLent
  <2>6. QED
    BY <1>7, <1>10, <2>5
<1>11. CASE ~ (Renames(l, b) /\ t = b.at /\ d = b.change[2][2])
  <2>1. MaskLends(Soon(l, b, gov), t, d, gov, t, d)
    BY <1>4, <1>5, <1>11, Back
  <2>2. OneSource(Soon(l, b, gov), t, d)
    BY <1>9, <2>1, MasksLent, OneLent
  <2>3. QED
    BY <1>7, <2>2
<1>12. QED
  BY <1>10, <1>11

LEMMA OneSuffices == TypeInv /\ OverlapOK /\ Flown /\ OneInv => OneMaskPerColumn
<1> SUFFICES ASSUME TypeInv, OverlapOK, Flown, OneInv, ~ Died, "any" \notin overlap, ~ ahead,
                    NEW t \in Tables, NEW c \in Cols[t]
             PROVE  OneSource(gov, t, c)
  BY DEF OneMaskPerColumn
<1>1. PICK l, b : InFlight(l, b)
  BY DEF Flown
<1>2. FlightOK(l, b) /\ Held(l, b)
  BY <1>1 DEF Flown, OverlapOK
<1>3. gov.objectTag \subseteq TagRow /\ gov.attachment \subseteq Attachment
  BY Updated DEF TypeInv, WorldOK
<1>4. live[t] # None
  BY DEF Cols, ColumnsOf
<1>5. l \in Carries => t # b.at
  BY <1>2, <1>4 DEF Held, Carries
<1>6. Renames(l, b) /\ t = b.at => c # b.change[2][1]
  BY <1>2 DEF Held, Renames
<1>7. MaskLends(gov, t, c, Soon(l, b, gov), t, c)
  BY <1>2, <1>3, <1>5, <1>6, Away
<1>8. OneSource(Soon(l, b, gov), t, c)
  BY <1>1 DEF OneInv
<1>9. QED
  BY <1>7, <1>8, MasksLent, OneLent

LEMMA InitiallyOne == Init => OneInv
<1> SUFFICES ASSUME Init, NEW l, NEW b, InFlight(l, b), NEW t \in Tables, NEW c \in Cols[t]
             PROVE  OneSource(Soon(l, b, gov), t, c)
  BY DEF OneInv
<1>1. AtRest(l, b)
  BY DEF Init, InFlight, AtRest, Renames, Carries, Flights
<1>2. t = First[1] /\ c = First[2] /\ gov \in Seeds
  BY GovernanceAssumption DEF Init, Cols, ColumnsOf
<1>3. OneSource(gov, t, c)
  BY <1>2, SeedsAreAuthored
<1>4. QED
  BY <1>1, <1>3, OneAtRest

LEMMA OneKept ==
    TypeInv /\ TypeInv' /\ OverlapOK /\ OverlapOK' /\ Flown /\ Flown' /\ LeftInv /\ LookInv /\ OneInv
    /\ [Next]_vars => OneInv'
<1> SUFFICES ASSUME TypeInv, TypeInv', OverlapOK, OverlapOK', Flown, Flown', LeftInv, LookInv, OneInv,
                    [Next]_vars
             PROVE  OneInv'
  OBVIOUS
<1>1. CASE UNCHANGED vars
  BY <1>1 DEF vars, system, store, catalog, OneInv, Died, InFlight, Cols
<1>2. CASE Step /\ History
  <2>1. PICK k \in Calls : Authoring(k) \/ Definition(k) \/ Reading(k) \/ Crash(k)
    BY <1>2 DEF Step
  <2>2. Goes(k) /\ (Calm(k) \/ Turning(k))
    BY <2>1, StepGoes, CalmOrTurning
  <2> SUFFICES ASSUME ~ Died', "any" \notin overlap', ~ ahead', NEW m, NEW c, InFlight(m, c)',
                      NEW t \in Tables, NEW d \in Cols'[t]
               PROVE  OneSource(Soon(m, c, gov'), t, d)
    BY DEF OneInv
  <2>3. ~ Died /\ "any" \notin overlap /\ ~ ahead /\ "ddl" \notin overlap'
    BY <1>2, <2>2, HistoryGrows DEF OverlapOK
  <2>4. PICK l, b : /\ InFlight(l, b)
                    /\ \/ pc[k] \notin Flights /\ pc'[k] \notin Flights /\ m = l /\ c = b
                       \/ pc[k] \notin Flights /\ pc'[k] \in Flights
                             /\ m = pc'[k] /\ c = call'[k] /\ AtRest(l, b)
                       \/ pc[k] \in Flights /\ l = pc[k] /\ b = call[k] /\ pc'[k] \in Flights
                             /\ m = pc'[k] /\ c = call'[k]
                       \/ pc[k] \in Flights /\ l = pc[k] /\ b = call[k] /\ pc'[k] \notin Flights
                             /\ AtRest(m, c)
    BY <1>2, <2>2, <2>3, FlightSteps
  <2>5. \A u \in Tables : \A e \in Cols[u] : OneSource(Soon(l, b, gov), u, e)
    BY <2>3, <2>4 DEF OneInv
  <2>6. FlightOK(m, c)
    BY DEF Flown
  <2>7. pc'[k] \notin {"broken", "crashed"}
    BY DEF Died
  \* Before a call that turns something sets out on a carry, the rows are at rest.
  <2>8. ASSUME Turning(k), pc[k] \notin Flights
        PROVE  AtRest(l, b) /\ \A u \in Tables : \A e \in Cols[u] : OneSource(gov, u, e)
    <3>1. AtRest(l, b)
      BY <2>3, <2>4, <2>8, Alone, TurningActs
    <3>2. QED
      BY <2>5, <3>1, OneAtRest
  <2>9. CASE Calm(k)
    <3>1. pc[k] \notin Flights /\ pc'[k] \notin Flights
      BY <2>7, <2>9 DEF Calm, Flights, Windows
    <3>2. m = l /\ c = b /\ Cols' = Cols
      BY <2>4, <2>9, <3>1 DEF Calm, Cols
    <3>3. Soon(m, c, gov') = Soon(l, b, gov)
      BY <2>9, <3>2, SameSoon DEF Calm
    <3>4. QED
      BY <2>5, <3>2, <3>3
  <2>10. CASE Insert(k) \/ Remove(k) \/ PurgeTags(k) \/ PurgeAttachments(k)
    <3>1. pc[k] \notin Flights /\ pc'[k] \notin Flights /\ Cols' = Cols
      BY <2>10, After, PurgeDoes DEF Insert, Remove, At, Flights, catalog, Cols
    <3>2. AtRest(l, b) /\ OneSource(gov, t, d) /\ m = l /\ c = b
      BY <2>4, <2>8, <2>10, <3>1 DEF Turning
    <3>3. OneSource(gov', t, d)
      <4>1. CASE Insert(k)
        BY <2>3, <3>1, <3>2, <4>1, InsertOne
      <4>2. CASE Remove(k)
        <5>1. gov'.objectTag \subseteq gov.objectTag /\ gov'.attachment \subseteq gov.attachment
          BY <4>2 DEF Remove, Statement, TypeInv, WorldOK, Model
        <5>2. QED
          BY <3>2, <5>1, FewerRows
      <4>3. CASE PurgeTags(k) \/ PurgeAttachments(k)
        BY <3>2, <4>3, PurgeDoes, FewerRows
      <4>4. QED
        BY <2>10, <4>1, <4>2, <4>3
    <3>4. QED
      BY <3>2, <3>3, OneAtRest
  <2>11. CASE Create(k) \/ Drop(k)
    <3>1. pc[k] \notin Flights /\ pc'[k] \notin Flights /\ SameRows
      BY <2>11, After DEF Create, Drop, At, Flights, SameRows, store
    <3>2. AtRest(l, b) /\ m = l /\ c = b /\ \A u \in Tables : \A e \in Cols[u] : OneSource(gov, u, e)
      BY <2>4, <2>8, <2>11, <3>1 DEF Turning
    <3>3. OneSource(gov, t, d)
      <4>1. CASE d \in Cols[t]
        BY <3>2, <4>1
      <4>2. CASE d \notin Cols[t]
        <5>1. live'[t] # None /\ d \in cols'[live'[t]]
          BY DEF Cols, ColumnsOf
        <5>2. d \notin cols[live'[t]]
          <6>1. live \in [Tables -> Ids \cup {None}] /\ cols \in [Ids -> SUBSET Columns]
            BY DEF TypeInv, WorldOK
          <6>2. CASE live'[t] = live[t]
            BY <4>2, <5>1, <6>2 DEF Cols, ColumnsOf
          <6>3. CASE live'[t] # live[t]
            <7>1. CASE Create(k)
              BY <6>1, <6>3, <7>1 DEF Create, Unused
            <7>2. CASE Drop(k)
              BY <5>1, <6>1, <6>3, <7>2 DEF Drop
            <7>3. QED
              BY <2>11, <7>1, <7>2
          <6>4. QED
            BY <6>2, <6>3
        <5>3. MasksOn(gov', t, d) = {}
          BY <1>2, <5>1, <5>2, NewColumns
        <5>4. MasksOn(gov, t, d) = {}
          BY <3>1, <5>3, SameMasks
        <5>5. QED
          BY <5>4, NoSource
      <4>3. QED
        BY <4>1, <4>2
    <3>4. OneSource(Soon(l, b, gov), t, d)
      BY <3>2, <3>3, OneAtRest
    <3>5. QED
      BY <3>1, <3>2, <3>4, SameSoon
  <2>12. CASE Rename(k) \/ Alter(k)
    <3>1. pc[k] \notin Flights
      BY <2>12 DEF Rename, Alter, At, Flights
    <3>2. CASE pc'[k] \in Flights
      <4>1. m = pc'[k] /\ c = call'[k] /\ FlightOK(pc'[k], call'[k])
        BY <2>4, <2>6, <3>1, <3>2
      <4>2. \A u \in Tables : \A e \in Cols[u] : OneSource(gov, u, e)
        BY <2>8, <2>12, <3>1 DEF Turning
      <4>3. CASE Rename(k)
        <5>1. \A r \in gov.objectTag \cup gov.attachment : ~ OfTable(r, call[k].to)
          BY <2>3, <3>2, <4>3, NothingWaits
        <5>2. QED
          BY <3>2, <4>1, <4>2, <4>3, <5>1, RenameOne
      <4>4. CASE Alter(k)
        BY <1>2, <3>2, <4>1, <4>2, <4>4, AlterOne
      <4>5. QED
        BY <2>12, <4>3, <4>4
    <3>3. CASE pc'[k] \notin Flights
      <4>1. SameRows /\ Cols' = Cols /\ m = l /\ c = b
        BY <2>4, <2>12, <3>1, <3>3, After DEF Rename, Alter, At, Flights, SameRows, store, Cols
      <4>2. QED
        BY <2>5, <4>1, SameSoon
    <3>4. QED
      BY <3>2, <3>3
  <2>13. CASE CarryTags(k) \/ CarryAttachments(k) \/ CommitSchema(k)
    <3>1. pc[k] \in Flights
      BY <2>13 DEF CarryTags, CarryAttachments, CommitSchema, At, Flights
    <3>2. Cols' = Cols /\ Soon(m, c, gov') = Soon(pc[k], call[k], gov)
      BY <2>4, <2>7, <2>13, <3>1, Lands DEF Cols
    <3>3. QED
      BY <2>4, <2>5, <3>1, <3>2
  <2>14. QED
    BY <2>2, <2>9, <2>10, <2>11, <2>12, <2>13 DEF Turning
<1>3. QED
  BY <1>1, <1>2 DEF Next, Done

\* OneMaskPerColumn: the look of attach_policy and assign_object_tag finds
\* every column that the new row reaches, and so a column comes under the
\* masks of one policy or of one tag.
THEOREM OneMaskEach == Spec => []OneMaskPerColumn
<1>1. Init => OneInv
  BY InitiallyOne
<1>2. TypeInv /\ TypeInv' /\ OverlapOK /\ OverlapOK' /\ Flown /\ Flown' /\ LeftInv /\ LookInv /\ OneInv
      /\ [Next]_vars => OneInv'
  BY OneKept
<1>3. TypeInv /\ OverlapOK /\ Flown /\ OneInv => OneMaskPerColumn
  BY OneSuffices
<1>4. QED
  BY <1>1, <1>2, <1>3, Typed, FlightsAlways, LeftAlways, LooksAlways, PTL DEF Spec
=============================================================================
