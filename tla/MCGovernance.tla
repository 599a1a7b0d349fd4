---------------------------- MODULE MCGovernance ----------------------------
(***************************************************************************)
(* Instances of Governance for TLC.                                        *)
(***************************************************************************)
EXTENDS Governance, TLC

CONSTANTS sales, orders, items, c, d, g, m1, m2, r, analyst, agent, ann, k1, k2, i1, i2, i3

\* A mask for all but analysts, baked into exports, on the column itself; a
\* mask that rides a tag of the table; a filter and two masks that ride a tag of
\* the schema, attached while it reached nothing.
Column(p, x) == [policy |-> p, target |-> "column", tag |-> None,
                 schema |-> sales, table |-> orders, column |-> x]
OnTag(p) == [policy |-> p, target |-> "tag", tag |-> g,
             schema |-> None, table |-> None, column |-> None]
Defined == [Empty EXCEPT
    !.tag = {g},
    !.masking = [p \in MaskPolicies |-> [bypass |-> {analyst}, fileLayer |-> p = m1]],
    !.rowAccess = [p \in RowPolicies |-> [bypass |-> {analyst}]],
    !.objectGrant = {[schema |-> sales, table |-> orders, role |-> analyst]}]

SeedModels ==
    { [Defined EXCEPT !.attachment = {Column(m1, c)}],
      [Defined EXCEPT
        !.attachment = {OnTag(m2)},
        !.objectTag = {[on |-> "table", schema |-> sales, table |-> orders, column |-> None, tag |-> g]}],
      [Defined EXCEPT
        !.attachment = {OnTag(r), OnTag(m1), OnTag(m2)},
        !.objectTag = {[on |-> "schema", schema |-> sales, table |-> None, column |-> None, tag |-> g]}] }

There == <<<<sales, orders>>, c>>

Symmetry == Permutations({k1, k2}) \cup Permutations({i1, i2, i3})
=============================================================================
