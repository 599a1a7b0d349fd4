--------------------------- MODULE MCCommitTable ---------------------------
(***************************************************************************)
(* Instances of CommitTable for TLC.                                       *)
(***************************************************************************)
EXTENDS CommitTable, TLC

CONSTANTS r1, r2, w1, w2, x0, x1

MCWorkerOfOne == [r \in Requests |-> w1]

MCRows == Requests \cup InitialRows \cup DirectRows

\* Requests are interchangeable when one process serves them all.
RequestSymmetry == Permutations(Requests)

\* What clients send: an overwrite, a position delete, an equality
\* delete, schema and sort-order changes, snapshot removal.
MCShapes == { {"add", "remove"}, {"posdelete"}, {"eqdelete"},
              {"schema", "sort"}, {"expire"} }
=============================================================================
