--------------------------- MODULE MCMaterialize ---------------------------
(***************************************************************************)
(* Instances of Materialize for TLC.                                       *)
(***************************************************************************)
EXTENDS Materialize, TLC

CONSTANTS l1, c1, c2, w1, w2

\* Processes are interchangeable.
WorkerSymmetry == Permutations(Workers)
=============================================================================
