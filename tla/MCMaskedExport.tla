--------------------------- MODULE MCMaskedExport ---------------------------
(***************************************************************************)
(* Instances of MaskedExport for TLC.                                      *)
(***************************************************************************)
EXTENDS MaskedExport, TLC

CONSTANTS s1, s2, p1, p2, r1, f1, c1

\* Signatures are alike, and parts are alike.
Symmetry == { f @@ g : f \in Permutations({s1, s2}), g \in Permutations({p1, p2}) }
=============================================================================
