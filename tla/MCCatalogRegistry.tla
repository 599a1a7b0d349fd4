------------------------- MODULE MCCatalogRegistry -------------------------
(***************************************************************************)
(* Instances of CatalogRegistry for TLC.                                   *)
(***************************************************************************)
EXTENDS CatalogRegistry, TLC

CONSTANTS main, sales, hr, x1, x2, x3, x4, x5, q1, q2, b1

\* q1 resolves two catalogs, or the same one twice, and q2 one.
MCMaxGets == [r \in {q1, q2} |-> IF r = q1 THEN 2 ELSE 1]
=============================================================================
