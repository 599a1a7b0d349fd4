---------------------------- MODULE MCReaderRoles ----------------------------
(***************************************************************************)
(* Instances of ReaderRoles for TLC.                                       *)
(***************************************************************************)
EXTENDS ReaderRoles, TLC

CONSTANTS k1, k2, w1, w2

TwoWorkers == (k1 :> w1) @@ (k2 :> w2)
=============================================================================
