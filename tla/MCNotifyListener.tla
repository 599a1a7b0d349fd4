-------------------------- MODULE MCNotifyListener --------------------------
(***************************************************************************)
(* Instances of NotifyListener for TLC.                                    *)
(***************************************************************************)
EXTENDS NotifyListener

CONSTANTS w1, w2, t1, t2

\* No data files, or those of both tables.
MCTouchSets == {{}, {t1, t2}}
=============================================================================
