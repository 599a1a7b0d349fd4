------------------------------ MODULE ReaderRls ------------------------------
(***************************************************************************)
(* Row-level security on a catalog's metadata (pg_rls.py): the DDL that    *)
(* grants the ducklake_* tables to the reader group and puts a policy on   *)
(* each, run by the first vend of a process and looked after by later      *)
(* ones.  Every statement commits by itself; one arm runs at a time, by an *)
(* advisory lock.  The default catalog, armed at start-up, is left out.    *)
(***************************************************************************)
EXTENDS Naturals, FiniteSets

CONSTANTS
    None,
    Calls,          \* vends
    Workers,        \* processes
    WorkerOf,       \* the process of a vend
    Early,          \* ducklake_* tables the catalog is created with
    Late,           \* ones that a new version of DuckLake adds
    MaxInterrupts   \* bound on arms that are cut short

ASSUME ReaderRlsAssumption ==
    /\ WorkerOf \in [Calls -> Workers]
    /\ Early \cap Late = {}
    /\ None \notin Calls
    /\ MaxInterrupts \in Nat

VARIABLES
    exists,     \* ducklake_* tables
    granted,    \* readable by the reader group
    policied,   \* row security is enabled and has its policy
    armed,      \* _ARMED of a worker: never, fresh, or due for its recheck
    pending,    \* workers with the catalog in _FULL_ARM_PENDING
    lock,       \* the vend that holds duckicelake:ensure_rls
    arm,        \* where a vend is with the arming
    full,       \* vends that run the whole DDL and not a recheck
    todo,       \* what an arm classified
    interrupts

ddl == <<exists, granted, policied>>
process == <<armed, pending>>
arming == <<arm, full, todo>>
rls == <<ddl, process, lock, arming, interrupts>>

RlsInit ==
    /\ exists = Early
    /\ granted = {}
    /\ policied = {}
    /\ armed = [w \in Workers |-> "never"]
    /\ pending = {}
    /\ lock = None
    /\ arm = [k \in Calls |-> "idle"]
    /\ full = {}
    /\ todo = [k \in Calls |-> {}]
    /\ interrupts = 0

ArmAt(k, l) == arm[k] = l
ArmTo(k, l) == arm' = [arm EXCEPT ![k] = l]
Mark(w, l) == armed' = [armed EXCEPT ![w] = l]

\* A table that no arm knew of.
Appear ==
    /\ \E t \in Late \ exists : exists' = exists \cup {t}
    /\ UNCHANGED <<granted, policied, process, lock, arming, interrupts>>

\* RLS_RECHECK_SECONDS pass.
FallDue(w) ==
    /\ armed[w] = "fresh" /\ Mark(w, "due")
    /\ UNCHANGED <<ddl, pending, lock, arming, interrupts>>

----------------------------------------------------------------------------
(***************************************************************************)
(* ensure_rls_cached.                                                      *)
(***************************************************************************)

\* Mistaken: a first arm is noted when it begins.
CheckEagerly(k) ==
    /\ ArmAt(k, "idle")
    /\ LET w == WorkerOf[k] IN
       /\ Mark(w, "fresh")
       /\ full' = IF armed[w] = "never" \/ w \in pending THEN full \cup {k} ELSE full
       /\ ArmTo(k, CASE armed[w] = "fresh" -> "ready"
                     [] armed[w] = "never" \/ (armed[w] = "due" /\ w \in pending) -> "lock"
                     [] OTHER -> "gap")
    /\ UNCHANGED <<ddl, pending, lock, todo, interrupts>>

\* Mistaken: an arm that was put off is taken for a recheck.
CheckForgetfully(k) ==
    /\ ArmAt(k, "idle")
    /\ LET w == WorkerOf[k] IN
       \/ /\ armed[w] = "fresh"
          /\ ArmTo(k, "ready") /\ UNCHANGED <<armed, full>>
       \/ /\ armed[w] = "due"
          /\ Mark(w, "fresh") /\ ArmTo(k, "gap") /\ UNCHANGED full
       \/ /\ armed[w] = "never"
          /\ ArmTo(k, "lock") /\ full' = full \cup {k} /\ UNCHANGED armed
    /\ UNCHANGED <<ddl, pending, lock, todo, interrupts>>

\* A recheck is noted when it begins, a first arm when it has succeeded.
Check(k) ==
    /\ ArmAt(k, "idle")
    /\ LET w == WorkerOf[k] IN
       \/ /\ armed[w] = "fresh"
          /\ ArmTo(k, "ready") /\ UNCHANGED <<armed, full>>
       \/ /\ armed[w] = "due" /\ w \notin pending
          /\ Mark(w, "fresh") /\ ArmTo(k, "gap") /\ UNCHANGED full
       \/ /\ armed[w] = "due" /\ w \in pending
          /\ Mark(w, "fresh") /\ ArmTo(k, "lock") /\ full' = full \cup {k}
       \/ /\ armed[w] = "never"
          /\ ArmTo(k, "lock") /\ full' = full \cup {k} /\ UNCHANGED armed
    /\ UNCHANGED <<ddl, pending, lock, todo, interrupts>>

\* _coverage_gap: a table that is not granted is all it looks for.
Covered == exists \subseteq granted

\* rearm_rls_if_needed
Recheck(k) ==
    /\ ArmAt(k, "gap")
    /\ ArmTo(k, IF Covered THEN "ready" ELSE "lock")
    /\ UNCHANGED <<ddl, process, lock, full, todo, interrupts>>

----------------------------------------------------------------------------
(***************************************************************************)
(* ensure_rls.                                                             *)
(***************************************************************************)

\* The lock, and the classification of the tables that are there.
Lock(k) ==
    /\ ArmAt(k, "lock") /\ lock = None
    /\ lock' = k
    /\ todo' = [todo EXCEPT ![k] = exists]
    /\ ArmTo(k, "arming")
    /\ UNCHANGED <<ddl, process, full, interrupts>>

\* Every grant is made before the first policy.
Grant(k) ==
    /\ ArmAt(k, "arming")
    /\ \E t \in todo[k] \ granted : granted' = granted \cup {t}
    /\ UNCHANGED <<exists, policied, process, lock, arming, interrupts>>

\* Until the policy is there again an enabled table shows a reader nothing.
Police(k) ==
    /\ ArmAt(k, "arming") /\ todo[k] \subseteq granted
    /\ \E t \in todo[k] \ policied : policied' = policied \cup {t}
    /\ UNCHANGED <<exists, granted, process, lock, arming, interrupts>>

LeaveArm(k) == todo' = [todo EXCEPT ![k] = {}] /\ full' = full \ {k}

Armed(k) ==
    /\ ArmAt(k, "arming") /\ todo[k] \subseteq granted \cap policied
    /\ lock' = None
    /\ IF k \in full THEN Mark(WorkerOf[k], "fresh") /\ pending' = pending \ {WorkerOf[k]}
                     ELSE UNCHANGED process
    /\ ArmTo(k, "ready") /\ LeaveArm(k)
    /\ UNCHANGED <<ddl, interrupts>>

\* Mistaken: the pooled session keeps the lock.
InterruptHolding(k) ==
    /\ arm[k] \in {"lock", "arming"}
    /\ interrupts < MaxInterrupts
    /\ interrupts' = interrupts + 1
    /\ ArmTo(k, IF k \in full THEN "failed" ELSE "ready")
    /\ LeaveArm(k)
    /\ UNCHANGED <<ddl, process, lock>>

\* The DDL waits too long for a lock, of a table or of another arm, or fails.
\* A recheck goes on all the same, and so does a full arm that waited in vain,
\* if rls_fully_armed; the others answer 503.
Interrupt(k) ==
    /\ arm[k] \in {"lock", "arming"}
    /\ interrupts < MaxInterrupts
    /\ interrupts' = interrupts + 1
    /\ lock' = IF lock = k THEN None ELSE lock
    /\ LET w == WorkerOf[k] IN
       \/ /\ k \notin full
          /\ ArmTo(k, "ready") /\ UNCHANGED process
       \/ /\ k \in full /\ Covered
          /\ Mark(w, "fresh") /\ pending' = pending \cup {w}
          /\ ArmTo(k, "ready")
       \/ /\ k \in full
          /\ ArmTo(k, "failed") /\ UNCHANGED process
    /\ LeaveArm(k)
    /\ UNCHANGED ddl

Arming(k) ==
    \/ Check(k) \/ Recheck(k) \/ Lock(k) \/ Grant(k) \/ Police(k) \/ Armed(k) \/ Interrupt(k)

\* A process dies, and its sessions with it.
Die(w) ==
    /\ Mark(w, "never") /\ pending' = pending \ {w}
    /\ LET mine == { k \in Calls : WorkerOf[k] = w } IN
       /\ lock' = IF lock \in mine THEN None ELSE lock
       /\ arm' = [k \in Calls |-> IF k \in mine /\ arm[k] \notin {"idle", "answered"}
                                 THEN "failed" ELSE arm[k]]
       /\ full' = full \ mine
       /\ todo' = [k \in Calls |-> IF k \in mine THEN {} ELSE todo[k]]
    /\ UNCHANGED ddl

----------------------------------------------------------------------------
RlsTypeOK ==
    /\ policied \subseteq granted /\ granted \subseteq exists /\ exists \subseteq Early \cup Late
    /\ armed \in [Workers -> {"never", "fresh", "due"}]
    /\ pending \subseteq { w \in Workers : armed[w] # "never" }
    /\ \A k \in Calls : lock = k <=> ArmAt(k, "arming")
    /\ full \subseteq { k \in Calls : arm[k] \in {"lock", "arming"} }
    /\ todo \in [Calls -> SUBSET exists]
    /\ interrupts \in 0 .. MaxInterrupts

\* A vend goes on to hand out a reader's role only when row security is in
\* place on every table the catalog began with, whichever process armed it and
\* however arms are interleaved, cut short or lost; a process that has put its
\* own arm off is the exception (pg_rls.py:301-339).
ReadersArePoliced ==
    \A k \in Calls :
        ArmAt(k, "ready") /\ WorkerOf[k] \notin pending => Early \subseteq granted \cap policied
=============================================================================
