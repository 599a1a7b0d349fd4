----------------------------- MODULE ReaderRoles -----------------------------
(***************************************************************************)
(* The Postgres role of each DuckLake-direct session: provisioned by a     *)
(* vend once row security is armed (ReaderRls), in statements that commit  *)
(* one by one, mapped to its principal in duckicelake_pg_principal, and    *)
(* collected after its expiry by sweeps that vends start in the background.*)
(***************************************************************************)
EXTENDS ReaderRls

CONSTANT Sweepers   \* workers whose vends start sweeps

ASSUME ReaderRolesAssumption == Sweepers \subseteq Workers

VARIABLES
    role,   \* role of the last vend of a call: none, bare, login, nologin
    row,    \* calls whose role has its row in duckicelake_pg_principal
    age,    \* since it was dated: valid, overdue (nologin_grace), dead (drop_grace)
    gc,     \* the sweep of a worker: idle, drops, disables
    found,  \* roles it selected and has not come to
    gone    \* the role it has just dropped

roles == <<role, row, age>>
sweep == <<gc, found, gone>>
readerVars == <<rls, roles, sweep>>

ReadersInit ==
    /\ RlsInit
    /\ role = [k \in Calls |-> "none"]
    /\ row = {}
    /\ age = [k \in Calls |-> "valid"]
    /\ gc = [w \in Sweepers |-> "idle"]
    /\ found = [w \in Sweepers |-> {}]
    /\ gone = [w \in Sweepers |-> None]

Fault ==
    /\ interrupts < MaxInterrupts
    /\ interrupts' = interrupts + 1

----------------------------------------------------------------------------
(***************************************************************************)
(* provision_principal_role.                                               *)
(***************************************************************************)

\* CREATE ROLE: the role cannot log in yet.
Create(k) ==
    /\ ArmAt(k, "ready")
    /\ ArmTo(k, "dating")
    /\ role' = [role EXCEPT ![k] = "bare"]
    /\ UNCHANGED <<ddl, process, lock, full, todo, interrupts, row, age, sweep>>

\* ALTER ROLE ... LOGIN PASSWORD ... VALID UNTIL
Date(k) ==
    /\ ArmAt(k, "dating")
    /\ ArmTo(k, "mapping")
    /\ role' = [role EXCEPT ![k] = "login"]
    /\ UNCHANGED <<ddl, process, lock, full, todo, interrupts, row, age, sweep>>

MapToPrincipal(k) ==
    /\ ArmAt(k, "mapping")
    /\ ArmTo(k, "answered")
    /\ row' = row \cup {k}
    /\ UNCHANGED <<ddl, process, lock, full, todo, interrupts, role, age, sweep>>

\* 503; what was made stays.
ProvisionFails(k) ==
    /\ Fault
    /\ arm[k] \in {"ready", "dating", "mapping"}
    /\ ArmTo(k, "failed")
    /\ UNCHANGED <<ddl, process, lock, full, todo, roles, sweep>>

\* Another vend, with a role of its own: the one before is gone and done with,
\* or was never dated, and then it cannot log in and no sweep will find it.
Again(k) ==
    /\ arm[k] \in {"answered", "failed"}
    /\ role[k] \in {"none", "bare"} /\ k \notin row
    /\ \A w \in Sweepers : gone[w] # k /\ k \notin found[w]
    /\ ArmTo(k, "idle")
    /\ role' = [role EXCEPT ![k] = "none"]
    /\ age' = [age EXCEPT ![k] = "valid"]
    /\ UNCHANGED <<ddl, process, lock, full, todo, interrupts, row, sweep>>

Grow(k) ==
    /\ role[k] \in {"login", "nologin"}
    /\ \/ age[k] = "valid" /\ arm[k] \notin {"dating", "mapping"}
          /\ age' = [age EXCEPT ![k] = "overdue"]
       \/ age[k] = "overdue" /\ age' = [age EXCEPT ![k] = "dead"]
    /\ UNCHANGED <<rls, role, row, sweep>>

----------------------------------------------------------------------------
(***************************************************************************)
(* gc_expired_roles, in a thread that any vend of the process starts.      *)
(***************************************************************************)

Dated(k) == role[k] \in {"login", "nologin"}

SweepTo(w, l, ks) ==
    /\ gc' = [gc EXCEPT ![w] = l]
    /\ found' = [found EXCEPT ![w] = ks]

Begin(w) ==
    /\ gc[w] = "idle"
    /\ SweepTo(w, "drops", { k \in Calls : Dated(k) /\ age[k] = "dead" })
    /\ UNCHANGED <<rls, roles, gone>>

\* DROP ROLE IF EXISTS; the row is deleted by the next statement.
Drop(w) ==
    /\ gc[w] = "drops" /\ gone[w] = None
    /\ \E k \in found[w] :
          /\ role' = [role EXCEPT ![k] = "none"]
          /\ gone' = [gone EXCEPT ![w] = k]
          /\ found' = [found EXCEPT ![w] = @ \ {k}]
    /\ UNCHANGED <<rls, row, age, gc>>

DeleteRow(w) ==
    /\ gc[w] = "drops" /\ gone[w] # None
    /\ row' = row \ {gone[w]}
    /\ gone' = [gone EXCEPT ![w] = None]
    /\ UNCHANGED <<rls, role, age, gc, found>>

Overdue == { k \in Calls : role[k] = "login" /\ age[k] # "valid" }

\* Mistaken: rows whose role is gone are not looked for.
KeepOrphans(w) ==
    /\ gc[w] = "drops" /\ gone[w] = None /\ found[w] = {}
    /\ SweepTo(w, "disables", Overdue)
    /\ UNCHANGED <<rls, roles, gone>>

\* The rows whose role is gone; then the roles that may still log in are
\* selected.
DeleteOrphans(w) ==
    /\ gc[w] = "drops" /\ gone[w] = None /\ found[w] = {}
    /\ row' = { k \in row : role[k] # "none" \/ age[k] # "dead" }
    /\ SweepTo(w, "disables", Overdue)
    /\ UNCHANGED <<rls, role, age, gone>>

\* ALTER ROLE ... NOLOGIN, which fails for a role that is gone.
Disable(w) ==
    /\ gc[w] = "disables"
    /\ \E k \in found[w] :
          /\ role' = [role EXCEPT ![k] = IF @ = "login" THEN "nologin" ELSE @]
          /\ found' = [found EXCEPT ![w] = @ \ {k}]
    /\ UNCHANGED <<rls, row, age, gc, gone>>

End(w) ==
    /\ gc[w] = "disables" /\ found[w] = {}
    /\ SweepTo(w, "idle", {})
    /\ UNCHANGED <<rls, roles, gone>>

\* A statement for one role fails, and the role is passed over.
PassOver(w) ==
    /\ Fault
    /\ \/ gone[w] # None /\ UNCHANGED found
       \/ gone[w] = None /\ \E k \in found[w] : found' = [found EXCEPT ![w] = @ \ {k}]
    /\ gone' = [gone EXCEPT ![w] = None]
    /\ UNCHANGED <<ddl, process, lock, arming, roles, gc>>

----------------------------------------------------------------------------
\* A process dies, and its sweep; its successor knows of nothing.
Restart(w) ==
    /\ Fault
    /\ Die(w)
    /\ gc' = [v \in Sweepers |-> IF v = w THEN "idle" ELSE gc[v]]
    /\ found' = [v \in Sweepers |-> IF v = w THEN {} ELSE found[v]]
    /\ gone' = [v \in Sweepers |-> IF v = w THEN None ELSE gone[v]]
    /\ UNCHANGED roles

Provision(k) == Create(k) \/ Date(k) \/ MapToPrincipal(k) \/ ProvisionFails(k)
Sweep(w) == Begin(w) \/ Drop(w) \/ DeleteRow(w) \/ DeleteOrphans(w) \/ Disable(w) \/ End(w)

Vend(k) == (Arming(k) /\ UNCHANGED <<roles, sweep>>) \/ Provision(k) \/ Again(k)

ReadersNext ==
    \/ Appear /\ UNCHANGED <<roles, sweep>>
    \/ \E k \in Calls : Vend(k) \/ Grow(k)
    \/ \E w \in Workers : (FallDue(w) /\ UNCHANGED <<roles, sweep>>) \/ Restart(w)
    \/ \E w \in Sweepers : Sweep(w) \/ PassOver(w)

ReadersSpec == ReadersInit /\ [][ReadersNext]_readerVars

\* Statements answer, time passes, and vends keep coming, so that sweeps do;
\* the advisory lock is granted in turn.
ReadersFairness ==
    /\ \A k \in Calls :
          /\ WF_readerVars(Vend(k)) /\ WF_readerVars(Grow(k))
          /\ SF_readerVars(Lock(k) /\ UNCHANGED <<roles, sweep>>)
    /\ \A w \in Workers : WF_readerVars(FallDue(w) /\ UNCHANGED <<roles, sweep>>)
    /\ \A w \in Sweepers : WF_readerVars(Sweep(w))

ReadersFairSpec == ReadersSpec /\ ReadersFairness

----------------------------------------------------------------------------
(***************************************************************************)
(* Properties.                                                             *)
(***************************************************************************)

\* The shape of the state: above all, the lock of the DDL is in the hands of
\* the vend that runs it and of nobody else, so that no way out of an arm
\* leaves it in a pooled session (catalog.py:44-69).
ReadersTypeOK ==
    /\ RlsTypeOK
    /\ role \in [Calls -> {"none", "bare", "login", "nologin"}]
    /\ row \subseteq Calls
    /\ age \in [Calls -> {"valid", "overdue", "dead"}]
    /\ gc \in [Sweepers -> {"idle", "drops", "disables"}]
    /\ found \in [Sweepers -> SUBSET Calls]
    /\ \A w \in Sweepers : gone[w] # None => gc[w] = "drops" /\ role[gone[w]] = "none"

\* A process that has put its arm off makes up for it: one of its later vends
\* runs the whole DDL, once vends of other processes and broken statements no
\* longer keep it from doing so (pg_rls.py:316-335).
PutOffIsDone == \A w \in Workers : w \in pending ~> w \notin pending

\* Every role that can log in is dropped some time after its expiry, and its
\* row goes too, whatever sweep fails between the two (pg_rls.py:726-778).
RolesAreCollected ==
    \A k \in Calls : Dated(k) \/ k \in row ~> role[k] = "none" /\ k \notin row
=============================================================================
