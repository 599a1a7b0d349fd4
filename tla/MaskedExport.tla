---------------------------- MODULE MaskedExport ----------------------------
(***************************************************************************)
(* The masked Parquet exports of one table (masked_export.py): requests    *)
(* that are vended one (server.load_table, server.ducklake_credentials),   *)
(* the listener's refresh of the known ones, and the collections that      *)
(* policy and schema changes start.                                        *)
(*                                                                         *)
(* An export is a directory of its own on S3.  It is published by the      *)
(* sidecar row of its mask signature; exporters of one signature take      *)
(* turns by a Postgres advisory lock, collections take no lock.            *)
(***************************************************************************)
EXTENDS Integers, FiniteSets

CONSTANTS
    Sigs,         \* mask signatures: one policy on the columns of one schema
    Requests,     \* reads by masked principals
    Refreshes,    \* refresh_known_sigs, one per notified snapshot
    Collections,  \* policy detachments and schema changes
    Parts,        \* Parquet parts of an export
    RetainDirs,   \* DUCKICELAKE_MASKED_RETAIN_SNAP_DIRS
    MaxSnapshot,  \* bound: snapshots of the table
    MaxFaults,    \* bound: exceptions, crashes and broken sessions
    None,         \* NULL
    Nobody        \* holds a lock that is free

Jobs == Requests \cup Refreshes \cup Collections
Exporters == Requests \cup Refreshes

\* snap-{N}-{tok}/ under the prefix of a signature; a job makes at most one
\* for each.
Dir == [sig : Sigs, snap : 1 .. MaxSnapshot, by : Jobs \cup {Nobody}]

ASSUME ConstantsAssumption ==
    /\ Requests \cap Refreshes = {}
    /\ Exporters \cap Collections = {}
    /\ Nobody \notin Jobs
    /\ None \notin Sigs \cup Dir
    /\ RetainDirs \in Nat /\ MaxSnapshot \in Nat \ {0} /\ MaxFaults \in Nat
    /\ IsFiniteSet(Jobs) /\ IsFiniteSet(Sigs) /\ IsFiniteSet(Parts)

VARIABLES
    head,       \* the table's current snapshot
    shape,      \* the signature of the columns as they are
    row,        \* current_prefix in duckicelake_masked_export, by signature
    objects,    \* S3: <<directory, part>>
    young,      \* directories within retain_grace_seconds
    lock,       \* the advisory lock of each signature
    pc,         \* where each job is
    job,        \* what each job has read and written
    faults,     \* faults so far
    lost,       \* history: has an exporter lost its lock?
    collected   \* history: objects that collections have deleted

world == <<head, shape, row, objects, young, lock>>
history == <<faults, lost, collected>>
vars == <<world, pc, job, history>>

Maybe == Dir \cup {None}
Files(d) == { <<d, p>> : p \in Parts }

Job == [sig    : Sigs \cup {None},     \* its plan's, or that of the columns it has read
        snap   : 0 .. MaxSnapshot,     \* the snapshot it is to export
        dir    : Maybe,                \* the directory it writes, or is vended
        parts  : SUBSET Parts,         \* the parts it has written, or is vended
        todo   : SUBSET Sigs,          \* signatures it still has to go through
        victim : Sigs \cup {None},     \* the signature it is dropping
        listed : SUBSET (Dir \X Parts)]  \* objects it has listed to delete

Blank == [sig |-> None, snap |-> 0, dir |-> None, parts |-> {}, todo |-> {},
          victim |-> None, listed |-> {}]

\* No export yet, or one that is as old as it may be.
Init ==
    /\ head = 1
    /\ shape \in Sigs
    /\ LET first == [sig |-> shape, snap |-> 1, by |-> Nobody]
       IN  \/ /\ row = [s \in Sigs |-> IF s = shape THEN first ELSE None]
              /\ objects = Files(first)
           \/ /\ row = [s \in Sigs |-> None]
              /\ objects = {}
    /\ young = {}
    /\ lock = [s \in Sigs |-> Nobody]
    /\ pc = [j \in Jobs |-> IF j \in Requests THEN "plan"
                            ELSE IF j \in Refreshes THEN "scan" ELSE "change"]
    /\ job = [j \in Jobs |-> Blank]
    /\ faults = 0 /\ lost = FALSE /\ collected = {}

At(j, l) == pc[j] = l
Goto(j, l) == pc' = [pc EXCEPT ![j] = l]
Known == { s \in Sigs : row[s] # None }
RowOf(j) == row[job[j].sig]

\* ensure_export_for_plan ends with an export, or with None: a request then
\* looks for any pointer, a refresh goes on to its next signature.
Leave(j, l, b) ==
    IF j \in Requests
    THEN Goto(j, l) /\ job' = [job EXCEPT ![j] = b]
    ELSE Goto(j, "next") /\ job' = [job EXCEPT ![j] = [Blank EXCEPT !.sig = job[j].sig,
                                                                    !.todo = job[j].todo]]
Return(j, d) == Leave(j, "vend", [Blank EXCEPT !.dir = d])
Fails(j) == Leave(j, "fallback", [Blank EXCEPT !.sig = job[j].sig])

----------------------------------------------------------------------------
(***************************************************************************)
(* ensure_export_for_plan.                                                 *)
(***************************************************************************)

Plan(r) ==
    /\ At(r, "plan")
    /\ job' = [job EXCEPT ![r].sig = shape]
    /\ Goto(r, "snapshot")
    /\ UNCHANGED <<world, history>>

ReadSnapshot(j) ==
    /\ At(j, "snapshot")
    /\ job' = [job EXCEPT ![j].snap = head]
    /\ Goto(j, "pointer")
    /\ UNCHANGED <<world, history>>

\* current_export: is there one of the snapshot the job has read?
Current(j) == RowOf(j) # None /\ RowOf(j).snap = job[j].snap

ReadPointer(j) ==
    /\ At(j, "pointer")
    /\ IF Current(j)
       THEN Return(j, RowOf(j))
       ELSE Goto(j, "try") /\ UNCHANGED job
    /\ UNCHANGED <<world, history>>

\* A faulty one would not exclude anybody.
Seize(j) == lock' = [lock EXCEPT ![job[j].sig] = j]
Acquire(j) == lock[job[j].sig] = Nobody /\ Seize(j)

\* pg_try_advisory_lock.
TryLock(j) ==
    /\ At(j, "try")
    /\ \/ Acquire(j) /\ Goto(j, "check")
       \/ lock[job[j].sig] # Nobody /\ Goto(j, "busy") /\ UNCHANGED lock
    /\ UNCHANGED <<head, shape, row, objects, young, job, history>>

\* Someone else is exporting: serve whatever pointer exists.
ReadBusy(j) ==
    /\ At(j, "busy")
    /\ IF RowOf(j) # None
       THEN Return(j, RowOf(j))
       ELSE Goto(j, "wait") /\ UNCHANGED job
    /\ UNCHANGED <<world, history>>

\* _wait_for_lock, with its timeout.
WaitForLock(j) ==
    /\ At(j, "wait")
    /\ \/ Acquire(j) /\ Goto(j, "check") /\ UNCHANGED job
       \/ lock[job[j].sig] # Nobody /\ Fails(j) /\ UNCHANGED lock
    /\ UNCHANGED <<head, shape, row, objects, young, history>>

\* The finally clause.  A faulty one would forget it.
NoRelease(j) == UNCHANGED lock
Release(j) == lock' = [s \in Sigs |-> IF lock[s] = j THEN Nobody ELSE lock[s]]
Holds(j) == lock[job[j].sig] = j

NewDir(j) == [sig |-> job[j].sig, snap |-> job[j].snap, by |-> j]

\* The re-check under the lock, or a directory of its own.  The unlock raises
\* when the session is gone.
Recheck(j) ==
    /\ At(j, "check")
    /\ IF Current(j)
       THEN Release(j) /\ (IF Holds(j) THEN Return(j, RowOf(j)) ELSE Fails(j))
       ELSE /\ job' = [job EXCEPT ![j].dir = NewDir(j), ![j].parts = {}]
            /\ Goto(j, "copy")
            /\ UNCHANGED lock
    /\ UNCHANGED <<head, shape, row, objects, young, history>>

\* COPY (SELECT ... AT (VERSION => snap)), part by part.
Copy(j) ==
    /\ At(j, "copy")
    /\ \E p \in Parts \ job[j].parts :
         /\ job' = [job EXCEPT ![j].parts = @ \cup {p}]
         /\ objects' = objects \cup {<<job[j].dir, p>>}
    /\ young' = young \cup {job[j].dir}
    /\ UNCHANGED <<head, shape, row, lock, pc, history>>

\* COPY has returned, and the pointer moves.
Publish(j) ==
    /\ At(j, "copy")
    /\ job[j].parts = Parts
    /\ row' = [row EXCEPT ![job[j].sig] = job[j].dir]
    /\ Goto(j, "list")
    /\ UNCHANGED <<head, shape, objects, young, lock, job, history>>

\* _retain keeps the newest by number, the live one and the young ones.  A
\* faulty one would count only.
DirsOf(s) == { d \in { o[1] : o \in objects } : d.sig = s }
Newest(D) ==
    { N \in SUBSET D :
        /\ Cardinality(N) = IF Cardinality(D) < RetainDirs THEN Cardinality(D) ELSE RetainDirs
        /\ \A d \in N, e \in D \ N : d.snap >= e.snap }
NewestOnly(N, d) == N
Kept(N, d) == N \cup {d} \cup young

List(j) ==
    /\ At(j, "list")
    /\ \E N \in Newest(DirsOf(job[j].sig)) :
         LET stale == DirsOf(job[j].sig) \ Kept(N, job[j].dir)
         IN  job' = [job EXCEPT ![j].listed = { o \in objects : o[1] \in stale }]
    /\ Goto(j, "sweep")
    /\ UNCHANGED <<world, history>>

\* _delete_keys: S3 deletes the keys of a batch one by one.
Delete(j, o) ==
    /\ o \in job[j].listed
    /\ objects' = objects \ {o}
    /\ job' = [job EXCEPT ![j].listed = @ \ {o}]

Sweep(j) ==
    /\ At(j, "sweep")
    /\ \E o \in job[j].listed : Delete(j, o)
    /\ UNCHANGED <<head, shape, row, young, lock, pc, history>>

\* The sweep is done, or has failed, which it only logs.
Unlock(j) ==
    /\ At(j, "sweep")
    /\ Release(j)
    /\ IF Holds(j) THEN Return(j, job[j].dir) ELSE Fails(j)
    /\ UNCHANGED <<head, shape, row, objects, young, history>>

----------------------------------------------------------------------------
(***************************************************************************)
(* The request with what it was given.                                     *)
(***************************************************************************)

Ends(j) == Goto(j, "over") /\ job' = [job EXCEPT ![j] = Blank]

\* `or current_export(...)`, or the read is denied.
Fallback(r) ==
    /\ At(r, "fallback")
    /\ IF RowOf(r) = None THEN Ends(r) ELSE Return(r, RowOf(r))
    /\ UNCHANGED <<world, history>>

\* list_export_files.
Vend(r) ==
    /\ At(r, "vend")
    /\ job' = [job EXCEPT ![r].parts = { p \in Parts : <<job[r].dir, p>> \in objects }]
    /\ Goto(r, "vended")
    /\ UNCHANGED <<world, history>>

\* Its credentials expire.
Expire(r) ==
    /\ At(r, "vended")
    /\ Ends(r)
    /\ UNCHANGED <<world, history>>

----------------------------------------------------------------------------
(***************************************************************************)
(* refresh_known_sigs and gc_table.                                        *)
(***************************************************************************)

\* A policy is detached, or a schema change commits; then gc_table.
Change(c) ==
    /\ At(c, "change")
    /\ \/ UNCHANGED <<head, shape>>
       \/ /\ head < MaxSnapshot
          /\ head' = head + 1
          /\ shape' \in Sigs \ {shape}
    /\ Goto(c, "scan")
    /\ UNCHANGED <<row, objects, young, lock, job, history>>

\* The signatures on record; a refresh leaves out those idle for too long.
Scan(j) ==
    /\ At(j, "scan")
    /\ \E S \in SUBSET Known :
         /\ j \in Collections => S = Known
         /\ job' = [job EXCEPT ![j].todo = S]
    /\ Goto(j, IF j \in Refreshes THEN "columns" ELSE "next")
    /\ UNCHANGED <<world, history>>

ReadColumns(f) ==
    /\ At(f, "columns")
    /\ job' = [job EXCEPT ![f].sig = shape]
    /\ Goto(f, "next")
    /\ UNCHANGED <<world, history>>

\* A refresh exports the signature that its columns still give.
Refresh(f) ==
    /\ At(f, "next")
    /\ job[f].sig \in job[f].todo
    /\ job' = [job EXCEPT ![f].todo = @ \ {job[f].sig}]
    /\ Goto(f, "snapshot")
    /\ UNCHANGED <<world, history>>

\* Any other is dropped; gc_table of a refresh looks for its row again.
Drop(j) ==
    /\ At(j, "next")
    /\ \E s \in job[j].todo \ {job[j].sig} :
         LET left == [job[j] EXCEPT !.todo = @ \ {s}]
         IN  IF j \in Refreshes /\ row[s] = None
             THEN job' = [job EXCEPT ![j] = left] /\ UNCHANGED pc
             ELSE job' = [job EXCEPT ![j] = [left EXCEPT !.victim = s]] /\ Goto(j, "find")
    /\ UNCHANGED <<world, history>>

\* _delete_prefix lists everything of the signature.
Find(j) ==
    /\ At(j, "find")
    /\ job' = [job EXCEPT ![j].listed = { o \in objects : o[1].sig = job[j].victim }]
    /\ Goto(j, "clear")
    /\ UNCHANGED <<world, history>>

NoneLeft(j) ==
    /\ At(j, "next") /\ job[j].todo = {}
    /\ Ends(j)
    /\ UNCHANGED <<world, history>>

Clear(j) ==
    /\ At(j, "clear")
    /\ \E o \in job[j].listed :
         /\ Delete(j, o)
         /\ collected' = collected \cup ({o} \cap objects)
    /\ UNCHANGED <<head, shape, row, young, lock, pc, faults, lost>>

DeleteRow(j) ==
    /\ At(j, "clear") /\ job[j].listed = {}
    /\ row' = [row EXCEPT ![job[j].victim] = None]
    /\ job' = [job EXCEPT ![j].victim = None]
    /\ Goto(j, "next")
    /\ UNCHANGED <<head, shape, objects, young, lock, history>>

----------------------------------------------------------------------------
(***************************************************************************)
(* Other commits, time and faults.                                         *)
(***************************************************************************)

Commit ==
    /\ head < MaxSnapshot
    /\ head' = head + 1
    /\ UNCHANGED <<shape, row, objects, young, lock, pc, job, history>>

\* No attempt takes as long as the grace: what has been written since it began
\* is young, and what was there before may as well have aged before.
Attempting(j) == pc[j] \in {"check", "copy", "list", "sweep"}

Age(d) ==
    /\ d \in young
    /\ \A j \in Exporters : ~ Attempting(j)
    /\ young' = young \ {d}
    /\ UNCHANGED <<head, shape, row, objects, lock, pc, job, history>>

Fault == faults < MaxFaults /\ faults' = faults + 1 /\ UNCHANGED collected

\* An exception that ensure_export_for_plan catches: the lock is released and
\* what has been written stays.
ExportFails(j) ==
    /\ pc[j] \in {"snapshot", "pointer", "try", "busy", "wait", "check", "copy"}
    /\ Fault /\ UNCHANGED lost
    /\ Release(j)
    /\ Fails(j)
    /\ UNCHANGED <<head, shape, row, objects, young>>

\* gc_table catches what fails for one signature and goes on to the next.
ClearFails(j) ==
    /\ pc[j] \in {"find", "clear"}
    /\ Fault /\ UNCHANGED lost
    /\ job' = [job EXCEPT ![j].listed = {}, ![j].victim = None]
    /\ Goto(j, "next")
    /\ UNCHANGED world

\* The process of a job dies, and its sessions with it; or, outside _export, an
\* exception ends a refresh or a collection.
Crash(j) ==
    /\ pc[j] \notin {"vended", "over"}
    /\ Fault /\ UNCHANGED lost
    /\ Release(j)
    /\ Ends(j)
    /\ UNCHANGED <<head, shape, row, objects, young>>

\* The session that holds a lock breaks while its job goes on.
LoseLock(s) ==
    /\ lock[s] # Nobody
    /\ Fault /\ lost' = TRUE
    /\ lock' = [lock EXCEPT ![s] = Nobody]
    /\ UNCHANGED <<head, shape, row, objects, young, pc, job>>

Done ==
    /\ \A j \in Jobs : pc[j] = "over"
    /\ UNCHANGED vars

Next ==
    \/ \E r \in Requests : Plan(r) \/ Fallback(r) \/ Vend(r) \/ Expire(r)
    \/ \E j \in Exporters :
         \/ ReadSnapshot(j) \/ ReadPointer(j) \/ TryLock(j) \/ ReadBusy(j) \/ WaitForLock(j)
         \/ Recheck(j) \/ Copy(j) \/ Publish(j) \/ List(j) \/ Sweep(j) \/ Unlock(j)
         \/ ExportFails(j)
    \/ \E c \in Collections : Change(c)
    \/ \E f \in Refreshes : ReadColumns(f) \/ Refresh(f)
    \/ \E j \in Refreshes \cup Collections :
         Scan(j) \/ Drop(j) \/ Find(j) \/ NoneLeft(j) \/ Clear(j) \/ DeleteRow(j) \/ ClearFails(j)
    \/ \E j \in Jobs : Crash(j)
    \/ Commit \/ (\E d \in young : Age(d)) \/ (\E s \in Sigs : LoseLock(s))
    \/ Done

Spec == Init /\ [][Next]_vars
----------------------------------------------------------------------------
\* The variables have their types, and a lock is held only by a job that is
\* exporting that signature: every way out of _export gives it back
\* (masked_export.py:307).
TypeOK ==
    /\ head \in 1 .. MaxSnapshot
    /\ shape \in Sigs
    /\ row \in [Sigs -> Maybe]
    /\ objects \in SUBSET (Dir \X Parts)
    /\ young \in SUBSET Dir
    /\ lock \in [Sigs -> Exporters \cup {Nobody}]
    /\ pc \in [Jobs -> {"plan", "snapshot", "pointer", "try", "busy", "wait", "check", "copy",
                        "list", "sweep", "fallback", "vend", "vended", "change", "scan",
                        "columns", "next", "find", "clear", "over"}]
    /\ job \in [Jobs -> Job]
    /\ faults \in 0 .. MaxFaults
    /\ lost \in BOOLEAN
    /\ collected \in SUBSET (Dir \X Parts)
    /\ \A s \in Sigs : lock[s] # Nobody => Attempting(lock[s]) /\ job[lock[s]].sig = s

\* What a read is vended is all there, and stays for as long as it is the
\* current export or young: the fallbacks and the pointer that is served while
\* somebody else exports give nobody half a table.
VendedIsWhole ==
    \A r \in Requests :
        LET d == job[r].dir
        IN  pc[r] = "vended" /\ (row[d.sig] = d \/ d \in young) =>
                \A p \in Parts :
                    \/ <<d, p>> \in collected
                    \/ p \in job[r].parts /\ <<d, p>> \in objects

\* While locks hold, an export is only replaced by one of another snapshot:
\* whoever has waited for an export of the same snapshot uses it.
ReplacedByAnother ==
    [][ \A s \in Sigs :
          row[s] # None /\ row'[s] \notin {None, row[s]} /\ ~ lost
            => row'[s].snap # row[s].snap ]_vars

=============================================================================
