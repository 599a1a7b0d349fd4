--------------------------- MODULE NotifyListener ---------------------------
(***************************************************************************)
(* The eager materialisation of DuckLake commits (notify.py).              *)
(*                                                                         *)
(* Every worker process runs a listener; the one whose Postgres session    *)
(* holds the advisory lock scans the log for snapshots that are not done,  *)
(* works them off, and only then LISTENs for the NOTIFY that each commit   *)
(* sends.  Notified snapshots run as tasks of their own and outlive the    *)
(* session.  Sessions break and processes die.                             *)
(***************************************************************************)
EXTENDS Integers, FiniteSets

CONSTANTS
    Workers,      \* proxy processes
    NoWorker,     \* nobody holds the advisory lock
    Tables,
    TouchSets,    \* bound: the sets of tables whose data files a commit changes
    MaxSnapshot,  \* bound: commits
    MaxFaults     \* bound: failures, broken sessions and crashes

ASSUME ConstantsAssumption ==
    /\ NoWorker \notin Workers
    /\ TouchSets \subseteq SUBSET Tables
    /\ MaxSnapshot \in Nat
    /\ MaxFaults \in Nat

VARIABLES
    head,       \* the newest snapshot of the catalog, 0 at first
    touched,    \* snapshot -> tables whose data files it added or ended
    log,        \* snapshot -> status of its row, "none" without one
    published,  \* table -> the newest snapshot a document of it has shown
    lock,       \* whose session holds the advisory lock
    pc,         \* where each listener is
    pending,    \* what its catch-up scan has found and not yet begun
    queue,      \* snapshots notified to its session and not yet taken up
    tasks,      \* runs of _materialise_snapshot
    faults,
    lapsed      \* history: missed or given up since the elected one's scan

worker == <<lock, pc, pending, queue>>
vars == <<head, touched, log, published, worker, tasks, faults, lapsed>>

Snapshots == 1 .. MaxSnapshot
Committed == 1 .. head
Task == [by : Workers, snap : Snapshots, scan : BOOLEAN, left : SUBSET Tables, ok : BOOLEAN]

Init ==
    /\ head = 0
    /\ touched = [s \in Snapshots |-> {}]
    /\ log = [s \in Snapshots |-> "none"]
    /\ published = [t \in Tables |-> 0]
    /\ lock = NoWorker
    /\ pc = [w \in Workers |-> "elect"]
    /\ pending = [w \in Workers |-> {}]
    /\ queue = [w \in Workers |-> {}]
    /\ tasks = {}
    /\ faults = 0
    /\ lapsed = {}

----------------------------------------------------------------------------
\* The elected listener has scanned the log and relies on what it found.
Relying == lock # NoWorker /\ pc[lock] \in {"catchup", "listen", "listening"}

Lapse(S) == lapsed' = IF Relying THEN lapsed \cup S ELSE lapsed

\* A commit, by anyone, and the NOTIFY its trigger sends to sessions that
\* LISTEN.  T is empty for changes of the schema and of delete files only.
Commit(T) ==
    /\ head < MaxSnapshot
    /\ head' = head + 1
    /\ touched' = [touched EXCEPT ![head + 1] = T]
    /\ IF lock # NoWorker /\ pc[lock] = "listening"
       THEN /\ queue' = [queue EXCEPT ![lock] = @ \cup {head + 1}]
            /\ UNCHANGED lapsed
       ELSE /\ Lapse({head + 1})
            /\ UNCHANGED queue
    /\ UNCHANGED <<log, published, lock, pc, pending, tasks, faults>>

\* pg_try_advisory_lock, on a connection of its own.
Elect(w) ==
    /\ pc[w] = "elect"
    /\ lock = NoWorker
    /\ lock' = w
    /\ pc' = [pc EXCEPT ![w] = "scan"]
    /\ UNCHANGED <<head, touched, log, published, pending, queue, tasks, faults, lapsed>>

\* Electing raises: nothing catches it, and the process has no listener any
\* more until it is started again.
ElectFails(w) ==
    /\ pc[w] = "elect"
    /\ faults < MaxFaults
    /\ faults' = faults + 1
    /\ pc' = [pc EXCEPT ![w] = "dead"]
    /\ UNCHANGED <<head, touched, log, published, lock, pending, queue, tasks, lapsed>>

\* pending_materialisations.  A faulty one would take any row for done.
Unlogged == { s \in Committed : log[s] = "none" }
NotDone == { s \in Committed : log[s] # "done" }

Scan(w) ==
    /\ pc[w] = "scan"
    /\ pending' = [pending EXCEPT ![w] = NotDone]
    /\ pc' = [pc EXCEPT ![w] = "catchup"]
    /\ lapsed' = IF lock = w THEN {} ELSE lapsed
    /\ UNCHANGED <<head, touched, log, published, lock, queue, tasks, faults>>

\* tables_touched_by_snapshot, at the beginning of a run.
Begin(w, s, scanned) ==
    tasks' = tasks \cup {[by |-> w, snap |-> s, scan |-> scanned,
                          left |-> touched[s], ok |-> TRUE]}

CatchingUp(w) == \E k \in tasks : k.by = w /\ k.scan

\* _catchup: one snapshot after another, in order.
NextPending(w, s) ==
    /\ pc[w] = "catchup"
    /\ ~ CatchingUp(w)
    /\ s \in pending[w]
    /\ \A r \in pending[w] : s <= r
    /\ pending' = [pending EXCEPT ![w] = @ \ {s}]
    /\ Begin(w, s, TRUE)
    /\ UNCHANGED <<head, touched, log, published, lock, pc, queue, faults, lapsed>>

CaughtUp(w) ==
    /\ pc[w] = "catchup"
    /\ ~ CatchingUp(w)
    /\ pending[w] = {}
    /\ pc' = [pc EXCEPT ![w] = "listen"]
    /\ UNCHANGED <<head, touched, log, published, lock, pending, queue, tasks, faults, lapsed>>

\* LISTEN on the session that was elected, if that is still there.
Listen(w) ==
    /\ pc[w] = "listen"
    /\ pc' = [pc EXCEPT ![w] = IF lock = w THEN "listening" ELSE "elect"]
    /\ UNCHANGED <<head, touched, log, published, lock, pending, queue, tasks, faults, lapsed>>

\* conn.notifies(): one task per notification, not waited for.  A faulty one
\* would take up the newest only and drop the others.
NewestOnly(S, s) == {}
Others(S, s) == S \ {s}

Dispatch(w, s) ==
    /\ pc[w] = "listening"
    /\ s \in queue[w]
    /\ \A r \in queue[w] : s >= r
    /\ queue' = [queue EXCEPT ![w] = Others(@, s)]
    /\ Begin(w, s, FALSE)
    /\ UNCHANGED <<head, touched, log, published, lock, pc, pending, faults, lapsed>>

\* The loop finds its session broken, and runs for election again.
Notice(w) ==
    /\ pc[w] = "listening"
    /\ lock # w
    /\ pc' = [pc EXCEPT ![w] = "elect"]
    /\ UNCHANGED <<head, touched, log, published, lock, pending, queue, tasks, faults, lapsed>>

----------------------------------------------------------------------------
Replace(k, l) == tasks' = (tasks \ {k}) \cup {l}

\* materialise_table publishes the table as it was when it listed its
\* snapshots; another run may have published a later one meanwhile.
Materialise(k, t) ==
    /\ t \in k.left
    /\ \E listed \in k.snap .. head :
         published' = [published EXCEPT ![t] = IF @ < listed THEN listed ELSE @]
    /\ Replace(k, [k EXCEPT !.left = @ \ {t}])
    /\ UNCHANGED <<head, touched, log, worker, faults, lapsed>>

\* One table failing does not keep the others from being materialised.
MaterialiseFails(k, t) ==
    /\ t \in k.left
    /\ faults < MaxFaults
    /\ faults' = faults + 1
    /\ Replace(k, [k EXCEPT !.left = @ \ {t}, !.ok = FALSE])
    /\ UNCHANGED <<head, touched, log, published, worker, lapsed>>

\* The row says done only if every table was.  A faulty run would not look,
\* or write a status that the log does not know.
DoneAnyway(k) == "done"
UnknownStatus(k) == IF k.ok THEN "done" ELSE "error"
Status(k) == IF k.ok THEN "done" ELSE "failed"

\* record_materialisation: an upsert, whoever has written the row before.
Record(k) ==
    /\ k.left = {}
    /\ log' = [log EXCEPT ![k.snap] = Status(k)]
    /\ tasks' = tasks \ {k}
    /\ IF k.ok THEN UNCHANGED lapsed ELSE Lapse({k.snap})
    /\ UNCHANGED <<head, touched, published, worker, faults>>

\* Reading the touched tables or writing the row raises: a task ends there,
\* and so does the whole catch-up when it is one of its own.
RunFails(k) ==
    /\ faults < MaxFaults
    /\ faults' = faults + 1
    /\ tasks' = tasks \ {k}
    /\ IF k.scan
       THEN /\ Lapse({k.snap} \cup pending[k.by])
            /\ pending' = [pending EXCEPT ![k.by] = {}]
            /\ pc' = [pc EXCEPT ![k.by] = "listen"]
       ELSE /\ Lapse({k.snap})
            /\ UNCHANGED <<pending, pc>>
    /\ UNCHANGED <<head, touched, log, published, lock, queue>>

ScanFails(w) ==
    /\ pc[w] = "scan"
    /\ faults < MaxFaults
    /\ faults' = faults + 1
    /\ pc' = [pc EXCEPT ![w] = "listen"]
    /\ lapsed' = IF lock = w THEN NotDone ELSE lapsed
    /\ UNCHANGED <<head, touched, log, published, lock, pending, queue, tasks>>

\* Postgres ends the session: the lock is free and what it had been notified
\* of is lost, before the worker notices.
SessionBreaks ==
    /\ faults < MaxFaults
    /\ lock # NoWorker
    /\ faults' = faults + 1
    /\ queue' = [queue EXCEPT ![lock] = {}]
    /\ lock' = NoWorker
    /\ UNCHANGED <<head, touched, log, published, pc, pending, tasks, lapsed>>

\* The process dies and is started again.
Crash(w) ==
    /\ faults < MaxFaults
    /\ faults' = faults + 1
    /\ lock' = IF lock = w THEN NoWorker ELSE lock
    /\ pc' = [pc EXCEPT ![w] = "elect"]
    /\ pending' = [pending EXCEPT ![w] = {}]
    /\ queue' = [queue EXCEPT ![w] = {}]
    /\ tasks' = { k \in tasks : k.by # w }
    /\ UNCHANGED <<head, touched, log, published, lapsed>>

----------------------------------------------------------------------------
Serve(w) ==
    \/ Elect(w) \/ Scan(w) \/ (\E s \in Snapshots : NextPending(w, s)) \/ CaughtUp(w)
    \/ Listen(w) \/ (\E s \in Snapshots : Dispatch(w, s)) \/ Notice(w)

Proceed(k) == (\E t \in Tables : Materialise(k, t)) \/ Record(k)

Fault ==
    \/ \E k \in tasks : (\E t \in Tables : MaterialiseFails(k, t)) \/ RunFails(k)
    \/ \E w \in Workers : ElectFails(w) \/ ScanFails(w) \/ Crash(w)
    \/ SessionBreaks

Next ==
    \/ \E T \in TouchSets : Commit(T)
    \/ \E w \in Workers : Serve(w)
    \/ \E k \in tasks : Proceed(k)
    \/ Fault

Spec == Init /\ [][Next]_vars

\* The event loop of every process runs, and so does every task it has begun.
Fairness ==
    /\ \A w \in Workers : WF_vars(Serve(w))
    /\ \A w \in Workers, s \in Snapshots, b \in BOOLEAN :
         WF_vars(\E k \in tasks : k.by = w /\ k.snap = s /\ k.scan = b /\ Proceed(k))

FairSpec == Spec /\ Fairness
----------------------------------------------------------------------------
TypeOK ==
    /\ head \in 0 .. MaxSnapshot
    /\ touched \in [Snapshots -> SUBSET Tables]
    /\ log \in [Snapshots -> {"none", "done", "failed"}]
    /\ published \in [Tables -> 0 .. MaxSnapshot]
    /\ lock \in Workers \cup {NoWorker}
    /\ pc \in [Workers -> {"elect", "scan", "catchup", "listen", "listening", "dead"}]
    /\ pending \in [Workers -> SUBSET Snapshots]
    /\ queue \in [Workers -> SUBSET Snapshots]
    /\ tasks \subseteq Task
    /\ faults \in 0 .. MaxFaults
    /\ lapsed \subseteq Snapshots

\* What the log calls done has been published: every table whose data files
\* the snapshot touched has had a document that shows it or a later one,
\* however runs of the same snapshot by several workers overlap and fail.
DoneIsPublished ==
    \A s \in Committed :
        log[s] = "done" => \A t \in touched[s] : published[t] >= s

Carried(s) ==
    \/ log[s] = "done"
    \/ \E k \in tasks : k.snap = s
    \/ lock # NoWorker /\ s \in queue[lock] \cup pending[lock]

\* While an elected listener relies on its scan, every snapshot is done, being
\* worked on, found by the scan or notified; the only others are those
\* committed between the scan and the LISTEN and those whose run has failed.
\* Nothing is lost to deposed listeners, broken sessions and restarts.
NoneForgotten ==
    Relying => \A s \in Committed : Carried(s) \/ s \in lapsed

\* Once processes and sessions stop failing, every other snapshot gets its
\* row, if any process still has a listener.
EverySnapshotIsLogged ==
    \A s \in Snapshots :
        s <= head ~> \/ log[s] # "none"
                     \/ s \in lapsed
                     \/ \A w \in Workers : pc[w] = "dead"
=============================================================================
