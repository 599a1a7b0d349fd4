----------------------- MODULE NotifyListener_proofs -----------------------
(***************************************************************************)
(* Proofs about NotifyListener: types, DoneIsPublished and NoneForgotten,  *)
(* for any number of processes, tables, commits and faults.                *)
(***************************************************************************)
EXTENDS NotifyListener, TLAPS

\* A run is about a snapshot that is there, and has published what it has left
\* behind unless it failed.
RunsOK ==
    \A k \in tasks :
        /\ k.snap \in Committed
        /\ k.ok => \A t \in touched[k.snap] \ k.left : published[t] >= k.snap

\* It belongs to a catch-up only while its worker is at it, one at a time.
ScansOK ==
    \A k \in tasks : k.scan =>
        /\ pc[k.by] = "catchup"
        /\ \A l \in tasks : l.scan /\ l.by = k.by => l = k

\* Only an elected listener holds the lock.
LockOK == lock # NoWorker => pc[lock] \notin {"elect", "dead"}

FoundOK == \A w \in Workers : pending[w] \subseteq Committed /\ queue[w] \subseteq Committed

UnloggedOK == \A s \in Snapshots : s > head => log[s] = "none"

\* Carried by the elected listener itself: the runs of others may vanish with
\* their process, and then nobody remembers their snapshot.
Minded(s) ==
    \/ log[s] = "done"
    \/ \E k \in tasks : k.snap = s /\ k.by = lock
    \/ s \in queue[lock] \cup pending[lock]

NoneUnminded == Relying => \A s \in Committed : Minded(s) \/ s \in lapsed

IInv == TypeOK /\ RunsOK /\ ScansOK /\ LockOK /\ FoundOK /\ UnloggedOK
        /\ DoneIsPublished /\ NoneUnminded
----------------------------------------------------------------------------
LEMMA Initially == Init => IInv
<1> SUFFICES ASSUME Init PROVE IInv
  OBVIOUS
<1>1. TypeOK
  BY ConstantsAssumption DEF Init, TypeOK, Snapshots, Task
<1>2. Committed = {}
  BY DEF Init, Committed
<1>3. QED
  BY <1>1, <1>2 DEF Init, IInv, RunsOK, ScansOK, LockOK, FoundOK, UnloggedOK, DoneIsPublished, NoneUnminded, Relying

\* Everything a step can see of a snapshot that is there.
LEMMA CommittedAreSnapshots == TypeOK => Committed \subseteq Snapshots
BY ConstantsAssumption DEF TypeOK, Committed, Snapshots

LEMMA CommitKeeps == ASSUME NEW T \in TouchSets, IInv, Commit(T) PROVE IInv'
<1> USE ConstantsAssumption DEF IInv
<1>1. head' = head + 1 /\ head' \in Snapshots /\ Committed' = Committed \cup {head'} /\ head' \notin Committed
  BY DEF Commit, TypeOK, Snapshots, Committed
<1>2. touched' = [touched EXCEPT ![head'] = T] /\ T \in SUBSET Tables
  BY <1>1 DEF Commit
<1>3. TypeOK'
  <2>1. touched' \in [Snapshots -> SUBSET Tables] /\ head' \in 0 .. MaxSnapshot
    BY <1>1, <1>2 DEF TypeOK, Snapshots
  <2>2. queue' \in [Workers -> SUBSET Snapshots] /\ lapsed' \subseteq Snapshots
    <3>1. lapsed' \subseteq lapsed \cup {head'}
      BY <1>1 DEF Commit, Lapse
    <3>2. queue' = queue \/ (lock \in Workers /\ queue' = [queue EXCEPT ![lock] = @ \cup {head'}])
      BY <1>1 DEF Commit, TypeOK
    <3>3. QED
      BY <1>1, <3>1, <3>2 DEF TypeOK
  <2>3. QED
    BY <2>1, <2>2 DEF Commit, TypeOK
<1>4. \A s \in Committed : touched'[s] = touched[s]
  BY <1>1, <1>2, CommittedAreSnapshots DEF TypeOK
<1>5. RunsOK' /\ ScansOK' /\ LockOK'
  BY <1>1, <1>4 DEF RunsOK, ScansOK, LockOK, Commit
<1>6. FoundOK'
  BY <1>1 DEF FoundOK, Commit, TypeOK
<1>7. UnloggedOK' /\ DoneIsPublished'
  BY <1>1, <1>4 DEF UnloggedOK, DoneIsPublished, Commit, Committed, Snapshots, TypeOK
<1>8. NoneUnminded'
  <2>1. Relying' <=> Relying
    BY DEF Commit, Relying
  <2>2. \A s \in Committed : Minded(s) => Minded(s)'
    BY DEF Minded, Commit, TypeOK
  <2>3. Relying => \A s \in Committed' \ Committed : Minded(s)' \/ s \in lapsed'
    BY <1>1 DEF Minded, Commit, Lapse, Relying, TypeOK
  <2>4. lapsed \subseteq lapsed'
    BY DEF Commit, Lapse
  <2>5. QED
    BY <1>1, <2>1, <2>2, <2>3, <2>4 DEF NoneUnminded
<1>9. QED
  BY <1>3, <1>5, <1>6, <1>7, <1>8

LEMMA ElectKeeps == ASSUME NEW w \in Workers, IInv, Elect(w) PROVE IInv'
<1> USE ConstantsAssumption DEF IInv
<1>0. Committed' = Committed /\ Committed \subseteq Snapshots /\ tasks \subseteq Task /\ \A x \in Task : x.by \in Workers /\ x.snap \in Snapshots
  BY CommittedAreSnapshots DEF Committed, Elect, TypeOK, Task
<1>1. TypeOK'
  BY <1>0 DEF TypeOK, Elect
<1>2. RunsOK'
  BY <1>0 DEF TypeOK, RunsOK, Elect
<1>3. ScansOK'
  BY <1>0 DEF TypeOK, ScansOK, Elect
<1>4. LockOK'
  BY <1>0 DEF TypeOK, LockOK, Elect
<1>5. FoundOK'
  BY <1>0 DEF TypeOK, FoundOK, Elect
<1>6. UnloggedOK' /\ DoneIsPublished'
  BY <1>0 DEF TypeOK, UnloggedOK, DoneIsPublished, Elect
<1>7. NoneUnminded'
  BY <1>0 DEF TypeOK, NoneUnminded, Minded, Relying, Elect
<1>8. QED
  BY <1>1, <1>2, <1>3, <1>4, <1>5, <1>6, <1>7

LEMMA ElectFailsKeeps == ASSUME NEW w \in Workers, IInv, ElectFails(w) PROVE IInv'
<1> USE ConstantsAssumption DEF IInv
<1>0. Committed' = Committed /\ Committed \subseteq Snapshots /\ tasks \subseteq Task /\ \A x \in Task : x.by \in Workers /\ x.snap \in Snapshots
  BY CommittedAreSnapshots DEF Committed, ElectFails, TypeOK, Task
<1>1. TypeOK'
  BY <1>0 DEF TypeOK, ElectFails
<1>2. RunsOK'
  BY <1>0 DEF TypeOK, RunsOK, ElectFails
<1>3. ScansOK'
  BY <1>0 DEF TypeOK, ScansOK, ElectFails
<1>4. LockOK'
  BY <1>0 DEF TypeOK, LockOK, ElectFails
<1>5. FoundOK'
  BY <1>0 DEF TypeOK, FoundOK, ElectFails
<1>6. UnloggedOK' /\ DoneIsPublished'
  BY <1>0 DEF TypeOK, UnloggedOK, DoneIsPublished, ElectFails
<1>7. NoneUnminded'
  BY <1>0 DEF TypeOK, NoneUnminded, Minded, Relying, ElectFails
<1>8. QED
  BY <1>1, <1>2, <1>3, <1>4, <1>5, <1>6, <1>7

LEMMA ScanKeeps == ASSUME NEW w \in Workers, IInv, Scan(w) PROVE IInv'
<1> USE ConstantsAssumption DEF IInv
<1>0. Committed' = Committed /\ Committed \subseteq Snapshots /\ tasks \subseteq Task /\ \A x \in Task : x.by \in Workers /\ x.snap \in Snapshots
  BY CommittedAreSnapshots DEF Committed, Scan, NotDone, TypeOK, Task
<1>1. TypeOK'
  BY <1>0 DEF TypeOK, Scan, NotDone
<1>2. RunsOK'
  BY <1>0 DEF TypeOK, RunsOK, Scan, NotDone
<1>3. ScansOK'
  BY <1>0 DEF TypeOK, ScansOK, Scan, NotDone
<1>4. LockOK'
  BY <1>0 DEF TypeOK, LockOK, Scan, NotDone
<1>5. FoundOK'
  BY <1>0 DEF TypeOK, FoundOK, Scan, NotDone
<1>6. UnloggedOK' /\ DoneIsPublished'
  BY <1>0 DEF TypeOK, UnloggedOK, DoneIsPublished, Scan, NotDone
<1>7. NoneUnminded'
  BY <1>0 DEF TypeOK, NoneUnminded, Minded, Relying, Scan, NotDone
<1>8. QED
  BY <1>1, <1>2, <1>3, <1>4, <1>5, <1>6, <1>7

LEMMA ScanFailsKeeps == ASSUME NEW w \in Workers, IInv, ScanFails(w) PROVE IInv'
<1> USE ConstantsAssumption DEF IInv
<1>0. Committed' = Committed /\ Committed \subseteq Snapshots /\ tasks \subseteq Task /\ \A x \in Task : x.by \in Workers /\ x.snap \in Snapshots
  BY CommittedAreSnapshots DEF Committed, ScanFails, NotDone, TypeOK, Task
<1>1. TypeOK'
  BY <1>0 DEF TypeOK, ScanFails, NotDone
<1>2. RunsOK'
  BY <1>0 DEF TypeOK, RunsOK, ScanFails, NotDone
<1>3. ScansOK'
  BY <1>0 DEF TypeOK, ScansOK, ScanFails, NotDone
<1>4. LockOK'
  BY <1>0 DEF TypeOK, LockOK, ScanFails, NotDone
<1>5. FoundOK'
  BY <1>0 DEF TypeOK, FoundOK, ScanFails, NotDone
<1>6. UnloggedOK' /\ DoneIsPublished'
  BY <1>0 DEF TypeOK, UnloggedOK, DoneIsPublished, ScanFails, NotDone
<1>7. NoneUnminded'
  BY <1>0 DEF TypeOK, NoneUnminded, Minded, Relying, ScanFails, NotDone
<1>8. QED
  BY <1>1, <1>2, <1>3, <1>4, <1>5, <1>6, <1>7

LEMMA NextPendingKeeps == ASSUME NEW w \in Workers, NEW s \in Snapshots, IInv, NextPending(w, s) PROVE IInv'
<1> USE ConstantsAssumption DEF IInv
<1> DEFINE r == [by |-> w, snap |-> s, scan |-> TRUE, left |-> touched[s], ok |-> TRUE]
<1>a. r \in Task /\ r.by = w /\ r.snap = s /\ r.scan = TRUE /\ r.left = touched[s]
  BY DEF TypeOK, Task
<1>b. tasks' = tasks \cup {r} /\ s \in Committed
  BY DEF NextPending, Begin, FoundOK
<1> HIDE DEF r
<1>0. Committed' = Committed /\ Committed \subseteq Snapshots /\ tasks \subseteq Task /\ \A x \in Task : x.by \in Workers /\ x.snap \in Snapshots
  BY CommittedAreSnapshots DEF Committed, NextPending, TypeOK, Task
<1>1. TypeOK'
  BY <1>0, <1>a, <1>b DEF TypeOK, NextPending
<1>2. RunsOK'
  BY <1>0, <1>a, <1>b DEF RunsOK, NextPending
<1>3. ScansOK'
  BY <1>0, <1>a, <1>b DEF TypeOK, ScansOK, NextPending, CatchingUp
<1>4. FoundOK' /\ LockOK'
  BY <1>0 DEF TypeOK, FoundOK, LockOK, NextPending
<1>6. UnloggedOK' /\ DoneIsPublished'
  BY <1>0 DEF TypeOK, UnloggedOK, DoneIsPublished, NextPending
<1>7. NoneUnminded'
  <2>1. \A v \in Workers : pending[v] \subseteq pending'[v] \cup {s} /\ (v # w => pending[v] = pending'[v])
    BY DEF NextPending, TypeOK
  <2>2. ASSUME NEW x \in Committed, Relying, Minded(x) PROVE Minded(x)'
    BY <1>a, <1>b, <2>1, <2>2 DEF Minded, Relying, NextPending, TypeOK
  <2>3. QED
    BY <1>0, <2>2 DEF NoneUnminded, Relying, NextPending
<1>8. QED
  BY <1>1, <1>2, <1>3, <1>4, <1>6, <1>7

LEMMA DispatchKeeps == ASSUME NEW w \in Workers, NEW s \in Snapshots, IInv, Dispatch(w, s) PROVE IInv'
<1> USE ConstantsAssumption DEF IInv
<1> DEFINE r == [by |-> w, snap |-> s, scan |-> FALSE, left |-> touched[s], ok |-> TRUE]
<1>a. r \in Task /\ r.by = w /\ r.snap = s /\ r.scan = FALSE /\ r.left = touched[s]
  BY DEF TypeOK, Task
<1>b. tasks' = tasks \cup {r} /\ s \in Committed
  BY DEF Dispatch, Begin, FoundOK
<1> HIDE DEF r
<1>0. Committed' = Committed /\ Committed \subseteq Snapshots /\ tasks \subseteq Task /\ \A x \in Task : x.by \in Workers /\ x.snap \in Snapshots
  BY CommittedAreSnapshots DEF Committed, Dispatch, TypeOK, Task
<1>1. TypeOK'
  BY <1>0, <1>a, <1>b DEF TypeOK, Dispatch, Others
<1>2. RunsOK'
  BY <1>0, <1>a, <1>b DEF RunsOK, Dispatch
<1>3. ScansOK'
  BY <1>0, <1>a, <1>b DEF TypeOK, ScansOK, Dispatch
<1>4. FoundOK' /\ LockOK'
  BY <1>0 DEF TypeOK, FoundOK, LockOK, Dispatch, Others
<1>6. UnloggedOK' /\ DoneIsPublished'
  BY <1>0 DEF TypeOK, UnloggedOK, DoneIsPublished, Dispatch
<1>7. NoneUnminded'
  <2>1. \A v \in Workers : queue[v] \subseteq queue'[v] \cup {s} /\ (v # w => queue[v] = queue'[v])
    BY DEF Dispatch, Others, TypeOK
  <2>2. ASSUME NEW x \in Committed, Relying, Minded(x) PROVE Minded(x)'
    BY <1>a, <1>b, <2>1, <2>2 DEF Minded, Relying, Dispatch, TypeOK
  <2>3. QED
    BY <1>0, <2>2 DEF NoneUnminded, Relying, Dispatch
<1>8. QED
  BY <1>1, <1>2, <1>3, <1>4, <1>6, <1>7

LEMMA CaughtUpKeeps == ASSUME NEW w \in Workers, IInv, CaughtUp(w) PROVE IInv'
<1> USE ConstantsAssumption DEF IInv
<1>0. Committed' = Committed /\ Committed \subseteq Snapshots /\ tasks \subseteq Task /\ \A x \in Task : x.by \in Workers /\ x.snap \in Snapshots
  BY CommittedAreSnapshots DEF Committed, CaughtUp, CatchingUp, TypeOK, Task
<1>1. TypeOK'
  BY <1>0 DEF TypeOK, CaughtUp, CatchingUp
<1>2. RunsOK'
  BY <1>0 DEF TypeOK, RunsOK, CaughtUp, CatchingUp
<1>3. ScansOK'
  BY <1>0 DEF TypeOK, ScansOK, CaughtUp, CatchingUp
<1>4. LockOK'
  BY <1>0 DEF TypeOK, LockOK, CaughtUp, CatchingUp
<1>5. FoundOK'
  BY <1>0 DEF TypeOK, FoundOK, CaughtUp, CatchingUp
<1>6. UnloggedOK' /\ DoneIsPublished'
  BY <1>0 DEF TypeOK, UnloggedOK, DoneIsPublished, CaughtUp, CatchingUp
<1>7. NoneUnminded'
  BY <1>0 DEF TypeOK, NoneUnminded, Minded, Relying, CaughtUp, CatchingUp
<1>8. QED
  BY <1>1, <1>2, <1>3, <1>4, <1>5, <1>6, <1>7

LEMMA ListenKeeps == ASSUME NEW w \in Workers, IInv, Listen(w) PROVE IInv'
<1> USE ConstantsAssumption DEF IInv
<1>0. Committed' = Committed /\ Committed \subseteq Snapshots /\ tasks \subseteq Task /\ \A x \in Task : x.by \in Workers /\ x.snap \in Snapshots
  BY CommittedAreSnapshots DEF Committed, Listen, TypeOK, Task
<1>1. TypeOK'
  BY <1>0 DEF TypeOK, Listen
<1>2. RunsOK'
  BY <1>0 DEF TypeOK, RunsOK, Listen
<1>3. ScansOK'
  BY <1>0 DEF TypeOK, ScansOK, Listen
<1>4. LockOK'
  BY <1>0 DEF TypeOK, LockOK, Listen
<1>5. FoundOK'
  BY <1>0 DEF TypeOK, FoundOK, Listen
<1>6. UnloggedOK' /\ DoneIsPublished'
  BY <1>0 DEF TypeOK, UnloggedOK, DoneIsPublished, Listen
<1>7. NoneUnminded'
  BY <1>0 DEF TypeOK, NoneUnminded, Minded, Relying, Listen
<1>8. QED
  BY <1>1, <1>2, <1>3, <1>4, <1>5, <1>6, <1>7

LEMMA NoticeKeeps == ASSUME NEW w \in Workers, IInv, Notice(w) PROVE IInv'
<1> USE ConstantsAssumption DEF IInv
<1>0. Committed' = Committed /\ Committed \subseteq Snapshots /\ tasks \subseteq Task /\ \A x \in Task : x.by \in Workers /\ x.snap \in Snapshots
  BY CommittedAreSnapshots DEF Committed, Notice, TypeOK, Task
<1>1. TypeOK'
  BY <1>0 DEF TypeOK, Notice
<1>2. RunsOK'
  BY <1>0 DEF TypeOK, RunsOK, Notice
<1>3. ScansOK'
  BY <1>0 DEF TypeOK, ScansOK, Notice
<1>4. LockOK'
  BY <1>0 DEF TypeOK, LockOK, Notice
<1>5. FoundOK'
  BY <1>0 DEF TypeOK, FoundOK, Notice
<1>6. UnloggedOK' /\ DoneIsPublished'
  BY <1>0 DEF TypeOK, UnloggedOK, DoneIsPublished, Notice
<1>7. NoneUnminded'
  BY <1>0 DEF TypeOK, NoneUnminded, Minded, Relying, Notice
<1>8. QED
  BY <1>1, <1>2, <1>3, <1>4, <1>5, <1>6, <1>7

LEMMA MaterialiseKeeps == ASSUME NEW k \in tasks, NEW t \in Tables, IInv, Materialise(k, t) PROVE IInv'
<1> USE ConstantsAssumption DEF IInv
<1>0. Committed' = Committed /\ Committed \subseteq Snapshots /\ tasks \subseteq Task
       /\ \A x \in Task : x.by \in Workers /\ x.snap \in Snapshots /\ x.left \in SUBSET Tables /\ x.ok \in BOOLEAN /\ x.scan \in BOOLEAN
  BY CommittedAreSnapshots DEF Committed, Materialise, worker, TypeOK, Task
<1> DEFINE l == [k EXCEPT !.left = @ \ {t}]
<1>a. /\ l \in Task /\ l.by = k.by /\ l.snap = k.snap /\ l.scan = k.scan /\ l.left = k.left \ {t}
      /\ l.ok => k.ok
  BY <1>0 DEF Task
<1>b. tasks' = (tasks \ {k}) \cup {l}
  BY DEF Materialise, Replace
<1> HIDE DEF l
<1>c. /\ published' \in [Tables -> 0 .. MaxSnapshot]
      /\ \A u \in Tables : published'[u] >= published[u]
      /\ published'[t] >= k.snap
  <2>1. PICK listed \in k.snap .. head :
            published' = [published EXCEPT ![t] = IF @ < listed THEN listed ELSE @]
    BY DEF Materialise
  <2>2. listed \in Nat /\ k.snap \in Nat /\ listed >= k.snap /\ listed <= head /\ head \in 0 .. MaxSnapshot
    BY <1>0, <2>1 DEF TypeOK, Snapshots
  <2>3. QED
    BY <2>1, <2>2 DEF TypeOK
<1>d. /\ \A u \in Tables : published[u] \in Int /\ published'[u] \in Int
      /\ \A x \in Snapshots : x \in Int /\ touched[x] \subseteq Tables
  BY <1>c DEF TypeOK, Snapshots
<1>1. TypeOK'
  BY <1>0, <1>a, <1>b, <1>c DEF TypeOK, Materialise, worker
<1>2. RunsOK'
  <2>1. ASSUME NEW x \in tasks, x.ok, NEW u \in touched[x.snap] \ x.left PROVE published'[u] >= x.snap
    BY <1>0, <1>c, <1>d, <2>1 DEF RunsOK
  <2>2. ASSUME l.ok, NEW u \in touched[l.snap] \ l.left PROVE published'[u] >= l.snap
    BY <1>0, <1>a, <1>c, <1>d, <2>1, <2>2
  <2>3. QED
    BY <1>0, <1>a, <1>b, <2>1, <2>2 DEF RunsOK, Materialise
<1>3. ScansOK'
  BY <1>0, <1>a, <1>b DEF ScansOK, Materialise, worker
<1>4. FoundOK' /\ LockOK' /\ UnloggedOK'
  BY <1>0 DEF FoundOK, LockOK, UnloggedOK, Materialise, worker
<1>6. DoneIsPublished'
  BY <1>0, <1>c, <1>d DEF DoneIsPublished, Materialise
<1>7. NoneUnminded'
  <2>1. \A x \in Committed : Minded(x) => Minded(x)'
    BY <1>a, <1>b DEF Minded, Materialise, worker
  <2>2. QED
    BY <1>0, <2>1 DEF NoneUnminded, Relying, Materialise, worker
<1>8. QED
  BY <1>1, <1>2, <1>3, <1>4, <1>6, <1>7

LEMMA MaterialiseFailsKeeps == ASSUME NEW k \in tasks, NEW t \in Tables, IInv, MaterialiseFails(k, t) PROVE IInv'
<1> USE ConstantsAssumption DEF IInv
<1>0. Committed' = Committed /\ Committed \subseteq Snapshots /\ tasks \subseteq Task
       /\ \A x \in Task : x.by \in Workers /\ x.snap \in Snapshots /\ x.left \in SUBSET Tables /\ x.ok \in BOOLEAN /\ x.scan \in BOOLEAN
  BY CommittedAreSnapshots DEF Committed, MaterialiseFails, worker, TypeOK, Task
<1> DEFINE l == [k EXCEPT !.left = @ \ {t}, !.ok = FALSE]
<1>a. /\ l \in Task /\ l.by = k.by /\ l.snap = k.snap /\ l.scan = k.scan /\ l.left = k.left \ {t}
      /\ l.ok => FALSE
  BY <1>0 DEF Task
<1>b. tasks' = (tasks \ {k}) \cup {l}
  BY DEF MaterialiseFails, Replace
<1> HIDE DEF l
<1>c. /\ published' = published
      /\ \A u \in Tables : published'[u] >= published[u]
  BY DEF MaterialiseFails, TypeOK
<1>1. TypeOK'
  BY <1>0, <1>a, <1>b, <1>c DEF TypeOK, MaterialiseFails, worker
<1>2. RunsOK'
  BY <1>0, <1>a, <1>b, <1>c DEF RunsOK, MaterialiseFails
<1>3. ScansOK'
  BY <1>0, <1>a, <1>b DEF ScansOK, MaterialiseFails, worker
<1>4. FoundOK' /\ LockOK' /\ UnloggedOK'
  BY <1>0 DEF FoundOK, LockOK, UnloggedOK, MaterialiseFails, worker
<1>6. DoneIsPublished'
  BY <1>0, <1>c DEF TypeOK, DoneIsPublished, MaterialiseFails
<1>7. NoneUnminded'
  <2>1. \A x \in Committed : Minded(x) => Minded(x)'
    BY <1>a, <1>b DEF Minded, MaterialiseFails, worker
  <2>2. QED
    BY <1>0, <2>1 DEF NoneUnminded, Relying, MaterialiseFails, worker
<1>8. QED
  BY <1>1, <1>2, <1>3, <1>4, <1>6, <1>7

LEMMA RecordKeeps == ASSUME NEW k \in tasks, IInv, Record(k) PROVE IInv'
<1> USE ConstantsAssumption DEF IInv
<1>0. Committed' = Committed /\ Committed \subseteq Snapshots /\ tasks \subseteq Task
       /\ \A x \in Task : x.by \in Workers /\ x.snap \in Snapshots /\ x.left \in SUBSET Tables /\ x.ok \in BOOLEAN /\ x.scan \in BOOLEAN
  BY CommittedAreSnapshots DEF Committed, Record, TypeOK, Task
<1>1. TypeOK'
  <2>1. log' \in [Snapshots -> {"none", "done", "failed"}]
    BY <1>0 DEF TypeOK, Record, Status
  <2>2. lapsed' \subseteq Snapshots
    BY <1>0 DEF TypeOK, Record, Lapse
  <2>3. QED
    BY <2>1, <2>2 DEF TypeOK, Record, worker
<1>2. RunsOK' /\ ScansOK' /\ FoundOK' /\ LockOK'
  BY <1>0 DEF RunsOK, ScansOK, FoundOK, LockOK, Record, worker
<1>3. UnloggedOK'
  BY <1>0 DEF UnloggedOK, RunsOK, Record, TypeOK, Committed, Snapshots
<1>4. DoneIsPublished'
  BY <1>0 DEF DoneIsPublished, RunsOK, Record, Status, TypeOK
<1>5. NoneUnminded'
  <2>1. \A x \in Committed \ {k.snap} : Minded(x) => Minded(x)'
    BY <1>0 DEF Minded, Record, worker, TypeOK
  <2>2. Relying => Minded(k.snap)' \/ k.snap \in lapsed'
    BY <1>0 DEF Minded, Record, Status, Lapse, TypeOK
  <2>3. lapsed \subseteq lapsed'
    BY DEF Record, Lapse
  <2>4. QED
    BY <1>0, <2>1, <2>2, <2>3 DEF NoneUnminded, Relying, Record, worker
<1>6. QED
  BY <1>1, <1>2, <1>3, <1>4, <1>5

LEMMA RunFailsKeeps == ASSUME NEW k \in tasks, IInv, RunFails(k) PROVE IInv'
<1> USE ConstantsAssumption DEF IInv
<1>0. Committed' = Committed /\ Committed \subseteq Snapshots /\ tasks \subseteq Task
       /\ \A x \in Task : x.by \in Workers /\ x.snap \in Snapshots /\ x.left \in SUBSET Tables /\ x.ok \in BOOLEAN /\ x.scan \in BOOLEAN
  BY CommittedAreSnapshots DEF Committed, RunFails, TypeOK, Task
<1>1. TypeOK'
  BY <1>0 DEF TypeOK, RunFails, Lapse
<1>2. RunsOK'
  BY <1>0 DEF RunsOK, RunFails
<1>3. ScansOK'
  BY <1>0 DEF ScansOK, RunFails, TypeOK
<1>4. FoundOK' /\ LockOK'
  BY <1>0 DEF FoundOK, LockOK, ScansOK, RunFails, TypeOK
<1>5. UnloggedOK' /\ DoneIsPublished'
  BY <1>0 DEF UnloggedOK, DoneIsPublished, RunFails
<1>6. NoneUnminded'
  <2>1. Relying' => Relying
    BY <1>0 DEF Relying, RunFails, ScansOK, TypeOK
  <2>2. ASSUME NEW x \in Committed, Relying, Minded(x), ~ Minded(x)' PROVE x \in lapsed'
    BY <1>0, <2>2 DEF Minded, RunFails, Lapse, Relying, TypeOK
  <2>3. lapsed \subseteq lapsed'
    BY DEF RunFails, Lapse
  <2>4. QED
    BY <1>0, <2>1, <2>2, <2>3 DEF NoneUnminded
<1>7. QED
  BY <1>1, <1>2, <1>3, <1>4, <1>5, <1>6

LEMMA SessionBreaksKeeps == ASSUME IInv, SessionBreaks PROVE IInv'
<1> USE ConstantsAssumption DEF IInv
<1>0. Committed' = Committed /\ Committed \subseteq Snapshots /\ tasks \subseteq Task /\ \A x \in Task : x.by \in Workers /\ x.snap \in Snapshots
  BY CommittedAreSnapshots DEF Committed, SessionBreaks, TypeOK, Task
<1>1. TypeOK'
  BY <1>0 DEF TypeOK, SessionBreaks
<1>2. RunsOK'
  BY <1>0 DEF TypeOK, RunsOK, SessionBreaks
<1>3. ScansOK'
  BY <1>0 DEF TypeOK, ScansOK, SessionBreaks
<1>4. FoundOK' /\ LockOK'
  BY <1>0 DEF TypeOK, FoundOK, LockOK, SessionBreaks
<1>5. UnloggedOK' /\ DoneIsPublished'
  BY <1>0 DEF TypeOK, UnloggedOK, DoneIsPublished, SessionBreaks
<1>6. NoneUnminded'
  <2>1. Relying' => Relying /\ lock' = lock
    BY DEF Relying, SessionBreaks, TypeOK
  <2>2. ASSUME NEW x \in Committed, Relying', Minded(x) PROVE Minded(x)'
    BY <2>1, <2>2 DEF Relying, Minded, SessionBreaks, TypeOK
  <2>3. QED
    BY <1>0, <2>1, <2>2 DEF NoneUnminded, SessionBreaks
<1>7. QED
  BY <1>1, <1>2, <1>3, <1>4, <1>5, <1>6

LEMMA CrashKeeps == ASSUME NEW w \in Workers, IInv, Crash(w) PROVE IInv'
<1> USE ConstantsAssumption DEF IInv
<1>0. Committed' = Committed /\ Committed \subseteq Snapshots /\ tasks \subseteq Task /\ \A x \in Task : x.by \in Workers /\ x.snap \in Snapshots
  BY CommittedAreSnapshots DEF Committed, Crash, TypeOK, Task
<1>1. TypeOK'
  BY <1>0 DEF TypeOK, Crash
<1>2. RunsOK'
  BY <1>0 DEF TypeOK, RunsOK, Crash
<1>3. ScansOK'
  BY <1>0 DEF TypeOK, ScansOK, Crash
<1>4. FoundOK' /\ LockOK'
  BY <1>0 DEF TypeOK, FoundOK, LockOK, Crash
<1>5. UnloggedOK' /\ DoneIsPublished'
  BY <1>0 DEF TypeOK, UnloggedOK, DoneIsPublished, Crash
<1>6. NoneUnminded'
  <2>1. Relying' => Relying /\ lock' = lock
    BY DEF Relying, Crash, TypeOK
  <2>2. ASSUME NEW x \in Committed, Relying', Minded(x) PROVE Minded(x)'
    BY <2>1, <2>2 DEF Relying, Minded, Crash, TypeOK
  <2>3. QED
    BY <1>0, <2>1, <2>2 DEF NoneUnminded, Crash
<1>7. QED
  BY <1>1, <1>2, <1>3, <1>4, <1>5, <1>6

----------------------------------------------------------------------------
\* The inductive invariant: NoneForgotten itself is not inductive, because the
\* run that carries a snapshot may be that of a deposed listener, whose
\* process dies; NoneUnminded counts on the elected listener's runs alone.
THEOREM Invariance == Spec => []IInv
<1>1. IInv /\ [Next]_vars => IInv'
  <2> SUFFICES ASSUME IInv, [Next]_vars PROVE IInv'
    OBVIOUS
  <2>1. ASSUME NEW w \in Workers, Serve(w) PROVE IInv'
    BY <2>1, ElectKeeps, ScanKeeps, NextPendingKeeps, CaughtUpKeeps, ListenKeeps, DispatchKeeps,
       NoticeKeeps DEF Serve
  <2>2. ASSUME NEW k \in tasks, Proceed(k) PROVE IInv'
    BY <2>2, MaterialiseKeeps, RecordKeeps DEF Proceed
  <2>3. ASSUME Fault PROVE IInv'
    BY <2>3, MaterialiseFailsKeeps, RunFailsKeeps, ElectFailsKeeps, ScanFailsKeeps, CrashKeeps,
       SessionBreaksKeeps DEF Fault
  <2>4. ASSUME UNCHANGED vars PROVE IInv'
    <3>1. TypeOK' /\ RunsOK' /\ ScansOK' /\ LockOK' /\ FoundOK'
      BY <2>4 DEF vars, worker, IInv, TypeOK, RunsOK, ScansOK, LockOK, FoundOK, Committed
    <3>2. UnloggedOK' /\ DoneIsPublished' /\ NoneUnminded'
      BY <2>4 DEF vars, worker, IInv, UnloggedOK, DoneIsPublished, NoneUnminded, Minded, Relying, Committed
    <3>3. QED
      BY <3>1, <3>2 DEF IInv
  <2>5. QED
    BY <2>1, <2>2, <2>3, <2>4, CommitKeeps DEF Next
<1>2. QED
  BY <1>1, Initially, PTL DEF Spec

\* The variables have their types.
THEOREM TypeCorrect == Spec => []TypeOK
<1>1. IInv => TypeOK
  BY DEF IInv
<1>2. QED
  BY <1>1, Invariance, PTL

\* A row that says done is about a snapshot whose tables have all been
\* published, for any number of overlapping, failing and orphaned runs.
THEOREM DonePublished == Spec => []DoneIsPublished
<1>1. IInv => DoneIsPublished
  BY DEF IInv
<1>2. QED
  BY <1>1, Invariance, PTL

\* While an elected listener relies on its scan, no snapshot is forgotten but
\* for those that `lapsed` names, whoever was deposed, broke or died before.
THEOREM NoSnapshotForgotten == Spec => []NoneForgotten
<1>1. IInv => NoneForgotten
  BY DEF IInv, NoneUnminded, NoneForgotten, Minded, Carried, Relying
<1>2. QED
  BY <1>1, Invariance, PTL
=============================================================================
