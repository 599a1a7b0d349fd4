------------------------ MODULE MaskedExport_proofs ------------------------
(***************************************************************************)
(* Proofs about MaskedExport, for any number of jobs, signatures, parts,   *)
(* snapshots and faults: types with the ownership of the locks,            *)
(* VendedIsWhole and ReplacedByAnother.                                    *)
(*                                                                         *)
(* A directory is written by one job, once.  A sweep only lists what is    *)
(* older than the attempts under way, and a collection owns up to what it  *)
(* deletes; so what has been published stays whole for as long as it is    *)
(* the current export, or young.                                           *)
(***************************************************************************)
EXTENDS MaskedExport, TLAPS

Exporting == {"snapshot", "pointer", "try", "busy", "wait", "check", "copy", "list", "sweep"}
RequestLabels == Exporting \cup {"plan", "fallback", "vend", "vended", "over"}
CollectionLabels == {"change", "scan", "next", "find", "clear", "over"}
RefreshLabels == Exporting \cup {"scan", "columns", "next", "find", "clear", "over"}
Labels == RequestLabels \cup CollectionLabels \cup RefreshLabels

Attempt == {"check", "copy", "list", "sweep"}

DirFor(j, b) == [sig |-> b.sig, snap |-> b.snap, by |-> j]

\* What a job has read and written, by where it is.
JobOK(j, l, b) ==
    /\ j \in Requests => l \in RequestLabels
    /\ j \in Refreshes => l \in RefreshLabels
    /\ j \in Collections => l \in CollectionLabels
    /\ l \in Exporting \cup {"fallback"} => b.sig \in Sigs
    /\ l \in Exporting \ {"snapshot"} => b.snap \in 1 .. MaxSnapshot
    /\ l \in {"copy", "list", "sweep"} => b.dir = DirFor(j, b)
    /\ l \in {"list", "sweep"} => b.parts = Parts
    /\ l \in {"vend", "vended"} => b.dir \in Dir
    /\ l \in {"find", "clear"} => b.victim \in Sigs
    /\ j \in Refreshes /\ l \in Exporting => b.sig \notin b.todo

\* An exporter has not made its directory yet, but may.
BeforeAt(l, b) ==
    \/ l \in {"plan", "scan", "columns", "snapshot", "pointer", "try", "busy", "wait", "check"}
    \/ l \in {"next", "find", "clear"} /\ b.sig \in b.todo
WritingAt(l, b) == BeforeAt(l, b) \/ l = "copy"
Writing(j) == WritingAt(pc[j], job[j])

\* Nobody will write to d any more.
Settled(d) == \A j \in Exporters : d.by = j => ~ Writing(j)

Intact(d) == \A p \in Parts : <<d, p>> \in objects \cup collected
Live(d) == row[d.sig] = d \/ d \in young

\* The directories a job has to do with.
OwnAt(j, l, b) ==
    /\ BeforeAt(l, b) => \A o \in objects : o[1].by # j
    /\ l = "copy" =>
          /\ \A o \in objects : o[1].by = j => o[1] \in young
          /\ \A p \in b.parts : <<b.dir, p>> \in objects \cup collected
          /\ b.parts # {} => b.dir \in young
          /\ ~ lost => row[b.sig] = None \/ row[b.sig].snap # b.snap
    /\ l \in {"list", "sweep"} => Parts = {} \/ row[b.sig] \in {None, b.dir} \cup young
    /\ l = "sweep" =>
          \A o \in b.listed : o[1] \notin young /\ row[o[1].sig] # o[1] /\ Settled(o[1])
    /\ l \in {"list", "sweep", "vend", "vended"} =>
          Settled(b.dir) /\ (Live(b.dir) => Intact(b.dir))
    /\ l = "vended" /\ Live(b.dir) =>
          \A p \in Parts : <<b.dir, p>> \in collected \/ (p \in b.parts /\ <<b.dir, p>> \in objects)

\* A published directory is whole, and whoever wrote it has done with it.
RowOK == \A s \in Sigs : row[s] # None => row[s].sig = s /\ Settled(row[s]) /\ Intact(row[s])

\* Who makes an attempt holds the lock, as long as locks hold.
LockOK == ~ lost => \A j \in Exporters : Attempting(j) => lock[job[j].sig] = j

IInv ==
    /\ TypeOK
    /\ \A j \in Jobs : JobOK(j, pc[j], job[j])
    /\ \A j \in Exporters : OwnAt(j, pc[j], job[j])
    /\ RowOK
    /\ LockOK

----------------------------------------------------------------------------
(***************************************************************************)
(* Frames.                                                                 *)
(***************************************************************************)

LEMMA JobSets ==
    /\ Exporters \subseteq Jobs /\ Requests \subseteq Exporters /\ Refreshes \subseteq Exporters
    /\ Collections \subseteq Jobs /\ Nobody \notin Jobs
    /\ \A j \in Requests : j \notin Refreshes /\ j \notin Collections
    /\ \A j \in Refreshes : j \notin Requests /\ j \notin Collections
    /\ \A j \in Jobs : j \in Requests \/ j \in Refreshes \/ j \in Collections
    /\ None \notin Sigs /\ None \notin Dir
BY ConstantsAssumption DEF Jobs, Exporters

LEMMA BlankTyped == Blank \in Job
BY ConstantsAssumption DEF Blank, Job, Maybe

\* The types of what there is beside jobs and locks.
WorldTyped ==
    /\ head \in 1 .. MaxSnapshot
    /\ shape \in Sigs
    /\ row \in [Sigs -> Maybe]
    /\ objects \in SUBSET (Dir \X Parts)
    /\ young \in SUBSET Dir
    /\ faults \in 0 .. MaxFaults
    /\ lost \in BOOLEAN
    /\ collected \in SUBSET (Dir \X Parts)

JobsTyped ==
    /\ pc \in [Jobs -> Labels]
    /\ job \in [Jobs -> Job]
    /\ lock \in [Sigs -> Exporters \cup {Nobody}]
    /\ \A s \in Sigs : lock[s] # Nobody => Attempting(lock[s]) /\ job[lock[s]].sig = s

LEMMA TypeParts == TypeOK <=> WorldTyped /\ JobsTyped
BY DEF TypeOK, WorldTyped, JobsTyped, Labels, RequestLabels, RefreshLabels, CollectionLabels, Exporting

\* What a job does to the lock: nothing, unless it begins or ends an attempt.
LockMoves(j, l, b) ==
    \/ lock' = lock /\ (l \in Attempt <=> pc[j] \in Attempt) /\ (l \in Attempt => b.sig = job[j].sig)
    \/ Release(j) /\ l \notin Attempt
    \/ /\ j \in Exporters /\ b.sig \in Sigs /\ lock[b.sig] = Nobody
       /\ lock' = [lock EXCEPT ![b.sig] = j]
       /\ l \in Attempt /\ pc[j] \notin Attempt

LEMMA LockStep ==
    ASSUME IInv, NEW j \in Jobs, NEW l, NEW b,
           JobOK(j, l, b), b \in Job, l \in Labels,
           pc' = [pc EXCEPT ![j] = l], job' = [job EXCEPT ![j] = b],
           LockMoves(j, l, b), lost' = lost
    PROVE  JobsTyped' /\ LockOK'
<1> USE DEF Attempt
<1>1. JobsTyped /\ LockOK
  BY TypeParts DEF IInv
<1>2. pc' \in [Jobs -> Labels] /\ job' \in [Jobs -> Job]
  BY <1>1 DEF JobsTyped
<1>3. /\ pc'[j] = l /\ job'[j] = b
      /\ \A i \in Jobs : i # j => pc'[i] = pc[i] /\ job'[i] = job[i]
  BY <1>1 DEF JobsTyped
<1>4. \A s \in Sigs : lock[s] = Nobody \/ (lock[s] \in Exporters /\ lock[s] \in Jobs)
  BY <1>1, JobSets DEF JobsTyped
<1>5. CASE lock' = lock /\ (l \in Attempt <=> pc[j] \in Attempt) /\ (l \in Attempt => b.sig = job[j].sig)
  <2>1. ASSUME NEW s \in Sigs, lock[s] # Nobody
        PROVE  pc'[lock[s]] \in Attempt /\ job'[lock[s]].sig = s
    BY <1>1, <1>3, <1>4, <1>5, <2>1 DEF JobsTyped, Attempting
  <2>2. ASSUME ~ lost, NEW i \in Exporters, pc'[i] \in Attempt PROVE lock[job'[i].sig] = i
    BY <1>1, <1>3, <1>5, <2>2, JobSets DEF LockOK, Attempting
  <2>3. QED
    BY <1>1, <1>2, <1>5, <2>1, <2>2 DEF JobsTyped, LockOK, Attempting
<1>6. CASE Release(j) /\ l \notin Attempt
  <2>1. /\ lock' \in [Sigs -> Exporters \cup {Nobody}]
        /\ \A s \in Sigs : lock'[s] = IF lock[s] = j THEN Nobody ELSE lock[s]
    BY <1>1, <1>6 DEF JobsTyped, Release
  <2>2. ASSUME NEW s \in Sigs, lock'[s] # Nobody
        PROVE  pc'[lock'[s]] \in Attempt /\ job'[lock'[s]].sig = s
    <3>1. lock'[s] = lock[s] /\ lock[s] # j /\ lock[s] \in Jobs
      BY <1>4, <2>1, <2>2
    <3>2. QED
      BY <1>1, <1>3, <2>2, <3>1 DEF JobsTyped, Attempting
  <2>3. ASSUME ~ lost, NEW i \in Exporters, pc'[i] \in Attempt PROVE lock'[job'[i].sig] = i
    <3>1. i # j /\ i \in Jobs
      BY <1>3, <1>6, <2>3, JobSets
    <3>2. pc[i] \in Attempt /\ job'[i] = job[i] /\ lock[job[i].sig] = i
      BY <1>1, <1>3, <2>3, <3>1 DEF LockOK, Attempting
    <3>3. JobOK(i, pc[i], job[i])
      BY <3>1 DEF IInv
    <3>4. job[i].sig \in Sigs
      BY <3>2, <3>3 DEF JobOK, Exporting
    <3>5. QED
      BY <2>1, <3>1, <3>2, <3>4
  <2>4. QED
    BY <1>2, <2>1, <2>2, <2>3 DEF JobsTyped, LockOK, Attempting
<1>7. CASE /\ j \in Exporters /\ b.sig \in Sigs /\ lock[b.sig] = Nobody
           /\ lock' = [lock EXCEPT ![b.sig] = j]
           /\ l \in Attempt /\ pc[j] \notin Attempt
  <2>1. /\ lock' \in [Sigs -> Exporters \cup {Nobody}]
        /\ \A s \in Sigs : lock'[s] = IF s = b.sig THEN j ELSE lock[s]
    BY <1>1, <1>7 DEF JobsTyped
  <2>2. ASSUME NEW s \in Sigs, lock'[s] # Nobody
        PROVE  pc'[lock'[s]] \in Attempt /\ job'[lock'[s]].sig = s
    <3>1. CASE s = b.sig
      BY <1>3, <1>7, <2>1, <3>1
    <3>2. CASE s # b.sig
      <4>1. lock'[s] = lock[s] /\ lock[s] \in Jobs /\ pc[lock[s]] \in Attempt
        BY <1>1, <1>4, <2>1, <2>2, <3>2 DEF JobsTyped, Attempting
      <4>2. QED
        BY <1>1, <1>3, <1>7, <2>2, <4>1 DEF JobsTyped, Attempting
    <3>3. QED
      BY <3>1, <3>2
  <2>3. ASSUME ~ lost, NEW i \in Exporters, pc'[i] \in Attempt PROVE lock'[job'[i].sig] = i
    <3>1. CASE i = j
      BY <1>3, <1>7, <2>1, <3>1
    <3>2. CASE i # j
      <4>1. i \in Jobs /\ pc[i] \in Attempt /\ job'[i] = job[i]
        BY <1>3, <2>3, <3>2, JobSets
      <4>2. lock[job[i].sig] = i /\ JobOK(i, pc[i], job[i])
        BY <1>1, <2>3, <4>1 DEF LockOK, Attempting, IInv
      <4>3. job[i].sig \in Sigs /\ job[i].sig # b.sig
        BY <1>7, <4>1, <4>2, JobSets DEF JobOK, Exporting
      <4>4. QED
        BY <2>1, <4>1, <4>2, <4>3
    <3>3. QED
      BY <3>1, <3>2
  <2>4. QED
    BY <1>2, <2>1, <2>2, <2>3 DEF JobsTyped, LockOK, Attempting
<1>8. QED
  BY <1>5, <1>6, <1>7 DEF LockMoves

\* A step of job j that publishes, writes and deletes nothing.
LEMMA Quiet ==
    ASSUME IInv, NEW j \in Jobs, NEW l \in Labels, NEW b \in Job,
           pc' = [pc EXCEPT ![j] = l], job' = [job EXCEPT ![j] = b],
           JobOK(j, l, b), LockMoves(j, l, b),
           j \in Exporters => OwnAt(j, l, b) /\ (WritingAt(l, b) => Writing(j)),
           UNCHANGED <<row, objects, young, lost, collected>>,
           head' \in 1 .. MaxSnapshot, shape' \in Sigs, faults' \in 0 .. MaxFaults
    PROVE  IInv'
<1>1. TypeOK /\ WorldTyped /\ JobsTyped
  BY TypeParts DEF IInv
<1>2. WorldTyped' /\ JobsTyped' /\ LockOK'
  BY <1>1, LockStep DEF WorldTyped
<1>3. TypeOK'
  BY <1>2 DEF TypeOK, WorldTyped, JobsTyped, Labels, RequestLabels, RefreshLabels,
              CollectionLabels, Exporting
<1>4. /\ pc'[j] = l /\ job'[j] = b
      /\ \A i \in Jobs : i # j => pc'[i] = pc[i] /\ job'[i] = job[i]
  BY <1>1 DEF JobsTyped
<1>5. \A i \in Jobs : JobOK(i, pc'[i], job'[i])
  BY <1>4 DEF IInv
<1>6. \A i \in Exporters : Writing(i)' => Writing(i)
  BY <1>4, JobSets DEF Writing
<1>7. \A d : Settled(d) => Settled(d)'
  BY <1>6 DEF Settled
<1>8. \A d : Intact(d)' = Intact(d) /\ Live(d)' = Live(d)
  BY DEF Intact, Live
<1>9. ASSUME NEW i \in Exporters PROVE OwnAt(i, pc[i], job[i])'
  <2>1. CASE i = j
    <3>1. OwnAt(j, l, b)'
      BY <1>7, <1>8, <2>1 DEF OwnAt
    <3>2. QED
      BY <1>4, <2>1, <3>1
  <2>2. CASE i # j
    <3>1. OwnAt(i, pc[i], job[i])
      BY DEF IInv
    <3>2. pc'[i] = pc[i] /\ job'[i] = job[i]
      BY <1>4, <2>2, JobSets
    <3>3. QED
      BY <1>7, <1>8, <3>1, <3>2 DEF OwnAt
  <2>3. QED
    BY <2>1, <2>2
<1>10. RowOK'
  BY <1>7, <1>8 DEF IInv, RowOK
<1>11. QED
  BY <1>2, <1>3, <1>5, <1>9, <1>10 DEF IInv

\* What the invariant says of a job, and of the pointer of a signature.
LEMMA Mine ==
    ASSUME IInv, NEW j \in Jobs
    PROVE  /\ JobOK(j, pc[j], job[j]) /\ job[j] \in Job /\ pc[j] \in Labels
           /\ j \in Exporters => OwnAt(j, pc[j], job[j])
           /\ pc \in [Jobs -> Labels] /\ job \in [Jobs -> Job]
           /\ head \in 1 .. MaxSnapshot /\ shape \in Sigs /\ faults \in 0 .. MaxFaults
           /\ row \in [Sigs -> Maybe] /\ objects \in SUBSET (Dir \X Parts) /\ young \in SUBSET Dir
<1>1. WorldTyped /\ JobsTyped
  BY TypeParts DEF IInv
<1>2. QED
  BY <1>1 DEF IInv, WorldTyped, JobsTyped

LEMMA Pointer ==
    ASSUME IInv, NEW s \in Sigs, row[s] # None
    PROVE  row[s] \in Dir /\ row[s].sig = s /\ Settled(row[s]) /\ Intact(row[s])
<1>1. row \in [Sigs -> Maybe]
  BY TypeParts DEF IInv, WorldTyped
<1>2. QED
  BY <1>1 DEF IInv, RowOK, Maybe

\* Everything else of a quiet step stays as it is.
Still == UNCHANGED <<row, objects, young, lost, collected>>
         /\ head' \in 1 .. MaxSnapshot /\ shape' \in Sigs /\ faults' \in 0 .. MaxFaults

\* The lock is given back, or is not held.
GivesBack(j) == Release(j) \/ (lock' = lock /\ pc[j] \notin Attempt)

LEMMA GivesBackMoves ==
    ASSUME NEW j, NEW l, l \notin Attempt, NEW b, GivesBack(j)
    PROVE  LockMoves(j, l, b)
BY DEF GivesBack, LockMoves

\* A refresh goes on to its next signature, whatever came of this one.
LEMMA RefreshGoesOn ==
    ASSUME IInv, NEW j \in Refreshes, pc[j] \in Exporting, GivesBack(j), Still,
           pc' = [pc EXCEPT ![j] = "next"],
           job' = [job EXCEPT ![j] = [Blank EXCEPT !.sig = job[j].sig, !.todo = job[j].todo]]
    PROVE  IInv'
<1> DEFINE n == [Blank EXCEPT !.sig = job[j].sig, !.todo = job[j].todo]
<1>1. j \in Jobs /\ j \notin Requests /\ j \notin Collections
  BY JobSets
<1>2. JobOK(j, pc[j], job[j]) /\ job[j] \in Job
  BY <1>1, Mine
<1>3. job[j].sig \in Sigs /\ job[j].sig \notin job[j].todo
  BY <1>2 DEF JobOK
<1>4. n \in Job /\ n.sig = job[j].sig /\ n.todo = job[j].todo
  BY <1>2, BlankTyped DEF Blank, Job
<1> HIDE DEF n
<1>5. JobOK(j, "next", n)
  BY <1>1, <1>3, <1>4 DEF JobOK, Exporting, RefreshLabels
<1>6. "next" \in Labels /\ "next" \notin Attempt
  BY DEF Labels, CollectionLabels, Attempt
<1>7. ~ WritingAt("next", n)
  BY <1>3, <1>4 DEF WritingAt, BeforeAt
<1>8. OwnAt(j, "next", n)
  BY <1>7 DEF OwnAt, WritingAt
<1>9. LockMoves(j, "next", n)
  BY <1>6, GivesBackMoves
<1>10. QED
  BY <1>1, <1>4, <1>5, <1>6, <1>7, <1>8, <1>9, Quiet DEF Still, n

\* What is returned is a directory that nobody writes to, and that is whole if
\* it matters.
LEMMA ReturnKeeps ==
    ASSUME IInv, NEW j \in Exporters, pc[j] \in Exporting \cup {"fallback"},
           NEW d \in Dir, Settled(d), Live(d) => Intact(d),
           Return(j, d), GivesBack(j), Still
    PROVE  IInv'
<1>1. CASE j \in Requests
  <2> DEFINE n == [Blank EXCEPT !.dir = d]
  <2>1. j \in Jobs /\ j \notin Refreshes /\ j \notin Collections
    BY <1>1, JobSets
  <2>2. n \in Job /\ n.dir = d
    BY BlankTyped DEF Blank, Job, Maybe
  <2>3. pc' = [pc EXCEPT ![j] = "vend"] /\ job' = [job EXCEPT ![j] = n]
    BY <1>1 DEF Return, Leave, Goto
  <2> HIDE DEF n
  <2>4. JobOK(j, "vend", n)
    BY <1>1, <2>1, <2>2 DEF JobOK, Exporting, RequestLabels
  <2>5. "vend" \in Labels /\ "vend" \notin Attempt
    BY DEF Labels, RequestLabels, Attempt
  <2>6. ~ WritingAt("vend", n)
    BY DEF WritingAt, BeforeAt
  <2>7. OwnAt(j, "vend", n)
    BY <2>2, <2>6 DEF OwnAt, WritingAt
  <2>8. LockMoves(j, "vend", n)
    BY <2>5, GivesBackMoves
  <2>9. QED
    BY <2>1, <2>2, <2>3, <2>4, <2>5, <2>6, <2>7, <2>8, Quiet DEF Still
<1>2. CASE j \notin Requests
  <2>1. j \in Refreshes /\ j \in Jobs
    BY <1>2, JobSets DEF Exporters
  <2>2. pc[j] \in Exporting
    <3>1. pc[j] \in RefreshLabels
      BY <2>1, Mine DEF JobOK
    <3>2. QED
      BY <3>1 DEF RefreshLabels, Exporting
  <2>3. QED
    BY <1>2, <2>1, <2>2, RefreshGoesOn DEF Return, Leave, Goto
<1>3. QED
  BY <1>1, <1>2

LEMMA FailsKeeps ==
    ASSUME IInv, NEW j \in Exporters, pc[j] \in Exporting, Fails(j), GivesBack(j), Still
    PROVE  IInv'
<1>1. CASE j \in Requests
  <2> DEFINE n == [Blank EXCEPT !.sig = job[j].sig]
  <2>1. j \in Jobs /\ j \notin Refreshes /\ j \notin Collections
    BY <1>1, JobSets
  <2>2. job[j].sig \in Sigs
    BY <2>1, Mine DEF JobOK
  <2>3. n \in Job /\ n.sig = job[j].sig
    BY <2>2, BlankTyped DEF Blank, Job
  <2>4. pc' = [pc EXCEPT ![j] = "fallback"] /\ job' = [job EXCEPT ![j] = n]
    BY <1>1 DEF Fails, Leave, Goto
  <2> HIDE DEF n
  <2>5. JobOK(j, "fallback", n)
    BY <1>1, <2>1, <2>2, <2>3 DEF JobOK, Exporting, RequestLabels
  <2>6. "fallback" \in Labels /\ "fallback" \notin Attempt
    BY DEF Labels, RequestLabels, Attempt
  <2>7. ~ WritingAt("fallback", n)
    BY DEF WritingAt, BeforeAt
  <2>8. OwnAt(j, "fallback", n)
    BY <2>7 DEF OwnAt, WritingAt
  <2>9. LockMoves(j, "fallback", n)
    BY <2>6, GivesBackMoves
  <2>10. QED
    BY <2>1, <2>3, <2>4, <2>5, <2>6, <2>7, <2>8, <2>9, Quiet DEF Still
<1>2. CASE j \notin Requests
  <2>1. j \in Refreshes
    BY <1>2 DEF Exporters
  <2>2. QED
    BY <1>2, <2>1, RefreshGoesOn DEF Fails, Leave, Goto
<1>3. QED
  BY <1>1, <1>2

LEMMA EndsKeeps ==
    ASSUME IInv, NEW j \in Jobs, Ends(j), GivesBack(j), Still
    PROVE  IInv'
<1>1. "over" \in Labels /\ "over" \notin Attempt
  BY DEF Labels, RequestLabels, Attempt
<1>2. ~ WritingAt("over", Blank)
  BY DEF WritingAt, BeforeAt
<1>3. JobOK(j, "over", Blank)
  BY DEF JobOK, Exporting, RequestLabels, RefreshLabels, CollectionLabels
<1>4. OwnAt(j, "over", Blank)
  BY <1>2 DEF OwnAt, WritingAt
<1>5. LockMoves(j, "over", Blank)
  BY <1>1, GivesBackMoves
<1>6. QED
  BY <1>1, <1>2, <1>3, <1>4, <1>5, BlankTyped, Quiet DEF Still, Ends, Goto

\* A step to which the lock is nothing, and that puts n in place of what job j
\* knows.
LEMMA Moves ==
    ASSUME IInv, NEW j \in Jobs, NEW l \in Labels, NEW n \in Job,
           pc' = [pc EXCEPT ![j] = l], job' = [job EXCEPT ![j] = n],
           l \notin Attempt, pc[j] \notin Attempt, lock' = lock, Still,
           JobOK(j, l, n), j \in Exporters => OwnAt(j, l, n) /\ (WritingAt(l, n) => Writing(j))
    PROVE  IInv'
<1>1. LockMoves(j, l, n)
  BY DEF LockMoves
<1>2. QED
  BY <1>1, Quiet DEF Still

----------------------------------------------------------------------------
(***************************************************************************)
(* Steps that neither publish, write nor delete.                           *)
(***************************************************************************)

LEMMA Initially == Init => IInv
<1> SUFFICES ASSUME Init PROVE IInv
  OBVIOUS
<1> DEFINE first == [sig |-> shape, snap |-> 1, by |-> Nobody]
<1>1. first \in Dir /\ first.by = Nobody /\ first.sig = shape /\ shape \in Sigs
  BY ConstantsAssumption DEF Init, Dir
<1> HIDE DEF first
<1>2. \/ row = [s \in Sigs |-> IF s = shape THEN first ELSE None] /\ objects = Files(first)
      \/ row = [s \in Sigs |-> None] /\ objects = {}
  BY DEF Init, first
<1>3. /\ \A o \in objects : o[1] = first
      /\ objects \in SUBSET (Dir \X Parts)
      /\ row \in [Sigs -> Maybe]
      /\ \A s \in Sigs : row[s] # None => s = shape /\ row[s] = first /\ objects = Files(first)
  BY <1>1, <1>2 DEF Files, Maybe
<1>4. \A i \in Exporters : i # Nobody
  BY JobSets
<1>5. WorldTyped
  <2>1. head \in 1 .. MaxSnapshot /\ faults \in 0 .. MaxFaults
    BY ConstantsAssumption DEF Init
  <2>2. young = {} /\ collected = {} /\ lost = FALSE
    BY DEF Init
  <2>3. QED
    BY <1>1, <1>3, <2>1, <2>2 DEF WorldTyped
<1>6. \A i \in Jobs : pc[i] = (IF i \in Requests THEN "plan"
                               ELSE IF i \in Refreshes THEN "scan" ELSE "change")
  BY DEF Init
<1>7. JobsTyped
  <2>1. pc \in [Jobs -> Labels]
    BY DEF Init, Labels, RequestLabels, CollectionLabels
  <2>2. job \in [Jobs -> Job]
    BY BlankTyped DEF Init
  <2>3. QED
    BY <2>1, <2>2 DEF JobsTyped, Init
<1>8. \A i \in Jobs : JobOK(i, pc[i], job[i])
  BY <1>6, JobSets DEF JobOK, Exporting, RequestLabels, RefreshLabels, CollectionLabels
<1>9. \A i \in Exporters : OwnAt(i, pc[i], job[i])
  <2>1. \A i \in Exporters : pc[i] \in {"plan", "scan"}
    BY <1>6, JobSets DEF Exporters
  <2>2. \A o \in objects : o[1].by = Nobody
    BY <1>1, <1>3
  <2>3. QED
    BY <1>4, <2>1, <2>2 DEF OwnAt
<1>10. RowOK
  BY <1>1, <1>3, <1>4 DEF RowOK, Settled, Intact, Files
<1>11. LockOK
  BY <1>6, JobSets DEF LockOK, Attempting
<1>12. QED
  BY <1>5, <1>7, <1>8, <1>9, <1>10, <1>11, TypeParts DEF IInv

\* A job reads the plan, the snapshot or the columns and has not begun yet.
LEMMA PlanKeeps == ASSUME IInv, NEW r \in Requests, Plan(r) PROVE IInv'
<1> DEFINE n == [job[r] EXCEPT !.sig = shape]
<1>1. r \in Jobs /\ r \in Exporters /\ r \notin Refreshes /\ r \notin Collections
  BY JobSets
<1>2. pc[r] = "plan" /\ OwnAt(r, pc[r], job[r]) /\ job[r] \in Job /\ shape \in Sigs
      /\ head \in 1 .. MaxSnapshot /\ faults \in 0 .. MaxFaults
  BY <1>1, Mine DEF Plan, At
<1>3. n \in Job /\ n.sig = shape
  BY <1>2 DEF Job
<1>4. pc' = [pc EXCEPT ![r] = "snapshot"] /\ job' = [job EXCEPT ![r] = n] /\ lock' = lock /\ Still
  BY <1>2 DEF Plan, Goto, Still, world, history
<1> HIDE DEF n
<1>5. JobOK(r, "snapshot", n)
  BY <1>1, <1>2, <1>3 DEF JobOK, Exporting, RequestLabels
<1>6. Writing(r) /\ \A o \in objects : o[1].by # r
  BY <1>2 DEF Writing, WritingAt, BeforeAt, OwnAt
<1>7. OwnAt(r, "snapshot", n)
  BY <1>6 DEF OwnAt
<1>8. QED
  BY <1>1, <1>2, <1>3, <1>4, <1>5, <1>6, <1>7, Moves DEF Labels, Exporting, RequestLabels, Attempt

LEMMA ReadSnapshotKeeps == ASSUME IInv, NEW j \in Exporters, ReadSnapshot(j) PROVE IInv'
<1> DEFINE n == [job[j] EXCEPT !.snap = head]
<1>1. j \in Jobs
  BY JobSets
<1>2. pc[j] = "snapshot" /\ JobOK(j, pc[j], job[j]) /\ OwnAt(j, pc[j], job[j]) /\ job[j] \in Job
      /\ head \in 1 .. MaxSnapshot /\ shape \in Sigs /\ faults \in 0 .. MaxFaults
  BY <1>1, Mine DEF ReadSnapshot, At
<1>3. n \in Job /\ n.snap = head /\ n.sig = job[j].sig /\ n.todo = job[j].todo
  BY <1>2, ConstantsAssumption DEF Job
<1>4. pc' = [pc EXCEPT ![j] = "pointer"] /\ job' = [job EXCEPT ![j] = n] /\ lock' = lock /\ Still
  BY <1>2 DEF ReadSnapshot, Goto, Still, world, history
<1> HIDE DEF n
<1>5. JobOK(j, "pointer", n)
  BY <1>2, <1>3 DEF JobOK, Exporting, RequestLabels, RefreshLabels, CollectionLabels
<1>6. Writing(j) /\ \A o \in objects : o[1].by # j
  BY <1>2 DEF Writing, WritingAt, BeforeAt, OwnAt
<1>7. OwnAt(j, "pointer", n)
  BY <1>6 DEF OwnAt
<1>8. QED
  BY <1>1, <1>2, <1>3, <1>4, <1>5, <1>6, <1>7, Moves DEF Labels, Exporting, RequestLabels, Attempt

\* A job goes from one label to another with what it knows.
LEMMA GoesOn ==
    ASSUME IInv, NEW j \in Exporters,
           pc[j] \in {"pointer", "try", "busy", "wait"},
           NEW l \in {"try", "busy", "wait", "check"},
           pc' = [pc EXCEPT ![j] = l], job' = job, LockMoves(j, l, job[j]), Still
    PROVE  IInv'
<1>1. j \in Jobs
  BY JobSets
<1>2. JobOK(j, pc[j], job[j]) /\ OwnAt(j, pc[j], job[j]) /\ job[j] \in Job /\ job \in [Jobs -> Job]
  BY <1>1, Mine
<1>3. job' = [job EXCEPT ![j] = job[j]]
  BY <1>2
<1>4. JobOK(j, l, job[j])
  BY <1>2 DEF JobOK, Exporting, RequestLabels, RefreshLabels, CollectionLabels
<1>5. Writing(j) /\ \A o \in objects : o[1].by # j
  BY <1>2 DEF Writing, WritingAt, BeforeAt, OwnAt
<1>6. OwnAt(j, l, job[j])
  BY <1>5 DEF OwnAt
<1>7. l \in Labels
  BY DEF Labels, Exporting, RequestLabels
<1>8. QED
  BY <1>1, <1>2, <1>3, <1>4, <1>5, <1>6, <1>7, Quiet DEF Still

\* What the world and the history leave alone.
LEMMA StillHere ==
    ASSUME IInv, UNCHANGED <<head, shape, row, objects, young, history>>
    PROVE  Still
BY TypeParts DEF IInv, WorldTyped, Still, history

\* The pointer of its signature, as a job finds it.
LEMMA RowFound ==
    ASSUME IInv, NEW j \in Jobs, job[j].sig \in Sigs, RowOf(j) # None
    PROVE  RowOf(j) \in Dir /\ Settled(RowOf(j)) /\ Intact(RowOf(j)) /\ Live(RowOf(j))
BY Pointer DEF RowOf, Live

LEMMA ReadPointerKeeps == ASSUME IInv, NEW j \in Exporters, ReadPointer(j) PROVE IInv'
<1>1. j \in Jobs /\ pc[j] = "pointer" /\ lock' = lock /\ job[j].sig \in Sigs
  BY JobSets, Mine DEF ReadPointer, At, world, JobOK, Exporting
<1>2. Still
  BY StillHere DEF ReadPointer, world
<1>3. GivesBack(j)
  BY <1>1 DEF GivesBack, Attempt
<1>4. CASE Current(j)
  BY <1>1, <1>2, <1>3, <1>4, RowFound, ReturnKeeps DEF ReadPointer, Current, Exporting
<1>5. CASE ~ Current(j)
  <2>1. LockMoves(j, "try", job[j])
    BY <1>1 DEF LockMoves, Attempt
  <2>2. QED
    BY <1>1, <1>2, <1>5, <2>1, GoesOn DEF ReadPointer, Goto
<1>6. QED
  BY <1>4, <1>5

LEMMA AcquireMoves ==
    ASSUME NEW j \in Exporters, job[j].sig \in Sigs, pc[j] \notin Attempt, Acquire(j)
    PROVE  LockMoves(j, "check", job[j])
BY DEF Acquire, Seize, LockMoves, Attempt

LEMMA TryLockKeeps == ASSUME IInv, NEW j \in Exporters, TryLock(j) PROVE IInv'
<1>1. j \in Jobs /\ pc[j] = "try" /\ job[j].sig \in Sigs /\ job' = job
  BY JobSets, Mine DEF TryLock, At, JobOK, Exporting
<1>2. Still
  BY StillHere DEF TryLock
<1>3. CASE Acquire(j) /\ Goto(j, "check")
  BY <1>1, <1>2, <1>3, AcquireMoves, GoesOn DEF Goto, Attempt
<1>4. CASE Goto(j, "busy") /\ UNCHANGED lock
  <2>1. LockMoves(j, "busy", job[j])
    BY <1>1, <1>4 DEF LockMoves, Attempt
  <2>2. QED
    BY <1>1, <1>2, <1>4, <2>1, GoesOn DEF Goto
<1>5. QED
  BY <1>3, <1>4 DEF TryLock

LEMMA ReadBusyKeeps == ASSUME IInv, NEW j \in Exporters, ReadBusy(j) PROVE IInv'
<1>1. j \in Jobs /\ pc[j] = "busy" /\ lock' = lock /\ job[j].sig \in Sigs
  BY JobSets, Mine DEF ReadBusy, At, world, JobOK, Exporting
<1>2. Still
  BY StillHere DEF ReadBusy, world
<1>3. GivesBack(j)
  BY <1>1 DEF GivesBack, Attempt
<1>4. CASE RowOf(j) # None
  BY <1>1, <1>2, <1>3, <1>4, RowFound, ReturnKeeps DEF ReadBusy, Exporting
<1>5. CASE RowOf(j) = None
  <2>1. LockMoves(j, "wait", job[j])
    BY <1>1 DEF LockMoves, Attempt
  <2>2. QED
    BY <1>1, <1>2, <1>5, <2>1, GoesOn DEF ReadBusy, Goto
<1>6. QED
  BY <1>4, <1>5

LEMMA WaitForLockKeeps == ASSUME IInv, NEW j \in Exporters, WaitForLock(j) PROVE IInv'
<1>1. j \in Jobs /\ pc[j] = "wait" /\ job[j].sig \in Sigs
  BY JobSets, Mine DEF WaitForLock, At, JobOK, Exporting
<1>2. Still
  BY StillHere DEF WaitForLock
<1>3. CASE Acquire(j) /\ Goto(j, "check") /\ UNCHANGED job
  BY <1>1, <1>2, <1>3, AcquireMoves, GoesOn DEF Goto, Attempt
<1>4. CASE Fails(j) /\ UNCHANGED lock
  BY <1>1, <1>2, <1>4, FailsKeeps DEF GivesBack, Attempt, Exporting
<1>5. QED
  BY <1>3, <1>4 DEF WaitForLock

\* The re-check under the lock: an export that somebody else has made, or a
\* directory that nobody has made before.
LEMMA RecheckKeeps == ASSUME IInv, NEW j \in Exporters, Recheck(j) PROVE IInv'
<1>1. j \in Jobs /\ pc[j] = "check"
  BY JobSets DEF Recheck, At
<1>2. JobOK(j, pc[j], job[j]) /\ OwnAt(j, pc[j], job[j]) /\ job[j] \in Job
  BY <1>1, Mine
<1>3. job[j].sig \in Sigs /\ job[j].snap \in 1 .. MaxSnapshot
  BY <1>1, <1>2 DEF JobOK, Exporting
<1>4. Still
  BY StillHere DEF Recheck
<1>5. CASE Current(j)
  <2>1. GivesBack(j)
    BY <1>5 DEF Recheck, GivesBack
  <2>2. CASE Return(j, RowOf(j))
    BY <1>1, <1>3, <1>4, <1>5, <2>1, <2>2, RowFound, ReturnKeeps DEF Current, Exporting
  <2>3. CASE Fails(j)
    BY <1>1, <1>4, <2>1, <2>3, FailsKeeps DEF Exporting
  <2>4. QED
    BY <1>5, <2>2, <2>3 DEF Recheck
<1>6. CASE ~ Current(j)
  <2> DEFINE n == [job[j] EXCEPT !.dir = NewDir(j), !.parts = {}]
  <2>1. NewDir(j) = [sig |-> job[j].sig, snap |-> job[j].snap, by |-> j] /\ NewDir(j) \in Dir
    BY <1>1, <1>3 DEF NewDir, Dir
  <2>2. /\ n \in Job /\ n.dir = NewDir(j) /\ n.parts = {} /\ n.sig = job[j].sig
        /\ n.snap = job[j].snap /\ n.todo = job[j].todo
    BY <1>2, <2>1 DEF Job, Maybe
  <2>3. pc' = [pc EXCEPT ![j] = "copy"] /\ lock' = lock
    BY <1>6 DEF Recheck, Goto
  <2>4. job' = [job EXCEPT ![j] = n]
    BY <1>6 DEF Recheck
  <2> HIDE DEF n
  <2>5. JobOK(j, "copy", n)
    BY <1>1, <1>2, <2>1, <2>2 DEF JobOK, Exporting, RequestLabels, RefreshLabels, CollectionLabels, DirFor
  <2>6. Writing(j) /\ \A o \in objects : o[1].by # j
    BY <1>1, <1>2 DEF Writing, WritingAt, BeforeAt, OwnAt
  <2>7. row[n.sig] = None \/ row[n.sig].snap # n.snap
    BY <1>6, <2>2 DEF Current, RowOf
  <2>8. OwnAt(j, "copy", n)
    BY <2>2, <2>6, <2>7 DEF OwnAt, BeforeAt
  <2>9. LockMoves(j, "copy", n)
    BY <1>1, <2>2, <2>3 DEF LockMoves, Attempt
  <2>10. "copy" \in Labels
    BY DEF Labels, Exporting, RequestLabels
  <2>11. QED
    BY <1>1, <1>4, <2>2, <2>3, <2>4, <2>5, <2>6, <2>8, <2>9, <2>10, Quiet DEF Still
<1>7. QED
  BY <1>5, <1>6

\* What a sweep lists is not young, so no attempt under way writes it; nor is
\* it the export that has just been published.
LEMMA ListKeeps == ASSUME IInv, NEW j \in Exporters, List(j) PROVE IInv'
<1>1. j \in Jobs /\ pc[j] = "list"
  BY JobSets DEF List, At
<1>2. /\ JobOK(j, pc[j], job[j]) /\ OwnAt(j, pc[j], job[j]) /\ job[j] \in Job
      /\ objects \in SUBSET (Dir \X Parts)
  BY <1>1, Mine
<1>3. PICK N \in Newest(DirsOf(job[j].sig)) :
        job' = [job EXCEPT ![j].listed =
                  { o \in objects : o[1] \in DirsOf(job[j].sig) \ Kept(N, job[j].dir) }]
  BY DEF List
<1> DEFINE stale == DirsOf(job[j].sig) \ Kept(N, job[j].dir)
           L == { o \in objects : o[1] \in stale }
           n == [job[j] EXCEPT !.listed = L]
<1>4. L \subseteq objects /\ \A o \in L : o[1].sig = job[j].sig /\ o[1] \notin young /\ o[1] # job[j].dir
  BY DEF DirsOf, Kept
<1>5. job' = [job EXCEPT ![j] = n]
  BY <1>3
<1> HIDE DEF L
<1>6. /\ n \in Job /\ n.listed = L /\ n.dir = job[j].dir /\ n.parts = job[j].parts
      /\ n.sig = job[j].sig /\ n.snap = job[j].snap /\ n.todo = job[j].todo
  BY <1>2, <1>4 DEF Job
<1> HIDE DEF n
<1>7. Still /\ lock' = lock /\ pc' = [pc EXCEPT ![j] = "sweep"]
  BY StillHere DEF List, world, Goto
<1>8. JobOK(j, "sweep", n)
  BY <1>1, <1>2, <1>6 DEF JobOK, Exporting, RequestLabels, RefreshLabels, CollectionLabels, DirFor
<1>9. ASSUME NEW o \in L PROVE o[1] \notin young /\ row[o[1].sig] # o[1] /\ Settled(o[1])
  <2>1. o \in objects /\ o[1] \in Dir /\ o \in Dir \X Parts /\ Parts # {}
    BY <1>2, <1>4
  <2>2. row[job[j].sig] \in {None, job[j].dir} \cup young
    BY <1>1, <1>2, <2>1 DEF OwnAt
  <2>3. row[o[1].sig] # o[1]
    BY <1>4, <2>1, <2>2, JobSets
  <2>4. ASSUME NEW i \in Exporters, o[1].by = i PROVE ~ Writing(i)
    <3>1. OwnAt(i, pc[i], job[i])
      BY DEF IInv
    <3>2. QED
      BY <1>4, <2>1, <2>4, <3>1 DEF OwnAt, Writing, WritingAt
  <2>5. QED
    BY <1>4, <2>3, <2>4 DEF Settled
<1>10. OwnAt(j, "sweep", n)
  <2>1. ~ BeforeAt("sweep", n)
    BY DEF BeforeAt
  <2>2. QED
    BY <1>1, <1>2, <1>6, <1>9, <2>1 DEF OwnAt
<1>11. ~ WritingAt("sweep", n)
  BY DEF WritingAt, BeforeAt
<1>12. LockMoves(j, "sweep", n)
  BY <1>1, <1>6, <1>7 DEF LockMoves, Attempt
<1>13. "sweep" \in Labels
  BY DEF Labels, Exporting, RequestLabels
<1>14. QED
  BY <1>1, <1>5, <1>6, <1>7, <1>8, <1>10, <1>11, <1>12, <1>13, Quiet DEF Still

LEMMA UnlockKeeps == ASSUME IInv, NEW j \in Exporters, Unlock(j) PROVE IInv'
<1>1. j \in Jobs /\ pc[j] = "sweep" /\ GivesBack(j)
  BY JobSets DEF Unlock, At, GivesBack
<1>2. JobOK(j, pc[j], job[j]) /\ OwnAt(j, pc[j], job[j])
  BY <1>1, Mine
<1>3. Still
  BY StillHere DEF Unlock
<1>4. job[j].dir \in Dir /\ Settled(job[j].dir) /\ (Live(job[j].dir) => Intact(job[j].dir))
  BY <1>1, <1>2 DEF JobOK, OwnAt, DirFor, Dir, Exporting
<1>5. CASE Return(j, job[j].dir)
  BY <1>1, <1>3, <1>4, <1>5, ReturnKeeps DEF Exporting
<1>6. CASE Fails(j)
  BY <1>1, <1>3, <1>6, FailsKeeps DEF Exporting
<1>7. QED
  BY <1>5, <1>6 DEF Unlock

LEMMA FallbackKeeps == ASSUME IInv, NEW r \in Requests, Fallback(r) PROVE IInv'
<1>1. r \in Jobs /\ r \in Exporters /\ pc[r] = "fallback" /\ lock' = lock
  BY JobSets DEF Fallback, At, world
<1>2. job[r].sig \in Sigs
  BY <1>1, Mine DEF JobOK
<1>3. Still
  BY StillHere DEF Fallback, world
<1>4. GivesBack(r)
  BY <1>1 DEF GivesBack, Attempt
<1>5. CASE RowOf(r) = None
  BY <1>1, <1>3, <1>4, <1>5, EndsKeeps DEF Fallback
<1>6. CASE RowOf(r) # None
  BY <1>1, <1>2, <1>3, <1>4, <1>6, RowFound, ReturnKeeps DEF Fallback
<1>7. QED
  BY <1>5, <1>6

\* A request is vended the objects that are there.
LEMMA VendKeeps == ASSUME IInv, NEW r \in Requests, Vend(r) PROVE IInv'
<1> DEFINE P == { p \in Parts : <<job[r].dir, p>> \in objects }
           n == [job[r] EXCEPT !.parts = P]
<1>1. r \in Jobs /\ r \in Exporters /\ r \notin Refreshes /\ r \notin Collections /\ pc[r] = "vend"
  BY JobSets DEF Vend, At
<1>2. JobOK(r, pc[r], job[r]) /\ OwnAt(r, pc[r], job[r]) /\ job[r] \in Job
  BY <1>1, Mine
<1>3. Still /\ lock' = lock
  BY StillHere DEF Vend, world
<1>4. n \in Job /\ n.parts = P /\ n.dir = job[r].dir
  BY <1>2 DEF Job
<1>5. pc' = [pc EXCEPT ![r] = "vended"] /\ job' = [job EXCEPT ![r] = n]
  BY DEF Vend, Goto
<1>6. \A p \in Parts : <<n.dir, p>> \in objects => p \in n.parts
  BY <1>4
<1> HIDE DEF n, P
<1>7. JobOK(r, "vended", n)
  BY <1>1, <1>2, <1>4 DEF JobOK, Exporting, RequestLabels
<1>8. OwnAt(r, "vended", n)
  <2>1. Settled(n.dir) /\ (Live(n.dir) => Intact(n.dir))
    BY <1>1, <1>2, <1>4 DEF OwnAt
  <2>2. ~ BeforeAt("vended", n)
    BY DEF BeforeAt
  <2>3. QED
    BY <1>6, <2>1, <2>2 DEF OwnAt, Intact
<1>9. ~ WritingAt("vended", n) /\ "vended" \in Labels
  BY DEF WritingAt, BeforeAt, Labels, RequestLabels
<1>10. QED
  BY <1>1, <1>3, <1>4, <1>5, <1>7, <1>8, <1>9, Moves DEF Attempt

LEMMA ExpireKeeps == ASSUME IInv, NEW r \in Requests, Expire(r) PROVE IInv'
BY JobSets, StillHere, EndsKeeps DEF Expire, At, world, GivesBack, Attempt

----------------------------------------------------------------------------
(***************************************************************************)
(* Refreshes and collections, up to what they delete.                      *)
(***************************************************************************)

Dropping == {"change", "scan", "columns", "next", "find", "clear"}

\* A refresh begins no export, except of the signature it still has to.
LEMMA DropMoves ==
    ASSUME IInv, NEW j \in Refreshes \cup Collections, NEW l \in Dropping, NEW n \in Job,
           pc[j] \in Dropping, pc' = [pc EXCEPT ![j] = l], job' = [job EXCEPT ![j] = n],
           lock' = lock, Still,
           j \in Refreshes => l # "change" /\ (BeforeAt(l, n) => BeforeAt(pc[j], job[j])),
           j \in Collections => l # "columns",
           l \in {"find", "clear"} => n.victim \in Sigs
    PROVE  IInv'
<1>1. j \in Jobs /\ j \notin Requests /\ (j \in Exporters => j \in Refreshes)
      /\ (j \in Refreshes => j \notin Collections)
  BY JobSets DEF Exporters
<1>2. JobOK(j, l, n) /\ l \in Labels /\ l \notin Attempt /\ pc[j] \notin Attempt
  BY <1>1 DEF JobOK, Dropping, Exporting, RefreshLabels, CollectionLabels, Labels, Attempt
<1>3. ASSUME j \in Exporters PROVE OwnAt(j, l, n) /\ (WritingAt(l, n) => Writing(j))
  <2>1. BeforeAt(l, n) => BeforeAt(pc[j], job[j])
    BY <1>1, <1>3
  <2>2. OwnAt(j, pc[j], job[j])
    BY <1>3 DEF IInv
  <2>3. QED
    BY <2>1, <2>2 DEF OwnAt, Writing, WritingAt, Dropping
<1>4. QED
  BY <1>1, <1>2, <1>3, Moves

LEMMA ChangeKeeps == ASSUME IInv, NEW c \in Collections, Change(c) PROVE IInv'
<1>1. c \in Jobs /\ c \notin Refreshes /\ pc[c] = "change"
  BY JobSets DEF Change, At
<1>2. job[c] \in Job /\ job \in [Jobs -> Job]
  BY <1>1, Mine
<1>3. Still
  <2>1. head \in 1 .. MaxSnapshot /\ shape \in Sigs /\ faults \in 0 .. MaxFaults
    BY <1>1, Mine
  <2>2. head' \in 1 .. MaxSnapshot /\ shape' \in Sigs
    BY <2>1, ConstantsAssumption DEF Change
  <2>3. UNCHANGED <<row, objects, young, faults, lost, collected>>
    BY DEF Change, history
  <2>4. QED
    BY <2>1, <2>2, <2>3 DEF Still
<1>4. pc' = [pc EXCEPT ![c] = "scan"] /\ job' = [job EXCEPT ![c] = job[c]] /\ lock' = lock
  BY <1>2 DEF Change, Goto
<1>5. QED
  BY <1>1, <1>2, <1>3, <1>4, DropMoves DEF Dropping

LEMMA ScanKeeps == ASSUME IInv, NEW j \in Refreshes \cup Collections, Scan(j) PROVE IInv'
<1>1. j \in Jobs /\ pc[j] = "scan" /\ (j \in Refreshes <=> j \notin Collections)
  BY JobSets DEF Scan, At
<1>2. PICK S \in SUBSET Known : job' = [job EXCEPT ![j].todo = S]
  BY DEF Scan
<1> DEFINE n == [job[j] EXCEPT !.todo = S]
           l == IF j \in Refreshes THEN "columns" ELSE "next"
<1>3. n \in Job /\ job' = [job EXCEPT ![j] = n]
  BY <1>1, <1>2, Mine DEF Job, Known
<1>4. Still /\ lock' = lock /\ pc' = [pc EXCEPT ![j] = l]
  BY StillHere DEF Scan, world, Goto
<1>5. l \in Dropping /\ (j \in Refreshes => l # "change") /\ (j \in Collections => l # "columns")
      /\ l \notin {"find", "clear"} /\ pc[j] \in Dropping /\ BeforeAt(pc[j], job[j])
  BY <1>1 DEF Dropping, BeforeAt
<1> HIDE DEF n, l
<1>6. QED
  BY <1>3, <1>4, <1>5, DropMoves

LEMMA ReadColumnsKeeps == ASSUME IInv, NEW f \in Refreshes, ReadColumns(f) PROVE IInv'
<1> DEFINE n == [job[f] EXCEPT !.sig = shape]
<1>1. f \in Jobs /\ pc[f] = "columns" /\ f \notin Collections
  BY JobSets DEF ReadColumns, At
<1>2. n \in Job /\ job' = [job EXCEPT ![f] = n]
  BY <1>1, Mine DEF ReadColumns, Job
<1>3. Still /\ lock' = lock /\ pc' = [pc EXCEPT ![f] = "next"]
  BY StillHere DEF ReadColumns, world, Goto
<1>4. BeforeAt(pc[f], job[f]) /\ pc[f] \in Dropping
  BY <1>1 DEF BeforeAt, Dropping
<1> HIDE DEF n
<1>5. QED
  BY <1>1, <1>2, <1>3, <1>4, DropMoves DEF Dropping

\* The signature that a refresh exports leaves what it still has to do.
LEMMA RefreshKeeps == ASSUME IInv, NEW f \in Refreshes, Refresh(f) PROVE IInv'
<1> DEFINE n == [job[f] EXCEPT !.todo = @ \ {job[f].sig}]
<1>1. f \in Jobs /\ f \in Exporters /\ f \notin Requests /\ f \notin Collections
      /\ pc[f] = "next" /\ job[f].sig \in job[f].todo
  BY JobSets DEF Refresh, At
<1>2. job[f] \in Job /\ OwnAt(f, pc[f], job[f])
  BY <1>1, Mine
<1>3. n \in Job /\ n.sig = job[f].sig /\ n.todo = job[f].todo \ {job[f].sig}
      /\ job' = [job EXCEPT ![f] = n]
  BY <1>1, <1>2 DEF Refresh, Job
<1>4. Still /\ lock' = lock /\ pc' = [pc EXCEPT ![f] = "snapshot"]
  BY StillHere DEF Refresh, world, Goto
<1> HIDE DEF n
<1>5. job[f].sig \in Sigs
  BY <1>1, <1>2 DEF Job
<1>6. JobOK(f, "snapshot", n)
  BY <1>1, <1>3, <1>5 DEF JobOK, Exporting, RefreshLabels
<1>7. Writing(f) /\ \A o \in objects : o[1].by # f
  BY <1>1, <1>2 DEF OwnAt, BeforeAt, Writing, WritingAt
<1>8. OwnAt(f, "snapshot", n)
  BY <1>7 DEF OwnAt
<1>9. QED
  BY <1>1, <1>3, <1>4, <1>6, <1>7, <1>8, Moves DEF Labels, Exporting, RequestLabels, Attempt

LEMMA DropKeeps == ASSUME IInv, NEW j \in Refreshes \cup Collections, Drop(j) PROVE IInv'
<1>1. j \in Jobs /\ pc[j] = "next" /\ (j \in Refreshes <=> j \notin Collections)
  BY JobSets DEF Drop, At
<1>2. job[j] \in Job /\ pc \in [Jobs -> Labels]
  BY <1>1, Mine
<1>3. PICK s \in job[j].todo \ {job[j].sig} :
        LET left == [job[j] EXCEPT !.todo = @ \ {s}]
        IN  IF j \in Refreshes /\ row[s] = None
            THEN job' = [job EXCEPT ![j] = left] /\ UNCHANGED pc
            ELSE job' = [job EXCEPT ![j] = [left EXCEPT !.victim = s]] /\ Goto(j, "find")
  BY DEF Drop
<1>4. Still /\ lock' = lock /\ s \in Sigs /\ pc[j] \in Dropping
  BY <1>1, <1>2, StillHere DEF Drop, world, Job, Dropping
<1> DEFINE left == [job[j] EXCEPT !.todo = @ \ {s}]
           n == [left EXCEPT !.victim = s]
<1>5. /\ left \in Job /\ left.sig = job[j].sig /\ left.todo = job[j].todo \ {s}
      /\ n \in Job /\ n.sig = job[j].sig /\ n.todo = job[j].todo \ {s} /\ n.victim = s
  BY <1>2, <1>4 DEF Job
<1>6. \/ job' = [job EXCEPT ![j] = left] /\ UNCHANGED pc
      \/ job' = [job EXCEPT ![j] = n] /\ pc' = [pc EXCEPT ![j] = "find"]
  BY <1>3 DEF Goto
<1> HIDE DEF left, n
<1>7. (BeforeAt("next", left) \/ BeforeAt("find", n)) => BeforeAt(pc[j], job[j])
  BY <1>1, <1>5 DEF BeforeAt
<1>8. UNCHANGED pc => pc' = [pc EXCEPT ![j] = "next"]
  BY <1>1, <1>2
<1>9. QED
  BY <1>1, <1>4, <1>5, <1>6, <1>7, <1>8, DropMoves DEF Dropping

LEMMA FindKeeps == ASSUME IInv, NEW j \in Refreshes \cup Collections, Find(j) PROVE IInv'
<1> DEFINE L == { o \in objects : o[1].sig = job[j].victim }
           n == [job[j] EXCEPT !.listed = L]
<1>1. j \in Jobs /\ pc[j] = "find" /\ (j \in Refreshes <=> j \notin Collections)
  BY JobSets DEF Find, At
<1>2. job[j] \in Job /\ job[j].victim \in Sigs /\ objects \in SUBSET (Dir \X Parts)
  BY <1>1, Mine DEF JobOK
<1>3. L \subseteq objects /\ job' = [job EXCEPT ![j] = n]
  BY DEF Find
<1> HIDE DEF L
<1>4. n \in Job /\ n.sig = job[j].sig /\ n.todo = job[j].todo /\ n.victim = job[j].victim
  BY <1>2, <1>3 DEF Job
<1>5. Still /\ lock' = lock /\ pc' = [pc EXCEPT ![j] = "clear"]
  BY StillHere DEF Find, world, Goto
<1> HIDE DEF n
<1>6. BeforeAt("clear", n) => BeforeAt(pc[j], job[j])
  BY <1>1, <1>4 DEF BeforeAt
<1>7. QED
  BY <1>1, <1>2, <1>3, <1>4, <1>5, <1>6, DropMoves DEF Dropping

LEMMA NoneLeftKeeps == ASSUME IInv, NEW j \in Refreshes \cup Collections, NoneLeft(j) PROVE IInv'
BY JobSets, StillHere, EndsKeeps DEF NoneLeft, At, world, GivesBack, Attempt

\* What a fault leaves alone, but for the lock.
LEMMA FaultStill ==
    ASSUME IInv, Fault, lost' = lost, UNCHANGED <<head, shape, row, objects, young>>
    PROVE  Still
<1>1. faults' \in 0 .. MaxFaults /\ head \in 1 .. MaxSnapshot /\ shape \in Sigs
  BY TypeParts, ConstantsAssumption DEF IInv, WorldTyped, Fault
<1>2. QED
  BY <1>1 DEF Fault, Still

LEMMA ClearFailsKeeps == ASSUME IInv, NEW j \in Refreshes \cup Collections, ClearFails(j) PROVE IInv'
<1> DEFINE n == [job[j] EXCEPT !.listed = {}, !.victim = None]
<1>1. j \in Jobs /\ pc[j] \in {"find", "clear"} /\ (j \in Refreshes <=> j \notin Collections)
  BY JobSets DEF ClearFails
<1>2. job[j] \in Job
  BY <1>1, Mine
<1>3. n \in Job /\ n.sig = job[j].sig /\ n.todo = job[j].todo /\ job' = [job EXCEPT ![j] = n]
  BY <1>2 DEF Job, ClearFails
<1>4. Still /\ lock' = lock /\ pc' = [pc EXCEPT ![j] = "next"]
  BY FaultStill DEF ClearFails, world, Goto
<1> HIDE DEF n
<1>5. BeforeAt("next", n) => BeforeAt(pc[j], job[j])
  BY <1>1, <1>3 DEF BeforeAt
<1>6. QED
  BY <1>1, <1>3, <1>4, <1>5, DropMoves DEF Dropping

LEMMA ExportFailsKeeps == ASSUME IInv, NEW j \in Exporters, ExportFails(j) PROVE IInv'
BY FaultStill, FailsKeeps DEF ExportFails, GivesBack, Exporting

LEMMA CrashKeeps == ASSUME IInv, NEW j \in Jobs, Crash(j) PROVE IInv'
BY FaultStill, EndsKeeps DEF Crash, GivesBack

----------------------------------------------------------------------------
(***************************************************************************)
(* Steps that write, publish and delete.                                   *)
(***************************************************************************)

\* The invariant from its parts, when job j has moved.
LEMMA Rebuilt ==
    ASSUME IInv, NEW j \in Jobs, NEW l \in Labels, NEW b \in Job,
           pc' = [pc EXCEPT ![j] = l], job' = [job EXCEPT ![j] = b],
           JobOK(j, l, b), LockMoves(j, l, b), lost' = lost,
           WorldTyped', RowOK',
           \A i \in Exporters : OwnAt(i, pc[i], job[i])'
    PROVE  IInv'
<1>1. JobsTyped' /\ LockOK'
  BY LockStep
<1>2. TypeOK'
  BY <1>1 DEF TypeOK, WorldTyped, JobsTyped, Labels, RequestLabels, RefreshLabels,
              CollectionLabels, Exporting
<1>3. \A i \in Jobs : JobOK(i, pc'[i], job'[i])
  BY Mine DEF IInv
<1>4. QED
  BY <1>1, <1>2, <1>3 DEF IInv

LEMMA WorldHere == ASSUME IInv PROVE WorldTyped
BY TypeParts DEF IInv

\* What others own is none of the directory that a job writes.
LEMMA CopyKeeps == ASSUME IInv, NEW j \in Exporters, Copy(j) PROVE IInv'
<1>1. j \in Jobs /\ pc[j] = "copy" /\ Writing(j)
  BY JobSets DEF Copy, At, Writing, WritingAt
<1>2. /\ JobOK(j, pc[j], job[j]) /\ OwnAt(j, pc[j], job[j]) /\ job[j] \in Job
      /\ pc \in [Jobs -> Labels] /\ job \in [Jobs -> Job]
  BY <1>1, Mine
<1>3. PICK p \in Parts \ job[j].parts :
        /\ job' = [job EXCEPT ![j].parts = @ \cup {p}]
        /\ objects' = objects \cup {<<job[j].dir, p>>}
  BY DEF Copy
<1> DEFINE D == job[j].dir
           n == [job[j] EXCEPT !.parts = @ \cup {p}]
<1>4. D \in Dir /\ D.by = j /\ D = DirFor(j, job[j])
  BY <1>1, <1>2 DEF JobOK, DirFor, Dir, Exporting, Jobs
<1>5. /\ n \in Job /\ n.dir = D /\ n.sig = job[j].sig /\ n.snap = job[j].snap
      /\ n.parts = job[j].parts \cup {p} /\ n.todo = job[j].todo
      /\ job' = [job EXCEPT ![j] = n]
  BY <1>2, <1>3 DEF Job
<1> HIDE DEF n
<1>6. pc' = [pc EXCEPT ![j] = "copy"] /\ lock' = lock /\ lost' = lost /\ row' = row
      /\ collected' = collected /\ young' = young \cup {D}
  BY <1>1, <1>2 DEF Copy, history
<1>7. /\ pc'[j] = "copy" /\ job'[j] = n
      /\ \A i \in Exporters : i # j => pc'[i] = pc[i] /\ job'[i] = job[i]
  BY <1>1, <1>2, <1>5, <1>6, JobSets
<1>8. JobOK(j, "copy", n) /\ LockMoves(j, "copy", n) /\ "copy" \in Labels
  BY <1>1, <1>2, <1>4, <1>5, <1>6
     DEF JobOK, LockMoves, Attempt, Exporting, DirFor, Labels, RequestLabels
<1>9. WorldTyped'
  BY <1>3, <1>4, <1>6, WorldHere DEF WorldTyped, Copy, history
<1>10. \A i \in Exporters : Writing(i)' = Writing(i)
  BY <1>1, <1>7 DEF Writing, WritingAt
<1>11. \A d : Settled(d)' = Settled(d) /\ (Settled(d) => d # D /\ Live(d)' = Live(d))
  BY <1>1, <1>4, <1>6, <1>10 DEF Settled, Live
<1>12. \A d : Intact(d) => Intact(d)'
  BY <1>3, <1>6 DEF Intact
<1>13. ASSUME NEW i \in Exporters, i # j, NEW l, NEW b, l = pc[i], b = job[i]
       PROVE  OwnAt(i, pc[i], job[i])'
  <2>0. OwnAt(i, l, b)
    BY <1>13 DEF IInv
  <2>1. BeforeAt(l, b) => \A o \in objects' : o[1].by # i
    BY <1>3, <1>4, <1>13, <2>0 DEF OwnAt
  <2>2. l = "copy" =>
          /\ \A o \in objects' : o[1].by = i => o[1] \in young'
          /\ \A q \in b.parts : <<b.dir, q>> \in objects' \cup collected'
          /\ b.parts # {} => b.dir \in young'
          /\ ~ lost' => row'[b.sig] = None \/ row'[b.sig].snap # b.snap
    BY <1>3, <1>4, <1>6, <1>13, <2>0 DEF OwnAt
  <2>3. l \in {"list", "sweep"} => Parts = {} \/ row'[b.sig] \in {None, b.dir} \cup young'
    BY <1>6, <2>0 DEF OwnAt
  <2>4. l = "sweep" =>
          \A o \in b.listed : o[1] \notin young' /\ row'[o[1].sig] # o[1] /\ Settled(o[1])'
    BY <1>6, <1>11, <2>0 DEF OwnAt
  <2>5. l \in {"list", "sweep", "vend", "vended"} =>
          Settled(b.dir)' /\ (Live(b.dir)' => Intact(b.dir)')
    BY <1>11, <1>12, <2>0 DEF OwnAt
  <2>6. l = "vended" /\ Live(b.dir)' =>
          \A q \in Parts : <<b.dir, q>> \in collected' \/ (q \in b.parts /\ <<b.dir, q>> \in objects')
    BY <1>3, <1>6, <1>11, <2>0 DEF OwnAt
  <2>7. OwnAt(i, l, b)'
    BY <2>1, <2>2, <2>3, <2>4, <2>5, <2>6 DEF OwnAt, BeforeAt
  <2>8. QED
    BY <1>7, <1>13, <2>7
<1>14. OwnAt(j, pc[j], job[j])'
  <2>1. /\ \A o \in objects' : o[1].by = j => o[1] \in young'
        /\ \A q \in n.parts : <<D, q>> \in objects' \cup collected'
        /\ D \in young'
        /\ ~ lost' => row'[n.sig] = None \/ row'[n.sig].snap # n.snap
    BY <1>1, <1>2, <1>3, <1>4, <1>5, <1>6 DEF OwnAt
  <2>2. QED
    BY <1>5, <1>7, <2>1 DEF OwnAt, BeforeAt
<1>15. \A i \in Exporters : OwnAt(i, pc[i], job[i])'
  BY <1>13, <1>14
<1>16. RowOK'
  BY <1>6, <1>11, <1>12 DEF IInv, RowOK
<1>17. QED
  BY <1>1, <1>5, <1>6, <1>8, <1>9, <1>15, <1>16, Rebuilt

\* The pointer moves to a directory that is whole.  Nobody else is about to
\* copy for the signature, as long as locks hold.
LEMMA PublishKeeps == ASSUME IInv, NEW j \in Exporters, Publish(j) PROVE IInv'
<1> DEFINE D == job[j].dir
<1>1. j \in Jobs /\ pc[j] = "copy" /\ Writing(j) /\ job[j].parts = Parts
  BY JobSets DEF Publish, At, Writing, WritingAt
<1>2. /\ JobOK(j, pc[j], job[j]) /\ OwnAt(j, pc[j], job[j]) /\ job[j] \in Job
      /\ pc \in [Jobs -> Labels] /\ job \in [Jobs -> Job] /\ row \in [Sigs -> Maybe]
  BY <1>1, Mine
<1>3. /\ D \in Dir /\ D.by = j /\ D.sig = job[j].sig /\ D.sig \in Sigs
      /\ D = DirFor(j, job[j])
  BY <1>1, <1>2 DEF JobOK, DirFor, Dir, Exporting, Jobs
<1>4. /\ pc' = [pc EXCEPT ![j] = "list"] /\ job' = [job EXCEPT ![j] = job[j]]
      /\ UNCHANGED <<objects, young, lock, lost, collected>>
  BY <1>2 DEF Publish, Goto, history
<1>5. row' \in [Sigs -> Maybe] /\ \A s \in Sigs : row'[s] = IF s = D.sig THEN D ELSE row[s]
  BY <1>2, <1>3 DEF Publish, Maybe
<1>6. /\ pc'[j] = "list" /\ job'[j] = job[j]
      /\ \A i \in Exporters : i # j => pc'[i] = pc[i] /\ job'[i] = job[i]
  BY <1>1, <1>2, <1>4, JobSets
<1>7. JobOK(j, "list", job[j]) /\ LockMoves(j, "list", job[j]) /\ "list" \in Labels
  BY <1>1, <1>2, <1>3, <1>4
     DEF JobOK, LockMoves, Attempt, Exporting, Labels, RequestLabels, RefreshLabels, CollectionLabels
<1>8. WorldTyped'
  BY <1>4, <1>5, WorldHere DEF WorldTyped, Publish, history
<1>9. ~ Writing(j)' /\ \A i \in Exporters : i # j => Writing(i)' = Writing(i)
  BY <1>6 DEF Writing, WritingAt, BeforeAt
<1>10. ~ Settled(D) /\ Settled(D)' /\ \A d : Settled(d) => Settled(d)'
  BY <1>1, <1>3, <1>6, <1>9 DEF Settled
<1>11. Intact(D) /\ \A d : Intact(d)' = Intact(d)
  BY <1>1, <1>2, <1>4 DEF Intact, OwnAt
<1>12. \A d \in Dir : Settled(d) => (Live(d)' => Live(d))
  BY <1>4, <1>5, <1>10 DEF Live, Dir
<1>13. ASSUME NEW i \in Exporters, i # j, NEW l, NEW b, l = pc[i], b = job[i]
       PROVE  OwnAt(i, pc[i], job[i])'
  <2>1. OwnAt(i, l, b) /\ JobOK(i, l, b) /\ b \in Job
    BY <1>13, Mine, JobSets DEF IInv
  <2>2. l = "copy" /\ ~ lost => row'[b.sig] = None \/ row'[b.sig].snap # b.snap
    <3>1. SUFFICES ASSUME l = "copy", ~ lost PROVE b.sig # D.sig
      BY <1>5, <2>1, <3>1 DEF OwnAt, JobOK, Exporting
    <3>2. lock[b.sig] = i /\ lock[D.sig] = j
      BY <1>1, <1>3, <1>13, <3>1 DEF IInv, LockOK, Attempting
    <3>3. QED
      BY <1>13, <3>2
  <2>3. l \in {"list", "sweep"} => Parts = {} \/ row'[b.sig] \in {None, b.dir} \cup young'
    <3>1. SUFFICES ASSUME l \in {"list", "sweep"}, Parts # {}
                   PROVE  row'[b.sig] \in {None, b.dir} \cup young
      BY <1>4
    <3>2. b.sig \in Sigs /\ row[b.sig] \in {None, b.dir} \cup young
      BY <2>1, <3>1 DEF OwnAt, JobOK, Exporting
    <3>3. D \in young
      BY <1>1, <1>2, <3>1 DEF OwnAt
    <3>4. QED
      BY <1>5, <3>2, <3>3
  <2>4. l = "sweep" =>
          \A o \in b.listed : o[1] \notin young' /\ row'[o[1].sig] # o[1] /\ Settled(o[1])'
    <3>1. SUFFICES ASSUME l = "sweep", NEW o \in b.listed
                   PROVE  o[1] \notin young' /\ row'[o[1].sig] # o[1] /\ Settled(o[1])'
      OBVIOUS
    <3>2. o[1] \notin young /\ row[o[1].sig] # o[1] /\ Settled(o[1]) /\ o[1] \in Dir
      BY <2>1, <3>1 DEF OwnAt, Job
    <3>3. o[1].sig \in Sigs
      BY <3>2 DEF Dir
    <3>4. QED
      BY <1>4, <1>5, <1>10, <3>2, <3>3
  <2>5. l \in {"list", "sweep", "vend", "vended"} =>
          /\ Settled(b.dir)' /\ (Live(b.dir)' => Intact(b.dir)')
          /\ Live(b.dir)' => Live(b.dir)
    <3>1. l \in {"list", "sweep", "vend", "vended"} => b.dir \in Dir
      BY <1>13, <2>1, JobSets DEF JobOK, DirFor, Dir, Exporting, Exporters
    <3>2. QED
      BY <1>10, <1>11, <1>12, <2>1, <3>1 DEF OwnAt
  <2>6. OwnAt(i, l, b)'
    BY <1>4, <2>1, <2>2, <2>3, <2>4, <2>5 DEF OwnAt, BeforeAt
  <2>7. QED
    BY <1>6, <1>13, <2>6
<1>14. OwnAt(j, pc[j], job[j])'
  BY <1>3, <1>5, <1>6, <1>10, <1>11 DEF OwnAt, BeforeAt
<1>15. \A i \in Exporters : OwnAt(i, pc[i], job[i])'
  BY <1>13, <1>14
<1>16. RowOK'
  BY <1>3, <1>5, <1>6, <1>10, <1>11 DEF IInv, RowOK
<1>17. QED
  BY <1>1, <1>2, <1>4, <1>7, <1>8, <1>15, <1>16, Rebuilt DEF Publish, history

\* What a sweep deletes is neither current nor young, and nobody writes it.
LEMMA SweepKeeps == ASSUME IInv, NEW j \in Exporters, Sweep(j) PROVE IInv'
<1>1. j \in Jobs /\ pc[j] = "sweep"
  BY JobSets DEF Sweep, At
<1>2. /\ JobOK(j, pc[j], job[j]) /\ OwnAt(j, pc[j], job[j]) /\ job[j] \in Job
      /\ pc \in [Jobs -> Labels] /\ job \in [Jobs -> Job]
  BY <1>1, Mine
<1>3. PICK o \in job[j].listed :
        objects' = objects \ {o} /\ job' = [job EXCEPT ![j].listed = @ \ {o}]
  BY DEF Sweep, Delete
<1> DEFINE n == [job[j] EXCEPT !.listed = @ \ {o}]
<1>4. /\ n \in Job /\ n.dir = job[j].dir /\ n.sig = job[j].sig /\ n.snap = job[j].snap
      /\ n.parts = job[j].parts /\ n.todo = job[j].todo /\ n.listed = job[j].listed \ {o}
      /\ job' = [job EXCEPT ![j] = n]
  BY <1>2, <1>3 DEF Job
<1> HIDE DEF n
<1>5. pc' = [pc EXCEPT ![j] = "sweep"] /\ UNCHANGED <<row, young, lock, lost, collected>>
  BY <1>1, <1>2 DEF Sweep, history
<1>6. /\ pc'[j] = "sweep" /\ job'[j] = n
      /\ \A i \in Exporters : i # j => pc'[i] = pc[i] /\ job'[i] = job[i]
  BY <1>1, <1>2, <1>4, <1>5, JobSets
<1>7. JobOK(j, "sweep", n) /\ LockMoves(j, "sweep", n) /\ "sweep" \in Labels
  BY <1>1, <1>2, <1>4, <1>5
     DEF JobOK, LockMoves, Attempt, Exporting, DirFor, Labels, RequestLabels
<1>8. WorldTyped'
  BY <1>3, <1>5, WorldHere DEF WorldTyped, Sweep, history
<1>9. \A i \in Exporters : Writing(i)' = Writing(i)
  BY <1>1, <1>6 DEF Writing, WritingAt, BeforeAt
<1>10. \A d : Settled(d)' = Settled(d) /\ Live(d)' = Live(d)
  BY <1>5, <1>9 DEF Settled, Live
<1>11. o[1] \notin young /\ row[o[1].sig] # o[1] /\ Settled(o[1]) /\ ~ Live(o[1])
  BY <1>1, <1>2, <1>3 DEF OwnAt, Live
<1>12. \A d : Live(d) /\ Intact(d) => Intact(d)'
  BY <1>3, <1>5, <1>11 DEF Intact
<1>13. ASSUME NEW i \in Exporters, i # j, NEW l, NEW b, l = pc[i], b = job[i]
       PROVE  OwnAt(i, pc[i], job[i])'
  <2>1. OwnAt(i, l, b) /\ JobOK(i, l, b)
    BY <1>13, JobSets DEF IInv
  <2>2. l = "copy" => \A p \in b.parts : <<b.dir, p>> \in objects' \cup collected'
    <3>1. SUFFICES ASSUME l = "copy" PROVE b.dir # o[1]
      BY <1>3, <1>5, <2>1, <3>1 DEF OwnAt
    <3>2. b.dir.by = i /\ Writing(i)
      BY <1>13, <2>1, <3>1 DEF JobOK, DirFor, Writing, WritingAt
    <3>3. QED
      BY <1>11, <3>2 DEF Settled
  <2>3. l = "vended" /\ Live(b.dir) => \A p \in Parts : <<b.dir, p>> \in objects => <<b.dir, p>> \in objects'
    BY <1>3, <1>11
  <2>4. OwnAt(i, l, b)'
    BY <1>3, <1>5, <1>10, <1>12, <2>1, <2>2, <2>3 DEF OwnAt, BeforeAt
  <2>5. QED
    BY <1>6, <1>13, <2>4
<1>14. OwnAt(j, pc[j], job[j])'
  BY <1>1, <1>2, <1>4, <1>5, <1>6, <1>10, <1>12 DEF OwnAt, BeforeAt
<1>15. \A i \in Exporters : OwnAt(i, pc[i], job[i])'
  BY <1>13, <1>14
<1>16. RowOK'
  BY <1>5, <1>10, <1>12 DEF IInv, RowOK, Live
<1>17. QED
  BY <1>1, <1>4, <1>5, <1>7, <1>8, <1>15, <1>16, Rebuilt

\* A collection owns up to what it deletes.
LEMMA ClearKeeps == ASSUME IInv, NEW j \in Refreshes \cup Collections, Clear(j) PROVE IInv'
<1>1. /\ j \in Jobs /\ pc[j] = "clear" /\ (j \in Refreshes <=> j \notin Collections)
      /\ j \notin Requests /\ (j \in Exporters => j \in Refreshes)
  BY JobSets DEF Clear, At, Exporters
<1>2. /\ JobOK(j, pc[j], job[j]) /\ job[j] \in Job /\ (j \in Exporters => OwnAt(j, pc[j], job[j]))
      /\ pc \in [Jobs -> Labels] /\ job \in [Jobs -> Job]
  BY <1>1, Mine
<1>3. PICK o \in job[j].listed :
        /\ objects' = objects \ {o} /\ job' = [job EXCEPT ![j].listed = @ \ {o}]
        /\ collected' = collected \cup ({o} \cap objects)
  BY DEF Clear, Delete
<1> DEFINE n == [job[j] EXCEPT !.listed = @ \ {o}]
<1>4. /\ n \in Job /\ n.sig = job[j].sig /\ n.todo = job[j].todo /\ n.victim = job[j].victim
      /\ job' = [job EXCEPT ![j] = n]
  BY <1>2, <1>3 DEF Job
<1> HIDE DEF n
<1>5. pc' = [pc EXCEPT ![j] = "clear"] /\ UNCHANGED <<row, young, lock, lost>>
  BY <1>1, <1>2 DEF Clear
<1>6. /\ pc'[j] = "clear" /\ job'[j] = n
      /\ \A i \in Exporters : i # j => pc'[i] = pc[i] /\ job'[i] = job[i]
  BY <1>1, <1>2, <1>4, <1>5, JobSets
<1>7. JobOK(j, "clear", n) /\ LockMoves(j, "clear", n) /\ "clear" \in Labels
  BY <1>1, <1>2, <1>4, <1>5
     DEF JobOK, LockMoves, Attempt, Exporting, Labels, CollectionLabels, RefreshLabels
<1>8. WorldTyped'
  BY <1>3, <1>5, WorldHere DEF WorldTyped, Clear
<1>9. \A i \in Exporters : Writing(i)' = Writing(i)
  BY <1>1, <1>4, <1>6 DEF Writing, WritingAt, BeforeAt
<1>10. \A d : Settled(d)' = Settled(d) /\ Live(d)' = Live(d)
  BY <1>5, <1>9 DEF Settled, Live
<1>11. objects \cup collected \subseteq objects' \cup collected' /\ objects' \subseteq objects
       /\ \A x \in objects : x \in objects' \/ x \in collected'
  BY <1>3
<1>12. \A d : Intact(d) => Intact(d)'
  BY <1>11 DEF Intact
<1>13. ASSUME NEW i \in Exporters, i # j, NEW l, NEW b, l = pc[i], b = job[i]
       PROVE  OwnAt(i, pc[i], job[i])'
  <2>1. OwnAt(i, l, b)
    BY <1>13 DEF IInv
  <2>2. \A p : <<b.dir, p>> \in collected => <<b.dir, p>> \in collected'
    BY <1>3
  <2>3. OwnAt(i, l, b)'
    BY <1>5, <1>10, <1>11, <1>12, <2>1, <2>2 DEF OwnAt, BeforeAt
  <2>4. QED
    BY <1>6, <1>13, <2>3
<1>14. ASSUME j \in Exporters PROVE OwnAt(j, pc[j], job[j])'
  <2>1. BeforeAt("clear", n) => \A x \in objects' : x[1].by # j
    BY <1>1, <1>2, <1>4, <1>11, <1>14 DEF OwnAt, BeforeAt
  <2>2. QED
    BY <1>6, <2>1 DEF OwnAt, BeforeAt
<1>15. \A i \in Exporters : OwnAt(i, pc[i], job[i])'
  BY <1>13, <1>14
<1>16. RowOK'
  BY <1>5, <1>10, <1>12 DEF IInv, RowOK
<1>17. QED
  BY <1>1, <1>4, <1>5, <1>7, <1>8, <1>15, <1>16, Rebuilt

\* Nothing is made current by it.
LEMMA DeleteRowKeeps == ASSUME IInv, NEW j \in Refreshes \cup Collections, DeleteRow(j) PROVE IInv'
<1> DEFINE n == [job[j] EXCEPT !.victim = None]
<1>1. /\ j \in Jobs /\ pc[j] = "clear" /\ (j \in Refreshes <=> j \notin Collections)
      /\ j \notin Requests /\ (j \in Exporters => j \in Refreshes)
  BY JobSets DEF DeleteRow, At, Exporters
<1>2. /\ JobOK(j, pc[j], job[j]) /\ job[j] \in Job /\ (j \in Exporters => OwnAt(j, pc[j], job[j]))
      /\ pc \in [Jobs -> Labels] /\ job \in [Jobs -> Job] /\ row \in [Sigs -> Maybe]
  BY <1>1, Mine
<1>3. n \in Job /\ n.sig = job[j].sig /\ n.todo = job[j].todo /\ job' = [job EXCEPT ![j] = n]
  BY <1>2 DEF Job, DeleteRow
<1> HIDE DEF n
<1>4. pc' = [pc EXCEPT ![j] = "next"] /\ UNCHANGED <<objects, young, lock, lost, collected>>
  BY DEF DeleteRow, Goto, history
<1>5. /\ row' \in [Sigs -> Maybe]
      /\ \A s \in Sigs : row'[s] = row[s] \/ row'[s] = None
  BY <1>2 DEF DeleteRow, Maybe
<1>6. /\ pc'[j] = "next" /\ job'[j] = n
      /\ \A i \in Exporters : i # j => pc'[i] = pc[i] /\ job'[i] = job[i]
  BY <1>1, <1>2, <1>3, <1>4, JobSets
<1>7. JobOK(j, "next", n) /\ LockMoves(j, "next", n) /\ "next" \in Labels
  BY <1>1, <1>2, <1>3, <1>4
     DEF JobOK, LockMoves, Attempt, Exporting, Labels, CollectionLabels, RefreshLabels
<1>8. WorldTyped'
  BY <1>4, <1>5, WorldHere DEF WorldTyped, DeleteRow, history
<1>9. \A i \in Exporters : Writing(i)' = Writing(i)
  BY <1>1, <1>3, <1>6 DEF Writing, WritingAt, BeforeAt
<1>10. \A d : Settled(d)' = Settled(d) /\ Intact(d)' = Intact(d)
  BY <1>4, <1>9 DEF Settled, Intact
<1>11. \A d \in Dir : Live(d)' => Live(d)
  BY <1>4, <1>5, JobSets DEF Live, Dir
<1>12. ASSUME NEW i \in Exporters, i # j, NEW l, NEW b, l = pc[i], b = job[i]
       PROVE  OwnAt(i, pc[i], job[i])'
  <2>1. OwnAt(i, l, b) /\ JobOK(i, l, b) /\ b \in Job
    BY <1>12, Mine, JobSets DEF IInv
  <2>2. l = "copy" /\ ~ lost => row'[b.sig] = None \/ row'[b.sig].snap # b.snap
    BY <1>5, <2>1 DEF OwnAt, JobOK, Exporting
  <2>3. l \in {"list", "sweep"} => Parts = {} \/ row'[b.sig] \in {None, b.dir} \cup young'
    BY <1>4, <1>5, <2>1 DEF OwnAt, JobOK, Exporting
  <2>4. l = "sweep" =>
          \A o \in b.listed : o[1] \notin young' /\ row'[o[1].sig] # o[1] /\ Settled(o[1])'
    <3>1. SUFFICES ASSUME l = "sweep", NEW o \in b.listed
                   PROVE  o[1] \notin young' /\ row'[o[1].sig] # o[1] /\ Settled(o[1])'
      OBVIOUS
    <3>2. o[1] \notin young /\ row[o[1].sig] # o[1] /\ Settled(o[1]) /\ o[1] \in Dir
      BY <2>1, <3>1 DEF OwnAt, Job
    <3>3. o[1].sig \in Sigs
      BY <3>2 DEF Dir
    <3>4. QED
      BY <1>4, <1>5, <1>10, <3>2, <3>3, JobSets
  <2>5. l \in {"list", "sweep", "vend", "vended"} => (Live(b.dir)' => Live(b.dir))
    <3>1. l \in {"list", "sweep", "vend", "vended"} => b.dir \in Dir
      BY <1>12, <2>1, JobSets DEF JobOK, DirFor, Dir, Exporting, Exporters
    <3>2. QED
      BY <1>11, <3>1
  <2>6. OwnAt(i, l, b)'
    BY <1>4, <1>10, <2>1, <2>2, <2>3, <2>4, <2>5 DEF OwnAt, BeforeAt
  <2>7. QED
    BY <1>6, <1>12, <2>6
<1>13. ASSUME j \in Exporters PROVE OwnAt(j, pc[j], job[j])'
  <2>1. BeforeAt("next", n) => \A x \in objects' : x[1].by # j
    BY <1>1, <1>2, <1>3, <1>4, <1>13 DEF OwnAt, BeforeAt
  <2>2. QED
    BY <1>6, <2>1 DEF OwnAt, BeforeAt
<1>14. \A i \in Exporters : OwnAt(i, pc[i], job[i])'
  BY <1>12, <1>13
<1>15. RowOK'
  BY <1>5, <1>10 DEF IInv, RowOK
<1>16. QED
  BY <1>1, <1>3, <1>4, <1>7, <1>8, <1>14, <1>15, Rebuilt

\* Time passes, but not for a directory that an attempt under way may sweep.
LEMMA AgeKeeps == ASSUME IInv, NEW d \in young, Age(d) PROVE IInv'
<1>1. /\ young' = young \ {d} /\ \A j \in Exporters : pc[j] \notin Attempt
      /\ UNCHANGED <<head, shape, row, objects, lock, pc, job, faults, lost, collected>>
  BY DEF Age, Attempting, Attempt, history
<1>2. TypeOK'
  BY <1>1 DEF IInv, TypeOK, Attempting
<1>3. \A x : Settled(x)' = Settled(x) /\ Intact(x)' = Intact(x) /\ (Live(x)' => Live(x))
  BY <1>1 DEF Settled, Writing, Intact, Live
<1>4. ASSUME NEW i \in Exporters PROVE OwnAt(i, pc[i], job[i])'
  BY <1>1, <1>3 DEF IInv, OwnAt, Attempt
<1>5. RowOK' /\ LockOK'
  BY <1>1, <1>3 DEF IInv, RowOK, LockOK, Attempting
<1>6. QED
  BY <1>1, <1>2, <1>4, <1>5 DEF IInv

\* From here on nobody is excluded.
LEMMA LoseLockKeeps == ASSUME IInv, NEW s \in Sigs, LoseLock(s) PROVE IInv'
<1>1. /\ lost' = TRUE /\ lock' = [lock EXCEPT ![s] = Nobody] /\ faults' \in 0 .. MaxFaults
      /\ UNCHANGED <<head, shape, row, objects, young, pc, job, collected>>
  <2>1. faults \in 0 .. MaxFaults /\ MaxFaults \in Nat
    BY ConstantsAssumption DEF IInv, TypeOK
  <2>2. QED
    BY <2>1 DEF LoseLock, Fault
<1>2. TypeOK'
  BY <1>1 DEF IInv, TypeOK, Attempting
<1>3. \A x : Settled(x)' = Settled(x) /\ Intact(x)' = Intact(x) /\ Live(x)' = Live(x)
  BY <1>1 DEF Settled, Writing, Intact, Live
<1>4. ASSUME NEW i \in Exporters PROVE OwnAt(i, pc[i], job[i])'
  BY <1>1, <1>3 DEF IInv, OwnAt
<1>5. RowOK' /\ LockOK'
  BY <1>1, <1>3 DEF IInv, RowOK, LockOK
<1>6. QED
  BY <1>1, <1>2, <1>4, <1>5 DEF IInv

\* Another commit moves the head only.
LEMMA HeadOnly ==
    ASSUME IInv, head' \in 1 .. MaxSnapshot,
           UNCHANGED <<shape, row, objects, young, lock, pc, job, history>>
    PROVE  IInv'
<1>1. TypeOK'
  BY DEF IInv, TypeOK, Attempting, history
<1>2. \A x : Settled(x)' = Settled(x) /\ Intact(x)' = Intact(x) /\ Live(x)' = Live(x)
  BY DEF Settled, Writing, Intact, Live, history
<1>3. ASSUME NEW i \in Exporters PROVE OwnAt(i, pc[i], job[i])'
  BY <1>2 DEF IInv, OwnAt, history
<1>4. RowOK' /\ LockOK'
  BY <1>2 DEF IInv, RowOK, LockOK, Attempting, history
<1>5. QED
  BY <1>1, <1>3, <1>4 DEF IInv

LEMMA CommitKeeps == IInv /\ Commit => IInv'
<1> SUFFICES ASSUME IInv, Commit PROVE IInv'
  OBVIOUS
<1>1. head' \in 1 .. MaxSnapshot
  BY ConstantsAssumption DEF IInv, TypeOK, Commit
<1>2. QED
  BY <1>1, HeadOnly DEF Commit

LEMMA StutterKeeps == IInv /\ UNCHANGED vars => IInv'
<1> SUFFICES ASSUME IInv, UNCHANGED vars PROVE IInv'
  OBVIOUS
<1>1. head' \in 1 .. MaxSnapshot
  BY DEF IInv, TypeOK, vars, world
<1>2. QED
  BY <1>1, HeadOnly DEF vars, world

----------------------------------------------------------------------------
(***************************************************************************)
(* The theorems.                                                           *)
(***************************************************************************)

LEMMA StepKeeps == IInv /\ [Next]_vars => IInv'
<1> SUFFICES ASSUME IInv, [Next]_vars PROVE IInv'
  OBVIOUS
<1>1. ASSUME NEW r \in Requests, Plan(r) \/ Fallback(r) \/ Vend(r) \/ Expire(r) PROVE IInv'
  BY <1>1, PlanKeeps, FallbackKeeps, VendKeeps, ExpireKeeps
<1>2. ASSUME NEW j \in Exporters,
             \/ ReadSnapshot(j) \/ ReadPointer(j) \/ TryLock(j) \/ ReadBusy(j) \/ WaitForLock(j)
             \/ Recheck(j) \/ Copy(j) \/ Publish(j) \/ List(j) \/ Sweep(j) \/ Unlock(j)
             \/ ExportFails(j)
      PROVE  IInv'
  BY <1>2, ReadSnapshotKeeps, ReadPointerKeeps, TryLockKeeps, ReadBusyKeeps, WaitForLockKeeps,
     RecheckKeeps, CopyKeeps, PublishKeeps, ListKeeps, SweepKeeps, UnlockKeeps, ExportFailsKeeps
<1>3. ASSUME NEW c \in Collections, Change(c) PROVE IInv'
  BY <1>3, ChangeKeeps
<1>4. ASSUME NEW f \in Refreshes, ReadColumns(f) \/ Refresh(f) PROVE IInv'
  BY <1>4, ReadColumnsKeeps, RefreshKeeps
<1>5. ASSUME NEW j \in Refreshes \cup Collections,
             Scan(j) \/ Drop(j) \/ Find(j) \/ NoneLeft(j) \/ Clear(j) \/ DeleteRow(j) \/ ClearFails(j)
      PROVE  IInv'
  BY <1>5, ScanKeeps, DropKeeps, FindKeeps, NoneLeftKeeps, ClearKeeps, DeleteRowKeeps, ClearFailsKeeps
<1>6. ASSUME NEW j \in Jobs, Crash(j) PROVE IInv'
  BY <1>6, CrashKeeps
<1>7. CASE Commit
  BY <1>7, CommitKeeps
<1>8. ASSUME NEW d \in young, Age(d) PROVE IInv'
  BY <1>8, AgeKeeps
<1>9. ASSUME NEW s \in Sigs, LoseLock(s) PROVE IInv'
  BY <1>9, LoseLockKeeps
<1>10. CASE Done \/ UNCHANGED vars
  BY <1>10, StutterKeeps DEF Done
<1>11. QED
  BY <1>1, <1>2, <1>3, <1>4, <1>5, <1>6, <1>7, <1>8, <1>9, <1>10 DEF Next

\* In every reachable state the jobs have the directories that they own, and
\* every published directory is whole.
THEOREM Invariance == Spec => []IInv
BY Initially, StepKeeps, PTL DEF Spec

\* For every number of jobs, signatures and faults: types, and a lock is only
\* held by an exporter of that signature that is making an attempt.
THEOREM TypeCorrect == Spec => []TypeOK
<1>1. IInv => TypeOK
  BY DEF IInv
<1>2. QED
  BY <1>1, Invariance, PTL

LEMMA Whole == IInv => VendedIsWhole
<1> SUFFICES ASSUME IInv, NEW r \in Requests, pc[r] = "vended",
                    row[job[r].dir.sig] = job[r].dir \/ job[r].dir \in young, NEW p \in Parts
             PROVE  \/ <<job[r].dir, p>> \in collected
                    \/ p \in job[r].parts /\ <<job[r].dir, p>> \in objects
  BY DEF VendedIsWhole
<1>1. OwnAt(r, pc[r], job[r])
  BY JobSets DEF IInv
<1>2. QED
  BY <1>1 DEF OwnAt, Live

\* What a read is vended is there in full for as long as it is current or
\* young: whatever the jobs, the faults and the locks do (masked_export.py
\* returns only pointers, and its own directory after COPY).
THEOREM VendedWhole == Spec => []VendedIsWhole
BY Whole, Invariance, PTL

\* Only two steps move a pointer.
LEMMA RowMoves ==
    [Next]_vars => \/ row' = row
                   \/ \E j \in Exporters : Publish(j)
                   \/ \E j \in Refreshes \cup Collections : DeleteRow(j)
<1> SUFFICES ASSUME [Next]_vars, row' # row
             PROVE  \/ \E j \in Exporters : Publish(j)
                    \/ \E j \in Refreshes \cup Collections : DeleteRow(j)
  OBVIOUS
<1>1. ASSUME NEW r \in Requests PROVE ~ (Plan(r) \/ Fallback(r) \/ Vend(r) \/ Expire(r))
  BY DEF Plan, Fallback, Vend, Expire, world
<1>2. ASSUME NEW j \in Exporters
      PROVE  ~ (\/ ReadSnapshot(j) \/ ReadPointer(j) \/ TryLock(j) \/ ReadBusy(j) \/ WaitForLock(j)
                \/ Recheck(j) \/ Copy(j) \/ List(j) \/ Sweep(j) \/ Unlock(j) \/ ExportFails(j))
  BY DEF ReadSnapshot, ReadPointer, TryLock, ReadBusy, WaitForLock, Recheck, Copy, List, Sweep,
         Unlock, ExportFails, world
<1>3. ASSUME NEW c \in Collections PROVE ~ Change(c)
  BY DEF Change
<1>4. ASSUME NEW f \in Refreshes PROVE ~ (ReadColumns(f) \/ Refresh(f))
  BY DEF ReadColumns, Refresh, world
<1>5. ASSUME NEW j \in Refreshes \cup Collections
      PROVE  ~ (Scan(j) \/ Drop(j) \/ Find(j) \/ NoneLeft(j) \/ Clear(j) \/ ClearFails(j))
  BY DEF Scan, Drop, Find, NoneLeft, Clear, ClearFails, world
<1>6. ASSUME NEW j \in Jobs PROVE ~ Crash(j)
  BY DEF Crash
<1>7. ASSUME NEW d \in young PROVE ~ Age(d)
  BY DEF Age
<1>8. ASSUME NEW s \in Sigs PROVE ~ LoseLock(s)
  BY DEF LoseLock
<1>9. ~ Commit /\ ~ Done /\ ~ UNCHANGED vars
  BY DEF Commit, Done, vars, world
<1>10. QED
  BY <1>1, <1>2, <1>3, <1>4, <1>5, <1>6, <1>7, <1>8, <1>9 DEF Next

LEMMA Replaces ==
    IInv /\ [Next]_vars =>
        \A s \in Sigs : row[s] # None /\ row'[s] \notin {None, row[s]} /\ ~ lost
                            => row'[s].snap # row[s].snap
<1> SUFFICES ASSUME IInv, [Next]_vars, NEW s \in Sigs,
                    row[s] # None, row'[s] \notin {None, row[s]}, ~ lost
             PROVE  row'[s].snap # row[s].snap
  OBVIOUS
<1>1. row \in [Sigs -> Maybe]
  BY DEF IInv, TypeOK
<1>2. ASSUME NEW j \in Exporters, Publish(j) PROVE row'[s].snap # row[s].snap
  <2>1. pc[j] = "copy" /\ row' = [row EXCEPT ![job[j].sig] = job[j].dir]
    BY <1>2 DEF Publish, At
  <2>2. s = job[j].sig /\ row'[s] = job[j].dir
    BY <1>1, <2>1
  <2>3. JobOK(j, pc[j], job[j]) /\ OwnAt(j, pc[j], job[j])
    BY JobSets DEF IInv
  <2>4. QED
    BY <2>1, <2>2, <2>3 DEF JobOK, OwnAt, DirFor
<1>3. ASSUME NEW j \in Refreshes \cup Collections, DeleteRow(j) PROVE FALSE
  BY <1>1, <1>3 DEF DeleteRow
<1>4. QED
  BY <1>2, <1>3, RowMoves

\* The lock and the re-check under it: as long as no exporter loses its lock,
\* nobody replaces an export by a second one of the same snapshot
\* (masked_export.py:228).
THEOREM ReplacedAnother == Spec => ReplacedByAnother
BY Replaces, Invariance, PTL DEF Spec, ReplacedByAnother
=============================================================================
