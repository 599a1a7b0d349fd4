------------------------- MODULE CommitTable_proofs -------------------------
(***************************************************************************)
(* Proofs about CommitTable, for every set of requests, processes, shapes  *)
(* and rows.  They assume that no snapshot expires under an allocation     *)
(* that has read an older one (StaleAllocators = FALSE).                   *)
(***************************************************************************)
EXTENDS CommitTable, FiniteSetTheorems, WellFoundedInduction, TLAPS

----------------------------------------------------------------------------
(***************************************************************************)
(* The inductive invariant.                                                *)
(***************************************************************************)

HasLast(S) == \E s \in S : \A t \in S : t.id <= s.id
UniqueIds(S) == \A s, t \in S : s.id = t.id => s = t

\* ducklake_snapshot is never empty and its ids are unique.
SnapshotsOK == HasLast(snapshots) /\ UniqueIds(snapshots)

\* File ids are unique, below next_file_id, and no row is dated in the future.
FileOK(f) ==
    /\ f.id < LastRow.next
    /\ f.begin <= LastRow.id
    /\ f.end <= LastRow.id

FilesOK ==
    /\ UniqueIds(dataFiles) /\ UniqueIds(deleteFiles)
    /\ \A f \in dataFiles, d \in deleteFiles : f.id # d.id
    /\ \A f \in dataFiles \cup deleteFiles : FileOK(f)

Top(r) == Latest(SnapshotsSeenBy(r))

\* The uncommitted rows of a transaction that has allocated: nobody else has
\* allocated, and everything it wrote is newer than everything committed.
AloneOK(r) == \A q \in Requests : q # r => tx[q].snaps = {}
SnapsOK(r) ==
    /\ \A s \in tx[r].snaps : s.id > LastRow.id /\ s.next >= LastRow.next
    /\ LastRow.id + 1 \in Ids(tx[r].snaps)
    /\ HasLast(tx[r].snaps)
    /\ UniqueIds(tx[r].snaps)
EndsOK(r) ==
    \A e \in tx[r].ends :
        /\ LastRow.id < e.at /\ e.at <= Top(r).id
        /\ \A f \in dataFiles : f.id = e.file => f.end = NULL
DelsOK(r) ==
    /\ UniqueIds(tx[r].dels)
    /\ \A d \in tx[r].dels :
         /\ LastRow.next <= d.id /\ d.id < Top(r).next
         /\ LastRow.id < d.begin /\ d.begin <= Top(r).id
         /\ d.end = NULL
TxOK ==
    \A r \in Requests :
        IF tx[r].snaps = {} THEN tx[r] = NoTx
        ELSE AloneOK(r) /\ SnapsOK(r) /\ EndsOK(r) /\ DelsOK(r)

\* What an allocation has read is the newest row it can see, or the id after
\* it is taken.
SeenOK ==
    \A r \in Requests :
        pc[r] = "insert" =>
            /\ seen[r].id <= Top(r).id
            /\ seen[r].id = Top(r).id => seen[r] = Top(r)
            /\ seen[r].id < Top(r).id => seen[r].id + 1 \in Ids(SnapshotsSeenBy(r))

CoreInv == SnapshotsOK /\ FilesOK /\ TxOK /\ SeenOK
IInv == TypeOK /\ CoreInv
----------------------------------------------------------------------------
(***************************************************************************)
(* Lemmas about the queries.                                               *)
(***************************************************************************)

\* SELECT ... ORDER BY snapshot_id DESC LIMIT 1 returns the newest row.
LEMMA LatestIsLast ==
    ASSUME NEW S, HasLast(S)
    PROVE  Latest(S) \in S /\ \A t \in S : t.id <= Latest(S).id
BY DEF HasLast, Latest

LEMMA LatestIsUnique ==
    ASSUME NEW S \in SUBSET SnapshotRow, UniqueIds(S),
           NEW x \in S, \A t \in S : t.id <= x.id
    PROVE  HasLast(S) /\ Latest(S) = x
<1>1. HasLast(S)
  BY DEF HasLast
<1>2. Latest(S) \in S /\ \A t \in S : t.id <= Latest(S).id
  BY <1>1, LatestIsLast
<1>3. Latest(S).id = x.id
  BY <1>2 DEF SnapshotRow
<1>4. QED
  BY <1>1, <1>2, <1>3 DEF UniqueIds

\* A non-empty bounded set of naturals has a greatest element.
LEMMA MaxExists ==
    ASSUME NEW S \in SUBSET Nat, S # {}, NEW b \in Nat, \A m \in S : m <= b
    PROVE  \E n \in S : \A m \in S : m <= n
<1> DEFINE R == { ss \in Nat \X Nat : ss[1] < ss[2] }
           U == { k \in Nat : \A m \in S : m <= k }
<1>1. PICK k \in U : \A j \in U : ~ (<<j, k>> \in R)
  <2>1. U # {} /\ U \subseteq Nat
    OBVIOUS
  <2>2. IsWellFoundedOn(R, Nat)
    BY NatLessThanWellFounded DEF OpToRel
  <2> HIDE DEF R, U
  <2>3. QED
    BY <2>1, <2>2, WFMin
<1>2. ASSUME NEW j \in U PROVE k <= j
  <2>1. <<j, k>> \in Nat \X Nat /\ <<j, k>>[1] = j /\ <<j, k>>[2] = k
    OBVIOUS
  <2>2. ~ (j < k)
    BY <1>1, <2>1
  <2>3. QED
    BY <2>2
<1>3. k \in S
  <2>1. SUFFICES ASSUME k \notin S PROVE FALSE
    OBVIOUS
  <2>2. \A m \in S : m <= k /\ m # k
    BY <2>1
  <2>3. PICK m \in S : m <= k /\ m # k
    BY <2>2
  <2>4. k - 1 \in U
    BY <2>2, <2>3
  <2>5. QED
    BY <1>2, <2>4
<1>4. QED
  BY <1>3

\* list_snapshots answers with a snapshot id, or with nothing.
LEMMA CurrentType ==
    ASSUME NEW S \in SUBSET SnapshotRow, HasLast(S), NEW d, NEW e, NEW g
    PROVE  CurrentSnapshot(S, d, e, g) \in Nat \cup {NULL}
<1> DEFINE mine == Ids(S) \cap (Touched(d, e) \cup g)
<1>1. mine \in SUBSET Nat
  BY DEF Ids, SnapshotRow
<1>2. PICK b \in Nat : \A m \in mine : m <= b
  BY DEF HasLast, Ids, SnapshotRow
<1>3. ASSUME mine # {}
      PROVE  \E n \in mine : \A m \in mine : m <= n
  BY <1>1, <1>2, <1>3, MaxExists
<1>4. ASSUME mine # {}
      PROVE  (CHOOSE n \in mine : \A m \in mine : m <= n) \in mine
  BY <1>3, <1>4
<1>5. CurrentSnapshot(S, d, e, g)
        = IF mine = {} THEN NULL ELSE CHOOSE n \in mine : \A m \in mine : m <= n
  BY DEF CurrentSnapshot
<1>6. QED
  BY <1>1, <1>4, <1>5

----------------------------------------------------------------------------
(***************************************************************************)
(* Type correctness.                                                       *)
(***************************************************************************)

PcSet == {"idle", "submitted"} \cup InFlight \cup Answered
TxSet == [snaps : SUBSET SnapshotRow,
          ends : SUBSET [file : Nat, at : Nat],
          dels : SUBSET DeleteFileRow,
          ddl : SUBSET Nat]

\* The newest row a transaction sees, when the invariant holds.
LEMMA TopIsLast ==
    ASSUME IInv, NEW r \in Requests
    PROVE  /\ LastRow \in snapshots /\ LastRow \in SnapshotRow
           /\ \A t \in snapshots : t.id <= LastRow.id
           /\ SnapshotsSeenBy(r) \in SUBSET SnapshotRow
           /\ HasLast(SnapshotsSeenBy(r)) /\ UniqueIds(SnapshotsSeenBy(r))
           /\ Top(r) \in SnapshotsSeenBy(r) /\ Top(r) \in SnapshotRow
           /\ \A t \in SnapshotsSeenBy(r) : t.id <= Top(r).id
           /\ LastRow.id <= Top(r).id /\ LastRow.next <= Top(r).next
           /\ tx[r].snaps = {} => Top(r) = LastRow
           /\ tx[r].snaps # {} => Top(r) \in tx[r].snaps /\ LastRow.id < Top(r).id
<1>1. snapshots \in SUBSET SnapshotRow /\ tx[r] \in TxSet
  BY DEF IInv, CoreInv, TypeOK, TxSet
<1>2. /\ LastRow \in snapshots /\ LastRow \in SnapshotRow
      /\ \A t \in snapshots : t.id <= LastRow.id
  BY <1>1, LatestIsLast DEF IInv, CoreInv, SnapshotsOK, LastRow
<1>3. CASE tx[r].snaps = {}
  <2>1. SnapshotsSeenBy(r) = snapshots
    BY <1>3 DEF SnapshotsSeenBy
  <2>2. Top(r) = LastRow
    BY <2>1 DEF Top, LastRow
  <2>3. QED
    BY <1>1, <1>2, <1>3, <2>1, <2>2 DEF IInv, CoreInv, SnapshotsOK, SnapshotRow
<1>4. CASE tx[r].snaps # {}
  <2>1. SnapsOK(r)
    BY <1>4 DEF IInv, CoreInv, TxOK
  <2>2. PICK x \in tx[r].snaps : \A t \in tx[r].snaps : t.id <= x.id
    BY <2>1 DEF SnapsOK, HasLast
  <2>3. x \in SnapshotRow /\ LastRow.id < x.id /\ LastRow.next <= x.next
    BY <1>1, <1>2, <2>1 DEF SnapsOK, SnapshotRow, TxSet
  <2>4. SnapshotsSeenBy(r) \in SUBSET SnapshotRow
    BY <1>1 DEF SnapshotsSeenBy, TxSet
  <2>5. \A t \in SnapshotsSeenBy(r) : t.id <= x.id
    BY <1>1, <1>2, <2>2, <2>3 DEF SnapshotsSeenBy, SnapshotRow
  <2>6. UniqueIds(SnapshotsSeenBy(r))
    <3>1. \A u \in snapshots, v \in tx[r].snaps : u.id # v.id
      BY <1>1, <1>2, <2>1 DEF SnapsOK, SnapshotRow, TxSet
    <3>2. UniqueIds(snapshots) /\ UniqueIds(tx[r].snaps)
      BY <2>1 DEF IInv, CoreInv, SnapshotsOK, SnapsOK
    <3>3. QED
      BY <3>1, <3>2 DEF UniqueIds, SnapshotsSeenBy
  <2>7. HasLast(SnapshotsSeenBy(r)) /\ Top(r) = x
    BY <2>2, <2>4, <2>5, <2>6, LatestIsUnique DEF Top, SnapshotsSeenBy
  <2>8. QED
    BY <1>2, <1>4, <2>2, <2>3, <2>4, <2>5, <2>6, <2>7 DEF SnapshotRow, SnapshotsSeenBy
<1>5. QED
  BY <1>3, <1>4

LEMMA EntryOfType ==
    ASSUME NEW left
    PROVE  EntryOf(left) \in {"commit", "lock", "alloc", "scan", "read"}
BY DEF EntryOf

LEMMA AdvanceType ==
    ASSUME TypeOK, NEW r \in Requests, Advance(r)
    PROVE  /\ todo' \in [Requests -> SUBSET Parts]
           /\ pc' \in [Requests -> PcSet]
           /\ pc'[r] # "insert"
           /\ \A q \in Requests : q # r => pc'[q] = pc[q]
<1>1. todo \in [Requests -> SUBSET Parts] /\ pc \in [Requests -> PcSet]
  BY DEF TypeOK, PcSet
<1>2. todo' \in [Requests -> SUBSET Parts]
  BY <1>1 DEF Advance
<1>3. EntryOf(todo'[r]) \in {"commit", "lock", "alloc", "scan", "read"}
  BY EntryOfType
<1>4. pc' = [pc EXCEPT ![r] = EntryOf(todo'[r])]
  BY DEF Advance
<1> HIDE DEF Advance
<1>5. QED
  BY <1>1, <1>2, <1>3, <1>4 DEF PcSet, InFlight

LEMMA NoTxType == NoTx \in TxSet /\ NothingSeen \in SnapshotRow
BY DEF NoTx, TxSet, NothingSeen, SnapshotRow

LEMMA RollbackType ==
    ASSUME TypeOK, NEW r \in Requests, Rollback(r)
    PROVE  /\ duckLock' \in [Workers -> Requests \cup {NULL}]
           /\ pc' \in [Requests -> PcSet]
           /\ todo' \in [Requests -> SUBSET Parts]
           /\ targets' \in [Requests -> Seq(Nat)]
           /\ seen' \in [Requests -> SnapshotRow]
           /\ tx' \in [Requests -> TxSet]
<1>1. duckLock' \in [Workers -> Requests \cup {NULL}]
  BY DEF TypeOK, Rollback
<1>2. pc' \in [Requests -> PcSet]
  BY DEF TypeOK, Rollback, PcSet, Answered
<1>3. todo' \in [Requests -> SUBSET Parts]
  BY DEF TypeOK, Rollback
<1>4. targets' \in [Requests -> Seq(Nat)]
  BY DEF TypeOK, Rollback
<1>5. seen' \in [Requests -> SnapshotRow]
  BY NoTxType DEF TypeOK, Rollback
<1>6. tx' \in [Requests -> TxSet]
  BY NoTxType DEF TypeOK, Rollback, TxSet
<1>7. QED
  BY <1>1, <1>2, <1>3, <1>4, <1>5, <1>6

\* A snapshot DuckLake commits is a snapshot row.
LEMMA DuckLakeCommitType ==
    ASSUME IInv, NEW n \in Nat, DuckLakeCommit(n)
    PROVE  /\ snapshots' \in SUBSET SnapshotRow
           /\ LastRow.id + 1 \in Nat /\ LastRow.next \in Nat
<1>1. LastRow \in SnapshotRow
  <2>1. HasLast(snapshots) /\ snapshots \in SUBSET SnapshotRow
    BY DEF IInv, CoreInv, TypeOK, SnapshotsOK
  <2>2. QED
    BY <2>1, LatestIsLast DEF LastRow
<1>2. QED
  BY <1>1 DEF IInv, CoreInv, TypeOK, DuckLakeCommit, SnapshotRow

\* An UPDATE of end_snapshot changes nothing else.
LEMMA ClosedType ==
    ASSUME NEW s \in Nat
    PROVE  /\ \A f \in DataFileRow :
                /\ Closed(f, s) \in DataFileRow
                /\ Closed(f, s).id = f.id /\ Closed(f, s).rows = f.rows
                /\ Closed(f, s).begin = f.begin /\ Closed(f, s).end = s
           /\ \A d \in DeleteFileRow :
                /\ Closed(d, s) \in DeleteFileRow
                /\ Closed(d, s).id = d.id /\ Closed(d, s).rows = d.rows
                /\ Closed(d, s).file = d.file
                /\ Closed(d, s).begin = d.begin /\ Closed(d, s).end = s
BY DEF Closed, DataFileRow, DeleteFileRow

\* A data file stays a data file row when a transaction ends it.
LEMMA FilesSeenType ==
    ASSUME TypeOK, NEW r \in Requests
    PROVE  /\ FilesSeenBy(r) \in SUBSET DataFileRow
           /\ LiveIdsSeenBy(r) \in SUBSET Nat
<1>1. dataFiles \in SUBSET DataFileRow /\ tx[r].ends \in SUBSET [file : Nat, at : Nat]
  BY DEF TypeOK
<1>2. ASSUME NEW f \in dataFiles
      PROVE  Ended(f, tx[r].ends) \in DataFileRow
  <2>1. CASE \E e \in tx[r].ends : e.file = f.id
    <3> DEFINE c == CHOOSE e \in tx[r].ends : e.file = f.id
    <3>1. c \in tx[r].ends
      BY <2>1
    <3>2. Ended(f, tx[r].ends) = Closed(f, c.at)
      BY <2>1 DEF Ended
    <3> HIDE DEF c
    <3>3. c.at \in Nat
      BY <1>1, <3>1
    <3>4. QED
      BY <1>1, <3>2, <3>3, ClosedType
  <2>2. CASE ~ \E e \in tx[r].ends : e.file = f.id
    BY <1>1, <2>2 DEF Ended
  <2>3. QED
    BY <2>1, <2>2
<1>3. FilesSeenBy(r) \in SUBSET DataFileRow
  BY <1>2 DEF FilesSeenBy
<1>4. QED
  BY <1>3 DEF LiveIdsSeenBy, LiveFiles, DataFileRow

\* The rows an equality delete matches are finitely many.
LEMMA MatchingType ==
    ASSUME IInv, NEW r \in Requests, NEW q \in SetToSeqs(Matching(r))
    PROVE  q \in Seq(Nat)
<1>1. LastRow.next \in Nat
  BY TopIsLast DEF SnapshotRow
<1>2. \A f \in FilesSeenBy(r) : f.id \in Nat /\ f.id <= LastRow.next
  <2>1. \A f \in dataFiles : f.id \in Nat /\ f.id <= LastRow.next
    BY <1>1 DEF IInv, CoreInv, TypeOK, FilesOK, FileOK, DataFileRow
  <2>2. \A f \in dataFiles : Ended(f, tx[r].ends).id = f.id
    <3> TAKE f \in dataFiles
    <3>1. f \in DataFileRow /\ tx[r].ends \in SUBSET [file : Nat, at : Nat]
      BY DEF IInv, CoreInv, TypeOK
    <3>2. QED
      BY <3>1, ClosedType DEF Ended
  <2>3. QED
    BY <2>1, <2>2 DEF FilesSeenBy
<1>3. Matching(r) \in SUBSET Nat /\ \A i \in Matching(r) : i <= LastRow.next
  BY <1>2 DEF Matching
<1>4. Cardinality(Matching(r)) \in Nat
  BY <1>1, <1>3, FS_BoundedSetOfNaturals, FS_CardinalityType
<1>5. q \in [1 .. Cardinality(Matching(r)) -> Matching(r)]
  BY DEF SetToSeqs
<1>6. QED
  BY <1>3, <1>4, <1>5

\* What a part writes has the types of the columns it is written to.
LEMMA WrittenType ==
    ASSUME TypeOK, NEW r \in Requests, NEW n \in SnapshotRow,
           Part(todo[r]) \in {"posdelete", "eqdelete"} => n.next >= Len(targets[r])
    PROVE  Written(r, n) \in TxSet
<1>1. tx[r] \in TxSet /\ targets[r] \in Seq(Nat) /\ named[r] \in SUBSET Rows
  BY DEF TypeOK, TxSet
<1>2. Tombstones(r, n) \in SUBSET [file : Nat, at : Nat]
  BY FilesSeenType DEF Tombstones, SnapshotRow
<1>3. ASSUME n.next >= Len(targets[r])
      PROVE  NewDeletes(r, n) \in SUBSET DeleteFileRow
  <2>1. ASSUME NEW i \in DOMAIN targets[r]
        PROVE  n.next - Len(targets[r]) + i - 1 \in Nat /\ targets[r][i] \in Nat
    BY <1>1, <1>3 DEF SnapshotRow
  <2>2. QED
    BY <1>1, <2>1 DEF NewDeletes, DeleteFileRow, SnapshotRow
<1>4. QED
  BY <1>1, <1>2, <1>3 DEF Written, TxSet, SnapshotRow

\* The initial state has the types of the state.
LEMMA InitType == Init => TypeOK
<1> SUFFICES ASSUME Init PROVE TypeOK
  OBVIOUS
<1>1. InitialRows \subseteq Rows
  BY ConstantsAssumption
<1>2. snapshots \subseteq SnapshotRow /\ dataFiles \subseteq DataFileRow
      /\ deleteFiles \subseteq DeleteFileRow /\ ddl \subseteq Nat
  BY <1>1 DEF Init, SnapshotRow, DataFileRow
<1>3. QED
  BY <1>2, NoTxType DEF Init, TypeOK, TxSet, NothingSeen, SnapshotRow

\* Every step of a request keeps the types.
LEMMA RequestType ==
    ASSUME IInv, NEW r \in Requests, Submit(r) \/ Handle(r) \/ Abort(r)
    PROVE  TypeOK'
<1> USE DEF IInv, CoreInv, client, tables
<1>0. TypeOK /\ HasLast(snapshots)
  BY DEF SnapshotsOK
<1>1. ASSUME Submit(r) PROVE TypeOK'
  <2>1. Current \in Nat \cup {NULL}
    BY <1>0, CurrentType DEF Current, TypeOK
  <2>2. Shapes \subseteq SUBSET Parts /\ Requests \subseteq Rows
    BY ConstantsAssumption
  <2>3. shape' \in [Requests -> SUBSET Parts] /\ todo' \in [Requests -> SUBSET Parts]
    BY <1>0, <1>1, <2>2 DEF Submit, TypeOK
  <2>4. base' \in [Requests -> Nat \cup {NULL}]
    BY <1>0, <1>1, <2>1 DEF Submit, TypeOK
  <2>5. pc' \in [Requests -> PcSet]
    BY <1>0, <1>1 DEF Submit, TypeOK, PcSet
  <2>6. targets' \in [Requests -> Seq(Nat)] /\ named' \in [Requests -> SUBSET Rows]
    <3>1. PICK s \in Shapes :
            IF s \cap {"remove", "posdelete"} # {}
            THEN \E f \in dataFiles :
                   /\ VisibleAt(f, Current)
                   /\ targets' = [targets EXCEPT ![r] = <<f.id>>]
                   /\ \E x \in IF "remove" \in s THEN {f.rows}
                               ELSE SUBSET f.rows \ {{}} :
                        named' = [named EXCEPT ![r] = x]
            ELSE /\ targets' = targets
                 /\ IF "eqdelete" \in s
                    THEN \E x \in SUBSET (RowsAt(dataFiles, deleteFiles, Current)
                                        \cup IF "add" \in s THEN {r} ELSE {}) :
                           named' = [named EXCEPT ![r] = x]
                    ELSE named' = named
      BY <1>1 DEF Submit
    <3>2. CASE s \cap {"remove", "posdelete"} # {}
      <4>1. PICK f \in dataFiles :
              /\ targets' = [targets EXCEPT ![r] = <<f.id>>]
              /\ \E x \in IF "remove" \in s THEN {f.rows} ELSE SUBSET f.rows \ {{}} :
                   named' = [named EXCEPT ![r] = x]
        BY <3>1, <3>2
      <4>2. f.id \in Nat /\ f.rows \in SUBSET Rows
        BY <1>0 DEF TypeOK, DataFileRow
      <4>3. PICK x \in SUBSET Rows : named' = [named EXCEPT ![r] = x]
        BY <4>1, <4>2
      <4>4. <<f.id>> \in Seq(Nat)
        BY <4>2
      <4>5. targets' \in [Requests -> Seq(Nat)]
        BY <1>0, <4>1, <4>4 DEF TypeOK
      <4>6. named' \in [Requests -> SUBSET Rows]
        BY <1>0, <4>3 DEF TypeOK
      <4>7. QED
        BY <4>5, <4>6
    <3>3. CASE s \cap {"remove", "posdelete"} = {}
      <4>1. RowsAt(dataFiles, deleteFiles, Current) \subseteq Rows /\ r \in Rows
        BY <2>2 DEF RowsAt
      <4>2. named' = named \/ \E x \in SUBSET Rows : named' = [named EXCEPT ![r] = x]
        BY <3>1, <3>3, <4>1
      <4>3. named' \in [Requests -> SUBSET Rows]
        BY <1>0, <4>2 DEF TypeOK
      <4>4. targets' \in [Requests -> Seq(Nat)]
        BY <1>0, <3>1, <3>3 DEF TypeOK
      <4>5. QED
        BY <4>3, <4>4
    <3>4. QED
      BY <3>2, <3>3
  <2>7. QED
    BY <1>0, <1>1, <2>3, <2>4, <2>5, <2>6 DEF Submit, TypeOK, PcSet
<1>2. ASSUME CheckRequirements(r) PROVE TypeOK'
  <2>1. pc' \in [Requests -> PcSet]
    BY <1>0, <1>2, EntryOfType DEF CheckRequirements, TypeOK, PcSet, InFlight, Answered
  <2>2. QED
    BY <1>0, <1>2, <2>1 DEF CheckRequirements, TypeOK, PcSet
<1>3. ASSUME Lock(r) PROVE TypeOK'
  BY <1>0, <1>3 DEF Lock, TypeOK, InFlight
<1>4. ASSUME NEW part, DuckCall(r, part)
      PROVE  /\ duckLock' \in [Workers -> Requests \cup {NULL}]
             /\ pc' \in [Requests -> PcSet]
             /\ todo' \in [Requests -> SUBSET Parts]
             /\ UNCHANGED <<client, targets, seen, tx>>
  BY <1>0, <1>4, AdvanceType DEF DuckCall, TypeOK
<1>5. ASSUME AlterTable(r) PROVE TypeOK'
  <2>1. snapshots' \in SUBSET SnapshotRow /\ ddl' \in SUBSET Nat
    BY <1>0, <1>5, DuckLakeCommitType DEF AlterTable, TypeOK
  <2>2. QED
    BY <1>0, <1>4, <1>5, <2>1 DEF AlterTable, TypeOK, PcSet
<1>6. ASSUME AddDataFiles(r) PROVE TypeOK'
  <2>1. r \in Rows
    BY ConstantsAssumption
  <2>2. snapshots' \in SUBSET SnapshotRow /\ LastRow.id + 1 \in Nat /\ LastRow.next \in Nat
    BY <1>6, DuckLakeCommitType DEF AddDataFiles
  <2>3. dataFiles' \in SUBSET DataFileRow
    BY <1>0, <1>6, <2>1, <2>2 DEF AddDataFiles, TypeOK, DataFileRow
  <2>4. QED
    BY <1>0, <1>4, <1>6, <2>2, <2>3 DEF AddDataFiles, TypeOK, PcSet
<1>7. ASSUME ExpireSnapshots(r) PROVE TypeOK'
  <2>1. snapshots' \in SUBSET SnapshotRow /\ UNCHANGED <<dataFiles, deleteFiles, ddl>>
    BY <1>0, <1>7 DEF ExpireSnapshots, Expire, TypeOK
  <2>2. DuckCall(r, "expire")
    BY <1>7 DEF ExpireSnapshots
  <2>3. QED
    BY <1>0, <1>4, <2>1, <2>2 DEF TypeOK, PcSet
<1>8. ASSUME ScanEqualityDelete(r) PROVE TypeOK'
  <2>1. CASE Matching(r) = {}
    BY <1>0, <1>8, <2>1, AdvanceType DEF ScanEqualityDelete, TypeOK, PcSet
  <2>2. CASE Matching(r) # {}
    <3>1. PICK q \in SetToSeqs(Matching(r)) : targets' = [targets EXCEPT ![r] = q]
      BY <1>8, <2>2 DEF ScanEqualityDelete
    <3>2. q \in Seq(Nat)
      BY <3>1, MatchingType
    <3>3. targets' \in [Requests -> Seq(Nat)]
      BY <1>0, <3>1, <3>2 DEF TypeOK
    <3>4. QED
      BY <1>0, <1>8, <2>2, <3>3 DEF ScanEqualityDelete, TypeOK, InFlight
  <2>3. QED
    BY <2>1, <2>2
<1>9. ASSUME ReadLive(r) PROVE TypeOK'
  <2>1. CASE Rollback(r)
    BY <1>0, <1>9, <2>1, RollbackType DEF ReadLive, TypeOK, PcSet, TxSet
  <2>2. CASE pc' = [pc EXCEPT ![r] = "alloc"] /\ UNCHANGED <<duckLock, todo, targets, seen, tx>>
    BY <1>0, <1>9, <2>2 DEF ReadLive, TypeOK, InFlight
  <2>3. QED
    BY <1>9, <2>1, <2>2 DEF ReadLive
<1>10. ASSUME AllocateRead(r) PROVE TypeOK'
  <2>1. seen' \in [Requests -> SnapshotRow]
    BY <1>0, <1>10, TopIsLast DEF AllocateRead, TypeOK, Top
  <2>2. QED
    BY <1>0, <1>10, <2>1 DEF AllocateRead, TypeOK, InFlight
<1>11. ASSUME AllocateInsert(r) PROVE TypeOK'
  <2>1. CASE Rollback(r)
    BY <1>0, <1>11, <2>1, RollbackType DEF AllocateInsert, TypeOK, PcSet, TxSet
  <2> DEFINE n == [id |-> seen[r].id + 1,
                   next |-> seen[r].next
                            + IF Part(todo[r]) \in {"posdelete", "eqdelete"}
                              THEN Len(targets[r]) ELSE 0]
  <2>2. CASE /\ tx' = [tx EXCEPT ![r] = Written(r, n)]
             /\ seen' = [seen EXCEPT ![r] = NothingSeen]
             /\ Advance(r)
             /\ UNCHANGED <<duckLock, targets, tables, client>>
    <3>1. seen[r] \in SnapshotRow /\ targets[r] \in Seq(Nat)
      BY <1>0 DEF TypeOK
    <3>2. Len(targets[r]) \in Nat
      BY <3>1
    <3>3. n \in SnapshotRow
          /\ (Part(todo[r]) \in {"posdelete", "eqdelete"} => n.next >= Len(targets[r]))
      BY <3>1, <3>2 DEF SnapshotRow
    <3> HIDE DEF n
    <3>4. Written(r, n) \in TxSet
      BY <1>0, <3>3, WrittenType
    <3>5. tx' \in [Requests -> TxSet]
      BY <1>0, <2>2, <3>4 DEF TypeOK, TxSet
    <3>6. seen' \in [Requests -> SnapshotRow]
      BY <1>0, <2>2, NoTxType DEF TypeOK
    <3>7. QED
      BY <1>0, <2>2, <3>5, <3>6, AdvanceType DEF TypeOK, PcSet, TxSet
  <2>3. QED
    BY <1>11, <2>1, <2>2 DEF AllocateInsert
<1>12. ASSUME Commit(r) PROVE TypeOK'
  <2>1. snapshots' \in SUBSET SnapshotRow
    BY <1>12, TopIsLast DEF Commit
  <2>2. dataFiles' \in SUBSET DataFileRow
    BY <1>0, <1>12, FilesSeenType DEF Commit
  <2>3. deleteFiles' \in SUBSET DeleteFileRow /\ ddl' \in SUBSET Nat
    BY <1>0, <1>12 DEF Commit, DeletesSeenBy, TypeOK
  <2>4. tx' \in [Requests -> TxSet]
    BY <1>0, <1>12, NoTxType DEF Commit, TypeOK, TxSet
  <2>5. targets' \in [Requests -> Seq(Nat)] /\ pc' \in [Requests -> PcSet]
    BY <1>0, <1>12 DEF Commit, TypeOK, PcSet, Answered
  <2>6. QED
    BY <1>0, <1>12, <2>1, <2>2, <2>3, <2>4, <2>5 DEF Commit, TypeOK, PcSet, TxSet
<1>13. ASSUME Abort(r) PROVE TypeOK'
  BY <1>0, <1>13, RollbackType DEF Abort, TypeOK, PcSet, TxSet
<1>14. QED
  BY <1>1, <1>2, <1>3, <1>5, <1>6, <1>7, <1>8, <1>9, <1>10, <1>11, <1>12, <1>13 DEF Handle

\* Every step of the environment keeps the types.
LEMMA EnvironmentType ==
    ASSUME IInv, Environment
    PROVE  TypeOK'
<1> USE DEF IInv, CoreInv, client, requests
<1>0. TypeOK
  OBVIOUS
<1>1. DirectRows \subseteq Rows
  BY ConstantsAssumption
<1>2. ASSUME NEW x \in DirectRows, DirectInsert(x) PROVE TypeOK'
  <2>1. snapshots' \in SUBSET SnapshotRow /\ LastRow.id + 1 \in Nat /\ LastRow.next \in Nat
    BY <1>2, DuckLakeCommitType DEF DirectInsert
  <2>2. dataFiles' \in SUBSET DataFileRow
    BY <1>0, <1>1, <1>2, <2>1 DEF DirectInsert, TypeOK, DataFileRow
  <2>3. QED
    BY <1>0, <1>2, <2>1, <2>2 DEF DirectInsert, TypeOK
<1>3. ASSUME OtherTableCommit PROVE TypeOK'
  <2>1. snapshots' \in SUBSET SnapshotRow
    BY <1>3, DuckLakeCommitType DEF OtherTableCommit
  <2>2. QED
    BY <1>0, <1>3, <2>1 DEF OtherTableCommit, TypeOK
<1>4. ASSUME NEW F \in SUBSET LiveFiles(dataFiles), Compact(F) PROVE TypeOK'
  <2>1. snapshots' \in SUBSET SnapshotRow /\ LastRow.id + 1 \in Nat /\ LastRow.next \in Nat
    BY <1>4, DuckLakeCommitType DEF Compact
  <2>2. F \subseteq dataFiles /\ LiveRows(F, deleteFiles) \subseteq Rows
    BY DEF LiveFiles, LiveRows
  <2>3. dataFiles' \in SUBSET DataFileRow
    <3>1. [id |-> LastRow.next, rows |-> LiveRows(F, deleteFiles),
           begin |-> LastRow.id + 1, end |-> NULL] \in DataFileRow
      BY <2>1, <2>2 DEF DataFileRow
    <3>2. \A f \in F : Closed(f, LastRow.id + 1) \in DataFileRow
      BY <1>0, <2>1, <2>2, ClosedType DEF TypeOK
    <3>3. QED
      BY <1>0, <1>4, <3>1, <3>2 DEF Compact, TypeOK
  <2>4. deleteFiles' \in SUBSET DeleteFileRow
    <3>1. \A d \in deleteFiles : Closed(d, LastRow.id + 1) \in DeleteFileRow
      BY <1>0, <2>1, ClosedType DEF TypeOK
    <3>2. QED
      BY <1>0, <1>4, <3>1 DEF Compact, TypeOK
  <2>5. QED
    BY <1>0, <1>4, <2>1, <2>3, <2>4 DEF Compact, TypeOK
<1>5. ASSUME ExpireOld PROVE TypeOK'
  BY <1>0, <1>5 DEF ExpireOld, Expire, TypeOK
<1>6. QED
  BY <1>2, <1>3, <1>4, <1>5 DEF Environment

LEMMA TypeStep ==
    ASSUME IInv, [Next]_vars
    PROVE  TypeOK'
<1>1. CASE UNCHANGED vars
  BY <1>1 DEF IInv, CoreInv, TypeOK, vars, tables, client
<1>2. CASE Done
  BY <1>2 DEF IInv, CoreInv, TypeOK, Done, vars, tables, client
<1>3. QED
  BY <1>1, <1>2, RequestType, EnvironmentType DEF Next

----------------------------------------------------------------------------
(***************************************************************************)
(* The invariant is inductive.  The actions come in five kinds: those that *)
(* leave the tables and the transactions alone, rollbacks, snapshots that  *)
(* DuckLake commits, expiry, and the three steps of an allocation.         *)
(***************************************************************************)

\* No request starts an INSERT, and one that is at it still is where it was.
InsertsStay ==
    \A q \in Requests : pc'[q] = "insert" => pc[q] = "insert" /\ seen'[q] = seen[q]

Quiet == UNCHANGED <<snapshots, dataFiles, deleteFiles, tx>> /\ InsertsStay

\* A snapshot DuckLake commits: live rows F and G are ended, files new added.
Rewritten(old, F) == (old \ F) \cup { Closed(f, LastRow.id + 1) : f \in F }
NewFile(f) == f.id = LastRow.next /\ f.begin = LastRow.id + 1 /\ f.end = NULL
DuckLakeStep(n) ==
    /\ DuckLakeCommit(n)
    /\ \E F \in SUBSET LiveFiles(dataFiles), G \in SUBSET LiveFiles(deleteFiles),
          new \in SUBSET DataFileRow :
          /\ dataFiles' = Rewritten(dataFiles, F) \cup new
          /\ deleteFiles' = Rewritten(deleteFiles, G)
          /\ new # {} => n > 0
          /\ \A f, g \in new : NewFile(f) /\ f = g
    /\ UNCHANGED tx /\ InsertsStay

Expiry == (\E ids : Expire(ids)) /\ UNCHANGED tx /\ InsertsStay

LEMMA QuietStep ==
    ASSUME IInv, Quiet
    PROVE  CoreInv'
<1>1. LastRow' = LastRow
  BY DEF Quiet, LastRow
<1>2. \A q \in Requests : SnapshotsSeenBy(q)' = SnapshotsSeenBy(q) /\ Top(q)' = Top(q)
  BY DEF Quiet, SnapshotsSeenBy, Top
<1>3. SnapshotsOK' /\ FilesOK'
  BY <1>1 DEF IInv, CoreInv, Quiet, SnapshotsOK, FilesOK, FileOK
<1>4. TxOK'
  BY <1>1, <1>2 DEF IInv, CoreInv, Quiet, TxOK, AloneOK, SnapsOK, EndsOK, DelsOK
<1>5. SeenOK'
  BY <1>2 DEF IInv, CoreInv, Quiet, SeenOK, InsertsStay
<1>6. QED
  BY <1>3, <1>4, <1>5 DEF CoreInv

LEMMA RollbackStep ==
    ASSUME IInv, NEW r \in Requests, Rollback(r), UNCHANGED <<snapshots, dataFiles, deleteFiles>>
    PROVE  CoreInv'
<1>1. LastRow' = LastRow
  BY DEF LastRow
<1>2. tx'[r] = NoTx /\ \A q \in Requests : q # r => tx'[q] = tx[q]
  BY DEF Rollback, IInv, TypeOK
<1>3. \A q \in Requests : q # r => SnapshotsSeenBy(q)' = SnapshotsSeenBy(q) /\ Top(q)' = Top(q)
  BY <1>2 DEF SnapshotsSeenBy, Top
<1>4. pc'[r] = "failed" /\ \A q \in Requests : q # r => pc'[q] = pc[q] /\ seen'[q] = seen[q]
  BY DEF Rollback, IInv, TypeOK
<1>5. SnapshotsOK' /\ FilesOK'
  BY <1>1 DEF IInv, CoreInv, SnapshotsOK, FilesOK, FileOK
<1>6. TxOK'
  <2>1. NoTx.snaps = {}
    BY DEF NoTx
  <2>2. ASSUME NEW q \in Requests, q # r, tx[q].snaps # {}
        PROVE  (AloneOK(q) /\ SnapsOK(q) /\ EndsOK(q) /\ DelsOK(q))'
    <3>1. AloneOK(q) /\ SnapsOK(q) /\ EndsOK(q) /\ DelsOK(q)
      BY <2>2 DEF IInv, CoreInv, TxOK
    <3>2. AloneOK(q)'
      BY <1>2, <2>1, <3>1 DEF AloneOK
    <3>3. SnapsOK(q)'
      BY <1>1, <1>2, <2>2, <3>1 DEF SnapsOK
    <3>4. EndsOK(q)' /\ DelsOK(q)'
      BY <1>1, <1>2, <1>3, <2>2, <3>1 DEF EndsOK, DelsOK
    <3>5. QED
      BY <3>2, <3>3, <3>4
  <2>3. QED
    BY <1>2, <2>1, <2>2 DEF IInv, CoreInv, TxOK
<1>7. SeenOK'
  BY <1>3, <1>4 DEF IInv, CoreInv, SeenOK
<1>8. QED
  BY <1>5, <1>6, <1>7 DEF CoreInv

\* The head after a DuckLake snapshot: the row it inserted.
LEMMA DuckLakeHead ==
    ASSUME IInv, NEW n \in Nat, DuckLakeCommit(n)
    PROVE  /\ LastRow.id \in Nat /\ LastRow.next \in Nat
           /\ HasLast(snapshots') /\ UniqueIds(snapshots')
           /\ LastRow' = [id |-> LastRow.id + 1, next |-> LastRow.next + n]
           /\ \A q \in Requests : tx[q] = NoTx
<1> DEFINE x == [id |-> LastRow.id + 1, next |-> LastRow.next + n]
<1>1. /\ snapshots \in SUBSET SnapshotRow /\ HasLast(snapshots) /\ UniqueIds(snapshots)
      /\ LastRow \in SnapshotRow /\ \A t \in snapshots : t.id <= LastRow.id
  BY LatestIsLast DEF IInv, CoreInv, TypeOK, SnapshotsOK, LastRow
<1>2. x \in SnapshotRow /\ snapshots' = snapshots \cup {x}
  BY <1>1 DEF DuckLakeCommit, SnapshotRow
<1>3. \A t \in snapshots' : t.id <= x.id
  BY <1>1, <1>2 DEF SnapshotRow
<1>4. UniqueIds(snapshots')
  BY <1>1, <1>2 DEF UniqueIds, SnapshotRow
<1>5. snapshots' \in SUBSET SnapshotRow /\ x \in snapshots'
  BY <1>1, <1>2
<1> HIDE DEF x
<1>6. HasLast(snapshots') /\ Latest(snapshots') = x
  BY <1>3, <1>4, <1>5, LatestIsUnique
<1>7. \A q \in Requests : tx[q] = NoTx
  BY DEF DuckLakeCommit, NoneUncommitted, IInv, CoreInv, TxOK
<1>8. QED
  BY <1>1, <1>4, <1>6, <1>7 DEF LastRow, x, SnapshotRow

\* Ending live rows keeps ids and dates; no id appears twice.
LEMMA RewrittenRows ==
    ASSUME IInv, NEW old, UniqueIds(old), \A f \in old : FileOK(f),
           old \in SUBSET DataFileRow \/ old \in SUBSET DeleteFileRow,
           NEW F \in SUBSET LiveFiles(old), LastRow.id \in Nat
    PROVE  /\ UniqueIds(Rewritten(old, F))
           /\ \A g \in Rewritten(old, F) :
                /\ \E f \in old : f.id = g.id
                /\ g.id < LastRow.next /\ g.begin <= LastRow.id + 1 /\ g.end <= LastRow.id + 1
<1> DEFINE at == LastRow.id + 1
<1>1. at \in Nat /\ F \subseteq old
  BY DEF LiveFiles
<1>2. \A f \in old : /\ Closed(f, at).id = f.id /\ Closed(f, at).begin = f.begin
                     /\ Closed(f, at).end = at
                     /\ f.begin \in Nat /\ f.end \in Int
  BY <1>1, ClosedType DEF DataFileRow, DeleteFileRow, NULL
<1>3. ASSUME NEW g \in Rewritten(old, F)
      PROVE  \E f \in old : /\ f.id = g.id
                            /\ g = IF f \in F THEN Closed(f, at) ELSE f
  BY <1>1, <1>2 DEF Rewritten
<1>4. UniqueIds(Rewritten(old, F))
  BY <1>3 DEF UniqueIds
<1>5. ASSUME NEW g \in Rewritten(old, F)
      PROVE  /\ \E f \in old : f.id = g.id
             /\ g.id < LastRow.next /\ g.begin <= at /\ g.end <= at
  BY <1>1, <1>2, <1>3 DEF FileOK
<1>6. QED
  BY <1>4, <1>5

LEMMA DuckLakeStepInv ==
    ASSUME IInv, NEW n \in Nat, DuckLakeStep(n)
    PROVE  CoreInv'
<1> DEFINE at == LastRow.id + 1
<1>0. DuckLakeCommit(n) /\ UNCHANGED tx /\ InsertsStay
  BY DEF DuckLakeStep
<1>1. /\ LastRow.id \in Nat /\ LastRow.next \in Nat
      /\ HasLast(snapshots') /\ UniqueIds(snapshots')
      /\ LastRow' = [id |-> at, next |-> LastRow.next + n]
      /\ \A q \in Requests : tx[q] = NoTx
  BY <1>0, DuckLakeHead
<1>2. NoTx.snaps = {} /\ \A q \in Requests : tx'[q] = NoTx
  BY <1>0, <1>1 DEF NoTx
<1>3. PICK F \in SUBSET LiveFiles(dataFiles), G \in SUBSET LiveFiles(deleteFiles),
           new \in SUBSET DataFileRow :
         /\ dataFiles' = Rewritten(dataFiles, F) \cup new
         /\ deleteFiles' = Rewritten(deleteFiles, G)
         /\ new # {} => n > 0
         /\ \A f, g \in new : NewFile(f) /\ f = g
  BY DEF DuckLakeStep
<1>4. /\ UniqueIds(Rewritten(dataFiles, F))
      /\ \A g \in Rewritten(dataFiles, F) :
           /\ \E f \in dataFiles : f.id = g.id
           /\ g.id < LastRow.next /\ g.begin <= at /\ g.end <= at
  BY <1>1, RewrittenRows DEF IInv, CoreInv, TypeOK, FilesOK
<1>5. /\ UniqueIds(Rewritten(deleteFiles, G))
      /\ \A g \in Rewritten(deleteFiles, G) :
           /\ \E f \in deleteFiles : f.id = g.id
           /\ g.id < LastRow.next /\ g.begin <= at /\ g.end <= at
  BY <1>1, RewrittenRows DEF IInv, CoreInv, TypeOK, FilesOK
<1>6. FilesOK'
  <2>1. UniqueIds(dataFiles')
    BY <1>1, <1>3, <1>4 DEF UniqueIds, NewFile
  <2>2. UniqueIds(deleteFiles')
    BY <1>3, <1>5
  <2>3. \A f \in dataFiles', d \in deleteFiles' : f.id # d.id
    <3>1. ASSUME NEW f \in new, NEW d \in Rewritten(deleteFiles, G) PROVE f.id # d.id
      BY <1>1, <1>3, <1>5 DEF NewFile
    <3>2. ASSUME NEW f \in Rewritten(dataFiles, F), NEW d \in Rewritten(deleteFiles, G)
          PROVE f.id # d.id
      BY <1>4, <1>5 DEF IInv, CoreInv, FilesOK
    <3>3. QED
      BY <1>3, <3>1, <3>2
  <2>4. \A f \in dataFiles' \cup deleteFiles' : FileOK(f)'
    <3>1. ASSUME NEW f \in new
          PROVE  f.id < LastRow'.next /\ f.begin <= at /\ f.end <= at
      BY <1>1, <1>3 DEF NewFile, NULL
    <3>2. ASSUME NEW f \in Rewritten(dataFiles, F) \cup Rewritten(deleteFiles, G)
          PROVE  f.id < LastRow'.next /\ f.begin <= at /\ f.end <= at
      <4>1. f.id < LastRow.next /\ f.begin <= at /\ f.end <= at
        BY <1>4, <1>5
      <4>2. f.id \in Nat
        BY <1>4, <1>5 DEF IInv, TypeOK, DataFileRow, DeleteFileRow
      <4>3. QED
        BY <1>1, <4>1, <4>2
    <3>3. QED
      BY <1>1, <1>3, <3>1, <3>2 DEF FileOK
  <2>5. QED
    BY <2>1, <2>2, <2>3, <2>4 DEF FilesOK
<1>7. SnapshotsOK' /\ TxOK'
  BY <1>1, <1>2 DEF SnapshotsOK, TxOK
<1>8. SeenOK'
  <2> SUFFICES ASSUME NEW r \in Requests, pc'[r] = "insert"
               PROVE  /\ seen'[r].id <= Top(r)'.id
                      /\ seen'[r].id = Top(r)'.id => seen'[r] = Top(r)'
                      /\ seen'[r].id < Top(r)'.id => seen'[r].id + 1 \in Ids(SnapshotsSeenBy(r)')
    BY DEF SeenOK
  <2>1. pc[r] = "insert" /\ seen'[r] = seen[r]
    BY <1>0 DEF InsertsStay
  <2>2. SnapshotsSeenBy(r) = snapshots /\ SnapshotsSeenBy(r)' = snapshots'
    BY <1>1, <1>2 DEF SnapshotsSeenBy
  <2>3. Top(r) = LastRow /\ Top(r)' = LastRow'
    BY <2>2 DEF Top, LastRow
  <2>4. /\ seen[r].id <= LastRow.id
        /\ seen[r].id < LastRow.id => seen[r].id + 1 \in Ids(snapshots)
    BY <2>1, <2>2, <2>3 DEF IInv, CoreInv, SeenOK
  <2>5. seen[r].id \in Nat
    BY DEF IInv, TypeOK, SnapshotRow
  <2>6. snapshots' = snapshots \cup {LastRow'}
    BY <1>0, <1>1 DEF DuckLakeCommit
  <2>7. seen[r].id + 1 \in Ids(snapshots')
    BY <1>1, <2>4, <2>5, <2>6 DEF Ids
  <2>8. QED
    BY <1>1, <2>1, <2>2, <2>3, <2>4, <2>5, <2>7
<1>9. QED
  BY <1>6, <1>7, <1>8 DEF CoreInv

\* Expiry removes older rows, and none an allocation relies on.
LEMMA ExpiryInv ==
    ASSUME IInv, ~ StaleAllocators, Expiry
    PROVE  CoreInv'
<1>1. PICK ids : Expire(ids)
  BY DEF Expiry
<1>2. /\ LastRow.id \notin ids /\ NoAllocationBefore(ids)
      /\ snapshots' = { s \in snapshots : s.id \notin ids }
      /\ UNCHANGED <<dataFiles, deleteFiles, tx>> /\ InsertsStay
  BY <1>1 DEF Expire, Expiry
<1>3. /\ snapshots \in SUBSET SnapshotRow /\ HasLast(snapshots) /\ UniqueIds(snapshots)
      /\ LastRow \in snapshots /\ \A t \in snapshots : t.id <= LastRow.id
  BY LatestIsLast DEF IInv, CoreInv, TypeOK, SnapshotsOK, LastRow
<1>4. /\ snapshots' \in SUBSET SnapshotRow /\ UniqueIds(snapshots')
      /\ LastRow \in snapshots' /\ \A t \in snapshots' : t.id <= LastRow.id
  BY <1>2, <1>3 DEF UniqueIds
<1>5. HasLast(snapshots') /\ LastRow' = LastRow
  BY <1>4, LatestIsUnique DEF LastRow
<1>6. ASSUME NEW r \in Requests
      PROVE  Top(r)' = Top(r)
  <2>1. CASE tx[r].snaps = {}
    <3>1. SnapshotsSeenBy(r) = snapshots /\ SnapshotsSeenBy(r)' = snapshots'
      BY <1>2, <2>1 DEF SnapshotsSeenBy
    <3>2. QED
      BY <1>5, <3>1 DEF Top, LastRow
  <2>2. CASE tx[r].snaps # {}
    <3>1. /\ SnapshotsSeenBy(r) \in SUBSET SnapshotRow /\ UniqueIds(SnapshotsSeenBy(r))
          /\ \A t \in SnapshotsSeenBy(r) : t.id <= Top(r).id
          /\ Top(r) \in tx[r].snaps
      BY <2>2, TopIsLast
    <3>2. /\ SnapshotsSeenBy(r)' \in SUBSET SnapshotsSeenBy(r)
          /\ Top(r) \in SnapshotsSeenBy(r)'
      BY <1>2, <3>1 DEF SnapshotsSeenBy
    <3>3. UniqueIds(SnapshotsSeenBy(r)')
      BY <3>1, <3>2 DEF UniqueIds
    <3>4. Latest(SnapshotsSeenBy(r)') = Top(r)
      BY <3>1, <3>2, <3>3, LatestIsUnique
    <3>5. QED
      BY <3>4 DEF Top
  <2>3. QED
    BY <2>1, <2>2
<1>7. SnapshotsOK' /\ FilesOK'
  BY <1>2, <1>4, <1>5 DEF IInv, CoreInv, SnapshotsOK, FilesOK, FileOK
<1>8. TxOK'
  <2>1. ASSUME NEW r \in Requests, tx[r].snaps # {}
        PROVE  (AloneOK(r) /\ SnapsOK(r) /\ EndsOK(r) /\ DelsOK(r))'
    <3>1. AloneOK(r) /\ SnapsOK(r) /\ EndsOK(r) /\ DelsOK(r)
      BY <2>1 DEF IInv, CoreInv, TxOK
    <3>2. AloneOK(r)' /\ SnapsOK(r)'
      BY <1>2, <1>5, <3>1 DEF AloneOK, SnapsOK
    <3>3. EndsOK(r)' /\ DelsOK(r)'
      BY <1>2, <1>5, <1>6, <3>1 DEF EndsOK, DelsOK
    <3>4. QED
      BY <3>2, <3>3
  <2>2. QED
    BY <1>2, <2>1 DEF IInv, CoreInv, TxOK
<1>9. SeenOK'
  <2> SUFFICES ASSUME NEW r \in Requests, pc'[r] = "insert"
               PROVE  /\ seen'[r].id <= Top(r)'.id
                      /\ seen'[r].id = Top(r)'.id => seen'[r] = Top(r)'
                      /\ seen'[r].id < Top(r)'.id => seen'[r].id + 1 \in Ids(SnapshotsSeenBy(r)')
    BY DEF SeenOK
  <2>1. pc[r] = "insert" /\ seen'[r] = seen[r]
    BY <1>2 DEF InsertsStay
  <2>2. /\ seen[r].id <= Top(r).id
        /\ seen[r].id = Top(r).id => seen[r] = Top(r)
        /\ seen[r].id < Top(r).id => seen[r].id + 1 \in Ids(SnapshotsSeenBy(r))
    BY <2>1 DEF IInv, CoreInv, SeenOK
  <2>3. seen[r].id \in Nat /\ \A i \in ids : i <= seen[r].id
    BY <1>2, <2>1 DEF IInv, TypeOK, SnapshotRow, NoAllocationBefore
  <2>4. seen[r].id + 1 \notin ids
    BY <2>3
  <2>5. seen[r].id + 1 \in Ids(SnapshotsSeenBy(r)) => seen[r].id + 1 \in Ids(SnapshotsSeenBy(r)')
    BY <1>2, <2>4 DEF Ids, SnapshotsSeenBy
  <2>6. QED
    BY <1>6, <2>1, <2>2, <2>5
<1>10. QED
  BY <1>7, <1>8, <1>9 DEF CoreInv

\* The SELECT of an allocation reads the newest row its transaction sees.
LEMMA AllocateReadInv ==
    ASSUME IInv, NEW r \in Requests, AllocateRead(r)
    PROVE  CoreInv'
<1>1. UNCHANGED <<snapshots, dataFiles, deleteFiles, tx>>
  BY DEF AllocateRead, tables
<1>2. LastRow' = LastRow
  BY <1>1 DEF LastRow
<1>3. \A q \in Requests : SnapshotsSeenBy(q)' = SnapshotsSeenBy(q) /\ Top(q)' = Top(q)
  BY <1>1 DEF SnapshotsSeenBy, Top
<1>4. SnapshotsOK' /\ FilesOK'
  BY <1>1, <1>2 DEF IInv, CoreInv, SnapshotsOK, FilesOK, FileOK
<1>5. TxOK'
  BY <1>1, <1>2, <1>3 DEF IInv, CoreInv, TxOK, AloneOK, SnapsOK, EndsOK, DelsOK
<1>6. seen'[r] = Top(r) /\ \A q \in Requests : q # r => pc'[q] = pc[q] /\ seen'[q] = seen[q]
  BY DEF AllocateRead, IInv, TypeOK, Top
<1>7. Top(r).id \in Nat
  BY TopIsLast DEF SnapshotRow
<1>8. SeenOK'
  BY <1>3, <1>6, <1>7 DEF IInv, CoreInv, SeenOK
<1>9. QED
  BY <1>4, <1>5, <1>8 DEF CoreInv

\* What a transaction's UPDATEs do to a data file: nothing, or they end it.
LEMMA EndedFile ==
    ASSUME IInv, NEW r \in Requests, NEW f \in dataFiles
    PROVE  LET g == Ended(f, tx[r].ends)
           IN  /\ g \in DataFileRow
               /\ g.id = f.id /\ g.rows = f.rows /\ g.begin = f.begin
               /\ \/ g.end = f.end
                  \/ /\ f.end = NULL /\ \E e \in tx[r].ends : e.file = f.id
                     /\ LastRow.id < g.end /\ g.end <= Top(r).id
<1> DEFINE g == Ended(f, tx[r].ends)
<1>1. f \in DataFileRow /\ tx[r].ends \in SUBSET [file : Nat, at : Nat]
  BY DEF IInv, TypeOK
<1>2. CASE \E e \in tx[r].ends : e.file = f.id
  <2> DEFINE c == CHOOSE e \in tx[r].ends : e.file = f.id
  <2>1. c \in tx[r].ends /\ c.file = f.id
    BY <1>2
  <2>2. g = Closed(f, c.at)
    BY <1>2 DEF Ended
  <2> HIDE DEF c, g
  <2>3. EndsOK(r)
    BY <2>1 DEF IInv, CoreInv, TxOK, NoTx
  <2>4. c.at \in Nat /\ LastRow.id < c.at /\ c.at <= Top(r).id /\ f.end = NULL
    BY <1>1, <2>1, <2>3 DEF EndsOK
  <2>5. QED
    BY <1>1, <1>2, <2>2, <2>4, ClosedType DEF g
<1>3. CASE ~ \E e \in tx[r].ends : e.file = f.id
  BY <1>1, <1>3 DEF Ended
<1>4. QED
  BY <1>2, <1>3

\* An allocation that is not refused takes the id after the newest row, and
\* no other transaction has allocated.
LEMMA AllocatesAlone ==
    ASSUME IInv, NEW r \in Requests, pc[r] = "insert",
           seen[r].id + 1 \notin Uncommitted(r),
           seen[r].id + 1 \notin Ids(SnapshotsSeenBy(r))
    PROVE  /\ seen[r] = Top(r)
           /\ \A q \in Requests : q # r => tx[q] = NoTx
<1>1. seen[r].id \in Nat /\ Top(r).id \in Nat
  BY TopIsLast DEF IInv, TypeOK, SnapshotRow
<1>2. seen[r] = Top(r)
  BY <1>1 DEF IInv, CoreInv, SeenOK
<1>3. ASSUME NEW q \in Requests, q # r, tx[q].snaps # {}
      PROVE  FALSE
  <2>1. tx[r].snaps = {} /\ LastRow.id + 1 \in Ids(tx[q].snaps)
    BY <1>3 DEF IInv, CoreInv, TxOK, AloneOK, SnapsOK
  <2>2. Top(r) = LastRow
    BY <2>1, TopIsLast
  <2>3. LastRow.id + 1 \in Uncommitted(r)
    BY <1>3, <2>1 DEF Uncommitted
  <2>4. QED
    BY <1>2, <2>2, <2>3
<1>4. QED
  BY <1>2, <1>3 DEF IInv, CoreInv, TxOK

LEMMA AllocateInsertInv ==
    ASSUME IInv, NEW r \in Requests, NEW k \in Nat, NEW n,
           n = [id |-> seen[r].id + 1, next |-> seen[r].next + k],
           Part(todo[r]) \in {"posdelete", "eqdelete"} => k = Len(targets[r]),
           pc[r] = "insert", n.id \notin Uncommitted(r), n.id \notin Ids(SnapshotsSeenBy(r)),
           tx' = [tx EXCEPT ![r] = Written(r, n)],
           seen' = [seen EXCEPT ![r] = NothingSeen],
           Advance(r), UNCHANGED tables
    PROVE  CoreInv'
<1>1. seen[r] = Top(r) /\ \A q \in Requests : q # r => tx[q] = NoTx
  BY AllocatesAlone
<1>2. /\ LastRow \in SnapshotRow /\ Top(r) \in SnapshotRow
      /\ SnapshotsSeenBy(r) \in SUBSET SnapshotRow /\ UniqueIds(SnapshotsSeenBy(r))
      /\ \A t \in SnapshotsSeenBy(r) : t.id <= Top(r).id
      /\ LastRow.id <= Top(r).id /\ LastRow.next <= Top(r).next
  BY TopIsLast
<1>3. /\ n \in SnapshotRow /\ n.id = Top(r).id + 1 /\ n.next = Top(r).next + k
      /\ LastRow.id < n.id /\ Top(r).next <= n.next /\ LastRow.next <= n.next
  BY <1>1, <1>2 DEF SnapshotRow
<1>4. tx'[r] = Written(r, n) /\ \A q \in Requests : q # r => tx'[q] = NoTx
  BY <1>1 DEF IInv, TypeOK
<1>5. /\ UNCHANGED <<snapshots, dataFiles, deleteFiles>> /\ LastRow' = LastRow
      /\ SnapshotsSeenBy(r)' = SnapshotsSeenBy(r) \cup {n}
  BY <1>4 DEF tables, LastRow, SnapshotsSeenBy, Written
<1>6. /\ SnapshotsSeenBy(r)' \in SUBSET SnapshotRow /\ UniqueIds(SnapshotsSeenBy(r)')
      /\ n \in SnapshotsSeenBy(r)' /\ \A t \in SnapshotsSeenBy(r)' : t.id <= n.id
  <2>1. \A t \in SnapshotsSeenBy(r) : t.id < n.id
    BY <1>2, <1>3 DEF SnapshotRow
  <2>2. QED
    BY <1>2, <1>3, <1>5, <2>1 DEF UniqueIds, SnapshotRow
<1>7. Top(r)' = n
  BY <1>6, LatestIsUnique DEF Top
<1>8. tx[r] \in TxSet /\ tx'[r].snaps = tx[r].snaps \cup {n}
  BY <1>4 DEF IInv, TypeOK, Written, TxSet
<1>9. tx[r].snaps # {} => SnapsOK(r) /\ EndsOK(r) /\ DelsOK(r)
  BY DEF IInv, CoreInv, TxOK
<1>10. tx[r].snaps = {} => tx[r].ends = {} /\ tx[r].dels = {} /\ Top(r) = LastRow
  BY TopIsLast DEF IInv, CoreInv, TxOK, NoTx
<1>11. SnapsOK(r)'
  <2>1. \A s \in tx'[r].snaps : s.id > LastRow.id /\ s.next >= LastRow.next
    BY <1>2, <1>3, <1>8, <1>9 DEF SnapsOK, SnapshotRow
  <2>2. LastRow.id + 1 \in Ids(tx'[r].snaps)
    <3>1. CASE tx[r].snaps = {}
      BY <1>3, <1>8, <1>10, <3>1 DEF Ids
    <3>2. CASE tx[r].snaps # {}
      BY <1>8, <1>9, <3>2 DEF SnapsOK, Ids
    <3>3. QED
      BY <3>1, <3>2
  <2>3. tx'[r].snaps \subseteq SnapshotsSeenBy(r)' /\ n \in tx'[r].snaps
    BY <1>8 DEF SnapshotsSeenBy
  <2>4. HasLast(tx'[r].snaps) /\ UniqueIds(tx'[r].snaps)
    BY <1>6, <2>3 DEF HasLast, UniqueIds
  <2>5. QED
    BY <1>5, <2>1, <2>2, <2>4 DEF SnapsOK
<1>12. EndsOK(r)'
  <2> SUFFICES ASSUME NEW e \in tx'[r].ends
               PROVE  /\ LastRow.id < e.at /\ e.at <= n.id
                      /\ \A f \in dataFiles : f.id = e.file => f.end = NULL
    BY <1>5, <1>7 DEF EndsOK
  <2>1. CASE e \in tx[r].ends
    <3>1. EndsOK(r) /\ e.at \in Nat
      BY <1>8, <1>9, <1>10, <2>1 DEF TxSet
    <3>2. LastRow.id < e.at /\ e.at <= Top(r).id
      BY <2>1, <3>1 DEF EndsOK
    <3>3. QED
      BY <1>2, <1>3, <2>1, <3>1, <3>2 DEF EndsOK, SnapshotRow
  <2>2. CASE e \in Tombstones(r, n)
    <3>1. e.at = n.id /\ e.file \in LiveIdsSeenBy(r)
      BY <2>2 DEF Tombstones
    <3>2. PICK g \in dataFiles :
            /\ Ended(g, tx[r].ends).id = e.file
            /\ Ended(g, tx[r].ends).end = NULL
      BY <3>1 DEF LiveIdsSeenBy, LiveFiles, FilesSeenBy
    <3>3. g.id = e.file /\ g.end = NULL
      BY <1>2, <3>2, EndedFile DEF NULL, SnapshotRow
    <3>4. \A f \in dataFiles : f.id = e.file => f = g
      BY <3>3 DEF IInv, CoreInv, FilesOK, UniqueIds
    <3>5. QED
      BY <1>3, <3>1, <3>3, <3>4 DEF SnapshotRow
  <2>3. QED
    BY <1>4, <2>1, <2>2 DEF Written
<1>13. DelsOK(r)'
  <2>1. ASSUME NEW d \in tx[r].dels
        PROVE  /\ LastRow.next <= d.id /\ d.id < Top(r).next /\ d.id < n.next
               /\ LastRow.id < d.begin /\ d.begin <= n.id
               /\ d.end = NULL
    <3>1. DelsOK(r) /\ d \in DeleteFileRow
      BY <1>8, <1>9, <1>10, <2>1 DEF TxSet
    <3>2. QED
      BY <1>2, <1>3, <2>1, <3>1 DEF DelsOK, SnapshotRow, DeleteFileRow
  <2>2. CASE Part(todo[r]) \notin {"posdelete", "eqdelete"}
    <3>1. tx'[r].dels = tx[r].dels
      BY <1>4, <2>2 DEF Written
    <3>2. UniqueIds(tx[r].dels)
      BY <1>9, <1>10 DEF DelsOK, UniqueIds
    <3>3. QED
      BY <1>5, <1>7, <2>1, <3>1, <3>2 DEF DelsOK
  <2>3. CASE Part(todo[r]) \in {"posdelete", "eqdelete"}
    <3>1. tx'[r].dels = tx[r].dels \cup NewDeletes(r, n)
      BY <1>4, <2>3 DEF Written
    <3>2. targets[r] \in Seq(Nat) /\ k = Len(targets[r])
      BY <2>3 DEF IInv, TypeOK
    <3>3. \A d \in NewDeletes(r, n) :
            \E i \in 1 .. k : d = [id |-> Top(r).next + i - 1, file |-> targets[r][i],
                                 rows |-> named[r], begin |-> n.id, end |-> NULL]
      <4>1. n.next - Len(targets[r]) = Top(r).next
        BY <1>2, <1>3, <3>2 DEF SnapshotRow
      <4>2. DOMAIN targets[r] = 1 .. k
        BY <3>2
      <4>3. QED
        BY <4>1, <4>2 DEF NewDeletes
    <3>4. ASSUME NEW d \in NewDeletes(r, n)
          PROVE  /\ LastRow.next <= d.id /\ Top(r).next <= d.id /\ d.id < n.next
                 /\ LastRow.id < d.begin /\ d.begin <= n.id
                 /\ d.end = NULL
      BY <1>2, <1>3, <3>3, <3>4 DEF SnapshotRow
    <3>5. ASSUME NEW c \in NewDeletes(r, n), NEW d \in NewDeletes(r, n), c.id = d.id
          PROVE  c = d
      <4>1. PICK i \in 1 .. k : c = [id |-> Top(r).next + i - 1, file |-> targets[r][i],
                                   rows |-> named[r], begin |-> n.id, end |-> NULL]
        BY <3>3
      <4>2. PICK j \in 1 .. k : d = [id |-> Top(r).next + j - 1, file |-> targets[r][j],
                                   rows |-> named[r], begin |-> n.id, end |-> NULL]
        BY <3>3
      <4>3. Top(r).next \in Nat /\ i \in Nat /\ j \in Nat
        BY <1>2 DEF SnapshotRow
      <4>4. Top(r).next + i - 1 = Top(r).next + j - 1
        BY <3>5, <4>1, <4>2
      <4>5. i = j
        BY <4>3, <4>4
      <4>6. QED
        BY <4>1, <4>2, <4>5
    <3>6. UniqueIds(tx[r].dels)
      BY <1>9, <1>10 DEF DelsOK, UniqueIds
    <3>7. ASSUME NEW c \in tx[r].dels, NEW d \in NewDeletes(r, n)
          PROVE  c.id # d.id
      <4>1. c.id \in Nat /\ d.id \in Nat /\ Top(r).next \in Nat
        BY <1>2, <1>8, <3>3, <3>7 DEF TxSet, DeleteFileRow, SnapshotRow
      <4>2. QED
        BY <2>1, <3>4, <4>1
    <3>8. UniqueIds(tx'[r].dels)
      BY <3>1, <3>5, <3>6, <3>7 DEF UniqueIds
    <3>9. QED
      BY <1>5, <1>7, <2>1, <3>1, <3>4, <3>8 DEF DelsOK
  <2>4. QED
    BY <2>2, <2>3
<1>14. TxOK'
  <2>1. NoTx.snaps = {} /\ AloneOK(r)'
    BY <1>4 DEF NoTx, AloneOK
  <2>2. QED
    BY <1>4, <1>8, <1>11, <1>12, <1>13, <2>1 DEF TxOK
<1>15. SnapshotsOK' /\ FilesOK'
  BY <1>5 DEF IInv, CoreInv, SnapshotsOK, FilesOK, FileOK
<1>16. SeenOK'
  <2>1. pc'[r] # "insert" /\ \A q \in Requests : q # r => pc'[q] = pc[q] /\ seen'[q] = seen[q]
    BY AdvanceType DEF IInv, TypeOK
  <2>2. \A q \in Requests : q # r => SnapshotsSeenBy(q)' = SnapshotsSeenBy(q) /\ Top(q)' = Top(q)
    BY <1>1, <1>4, <1>5 DEF SnapshotsSeenBy, Top
  <2>3. QED
    BY <2>1, <2>2 DEF IInv, CoreInv, SeenOK
<1>17. QED
  BY <1>14, <1>15, <1>16 DEF CoreInv

\* COMMIT publishes what the transaction wrote, or nothing.
LEMMA CommitInv ==
    ASSUME IInv, NEW r \in Requests, Commit(r)
    PROVE  CoreInv'
<1>1. /\ snapshots' = SnapshotsSeenBy(r) /\ dataFiles' = FilesSeenBy(r)
      /\ deleteFiles' = deleteFiles \cup tx[r].dels
      /\ tx'[r] = NoTx /\ \A q \in Requests : q # r => tx'[q] = tx[q]
      /\ pc'[r] = "ok" /\ \A q \in Requests : q # r => pc'[q] = pc[q]
      /\ seen' = seen /\ tx' \in [Requests -> TxSet] /\ tx \in [Requests -> TxSet]
  BY NoTxType DEF Commit, DeletesSeenBy, IInv, TypeOK, TxSet
<1>2. CASE tx[r].snaps = {}
  <2>1. tx[r] = NoTx
    BY <1>2 DEF IInv, CoreInv, TxOK
  <2>2. tx' = tx
    BY <1>1, <2>1
  <2>3. \A f \in dataFiles : Ended(f, tx[r].ends) = f
    BY <2>1 DEF Ended, NoTx
  <2>4. UNCHANGED <<snapshots, dataFiles, deleteFiles>>
    BY <1>1, <2>1, <2>3 DEF SnapshotsSeenBy, FilesSeenBy, NoTx
  <2>5. InsertsStay
    BY <1>1 DEF InsertsStay
  <2>6. QED
    BY <2>2, <2>4, <2>5, QuietStep DEF Quiet
<1>3. CASE tx[r].snaps # {}
  <2>1. AloneOK(r) /\ SnapsOK(r) /\ EndsOK(r) /\ DelsOK(r)
    BY <1>3 DEF IInv, CoreInv, TxOK
  <2>2. /\ LastRow \in SnapshotRow /\ Top(r) \in SnapshotRow
        /\ HasLast(SnapshotsSeenBy(r)) /\ UniqueIds(SnapshotsSeenBy(r))
        /\ LastRow.id < Top(r).id /\ LastRow.next <= Top(r).next
    BY <1>3, TopIsLast
  <2>3. LastRow' = Top(r)
    BY <1>1 DEF LastRow, Top
  <2>4. NoTx.snaps = {} /\ \A q \in Requests : tx'[q] = NoTx
    <3>1. \A q \in Requests : q # r => tx[q] = NoTx
      BY <2>1 DEF IInv, CoreInv, TxOK, AloneOK
    <3>2. QED
      BY <1>1, <3>1 DEF NoTx
  <2>5. SnapshotsOK' /\ TxOK'
    BY <1>1, <2>2, <2>4 DEF SnapshotsOK, TxOK
  <2>6. \A g \in dataFiles' :
          /\ g \in DataFileRow
          /\ \E f \in dataFiles : f.id = g.id /\ g = Ended(f, tx[r].ends)
          /\ g.id < LastRow.next /\ g.begin <= LastRow.id /\ g.end <= Top(r).id
    <3> SUFFICES ASSUME NEW f \in dataFiles, NEW g, g = Ended(f, tx[r].ends)
                 PROVE  /\ g \in DataFileRow /\ f.id = g.id
                        /\ g.id < LastRow.next /\ g.begin <= LastRow.id /\ g.end <= Top(r).id
      BY <1>1 DEF FilesSeenBy
    <3>1. FileOK(f) /\ f \in DataFileRow
      BY DEF IInv, CoreInv, TypeOK, FilesOK
    <3>2. /\ g \in DataFileRow /\ g.id = f.id /\ g.begin = f.begin
          /\ g.end = f.end \/ g.end <= Top(r).id
      BY EndedFile
    <3>3. QED
      BY <2>2, <3>1, <3>2 DEF FileOK, DataFileRow, SnapshotRow, NULL
  <2>7. \A d \in deleteFiles :
          d.id \in Nat /\ d.id < LastRow.next /\ d.begin <= Top(r).id /\ d.end <= Top(r).id
    <3> TAKE d \in deleteFiles
    <3>1. FileOK(d) /\ d \in DeleteFileRow
      BY DEF IInv, CoreInv, TypeOK, FilesOK
    <3>2. QED
      BY <2>2, <3>1 DEF FileOK, DeleteFileRow, SnapshotRow, NULL
  <2>8. \A d \in tx[r].dels :
          /\ d.id \in Nat /\ LastRow.next <= d.id /\ d.id < Top(r).next
          /\ d.begin <= Top(r).id /\ d.end <= Top(r).id
    BY <1>1, <2>1, <2>2 DEF DelsOK, TxSet, DeleteFileRow, SnapshotRow, NULL
  <2>9. FilesOK'
    <3>1. UniqueIds(dataFiles')
      BY <2>6 DEF IInv, CoreInv, FilesOK, UniqueIds
    <3>2. \A c \in deleteFiles, d \in tx[r].dels : c.id # d.id
      BY <2>2, <2>7, <2>8 DEF SnapshotRow
    <3>3. UniqueIds(deleteFiles')
      BY <1>1, <2>1, <3>2 DEF IInv, CoreInv, FilesOK, DelsOK, UniqueIds
    <3>4. \A f \in dataFiles', d \in tx[r].dels : f.id # d.id
      BY <2>2, <2>6, <2>8 DEF SnapshotRow, DataFileRow
    <3>5. \A f \in dataFiles', d \in deleteFiles' : f.id # d.id
      BY <1>1, <2>6, <3>4 DEF IInv, CoreInv, FilesOK
    <3>6. \A f \in dataFiles' \cup deleteFiles' : FileOK(f)'
      <4>1. \A f \in dataFiles' : f.id < Top(r).next /\ f.begin <= Top(r).id /\ f.end <= Top(r).id
        BY <2>2, <2>6 DEF SnapshotRow, DataFileRow
      <4>2. \A d \in deleteFiles' : d.id < Top(r).next /\ d.begin <= Top(r).id /\ d.end <= Top(r).id
        BY <1>1, <2>2, <2>7, <2>8 DEF SnapshotRow
      <4>3. QED
        BY <2>3, <4>1, <4>2 DEF FileOK
    <3>7. QED
      BY <3>1, <3>3, <3>5, <3>6 DEF FilesOK
  <2>10. SeenOK'
    <3> SUFFICES ASSUME NEW q \in Requests, pc'[q] = "insert"
                 PROVE  /\ seen'[q].id <= Top(q)'.id
                        /\ seen'[q].id = Top(q)'.id => seen'[q] = Top(q)'
                        /\ seen'[q].id < Top(q)'.id => seen'[q].id + 1 \in Ids(SnapshotsSeenBy(q)')
      BY DEF SeenOK
    <3>1. q # r /\ pc[q] = "insert" /\ seen'[q] = seen[q]
      BY <1>1
    <3>2. tx[q].snaps = {} /\ SnapshotsSeenBy(q) = snapshots /\ Top(q) = LastRow
      BY <2>1, <3>1 DEF AloneOK, SnapshotsSeenBy, Top, LastRow
    <3>3. SnapshotsSeenBy(q)' = snapshots' /\ Top(q)' = Top(r)
      BY <2>3, <2>4 DEF SnapshotsSeenBy, Top, LastRow
    <3>4. /\ seen[q].id <= LastRow.id
          /\ seen[q].id < LastRow.id => seen[q].id + 1 \in Ids(snapshots)
      BY <3>1, <3>2 DEF IInv, CoreInv, SeenOK
    <3>5. LastRow.id + 1 \in Ids(tx[r].snaps)
      BY <2>1 DEF SnapsOK
    <3>6. seen[q].id \in Nat
      BY DEF IInv, TypeOK, SnapshotRow
    <3>7. seen[q].id + 1 \in Ids(snapshots) \cup Ids(tx[r].snaps)
      BY <2>2, <3>4, <3>5, <3>6 DEF SnapshotRow
    <3>8. seen[q].id + 1 \in Ids(snapshots')
      BY <1>1, <3>7 DEF Ids, SnapshotsSeenBy
    <3>9. seen[q].id < Top(r).id
      BY <2>2, <3>4, <3>6 DEF SnapshotRow
    <3>10. QED
      BY <2>2, <3>1, <3>3, <3>6, <3>8, <3>9 DEF SnapshotRow
  <2>11. QED
    BY <2>5, <2>9, <2>10 DEF CoreInv
<1>4. QED
  BY <1>2, <1>3

\* The five actions that commit a DuckLake snapshot have its shape.
LEMMA DuckLakeActions ==
    ASSUME IInv,
           \/ \E r \in Requests : AlterTable(r) \/ AddDataFiles(r)
           \/ OtherTableCommit
           \/ \E x \in DirectRows : DirectInsert(x)
           \/ \E F \in SUBSET LiveFiles(dataFiles) : Compact(F)
    PROVE  \E n \in Nat : DuckLakeStep(n)
<1>1. \A old : Rewritten(old, {}) = old
  BY DEF Rewritten
<1>2. DirectRows \subseteq Rows /\ Requests \subseteq Rows
  BY ConstantsAssumption
<1>3. LastRow.id + 1 \in Nat /\ LastRow.next \in Nat
  BY LatestIsLast DEF IInv, CoreInv, TypeOK, SnapshotsOK, LastRow, SnapshotRow
<1>4. ASSUME NEW r \in Requests, NEW part, DuckCall(r, part)
      PROVE  UNCHANGED tx /\ InsertsStay
  BY <1>4, AdvanceType DEF DuckCall, InsertsStay, IInv, TypeOK
<1>5. UNCHANGED requests => UNCHANGED tx /\ InsertsStay
  BY DEF requests, InsertsStay
<1>6. ASSUME DuckLakeCommit(0) \/ DuckLakeCommit(1), UNCHANGED <<dataFiles, deleteFiles>>,
             UNCHANGED tx /\ InsertsStay
      PROVE  \E n \in Nat : DuckLakeStep(n)
  <2>1. PICK n \in Nat : DuckLakeCommit(n)
    BY <1>6
  <2>2. \E F \in SUBSET LiveFiles(dataFiles), G \in SUBSET LiveFiles(deleteFiles),
          new \in SUBSET DataFileRow :
          /\ dataFiles' = Rewritten(dataFiles, F) \cup new
          /\ deleteFiles' = Rewritten(deleteFiles, G)
          /\ new # {} => n > 0
          /\ \A f, g \in new : NewFile(f) /\ f = g
    <3> WITNESS {} \in SUBSET LiveFiles(dataFiles)
    <3> WITNESS {} \in SUBSET LiveFiles(deleteFiles)
    <3> WITNESS {} \in SUBSET DataFileRow
    <3> QED
      BY <1>1, <1>6
  <2>3. QED
    BY <1>6, <2>1, <2>2 DEF DuckLakeStep
<1>7. ASSUME DuckLakeCommit(1), UNCHANGED tx /\ InsertsStay,
             NEW F \in SUBSET LiveFiles(dataFiles), NEW G \in SUBSET LiveFiles(deleteFiles),
             NEW rows \in SUBSET Rows, NEW new,
             new \in { {}, {[id |-> LastRow.next, rows |-> rows,
                            begin |-> LastRow.id + 1, end |-> NULL]} },
             dataFiles' = Rewritten(dataFiles, F) \cup new,
             deleteFiles' = Rewritten(deleteFiles, G)
      PROVE  \E n \in Nat : DuckLakeStep(n)
  <2>1. new \in SUBSET DataFileRow /\ \A f, g \in new : NewFile(f) /\ f = g
    BY <1>3, <1>7 DEF DataFileRow, NewFile
  <2>2. DuckLakeStep(1)
    BY <1>7, <2>1 DEF DuckLakeStep
  <2>3. QED
    BY <2>2
<1>8. ASSUME NEW r \in Requests, AlterTable(r) PROVE \E n \in Nat : DuckLakeStep(n)
  BY <1>4, <1>6, <1>8 DEF AlterTable
<1>9. ASSUME OtherTableCommit PROVE \E n \in Nat : DuckLakeStep(n)
  BY <1>5, <1>6, <1>9 DEF OtherTableCommit, requests
<1>10. ASSUME NEW r \in Requests, AddDataFiles(r) PROVE \E n \in Nat : DuckLakeStep(n)
  <2>1. /\ DuckLakeCommit(1) /\ UNCHANGED tx /\ InsertsStay
        /\ deleteFiles' = Rewritten(deleteFiles, {})
        /\ dataFiles' = Rewritten(dataFiles, {}) \cup {[id |-> LastRow.next, rows |-> {r},
                                     begin |-> LastRow.id + 1, end |-> NULL]}
    BY <1>1, <1>4, <1>10 DEF AddDataFiles
  <2>2. QED
    BY <1>2, <1>7, <2>1
<1>11. ASSUME NEW x \in DirectRows, DirectInsert(x) PROVE \E n \in Nat : DuckLakeStep(n)
  <2>1. /\ DuckLakeCommit(1) /\ UNCHANGED tx /\ InsertsStay
        /\ deleteFiles' = Rewritten(deleteFiles, {})
        /\ dataFiles' = Rewritten(dataFiles, {}) \cup {[id |-> LastRow.next, rows |-> {x},
                                     begin |-> LastRow.id + 1, end |-> NULL]}
    BY <1>1, <1>5, <1>11 DEF DirectInsert, requests
  <2>2. QED
    BY <1>2, <1>7, <2>1
<1>12. ASSUME NEW F \in SUBSET LiveFiles(dataFiles), Compact(F)
       PROVE  \E n \in Nat : DuckLakeStep(n)
  <2> DEFINE G == { d \in deleteFiles : d.end = NULL /\ d.file \in { f.id : f \in F } }
             kept == LiveRows(F, deleteFiles)
             new == IF kept = {} THEN {}
                    ELSE {[id |-> LastRow.next, rows |-> kept,
                           begin |-> LastRow.id + 1, end |-> NULL]}
  <2>1. G \in SUBSET LiveFiles(deleteFiles) /\ kept \in SUBSET Rows
    BY DEF LiveFiles, LiveRows
  <2>2. /\ DuckLakeCommit(1) /\ UNCHANGED requests
        /\ dataFiles' = Rewritten(dataFiles, F) \cup new
        /\ deleteFiles' = Rewritten(deleteFiles, G)
    BY <1>12 DEF Compact, Rewritten
  <2>3. new \in { {}, {[id |-> LastRow.next, rows |-> kept,
                       begin |-> LastRow.id + 1, end |-> NULL]} }
    OBVIOUS
  <2> HIDE DEF G, kept, new
  <2>4. QED
    BY <1>5, <1>7, <2>1, <2>2, <2>3
<1>13. QED
  BY <1>8, <1>9, <1>10, <1>11, <1>12

\* Every step is of one of the kinds above.
LEMMA StepKinds ==
    ASSUME IInv, [Next]_vars
    PROVE  \/ Quiet
           \/ \E n \in Nat : DuckLakeStep(n)
           \/ Expiry
           \/ \E r \in Requests :
                \/ Rollback(r) /\ UNCHANGED <<snapshots, dataFiles, deleteFiles>>
                \/ AllocateRead(r) \/ AllocateInsert(r) \/ Commit(r)
<1> USE DEF tables, client
<1>1. ASSUME UNCHANGED vars \/ Done PROVE Quiet
  BY <1>1 DEF vars, Done, Quiet, InsertsStay
<1>2. ASSUME NEW r \in Requests, Submit(r) PROVE Quiet
  BY <1>2 DEF Submit, Quiet, InsertsStay, IInv, TypeOK
<1>3. ASSUME NEW r \in Requests, CheckRequirements(r) PROVE Quiet
  BY <1>3, EntryOfType DEF CheckRequirements, Quiet, InsertsStay, IInv, TypeOK
<1>4. ASSUME NEW r \in Requests, Lock(r) PROVE Quiet
  BY <1>4 DEF Lock, Quiet, InsertsStay, IInv, TypeOK
<1>5. ASSUME NEW r \in Requests, ScanEqualityDelete(r) PROVE Quiet
  <2>1. CASE Advance(r)
    BY <1>5, <2>1, AdvanceType DEF ScanEqualityDelete, Quiet, InsertsStay, IInv, TypeOK
  <2>2. CASE pc' = [pc EXCEPT ![r] = "read"]
    BY <1>5, <2>2 DEF ScanEqualityDelete, Quiet, InsertsStay, IInv, TypeOK
  <2>3. QED
    BY <1>5, <2>1, <2>2 DEF ScanEqualityDelete
<1>6. ASSUME NEW r \in Requests, ReadLive(r)
      PROVE  Quiet \/ (Rollback(r) /\ UNCHANGED <<snapshots, dataFiles, deleteFiles>>)
  BY <1>6 DEF ReadLive, Quiet, InsertsStay, IInv, TypeOK
<1>7. ASSUME NEW r \in Requests, ExpireSnapshots(r) PROVE Expiry
  <2>1. UNCHANGED tx /\ InsertsStay
    BY <1>7, AdvanceType DEF ExpireSnapshots, DuckCall, InsertsStay, IInv, TypeOK
  <2>2. QED
    BY <1>7, <2>1 DEF ExpireSnapshots, Expiry
<1>8. ASSUME ExpireOld PROVE Expiry
  BY <1>8 DEF ExpireOld, Expiry, requests, InsertsStay
<1>9. ASSUME NEW r \in Requests, Abort(r)
      PROVE  Rollback(r) /\ UNCHANGED <<snapshots, dataFiles, deleteFiles>>
  BY <1>9 DEF Abort
<1>10. QED
  BY <1>1, <1>2, <1>3, <1>4, <1>5, <1>6, <1>7, <1>8, <1>9, DuckLakeActions
     DEF Next, Handle, Environment

LEMMA InitInv == Init => IInv
<1> SUFFICES ASSUME Init PROVE CoreInv
  BY InitType DEF IInv
<1> DEFINE x == [id |-> 1, next |-> 1]
<1>1. /\ snapshots \in SUBSET SnapshotRow /\ UniqueIds(snapshots) /\ x \in snapshots
      /\ \A t \in snapshots : t.id <= x.id
  BY DEF Init, SnapshotRow, UniqueIds
<1>2. HasLast(snapshots) /\ LastRow = x
  <2> HIDE DEF x
  <2> QED
    BY <1>1, LatestIsUnique DEF LastRow
<1>3. SnapshotsOK
  BY <1>1, <1>2 DEF SnapshotsOK
<1>4. FilesOK
  BY <1>2 DEF Init, FilesOK, FileOK, UniqueIds, NULL
<1>5. TxOK /\ SeenOK
  BY DEF Init, TxOK, NoTx, SeenOK
<1>6. QED
  BY <1>3, <1>4, <1>5 DEF CoreInv

LEMMA StepInv ==
    ASSUME IInv, ~ StaleAllocators, [Next]_vars
    PROVE  IInv'
<1>1. ASSUME NEW r \in Requests, AllocateInsert(r)
      PROVE  CoreInv'
  <2> DEFINE k == IF Part(todo[r]) \in {"posdelete", "eqdelete"} THEN Len(targets[r]) ELSE 0
             n == [id |-> seen[r].id + 1, next |-> seen[r].next + k]
  <2>1. CASE Rollback(r)
    BY <1>1, <2>1, RollbackStep DEF AllocateInsert, tables
  <2>2. CASE ~ Rollback(r)
    <3>1. targets[r] \in Seq(Nat)
      BY DEF IInv, TypeOK
    <3>2. k \in Nat /\ (Part(todo[r]) \in {"posdelete", "eqdelete"} => k = Len(targets[r]))
      BY <3>1
    <3>3. /\ pc[r] = "insert" /\ n.id \notin Uncommitted(r) /\ n.id \notin Ids(SnapshotsSeenBy(r))
          /\ tx' = [tx EXCEPT ![r] = Written(r, n)]
          /\ seen' = [seen EXCEPT ![r] = NothingSeen]
          /\ Advance(r) /\ UNCHANGED tables
      BY <1>1, <2>2 DEF AllocateInsert
    <3>4. n = [id |-> seen[r].id + 1, next |-> seen[r].next + k]
      OBVIOUS
    <3> HIDE DEF k, n
    <3>5. QED
      BY <3>2, <3>3, <3>4, AllocateInsertInv
  <2>3. QED
    BY <2>1, <2>2
<1>2. CoreInv'
  BY <1>1, StepKinds, QuietStep, DuckLakeStepInv, ExpiryInv, RollbackStep,
     AllocateReadInv, CommitInv
<1>3. QED
  BY <1>2, TypeStep DEF IInv

\* The inductive invariant holds in every reachable state: allocation in
\* Postgres, DuckLake's own commits and expiry together keep the snapshot and
\* file rows consistent.
THEOREM Invariance == ~ StaleAllocators /\ Spec => []IInv
<1> SUFFICES ASSUME ~ StaleAllocators PROVE Spec => []IInv
  OBVIOUS
<1>1. Init => IInv
  BY InitInv
<1>2. IInv /\ [Next]_vars => IInv'
  BY StepInv
<1>3. QED
  BY <1>1, <1>2, PTL DEF Spec

\* The variables hold rows of the catalog's tables and handler locals of the
\* right kind.
THEOREM TypeCorrect == ~ StaleAllocators /\ Spec => []TypeOK
<1>1. IInv => TypeOK
  BY DEF IInv
<1>2. QED
  BY <1>1, Invariance, PTL

\* _allocate_snapshot hands its id to one transaction at a time, the one after
\* the newest committed snapshot first.
THEOREM AllocationExclusive == ~ StaleAllocators /\ Spec => []AllocationIsExclusive
<1>1. IInv => AllocationIsExclusive
  BY DEF IInv, CoreInv, TxOK, AloneOK, SnapsOK, AllocationIsExclusive
<1>2. QED
  BY <1>1, Invariance, PTL

\* No snapshot id and no file id is ever given to two rows.
THEOREM IdsUnique == ~ StaleAllocators /\ Spec => []IdsNeverReused
<1>1. IInv => IdsNeverReused
  BY DEF IInv, CoreInv, SnapshotsOK, FilesOK, FileOK, UniqueIds, IdsNeverReused
<1>2. QED
  BY <1>1, Invariance, PTL

----------------------------------------------------------------------------
(***************************************************************************)
(* History: a step may end a live row at a new snapshot or add a row that  *)
(* begins at one, and neither shows at a snapshot that exists.             *)
(***************************************************************************)

SameRow(f, g) ==
    /\ f.rows = g.rows /\ f.begin = g.begin
    /\ \/ f.end = g.end
       \/ f.end = NULL /\ g.end > LastRow.id

SameFile(f, g) == f.id = g.id /\ SameRow(f, g)
SameDelete(f, g) == f.file = g.file /\ SameRow(f, g)

KeepsHistory ==
    /\ \A f \in dataFiles : \E g \in dataFiles' : SameFile(f, g)
    /\ \A g \in dataFiles' : g.begin > LastRow.id \/ \E f \in dataFiles : SameFile(f, g)
    /\ \A d \in deleteFiles : \E e \in deleteFiles' : SameDelete(d, e)
    /\ \A e \in deleteFiles' : e.begin > LastRow.id \/ \E d \in deleteFiles : SameDelete(d, e)

\* A step that keeps history shows every old snapshot as it was.
LEMMA HistoryKept ==
    ASSUME IInv, TypeOK', KeepsHistory, NEW i \in Nat, i <= LastRow.id, LastRow.id \in Nat
    PROVE  RowsAt(dataFiles', deleteFiles', i) = RowsAt(dataFiles, deleteFiles, i)
<1>1. /\ dataFiles \in SUBSET DataFileRow /\ dataFiles' \in SUBSET DataFileRow
      /\ deleteFiles \in SUBSET DeleteFileRow /\ deleteFiles' \in SUBSET DeleteFileRow
  BY DEF IInv, TypeOK
<1>2. ASSUME NEW f, NEW g, f.begin \in Nat, f.end \in Int, g.end \in Int, SameRow(f, g)
      PROVE  VisibleAt(f, i) <=> VisibleAt(g, i)
  BY <1>2 DEF SameRow, VisibleAt, NULL
<1>3. \A f \in dataFiles, g \in dataFiles' : SameFile(f, g) => (VisibleAt(f, i) <=> VisibleAt(g, i))
  BY <1>1, <1>2 DEF SameFile, DataFileRow, NULL
<1>4. \A d \in deleteFiles, e \in deleteFiles' : SameDelete(d, e) => (VisibleAt(d, i) <=> VisibleAt(e, i))
  BY <1>1, <1>2 DEF SameDelete, DeleteFileRow, NULL
<1>5. \A g : g.begin \in Nat /\ g.begin > LastRow.id => ~ VisibleAt(g, i)
  BY DEF VisibleAt
<1>6. \A g \in dataFiles' : VisibleAt(g, i) => \E f \in dataFiles : SameFile(f, g)
  BY <1>1, <1>5 DEF KeepsHistory, DataFileRow
<1>7. \A e \in deleteFiles' : VisibleAt(e, i) => \E d \in deleteFiles : SameDelete(d, e)
  BY <1>1, <1>5 DEF KeepsHistory, DeleteFileRow
<1>8. ASSUME NEW x \in Rows, x \in RowsAt(dataFiles, deleteFiles, i)
      PROVE  x \in RowsAt(dataFiles', deleteFiles', i)
  <2>1. PICK f \in dataFiles :
          /\ VisibleAt(f, i) /\ x \in f.rows
          /\ \A d \in deleteFiles : VisibleAt(d, i) /\ d.file = f.id => x \notin d.rows
    BY <1>8 DEF RowsAt
  <2>2. PICK g \in dataFiles' : SameFile(f, g)
    BY DEF KeepsHistory
  <2>3. VisibleAt(g, i) /\ x \in g.rows
    BY <1>3, <2>1, <2>2 DEF SameFile, SameRow
  <2>4. ASSUME NEW e \in deleteFiles', VisibleAt(e, i), e.file = g.id
        PROVE  x \notin e.rows
    <3>1. PICK d \in deleteFiles : SameDelete(d, e)
      BY <1>7, <2>4
    <3>2. VisibleAt(d, i) /\ d.file = f.id /\ d.rows = e.rows
      BY <1>4, <2>2, <2>4, <3>1 DEF SameFile, SameDelete, SameRow
    <3>3. QED
      BY <2>1, <3>2
  <2>5. QED
    BY <2>3, <2>4 DEF RowsAt
<1>9. ASSUME NEW x \in Rows, x \in RowsAt(dataFiles', deleteFiles', i)
      PROVE  x \in RowsAt(dataFiles, deleteFiles, i)
  <2>1. PICK g \in dataFiles' :
          /\ VisibleAt(g, i) /\ x \in g.rows
          /\ \A e \in deleteFiles' : VisibleAt(e, i) /\ e.file = g.id => x \notin e.rows
    BY <1>9 DEF RowsAt
  <2>2. PICK f \in dataFiles : SameFile(f, g)
    BY <1>6, <2>1
  <2>3. VisibleAt(f, i) /\ x \in f.rows
    BY <1>3, <2>1, <2>2 DEF SameFile, SameRow
  <2>4. ASSUME NEW d \in deleteFiles, VisibleAt(d, i), d.file = f.id
        PROVE  x \notin d.rows
    <3>1. PICK e \in deleteFiles' : SameDelete(d, e)
      BY DEF KeepsHistory
    <3>2. VisibleAt(e, i) /\ e.file = g.id /\ d.rows = e.rows
      BY <1>4, <2>2, <2>4, <3>1 DEF SameFile, SameDelete, SameRow
    <3>3. QED
      BY <2>1, <3>2
  <2>5. QED
    BY <2>3, <2>4 DEF RowsAt
<1>10. QED
  BY <1>8, <1>9 DEF RowsAt

LEMMA StepKeepsHistory ==
    ASSUME IInv, ~ StaleAllocators, [Next]_vars
    PROVE  KeepsHistory
<1>0. /\ dataFiles \in SUBSET DataFileRow /\ deleteFiles \in SUBSET DeleteFileRow
      /\ LastRow.id \in Nat
  BY LatestIsLast DEF IInv, CoreInv, TypeOK, SnapshotsOK, LastRow, SnapshotRow
<1>1. ASSUME UNCHANGED <<dataFiles, deleteFiles>> PROVE KeepsHistory
  BY <1>1 DEF KeepsHistory, SameFile, SameDelete, SameRow
<1>2. ASSUME NEW n \in Nat, DuckLakeStep(n) PROVE KeepsHistory
  <2>1. PICK F \in SUBSET LiveFiles(dataFiles), G \in SUBSET LiveFiles(deleteFiles),
             new \in SUBSET DataFileRow :
           /\ dataFiles' = Rewritten(dataFiles, F) \cup new
           /\ deleteFiles' = Rewritten(deleteFiles, G)
           /\ \A f, g \in new : NewFile(f) /\ f = g
    BY <1>2 DEF DuckLakeStep
  <2>2. LastRow.id + 1 \in Nat /\ LastRow.id + 1 > LastRow.id
    BY <1>0
  <2>3. \A f \in F : f \in dataFiles /\ SameFile(f, Closed(f, LastRow.id + 1))
    BY <1>0, <2>2, ClosedType DEF LiveFiles, SameFile, SameRow
  <2>4. \A d \in G : d \in deleteFiles /\ SameDelete(d, Closed(d, LastRow.id + 1))
    BY <1>0, <2>2, ClosedType DEF LiveFiles, SameDelete, SameRow
  <2>5. \A f : SameFile(f, f) /\ SameDelete(f, f)
    BY DEF SameFile, SameDelete, SameRow
  <2>6. \A f \in dataFiles : \E g \in dataFiles' : SameFile(f, g)
    BY <2>1, <2>3, <2>5 DEF Rewritten
  <2>7. \A g \in dataFiles' : g.begin > LastRow.id \/ \E f \in dataFiles : SameFile(f, g)
    <3>1. \A g \in new : g.begin > LastRow.id
      BY <2>1, <2>2 DEF NewFile
    <3>2. \A g \in Rewritten(dataFiles, F) : \E f \in dataFiles : SameFile(f, g)
      BY <2>3, <2>5 DEF Rewritten
    <3>3. QED
      BY <2>1, <3>1, <3>2
  <2>8. \A d \in deleteFiles : \E e \in deleteFiles' : SameDelete(d, e)
    BY <2>1, <2>4, <2>5 DEF Rewritten
  <2>9. \A e \in deleteFiles' : \E d \in deleteFiles : SameDelete(d, e)
    BY <2>1, <2>4, <2>5 DEF Rewritten
  <2>10. QED
    BY <2>6, <2>7, <2>8, <2>9 DEF KeepsHistory
<1>3. ASSUME NEW r \in Requests, Commit(r) PROVE KeepsHistory
  <2>1. dataFiles' = FilesSeenBy(r) /\ deleteFiles' = deleteFiles \cup tx[r].dels
    BY <1>3 DEF Commit, DeletesSeenBy
  <2>2. \A f \in dataFiles : SameFile(f, Ended(f, tx[r].ends))
    BY EndedFile DEF SameFile, SameRow
  <2>3. \A d \in tx[r].dels : d.begin > LastRow.id
    <3>1. tx[r].dels # {} => DelsOK(r)
      BY DEF IInv, CoreInv, TxOK, NoTx
    <3>2. tx[r].dels \in SUBSET DeleteFileRow
      BY DEF IInv, TypeOK
    <3>3. QED
      BY <1>0, <3>1, <3>2 DEF DelsOK, DeleteFileRow
  <2>4. \A d : SameDelete(d, d)
    BY DEF SameDelete, SameRow
  <2>5. QED
    BY <2>1, <2>2, <2>3, <2>4 DEF KeepsHistory, FilesSeenBy
<1>4. ASSUME NEW r \in Requests, AllocateRead(r) \/ AllocateInsert(r)
      PROVE  UNCHANGED <<dataFiles, deleteFiles>>
  BY <1>4 DEF AllocateRead, AllocateInsert, tables
<1>5. ASSUME Expiry PROVE UNCHANGED <<dataFiles, deleteFiles>>
  BY <1>5 DEF Expiry, Expire
<1>6. QED
  BY <1>1, <1>2, <1>3, <1>4, <1>5, StepKinds DEF Quiet

\* What a snapshot shows never changes while it exists: a commit, a delete, an
\* overwrite and a compaction all write at snapshots that are newer than it.
THEOREM HistoryImmutable == ~ StaleAllocators /\ Spec => HistoryIsImmutable
<1> SUFFICES ASSUME ~ StaleAllocators PROVE Spec => HistoryIsImmutable
  OBVIOUS
<1> DEFINE Same == \A i \in Ids(snapshots) \cap Ids(snapshots') :
                      RowsAt(dataFiles', deleteFiles', i) = RowsAt(dataFiles, deleteFiles, i)
<1>1. ASSUME IInv, [Next]_vars PROVE Same
  <2>1. \A i \in Ids(snapshots) : i \in Nat /\ i <= LastRow.id
    BY <1>1, LatestIsLast DEF IInv, CoreInv, TypeOK, SnapshotsOK, LastRow, SnapshotRow, Ids
  <2>2. LastRow.id \in Nat
    BY <1>1, LatestIsLast DEF IInv, CoreInv, TypeOK, SnapshotsOK, LastRow, SnapshotRow
  <2>3. KeepsHistory /\ TypeOK'
    BY <1>1, StepKeepsHistory, TypeStep
  <2>4. QED
    BY <1>1, <2>1, <2>2, <2>3, HistoryKept
<1>2. Spec => []IInv
  BY Invariance
<1>3. IInv /\ [Next]_vars => [Same]_vars
  BY <1>1
<1>4. QED
  BY <1>2, <1>3, PTL DEF Spec, HistoryIsImmutable

----------------------------------------------------------------------------
(***************************************************************************)
(* What requests name and aim at: a second invariant, inductive relative   *)
(* to the first.  A data file keeps its id, its rows and its begin, so     *)
(* what a request has aimed at stays a file of the table.                  *)
(***************************************************************************)

Busy == {"scan", "lock", "duck", "read", "alloc", "insert"}

\* A request at l, with parts left, that names rows x, aims at files aims and
\* has written u: an overwrite ends files whose rows it names, and its delete
\* files hide rows that it names, of files of the table.
AimOK(l, left, x, aims, u) ==
    /\ aims \subseteq Ids(dataFiles)
    /\ "remove" \in left => \A f \in dataFiles : f.id \in aims => f.rows \subseteq x
    /\ \A e \in u.ends :
         e.file \in Ids(dataFiles) /\ \A f \in dataFiles : f.id = e.file => f.rows \subseteq x
    /\ \A d \in u.dels : d.file \in Ids(dataFiles) /\ d.rows \subseteq x
    /\ l \in {"idle", "submitted"} => u = NoTx
    /\ l \in Busy => left # {}
    /\ l = "scan" => Part(left) = "eqdelete"

AimInv == \A r \in Requests : AimOK(pc[r], todo[r], named[r], ToSet(targets[r]), tx[r])

NamesInv == DeletesFollowTheirFile /\ AimInv

\* The part the handler is at is one of those left, and none left comes before
\* it in the handler's order.
LEMMA PartIsFirst ==
    ASSUME NEW left \in SUBSET Parts, left # {}
    PROVE  Part(left) \in left /\ (Part(left) = "eqdelete" => "remove" \notin left)
<1> DEFINE First(i) == PartOrder[i] \in left /\ \A j \in 1 .. i - 1 : PartOrder[j] \notin left
<1>1. /\ DOMAIN PartOrder = 1 .. 7
      /\ PartOrder[1] = "schema" /\ PartOrder[2] = "sort" /\ PartOrder[3] = "add"
      /\ PartOrder[4] = "remove" /\ PartOrder[5] = "posdelete" /\ PartOrder[6] = "eqdelete"
      /\ PartOrder[7] = "expire"
  BY DEF PartOrder
<1>2. \E i \in 1 .. 7 : PartOrder[i] \in left
  BY <1>1 DEF Parts
<1>3. \E i \in 1 .. 7 : First(i)
  <2>1. SUFFICES ASSUME \A i \in 1 .. 7 : ~ First(i) PROVE FALSE
    OBVIOUS
  <2>2. PartOrder[1] \notin left
    BY <2>1
  <2>3. PartOrder[2] \notin left
    BY <2>1, <2>2
  <2>4. PartOrder[3] \notin left
    BY <2>1, <2>2, <2>3
  <2>5. PartOrder[4] \notin left
    BY <2>1, <2>2, <2>3, <2>4
  <2>6. PartOrder[5] \notin left
    BY <2>1, <2>2, <2>3, <2>4, <2>5
  <2>7. PartOrder[6] \notin left
    BY <2>1, <2>2, <2>3, <2>4, <2>5, <2>6
  <2>8. PartOrder[7] \notin left
    BY <2>1, <2>2, <2>3, <2>4, <2>5, <2>6, <2>7
  <2>9. QED
    BY <1>2, <2>2, <2>3, <2>4, <2>5, <2>6, <2>7, <2>8
<1> DEFINE k == CHOOSE i \in DOMAIN PartOrder :
                  PartOrder[i] \in left /\ \A j \in 1 .. i - 1 : PartOrder[j] \notin left
<1>4. k \in 1 .. 7 /\ First(k)
  BY <1>1, <1>3
<1>5. Part(left) = PartOrder[k]
  BY DEF Part
<1> HIDE DEF k
<1>6. PartOrder[k] = "eqdelete" => k = 6
  BY <1>1, <1>4
<1>7. k = 6 => "remove" \notin left
  BY <1>1, <1>4
<1>8. QED
  BY <1>4, <1>5, <1>6, <1>7

LEMMA EntryIsBusy ==
    ASSUME NEW left
    PROVE  /\ EntryOf(left) \in Busy => left # {}
           /\ EntryOf(left) = "scan" => Part(left) = "eqdelete"
           /\ EntryOf(left) \notin {"idle", "submitted"}
BY DEF EntryOf, Busy

\* No id of a data file disappears or gets other rows.
LEMMA FilesStay ==
    ASSUME IInv, ~ StaleAllocators, [Next]_vars
    PROVE  /\ \A i \in Ids(dataFiles) : i \in Ids(dataFiles')
           /\ \A f \in dataFiles : \E g \in dataFiles' : g.id = f.id /\ g.begin = f.begin
           /\ \A g \in dataFiles' : g.id \in Ids(dataFiles) =>
                 \E f \in dataFiles : f.id = g.id /\ f.rows = g.rows
<1>1. KeepsHistory /\ UniqueIds(dataFiles')
  BY StepKeepsHistory, StepInv DEF IInv, CoreInv, FilesOK
<1>2. \A f \in dataFiles : \E g \in dataFiles' : g.id = f.id /\ g.begin = f.begin /\ g.rows = f.rows
  BY <1>1 DEF KeepsHistory, SameFile, SameRow
<1>3. \A i \in Ids(dataFiles) : i \in Ids(dataFiles')
  BY <1>2 DEF Ids
<1>4. ASSUME NEW g \in dataFiles', g.id \in Ids(dataFiles)
      PROVE  \E f \in dataFiles : f.id = g.id /\ f.rows = g.rows
  <2>1. PICK f \in dataFiles : f.id = g.id
    BY <1>4 DEF Ids
  <2>2. PICK h \in dataFiles' : h.id = f.id /\ h.rows = f.rows
    BY <1>2
  <2>3. h = g
    BY <1>1, <2>1, <2>2 DEF UniqueIds
  <2>4. QED
    BY <2>1, <2>2, <2>3
<1>5. QED
  BY <1>2, <1>3, <1>4

\* What is right for a request stays right when somebody moves.
LEMMA AimStays ==
    ASSUME IInv, ~ StaleAllocators, [Next]_vars,
           NEW l, NEW left, NEW x, NEW aims, NEW u, AimOK(l, left, x, aims, u)
    PROVE  AimOK(l, left, x, aims, u)'
<1>1. /\ \A i \in Ids(dataFiles) : i \in Ids(dataFiles')
      /\ \A g \in dataFiles' : g.id \in Ids(dataFiles) =>
            \E f \in dataFiles : f.id = g.id /\ f.rows = g.rows
  BY FilesStay
<1>2. /\ aims \subseteq Ids(dataFiles')
      /\ "remove" \in left => \A g \in dataFiles' : g.id \in aims => g.rows \subseteq x
      /\ \A e \in u.ends :
           /\ e.file \in Ids(dataFiles')
           /\ \A g \in dataFiles' : g.id = e.file => g.rows \subseteq x
      /\ \A d \in u.dels : d.file \in Ids(dataFiles') /\ d.rows \subseteq x
  BY <1>1 DEF AimOK
<1>3. QED
  BY <1>2 DEF AimOK

\* Request r moves, to where it is right in the tables as they were.
LEMMA AimMoves ==
    ASSUME IInv, ~ StaleAllocators, [Next]_vars, AimInv, NEW r \in Requests,
           NEW l, NEW left, NEW x, NEW aims, NEW u, AimOK(l, left, x, aims, u),
           pc'[r] = l, todo'[r] = left, named'[r] = x, ToSet(targets'[r]) = aims, tx'[r] = u,
           \A q \in Requests : q # r =>
              /\ pc'[q] = pc[q] /\ todo'[q] = todo[q] /\ named'[q] = named[q]
              /\ targets'[q] = targets[q] /\ tx'[q] = tx[q]
    PROVE  AimInv'
<1>1. AimOK(l, left, x, aims, u)'
  BY AimStays
<1>2. AimOK(pc[r], todo[r], named[r], ToSet(targets[r]), tx[r])'
  BY <1>1
<1>3. ASSUME NEW q \in Requests, q # r
      PROVE  AimOK(pc[q], todo[q], named[q], ToSet(targets[q]), tx[q])'
  <2>1. PICK k, m, y, a, v : k = pc[q] /\ m = todo[q] /\ y = named[q]
                             /\ a = ToSet(targets[q]) /\ v = tx[q]
    OBVIOUS
  <2>2. AimOK(k, m, y, a, v)
    BY <2>1 DEF AimInv
  <2>3. AimOK(k, m, y, a, v)'
    BY <2>2, AimStays
  <2>4. pc'[q] = k /\ todo'[q] = m /\ named'[q] = y /\ ToSet(targets'[q]) = a /\ tx'[q] = v
    BY <1>3, <2>1
  <2>5. QED
    BY <2>3, <2>4
<1>4. QED
  BY <1>2, <1>3 DEF AimInv

\* A request keeps what it names, aims at and has written.
LEMMA AimGoesOn ==
    ASSUME IInv, ~ StaleAllocators, [Next]_vars, AimInv, NEW r \in Requests,
           NEW l, NEW left, left \subseteq todo[r],
           pc' = [pc EXCEPT ![r] = l], todo' = [todo EXCEPT ![r] = left],
           UNCHANGED <<named, targets, tx>>,
           l \in {"idle", "submitted"} => tx[r] = NoTx,
           l \in Busy => left # {},
           l = "scan" => Part(left) = "eqdelete"
    PROVE  AimInv'
<1>1. PICK x, aims, u : x = named[r] /\ aims = ToSet(targets[r]) /\ u = tx[r]
  OBVIOUS
<1>2. AimOK(l, left, x, aims, u)
  <2>1. AimOK(pc[r], todo[r], named[r], ToSet(targets[r]), tx[r])
    BY DEF AimInv
  <2>2. QED
    BY <1>1, <2>1 DEF AimOK
<1>3. pc \in [Requests -> PcSet] /\ todo \in [Requests -> SUBSET Parts]
  BY DEF IInv, TypeOK, PcSet
<1>4. QED
  BY <1>1, <1>2, <1>3, AimMoves

LEMMA AimAdvances ==
    ASSUME IInv, ~ StaleAllocators, [Next]_vars, AimInv, NEW r \in Requests,
           Advance(r), UNCHANGED <<named, targets, tx>>
    PROVE  AimInv'
<1>1. PICK left, l : left = todo[r] \ {Part(todo[r])} /\ l = EntryOf(left)
  OBVIOUS
<1>2. todo' = [todo EXCEPT ![r] = left] /\ todo \in [Requests -> SUBSET Parts]
  BY <1>1 DEF Advance, IInv, TypeOK
<1>3. pc' = [pc EXCEPT ![r] = l]
  BY <1>1, <1>2 DEF Advance
<1>4. /\ left \subseteq todo[r] /\ l \notin {"idle", "submitted"}
      /\ l \in Busy => left # {}
      /\ l = "scan" => Part(left) = "eqdelete"
  BY <1>1, EntryIsBusy
<1>5. QED
  BY <1>2, <1>3, <1>4, AimGoesOn

\* A request that has failed, or has its answer, aims at nothing.
LEMMA AimEnds ==
    ASSUME IInv, ~ StaleAllocators, [Next]_vars, AimInv, NEW r \in Requests,
           NEW l \in {"failed", "ok"}, pc' = [pc EXCEPT ![r] = l],
           tx' = [tx EXCEPT ![r] = NoTx], targets' = [targets EXCEPT ![r] = <<>>],
           named' = named, \A q \in Requests : q # r => todo'[q] = todo[q]
    PROVE  AimInv'
<1>1. PICK left, x : left = todo'[r] /\ x = named[r]
  OBVIOUS
<1>2. AimOK(l, left, x, {}, NoTx)
  BY DEF AimOK, NoTx, Busy
<1>3. pc \in [Requests -> PcSet] /\ tx \in [Requests -> TxSet] /\ targets \in [Requests -> Seq(Nat)]
  BY DEF IInv, TypeOK, PcSet, TxSet
<1>4. ToSet(<<>>) = {}
  BY DEF ToSet
<1>5. QED
  BY <1>1, <1>2, <1>3, <1>4, AimMoves

LEMMA AimRollback ==
    ASSUME IInv, ~ StaleAllocators, [Next]_vars, AimInv, NEW r \in Requests,
           Rollback(r), named' = named
    PROVE  AimInv'
<1>1. \A q \in Requests : q # r => todo'[q] = todo[q]
  BY DEF Rollback, IInv, TypeOK
<1>2. QED
  BY <1>1, AimEnds DEF Rollback

\* The client names all rows of the file that it removes.
LEMMA SubmitAims ==
    ASSUME IInv, ~ StaleAllocators, [Next]_vars, AimInv, NEW r \in Requests, Submit(r)
    PROVE  AimInv'
<1>1. /\ pc \in [Requests -> PcSet] /\ todo \in [Requests -> SUBSET Parts]
      /\ named \in [Requests -> SUBSET Rows] /\ targets \in [Requests -> Seq(Nat)]
      /\ pc[r] = "idle" /\ UNCHANGED tx
  BY DEF IInv, TypeOK, PcSet, Submit
<1>2. AimOK(pc[r], todo[r], named[r], ToSet(targets[r]), tx[r])
  BY DEF AimInv
<1>3. tx[r] = NoTx /\ ToSet(targets[r]) \subseteq Ids(dataFiles)
  BY <1>1, <1>2 DEF AimOK
<1>4. PICK s \in Shapes :
        /\ todo' = [todo EXCEPT ![r] = s]
        /\ IF s \cap {"remove", "posdelete"} # {}
           THEN \E f \in dataFiles :
                  /\ targets' = [targets EXCEPT ![r] = <<f.id>>]
                  /\ \E x \in IF "remove" \in s THEN {f.rows} ELSE SUBSET f.rows \ {{}} :
                       named' = [named EXCEPT ![r] = x]
           ELSE /\ targets' = targets
                /\ IF "eqdelete" \in s
                   THEN \E x \in SUBSET (RowsAt(dataFiles, deleteFiles, Current)
                                       \cup IF "add" \in s THEN {r} ELSE {}) :
                          named' = [named EXCEPT ![r] = x]
                   ELSE named' = named
  BY DEF Submit
<1>5. pc' = [pc EXCEPT ![r] = "submitted"]
  BY DEF Submit
<1>6. CASE s \cap {"remove", "posdelete"} # {}
  <2>1. PICK f \in dataFiles :
          /\ targets' = [targets EXCEPT ![r] = <<f.id>>]
          /\ \E x \in IF "remove" \in s THEN {f.rows} ELSE SUBSET f.rows \ {{}} :
               named' = [named EXCEPT ![r] = x]
    BY <1>4, <1>6
  <2>2. PICK x : named' = [named EXCEPT ![r] = x] /\ ("remove" \in s => x = f.rows)
    BY <2>1
  <2>3. PICK aims : aims = {f.id}
    OBVIOUS
  <2>4. AimOK("submitted", s, x, aims, NoTx)
    <3>1. \A g \in dataFiles : g.id = f.id => g = f
      BY DEF IInv, CoreInv, FilesOK, UniqueIds
    <3>2. aims \subseteq Ids(dataFiles)
      BY <2>3 DEF Ids
    <3>3. QED
      BY <2>2, <2>3, <3>1, <3>2 DEF AimOK, NoTx, Busy
  <2>5. ToSet(targets'[r]) = aims
    <3>1. targets'[r] = <<f.id>>
      BY <1>1, <2>1
    <3>2. QED
      BY <2>3, <3>1 DEF ToSet
  <2>6. QED
    BY <1>1, <1>3, <1>4, <1>5, <2>1, <2>2, <2>4, <2>5, AimMoves
<1>7. CASE s \cap {"remove", "posdelete"} = {}
  <2>1. targets' = targets /\ \E x : named' = [named EXCEPT ![r] = x]
    <3>1. CASE "eqdelete" \in s
      BY <1>4, <1>7, <3>1
    <3>2. CASE "eqdelete" \notin s
      <4>1. named' = [named EXCEPT ![r] = named[r]]
        BY <1>1, <1>4, <1>7, <3>2
      <4>2. QED
        BY <1>4, <1>7, <4>1
    <3>3. QED
      BY <3>1, <3>2
  <2>2. PICK x : named' = [named EXCEPT ![r] = x]
    BY <2>1
  <2>3. PICK aims : aims = ToSet(targets[r])
    OBVIOUS
  <2>4. AimOK("submitted", s, x, aims, NoTx)
    BY <1>3, <1>7, <2>3 DEF AimOK, NoTx, Busy
  <2>5. QED
    BY <1>1, <1>3, <1>4, <1>5, <2>1, <2>2, <2>3, <2>4, AimMoves
<1>8. QED
  BY <1>6, <1>7

\* An equality delete is aimed at files the transaction sees.
LEMMA ScanAims ==
    ASSUME IInv, ~ StaleAllocators, [Next]_vars, AimInv, NEW r \in Requests, ScanEqualityDelete(r)
    PROVE  AimInv'
<1>1. CASE Matching(r) = {}
  BY <1>1, AimAdvances DEF ScanEqualityDelete, client
<1>2. CASE Matching(r) # {}
  <2>1. PICK q \in SetToSeqs(Matching(r)) : targets' = [targets EXCEPT ![r] = q]
    BY <1>2 DEF ScanEqualityDelete
  <2>2. /\ pc \in [Requests -> PcSet] /\ targets \in [Requests -> Seq(Nat)]
        /\ pc[r] = "scan" /\ pc' = [pc EXCEPT ![r] = "read"] /\ UNCHANGED <<todo, named, tx>>
    BY <1>2 DEF ScanEqualityDelete, client, IInv, TypeOK, PcSet
  <2>3. Matching(r) \subseteq Ids(dataFiles)
    <3>1. \A f \in dataFiles : Ended(f, tx[r].ends).id = f.id
      BY EndedFile
    <3>2. QED
      BY <3>1 DEF Matching, FilesSeenBy, Ids
  <2>4. ToSet(q) \subseteq Matching(r)
    BY DEF SetToSeqs, ToSet
  <2>5. PICK left, x, aims, u : left = todo[r] /\ x = named[r] /\ aims = ToSet(q) /\ u = tx[r]
    OBVIOUS
  <2>6. AimOK(pc[r], todo[r], named[r], ToSet(targets[r]), tx[r])
    BY DEF AimInv
  <2>7. left # {} /\ left \in SUBSET Parts /\ Part(left) = "eqdelete"
    BY <2>2, <2>5, <2>6 DEF AimOK, Busy, IInv, TypeOK
  <2>8. AimOK("read", left, x, aims, u)
    BY <2>3, <2>4, <2>5, <2>6, <2>7, PartIsFirst DEF AimOK
  <2>9. ToSet(targets'[r]) = aims
    BY <2>1, <2>2, <2>5
  <2>10. QED
    BY <2>1, <2>2, <2>5, <2>8, <2>9, AimMoves
<1>3. QED
  BY <1>1, <1>2

\* Tombstones end files the request aims at; delete files hide rows it names.
LEMMA InsertAims ==
    ASSUME IInv, ~ StaleAllocators, [Next]_vars, AimInv, NEW r \in Requests, AllocateInsert(r)
    PROVE  AimInv'
<1>1. CASE Rollback(r)
  BY <1>1, AimRollback DEF AllocateInsert, client
<1>2. CASE ~ Rollback(r)
  <2>1. PICK n : tx' = [tx EXCEPT ![r] = Written(r, n)]
    BY <1>2 DEF AllocateInsert
  <2>2. /\ tx \in [Requests -> TxSet] /\ todo \in [Requests -> SUBSET Parts]
        /\ pc \in [Requests -> PcSet] /\ UNCHANGED <<named, targets>> /\ Advance(r)
        /\ pc[r] = "insert"
    BY <1>2 DEF AllocateInsert, client, IInv, TypeOK, TxSet, PcSet
  <2>3. PICK left, x, aims, u, l : left = todo[r] \ {Part(todo[r])} /\ x = named[r]
                                   /\ aims = ToSet(targets[r]) /\ u = Written(r, n)
                                   /\ l = EntryOf(left)
    OBVIOUS
  <2>4. AimOK(pc[r], todo[r], named[r], ToSet(targets[r]), tx[r])
    BY DEF AimInv
  <2>5. todo[r] # {} /\ Part(todo[r]) \in todo[r]
    <3>1. todo[r] # {} /\ todo[r] \in SUBSET Parts
      BY <2>2, <2>4 DEF AimOK, Busy
    <3>2. QED
      BY <3>1, PartIsFirst
  <2>6. \A e \in u.ends : e.file \in Ids(dataFiles)
                          /\ \A f \in dataFiles : f.id = e.file => f.rows \subseteq x
    <3>1. u.ends = tx[r].ends \cup (IF Part(todo[r]) = "remove" THEN Tombstones(r, n) ELSE {})
      BY <2>3 DEF Written
    <3>2. \A e \in Tombstones(r, n) : e.file \in aims
      BY <2>3 DEF Tombstones
    <3>3. QED
      BY <2>3, <2>4, <2>5, <3>1, <3>2 DEF AimOK
  <2>7. \A d \in u.dels : d.file \in Ids(dataFiles) /\ d.rows \subseteq x
    <3>1. u.dels = tx[r].dels \cup (IF Part(todo[r]) \in {"posdelete", "eqdelete"}
                                    THEN NewDeletes(r, n) ELSE {})
      BY <2>3 DEF Written
    <3>2. \A d \in NewDeletes(r, n) : d.file \in aims /\ d.rows = x
      BY <2>3 DEF NewDeletes, ToSet
    <3>3. QED
      BY <2>3, <2>4, <3>1, <3>2 DEF AimOK
  <2>8. AimOK(l, left, x, aims, u)
    BY <2>3, <2>4, <2>6, <2>7, EntryIsBusy DEF AimOK
  <2>9. todo' = [todo EXCEPT ![r] = left] /\ pc' = [pc EXCEPT ![r] = l]
    <3>1. todo' = [todo EXCEPT ![r] = left]
      BY <2>2, <2>3 DEF Advance
    <3>2. todo'[r] = left
      BY <2>2, <3>1
    <3>3. QED
      BY <2>2, <2>3, <3>1, <3>2 DEF Advance
  <2>10. QED
    BY <2>1, <2>2, <2>3, <2>8, <2>9, AimMoves
<1>3. QED
  BY <1>1, <1>2

\* A step of somebody else, or of nobody.
LEMMA AimStands ==
    ASSUME IInv, ~ StaleAllocators, [Next]_vars, AimInv,
           UNCHANGED <<pc, todo, named, targets, tx>>
    PROVE  AimInv'
<1>1. ASSUME NEW q \in Requests
      PROVE  AimOK(pc[q], todo[q], named[q], ToSet(targets[q]), tx[q])'
  <2>1. PICK k, m, y, a, v : k = pc[q] /\ m = todo[q] /\ y = named[q]
                             /\ a = ToSet(targets[q]) /\ v = tx[q]
    OBVIOUS
  <2>2. AimOK(k, m, y, a, v)
    BY <2>1 DEF AimInv
  <2>3. AimOK(k, m, y, a, v)'
    BY <2>2, AimStays
  <2>4. pc'[q] = k /\ todo'[q] = m /\ named'[q] = y /\ ToSet(targets'[q]) = a /\ tx'[q] = v
    BY <2>1
  <2>5. QED
    BY <2>3, <2>4
<1>2. QED
  BY <1>1 DEF AimInv

LEMMA AimStep ==
    ASSUME IInv, ~ StaleAllocators, [Next]_vars, AimInv
    PROVE  AimInv'
<1> USE DEF client, tables
<1>1. ASSUME NEW r \in Requests, CheckRequirements(r) PROVE AimInv'
  <2>1. PICK l, left : /\ l = (IF base[r] = Current THEN EntryOf(todo[r]) ELSE "conflict")
                       /\ left = todo[r]
    OBVIOUS
  <2>2. /\ l \notin {"idle", "submitted"} /\ (l \in Busy => left # {})
        /\ l = "scan" => Part(left) = "eqdelete"
    BY <2>1, EntryIsBusy DEF Busy
  <2>3. todo' = [todo EXCEPT ![r] = left] /\ pc' = [pc EXCEPT ![r] = l]
        /\ UNCHANGED <<named, targets, tx>>
    BY <1>1, <2>1 DEF CheckRequirements, IInv, TypeOK
  <2>4. QED
    BY <2>1, <2>2, <2>3, AimGoesOn
<1>2. ASSUME NEW r \in Requests, NEW l, l \in {"duck", "alloc", "insert"}, pc[r] \in Busy,
             pc' = [pc EXCEPT ![r] = l], UNCHANGED <<todo, named, targets, tx>>
      PROVE  AimInv'
  <2>1. PICK left : left = todo[r]
    OBVIOUS
  <2>2. AimOK(pc[r], todo[r], named[r], ToSet(targets[r]), tx[r])
    BY DEF AimInv
  <2>3. left # {} /\ todo' = [todo EXCEPT ![r] = left]
    BY <1>2, <2>1, <2>2 DEF AimOK, IInv, TypeOK
  <2>4. QED
    BY <1>2, <2>1, <2>3, AimGoesOn
<1>3. ASSUME NEW r \in Requests, Lock(r) PROVE AimInv'
  BY <1>2, <1>3 DEF Lock, Busy
<1>4. ASSUME NEW r \in Requests, NEW part, DuckCall(r, part) PROVE AimInv'
  BY <1>4, AimAdvances DEF DuckCall
<1>5. ASSUME NEW r \in Requests, AlterTable(r) \/ AddDataFiles(r) \/ ExpireSnapshots(r)
      PROVE  AimInv'
  BY <1>4, <1>5 DEF AlterTable, AddDataFiles, ExpireSnapshots
<1>6. ASSUME NEW r \in Requests, ReadLive(r) PROVE AimInv'
  <2>1. CASE Rollback(r)
    BY <1>6, <2>1, AimRollback DEF ReadLive
  <2>2. CASE ~ Rollback(r)
    BY <1>2, <1>6, <2>2 DEF ReadLive, Busy
  <2>3. QED
    BY <2>1, <2>2
<1>7. ASSUME NEW r \in Requests, AllocateRead(r) PROVE AimInv'
  BY <1>2, <1>7 DEF AllocateRead, Busy
<1>8. ASSUME NEW r \in Requests, Commit(r) PROVE AimInv'
  BY <1>8, AimEnds DEF Commit
<1>9. ASSUME NEW r \in Requests, Abort(r) PROVE AimInv'
  BY <1>9, AimRollback DEF Abort
<1>10. ASSUME Environment PROVE AimInv'
  BY <1>10, AimStands DEF Environment, DirectInsert, OtherTableCommit, Compact, ExpireOld, requests
<1>11. ASSUME Done \/ UNCHANGED vars PROVE AimInv'
  BY <1>11, AimStands DEF Done, vars
<1>12. QED
  BY <1>1, <1>3, <1>5, <1>6, <1>7, <1>8, <1>9, <1>10, <1>11, SubmitAims, ScanAims, InsertAims
     DEF Next, Handle

\* Delete files that are new follow their file, and old ones keep it.
LEMMA FollowStep ==
    ASSUME IInv, ~ StaleAllocators, [Next]_vars, NamesInv
    PROVE  DeletesFollowTheirFile'
<1>1. \A f \in dataFiles : \E g \in dataFiles' : g.id = f.id /\ g.begin = f.begin
  BY FilesStay
<1>2. ASSUME \A e \in deleteFiles' : \E d \in deleteFiles : d.file = e.file /\ d.begin = e.begin
      PROVE  DeletesFollowTheirFile'
  <2>1. ASSUME NEW e \in deleteFiles'
        PROVE  \E g \in dataFiles' : g.id = e.file /\ g.begin < e.begin
    <3>1. PICK d \in deleteFiles : d.file = e.file /\ d.begin = e.begin
      BY <1>2
    <3>2. PICK f \in dataFiles : f.id = d.file /\ f.begin < d.begin
      BY DEF NamesInv, DeletesFollowTheirFile
    <3>3. QED
      BY <1>1, <3>1, <3>2
  <2>2. QED
    BY <2>1 DEF DeletesFollowTheirFile
<1>3. ASSUME deleteFiles' = deleteFiles PROVE DeletesFollowTheirFile'
  BY <1>2, <1>3
<1>4. ASSUME NEW n \in Nat, DuckLakeStep(n) PROVE DeletesFollowTheirFile'
  <2>1. PICK G \in SUBSET LiveFiles(deleteFiles) : deleteFiles' = Rewritten(deleteFiles, G)
    BY <1>4 DEF DuckLakeStep
  <2>2. LastRow.id + 1 \in Nat /\ deleteFiles \in SUBSET DeleteFileRow
    BY LatestIsLast DEF IInv, CoreInv, TypeOK, SnapshotsOK, LastRow, SnapshotRow
  <2>3. \A d \in G : /\ d \in deleteFiles /\ Closed(d, LastRow.id + 1).file = d.file
                     /\ Closed(d, LastRow.id + 1).begin = d.begin
    BY <2>2, ClosedType DEF LiveFiles
  <2>4. QED
    BY <1>2, <2>1, <2>3 DEF Rewritten
<1>5. ASSUME NEW r \in Requests, Commit(r) PROVE DeletesFollowTheirFile'
  <2>1. deleteFiles' = deleteFiles \cup tx[r].dels
    BY <1>5 DEF Commit, DeletesSeenBy
  <2>2. ASSUME NEW d \in tx[r].dels
        PROVE  \E f \in dataFiles : f.id = d.file /\ f.begin < d.begin
    <3>1. AimOK(pc[r], todo[r], named[r], ToSet(targets[r]), tx[r]) /\ DelsOK(r)
      BY <2>2 DEF NamesInv, AimInv, IInv, CoreInv, TxOK, NoTx
    <3>2. PICK f \in dataFiles : f.id = d.file
      BY <3>1 DEF AimOK, Ids
    <3>3. /\ f.begin \in Nat /\ f.begin <= LastRow.id /\ d.begin \in Nat
          /\ LastRow.id < d.begin /\ LastRow.id \in Nat
      BY <3>1, LatestIsLast
         DEF DelsOK, IInv, CoreInv, FilesOK, FileOK, TypeOK, DataFileRow, DeleteFileRow,
             SnapshotsOK, LastRow, SnapshotRow
    <3>4. QED
      BY <3>2, <3>3
  <2>3. \A e \in deleteFiles' : \E f \in dataFiles : f.id = e.file /\ f.begin < e.begin
    BY <2>1, <2>2 DEF NamesInv, DeletesFollowTheirFile
  <2>4. QED
    BY <1>1, <2>3 DEF DeletesFollowTheirFile
<1>6. ASSUME NEW r \in Requests, AllocateRead(r) \/ AllocateInsert(r) PROVE deleteFiles' = deleteFiles
  BY <1>6 DEF AllocateRead, AllocateInsert, tables
<1>7. ASSUME Expiry PROVE deleteFiles' = deleteFiles
  BY <1>7 DEF Expiry, Expire
<1>8. QED
  BY <1>3, <1>4, <1>5, <1>6, <1>7, StepKinds DEF Quiet

LEMMA NamesInit == Init => NamesInv
<1> SUFFICES ASSUME Init PROVE NamesInv
  OBVIOUS
<1>1. ToSet(<<>>) = {}
  BY DEF ToSet
<1>2. AimInv
  BY <1>1 DEF Init, AimInv, AimOK, NoTx, Busy
<1>3. QED
  BY <1>2 DEF Init, NamesInv, DeletesFollowTheirFile

\* Requests name all the rows that they end or hide, and aim only at files of
\* the table, in every reachable state.
THEOREM NamesKept == ~ StaleAllocators /\ Spec => []NamesInv
<1> SUFFICES ASSUME ~ StaleAllocators PROVE Spec => []NamesInv
  OBVIOUS
<1>1. Spec => []IInv
  BY Invariance
<1>2. IInv /\ NamesInv /\ [Next]_vars => NamesInv'
  BY AimStep, FollowStep DEF NamesInv
<1>3. QED
  BY <1>1, <1>2, NamesInit, PTL DEF Spec

\* A delete file never precedes the data file it hides rows of, and that file
\* is one of the table: targets are looked up before the allocation, and stay.
THEOREM DeletesFollow == ~ StaleAllocators /\ Spec => []DeletesFollowTheirFile
<1>1. NamesInv => DeletesFollowTheirFile
  BY DEF NamesInv
<1>2. QED
  BY <1>1, NamesKept, PTL

----------------------------------------------------------------------------
(***************************************************************************)
(* Rows leave the table by an acknowledged commit that names them.         *)
(***************************************************************************)

\* More files and the same deletes hide nothing.
LEMMA RowsGrow ==
    ASSUME dataFiles \subseteq dataFiles', deleteFiles' = deleteFiles
    PROVE  LiveRows(dataFiles, deleteFiles) \subseteq LiveRows(dataFiles', deleteFiles')
BY DEF LiveRows, LiveFiles

\* Compaction writes the rows that it finds to a file that nothing hides.
LEMMA CompactKeepsRows ==
    ASSUME IInv, NamesInv, NEW F \in SUBSET LiveFiles(dataFiles), Compact(F)
    PROVE  LiveRows(dataFiles, deleteFiles) \subseteq LiveRows(dataFiles', deleteFiles')
<1> DEFINE at == LastRow.id + 1
           hidden == { d \in deleteFiles : d.end = NULL /\ d.file \in { f.id : f \in F } }
           kept == LiveRows(F, deleteFiles)
           new == [id |-> LastRow.next, rows |-> kept, begin |-> at, end |-> NULL]
<1>1. /\ at \in Nat /\ at # NULL
      /\ dataFiles \in SUBSET DataFileRow /\ deleteFiles \in SUBSET DeleteFileRow
      /\ LastRow.next \in Nat
  BY LatestIsLast DEF IInv, CoreInv, TypeOK, SnapshotsOK, LastRow, SnapshotRow, NULL
<1>2. /\ dataFiles' = (dataFiles \ F) \cup { Closed(f, at) : f \in F }
                      \cup (IF kept = {} THEN {} ELSE {new})
      /\ deleteFiles' = (deleteFiles \ hidden) \cup { Closed(d, at) : d \in hidden }
  BY DEF Compact
<1>3. \A e \in deleteFiles' : e.end = NULL => e \in deleteFiles
  BY <1>1, <1>2, ClosedType
<1>4. \A e \in deleteFiles : e.file # LastRow.next
  <2>1. \A f \in dataFiles : f.id \in Nat /\ f.id < LastRow.next
    BY <1>1 DEF IInv, CoreInv, FilesOK, FileOK, DataFileRow
  <2>2. QED
    BY <1>1, <2>1 DEF NamesInv, DeletesFollowTheirFile
<1>5. SUFFICES ASSUME NEW x \in LiveRows(dataFiles, deleteFiles)
               PROVE  x \in LiveRows(dataFiles', deleteFiles')
  OBVIOUS
<1>6. PICK f \in dataFiles : /\ f.end = NULL /\ x \in f.rows /\ x \in Rows
                             /\ \A d \in deleteFiles : d.end = NULL /\ d.file = f.id => x \notin d.rows
  BY <1>5 DEF LiveRows, LiveFiles
<1>7. CASE f \in F
  <2>1. x \in kept
    BY <1>6, <1>7 DEF LiveRows, LiveFiles
  <2>2. new \in dataFiles' /\ new.end = NULL /\ x \in new.rows /\ new.id = LastRow.next
    BY <1>2, <2>1
  <2> HIDE DEF new
  <2>3. \A e \in deleteFiles' : e.end = NULL /\ e.file = new.id => x \notin e.rows
    BY <1>3, <1>4, <2>2
  <2>4. QED
    BY <1>6, <2>2, <2>3 DEF LiveRows, LiveFiles
<1>8. CASE f \notin F
  <2>1. f \in dataFiles'
    BY <1>2, <1>8
  <2>2. \A e \in deleteFiles' : e.end = NULL /\ e.file = f.id => x \notin e.rows
    BY <1>3, <1>6
  <2>3. QED
    BY <1>6, <2>1, <2>2 DEF LiveRows, LiveFiles
<1>9. QED
  BY <1>7, <1>8

\* A commit takes only rows that its client named.
LEMMA CommitTakesNamed ==
    ASSUME IInv, NamesInv, NEW r \in Requests, Commit(r),
           NEW x \in LiveRows(dataFiles, deleteFiles), x \notin LiveRows(dataFiles', deleteFiles')
    PROVE  x \in named[r]
<1>1. AimOK(pc[r], todo[r], named[r], ToSet(targets[r]), tx[r])
  BY DEF NamesInv, AimInv
<1>2. PICK f \in dataFiles : /\ f.end = NULL /\ x \in f.rows /\ x \in Rows
                             /\ \A d \in deleteFiles : d.end = NULL /\ d.file = f.id => x \notin d.rows
  BY DEF LiveRows, LiveFiles
<1>3. PICK g : g = Ended(f, tx[r].ends)
  OBVIOUS
<1>4. /\ g \in dataFiles' /\ g.id = f.id /\ g.rows = f.rows
      /\ g.end = NULL \/ \E e \in tx[r].ends : e.file = f.id
  BY <1>2, <1>3, EndedFile DEF Commit, FilesSeenBy
<1>5. deleteFiles' = deleteFiles \cup tx[r].dels
  BY DEF Commit, DeletesSeenBy
<1>6. CASE \E e \in tx[r].ends : e.file = f.id
  BY <1>1, <1>2, <1>6 DEF AimOK
<1>7. CASE g.end = NULL
  <2>1. PICK d \in deleteFiles' : d.end = NULL /\ d.file = g.id /\ x \in d.rows
    BY <1>2, <1>4, <1>7 DEF LiveRows, LiveFiles
  <2>2. d \in tx[r].dels
    BY <1>2, <1>4, <1>5, <2>1
  <2>3. QED
    BY <1>1, <2>1, <2>2 DEF AimOK
<1>8. QED
  BY <1>4, <1>6, <1>7

LEMMA RowsLeave ==
    ASSUME IInv, NamesInv, [Next]_vars, NEW x \in LiveRows(dataFiles, deleteFiles),
           x \notin LiveRows(dataFiles', deleteFiles')
    PROVE  \E r \in Requests : pc[r] = "commit" /\ pc'[r] = "ok" /\ x \in named[r]
<1>1. ~ UNCHANGED <<dataFiles, deleteFiles>>
  <2>1. SUFFICES ASSUME UNCHANGED <<dataFiles, deleteFiles>> PROVE FALSE
    OBVIOUS
  <2>2. QED
    BY <2>1, RowsGrow
<1>2. ~ (dataFiles \subseteq dataFiles' /\ deleteFiles' = deleteFiles)
  BY RowsGrow
<1>3. ASSUME NEW r \in Requests
      PROVE  /\ ~ Submit(r) /\ ~ CheckRequirements(r) /\ ~ Lock(r) /\ ~ ScanEqualityDelete(r)
             /\ ~ ReadLive(r) /\ ~ AllocateRead(r) /\ ~ AllocateInsert(r) /\ ~ Abort(r)
             /\ ~ AlterTable(r) /\ ~ ExpireSnapshots(r) /\ ~ AddDataFiles(r)
  BY <1>1, <1>2 DEF Submit, CheckRequirements, Lock, ScanEqualityDelete, ReadLive, AllocateRead,
                    AllocateInsert, Abort, AlterTable, ExpireSnapshots, Expire, AddDataFiles, tables
<1>4. /\ ~ ExpireOld /\ ~ OtherTableCommit /\ ~ Done /\ ~ UNCHANGED vars
      /\ \A y \in DirectRows : ~ DirectInsert(y)
      /\ \A F \in SUBSET LiveFiles(dataFiles) : ~ Compact(F)
  BY <1>1, <1>2, CompactKeepsRows
     DEF ExpireOld, Expire, OtherTableCommit, Done, vars, tables, DirectInsert
<1>5. PICK r \in Requests : Commit(r)
  BY <1>3, <1>4 DEF Next, Handle, Environment
<1>6. pc[r] = "commit" /\ pc'[r] = "ok"
  BY <1>5 DEF Commit, IInv, TypeOK
<1>7. QED
  BY <1>5, <1>6, CommitTakesNamed

\* A live row leaves the table only by a commit that names it and is answered
\* with success: a commit that fails half way, compaction, expiry and the
\* clients that write without the proxy take none.
THEOREM RowsLeaveAcknowledged == ~ StaleAllocators /\ Spec => RowsLeaveByAckOnly
<1> SUFFICES ASSUME ~ StaleAllocators PROVE Spec => RowsLeaveByAckOnly
  OBVIOUS
<1> DEFINE Acked == \A x \in LiveRows(dataFiles, deleteFiles) \ LiveRows(dataFiles', deleteFiles') :
                       \E r \in Requests : pc[r] = "commit" /\ pc'[r] = "ok" /\ x \in named[r]
<1>1. IInv /\ NamesInv /\ [Next]_vars => [Acked]_vars
  BY RowsLeave
<1>2. Spec => []IInv /\ []NamesInv
  BY Invariance, NamesKept
<1>3. QED
  BY <1>1, <1>2, PTL DEF Spec, RowsLeaveByAckOnly
=====================
