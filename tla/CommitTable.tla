---------------------------- MODULE CommitTable ----------------------------
(***************************************************************************)
(* CommitTable requests (server.commit_table) against one table, racing    *)
(* with each other, with DuckLake clients that write without the proxy,    *)
(* with compaction and with snapshot expiry.                               *)
(*                                                                         *)
(* A request checks the client's assert-ref-snapshot-id, then applies its  *)
(* parts in the order of the handler inside one READ COMMITTED Postgres    *)
(* transaction (commit_transaction): some parts write Postgres through it, *)
(* others call DuckDB, whose own connection commits a DuckLake snapshot at *)
(* once, under a process-wide lock.  Inserting a snapshot id waits while   *)
(* another transaction holds an uncommitted row with that primary key.     *)
(*                                                                         *)
(* A request inserts at most one row, which carries the request's name.    *)
(***************************************************************************)
EXTENDS DuckLakeTables, Sequences, FiniteSets, SequencesExt

CONSTANTS
    Requests,        \* commit-table requests, each sent once
    Workers,         \* proxy processes
    WorkerOf,        \* the process that serves a request
    Shapes,          \* the combinations of parts that clients send
    InitialRows,     \* rows of the file the table was created with
    DirectRows,      \* rows DuckLake clients insert without the proxy
    StaleAllocators, \* may a snapshot newer than the one an allocation has
                     \* read expire before the allocation inserts its row?
    MaxSnapshot      \* bound: the environment stops writing at this head

\* The parts of a commit that change catalog state, in the order commit_table
\* applies them.  "schema" stands for the schema diff and the partition spec.
PartOrder == <<"schema", "sort", "add", "remove", "posdelete", "eqdelete", "expire">>
Parts == { PartOrder[i] : i \in DOMAIN PartOrder }
DuckDbParts == {"schema", "add", "expire"}

ASSUME ConstantsAssumption ==
    /\ Rows = Requests \cup InitialRows \cup DirectRows
    /\ NULL \notin Requests
    /\ WorkerOf \in [Requests -> Workers]
    /\ Shapes \subseteq SUBSET Parts
    /\ StaleAllocators \in BOOLEAN
    /\ MaxSnapshot \in Nat

VARIABLES
    snapshots,    \* committed ducklake_snapshot rows
    dataFiles,    \* committed ducklake_data_file rows
    deleteFiles,  \* committed ducklake_delete_file rows
    ddl,          \* snapshots the table's column and sort rows mention
    duckLock,     \* per process: who holds DuckLakeCatalog._lock
    pc,           \* where each request is
    todo,         \* parts a request has not applied yet
    shape,        \* the parts it was sent with
    base,         \* the snapshot-id the client asserted
    named,        \* rows the client's removal or delete names
    targets,      \* data files the current removal or delete is aimed at
    seen,         \* the ducklake_snapshot row an allocation has read
    tx            \* uncommitted rows of a request's Postgres transaction

tables == <<snapshots, dataFiles, deleteFiles, ddl>>
client == <<shape, base, named>>
vars == <<tables, duckLock, pc, todo, client, targets, seen, tx>>

NothingSeen == [id |-> 0, next |-> 0]
NoTx == [snaps |-> {}, ends |-> {}, dels |-> {}, ddl |-> {}]
LastRow == Latest(snapshots)
Current == CurrentSnapshot(snapshots, dataFiles, deleteFiles, ddl)

Answered == {"ok", "conflict", "failed"}
InFlight == {"commit", "scan", "lock", "duck", "read", "alloc", "insert"}

\* The part the handler is at: the first one left in its order.
Part(left) == PartOrder[CHOOSE i \in DOMAIN PartOrder :
                            /\ PartOrder[i] \in left
                            /\ \A j \in 1 .. i - 1 : PartOrder[j] \notin left]

\* Where the handler is once the parts in left remain.
EntryOf(left) ==
    IF left = {} THEN "commit"
    ELSE IF Part(left) \in DuckDbParts THEN "lock"
    ELSE IF Part(left) = "sort" THEN "alloc"
    ELSE IF Part(left) = "eqdelete" THEN "scan"
    ELSE "read"

Init ==
    /\ snapshots = {[id |-> 0, next |-> 0], [id |-> 1, next |-> 1]}
    /\ dataFiles = {[id |-> 0, rows |-> InitialRows, begin |-> 1, end |-> NULL]}
    /\ deleteFiles = {}
    /\ ddl = {1}
    /\ duckLock = [w \in Workers |-> NULL]
    /\ pc = [r \in Requests |-> "idle"]
    /\ todo = [r \in Requests |-> {}]
    /\ shape = [r \in Requests |-> {}]
    /\ base = [r \in Requests |-> NULL]
    /\ named = [r \in Requests |-> {}]
    /\ targets = [r \in Requests |-> <<>>]
    /\ seen = [r \in Requests |-> NothingSeen]
    /\ tx = [r \in Requests |-> NoTx]

----------------------------------------------------------------------------
\* What the statements of request r's transaction see: committed rows, with
\* its own writes on top.

Ended(f, ends) ==
    IF \E e \in ends : e.file = f.id
    THEN Closed(f, (CHOOSE e \in ends : e.file = f.id).at)
    ELSE f

FilesSeenBy(r) == { Ended(f, tx[r].ends) : f \in dataFiles }
DeletesSeenBy(r) == deleteFiles \cup tx[r].dels
SnapshotsSeenBy(r) == snapshots \cup tx[r].snaps
CurrentSeenBy(r) == CurrentSnapshot(SnapshotsSeenBy(r), FilesSeenBy(r), DeletesSeenBy(r),
                                    ddl \cup tx[r].ddl)
LiveIdsSeenBy(r) == { f.id : f \in LiveFiles(FilesSeenBy(r)) }

\* Primary key of ducklake_snapshot: somebody else's uncommitted row.  Without
\* the key nobody would wait (UncommittedUnseen).
UncommittedUnseen(r) == {}
Uncommitted(r) == UNION { Ids(tx[q].snaps) : q \in Requests \ {r} }
NoneUncommitted == \A q \in Requests : tx[q].snaps = {}

Advance(r) ==
    /\ todo' = [todo EXCEPT ![r] = @ \ {Part(@)}]
    /\ pc' = [pc EXCEPT ![r] = EntryOf(todo'[r])]

\* A faulty Rollback that leaves DuckLakeCatalog._lock taken.
RollbackKeepsLock(r) ==
    /\ tx' = [tx EXCEPT ![r] = NoTx]
    /\ pc' = [pc EXCEPT ![r] = "failed"]
    /\ todo' = [todo EXCEPT ![r] = {}]
    /\ targets' = [targets EXCEPT ![r] = <<>>]
    /\ seen' = [seen EXCEPT ![r] = NothingSeen]
    /\ UNCHANGED duckLock

\* The exception path of commit_transaction: ROLLBACK, the DuckDB lock is
\* released by its context manager, and the handler's locals are gone.
Rollback(r) ==
    /\ tx' = [tx EXCEPT ![r] = NoTx]
    /\ pc' = [pc EXCEPT ![r] = "failed"]
    /\ todo' = [todo EXCEPT ![r] = {}]
    /\ targets' = [targets EXCEPT ![r] = <<>>]
    /\ seen' = [seen EXCEPT ![r] = NothingSeen]
    /\ duckLock' = [w \in Workers |-> IF duckLock[w] = r THEN NULL ELSE duckLock[w]]

----------------------------------------------------------------------------
\* The client loads the table, plans its commit on what it saw, and sends it.
Submit(r) ==
    /\ pc[r] = "idle"
    /\ \E s \in Shapes :
         /\ shape' = [shape EXCEPT ![r] = s]
         /\ todo' = [todo EXCEPT ![r] = s]
         /\ base' = [base EXCEPT ![r] = Current]
         /\ IF s \cap {"remove", "posdelete"} # {}
            THEN \E f \in dataFiles :
                   /\ VisibleAt(f, Current)
                   /\ targets' = [targets EXCEPT ![r] = <<f.id>>]
                   /\ \E x \in IF "remove" \in s THEN {f.rows}
                               ELSE SUBSET f.rows \ {{}} :
                        named' = [named EXCEPT ![r] = x]
            ELSE /\ targets' = targets
                 /\ IF "eqdelete" \in s
                    THEN \E x \in SUBSET (RowsAt(dataFiles, deleteFiles, Current)
                                        \cup IF "add" \in s THEN {r} ELSE {}) :
                           named' = [named EXCEPT ![r] = x]
                    ELSE named' = named
    /\ pc' = [pc EXCEPT ![r] = "submitted"]
    /\ UNCHANGED <<tables, duckLock, seen, tx>>

\* _check_requirements, before and outside the transaction.
CheckRequirements(r) ==
    /\ pc[r] = "submitted"
    /\ pc' = [pc EXCEPT ![r] = IF base[r] = Current THEN EntryOf(todo[r]) ELSE "conflict"]
    /\ UNCHANGED <<tables, duckLock, todo, client, targets, seen, tx>>

\* catalog.cursor(): the process-wide lock around the DuckDB write connection.
Lock(r) ==
    /\ pc[r] = "lock"
    /\ duckLock[WorkerOf[r]] = NULL
    /\ duckLock' = [duckLock EXCEPT ![WorkerOf[r]] = r]
    /\ pc' = [pc EXCEPT ![r] = "duck"]
    /\ UNCHANGED <<tables, todo, client, targets, seen, tx>>

\* The rest of a DuckDB call on the write connection.
DuckCall(r, part) ==
    /\ pc[r] = "duck"
    /\ Part(todo[r]) = part
    /\ duckLock' = [duckLock EXCEPT ![WorkerOf[r]] = NULL]
    /\ Advance(r)
    /\ UNCHANGED <<client, targets, seen, tx>>

\* A snapshot DuckLake commits on a connection of its own.  It takes the next
\* id and n file ids, and waits for an uncommitted row with that id.
DuckLakeCommit(n) ==
    /\ NoneUncommitted
    /\ snapshots' = snapshots \cup {[id |-> LastRow.id + 1, next |-> LastRow.next + n]}

\* ALTER TABLE through DuckDB (_apply_schema_diff, set_partition_spec).
AlterTable(r) ==
    /\ DuckCall(r, "schema")
    /\ DuckLakeCommit(0)
    /\ ddl' = ddl \cup {LastRow.id + 1}
    /\ UNCHANGED <<dataFiles, deleteFiles>>

\* add_data_files: registers the request's file, at once and for good.
AddDataFiles(r) ==
    /\ DuckCall(r, "add")
    /\ DuckLakeCommit(1)
    /\ dataFiles' = dataFiles \cup {[id |-> LastRow.next, rows |-> {r},
                                     begin |-> LastRow.id + 1, end |-> NULL]}
    /\ UNCHANGED <<deleteFiles, ddl>>

\* No request is between the SELECT of an allocation and its INSERT with a
\* snapshot row older than one of ids.
NoAllocationBefore(ids) ==
    \A q \in Requests : pc[q] = "insert" => \A i \in ids : i <= seen[q].id

\* ducklake_expire_snapshots never removes the newest snapshot.  It also drops the
\* file rows that no snapshot left can see (catalog.py:1720-1723); here they stay,
\* and no reader of a snapshot that is left sees them.
Expire(ids) ==
    /\ LastRow.id \notin ids
    /\ StaleAllocators \/ NoAllocationBefore(ids)
    /\ snapshots' = { s \in snapshots : s.id \notin ids }
    /\ UNCHANGED <<dataFiles, deleteFiles, ddl>>

\* expire_snapshots: remove-snapshot, for an id the client picked; there may
\* be nothing left to remove.
ExpireSnapshots(r) ==
    /\ DuckCall(r, "expire")
    /\ \E ids \in {{}} \cup { {i} : i \in Ids(snapshots) } : Expire(ids)
----------------------------------------------------------------------------
\* apply_equality_delete: the files visible now that hold a matching row.  An
\* upsert's key also matches the row the same commit inserted.
Matching(r) ==
    { f.id : f \in { g \in FilesSeenBy(r) :
                        /\ CurrentSeenBy(r) # NULL
                        /\ VisibleAt(g, CurrentSeenBy(r))
                        /\ g.rows \cap named[r] # {} } }

ScanEqualityDelete(r) ==
    /\ pc[r] = "scan"
    /\ IF Matching(r) = {}
       THEN Advance(r) /\ UNCHANGED targets
       ELSE /\ \E q \in SetToSeqs(Matching(r)) : targets' = [targets EXCEPT ![r] = q]
            /\ pc' = [pc EXCEPT ![r] = "read"]
            /\ UNCHANGED todo
    /\ UNCHANGED <<tables, duckLock, client, seen, tx>>

\* tombstone_data_files, register_delete_files: look the targets up among the
\* live files; a missing one raises.
ReadLive(r) ==
    /\ pc[r] = "read"
    /\ \/ /\ ToSet(targets[r]) \subseteq LiveIdsSeenBy(r)
          /\ pc' = [pc EXCEPT ![r] = "alloc"]
          /\ UNCHANGED <<duckLock, todo, targets, seen, tx>>
       \/ /\ ~ (ToSet(targets[r]) \subseteq LiveIdsSeenBy(r))
          /\ Rollback(r)
    /\ UNCHANGED <<tables, client>>

\* _allocate_snapshot, its SELECT.
AllocateRead(r) ==
    /\ pc[r] = "alloc"
    /\ seen' = [seen EXCEPT ![r] = Latest(SnapshotsSeenBy(r))]
    /\ pc' = [pc EXCEPT ![r] = "insert"]
    /\ UNCHANGED <<tables, duckLock, todo, client, targets, tx>>

\* Faulty UPDATEs: without the new snapshot id, at the id that was read, and
\* without the data_file_id filter.
TombstonesUnset(r, n) ==
    { [file |-> f, at |-> NULL] : f \in ToSet(targets[r]) \cap LiveIdsSeenBy(r) }
TombstonesAtRead(r, n) ==
    { [file |-> f, at |-> seen[r].id] : f \in ToSet(targets[r]) \cap LiveIdsSeenBy(r) }
TombstonesUnfiltered(r, n) == { [file |-> f, at |-> n.id] : f \in LiveIdsSeenBy(r) }

\* The rows a part writes at snapshot n, n = [id, next]: an UPDATE of the
\* targets that are still live, or an INSERT for each of the targets.
Tombstones(r, n) ==
    { [file |-> f, at |-> n.id] : f \in ToSet(targets[r]) \cap LiveIdsSeenBy(r) }

\* Faulty INSERTs: file ids one too high, and rows dated at the id that was read.
NewDeletesShifted(r, n) ==
    { [id |-> n.next - Len(targets[r]) + i, file |-> targets[r][i],
       rows |-> named[r], begin |-> n.id, end |-> NULL] : i \in DOMAIN targets[r] }
NewDeletesAtRead(r, n) ==
    { [id |-> n.next - Len(targets[r]) + i - 1, file |-> targets[r][i],
       rows |-> named[r], begin |-> seen[r].id, end |-> NULL] : i \in DOMAIN targets[r] }

NewDeletes(r, n) ==
    { [id |-> n.next - Len(targets[r]) + i - 1, file |-> targets[r][i],
       rows |-> named[r], begin |-> n.id, end |-> NULL] : i \in DOMAIN targets[r] }

Written(r, n) ==
    LET part == Part(todo[r])
    IN  [snaps |-> tx[r].snaps \cup {n},
         ends  |-> tx[r].ends \cup (IF part = "remove" THEN Tombstones(r, n) ELSE {}),
         dels  |-> tx[r].dels \cup (IF part \in {"posdelete", "eqdelete"}
                                    THEN NewDeletes(r, n) ELSE {}),
         ddl   |-> tx[r].ddl \cup (IF part = "sort" THEN {n.id} ELSE {})]

\* Its INSERT, and the statements after it: nobody else can take a snapshot id
\* between them, so the tables they read stand still.
AllocateInsert(r) ==
    LET part == Part(todo[r])
        n == [id |-> seen[r].id + 1,
              next |-> seen[r].next
                       + IF part \in {"posdelete", "eqdelete"} THEN Len(targets[r]) ELSE 0]
    IN  /\ pc[r] = "insert"
        /\ n.id \notin Uncommitted(r)
        /\ \/ /\ n.id \in Ids(SnapshotsSeenBy(r))
              /\ Rollback(r)
           \/ /\ n.id \notin Ids(SnapshotsSeenBy(r))
              /\ tx' = [tx EXCEPT ![r] = Written(r, n)]
              /\ seen' = [seen EXCEPT ![r] = NothingSeen]
              /\ Advance(r)
              /\ UNCHANGED <<duckLock, targets>>
        /\ UNCHANGED <<tables, client>>

\* COMMIT, and the answer.
Commit(r) ==
    /\ pc[r] = "commit"
    /\ snapshots' = SnapshotsSeenBy(r)
    /\ dataFiles' = FilesSeenBy(r)
    /\ deleteFiles' = DeletesSeenBy(r)
    /\ ddl' = ddl \cup tx[r].ddl
    /\ tx' = [tx EXCEPT ![r] = NoTx]
    /\ targets' = [targets EXCEPT ![r] = <<>>]
    /\ pc' = [pc EXCEPT ![r] = "ok"]
    /\ UNCHANGED <<duckLock, todo, client, seen>>

\* A statement or a DuckDB call raises, or the process dies.
Abort(r) ==
    /\ pc[r] \in InFlight
    /\ Rollback(r)
    /\ UNCHANGED <<tables, client>>

----------------------------------------------------------------------------
\* The environment: other writers of the catalog.
requests == <<duckLock, pc, todo, client, targets, seen, tx>>

\* A DuckLake client inserts a row into the table.
DirectInsert(x) ==
    /\ LastRow.id < MaxSnapshot
    /\ \A f \in dataFiles : x \notin f.rows
    /\ DuckLakeCommit(1)
    /\ dataFiles' = dataFiles \cup {[id |-> LastRow.next, rows |-> {x},
                                     begin |-> LastRow.id + 1, end |-> NULL]}
    /\ UNCHANGED <<deleteFiles, ddl, requests>>

\* A commit to another table of the catalog.
OtherTableCommit ==
    /\ LastRow.id < MaxSnapshot
    /\ DuckLakeCommit(1)
    /\ UNCHANGED <<dataFiles, deleteFiles, ddl, requests>>

\* compact: merge live files without deletes, or rewrite one that has some.
Compact(F) ==
    LET hidden == { d \in deleteFiles : d.end = NULL /\ d.file \in { f.id : f \in F } }
        kept == LiveRows(F, deleteFiles)
    IN  /\ LastRow.id < MaxSnapshot
        /\ \/ Cardinality(F) > 1 /\ hidden = {}
           \/ Cardinality(F) = 1 /\ hidden # {}
        /\ DuckLakeCommit(1)
        /\ dataFiles' = (dataFiles \ F) \cup { Closed(f, LastRow.id + 1) : f \in F }
                        \cup (IF kept = {} THEN {}
                              ELSE {[id |-> LastRow.next, rows |-> kept,
                                     begin |-> LastRow.id + 1, end |-> NULL]})
        /\ deleteFiles' = (deleteFiles \ hidden) \cup { Closed(d, LastRow.id + 1) : d \in hidden }
        /\ UNCHANGED <<ddl, requests>>

\* maintain: snapshots older than the retention expire, whatever their table.
ExpireOld ==
    /\ \E s \in Ids(snapshots) : Expire({ i \in Ids(snapshots) : i <= s })
    /\ UNCHANGED requests

\* Every request that was sent has its answer, and nothing else happens.
Done ==
    /\ \A r \in Requests : pc[r] \in {"idle"} \cup Answered
    /\ UNCHANGED vars

Handle(r) ==
    \/ CheckRequirements(r) \/ Lock(r)
    \/ AlterTable(r) \/ AddDataFiles(r) \/ ExpireSnapshots(r)
    \/ ScanEqualityDelete(r) \/ ReadLive(r) \/ AllocateRead(r) \/ AllocateInsert(r)
    \/ Commit(r)

Environment ==
    \/ \E x \in DirectRows : DirectInsert(x)
    \/ OtherTableCommit
    \/ \E F \in SUBSET LiveFiles(dataFiles) : Compact(F)
    \/ ExpireOld

Next ==
    \/ \E r \in Requests : Submit(r) \/ Handle(r) \/ Abort(r)
    \/ Environment
    \/ Done

Spec == Init /\ [][Next]_vars

\* A request's thread runs until it has answered; nobody is obliged to send a
\* request, to write from outside, or to fail.
FairSpec == Spec /\ \A r \in Requests : WF_vars(Handle(r))
----------------------------------------------------------------------------
\* The variables hold rows of the catalog's tables and what a handler may have
\* in its locals.
TypeOK ==
    /\ snapshots \subseteq SnapshotRow
    /\ dataFiles \subseteq DataFileRow
    /\ deleteFiles \subseteq DeleteFileRow
    /\ ddl \subseteq Nat
    /\ duckLock \in [Workers -> Requests \cup {NULL}]
    /\ pc \in [Requests -> {"idle", "submitted"} \cup InFlight \cup Answered]
    /\ todo \in [Requests -> SUBSET Parts]
    /\ shape \in [Requests -> SUBSET Parts]
    /\ base \in [Requests -> Nat \cup {NULL}]
    /\ named \in [Requests -> SUBSET Rows]
    /\ targets \in [Requests -> Seq(Nat)]
    /\ seen \in [Requests -> SnapshotRow]
    /\ tx \in [Requests -> [snaps : SUBSET SnapshotRow,
                           ends : SUBSET [file : Nat, at : Nat],
                           dels : SUBSET DeleteFileRow,
                           ddl : SUBSET Nat]]

\* At most one transaction holds uncommitted snapshot rows, and their ids
\* follow the newest committed one: the SELECT max + INSERT of
\* _allocate_snapshot is safe because the primary key makes the second
\* allocator wait.
AllocationIsExclusive ==
    \A r \in Requests :
        tx[r].snaps # {} =>
            /\ \A q \in Requests \ {r} : tx[q].snaps = {}
            /\ \A s \in tx[r].snaps : s.id > LastRow.id
            /\ LastRow.id + 1 \in Ids(tx[r].snaps)

\* No snapshot id and no file id is given out twice, and next_file_id is past
\* every file id, whoever allocated them: the proxy in Postgres, DuckLake on
\* a connection of its own, or both at once.
IdsNeverReused ==
    /\ \A s, t \in snapshots : s.id = t.id => s = t
    /\ \A f, g \in dataFiles \cup deleteFiles : f.id = g.id => f = g
    /\ \A f \in dataFiles \cup deleteFiles : f.id < LastRow.next

\* A delete file began after the data file it hides rows of, and that file is
\* (or was) a file of this table.
DeletesFollowTheirFile ==
    \A d \in deleteFiles : \E f \in dataFiles : f.id = d.file /\ f.begin < d.begin

\* What a committed snapshot shows never changes: a reader on an old snapshot,
\* and a manifest materialised for it, stay right whatever commits later.
HistoryIsImmutable ==
    [][\A i \in Ids(snapshots) \cap Ids(snapshots') :
          RowsAt(dataFiles', deleteFiles', i) = RowsAt(dataFiles, deleteFiles, i)]_vars

\* A live row leaves the table only when a commit that names it is
\* acknowledged: not by a commit that fails half way, by compaction or by expiry.
RowsLeaveByAckOnly ==
    [][\A x \in LiveRows(dataFiles, deleteFiles) \ LiveRows(dataFiles', deleteFiles') :
          \E r \in Requests : pc[r] = "commit" /\ pc'[r] = "ok" /\ x \in named[r]]_vars

\* Every commit request is answered: no wait on the snapshot id or on the
\* DuckDB lock is for ever.
EveryCommitAnswered ==
    \A r \in Requests : pc[r] = "submitted" ~> pc[r] \in Answered

=============================================================================
