--------------------------- MODULE DuckLakeTables ---------------------------
(***************************************************************************)
(* The DuckLake metadata rows the proxy reads and mutates in Postgres, for *)
(* one table, and the queries over them (catalog.py).  Rows are records:   *)
(*                                                                         *)
(*   ducklake_snapshot     [id, next]             next = next_file_id      *)
(*   ducklake_data_file    [id, rows, begin, end] end = NULL while live    *)
(*   ducklake_delete_file  [id, file, rows, begin, end]                    *)
(*                                                                         *)
(* A data file is known by its data_file_id: its path is unique and maps   *)
(* to it (_live_data_file_id_by_abs_path).  What a Parquet file holds is   *)
(* the set of row names in it; a delete file names the rows it hides.      *)
(***************************************************************************)
EXTENDS Integers

CONSTANT Rows

NULL == -1

SnapshotRow == [id : Nat, next : Nat]
DataFileRow == [id : Nat, rows : SUBSET Rows, begin : Nat, end : Nat \cup {NULL}]
DeleteFileRow == [id : Nat, file : Nat, rows : SUBSET Rows,
                  begin : Nat, end : Nat \cup {NULL}]

\* begin_snapshot <= s AND (end_snapshot IS NULL OR end_snapshot > s).
VisibleAt(row, s) == row.begin <= s /\ (row.end = NULL \/ row.end > s)

\* UPDATE ... SET end_snapshot = s.
Closed(row, s) == [row EXCEPT !.end = s]

\* The rows of the table as a reader of snapshot s sees them.
RowsAt(dataFiles, deleteFiles, s) ==
    { x \in Rows :
        \E f \in dataFiles :
            /\ VisibleAt(f, s)
            /\ x \in f.rows
            /\ \A d \in deleteFiles :
                 VisibleAt(d, s) /\ d.file = f.id => x \notin d.rows }

LiveFiles(dataFiles) == { f \in dataFiles : f.end = NULL }

LiveRows(dataFiles, deleteFiles) ==
    { x \in Rows :
        \E f \in LiveFiles(dataFiles) :
            /\ x \in f.rows
            /\ \A d \in deleteFiles : d.end = NULL /\ d.file = f.id => x \notin d.rows }

\* SELECT ... FROM ducklake_snapshot ORDER BY snapshot_id DESC LIMIT 1.
Latest(snapshots) == CHOOSE s \in snapshots : \A t \in snapshots : t.id <= s.id

Ids(snapshots) == { s.id : s \in snapshots }

\* Every snapshot id recorded by a row of the table.
Touched(dataFiles, deleteFiles) ==
    UNION { {f.begin, f.end} : f \in dataFiles \cup deleteFiles } \ {NULL}

\* list_snapshots(...)[-1]: the last snapshot still in ducklake_snapshot that a
\* row of this table (file, delete file, column, partition or sort info: ddl)
\* mentions; NULL when there is none.
CurrentSnapshot(snapshots, dataFiles, deleteFiles, ddl) ==
    LET mine == Ids(snapshots) \cap (Touched(dataFiles, deleteFiles) \cup ddl)
    IN  IF mine = {} THEN NULL ELSE CHOOSE s \in mine : \A t \in mine : t <= s
=============================================================================
