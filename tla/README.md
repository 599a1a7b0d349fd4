# duckicelake: TLA+ specifications, model checks and proofs

duckicelake is a Python proxy that serves DuckLake tables (metadata in Postgres,
Parquet on S3) through the Iceberg REST protocol. This directory holds models of
its core protocols, the TLC runs that check them on small instances and proofs
for every instance. Paths below are relative to the repository.

Everything is translated from the code under `src/duckicelake/`. Postgres, DuckDB
and S3 are modelled by what the code relies on: READ COMMITTED statements, a
primary key that makes a second inserter wait, advisory locks that end with their
session, DuckLake's own snapshot commits, atomic PUTs.

## 1. The system

| Component | State | Operations | Hard behaviour | What makes it correct |
|---|---|---|---|---|
| CommitTable (`server.commit_table`, `catalog.py`) | `ducklake_snapshot`, `ducklake_data_file`, `ducklake_delete_file`, column and sort rows | requirement check; schema, sort order, add, remove, position delete, equality delete, expire, in one Postgres transaction with DuckDB calls inside | two allocators of the same id; DuckDB commits at once on its own connection; direct DuckLake clients, compaction, expiry | ids unique, history immutable, rows leave by acknowledged commits only, every commit answered |
| Materialisation (`materialize.py`) and the LoadTable answer | manifests, `vN.metadata.json`, `version-hint.text` on S3; `_metadata_cache` per process | list snapshots, reuse cache or document, publish a chain, answer | no lock between processes; a crash between two PUTs; caches compared by one snapshot id | what is published is readable; an answer is no older than its request |
| Listener (`notify.py`) | advisory lock, `duckicelake_materialization_log` | elect, scan, LISTEN, one task per NOTIFY, record | a session breaks unnoticed; overlapping runs of one snapshot | done means published; nothing forgotten |
| Catalog registry (`registry.py`) | `_ctxs`, `_retired`, lease counts, per-context connections | get, evict (cap, idle), retire, revive, release, connect | eviction under a lease; connecting outside the lock | a leased context stays open and is opened once |
| Masked exports (`masked_export.py`) | export directories on S3, pointer rows, one advisory lock per signature | export and publish the pointer under the lock, serve, refresh, sweep, collect | snapshot read before the lock; a lock that ends with its session; collection outside it | what is vended is whole; locks are released; a published export is replaced by another only |
| Masking views (`masking_views.py`) | views and transparent schemas in the catalog, by signature | create for a plan or an export, repoint, collect | left behind by changes of policy or schema | a governed read that is routed to a view can read it |
| Result sets (`result_sets.py`, `server.py`, the check of `signer.py`) | `duckicelake_result_set` and its readers, objects on S3, cached decisions of the gateway | key, look up, vend, copy, insert, share, refresh, expire, sweep, judge | the key is read in several statements before the build; policies, roles and data change meanwhile; orphans | what a principal is shown is what the rules said when the gateway decided; answers are fresh; a row keeps its file; objects are purged |
| Maintenance (`maintenance.py`) | `last_run` | compact, expire, per due catalog under an advisory lock | catalog closed under it | (compaction and expiry themselves: CommitTable) |
| Credential vending (`server.py`, `sts.py`, `s3_gateway.py`, `signer.py`, `governed.py`) | `_CRED_CACHE` | plan a table or a namespace, scope, carve out, mint | each step reads governance anew; planning may fail and the tier fails open | the base files of a table at the file tier stay hidden; what a session is routed to it can read |
| Governance (`governance.py`, `governance_api.py`, `policies.py`) | tags, policies, attachments, roles, grants, a version, all in autocommitting statements | author, expand and look for conflicts, delete, carry along a rename, purge after a drop, plan | look-then-write in two connections; DDL in DuckDB and the carry in Postgres; a plan read in six statements | one mask per column, a stamped plan is of one version, policies stay on what they were put on, nothing is inherited by name, vending asks about every table that has a plan |
| Reader roles and row security (`pg_rls.py`) | Postgres roles, `duckicelake_pg_principal`, grants and policies on the catalog's tables, `_ARMED` per process | arm, recheck, provision a role, disable and drop expired ones | one arm at a time over processes, cut short by lock timeouts and crashes | no reader without row security; an arm put off is made up; expired roles are collected |
| DDL, properties, tags (`server.py`, `catalog.py`) | sidecar tables | create, rename, drop, set, remove | several steps without one transaction | a dropped name leaves nothing behind (Governance) |
| Iceberg conversion (`iceberg*.py`, `types.py`, `bounds.py`, `manifest.py`, `puffin.py`) | none | pure functions | numeric edges | agrees with a reference definition |
| Authentication, configuration; agent interfaces; operations and clients | settings | stateless calls | none beyond the above | not modelled |

How they interact. A CommitTable request runs in a worker process, holds a lease
on its catalog (registry), writes Postgres and DuckDB (CommitTable), invalidates
its process's metadata cache and then builds the same answer as LoadTable, which
may publish a new chain (Materialize). A trigger on the snapshot table notifies
the elected listener, which publishes the same chain from another process and then
refreshes the table's masked exports; a masked read makes or takes one, and a
schema or policy change collects them (MaskedExport).

Authoring bumps the governance version (Governance). The version
stamps the cache of vended credentials (CredentialVend) and is part of the key of a
cached result (ResultSets). A vend arms row security and provisions the reader's role
(ReaderRoles), resolves plans (Policies) and routes the session to masking views or
masked exports. A request for a cached result vends like any other reader and copies
what that session sees; the S3 gateway asks `is_servable` before it serves the object.
DDL carries or purges the rows that name what it changes. The caches, S3 objects and
Postgres rows are what the components share; no component writes another's state
but through these.

`PROJECT.json` lists every component with what is left out, and under `hazards`
each place in the code that is hard to test, with the property that covers it or
the reason why none does.

## 2. The modules

| Module | Models | Theorems |
|---|---|---|
| `DuckLakeTables` | rows of one table and the queries over them: visibility, live rows, the table's current snapshot | |
| `CommitTable` (EXTENDS `DuckLakeTables`) | commit requests and all other writers of the catalog | `CommitTable_proofs` |
| `Materialize` | publication and answers | `Materialize_proofs` |
| `NotifyListener` | election, scan, notification, log | `NotifyListener_proofs` |
| `CatalogRegistry` | contexts, leases, connections of one process | `ServerProcess_proofs` |
| `MaskedExport` | masked exports of one table: exporters, refreshes, collections | `MaskedExport_proofs` |
| `Policies` | the governance model as a record, which policies reach a table, plans and their precedence: operators only | |
| `Governance` (EXTENDS `Policies`) | authoring, DDL, schema changes and plan reads, statement by statement | `Governance_proofs` |
| `GovernedReads` | abstract: what a principal may be shown while rules change | |
| `ResultSets` (INSTANCE `GovernedReads`) | the result-set cache, the gateway's decision, the sweeper | `ResultSets_proofs` |
| `ReaderRls` | arming of row security by several processes | |
| `ReaderRoles` (EXTENDS `ReaderRls`) | the readers' roles: provision, expiry, sweeps | `ServerProcess_proofs` |
| `CredentialVend` | vends for reading, of a table or a namespace, and what LoadTable delegates, while rules change | `CredentialVend_proofs` |
| `MC*` | constants, symmetry and request shapes for TLC | |

Operators commented as *faulty* or *mistaken* stand before the definition they would
replace. No action uses them; the mutants in `PROJECT.json` put each in the place
of the real one and TLC must then find the property violated.

### CommitTable

One action per statement (or group of statements nobody can separate) of the
handler. `todo` holds the parts of the commit that are left, in the order of
`PartOrder`, which is the order of `commit_table`. A part is either a DuckDB call
(`Lock`, then `AlterTable`, `AddDataFiles` or `ExpireSnapshots`, which commits a
snapshot at once on a connection of its own) or Postgres statements
(`ScanEqualityDelete`, `ReadLive`, `AllocateRead`, `AllocateInsert`) whose rows stay
in `tx[r]` until `Commit`. READ COMMITTED is `FilesSeenBy` and its neighbours:
committed rows with the request's own on top, read again by each statement. The
wait on `ducklake_snapshot`'s primary key is `n.id \notin Uncommitted(r)`
(the proxy) and `NoneUncommitted` (DuckLake); the DuckDB lock is `duckLock`.
`Abort` may end a request anywhere: rollback, with what DuckDB has committed kept.
`AllocateInsert` includes the UPDATEs and INSERTs that follow the allocation,
because until COMMIT nobody else can take a snapshot id, so the tables stand still.

A Parquet file is the set of rows in it, and a request inserts at most one row,
which carries its name. That is enough to tell lost, resurrected and duplicated
rows apart.

`StaleAllocators = FALSE` excludes one behaviour: that between the SELECT and the
INSERT of an allocation a whole other commit *and* the expiry of the snapshot that
was read take place. With TRUE an id can be given twice; expiry by age leaves
minutes, not microseconds, so it is kept as a hazard without a property.

### Materialize

A job goes through the steps of `_build_load_response` and `materialize_all`: the
metadata location first, then the list of snapshots, the cache, the hint, the newest
document, and either a reuse or a chain of uploads, document, hint and cache.
`Upload` runs in a pool of threads, in any order, and outlives a failed job. A
commit job makes one change of the catalog first, and a partition change in two
steps as in the code. What a manifest contains is a function of its snapshot, so S3
objects are snapshot ids. The history variable `throughout` records what
held all the while a job was loading; only properties read it.

### NotifyListener

`Elect`, `Scan`, `NextPending`, `CaughtUp`, `Listen`, `Dispatch` and `Notice` are the
loop of one process; `Materialise` and `Record` are the tasks it starts, which
outlive its session. Faults (a table, a scan, a row, a session, a process, the
poll for the lock, which nobody catches) are bounded by `MaxFaults`. `lapsed` is the
set of snapshots the code does not promise to retry before the next election:
those committed between the scan and the LISTEN, and those whose run failed.

### CatalogRegistry

The two sections of `get` under the registry lock, with the eviction of the
idle and beyond the cap, are one action each; `_resolve_row` and the construction
between them, and the connection after them, are actions of their own. What is idle
depends on the clock, so it is any set; which is evicted at the cap is any
choice that spares the catalog just used as long as another can go. Contexts that
nothing refers to are collected and their names used again. Background jobs hold
no lease and reconnect a closed catalog behind its context's back.

### MaskedExport

A request goes through `ensure_export_for_plan` and `_export` step by step: the plan,
the snapshot, the pointer, the advisory lock, the re-check, the COPY part by part, the
pointer upsert, the sweep, the unlock; then, whatever came of it, the fallback to the
pointer and the listing of what is vended. A refresh runs the same steps for the
signature its columns give and drops the others; a collection drops all, without
the lock. `job[j]` holds what a job has read and written. A directory is a signature,
a snapshot and its maker (the random token), an object a directory and a part. Which
directories the grace still protects is the set `young`: writing puts a directory in,
`Age` takes it out, but not during an attempt, because 65 minutes outlast any. Faults
(`MaxFaults`) are exceptions at any step, crashes and sessions that break under
their owner, who goes on without the lock. `lost` and `collected` are histories:
whether a lock was lost, and which objects collections took.

A signature stands for one policy on the columns of one schema, so a refresh keeps
exactly the signature of the columns it has read. A policy that is detached and
attached again is a collection that changes nothing.

### Policies

The sidecar tables of `governance.py` are the fields of one record, and everything the
code derives from them is an operator: how tags cascade from schema to table to
column, which masks and filters reach a table (`MasksOn`, `FiltersOn`), which apply to
a caller with given roles (`Bypasses`, `Applicable`), the resolved `Plan` with its file
tier and its forcing for agents, the candidates a vend asks about (`Candidates`,
`HasFileLayer`). The body of a policy is the set of roles it lets pass and the tier it
asks for; the SQL text plays no part. Where several masks apply the code takes the
lexically first; `Lowest` is some fixed choice.

### Governance

Cursors of the store autocommit, so each statement is an action and calls interleave
between any two: an attachment is expanded to the columns it reaches (`ExpandOwn`,
`Expand`), looked up for conflicts (`Check`), inserted (`Insert`), audited, and the
views, exports and properties it outdates are collected as best effort (`Resync*`, each
of which may fail without the call failing). A drop is DuckDB's, then three purges; a
rename is DuckDB's, then three carries; a schema change is DuckDB's ALTER, then the
carry of column rows inside the commit's Postgres transaction (`CommitSchema`), which
`AbortSchema` undoes while the ALTER stays. `Read` puts a plan together from version,
roles, columns and four SELECTs. A table is a name and, once created, an object id; `owed`
(what each object is to be under), `overlap` and `ahead` are histories that no action
reads. `SeedsAreAuthored` is what is asked of the store that requests find: no column of
it has masks from two sources, which the look of the calls that made it ruled out.

### GovernedReads and ResultSets

`GovernedReads` knows rules, how often they have changed, and what each principal may be
shown. `Permit` allows a principal the view a query of theirs has under the rules of the
moment; `Lapse` takes permissions away; a `Change` leaves them, because the code promises
no more than its time to live. A view is a function of the rules, the caller's roles
and context, and the caller itself if a policy or the query asks who that is.

`ResultSets` follows one request through `result_sets.py`: roles, whether the result may
be shared, the data version, the look-up, the lock of the key, the second look-up, the
vend, the COPY and upload, the insertion, the reader's row, the touch, and the refresh.
The S3 gateway judges a request in two statements (`Knock`, `Judge`) and keeps the
decision for later requests (`decisions`). The sweeper selects, deletes rows, then
objects, then lists objects and rows for orphans. Time is events: a result's idle window
or hard limit ends by `Expire`, a cached decision by `Forget`, and the hour of grace is
`Young`, what an upload and the insertion after it take. The vend of a build is one step
under the rules of the moment (its own steps are in `CredentialVend`). It also says
whether the session is routed to masked exports (`Exported`), and then the COPY reads not
the tables of the moment but what an export was made of, of any moment until then
(`DataRead`): the vend serves an older export when another job holds its lock or its own
attempt failed, and a cached answer of the vend outlives commits. The analysis of
query texts is abstracted to two sets, those that ask for the session (`Asking`) and
those that are volatile. The refinement maps `permitted` to the decisions that allow an
object that is still stored.

### ReaderRls and ReaderRoles

A vend checks `_ARMED`, waits for the advisory lock as long as its timeout allows,
classifies tables, grants all of them and then puts a policy on each, statement by
statement, and marks its process armed; a recheck of an armed process does the same for
what is new. `Interrupt` ends an arm at any statement (a lock timeout), `Die` a process.
Then the role: CREATE, ALTER with its expiry, the row in `duckicelake_pg_principal`. A
sweep drops what is dead, deletes rows, disables what is overdue. A call is one vend at a
time and its name is used again for the next (`Again`), which is a new role. The default
catalog, which is armed at start-up, is left out.

### CredentialVend

A vend looks in the cache, resolves roles, plans the table that was asked for or, one by
one, the candidates of the namespace, decides on the catalog-wide scope, computes what to
carve out, and mints. Each step reads `Rules`, the last element of `past`, which changes
at any moment. The rules are the tier at which each table is masked (`Policies` has what
they follow from). Planning, provisioning and minting may fail; what the cooperative tier
does then (fail open but for tables with the property, or 503 in strict mode) is in
`PlanningFails`, `Refused` and `Gate`, and `excused` records which tables a failure left
undecided. Whether a session is an agent's is read in two ways, as in the code: planning
goes by the roles (`Tier`), which hold the tag of an agent but also any role of that
name, the scope by the session (`Scope`). `BaseStaysHidden` judges by the session (`Meant`).

LoadTable (`_build_load_response`) shares the roles, the rules, the property and the gate,
and has a planning and an end of its own. `PlanLoad`: the table at the file tier needs its
export and the shadow metadata over it, of the current snapshot; the shadow is the route of
an Iceberg client, the view that of the others. `LoadMint`: the export to read, or the
prefix of the table, or, because it cannot tell a writer from a reader, a credential for
the whole data prefix (sts.py says why: a writer's files have no names yet), or nothing.
What such a credential reads of other tables is in the field `beyond`, and
`BaseStaysHidden` is about the rest. Nothing is cached. The response to a creation or a
commit comes without governance and is not modelled.

ducklake-credentials for writing, static and root keys and the gateway's check of each
object are left out.

## 3. What is checked

Passing runs:

| Run | Instance | Shows |
|---|---|---|
| `commit` | 2 requests of 5 shapes, 1 process, 1 direct insert, head up to 3 before the environment stops | `TypeOK`, `AllocationIsExclusive`, `IdsNeverReused`, `DeletesFollowTheirFile`, `HistoryIsImmutable`, `RowsLeaveByAckOnly` |
| `commit_liveness` | the same with head up to 2, fair threads | `EveryCommitAnswered`: no wait is for ever when no commit calls DuckDB after it has allocated in Postgres |
| `materialize` | a commit and a load on any of 2 processes, 1 tag, 2 snapshots | `TypeOK`, `ChainsAreComplete` (what is published, cached or answered can be read), `AnswersShowAll` (an answer is no older than its request) |
| `registry` | 3 catalogs under a cap of 2, a request that resolves two, one that resolves one, a background pass | `TypeOK`, `LeasesAreRight`, `OneContextPerCatalog`, `SettledIsOpen`, `HeldStaysOpen` |
| `notify` | 2 processes, 2 tables, 2 commits, 2 faults, fair | `TypeOK`, `DoneIsPublished`, `NoneForgotten`, `EverySnapshotIsLogged` |
| `masked` | a masked read, a refresh, a collection; 2 signatures, 2 parts, 2 snapshots, 1 fault, one directory kept | `TypeOK` (with it, that locks are released), `VendedIsWhole`, `ReplacedByAnother` |
| `governance` | any 2 calls on 1 schema, 2 names, 2 columns, 1 tag, 2 masks, 1 filter, 3 object ids, from 3 seeded models, 1 fault | `TypeOK`, `OneMaskPerColumn`, `StampedPlanIsWhole`, `PoliciesStay`, `NothingIsLeftBehind`, `CandidatesCoverPlans` |
| `results` | 2 requests of 3 sessions of 2 principals, 3 rule sets, some sessions routed to exports, 1 change, 1 commit, 1 cached decision | `AnswersAreFresh`, `ServedAsGoverned` (the refinement) |
| `retention` | 2 requests, a plain and a volatile query, a sweeper, 1 failure, fair | `TypeOK`, `RowsHaveTheirFile`, `ObjectsArePurged` |
| `roles` | 2 processes, a table there and a table that appears, a sweeper in one, 1 interrupt, fair | `ReadersTypeOK`, `ReadersArePoliced`, `PutOffIsDone`, `RolesAreCollected` |
| `vend` | 2 vends of a human or an agent, each for a table, for a namespace of 2 with a third table elsewhere, or by LoadTable; 5 rule sets, one of which grants a role named like the agents' tag, 1 change | `TypeOK`, `BaseStaysHidden`, `RoutesAreReadable` |

Bounds. Two requests are what a race needs, and every shape occurs with every
other; three snapshots of the environment leave room for a commit, a compaction
and an expiry between two steps of one request. In `registry` the cap, idle eviction,
a retirement, a revival and a release of another request meet with two requests;
five contexts are as many as can be referred to at once. In `notify` two faults
suffice to depose a listener, elect another and fail once more. `materialize` was
also run with three snapshots (5.0 million states), which adds no behaviour that
two do not show. In `masked` the read and the refresh meet in every order as the
holder and the one turned away or waiting; keeping one directory (the default is two)
makes two snapshots enough for a sweep that has something to take; two signatures let
a refresh keep one and drop the other. In `governance` two calls are what a
look-then-write race or a plan torn by a write needs; the seeds put policies on a
column, through a tag of a table and, two masks and a filter, through a tag of a schema,
so that every path of `MasksOn` is taken, and a third object id lets a name be created
again after a drop or a rename. In `results` three sessions give two principals with equal rules (who share),
one with other roles after the change, and one principal with two contexts; `Asking` is
empty, since a policy that asks for the session (third rule set) takes the same path
through the key; the sessions that come by MCP, and an analyst's, are at the file tier, so
results from the tables and from exports are stored and shared side by side. `retention`
leaves the change out and has the volatile query, which is never shared, and the failure between every two steps. In `roles` one interrupt is
enough to leave an arm half done or to lose the process that holds the lock. In `vend`
the change may come between any two steps of either vend, and the second vend meets the
answer the first has cached. Bounds stop the environment, never a handler.

One run shows a disagreement between the code and what is said of it (one property,
refuted by TLC; the finding quotes the line):

| Run | What TLC finds |
|---|---|
| `claim_mask_lapses` | a commit renames a masked column and then fails: the rename stays, the carry of the mask is rolled back, and the column is read in the clear (`MasksNeverLapse`, against "else it silently lapses", `server.py:1982`, `2541`) |

Known disagreements without a run of their own. The models behave as the code does, the
passing properties leave room for it, and each is noted with its line under `hazards`:

- two overwrites on the same base are both acknowledged, because the snapshot assertion
  is checked outside the transaction;
- the equality delete of an upsert hides the row the same commit has inserted;
- a commit with a sort order and an append waits for itself for ever (the deadlock
  appears when the shape `{sort, add}` is added to the commit run);
- a load between ALTER and COMMIT publishes the new snapshot with the old partition
  spec, and it stays;
- a removed tag is answered from a reused document;
- a collection takes parts of an export under way, which is then published without them;
- a sweep deletes a result that a hit has extended since the sweep selected it;
- `rls_fully_armed` reports readers policed after an arm that was cut short between the
  grants and the policies;
- `assign_object_tag` looks for each mask of the tag apart (`governance.py:617-631`), so
  a tag that was given two masks while it reached nothing brings both to a column,
  against `governance.py:620-621` and `docs/REFERENCE.md:466-467`; the read path takes
  the lowest (`policies.py:186`), and `OneMaskPerColumn` allows the masks of one tag;
- a namespace vend in strict mode answers 200 for a table whose view cannot be made;
- a cached result that was built from masked exports may be older than its key. The key
  fingerprints the tables (`result_sets.py:237-296`), the session reads an export, and
  that one may lag: the loser of the export lock serves the pointer that is there
  (`masked_export.py:216-221`), so does the vend whose attempt failed
  (`server.py:1547-1549`, `1617-1620`), and a hit of `_CRED_CACHE` does not look at
  exports at all, as its stamp is the governance version, which no commit moves
  (`server.py:1352-1354`). The old rows are then found under the new fingerprint for as
  long as the row lives, against `result_sets.py:10-16`. `AnswersAreFresh` excepts these
  answers; that every row is as new as its key is refuted by TLC in 13 states;
- somebody who is no agent but is granted a role named like the agents' tag
  (`create_role` and `grant_role` take any name) is planned for as an agent
  (`policies.py:228`) and let through as none by the gate of a namespace
  (`server.py:253`), so the catalog-wide scope shows them base files that the plan
  withheld. `BaseStaysHidden` judges by the session, and holds with such roles;
- expiry in DuckLake also drops the file rows that no snapshot left can see
  (`catalog.py:1720-1723`). In `CommitTable` they stay; no snapshot that is left shows
  them, so the properties, which are about what can be read, do not tell the difference.

Liveness and fairness. `commit_liveness` assumes that the thread of a request runs
(`WF_vars(Handle(r))`): requests run in a thread pool and nothing else holds
them. No fairness is assumed of clients, of other writers or of failures. `notify`
assumes that every process's event loop and each task it has created run; faults are
finitely many, so the property reads "once failures stop". It exempts what
`lapsed` names and the case that every process's listener has died by an exception
while polling for the lock, which the code does not catch. Its deadlock check is
off because the system may stop when all is logged. `commit_liveness` is
checked with the shapes whose Postgres allocations come last.

`retention` assumes that the sweeper's loop runs (`asyncio` schedules it every period)
and that a request that has begun goes on; nothing else. `roles` assumes that a vend
under way goes on and vends keep coming, that time passes (roles expire, processes fall
due for their recheck) and that sweeps run. The advisory lock is assumed strongly fair
(`SF_readerVars(Lock(k) ...)`): Postgres grants it to waiters in turn, so a vend that asks
again and again cannot be passed over for ever. That calls come again (`Again`) is in
`Vend`: without later vends there is nobody to make up an arm that was put off.

Refinement. `results` checks `ServedAsGoverned == Reads!Spec`, where `Reads` is
`GovernedReads` with `permitted <- Permitted`; `ResultSets_proofs` proves it.

## 4. What is proved

`tlapm` checks every proof to the last leaf. The theorems hold for every value of
the constants that satisfies the assumption of the module: the bounds of section 3
(`MaxSnapshot`, the number of requests, catalogs, processes) play no part.

| Module | Theorems | Inductive invariant |
|---|---|---|
| `CommitTable_proofs` | `TypeCorrect`, `AllocationExclusive`, `IdsUnique`, `HistoryImmutable` | `TypeOK /\ SnapshotsOK /\ FilesOK /\ TxOK /\ SeenOK` |
| | `DeletesFollow`, `RowsLeaveAcknowledged` | with it `DeletesFollowTheirFile /\ AimInv` (`NamesKept`) |
| `Materialize_proofs` | `TypeCorrect`, `ChainsComplete` (from `PublicationComplete`, `AnswersReadable`), `AnswersComplete` (from `AnswersFresh`, `TagsShown`) | `TypeOK /\ ReadInv /\ FreshInv` |
| `ServerProcess_proofs` (CatalogRegistry) | `TypeCorrect`, `LeasesRight` (from `LeaseCount`, `RetiredWait`), `OneContext`, `SettledOpen`, `HeldStays` | `TypeOK /\ LeasesAreCounted /\ DictionariesOK /\ HeldOK /\ UsersOK /\ RequestsOK /\ ConnectionsOK` |
| `NotifyListener_proofs` | `TypeCorrect`, `DonePublished`, `NoSnapshotForgotten` | `TypeOK /\ RunsOK /\ ScansOK /\ LockOK /\ FoundOK /\ UnloggedOK /\ DoneIsPublished /\ NoneUnminded` |
| `ServerProcess_proofs` (ReaderRoles) | `ReadersTypeCorrect`, `ReadersPoliced` | `ReadersTypeOK /\ RlsInv /\ RolesOK /\ SweepOK` |
| `ResultSets_proofs` | `TypeCorrect`, `RowsKeepTheirFile`, `FreshAnswers`, `Refinement` | `TypeInv /\ CallsOK /\ RowsOK /\ GatewayOK /\ SweepOK` |
| `MaskedExport_proofs` | `TypeCorrect`, `VendedWhole`, `ReplacedAnother` | `TypeOK /\ JobOK /\ OwnAt /\ RowOK /\ LockOK` |
| `CredentialVend_proofs` | `TypeCorrect`, `BaseHidden`, `RoutesReadable` | `CallOK` of each vend, `EntryOK` of each cached answer |
| `Governance_proofs` | `TypeCorrect`, `NoneLeftOut` | `TypeInv` |
| | `PlansAreWhole` | with it `WholeInv` |
| | `RowsFollowNames` | with it `LeftInv` |
| | `TablesStayGoverned` | with it `OverlapOK /\ LiveOK /\ StayInv` |
| | `OneMaskEach` | with it `OverlapOK /\ LiveOK /\ LeftInv /\ LookInv /\ OneInv` |

Each `Invariance` theorem is the conjunction of three facts: the initial states
satisfy the invariant, every step keeps it (one lemma per action or group of actions
alike), and it implies the properties.

**CommitTable.** That ids are unique is not inductive: it depends on what open
transactions hold. `TxOK` says that a transaction which has allocated is alone, that
its snapshot ids begin right after the newest committed one (so the primary key
makes everybody else wait) and that its file ids and row ends lie beyond all
committed ones; `SeenOK` relates what an allocation has read to the newest row it
can see: either it is that row, or the id after it is taken and the INSERT cannot
succeed. `FilesOK` bounds committed file ids by `next_file_id`. `HistoryImmutable` is
the action property: every row a step ends or adds carries an id beyond the
snapshots that exist.

`AimInv` follows a request from what it names to what it writes: the files it aims at are
files of the table (a file keeps its id, rows and begin, so they stay that), an
overwrite ends only files whose rows it names, a delete file hides only rows it names. So
`Commit`, the one step that can take a live row, takes rows of `named` alone
(`RowsLeaveAcknowledged`); and since a target is looked up before the id is allocated, a
delete file begins after its data file (`DeletesFollow`). All of them assume `~ StaleAllocators`; no other fact about
the environment is used.

**Materialize.** `ReadInv` follows a document from the list to S3: the snapshots of
a document being assembled are objects that exist or that its job still uploads
(`DocOK`), a version is 1 or the successor of one that exists (`VersionOK`), so the
location v1 that is announced before anything is published exists when the answer
is given (`LocationOK`, `StoreOK`). `FreshInv` is what makes comparing one snapshot
id enough: every document and cache entry was listed at one moment, so of the
snapshots that still exist it has all up to its newest (`UpTo`). A reused
document whose newest snapshot is the table's therefore misses none, although
snapshots expire and other processes publish meanwhile.

**CatalogRegistry.** A lease count is compared with the leases that are held
(`LeasesAreCounted`), so an eviction, which looks at the count alone, closes only what
nobody holds. `DictionariesOK` keeps a context in `_ctxs` or `_retired`, never
both, under its own catalog, and `HeldOK` says that what a request holds is in one
of them: together they give one context per catalog. `UsersOK` says that a context
that has been built and not yet filed is untouched and its builder's alone;
`ConnectionsOK` that of a filed context the DuckDB connection comes first, and
while it is alone somebody is building the pool. The assumptions used are that
catalogs and leases are finitely many (`Cardinality`), that there is a context for
the default catalog and that a request may resolve at least one catalog.

**NotifyListener.** `NoneForgotten` is not inductive: the run that carries a snapshot may
be a deposed listener's, whose failure nobody scans for again before the next
election. `NoneUnminded` says which runs count: a snapshot the elected listener relies
on is logged, queued, in its scan or carried by a run of its own. `LockOK` says that
only an elected listener holds the lock, `ScansOK` that a scan has one run at a time,
of a worker that is catching up, `FoundOK` that what is queued has been committed,
and `RunsOK` says that a run records done only when each of
its tables has been published, which is `DoneIsPublished`.

**ReaderRoles.** `RlsInv` follows an arm: whoever has passed a statement of the DDL has
the lock or has been interrupted, what an armed process has seen is policed (`ArmedOK`),
and a vend past the arming belongs to an armed process or to one that has put it off.
`RolesOK` and `SweepOK` tie the row and the state of a role to where its owner and the
sweeps are.

**ResultSets.** Everything a request, a row or a decision holds was read in some order
before the build. The invariant says of each: it is of rules that no longer hold, or it
agrees with the rules in force (`CallsOK`, `RowsOK`, `GatewayOK`). Since the version is
read first and is part of the key, a result that was keyed before a change can be found
by nobody after it; since the gateway reads the version again (`Judge`), what it allows
is of the present rules. That is the refinement: `Judge` is `Permit`, `Govern` is
`Change`, `Forget` and deletions are `Lapse`, everything else stutters. `SweepOK` says
that what is chosen for deletion is settled: nobody is building it, so a row never loses
its file. `Fresh` is what `FreshAnswers` rests on: an object built from the tables is at
least as new as the data version its builder had read, and a hit compares that version;
of an object built from exports nothing of the kind holds, and nothing is claimed.

**MaskedExport.** Which job may still write to a directory is a matter of where it is
(`Settled`): a directory is named after its maker, who writes one, once (`OwnAt`). What
is listed for a sweep is neither young nor pointed at nor unsettled, because nothing
ages during an attempt; a collection records what it takes; so a settled directory that is
current or young is whole, but for that, and it is what the pointer, the fallbacks and the
vend hand on. `LockOK` gives the action property: as long as locks hold, who publishes
holds the lock and has looked at the pointer under it.

**CredentialVend.** A vend touches nothing of another one but the cache, so the
invariant is one predicate of its record and the rules so far (`CallOK`): its roles are
those of one moment since it began, what it has withheld or routed was right under the
rules of some such moment, and if the rules have not changed the routes and the reach agree
(`Routed`, `Readable`). Rules only accumulate (`OpenGrows`), so every other step keeps it.
`EntryOK` says it of a cached answer, with the moment it was asked for: that is what makes
a hit as good as a vend. Nothing is assumed of the names of roles: a session that is no
agent's but has a role of the tag's name is withheld more by its plan than the property
asks (`Meant` takes the role away), and what the scope then gives it was open to it. What
is excepted is what a failure of planning left undecided in the cooperative tier
(`excused`) and the rest of the data prefix of a delegated write credential (`beyond`).

**Governance.** `WholeInv` follows a read from its stamp: as long as that is the version,
what it has read is what there is, because every statement that changes what a plan is a
function of counts the version up. `LeftInv` says, of tags and of attachments apart, which
call is about to see to a row whose name is gone; a call leaves that window by the
statement that does, so it holds even while calls of DDL overlap.

`PoliciesStay` and `OneMaskPerColumn` relate names to rows, which change at different
moments, so neither is inductive: from RENAME TABLE to the carry, and from ALTER to the
commit, rows are under a name that is gone. `Soon` is the rows as they will be when the
carry in flight is through, and the invariants are about those (`StayInv`, `OneInv`). A
carry then changes nothing (`Lands`), a rename moves the name and the rows to be
together (`CarryForward`, `CarryBack`; of a column `TurnForward`, `TurnBack`), and `Away`
and `Back` lead to the rows there are wherever no carry is in flight. All of it rests on one
relation, `MaskLends`: what it takes for the masks of a column under one model to be masks
of a column under another. That the window is one call's is `OverlapOK`, that it finds
the names as it left them `LiveOK`. `LookInv` is what a call has seen that looks before it
writes: no other mask on any column the new row reaches, but on those it has yet to look at.
`OneMaskEach` needs three things of the environment that the property excepts: calls do not
overlap, none died half way, and no column came to be under a policy that was there before.

Only model-checked: liveness (`EveryCommitAnswered`, `EverySnapshotIsLogged`,
`ObjectsArePurged`, `PutOffIsDone`, `RolesAreCollected`), which TLAPS does not reach under
fairness; and the refuted claim.

## 5. Not modelled

- CommitTable: table properties and other sidecars in the commit transaction,
  masking-view upkeep after it, manifest parsing, appends of more than one row.
  `schema` stands for the schema diff and the partition spec as one DuckDB call.
- Materialize: schemas, statistics and the bytes of manifests, format version
  upgrades (governance and credentials of the response are in `CredentialVend`).
- NotifyListener: the look-back window of the scan (every snapshot is recent) and
  the refresh of masked exports after a table (`MaskedExport` has it).
- CatalogRegistry: `provision`, `list_refs`, `close_all`, a failure between the
  DuckDB connection and the pool.
- MaskedExport: repointing the masking views, shadow metadata, `purge_table`, several
  policies on one table.
- Governance: the text of policy bodies and their validation, listings, views as
  objects of policies.
- ResultSets: the S3 life-cycle rules, the parsing of queries, more than one catalog,
  and a build whose vend has failed open (a hazard without a property).
- ReaderRoles: the bodies of the policy functions, the arming of the default catalog
  at start-up.
- CredentialVend: ducklake-credentials for writing, LoadTable of a view or in the
  response to a creation or commit, static and root keys, request signing, policy
  documents, the per-object checks of the gateway.
- Maintenance: the schedule (which catalogs are due, a try-lock, `last_run`) is a loop
  nobody depends on; compaction and expiry themselves are in `CommitTable`, its use of a
  catalog without a lease in `CatalogRegistry`.
- Iceberg conversion: pure functions between formats; a model would be the code again.
- Authentication, configuration, agent interfaces, operations, client patches: no shared
  state of their own.

## 6. Plan

1. Done: `CommitTable`, `Materialize`, `CatalogRegistry`, `NotifyListener`,
   `ReaderRoles`, `ResultSets`, `MaskedExport`, `CredentialVend` and `Governance` with
   proofs; `Policies` under them; `GovernedReads` implemented.
2. `CredentialVend` composed with `ResultSets`, so that a build whose vend fails open is
   covered.
3. An abstract `SnapshotLog` (a table is a sequence of row sets, extended by
   acknowledged commits and by other writers) that `CommitTable` implements.
4. `MaskedExport` with the masking views that exporters and requests repoint, and the
   shadow metadata inside a directory.
5. Proofs: that `CommitTable` implements `SnapshotLog`.
