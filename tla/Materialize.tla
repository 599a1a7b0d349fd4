---------------------------- MODULE Materialize ----------------------------
(***************************************************************************)
(* Publication of one table's Iceberg metadata on S3, and the answers that *)
(* LoadTable and CommitTable build from it (materialize.materialize_all,   *)
(* server._build_load_response).                                           *)
(*                                                                         *)
(* A job lists the table's snapshots in Postgres, then answers from its    *)
(* process's cache, from the newest vN.metadata.json, or from a document   *)
(* it assembles and publishes: manifests and manifest lists first, in any  *)
(* order, then vN.metadata.json, then version-hint.text.  Jobs of several  *)
(* processes publish under the same prefix with no lock between them.      *)
(***************************************************************************)
EXTENDS Integers, FiniteSets

CONSTANTS
    Loads,       \* LoadTable requests and materialisations by the listener
    Commits,     \* CommitTable requests: a change, then a load
    Workers,     \* proxy processes
    TagNames,    \* names of tags and read-only branches
    MaxSnapshot  \* bound: nobody commits a snapshot past this one

Jobs == Loads \cup Commits
TagRow == [name : TagNames, snap : Nat]

ASSUME ConstantsAssumption ==
    /\ Loads \cap Commits = {}
    /\ MaxSnapshot \in Nat

VARIABLES
    head,        \* the newest snapshot of the catalog
    snaps,       \* list_snapshots: the table's snapshots in Postgres
    tags,        \* rows of duckicelake_table_tag
    spec,        \* is the iceberg partition-spec sidecar populated?
    objects,     \* snapshots whose manifests and manifest list are on S3
    docs,        \* vN.metadata.json: version -> document
    hint,        \* version-hint.text, 0 while there is none
    cache,       \* per process: _metadata_cache of the table
    home,        \* the process each job is sent to
    pc,          \* where each job is
    location,    \* the version metadata-location names
    listed,      \* the snapshots the job has listed
    version,     \* the version it will publish
    doc,         \* the document it is assembling, or has answered with
    puts,        \* snapshots whose uploads have not all landed
    throughout   \* history: what has held ever since the job began to load

catalog == <<head, snaps, tags, spec>>
bucket == <<objects, docs, hint>>
locals == <<location, listed, version, doc, puts>>
vars == <<catalog, bucket, cache, home, pc, locals, throughout>>

Document == [snaps : SUBSET Nat, tags : SUBSET TagRow, spec : BOOLEAN]
NoDocument == [snaps |-> {}, tags |-> {}, spec |-> FALSE]
NoneHeld == [snaps |-> {}, tags |-> {}]

Newest(S) == CHOOSE s \in S : \A t \in S : t <= s

\* A document shows the table at snapshot s: current-snapshot-id = s.
IsAt(d, s) == d.snaps # {} /\ Newest(d.snaps) = s

Loading == {"list", "cache", "hit", "hint", "latest", "reuse", "plan",
            "tags", "puts", "publish", "prime"}
Committing == {"commit", "sidecar", "invalidate", "load"}

\* A DuckLake client has created the table, or one of the processes has and
\* published it as v1 (create_table).
Unpublished ==
    /\ objects = {}
    /\ docs = [v \in {} |-> NoDocument]
    /\ hint = 0
    /\ cache = [w \in Workers |-> NoDocument]

PublishedBy(w) ==
    LET v1 == [snaps |-> {1}, tags |-> {}, spec |-> FALSE]
    IN  /\ objects = {1}
        /\ docs = [v \in {1} |-> v1]
        /\ hint = 1
        /\ cache = [u \in Workers |-> IF u = w THEN v1 ELSE NoDocument]

Init ==
    /\ head = 1
    /\ snaps = {1}
    /\ tags = {}
    /\ spec = FALSE
    /\ Unpublished \/ \E w \in Workers : PublishedBy(w)
    /\ home \in [Jobs -> Workers]
    /\ pc = [j \in Jobs |-> IF j \in Commits THEN "commit" ELSE "load"]
    /\ location = [j \in Jobs |-> 0]
    /\ listed = [j \in Jobs |-> {}]
    /\ version = [j \in Jobs |-> 0]
    /\ doc = [j \in Jobs |-> NoDocument]
    /\ puts = [j \in Jobs |-> {}]
    /\ throughout = [j \in Jobs |-> NoneHeld]

----------------------------------------------------------------------------
\* Every change of the catalog is seen by the loads that are under way.
Watch ==
    /\ throughout' = [j \in Jobs |->
                        IF pc[j] \in Loading
                        THEN [snaps |-> throughout[j].snaps \cap snaps',
                              tags |-> throughout[j].tags \cap tags']
                        ELSE throughout[j]]

\* Data, schema or sort order: a DuckLake snapshot of the table.
NewSnapshot ==
    /\ head < MaxSnapshot
    /\ head' = head + 1
    /\ snaps' = snaps \cup {head + 1}
    /\ UNCHANGED <<tags, spec>>

\* upsert_tag and remove_tag, at the COMMIT of their transaction.
SetTag(row) ==
    /\ tags' = { t \in tags : t.name # row.name } \cup {row}
    /\ UNCHANGED <<head, snaps, spec>>

RemoveTag(name) ==
    /\ tags' = { t \in tags : t.name # name }
    /\ UNCHANGED <<head, snaps, spec>>

\* ducklake_expire_snapshots, for any snapshots but the newest of the catalog:
\* a table that nobody has touched lately may lose all of its own.
Expire(ids) ==
    /\ head \notin ids
    /\ snaps' = snaps \ ids
    /\ UNCHANGED <<head, tags, spec>>

\* commit_table up to the end of its transaction, for updates that take
\* effect in one step.
CommitChange(j) ==
    /\ pc[j] = "commit"
    /\ \/ NewSnapshot
       \/ \E row \in [name : TagNames, snap : snaps] : SetTag(row)
       \/ \E name \in TagNames : RemoveTag(name)
       \/ \E s \in snaps : Expire({s})
    /\ pc' = [pc EXCEPT ![j] = "invalidate"]
    /\ Watch
    /\ UNCHANGED <<bucket, cache, home, locals>>

\* _apply_partition_spec: ALTER TABLE takes effect through DuckDB at once ...
AlterPartitioning(j) ==
    /\ pc[j] = "commit"
    /\ NewSnapshot
    /\ pc' = [pc EXCEPT ![j] = "sidecar"]
    /\ Watch
    /\ UNCHANGED <<bucket, cache, home, locals>>

\* ... and the sidecar rows, written or cleared, at the COMMIT.
CommitSidecar(j) ==
    /\ pc[j] = "sidecar"
    /\ spec' \in BOOLEAN
    /\ pc' = [pc EXCEPT ![j] = "invalidate"]
    /\ UNCHANGED <<head, snaps, tags>>
    /\ Watch
    /\ UNCHANGED <<bucket, cache, home, locals>>

\* invalidate_metadata_cache, in the process that committed.
Invalidate(j) ==
    /\ pc[j] = "invalidate"
    /\ cache' = [cache EXCEPT ![home[j]] = NoDocument]
    /\ pc' = [pc EXCEPT ![j] = "load"]
    /\ UNCHANGED <<catalog, bucket, home, locals, throughout>>

----------------------------------------------------------------------------
\* _latest_metadata_location, before anything is materialised.
ResolveLocation(j) ==
    /\ pc[j] = "load"
    /\ location' = [location EXCEPT ![j] = IF hint = 0 THEN 1 ELSE hint]
    /\ throughout' = [throughout EXCEPT ![j] = [snaps |-> snaps, tags |-> tags]]
    /\ pc' = [pc EXCEPT ![j] = "list"]
    /\ UNCHANGED <<catalog, bucket, cache, home, listed, version, doc, puts>>

\* Without snapshots the answer is the base metadata.
ListSnapshots(j) ==
    /\ pc[j] = "list"
    /\ listed' = [listed EXCEPT ![j] = snaps]
    /\ pc' = [pc EXCEPT ![j] = IF snaps = {} THEN "answer" ELSE "cache"]
    /\ UNCHANGED <<catalog, bucket, cache, home, location, version, doc, puts, throughout>>

\* A document that may be served for the listed snapshots.  A faulty one
\* would not compare the snapshot ids.
ReusableAnyway(d, S) == d.snaps # {} /\ ~ spec
Reusable(d, S) == IsAt(d, Newest(S)) /\ ~ spec

\* cached_metadata, unless the partition-spec sidecar is populated.
LookUpCache(j) ==
    LET hit == Reusable(cache[home[j]], listed[j])
    IN  /\ pc[j] = "cache"
        /\ doc' = [doc EXCEPT ![j] = IF hit THEN cache[home[j]] ELSE @]
        /\ pc' = [pc EXCEPT ![j] = IF hit THEN "hit" ELSE "hint"]
        /\ UNCHANGED <<catalog, bucket, cache, home, location, listed, version, puts, throughout>>

\* refs.update(get_tags): current rows over those the document has.
Overlay(d) ==
    [d EXCEPT !.tags = { t \in d.tags : \A row \in tags : row.name # t.name } \cup tags]

ServeHit(j) ==
    /\ pc[j] = "hit"
    /\ doc' = [doc EXCEPT ![j] = Overlay(@)]
    /\ pc' = [pc EXCEPT ![j] = "answer"]
    /\ UNCHANGED <<catalog, bucket, cache, home, location, listed, version, puts, throughout>>

\* _next_metadata_version.  A faulty one would forget the + 1.
SameVersion(h) == h
NextVersion(h) == h + 1

ReadHint(j) ==
    /\ pc[j] = "hint"
    /\ version' = [version EXCEPT ![j] = NextVersion(hint)]
    /\ pc' = [pc EXCEPT ![j] = "latest"]
    /\ UNCHANGED <<catalog, bucket, cache, home, location, listed, doc, puts, throughout>>

\* _read_cached_metadata of the version before, or of v1 when there is none.
ReadLatest(j) ==
    LET v == IF version[j] > 1 THEN version[j] - 1 ELSE version[j]
        hit == v \in DOMAIN docs /\ Reusable(docs[v], listed[j])
    IN  /\ pc[j] = "latest"
        /\ doc' = [doc EXCEPT ![j] = IF hit THEN docs[v] ELSE @]
        /\ pc' = [pc EXCEPT ![j] = IF hit THEN "reuse" ELSE "plan"]
        /\ UNCHANGED <<catalog, bucket, cache, home, location, listed, version, puts, throughout>>

\* The tags and properties of a reused document are read again.
RefreshReused(j) ==
    /\ pc[j] = "reuse"
    /\ doc' = [doc EXCEPT ![j] = Overlay(@)]
    /\ pc' = [pc EXCEPT ![j] = "prime"]
    /\ UNCHANGED <<catalog, bucket, cache, home, location, listed, version, puts, throughout>>

\* What a chain consists of on S3: manifests and a list per snapshot.
Uploads(S) == S

\* The partition spec is read, and the uploads of the chain are queued.
PlanChain(j) ==
    /\ pc[j] = "plan"
    /\ doc' = [doc EXCEPT ![j] = [snaps |-> listed[j], tags |-> {}, spec |-> spec]]
    /\ puts' = [puts EXCEPT ![j] = Uploads(listed[j])]
    /\ pc' = [pc EXCEPT ![j] = "tags"]
    /\ UNCHANGED <<catalog, bucket, cache, home, location, listed, version, throughout>>

ReadTags(j) ==
    /\ pc[j] = "tags"
    /\ doc' = [doc EXCEPT ![j].tags = tags]
    /\ pc' = [pc EXCEPT ![j] = "puts"]
    /\ UNCHANGED <<catalog, bucket, cache, home, location, listed, version, puts, throughout>>

\* _put_if_missing, in a thread of the pool; the pool outlives a failed job.
Upload(j) ==
    \E s \in puts[j] :
        /\ objects' = objects \cup {s}
        /\ puts' = [puts EXCEPT ![j] = @ \ {s}]
        /\ UNCHANGED <<catalog, docs, hint, cache, home, pc, location, listed, version, doc, throughout>>

\* as_completed.  A faulty one would not wait.
UploadedAnyway(j) == TRUE
Uploaded(j) == puts[j] = {}

PutDocument(j) ==
    /\ pc[j] = "puts"
    /\ Uploaded(j)
    /\ docs' = [v \in DOMAIN docs \cup {version[j]} |->
                  IF v = version[j] THEN doc[j] ELSE docs[v]]
    /\ pc' = [pc EXCEPT ![j] = "publish"]
    /\ UNCHANGED <<catalog, objects, hint, cache, home, locals, throughout>>

PutHint(j) ==
    /\ pc[j] = "publish"
    /\ hint' = version[j]
    /\ pc' = [pc EXCEPT ![j] = "prime"]
    /\ UNCHANGED <<catalog, objects, docs, cache, home, locals, throughout>>

\* put_cached_metadata.
Prime(j) ==
    /\ pc[j] = "prime"
    /\ cache' = [cache EXCEPT ![home[j]] = doc[j]]
    /\ pc' = [pc EXCEPT ![j] = "answer"]
    /\ UNCHANGED <<catalog, bucket, home, locals, throughout>>

\* The jobs in J are over, answered or not, and their locals are gone.
End(J) ==
    LET Ended(f, none) == [j \in Jobs |-> IF j \in J THEN none ELSE f[j]]
    IN  /\ pc' = Ended(pc, "over")
        /\ location' = Ended(location, 0)
        /\ listed' = Ended(listed, {})
        /\ version' = Ended(version, 0)
        /\ doc' = Ended(doc, NoDocument)
        /\ throughout' = Ended(throughout, NoneHeld)

\* The LoadTable response: metadata-location and metadata.
Respond(j) ==
    /\ pc[j] = "answer"
    /\ End({j})
    /\ UNCHANGED <<catalog, bucket, cache, home, puts>>

\* A call to Postgres or S3 raises; the uploads that are queued still land.
Fail(j) ==
    /\ pc[j] \in Loading \cup {"commit", "sidecar"}
    /\ End({j})
    /\ UNCHANGED <<catalog, bucket, cache, home, puts>>

\* A process dies: its jobs, their uploads and its cache are gone.
Crash(w) ==
    /\ cache' = [cache EXCEPT ![w] = NoDocument]
    /\ puts' = [j \in Jobs |-> IF home[j] = w THEN {} ELSE puts[j]]
    /\ End({ j \in Jobs : home[j] = w })
    /\ UNCHANGED <<catalog, bucket, home>>

----------------------------------------------------------------------------
\* Writers that do not come through the proxy, and maintenance.
DirectCommit ==
    /\ NewSnapshot
    /\ Watch
    /\ UNCHANGED <<bucket, cache, home, pc, locals>>

OtherTableCommit ==
    /\ head < MaxSnapshot
    /\ head' = head + 1
    /\ UNCHANGED <<snaps, tags, spec, bucket, cache, home, pc, locals, throughout>>

ExpireOld ==
    /\ \E s \in snaps : Expire({ t \in snaps : t <= s })
    /\ Watch
    /\ UNCHANGED <<bucket, cache, home, pc, locals>>

Done ==
    /\ \A j \in Jobs : pc[j] = "over" /\ puts[j] = {}
    /\ UNCHANGED vars

Commit(j) == CommitChange(j) \/ AlterPartitioning(j) \/ CommitSidecar(j) \/ Invalidate(j)

Load(j) ==
    \/ ResolveLocation(j) \/ ListSnapshots(j) \/ LookUpCache(j) \/ ServeHit(j)
    \/ ReadHint(j) \/ ReadLatest(j) \/ RefreshReused(j)
    \/ PlanChain(j) \/ ReadTags(j) \/ Upload(j) \/ PutDocument(j) \/ PutHint(j)
    \/ Prime(j) \/ Respond(j)

Next ==
    \/ \E j \in Jobs : Commit(j) \/ Load(j) \/ Fail(j)
    \/ \E w \in Workers : Crash(w)
    \/ DirectCommit
    \/ OtherTableCommit
    \/ ExpireOld
    \/ Done

Spec == Init /\ [][Next]_vars
----------------------------------------------------------------------------
TypeOK ==
    /\ head \in Nat
    /\ snaps \subseteq Nat
    /\ tags \subseteq TagRow
    /\ spec \in BOOLEAN
    /\ objects \subseteq Nat
    /\ DOMAIN docs \subseteq Nat \ {0}
    /\ docs \in [DOMAIN docs -> Document]
    /\ hint \in Nat
    /\ cache \in [Workers -> Document]
    /\ home \in [Jobs -> Workers]
    /\ pc \in [Jobs -> Committing \cup Loading \cup {"answer", "over"}]
    /\ location \in [Jobs -> Nat]
    /\ listed \in [Jobs -> SUBSET Nat]
    /\ version \in [Jobs -> Nat]
    /\ doc \in [Jobs -> Document]
    /\ puts \in [Jobs -> SUBSET Nat]
    /\ throughout \in [Jobs -> [snaps : SUBSET Nat, tags : SUBSET TagRow]]

Answers(j) == pc[j] = "answer"

\* A reader that follows version-hint.text, or any vN.metadata.json it was
\* given before, finds every manifest list and manifest the document names:
\* whoever else publishes, overwrites that version, fails or dies meanwhile.
PublishedIsComplete ==
    /\ hint # 0 => hint \in DOMAIN docs
    /\ \A v \in DOMAIN docs : docs[v].snaps \subseteq objects

\* So does a client of the document it is answered with, or would be answered
\* with from a cache; and metadata-location, resolved before anything was
\* materialised, names a document that is there.
AnswersAreReadable ==
    /\ \A j \in Jobs :
          Answers(j) =>
            /\ doc[j].snaps \subseteq objects
            /\ doc[j].snaps # {} => location[j] \in DOMAIN docs
    /\ \A w \in Workers : cache[w].snaps \subseteq objects

\* An answer holds every snapshot that existed all the while it was made, the
\* table's newest at its beginning among them: no cache, of this process or on
\* S3, hides a commit that was there before.
AnswersAreFresh ==
    \A j \in Jobs : Answers(j) => throughout[j].snaps \subseteq doc[j].snaps

\* And every tag and branch, unless the table has no snapshot to be shown.
TagsAreShown ==
    \A j \in Jobs :
        Answers(j) /\ listed[j] # {} => throughout[j].tags \subseteq doc[j].tags

\* Together: whatever is published, cached or answered can be read, although
\* publishers race, overwrite each other's versions, fail and crash
\* (materialize.py:762-827).
ChainsAreComplete == PublishedIsComplete /\ AnswersAreReadable

\* Together: an answer shows all that was there all the while it was made, and
\* no cache hides it (materialize.py:189-260).
AnswersShowAll == AnswersAreFresh /\ TagsAreShown
=============================================================================
