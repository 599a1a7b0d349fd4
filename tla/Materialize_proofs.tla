------------------------- MODULE Materialize_proofs -------------------------
(***************************************************************************)
(* Proofs about Materialize, for any number of jobs, processes, tags and   *)
(* snapshots.                                                              *)
(***************************************************************************)
EXTENDS Materialize, WellFoundedInduction, TLAPS

----------------------------------------------------------------------------
(***************************************************************************)
(* The inductive invariant.                                                *)
(***************************************************************************)

\* What is on S3 and in the caches is complete, and the first document that
\* anybody has published is v1.
StoreOK ==
    /\ hint # 0 => hint \in DOMAIN docs
    /\ DOMAIN docs # {} => 1 \in DOMAIN docs
    /\ \A v \in DOMAIN docs : docs[v].snaps \subseteq objects
    /\ \A w \in Workers :
         /\ cache[w].snaps \subseteq objects
         /\ cache[w].snaps # {} => 1 \in DOMAIN docs

Assembling == {"tags", "puts"}
Served == {"hit", "reuse", "publish", "prime", "answer"}

\* What a job has of a document is complete, but for the uploads it waits for.
DocOK(j) ==
    /\ pc[j] \in Assembling => doc[j].snaps \subseteq objects \cup puts[j]
    /\ pc[j] \in Served =>
         /\ doc[j].snaps \subseteq objects
         /\ doc[j].snaps # {} => 1 \in DOMAIN docs
    /\ pc[j] \notin Assembling \cup Served => doc[j].snaps = {}

LocationOK(j) ==
    /\ location[j] \in {0, 1} \cup DOMAIN docs
    /\ pc[j] \in Loading \cup {"answer"} => location[j] # 0

\* It publishes v1, or a version after one that was there.
VersionOK(j) ==
    /\ pc[j] \in {"latest", "plan", "tags", "puts", "publish"} => version[j] # 0
    /\ version[j] > 1 => 1 \in DOMAIN docs
    /\ pc[j] = "publish" => version[j] \in DOMAIN docs

ReadInv == StoreOK /\ \A j \in Jobs : DocOK(j) /\ LocationOK(j) /\ VersionOK(j)

\* S was once the list of snapshots: no id is past the catalog's head h, and of
\* the table's snapshots C, S has all up to its newest.
UpTo(S, h, C) ==
    /\ \A t \in S : t <= h
    /\ \A s \in C : (\E t \in S : s <= t) => s \in S

ListedOK ==
    /\ \A s \in snaps : s <= head
    /\ \A v \in DOMAIN docs : UpTo(docs[v].snaps, head, snaps)
    /\ \A w \in Workers : UpTo(cache[w].snaps, head, snaps)
    /\ \A j \in Jobs : UpTo(listed[j], head, snaps) /\ UpTo(doc[j].snaps, head, snaps)

\* What has been there all the while is there, was listed, and is in the
\* document once there is one.
FreshOK(j) ==
    /\ pc[j] \in Loading => throughout[j].snaps \subseteq snaps
    /\ pc[j] \in (Loading \ {"list"}) \cup {"answer"} => throughout[j].snaps \subseteq listed[j]
    /\ pc[j] \in Assembling \cup Served => throughout[j].snaps \subseteq doc[j].snaps

TagsOK(j) ==
    /\ pc[j] \in Loading => throughout[j].tags \subseteq tags
    /\ pc[j] \in {"puts", "publish", "prime"} => throughout[j].tags \subseteq doc[j].tags
    /\ pc[j] = "answer" /\ listed[j] # {} => throughout[j].tags \subseteq doc[j].tags

FreshInv == ListedOK /\ \A j \in Jobs : FreshOK(j) /\ TagsOK(j)

IInv == TypeOK /\ ReadInv /\ FreshInv
----------------------------------------------------------------------------
(***************************************************************************)
(* Type correctness.                                                       *)
(***************************************************************************)

LEMMA NoneTypes ==
    /\ NoDocument \in Document
    /\ NoneHeld \in [snaps : SUBSET Nat, tags : SUBSET TagRow]
BY DEF NoDocument, Document, NoneHeld

LEMMA InitType == Init => TypeOK
<1> SUFFICES ASSUME Init PROVE TypeOK
  OBVIOUS
<1>1. spec \in BOOLEAN
  BY Zenon DEF Init
<1>2. /\ head \in Nat /\ snaps \subseteq Nat /\ tags \subseteq TagRow
      /\ home \in [Jobs -> Workers]
      /\ pc \in [Jobs -> Committing \cup Loading \cup {"answer", "over"}]
      /\ location \in [Jobs -> Nat]
      /\ listed \in [Jobs -> SUBSET Nat]
      /\ version \in [Jobs -> Nat]
      /\ doc \in [Jobs -> Document]
      /\ puts \in [Jobs -> SUBSET Nat]
      /\ throughout \in [Jobs -> [snaps : SUBSET Nat, tags : SUBSET TagRow]]
  BY NoneTypes DEF Init, Loading, Committing
<1>3. CASE Unpublished
  <2>1. DOMAIN docs = {} /\ docs \in [DOMAIN docs -> Document]
    BY <1>3 DEF Unpublished
  <2>2. QED
    BY <1>1, <1>2, <1>3, <2>1, NoneTypes DEF Unpublished, TypeOK
<1>4. ASSUME NEW w \in Workers, PublishedBy(w) PROVE TypeOK
  <2>1. [snaps |-> {1}, tags |-> {}, spec |-> FALSE] \in Document
    BY DEF Document
  <2>2. DOMAIN docs = {1} /\ docs \in [DOMAIN docs -> Document]
    BY <1>4, <2>1 DEF PublishedBy
  <2>3. QED
    BY <1>1, <1>2, <1>4, <2>1, <2>2, NoneTypes DEF PublishedBy, TypeOK
<1>5. QED
  BY <1>3, <1>4 DEF Init

\* A change of the catalog keeps the histories of the loads well-typed.
LEMMA WatchType ==
    ASSUME TypeOK, Watch, snaps' \subseteq Nat, tags' \subseteq TagRow, spec' \in BOOLEAN
    PROVE  throughout' \in [Jobs -> [snaps : SUBSET Nat, tags : SUBSET TagRow]]
BY DEF TypeOK, Watch

\* So does the end of a job.
LEMMA EndType ==
    ASSUME TypeOK, NEW J, End(J)
    PROVE  /\ pc' \in [Jobs -> Committing \cup Loading \cup {"answer", "over"}]
           /\ location' \in [Jobs -> Nat]
           /\ listed' \in [Jobs -> SUBSET Nat]
           /\ version' \in [Jobs -> Nat]
           /\ doc' \in [Jobs -> Document]
           /\ throughout' \in [Jobs -> [snaps : SUBSET Nat, tags : SUBSET TagRow]]
BY NoneTypes DEF End, TypeOK

\* The catalog's own rows.
LEMMA ChangeType ==
    ASSUME TypeOK,
           \/ NewSnapshot
           \/ \E row \in TagRow : SetTag(row)
           \/ \E name \in TagNames : RemoveTag(name)
           \/ \E ids : Expire(ids)
    PROVE  head' \in Nat /\ snaps' \subseteq Nat /\ tags' \subseteq TagRow /\ spec' \in BOOLEAN
BY DEF TypeOK, NewSnapshot, SetTag, RemoveTag, Expire

\* Records of documents and of what has been seen.
LEMMA DocumentTags ==
    ASSUME NEW d \in Document, NEW T \in SUBSET TagRow
    PROVE  /\ [d EXCEPT !.tags = T] \in Document
           /\ [d EXCEPT !.tags = T].snaps = d.snaps
           /\ [d EXCEPT !.tags = T].tags = T
BY DEF Document

\* Laying tags over a document.
LEMMA OverlayType ==
    ASSUME tags \subseteq TagRow, NEW d \in Document
    PROVE  /\ Overlay(d) \in Document
           /\ Overlay(d).snaps = d.snaps
           /\ tags \subseteq Overlay(d).tags
BY DEF Overlay, Document

LEMMA CommitType ==
    ASSUME TypeOK, NEW j \in Jobs, Commit(j)
    PROVE  TypeOK'
<1> USE DEF Committing, Loading
<1>1. CASE CommitChange(j)
  <2>1. head' \in Nat /\ snaps' \subseteq Nat /\ tags' \subseteq TagRow /\ spec' \in BOOLEAN
    <3>1. \A row \in [name : TagNames, snap : snaps] : row \in TagRow
      BY DEF TypeOK, TagRow
    <3>2. QED
      BY <1>1, <3>1, ChangeType DEF CommitChange
  <2>2. Watch
    BY <1>1 DEF CommitChange
  <2>3. QED
    BY <1>1, <2>1, <2>2, WatchType DEF CommitChange, TypeOK, bucket, locals
<1>2. CASE AlterPartitioning(j)
  <2>1. head' \in Nat /\ snaps' \subseteq Nat /\ tags' \subseteq TagRow /\ spec' \in BOOLEAN
    BY <1>2, ChangeType DEF AlterPartitioning
  <2>2. Watch
    BY <1>2 DEF AlterPartitioning
  <2>3. QED
    BY <1>2, <2>1, <2>2, WatchType DEF AlterPartitioning, TypeOK, bucket, locals
<1>3. CASE CommitSidecar(j)
  <2>1. snaps' \subseteq Nat /\ tags' \subseteq TagRow /\ spec' \in BOOLEAN /\ Watch
    BY <1>3 DEF CommitSidecar, TypeOK
  <2>2. QED
    BY <1>3, <2>1, WatchType DEF CommitSidecar, TypeOK, bucket, locals
<1>4. CASE Invalidate(j)
  BY <1>4, NoneTypes DEF Invalidate, TypeOK, catalog, bucket, locals
<1>5. QED
  BY <1>1, <1>2, <1>3, <1>4 DEF Commit

LEMMA LoadType ==
    ASSUME TypeOK, NEW j \in Jobs, VersionOK(j), Load(j)
    PROVE  TypeOK'
<1> USE DEF TypeOK, Committing, Loading, catalog, bucket, locals
<1>1. CASE ResolveLocation(j)
  BY <1>1 DEF ResolveLocation
<1>2. CASE ListSnapshots(j)
  BY <1>2 DEF ListSnapshots
<1>3. CASE LookUpCache(j)
  BY <1>3 DEF LookUpCache
<1>4. CASE ServeHit(j)
  BY <1>4, OverlayType DEF ServeHit
<1>5. CASE ReadHint(j)
  BY <1>5 DEF ReadHint, NextVersion
<1>6. CASE ReadLatest(j)
  BY <1>6 DEF ReadLatest
<1>7. CASE RefreshReused(j)
  BY <1>7, OverlayType DEF RefreshReused
<1>8. CASE PlanChain(j)
  <2>1. [snaps |-> listed[j], tags |-> {}, spec |-> spec] \in Document
    BY DEF Document
  <2>2. QED
    BY <1>8, <2>1 DEF PlanChain, Uploads
<1>9. CASE ReadTags(j)
  <2>1. [doc[j] EXCEPT !.tags = tags] \in Document
    BY DocumentTags
  <2>2. doc' = [doc EXCEPT ![j] = [doc[j] EXCEPT !.tags = tags]]
    BY <1>9 DEF ReadTags
  <2>3. QED
    BY <1>9, <2>1, <2>2 DEF ReadTags
<1>10. CASE Upload(j)
  BY <1>10 DEF Upload
<1>11. CASE PutDocument(j)
  <2>1. version[j] \in Nat \ {0}
    BY <1>11 DEF PutDocument, VersionOK
  <2>2. QED
    BY <1>11, <2>1 DEF PutDocument
<1>12. CASE PutHint(j)
  BY <1>12 DEF PutHint
<1>13. CASE Prime(j)
  BY <1>13 DEF Prime
<1>14. CASE Respond(j)
  BY <1>14, EndType DEF Respond
<1>15. QED
  BY <1>1, <1>2, <1>3, <1>4, <1>5, <1>6, <1>7, <1>8, <1>9, <1>10, <1>11, <1>12,
     <1>13, <1>14 DEF Load

LEMMA TypeStep ==
    ASSUME TypeOK, \A j \in Jobs : VersionOK(j), [Next]_vars
    PROVE  TypeOK'
<1>1. CASE UNCHANGED vars
  BY <1>1 DEF vars, TypeOK, catalog, bucket, locals
<1>2. ASSUME NEW j \in Jobs, Commit(j) PROVE TypeOK'
  BY <1>2, CommitType
<1>3. ASSUME NEW j \in Jobs, Load(j) PROVE TypeOK'
  BY <1>3, LoadType
<1>4. ASSUME NEW j \in Jobs, Fail(j) PROVE TypeOK'
  BY <1>4, EndType DEF Fail, TypeOK, catalog, bucket
<1>5. ASSUME NEW w \in Workers, Crash(w) PROVE TypeOK'
  <2>1. cache' \in [Workers -> Document] /\ puts' \in [Jobs -> SUBSET Nat]
    BY <1>5, NoneTypes DEF Crash, TypeOK
  <2>2. QED
    BY <1>5, <2>1, EndType DEF Crash, TypeOK, catalog, bucket
<1>6. CASE DirectCommit \/ ExpireOld
  <2>1. head' \in Nat /\ snaps' \subseteq Nat /\ tags' \subseteq TagRow /\ spec' \in BOOLEAN
    BY <1>6, ChangeType DEF DirectCommit, ExpireOld
  <2>2. Watch
    BY <1>6 DEF DirectCommit, ExpireOld
  <2>3. QED
    BY <1>6, <2>1, <2>2, WatchType DEF DirectCommit, ExpireOld, TypeOK, bucket, locals
<1>7. CASE OtherTableCommit
  BY <1>7 DEF OtherTableCommit, TypeOK, bucket, locals
<1>8. CASE Done
  BY <1>8 DEF Done, vars, TypeOK, catalog, bucket, locals
<1>9. QED
  BY <1>1, <1>2, <1>3, <1>4, <1>5, <1>6, <1>7, <1>8 DEF Next

----------------------------------------------------------------------------
(***************************************************************************)
(* Complete documents.                                                     *)
(***************************************************************************)

LEMMA ReadInit == Init => ReadInv
<1> SUFFICES ASSUME Init PROVE ReadInv
  OBVIOUS
<1>1. StoreOK
  <2>1. CASE Unpublished
    BY <2>1 DEF Unpublished, StoreOK, NoDocument
  <2>2. ASSUME NEW w \in Workers, PublishedBy(w) PROVE StoreOK
    BY <2>2 DEF PublishedBy, StoreOK, NoDocument
  <2>3. QED
    BY <2>1, <2>2 DEF Init
<1>2. ASSUME NEW j \in Jobs PROVE DocOK(j) /\ LocationOK(j) /\ VersionOK(j)
  BY DEF Init, DocOK, LocationOK, VersionOK, NoDocument, Assembling, Served, Loading
<1>3. QED
  BY <1>1, <1>2 DEF ReadInv

\* A step that is not of job i, and takes nothing from the store.
LEMMA OtherJob ==
    ASSUME NEW i \in Jobs, DocOK(i), LocationOK(i), VersionOK(i),
           pc'[i] = pc[i], doc'[i] = doc[i], location'[i] = location[i],
           version'[i] = version[i],
           objects \subseteq objects', objects \cup puts[i] \subseteq objects' \cup puts'[i],
           DOMAIN docs \subseteq DOMAIN docs'
    PROVE  DocOK(i)' /\ LocationOK(i)' /\ VersionOK(i)'
BY DEF DocOK, LocationOK, VersionOK

\* A job that is over, or has only to do with the catalog, has no document.
LEMMA NoJob ==
    ASSUME NEW i \in Jobs, LocationOK(i), VersionOK(i), DOMAIN docs \subseteq DOMAIN docs',
           \/ pc'[i] = "over" /\ doc'[i] = NoDocument /\ location'[i] = 0 /\ version'[i] = 0
           \/ pc[i] \in Committing /\ pc'[i] \in Committing /\ DocOK(i)
              /\ UNCHANGED <<doc, location, version>>
    PROVE  DocOK(i)' /\ LocationOK(i)' /\ VersionOK(i)'
BY DEF DocOK, LocationOK, VersionOK, NoDocument, Assembling, Served, Loading, Committing

\* The jobs in J end; the others go on with the uploads they have.
LEMMA EndRead ==
    ASSUME NEW J, End(J), UNCHANGED <<objects, docs>>,
           NEW i \in Jobs, DocOK(i), LocationOK(i), VersionOK(i),
           i \in J \/ puts'[i] = puts[i]
    PROVE  DocOK(i)' /\ LocationOK(i)' /\ VersionOK(i)'
<1>1. CASE i \in J
  BY <1>1, NoJob DEF End
<1>2. CASE i \notin J
  BY <1>2, OtherJob DEF End
<1>3. QED
  BY <1>1, <1>2

LEMMA LoadRead ==
    ASSUME TypeOK, ReadInv, NEW j \in Jobs, Load(j)
    PROVE  ReadInv'
<1> USE DEF catalog, bucket, locals
<1>1. CASE ResolveLocation(j)
  <2>1. StoreOK'
    BY <1>1 DEF ResolveLocation, ReadInv, StoreOK, TypeOK
  <2>2. DocOK(j)' /\ LocationOK(j)' /\ VersionOK(j)'
    <3>1. /\ pc[j] = "load" /\ pc'[j] = "list"
          /\ location'[j] = (IF hint = 0 THEN 1 ELSE hint)
          /\ UNCHANGED <<docs, doc, version>>
      BY <1>1 DEF ResolveLocation, TypeOK
    <3>2. QED
      BY <3>1 DEF ReadInv, StoreOK, DocOK, LocationOK, VersionOK,
       Assembling, Served, Loading
  <2>3. ASSUME NEW i \in Jobs, i # j PROVE DocOK(i)' /\ LocationOK(i)' /\ VersionOK(i)'
    BY <1>1, <2>3, OtherJob DEF ResolveLocation, ReadInv, TypeOK
  <2>4. QED
    BY <2>1, <2>2, <2>3 DEF ReadInv
<1>2. CASE ListSnapshots(j)
  <2>1. StoreOK'
    BY <1>2 DEF ListSnapshots, ReadInv, StoreOK, TypeOK
  <2>2. DocOK(j)' /\ LocationOK(j)' /\ VersionOK(j)'
    BY <1>2 DEF ListSnapshots, ReadInv, StoreOK, TypeOK, DocOK, LocationOK, VersionOK,
       Assembling, Served, Loading
  <2>3. ASSUME NEW i \in Jobs, i # j PROVE DocOK(i)' /\ LocationOK(i)' /\ VersionOK(i)'
    BY <1>2, <2>3, OtherJob DEF ListSnapshots, ReadInv, TypeOK
  <2>4. QED
    BY <2>1, <2>2, <2>3 DEF ReadInv
<1>3. CASE LookUpCache(j)
  <2>1. StoreOK'
    BY <1>3 DEF LookUpCache, ReadInv, StoreOK, TypeOK
  <2>2. DocOK(j)' /\ LocationOK(j)' /\ VersionOK(j)'
    BY <1>3 DEF LookUpCache, ReadInv, StoreOK, TypeOK, DocOK, LocationOK, VersionOK,
       Assembling, Served, Loading
  <2>3. ASSUME NEW i \in Jobs, i # j PROVE DocOK(i)' /\ LocationOK(i)' /\ VersionOK(i)'
    BY <1>3, <2>3, OtherJob DEF LookUpCache, ReadInv, TypeOK
  <2>4. QED
    BY <2>1, <2>2, <2>3 DEF ReadInv
<1>4. CASE ServeHit(j)
  <2>1. StoreOK'
    BY <1>4 DEF ServeHit, ReadInv, StoreOK, TypeOK
  <2>2. DocOK(j)' /\ LocationOK(j)' /\ VersionOK(j)'
    <3>1. /\ pc[j] = "hit" /\ pc'[j] = "answer"
          /\ doc'[j] = Overlay(doc[j])
          /\ UNCHANGED <<objects, docs, version, location>>
      BY <1>4 DEF ServeHit, TypeOK
    <3>2. doc'[j].snaps = doc[j].snaps
      BY <3>1, OverlayType DEF TypeOK
    <3>3. QED
      BY <3>1, <3>2 DEF ReadInv, StoreOK, DocOK, LocationOK, VersionOK,
       Assembling, Served, Loading
  <2>3. ASSUME NEW i \in Jobs, i # j PROVE DocOK(i)' /\ LocationOK(i)' /\ VersionOK(i)'
    BY <1>4, <2>3, OtherJob DEF ServeHit, ReadInv, TypeOK
  <2>4. QED
    BY <2>1, <2>2, <2>3 DEF ReadInv
<1>5. CASE ReadHint(j)
  <2>1. StoreOK'
    BY <1>5 DEF ReadHint, ReadInv, StoreOK, TypeOK
  <2>2. DocOK(j)' /\ LocationOK(j)' /\ VersionOK(j)'
    <3>1. /\ pc[j] = "hint" /\ pc'[j] = "latest"
          /\ version'[j] = hint + 1 /\ hint \in Nat
          /\ UNCHANGED <<docs, doc, location>>
      BY <1>5 DEF ReadHint, NextVersion, TypeOK
    <3>2. version'[j] # 0 /\ (version'[j] > 1 => hint # 0)
      BY <3>1
    <3>3. QED
      BY <3>1, <3>2 DEF ReadInv, StoreOK, DocOK, LocationOK, VersionOK,
       Assembling, Served, Loading
  <2>3. ASSUME NEW i \in Jobs, i # j PROVE DocOK(i)' /\ LocationOK(i)' /\ VersionOK(i)'
    BY <1>5, <2>3, OtherJob DEF ReadHint, ReadInv, TypeOK
  <2>4. QED
    BY <2>1, <2>2, <2>3 DEF ReadInv
<1>6. CASE ReadLatest(j)
  <2>1. StoreOK'
    BY <1>6 DEF ReadLatest, ReadInv, StoreOK, TypeOK
  <2>2. DocOK(j)' /\ LocationOK(j)' /\ VersionOK(j)'
    BY <1>6 DEF ReadLatest, ReadInv, StoreOK, TypeOK, DocOK, LocationOK, VersionOK,
       Assembling, Served, Loading
  <2>3. ASSUME NEW i \in Jobs, i # j PROVE DocOK(i)' /\ LocationOK(i)' /\ VersionOK(i)'
    BY <1>6, <2>3, OtherJob DEF ReadLatest, ReadInv, TypeOK
  <2>4. QED
    BY <2>1, <2>2, <2>3 DEF ReadInv
<1>7. CASE RefreshReused(j)
  <2>1. StoreOK'
    BY <1>7 DEF RefreshReused, ReadInv, StoreOK, TypeOK
  <2>2. DocOK(j)' /\ LocationOK(j)' /\ VersionOK(j)'
    <3>1. /\ pc[j] = "reuse" /\ pc'[j] = "prime"
          /\ doc'[j] = Overlay(doc[j])
          /\ UNCHANGED <<objects, docs, version, location>>
      BY <1>7 DEF RefreshReused, TypeOK
    <3>2. doc'[j].snaps = doc[j].snaps
      BY <3>1, OverlayType DEF TypeOK
    <3>3. QED
      BY <3>1, <3>2 DEF ReadInv, StoreOK, DocOK, LocationOK, VersionOK,
       Assembling, Served, Loading
  <2>3. ASSUME NEW i \in Jobs, i # j PROVE DocOK(i)' /\ LocationOK(i)' /\ VersionOK(i)'
    BY <1>7, <2>3, OtherJob DEF RefreshReused, ReadInv, TypeOK
  <2>4. QED
    BY <2>1, <2>2, <2>3 DEF ReadInv
<1>8. CASE PlanChain(j)
  <2>1. StoreOK'
    BY <1>8 DEF PlanChain, ReadInv, StoreOK, TypeOK
  <2>2. DocOK(j)' /\ LocationOK(j)' /\ VersionOK(j)'
    <3>1. /\ pc[j] = "plan" /\ pc'[j] = "tags"
          /\ doc'[j].snaps = listed[j] /\ puts'[j] = listed[j]
          /\ UNCHANGED <<docs, version, location>>
      BY <1>8 DEF PlanChain, Uploads, TypeOK
    <3>2. QED
      BY <3>1 DEF ReadInv, StoreOK, DocOK, LocationOK, VersionOK,
       Assembling, Served, Loading
  <2>3. ASSUME NEW i \in Jobs, i # j PROVE DocOK(i)' /\ LocationOK(i)' /\ VersionOK(i)'
    BY <1>8, <2>3, OtherJob DEF PlanChain, ReadInv, TypeOK
  <2>4. QED
    BY <2>1, <2>2, <2>3 DEF ReadInv
<1>9. CASE ReadTags(j)
  <2>1. StoreOK'
    BY <1>9 DEF ReadTags, ReadInv, StoreOK, TypeOK
  <2>2. DocOK(j)' /\ LocationOK(j)' /\ VersionOK(j)'
    BY <1>9 DEF ReadTags, ReadInv, StoreOK, TypeOK, DocOK, LocationOK, VersionOK,
       Assembling, Served, Loading
  <2>3. ASSUME NEW i \in Jobs, i # j PROVE DocOK(i)' /\ LocationOK(i)' /\ VersionOK(i)'
    BY <1>9, <2>3, OtherJob DEF ReadTags, ReadInv, TypeOK
  <2>4. QED
    BY <2>1, <2>2, <2>3 DEF ReadInv
<1>10. CASE Upload(j)
  <2>1. StoreOK'
    BY <1>10 DEF Upload, ReadInv, StoreOK, TypeOK
  <2>2. DocOK(j)' /\ LocationOK(j)' /\ VersionOK(j)'
    BY <1>10 DEF Upload, ReadInv, StoreOK, TypeOK, DocOK, LocationOK, VersionOK,
       Assembling, Served, Loading
  <2>3. ASSUME NEW i \in Jobs, i # j PROVE DocOK(i)' /\ LocationOK(i)' /\ VersionOK(i)'
    BY <1>10, <2>3, OtherJob DEF Upload, ReadInv, TypeOK
  <2>4. QED
    BY <2>1, <2>2, <2>3 DEF ReadInv
<1>11. CASE PutDocument(j)
  <2>1. /\ pc[j] = "puts" /\ pc'[j] = "publish"
        /\ DOMAIN docs' = DOMAIN docs \cup {version[j]}
        /\ \A v \in DOMAIN docs' : docs'[v] = IF v = version[j] THEN doc[j] ELSE docs[v]
        /\ UNCHANGED <<objects, hint, cache, location, version, doc, puts>>
    BY <1>11 DEF PutDocument, TypeOK
  <2>2. doc[j].snaps \subseteq objects
    BY <1>11, <2>1 DEF PutDocument, Uploaded, ReadInv, DocOK, Assembling
  <2>3. 1 \in DOMAIN docs'
    <3>1. version[j] \in Nat /\ version[j] # 0 /\ (version[j] > 1 => 1 \in DOMAIN docs)
      BY <2>1 DEF ReadInv, VersionOK, TypeOK
    <3>2. QED
      BY <2>1, <3>1
  <2>4. StoreOK'
    BY <2>1, <2>2, <2>3 DEF ReadInv, StoreOK
  <2>5. DocOK(j)' /\ LocationOK(j)' /\ VersionOK(j)'
    BY <2>1, <2>2, <2>3 DEF ReadInv, StoreOK, DocOK, LocationOK, VersionOK,
       Assembling, Served, Loading
  <2>6. ASSUME NEW i \in Jobs, i # j PROVE DocOK(i)' /\ LocationOK(i)' /\ VersionOK(i)'
    <3>1. pc'[i] = pc[i]
      BY <1>11, <2>6 DEF PutDocument, TypeOK
    <3>2. QED
      BY <2>1, <3>1, OtherJob DEF ReadInv
  <2>7. QED
    BY <2>4, <2>5, <2>6 DEF ReadInv
<1>12. CASE PutHint(j)
  <2>1. StoreOK'
    <3>1. hint' = version[j] /\ version[j] \in DOMAIN docs /\ UNCHANGED <<objects, docs, cache>>
      BY <1>12 DEF PutHint, ReadInv, VersionOK
    <3>2. QED
      BY <3>1 DEF ReadInv, StoreOK
  <2>2. DocOK(j)' /\ LocationOK(j)' /\ VersionOK(j)'
    BY <1>12 DEF PutHint, ReadInv, StoreOK, TypeOK, DocOK, LocationOK, VersionOK,
       Assembling, Served, Loading
  <2>3. ASSUME NEW i \in Jobs, i # j PROVE DocOK(i)' /\ LocationOK(i)' /\ VersionOK(i)'
    BY <1>12, <2>3, OtherJob DEF PutHint, ReadInv, TypeOK
  <2>4. QED
    BY <2>1, <2>2, <2>3 DEF ReadInv
<1>13. CASE Prime(j)
  <2>1. StoreOK'
    <3>1. doc[j].snaps \subseteq objects /\ (doc[j].snaps # {} => 1 \in DOMAIN docs)
      BY <1>13 DEF Prime, ReadInv, DocOK, Served
    <3>2. /\ \A w \in Workers : cache'[w] = IF w = home[j] THEN doc[j] ELSE cache[w]
          /\ UNCHANGED bucket
      BY <1>13 DEF Prime, TypeOK
    <3>3. QED
      BY <3>1, <3>2 DEF ReadInv, StoreOK
  <2>2. DocOK(j)' /\ LocationOK(j)' /\ VersionOK(j)'
    BY <1>13 DEF Prime, ReadInv, StoreOK, TypeOK, DocOK, LocationOK, VersionOK,
       Assembling, Served, Loading
  <2>3. ASSUME NEW i \in Jobs, i # j PROVE DocOK(i)' /\ LocationOK(i)' /\ VersionOK(i)'
    BY <1>13, <2>3, OtherJob DEF Prime, ReadInv, TypeOK
  <2>4. QED
    BY <2>1, <2>2, <2>3 DEF ReadInv
<1>14. CASE Respond(j)
  <2>1. StoreOK'
    BY <1>14 DEF Respond, ReadInv, StoreOK, TypeOK
  <2>2. ASSUME NEW i \in Jobs PROVE DocOK(i)' /\ LocationOK(i)' /\ VersionOK(i)'
    BY <1>14, EndRead DEF Respond, ReadInv
  <2>3. QED
    BY <2>1, <2>2 DEF ReadInv
<1>15. QED
  BY <1>1, <1>2, <1>3, <1>4, <1>5, <1>6, <1>7, <1>8, <1>9, <1>10, <1>11, <1>12,
     <1>13, <1>14 DEF Load

\* The catalog's own changes leave the store alone.
LEMMA CommitRead ==
    ASSUME TypeOK, ReadInv, NEW j \in Jobs, Commit(j)
    PROVE  ReadInv'
<1> USE DEF bucket, locals
<1>1. UNCHANGED <<bucket, locals>>
  BY DEF Commit, CommitChange, AlterPartitioning, CommitSidecar, Invalidate
<1>2. StoreOK'
  <2>1. \A w \in Workers : cache'[w] = cache[w] \/ cache'[w] = NoDocument
    BY DEF Commit, CommitChange, AlterPartitioning, CommitSidecar, Invalidate, TypeOK
  <2>2. QED
    BY <1>1, <2>1 DEF ReadInv, StoreOK, NoDocument
<1>3. pc[j] \in Committing /\ pc'[j] \in Committing
  BY DEF Commit, CommitChange, AlterPartitioning, CommitSidecar, Invalidate, TypeOK, Committing
<1>4. ASSUME NEW i \in Jobs, i # j PROVE pc'[i] = pc[i]
  BY <1>4 DEF Commit, CommitChange, AlterPartitioning, CommitSidecar, Invalidate, TypeOK
<1>5. ASSUME NEW i \in Jobs PROVE DocOK(i)' /\ LocationOK(i)' /\ VersionOK(i)'
  BY <1>1, <1>3, <1>4, NoJob, OtherJob DEF ReadInv
<1>6. QED
  BY <1>2, <1>5 DEF ReadInv

LEMMA ReadStep ==
    ASSUME TypeOK, ReadInv, [Next]_vars
    PROVE  ReadInv'
<1>1. CASE UNCHANGED <<bucket, cache, pc, locals>>
  <2>1. StoreOK'
    BY <1>1 DEF ReadInv, StoreOK, bucket
  <2>2. ASSUME NEW i \in Jobs PROVE DocOK(i)' /\ LocationOK(i)' /\ VersionOK(i)'
    BY <1>1, OtherJob DEF ReadInv, bucket, locals
  <2>3. QED
    BY <2>1, <2>2 DEF ReadInv
<1>2. ASSUME NEW j \in Jobs, Commit(j) PROVE ReadInv'
  BY <1>2, CommitRead
<1>3. ASSUME NEW j \in Jobs, Load(j) PROVE ReadInv'
  BY <1>3, LoadRead
<1>4. ASSUME NEW j \in Jobs, Fail(j) PROVE ReadInv'
  <2>1. StoreOK'
    BY <1>4 DEF Fail, ReadInv, StoreOK, bucket
  <2>2. ASSUME NEW i \in Jobs PROVE DocOK(i)' /\ LocationOK(i)' /\ VersionOK(i)'
    BY <1>4, EndRead DEF Fail, ReadInv, bucket
  <2>3. QED
    BY <2>1, <2>2 DEF ReadInv
<1>5. ASSUME NEW w \in Workers, Crash(w) PROVE ReadInv'
  <2>1. StoreOK'
    <3>1. \A u \in Workers : cache'[u] = cache[u] \/ cache'[u] = NoDocument
      BY <1>5 DEF Crash, TypeOK
    <3>2. QED
      BY <1>5, <3>1 DEF Crash, ReadInv, StoreOK, bucket, NoDocument
  <2>2. ASSUME NEW i \in Jobs PROVE DocOK(i)' /\ LocationOK(i)' /\ VersionOK(i)'
    <3>1. i \in { j \in Jobs : home[j] = w } \/ puts'[i] = puts[i]
      BY <1>5 DEF Crash
    <3>2. QED
      BY <1>5, <3>1, EndRead DEF Crash, ReadInv, bucket
  <2>3. QED
    BY <2>1, <2>2 DEF ReadInv
<1>6. QED
  BY <1>1, <1>2, <1>3, <1>4, <1>5
     DEF Next, vars, DirectCommit, ExpireOld, OtherTableCommit, Done

----------------------------------------------------------------------------
(***************************************************************************)
(* Fresh answers.                                                          *)
(***************************************************************************)

\* What a step does to the list of snapshots: it adds the next id, or some go.
Advances(h, C, h2, C2) ==
    \/ h2 = h /\ C2 \subseteq C
    \/ h2 = h + 1 /\ C2 \subseteq C \cup {h + 1}

LEMMA UpToKept ==
    ASSUME NEW S \in SUBSET Nat, NEW h \in Nat, NEW C \in SUBSET Nat, NEW h2, NEW C2,
           UpTo(S, h, C), Advances(h, C, h2, C2)
    PROVE  UpTo(S, h2, C2)
<1>1. CASE h2 = h /\ C2 \subseteq C
  BY <1>1 DEF UpTo
<1>2. CASE h2 = h + 1 /\ C2 \subseteq C \cup {h + 1}
  <2>1. \A t \in S : t <= h /\ t <= h2 /\ ~ (h + 1 <= t)
    BY <1>2 DEF UpTo
  <2>2. QED
    BY <1>2, <2>1 DEF UpTo
<1>3. QED
  BY <1>1, <1>2 DEF Advances

LEMMA UpToEmpty == \A h, C : UpTo({}, h, C)
BY DEF UpTo

\* Every document, cache and list stays UpTo when the catalog advances and
\* nothing but them, or nothing, is kept.
LEMMA ListedKept ==
    ASSUME TypeOK, ListedOK, Advances(head, snaps, head', snaps'), docs' = docs,
           \A w \in Workers : cache'[w] = cache[w] \/ cache'[w] = NoDocument,
           \A j \in Jobs : /\ listed'[j] = listed[j] \/ listed'[j] = {}
                           /\ doc'[j] = doc[j] \/ doc'[j] = NoDocument
    PROVE  ListedOK'
<1> USE DEF TypeOK
<1>1. \A s \in snaps' : s <= head'
  BY DEF ListedOK, Advances
<1>2. ASSUME NEW v \in DOMAIN docs' PROVE UpTo(docs'[v].snaps, head', snaps')
  <2>1. docs[v].snaps \in SUBSET Nat /\ UpTo(docs[v].snaps, head, snaps)
    BY DEF ListedOK, Document
  <2>2. QED
    BY <2>1, UpToKept
<1>3. ASSUME NEW w \in Workers PROVE UpTo(cache'[w].snaps, head', snaps')
  <2>1. cache[w].snaps \in SUBSET Nat /\ UpTo(cache[w].snaps, head, snaps)
    BY DEF ListedOK, Document
  <2>2. UpTo(cache[w].snaps, head', snaps')
    BY <2>1, UpToKept
  <2>3. cache'[w] = cache[w] \/ cache'[w] = NoDocument
    OBVIOUS
  <2>4. UpTo(NoDocument.snaps, head', snaps')
    BY UpToEmpty DEF NoDocument
  <2>5. QED
    BY <2>2, <2>3, <2>4
<1>4. ASSUME NEW j \in Jobs PROVE UpTo(listed'[j], head', snaps')
  <2>1. listed[j] \in SUBSET Nat /\ UpTo(listed[j], head, snaps)
    BY DEF ListedOK
  <2>2. UpTo(listed[j], head', snaps')
    BY <2>1, UpToKept
  <2>3. listed'[j] = listed[j] \/ listed'[j] = {}
    OBVIOUS
  <2>4. UpTo({}, head', snaps')
    BY UpToEmpty
  <2>5. QED
    BY <2>2, <2>3, <2>4
<1>5. ASSUME NEW j \in Jobs PROVE UpTo(doc'[j].snaps, head', snaps')
  <2>1. doc[j].snaps \in SUBSET Nat /\ UpTo(doc[j].snaps, head, snaps)
    BY DEF ListedOK, Document
  <2>2. UpTo(doc[j].snaps, head', snaps')
    BY <2>1, UpToKept
  <2>3. doc'[j] = doc[j] \/ doc'[j] = NoDocument
    OBVIOUS
  <2>4. UpTo(NoDocument.snaps, head', snaps')
    BY UpToEmpty DEF NoDocument
  <2>5. QED
    BY <2>2, <2>3, <2>4
<1>6. QED
  BY <1>1, <1>2, <1>3, <1>4, <1>5 DEF ListedOK

LEMMA FreshInit == Init => FreshInv
<1> SUFFICES ASSUME Init PROVE FreshInv
  OBVIOUS
<1>1. head = 1 /\ snaps = {1} /\ UpTo({1}, head, snaps) /\ UpTo({}, head, snaps)
  BY DEF Init, UpTo
<1>2. /\ \A v \in DOMAIN docs : UpTo(docs[v].snaps, head, snaps)
      /\ \A w \in Workers : UpTo(cache[w].snaps, head, snaps)
  <2>1. CASE Unpublished
    BY <1>1, <2>1 DEF Unpublished, NoDocument
  <2>2. ASSUME NEW w \in Workers, PublishedBy(w) PROVE <1>2
    BY <1>1, <2>2 DEF PublishedBy, NoDocument
  <2>3. QED
    BY <2>1, <2>2 DEF Init
<1>3. ListedOK
  <2>1. \A j \in Jobs : listed[j] = {} /\ doc[j].snaps = {}
    BY DEF Init, NoDocument
  <2>2. \A s \in snaps : s <= head
    BY <1>1
  <2>3. QED
    BY <1>1, <1>2, <2>1, <2>2 DEF ListedOK
<1>4. ASSUME NEW j \in Jobs PROVE FreshOK(j) /\ TagsOK(j)
  BY DEF Init, FreshOK, TagsOK, Assembling, Served, Loading
<1>5. QED
  BY <1>3, <1>4 DEF FreshInv

\* A non-empty bounded set of naturals has a greatest element.
LEMMA MaxExists ==
    ASSUME NEW S \in SUBSET Nat, S # {}, NEW b \in Nat, \A m \in S : m <= b
    PROVE  \E n \in S : \A m \in S : m <= n
<1> DEFINE R == { ss \in Nat \X Nat : ss[1] < ss[2] }
           U == { k \in Nat : \A m \in S : m <= k }
<1>1. PICK k \in U : \A j \in U : ~ (<<j, k>> \in R)
  <2>1. U # {} /\ U \subseteq Nat
    OBVIOUS
  <2>2. IsWellFoundedOn(R, Nat)
    BY NatLessThanWellFounded DEF OpToRel
  <2> HIDE DEF R, U
  <2>3. QED
    BY <2>1, <2>2, WFMin
<1>2. ASSUME NEW j \in U PROVE k <= j
  <2>1. <<j, k>> \in Nat \X Nat /\ <<j, k>>[1] = j /\ <<j, k>>[2] = k
    OBVIOUS
  <2>2. ~ (j < k)
    BY <1>1, <2>1
  <2>3. QED
    BY <2>2
<1>3. k \in S
  <2>1. SUFFICES ASSUME k \notin S PROVE FALSE
    OBVIOUS
  <2>2. \A m \in S : m <= k /\ m # k
    BY <2>1
  <2>3. PICK m \in S : m <= k /\ m # k
    BY <2>2
  <2>4. k - 1 \in U
    BY <2>2, <2>3
  <2>5. QED
    BY <1>2, <2>4
<1>4. QED
  BY <1>3

LEMMA NewestIsLast ==
    ASSUME NEW S \in SUBSET Nat, S # {}, NEW b \in Nat, \A s \in S : s <= b
    PROVE  Newest(S) \in S /\ \A s \in S : s <= Newest(S)
BY MaxExists DEF Newest

\* A document that shows the newest of the listed snapshots shows all those
\* that have been there all the while.
LEMMA ReusableIsFresh ==
    ASSUME TypeOK, NEW j \in Jobs, FreshOK(j), pc[j] \in {"cache", "latest"},
           UpTo(listed[j], head, snaps),
           NEW d \in Document, UpTo(d.snaps, head, snaps), Reusable(d, listed[j])
    PROVE  throughout[j].snaps \subseteq d.snaps
<1> SUFFICES ASSUME NEW s \in throughout[j].snaps PROVE s \in d.snaps
  OBVIOUS
<1>1. s \in snaps /\ s \in listed[j]
  BY DEF FreshOK, Loading
<1>2. listed[j] \in SUBSET Nat /\ d.snaps \in SUBSET Nat /\ head \in Nat
  BY DEF TypeOK, Document
<1>3. s <= Newest(listed[j])
  <2>1. \A t \in listed[j] : t <= head
    BY DEF UpTo
  <2>2. QED
    BY <1>1, <1>2, <2>1, NewestIsLast
<1>4. Newest(d.snaps) \in d.snaps /\ Newest(d.snaps) = Newest(listed[j])
  <2>1. d.snaps # {} /\ Newest(d.snaps) = Newest(listed[j])
    BY DEF Reusable, IsAt
  <2>2. \A t \in d.snaps : t <= head
    BY DEF UpTo
  <2>3. QED
    BY <1>2, <2>1, <2>2, NewestIsLast
<1>5. QED
  BY <1>1, <1>3, <1>4 DEF UpTo

\* A step that is not of job i, and does not change the catalog.
LEMMA OtherFresh ==
    ASSUME NEW i \in Jobs, FreshOK(i), TagsOK(i), pc'[i] = pc[i], doc'[i] = doc[i],
           listed'[i] = listed[i], throughout'[i] = throughout[i], snaps' = snaps, tags' = tags
    PROVE  FreshOK(i)' /\ TagsOK(i)'
BY DEF FreshOK, TagsOK

\* A change of the catalog that loads watch.
LEMMA WatchFresh ==
    ASSUME TypeOK, Watch, NEW i \in Jobs, FreshOK(i), TagsOK(i), doc'[i] = doc[i],
           listed'[i] = listed[i],
           pc'[i] = pc[i] \/ pc'[i] \in Committing
    PROVE  FreshOK(i)' /\ TagsOK(i)'
<1>1. CASE pc'[i] \in Committing
  BY <1>1 DEF FreshOK, TagsOK, Committing, Loading, Assembling, Served
<1>2. CASE pc'[i] = pc[i]
  <2>1. CASE pc[i] \in Loading
    <3>1. /\ throughout'[i].snaps = throughout[i].snaps \cap snaps'
          /\ throughout'[i].tags = throughout[i].tags \cap tags'
      BY <2>1 DEF Watch, TypeOK
    <3>2. QED
      BY <1>2, <2>1, <3>1 DEF FreshOK, TagsOK
  <2>2. CASE pc[i] \notin Loading
    <3>1. throughout'[i] = throughout[i]
      BY <2>2 DEF Watch
    <3>2. QED
      BY <1>2, <2>2, <3>1 DEF FreshOK, TagsOK, Assembling, Served, Loading
  <2>3. QED
    BY <2>1, <2>2
<1>3. QED
  BY <1>1, <1>2

LEMMA EndFresh ==
    ASSUME NEW J, End(J), snaps' = snaps, tags' = tags,
           NEW i \in Jobs, FreshOK(i), TagsOK(i)
    PROVE  FreshOK(i)' /\ TagsOK(i)'
<1>1. CASE i \in J
  BY <1>1 DEF End, FreshOK, TagsOK, Loading, Assembling, Served
<1>2. CASE i \notin J
  BY <1>2, OtherFresh DEF End
<1>3. QED
  BY <1>1, <1>2

\* Which changes of the catalog there are.
LEMMA ChangeAdvances ==
    ASSUME TypeOK,
           \/ NewSnapshot
           \/ \E row \in TagRow : SetTag(row)
           \/ \E name \in TagNames : RemoveTag(name)
           \/ \E ids : Expire(ids)
           \/ UNCHANGED <<head, snaps>>
    PROVE  Advances(head, snaps, head', snaps')
BY DEF NewSnapshot, SetTag, RemoveTag, Expire, Advances

LEMMA CommitFresh ==
    ASSUME TypeOK, FreshInv, NEW j \in Jobs, Commit(j)
    PROVE  FreshInv'
<1>1. Advances(head, snaps, head', snaps')
  <2>1. \A row \in [name : TagNames, snap : snaps] : row \in TagRow
    BY DEF TypeOK, TagRow
  <2>2. QED
    BY <2>1, ChangeAdvances
       DEF Commit, CommitChange, AlterPartitioning, CommitSidecar, Invalidate, catalog
<1>2. ListedOK'
  <2>1. \A w \in Workers : cache'[w] = cache[w] \/ cache'[w] = NoDocument
    BY DEF Commit, CommitChange, AlterPartitioning, CommitSidecar, Invalidate, TypeOK
  <2>2. UNCHANGED <<docs, listed, doc>>
    BY DEF Commit, CommitChange, AlterPartitioning, CommitSidecar, Invalidate, bucket, locals
  <2>3. QED
    BY <1>1, <2>1, <2>2, ListedKept DEF FreshInv
<1>3. ASSUME NEW i \in Jobs PROVE FreshOK(i)' /\ TagsOK(i)'
  <2>1. pc'[i] = pc[i] \/ pc'[i] \in Committing
    BY DEF Commit, CommitChange, AlterPartitioning, CommitSidecar, Invalidate, TypeOK, Committing
  <2>2. UNCHANGED <<listed, doc>>
    BY DEF Commit, CommitChange, AlterPartitioning, CommitSidecar, Invalidate, locals
  <2>3. CASE Watch
    BY <2>1, <2>2, <2>3, WatchFresh DEF FreshInv
  <2>4. CASE Invalidate(j)
    <3>1. UNCHANGED <<snaps, tags, throughout>>
      BY <2>4 DEF Invalidate, catalog
    <3>2. CASE pc'[i] \in Committing
      BY <3>2 DEF FreshOK, TagsOK, Committing, Loading, Assembling, Served
    <3>3. QED
      BY <2>1, <2>2, <3>1, <3>2, OtherFresh DEF FreshInv
  <2>5. QED
    BY <2>3, <2>4 DEF Commit, CommitChange, AlterPartitioning, CommitSidecar
<1>4. QED
  BY <1>2, <1>3 DEF FreshInv

LEMMA LoadFresh ==
    ASSUME TypeOK, FreshInv, NEW j \in Jobs, Load(j)
    PROVE  FreshInv'
<1> USE DEF catalog, bucket, locals
<1>0. UNCHANGED <<head, snaps, tags>>
  BY DEF Load, ResolveLocation, ListSnapshots, LookUpCache, ServeHit, ReadHint, ReadLatest,
     RefreshReused, PlanChain, ReadTags, Upload, PutDocument, PutHint, Prime, Respond
<1>1. CASE ResolveLocation(j)
  <2>1. ListedOK'
    BY <1>0, <1>1 DEF ResolveLocation, FreshInv, ListedOK, TypeOK
  <2>2. FreshOK(j)' /\ TagsOK(j)'
    BY <1>0, <1>1 DEF ResolveLocation, FreshInv, TypeOK, FreshOK, TagsOK, Assembling, Served, Loading
  <2>3. ASSUME NEW i \in Jobs, i # j PROVE FreshOK(i)' /\ TagsOK(i)'
    BY <1>0, <1>1, <2>3, OtherFresh DEF ResolveLocation, FreshInv, TypeOK
  <2>4. QED
    BY <2>1, <2>2, <2>3 DEF FreshInv
<1>2. CASE ListSnapshots(j)
  <2>1. ListedOK'
    <3>1. \A i \in Jobs : listed'[i] = IF i = j THEN snaps ELSE listed[i]
      BY <1>2 DEF ListSnapshots, TypeOK
    <3>2. UpTo(snaps, head, snaps)
      BY DEF FreshInv, ListedOK, UpTo
    <3>3. QED
      BY <1>0, <1>2, <3>1, <3>2 DEF ListSnapshots, FreshInv, ListedOK
  <2>2. FreshOK(j)' /\ TagsOK(j)'
    BY <1>0, <1>2 DEF ListSnapshots, FreshInv, TypeOK, FreshOK, TagsOK, Assembling, Served, Loading
  <2>3. ASSUME NEW i \in Jobs, i # j PROVE FreshOK(i)' /\ TagsOK(i)'
    BY <1>0, <1>2, <2>3, OtherFresh DEF ListSnapshots, FreshInv, TypeOK
  <2>4. QED
    BY <2>1, <2>2, <2>3 DEF FreshInv
<1>3. CASE LookUpCache(j)
  <2>1. ListedOK'
    <3>1. \A i \in Jobs : doc'[i] = doc[i] \/ (\E w \in Workers : doc'[i] = cache[w])
      BY <1>3 DEF LookUpCache, TypeOK
    <3>2. QED
      BY <1>0, <1>3, <3>1 DEF LookUpCache, FreshInv, ListedOK
  <2>2. FreshOK(j)' /\ TagsOK(j)'
    <3>1. CASE Reusable(cache[home[j]], listed[j])
      <4>1. /\ pc[j] = "cache" /\ pc'[j] = "hit" /\ doc'[j] = cache[home[j]]
            /\ UNCHANGED <<listed, throughout>>
        BY <1>3, <3>1 DEF LookUpCache, TypeOK
      <4>2. /\ cache[home[j]] \in Document /\ UpTo(cache[home[j]].snaps, head, snaps)
            /\ UpTo(listed[j], head, snaps) /\ FreshOK(j) /\ TagsOK(j)
        BY DEF FreshInv, ListedOK, TypeOK
      <4>3. throughout[j].snaps \subseteq doc'[j].snaps
        BY <3>1, <4>1, <4>2, ReusableIsFresh
      <4>4. QED
        BY <1>0, <4>1, <4>2, <4>3 DEF FreshOK, TagsOK, Assembling, Served, Loading
    <3>2. CASE ~ Reusable(cache[home[j]], listed[j])
      <4>1. pc[j] = "cache" /\ pc'[j] = "hint" /\ UNCHANGED <<listed, throughout>>
        BY <1>3, <3>2 DEF LookUpCache, TypeOK
      <4>2. QED
        BY <1>0, <4>1 DEF FreshInv, FreshOK, TagsOK, Assembling, Served, Loading
    <3>3. QED
      BY <3>1, <3>2
  <2>3. ASSUME NEW i \in Jobs, i # j PROVE FreshOK(i)' /\ TagsOK(i)'
    BY <1>0, <1>3, <2>3, OtherFresh DEF LookUpCache, FreshInv, TypeOK
  <2>4. QED
    BY <2>1, <2>2, <2>3 DEF FreshInv
<1>4. CASE ServeHit(j)
  <2>1. ListedOK'
    <3>1. /\ doc' = [doc EXCEPT ![j] = Overlay(@)]
          /\ UNCHANGED <<docs, cache, listed>>
      BY <1>4 DEF ServeHit
    <3>2. \A i \in Jobs : doc'[i].snaps = doc[i].snaps
      BY <3>1, OverlayType DEF TypeOK
    <3>3. QED
      BY <1>0, <3>1, <3>2 DEF FreshInv, ListedOK
  <2>2. FreshOK(j)' /\ TagsOK(j)'
    <3>1. /\ pc[j] = "hit" /\ pc'[j] = "answer"
          /\ doc'[j] = Overlay(doc[j])
          /\ UNCHANGED <<listed, throughout>>
      BY <1>4 DEF ServeHit, TypeOK
    <3>2. doc'[j].snaps = doc[j].snaps /\ tags \subseteq doc'[j].tags
      BY <3>1, OverlayType DEF TypeOK
    <3>3. QED
      BY <1>0, <3>1, <3>2 DEF FreshInv, FreshOK, TagsOK, Assembling, Served, Loading
  <2>3. ASSUME NEW i \in Jobs, i # j PROVE FreshOK(i)' /\ TagsOK(i)'
    BY <1>0, <1>4, <2>3, OtherFresh DEF ServeHit, FreshInv, TypeOK
  <2>4. QED
    BY <2>1, <2>2, <2>3 DEF FreshInv
<1>5. CASE ReadHint(j)
  <2>1. ListedOK'
    BY <1>0, <1>5 DEF ReadHint, FreshInv, ListedOK, TypeOK
  <2>2. FreshOK(j)' /\ TagsOK(j)'
    BY <1>0, <1>5 DEF ReadHint, FreshInv, TypeOK, FreshOK, TagsOK, Assembling, Served, Loading
  <2>3. ASSUME NEW i \in Jobs, i # j PROVE FreshOK(i)' /\ TagsOK(i)'
    BY <1>0, <1>5, <2>3, OtherFresh DEF ReadHint, FreshInv, TypeOK
  <2>4. QED
    BY <2>1, <2>2, <2>3 DEF FreshInv
<1>6. CASE ReadLatest(j)
  <2>1. ListedOK'
    <3>1. \A i \in Jobs : doc'[i] = doc[i] \/ (\E v \in DOMAIN docs : doc'[i] = docs[v])
      BY <1>6 DEF ReadLatest, TypeOK
    <3>2. QED
      BY <1>0, <1>6, <3>1 DEF ReadLatest, FreshInv, ListedOK
  <2>2. FreshOK(j)' /\ TagsOK(j)'
    <3> DEFINE v == IF version[j] > 1 THEN version[j] - 1 ELSE version[j]
    <3>1. CASE v \in DOMAIN docs /\ Reusable(docs[v], listed[j])
      <4>1. /\ pc[j] = "latest" /\ pc'[j] = "reuse" /\ doc'[j] = docs[v]
            /\ UNCHANGED <<listed, throughout>>
        BY <1>6, <3>1 DEF ReadLatest, TypeOK
      <4>2. /\ docs[v] \in Document /\ UpTo(docs[v].snaps, head, snaps)
            /\ UpTo(listed[j], head, snaps) /\ FreshOK(j) /\ TagsOK(j)
        BY <3>1 DEF FreshInv, ListedOK, TypeOK
      <4> HIDE DEF v
      <4>3. throughout[j].snaps \subseteq doc'[j].snaps
        BY <3>1, <4>1, <4>2, ReusableIsFresh
      <4>4. QED
        BY <1>0, <4>1, <4>2, <4>3 DEF FreshOK, TagsOK, Assembling, Served, Loading
    <3>2. CASE ~ (v \in DOMAIN docs /\ Reusable(docs[v], listed[j]))
      <4>1. pc[j] = "latest" /\ pc'[j] = "plan" /\ UNCHANGED <<listed, throughout>>
        BY <1>6, <3>2 DEF ReadLatest, TypeOK
      <4>2. QED
        BY <1>0, <4>1 DEF FreshInv, FreshOK, TagsOK, Assembling, Served, Loading
    <3>3. QED
      BY <3>1, <3>2
  <2>3. ASSUME NEW i \in Jobs, i # j PROVE FreshOK(i)' /\ TagsOK(i)'
    BY <1>0, <1>6, <2>3, OtherFresh DEF ReadLatest, FreshInv, TypeOK
  <2>4. QED
    BY <2>1, <2>2, <2>3 DEF FreshInv
<1>7. CASE RefreshReused(j)
  <2>1. ListedOK'
    <3>1. /\ doc' = [doc EXCEPT ![j] = Overlay(@)]
          /\ UNCHANGED <<docs, cache, listed>>
      BY <1>7 DEF RefreshReused
    <3>2. \A i \in Jobs : doc'[i].snaps = doc[i].snaps
      BY <3>1, OverlayType DEF TypeOK
    <3>3. QED
      BY <1>0, <3>1, <3>2 DEF FreshInv, ListedOK
  <2>2. FreshOK(j)' /\ TagsOK(j)'
    <3>1. /\ pc[j] = "reuse" /\ pc'[j] = "prime"
          /\ doc'[j] = Overlay(doc[j])
          /\ UNCHANGED <<listed, throughout>>
      BY <1>7 DEF RefreshReused, TypeOK
    <3>2. doc'[j].snaps = doc[j].snaps /\ tags \subseteq doc'[j].tags
      BY <3>1, OverlayType DEF TypeOK
    <3>3. QED
      BY <1>0, <3>1, <3>2 DEF FreshInv, FreshOK, TagsOK, Assembling, Served, Loading
  <2>3. ASSUME NEW i \in Jobs, i # j PROVE FreshOK(i)' /\ TagsOK(i)'
    BY <1>0, <1>7, <2>3, OtherFresh DEF RefreshReused, FreshInv, TypeOK
  <2>4. QED
    BY <2>1, <2>2, <2>3 DEF FreshInv
<1>8. CASE PlanChain(j)
  <2>1. ListedOK'
    BY <1>0, <1>8 DEF PlanChain, FreshInv, ListedOK, TypeOK
  <2>2. FreshOK(j)' /\ TagsOK(j)'
    BY <1>0, <1>8 DEF PlanChain, FreshInv, TypeOK, FreshOK, TagsOK, Assembling, Served, Loading
  <2>3. ASSUME NEW i \in Jobs, i # j PROVE FreshOK(i)' /\ TagsOK(i)'
    BY <1>0, <1>8, <2>3, OtherFresh DEF PlanChain, FreshInv, TypeOK
  <2>4. QED
    BY <2>1, <2>2, <2>3 DEF FreshInv
<1>9. CASE ReadTags(j)
  <2>1. ListedOK'
    BY <1>0, <1>9 DEF ReadTags, FreshInv, ListedOK, TypeOK
  <2>2. FreshOK(j)' /\ TagsOK(j)'
    BY <1>0, <1>9 DEF ReadTags, FreshInv, TypeOK, FreshOK, TagsOK, Assembling, Served, Loading
  <2>3. ASSUME NEW i \in Jobs, i # j PROVE FreshOK(i)' /\ TagsOK(i)'
    BY <1>0, <1>9, <2>3, OtherFresh DEF ReadTags, FreshInv, TypeOK
  <2>4. QED
    BY <2>1, <2>2, <2>3 DEF FreshInv
<1>10. CASE Upload(j)
  <2>1. ListedOK'
    BY <1>0, <1>10 DEF Upload, FreshInv, ListedOK, TypeOK
  <2>2. FreshOK(j)' /\ TagsOK(j)'
    BY <1>0, <1>10 DEF Upload, FreshInv, TypeOK, FreshOK, TagsOK, Assembling, Served, Loading
  <2>3. ASSUME NEW i \in Jobs, i # j PROVE FreshOK(i)' /\ TagsOK(i)'
    BY <1>0, <1>10, <2>3, OtherFresh DEF Upload, FreshInv, TypeOK
  <2>4. QED
    BY <2>1, <2>2, <2>3 DEF FreshInv
<1>11. CASE PutDocument(j)
  <2>1. ListedOK'
    BY <1>0, <1>11 DEF PutDocument, FreshInv, ListedOK, TypeOK
  <2>2. FreshOK(j)' /\ TagsOK(j)'
    BY <1>0, <1>11 DEF PutDocument, FreshInv, TypeOK, FreshOK, TagsOK, Assembling, Served, Loading
  <2>3. ASSUME NEW i \in Jobs, i # j PROVE FreshOK(i)' /\ TagsOK(i)'
    BY <1>0, <1>11, <2>3, OtherFresh DEF PutDocument, FreshInv, TypeOK
  <2>4. QED
    BY <2>1, <2>2, <2>3 DEF FreshInv
<1>12. CASE PutHint(j)
  <2>1. ListedOK'
    BY <1>0, <1>12 DEF PutHint, FreshInv, ListedOK, TypeOK
  <2>2. FreshOK(j)' /\ TagsOK(j)'
    BY <1>0, <1>12 DEF PutHint, FreshInv, TypeOK, FreshOK, TagsOK, Assembling, Served, Loading
  <2>3. ASSUME NEW i \in Jobs, i # j PROVE FreshOK(i)' /\ TagsOK(i)'
    BY <1>0, <1>12, <2>3, OtherFresh DEF PutHint, FreshInv, TypeOK
  <2>4. QED
    BY <2>1, <2>2, <2>3 DEF FreshInv
<1>13. CASE Prime(j)
  <2>1. ListedOK'
    BY <1>0, <1>13 DEF Prime, FreshInv, ListedOK, TypeOK
  <2>2. FreshOK(j)' /\ TagsOK(j)'
    BY <1>0, <1>13 DEF Prime, FreshInv, TypeOK, FreshOK, TagsOK, Assembling, Served, Loading
  <2>3. ASSUME NEW i \in Jobs, i # j PROVE FreshOK(i)' /\ TagsOK(i)'
    BY <1>0, <1>13, <2>3, OtherFresh DEF Prime, FreshInv, TypeOK
  <2>4. QED
    BY <2>1, <2>2, <2>3 DEF FreshInv
<1>14. CASE Respond(j)
  <2>1. ListedOK'
    <3>1. \A i \in Jobs : /\ listed'[i] = listed[i] \/ listed'[i] = {}
                          /\ doc'[i] = doc[i] \/ doc'[i] = NoDocument
      BY <1>14 DEF Respond, End
    <3>2. QED
      BY <1>14, <3>1, ListedKept DEF Respond, FreshInv, Advances
  <2>2. ASSUME NEW i \in Jobs PROVE FreshOK(i)' /\ TagsOK(i)'
    BY <1>14, EndFresh DEF Respond, FreshInv
  <2>3. QED
    BY <2>1, <2>2 DEF FreshInv
<1>15. QED
  BY <1>1, <1>2, <1>3, <1>4, <1>5, <1>6, <1>7, <1>8, <1>9, <1>10, <1>11, <1>12,
     <1>13, <1>14 DEF Load

LEMMA FreshStep ==
    ASSUME TypeOK, FreshInv, [Next]_vars
    PROVE  FreshInv'
<1>1. CASE UNCHANGED vars
  <2>1. ListedOK'
    BY <1>1, ListedKept DEF vars, catalog, bucket, locals, FreshInv, Advances
  <2>2. ASSUME NEW i \in Jobs PROVE FreshOK(i)' /\ TagsOK(i)'
    BY <1>1, OtherFresh DEF vars, catalog, locals, FreshInv
  <2>3. QED
    BY <2>1, <2>2 DEF FreshInv
<1>2. ASSUME NEW j \in Jobs, Commit(j) PROVE FreshInv'
  BY <1>2, CommitFresh
<1>3. ASSUME NEW j \in Jobs, Load(j) PROVE FreshInv'
  BY <1>3, LoadFresh
<1>4. ASSUME NEW J, End(J), UNCHANGED <<catalog, bucket>>,
             \A w \in Workers : cache'[w] = cache[w] \/ cache'[w] = NoDocument
      PROVE  FreshInv'
  <2>1. ListedOK'
    <3>1. \A i \in Jobs : /\ listed'[i] = listed[i] \/ listed'[i] = {}
                          /\ doc'[i] = doc[i] \/ doc'[i] = NoDocument
      BY <1>4 DEF End
    <3>2. QED
      BY <1>4, <3>1, ListedKept DEF catalog, bucket, FreshInv, Advances
  <2>2. ASSUME NEW i \in Jobs PROVE FreshOK(i)' /\ TagsOK(i)'
    BY <1>4, EndFresh DEF catalog, FreshInv
  <2>3. QED
    BY <2>1, <2>2 DEF FreshInv
<1>5. ASSUME NEW j \in Jobs, Fail(j) PROVE FreshInv'
  BY <1>4, <1>5 DEF Fail
<1>6. ASSUME NEW w \in Workers, Crash(w) PROVE FreshInv'
  <2>1. \A u \in Workers : cache'[u] = cache[u] \/ cache'[u] = NoDocument
    BY <1>6 DEF Crash, TypeOK
  <2>2. QED
    BY <1>4, <1>6, <2>1 DEF Crash
<1>7. CASE DirectCommit \/ ExpireOld
  <2>1. Watch /\ UNCHANGED <<bucket, cache, pc, locals>>
    BY <1>7 DEF DirectCommit, ExpireOld
  <2>2. Advances(head, snaps, head', snaps')
    BY <1>7, ChangeAdvances DEF DirectCommit, ExpireOld
  <2>3. ListedOK'
    BY <2>1, <2>2, ListedKept DEF bucket, locals, FreshInv
  <2>4. ASSUME NEW i \in Jobs PROVE FreshOK(i)' /\ TagsOK(i)'
    BY <2>1, WatchFresh DEF locals, FreshInv
  <2>5. QED
    BY <2>3, <2>4 DEF FreshInv
<1>8. CASE OtherTableCommit
  <2>1. ListedOK'
    BY <1>8, ListedKept DEF OtherTableCommit, bucket, locals, FreshInv, Advances
  <2>2. ASSUME NEW i \in Jobs PROVE FreshOK(i)' /\ TagsOK(i)'
    BY <1>8, OtherFresh DEF OtherTableCommit, locals, FreshInv
  <2>3. QED
    BY <2>1, <2>2 DEF FreshInv
<1>9. QED
  BY <1>1, <1>2, <1>3, <1>5, <1>6, <1>7, <1>8 DEF Next, Done

----------------------------------------------------------------------------
(***************************************************************************)
(* The theorems.                                                           *)
(***************************************************************************)

\* The inductive invariant: what is published and cached is complete and was
\* listed at one moment, and what a job has assembled or found covers all that
\* has been there since it began.
THEOREM Invariance == Spec => []IInv
<1>1. Init => IInv
  BY InitType, ReadInit, FreshInit DEF IInv
<1>2. IInv /\ [Next]_vars => IInv'
  <2>1. SUFFICES ASSUME IInv, [Next]_vars PROVE IInv'
    OBVIOUS
  <2>2. \A j \in Jobs : VersionOK(j)
    BY <2>1 DEF IInv, ReadInv
  <2>3. TypeOK' /\ ReadInv' /\ FreshInv'
    BY <2>1, <2>2, TypeStep, ReadStep, FreshStep DEF IInv
  <2>4. QED
    BY <2>3 DEF IInv
<1>3. QED
  BY <1>1, <1>2, PTL DEF Spec

\* Type correctness.
THEOREM TypeCorrect == Spec => []TypeOK
<1>1. IInv => TypeOK
  BY DEF IInv
<1>2. QED
  BY <1>1, Invariance, PTL

\* Whatever version-hint.text and the documents on S3 name is on S3, although
\* publishers race, overwrite each other's versions, fail and crash.
THEOREM PublicationComplete == Spec => []PublishedIsComplete
<1>1. IInv => PublishedIsComplete
  BY DEF IInv, ReadInv, StoreOK, PublishedIsComplete
<1>2. QED
  BY <1>1, Invariance, PTL

\* So is whatever an answer or a cache names, its metadata-location included.
THEOREM AnswersReadable == Spec => []AnswersAreReadable
<1>1. IInv => AnswersAreReadable
  <2>1. SUFFICES ASSUME IInv PROVE AnswersAreReadable
    OBVIOUS
  <2>2. ASSUME NEW j \in Jobs, Answers(j)
        PROVE  doc[j].snaps \subseteq objects /\ (doc[j].snaps # {} => location[j] \in DOMAIN docs)
    BY <2>1, <2>2 DEF IInv, ReadInv, DocOK, LocationOK, Answers, Served
  <2>3. QED
    BY <2>1, <2>2 DEF IInv, ReadInv, StoreOK, AnswersAreReadable
<1>2. QED
  BY <1>1, Invariance, PTL

\* No cache hides a snapshot that was there when the request came.
THEOREM AnswersFresh == Spec => []AnswersAreFresh
<1>1. IInv => AnswersAreFresh
  BY DEF IInv, FreshInv, FreshOK, AnswersAreFresh, Answers, Served
<1>2. QED
  BY <1>1, Invariance, PTL

\* Nor a tag or branch.
THEOREM TagsShown == Spec => []TagsAreShown
<1>1. IInv => TagsAreShown
  BY DEF IInv, FreshInv, TagsOK, TagsAreShown, Answers
<1>2. QED
  BY <1>1, Invariance, PTL

\* Whatever is published, cached or answered can be read.
THEOREM ChainsComplete == Spec => []ChainsAreComplete
<1>1. PublishedIsComplete /\ AnswersAreReadable => ChainsAreComplete
  BY DEF ChainsAreComplete
<1>2. QED
  BY <1>1, PublicationComplete, AnswersReadable, PTL

\* An answer shows every snapshot, tag and branch it should.
THEOREM AnswersComplete == Spec => []AnswersShowAll
<1>1. AnswersAreFresh /\ TagsAreShown => AnswersShowAll
  BY DEF AnswersShowAll
<1>2. QED
  BY <1>1, AnswersFresh, TagsShown, PTL
=============================================================================
