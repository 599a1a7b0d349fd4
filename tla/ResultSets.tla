----------------------------- MODULE ResultSets -----------------------------
(***************************************************************************)
(* The result-set cache (result_sets.py) with its HTTP edge (server.py),   *)
(* the check the S3 gateway makes before it serves a cached result         *)
(* (signer.py) and the sweeper: requests, a gateway worker and a sweeper   *)
(* run concurrently with authoring of governance and commits of data.      *)
(*                                                                         *)
(* Clocks are abstracted: an idle window, the hard limit and a cached      *)
(* decision end by actions of their own, at any time.  The hour of grace   *)
(* of an object without a row is what an upload and its insertion take.    *)
(***************************************************************************)
EXTENDS Integers, FiniteSets

CONSTANTS
    Callers, Queries, Asking, Regimes, None,   \* see GovernedReads; a regime also says
                  \* which sessions, <<roles, context>>, it routes to exports
    First,        \* rules the catalog may begin with
    Volatile,     \* queries that call now(), random(), ...
    Calls,        \* concurrent requests
    Ids,          \* identifiers of results
    Deleted,
    Sweepers,     \* workers whose sweeper runs, one at a time
    CacheMax,     \* _CACHE_MAX of the signer
    MaxStamp, MaxData, MaxFaults   \* bounds on changes, commits and faults

ASSUME ResultSetsAssumption ==
    /\ First \subseteq Regimes /\ Callers # {} /\ CacheMax \in Nat \ {0}
    /\ Asking \subseteq Queries /\ Volatile \subseteq Queries
    /\ \A r \in Regimes : r.session \in BOOLEAN
    /\ MaxStamp \in Nat /\ MaxData \in Nat /\ MaxFaults \in Nat

Subs == { c.sub : c \in Callers }
Grants == { r.granted[s] : r \in Regimes, s \in Subs } \cup {{}}

VARIABLES
    rules, stamp,   \* governance: the rules in force, duckicelake_governance_version
    data,           \* version of the tables that are read
    rows,           \* duckicelake_result_set
    readers,        \* duckicelake_result_set_reader
    objects,        \* what was uploaded under an identifier, Deleted once it is
    pc, call,       \* requests
    decisions,      \* the signer's cache of is_servable: <<principal, id, servable>>
    gate,           \* the gateway's request: the decision it is taking or has taken
    sweep,          \* the sweeper
    faults

governance == <<rules, stamp>>
table == <<rows, readers>>
request == <<pc, call>>
gateway == <<decisions, gate>>
vars == <<governance, data, table, objects, request, gateway, sweep, faults>>

Stored == { i \in Ids : objects[i] \notin {None, Deleted} }
Without(S) == [i \in Ids |-> IF i \in S \cap Stored THEN Deleted ELSE objects[i]]

\* What the gateway has allowed and may still serve: nothing, once the object
\* is gone.
Permitted ==
    { [to |-> d[1], what |-> objects[d[2]].view] : d \in { x \in decisions : x[3] /\ x[2] \in Stored } }

Reads == INSTANCE GovernedReads WITH permitted <- Permitted

\* What a query returns, and is uploaded; a row with the key it was built for.
Views == UNION { { Reads!View(r, n, c, q) : r \in Regimes, c \in Callers, q \in Queries }
                 : n \in 0..MaxStamp }
Content == [view : Views, data : 0..MaxData, exported : BOOLEAN]
Keys == [query : Queries, context : { c.context : c \in Callers }, stamp : Nat, data : Nat,
         class : [granted : Grants] \cup [sub : Subs]]
Result == [key : Keys, reusable : BOOLEAN, by : Subs, stamp : 0..MaxStamp,
           life : {"live", "idle", "over"}]

ASSUME NoneAssumption ==
    /\ None \notin Ids \cup Nat \cup Result \cup Content
    /\ Deleted \notin Content /\ None # Deleted

Blank == [caller |-> None, query |-> None, stamp |-> 0,
          granted |-> {}, shared |-> FALSE, data |-> 0, view |-> None, exported |-> FALSE,
          id |-> None, by |-> None, held |-> FALSE]

Awake == [pc |-> "idle", chosen |-> {}, id |-> None]
Waiting == [pc |-> "idle", sub |-> None, id |-> None, found |-> None]

Init ==
    /\ rules \in First
    /\ stamp = 0
    /\ data = 0
    /\ rows = [i \in Ids |-> None]
    /\ readers = {}
    /\ objects = [i \in Ids |-> None]
    /\ pc = [k \in Calls |-> "idle"]
    /\ call = [k \in Calls |-> Blank]
    /\ decisions = {}
    /\ gate = Waiting
    /\ sweep = Awake
    /\ faults = 0

----------------------------------------------------------------------------
(***************************************************************************)
(* The world around the cache.                                             *)
(***************************************************************************)

\* Any write of a governance sidecar.
Govern ==
    /\ stamp < MaxStamp
    /\ stamp' = stamp + 1
    /\ rules' \in Regimes
    /\ UNCHANGED <<data, table, objects, request, gateway, sweep, faults>>

Commit ==
    /\ data < MaxData
    /\ data' = data + 1
    /\ UNCHANGED <<governance, table, objects, request, gateway, sweep, faults>>

\* expires_at or hard_expires_at passes.
Expire(i) ==
    /\ rows[i] # None
    /\ \/ rows[i].life = "live" /\ rows' = [rows EXCEPT ![i].life = "idle"]
       \/ rows[i].life # "over" /\ rows' = [rows EXCEPT ![i].life = "over"]
    /\ UNCHANGED <<governance, data, readers, objects, request, gateway, sweep, faults>>

----------------------------------------------------------------------------
(***************************************************************************)
(* A request.                                                              *)
(***************************************************************************)

At(k, l) == pc[k] = l
Goto(k, l) == pc' = [pc EXCEPT ![k] = l]
Set(k, b) == call' = [call EXCEPT ![k] = b]
End(k) == Goto(k, "done") /\ Set(k, Blank)

\* What a request leaves alone until it has something to store.
Calm == UNCHANGED <<governance, data, table, objects, gateway, sweep, faults>>

\* analyse: the text decides what may be reused and shared.
Reusable(b) == b.query \notin Volatile

\* Mistaken: the fingerprint of the tables is left out.
KeyWithoutData(b) ==
    [query   |-> b.query,
     context |-> b.caller.context,
     stamp   |-> b.stamp,
     class   |-> IF b.shared THEN [granted |-> b.granted] ELSE [sub |-> b.caller.sub]]

\* cache_key.  The context is the actor, the channel, the token's roles and the
\* namespace; the class of a shared result is the roles (and the scope, which
\* decides whether a request is let in and not what it returns).
Key(b) ==
    [query   |-> b.query,
     context |-> b.caller.context,
     stamp   |-> b.stamp,
     data    |-> b.data,
     class   |-> IF b.shared THEN [granted |-> b.granted] ELSE [sub |-> b.caller.sub]]

Live(i) == rows[i] # None /\ rows[i].life = "live"

Hits(b) == { i \in Ids : Live(i) /\ rows[i].reusable /\ rows[i].key = Key(b) }

\* The advisory lock of a key is held from its lock to the end of the build.
Locked(key) == \E k \in Calls : call[k].held /\ Key(call[k]) = key

\* Governance is read before anything that is derived from it.
Request(k) ==
    /\ At(k, "idle")
    /\ \E c \in Callers, q \in Queries :
          Set(k, [Blank EXCEPT !.caller = c, !.query = q, !.stamp = stamp])
    /\ Goto(k, "roles")
    /\ Calm

ReadRoles(k) ==
    /\ At(k, "roles")
    /\ Set(k, [call[k] EXCEPT !.granted = rules.granted[call[k].caller.sub]])
    /\ Goto(k, "plan")
    /\ Calm

\* shareable: neither the query nor a plan of its tables reads the session.
Shareable(k) ==
    /\ At(k, "plan")
    /\ Set(k, [call[k] EXCEPT !.shared = call[k].query \notin Asking /\ ~ rules.session])
    /\ Goto(k, "data")
    /\ Calm

DataVersion(k) ==
    /\ At(k, "data")
    /\ Set(k, [call[k] EXCEPT !.data = data])
    /\ Goto(k, "lookup")
    /\ Calm

Hit(k) ==
    /\ Reusable(call[k])
    /\ \E i \in Hits(call[k]) :
          LET b == IF call[k].held THEN call[k]
                   ELSE [Blank EXCEPT !.caller = call[k].caller, !.data = call[k].data]
          IN  Set(k, [b EXCEPT !.id = i, !.by = rows[i].by])
    /\ Goto(k, "reader")

Missed(k) == Reusable(call[k]) => Hits(call[k]) = {}

\* A miss is the answer when only a lookup was asked for.
Lookup(k) ==
    /\ At(k, "lookup")
    /\ \/ Hit(k)
       \/ Missed(k) /\ End(k)
       \/ Missed(k) /\ Goto(k, "lock") /\ UNCHANGED call
    /\ Calm

\* A slot of the process, then the lock of the key; 429 when other builds, of
\* any catalog, keep the slots for 30 seconds, 503 after the lock timeout.
Acquire(k) ==
    /\ At(k, "lock")
    /\ \/ /\ ~ Locked(Key(call[k]))
          /\ Set(k, [call[k] EXCEPT !.held = TRUE])
          /\ Goto(k, "again")
       \/ End(k)
    /\ Calm

LookupAgain(k) ==
    /\ At(k, "again")
    /\ \/ Hit(k)
       \/ Missed(k) /\ Goto(k, "vend") /\ UNCHANGED call
    /\ Calm

----------------------------------------------------------------------------
(***************************************************************************)
(* _materialize.                                                           *)
(***************************************************************************)

Unused == { i \in Ids : objects[i] = None /\ \A k \in Calls : call[k].id # i }

\* At the file tier, which depends on the plan and so on the roles and tags of
\* the session, the bytes of a table are withheld and a masked export is read.
Exported(r, c) == <<r.granted[c.sub], c.context>> \in r.exported

\* The session this caller would be vended, under the rules of this moment.
Vend(k) ==
    /\ At(k, "vend")
    /\ \E i \in Unused :
          Set(k, [call[k] EXCEPT !.id = i,
                    !.view = Reads!View(rules, stamp, call[k].caller, call[k].query),
                    !.exported = Exported(rules, call[k].caller)])
    /\ Goto(k, "copy")
    /\ Calm

\* What a session reads: the tables as they are, or what its view's export was
\* made of, which may be older than this request.  The vend serves the pointer
\* that is there when another export is under way or its own has failed, or
\* answers from its cache, whose version no commit moves; and other vends point
\* the view elsewhere meanwhile.  (Tables with and without exports are one.)
DataRead(b) == IF b.exported THEN 0..data ELSE {data}

\* COPY and upload_file.
Copy(k) ==
    /\ At(k, "copy")
    /\ \E n \in DataRead(call[k]) :
          objects' = [objects EXCEPT ![call[k].id] =
                        [view |-> call[k].view, data |-> n, exported |-> call[k].exported]]
    /\ Goto(k, "insert")
    /\ UNCHANGED <<governance, data, table, call, gateway, sweep, faults>>

Row(b, n) ==
    [key |-> Key(b), reusable |-> Reusable(b), by |-> b.caller.sub, stamp |-> n, life |-> "live"]

\* Mistaken: the row carries the governance version of its insertion.
InsertLate(k) ==
    /\ At(k, "insert")
    /\ rows' = [rows EXCEPT ![call[k].id] = Row(call[k], stamp)]
    /\ End(k)
    /\ UNCHANGED <<governance, data, readers, objects, gateway, sweep, faults>>

\* The row carries the version the request began with.  The answer has a
\* credential that says whose it is and which result it reads, and that is
\* recorded nowhere.
Insert(k) ==
    /\ At(k, "insert")
    /\ rows' = [rows EXCEPT ![call[k].id] = Row(call[k], call[k].stamp)]
    /\ End(k)
    /\ UNCHANGED <<governance, data, readers, objects, gateway, sweep, faults>>

\* The session is not vended (503), or the query fails, runs too long or
\* returns too much (400, 504, 413).
Reject(k) ==
    /\ pc[k] \in {"vend", "copy"}
    /\ End(k)
    /\ Calm

\* An exception or the end of the process, wherever it strikes;
\* the lock goes with its connection, what was uploaded stays.
Fail(k) ==
    /\ pc[k] \in {"insert", "reader", "touch"}
    /\ faults < MaxFaults
    /\ faults' = faults + 1
    /\ End(k)
    /\ UNCHANGED <<governance, data, table, objects, gateway, sweep>>

----------------------------------------------------------------------------
(***************************************************************************)
(* Serving a hit, and refreshing one.                                      *)
(***************************************************************************)

\* _serve_hit and add_reader: a principal other than the builder becomes a
\* reader.  The foreign key fails when the row was purged meanwhile.
AddReader(k) ==
    /\ At(k, "reader")
    /\ LET i == call[k].id  s == call[k].caller.sub IN
       \/ call[k].by = s /\ Goto(k, "touch") /\ UNCHANGED <<readers, call>>
       \/ /\ call[k].by # s /\ rows[i] # None
          /\ readers' = readers \cup {<<i, s>>}
          /\ Goto(k, "touch") /\ UNCHANGED call
       \/ call[k].by # s /\ rows[i] = None /\ End(k) /\ UNCHANGED readers
    /\ UNCHANGED <<governance, data, rows, objects, gateway, sweep, faults>>

\* touch, and the answer: a row that was purged is not missed; the hard limit
\* stays.
Touch(k) ==
    /\ At(k, "touch")
    /\ LET i == call[k].id IN
       rows' = IF rows[i] # None /\ rows[i].life = "idle"
               THEN [rows EXCEPT ![i].life = "live"] ELSE rows
    /\ End(k)
    /\ UNCHANGED <<governance, data, readers, objects, gateway, sweep, faults>>

\* _MAY_READ
MayRead(i, s) == rows[i].by = s \/ <<i, s>> \in readers

\* get, or 404.
Get(k) ==
    /\ At(k, "idle")
    /\ \E c \in Callers, i \in Ids :
          /\ Live(i) /\ MayRead(i, c.sub)
          /\ Set(k, [Blank EXCEPT !.caller = c, !.id = i,
                                  !.stamp = rows[i].stamp])
    /\ Goto(k, "refresh")
    /\ Calm

\* refresh: 410 once governance has changed.
Refresh(k) ==
    /\ At(k, "refresh")
    /\ \/ call[k].stamp = stamp /\ Goto(k, "touch") /\ UNCHANGED call
       \/ call[k].stamp # stamp /\ End(k)
    /\ Calm

----------------------------------------------------------------------------
(***************************************************************************)
(* The gateway: _authorize_result_set and is_servable, whose answer the    *)
(* signer caches.                                                          *)
(***************************************************************************)

Still == UNCHANGED <<governance, data, table, objects, request, sweep, faults>>

\* A read with the credential of result i for principal s.  One whose answer
\* is cached is served, or not, by it: the object may be gone (404).
Knock ==
    /\ gate.pc = "idle"
    /\ \E s \in Subs, i \in { j \in Ids : objects[j] # None } :
          /\ \A v \in BOOLEAN : <<s, i, v>> \notin decisions
          /\ gate' = [pc |-> "stamp", sub |-> s, id |-> i,
                      found |-> IF Live(i) /\ MayRead(i, s) THEN rows[i].stamp ELSE None]
    /\ Still /\ UNCHANGED decisions

\* _put: a full cache is cleared.
Put(d) ==
    decisions' = IF Cardinality(decisions) >= CacheMax THEN {d} ELSE decisions \cup {d}

Decide(ok) ==
    /\ Put(<<gate.sub, gate.id, ok>>)
    /\ gate' = Waiting
    /\ Still

\* The row was read by a statement of its own, before the version.
Judge == gate.pc = "stamp" /\ Decide(gate.found = stamp)

\* signer_cache_ttl passes.
Forget ==
    /\ \E d \in decisions : decisions' = decisions \ {d}
    /\ Still /\ UNCHANGED gate

----------------------------------------------------------------------------
(***************************************************************************)
(* sweep: one at a time, by an advisory lock.                              *)
(***************************************************************************)

Aside == UNCHANGED <<governance, data, request, gateway, faults>>

\* A sweep that would find nothing to purge is left out.
Select ==
    /\ sweep.pc = "idle"
    /\ Sweepers # {} /\ Stored # {}
    /\ sweep' = [Awake EXCEPT !.pc = "purge",
                    !.chosen = { i \in Ids : rows[i] # None /\ rows[i].life # "live" }]
    /\ Aside /\ UNCHANGED <<table, objects>>

\* Mistaken: the readers stay.
PurgeRowAlone ==
    /\ sweep.pc = "purge"
    /\ \E i \in sweep.chosen :
          /\ rows' = [rows EXCEPT ![i] = None]
          /\ sweep' = [sweep EXCEPT !.pc = "delete", !.chosen = @ \ {i}, !.id = i]
    /\ Aside /\ UNCHANGED <<readers, objects>>

\* The row first; its readers go with it.
PurgeRow ==
    /\ sweep.pc = "purge"
    /\ \E i \in sweep.chosen :
          /\ rows' = [rows EXCEPT ![i] = None]
          /\ readers' = { r \in readers : r[1] # i }
          /\ sweep' = [sweep EXCEPT !.pc = "delete", !.chosen = @ \ {i}, !.id = i]
    /\ Aside /\ UNCHANGED objects

PurgeObjects ==
    /\ sweep.pc = "delete"
    /\ objects' = Without({sweep.id})
    /\ sweep' = [sweep EXCEPT !.pc = "purge", !.id = None]
    /\ Aside /\ UNCHANGED table

Rowless == { i \in Ids : rows[i] = None }

\* Mistaken: orphans have no grace.
ReadAll ==
    /\ sweep.pc = "purge"
    /\ sweep.chosen = {}
    /\ sweep' = [sweep EXCEPT !.pc = "orphans", !.chosen = Rowless]
    /\ Aside /\ UNCHANGED <<table, objects>>

\* Between its upload and its row a result is younger than the grace.
Young == { call[k].id : k \in { x \in Calls : At(x, "insert") } }

\* The rows that are left and the cutoff: what may turn out an orphan.
ReadLive ==
    /\ sweep.pc = "purge"
    /\ sweep.chosen = {}
    /\ sweep' = [sweep EXCEPT !.pc = "orphans", !.chosen = (Stored \cap Rowless) \ Young]
    /\ Aside /\ UNCHANGED <<table, objects>>

\* Mistaken: nothing is taken for an orphan.
NoOrphans ==
    /\ sweep.pc = "orphans"
    /\ sweep' = Awake
    /\ Aside /\ UNCHANGED <<table, objects>>

\* The objects are listed after the rows were read.
DeleteOrphans ==
    /\ sweep.pc = "orphans"
    /\ objects' = Without(sweep.chosen)
    /\ sweep' = Awake
    /\ Aside /\ UNCHANGED table

\* The sweeper dies or fails; the next one starts afresh.
SweepFails ==
    /\ sweep.pc # "idle"
    /\ faults < MaxFaults
    /\ faults' = faults + 1
    /\ sweep' = Awake
    /\ UNCHANGED <<governance, data, table, objects, request, gateway>>

----------------------------------------------------------------------------
Serving(k) ==
    \/ Request(k) \/ ReadRoles(k) \/ Shareable(k) \/ DataVersion(k)
    \/ Lookup(k) \/ Acquire(k) \/ LookupAgain(k)
    \/ Vend(k) \/ Copy(k) \/ Insert(k) \/ Reject(k)
    \/ AddReader(k) \/ Touch(k) \/ Get(k) \/ Refresh(k)

Gateway == Knock \/ Judge \/ Forget

Sweeper == Select \/ PurgeRow \/ PurgeObjects \/ ReadLive \/ DeleteOrphans

Done == (\A k \in Calls : At(k, "done")) /\ UNCHANGED vars

Next ==
    \/ Govern \/ Commit
    \/ \E i \in Ids : Expire(i)
    \/ \E k \in Calls : Serving(k) \/ Fail(k)
    \/ Gateway
    \/ Sweeper \/ SweepFails
    \/ Done

Spec == Init /\ [][Next]_vars

\* The sweeper runs again and again, and a request that has begun goes on (Acquire gives up).
FairSpec ==
    /\ Spec
    /\ WF_vars(Sweeper)
    /\ \A k \in Calls : WF_vars(Serving(k) /\ ~ At(k, "idle"))

----------------------------------------------------------------------------
(***************************************************************************)
(* Properties.                                                             *)
(***************************************************************************)

\* The shape of the state.
TypeOK ==
    /\ rules \in Regimes /\ stamp \in 0..MaxStamp /\ data \in 0..MaxData
    /\ rows \in [Ids -> Result \cup {None}]
    /\ readers \in SUBSET (Ids \X Subs)
    /\ \A r \in readers : rows[r[1]] # None
    /\ objects \in [Ids -> Content \cup {None, Deleted}]
    /\ \A k \in Calls :
          /\ pc[k] \in {"idle", "done", "roles", "plan", "data", "lookup", "lock",
                        "again", "vend", "copy", "insert", "reader", "touch", "refresh"}
          /\ call[k].id \in Ids \cup {None} /\ call[k].held \in BOOLEAN
    /\ decisions \in SUBSET (Subs \X Ids \X BOOLEAN) /\ Cardinality(decisions) <= CacheMax
    /\ gate.pc \in {"idle", "stamp"}
    /\ sweep.pc \in {"idle", "purge", "delete", "orphans"}
    /\ faults \in 0..MaxFaults

\* A result the cache can hand out has its file: the sweeper never takes the
\* object of a result whose row it leaves, though it lists objects long
\* after it read the rows and requests upload before they insert
\* (result_sets.py:693-709).
RowsHaveTheirFile == \A i \in Ids : rows[i] # None => i \in Stored

\* A request that is answered from the tables themselves gets data at least as
\* new as the version it read after it arrived, whichever build, of its own or
\* of another caller, the answer comes from (result_sets.py:413-478, 517-590).
\* Not so an answer that was built from masked exports: it may be older than
\* the key it is stored and shared under, which fingerprints the tables and not
\* the exports (result_sets.py:237-296, against 10-16).
AnswersAreFresh ==
    \A k \in Calls :
        pc[k] \in {"insert", "reader", "touch"} /\ call[k].id \in Stored
            /\ ~ objects[call[k].id].exported
        => objects[call[k].id].data >= call[k].data

\* The cache, its gateway and its sweeper implement GovernedReads: what a
\* principal is shown is what they would have been shown under the rules
\* that held when the gateway allowed it, however requests, builds shared
\* between principals, changes of the rules and commits interleave
\* (result_sets.py:452-478, 650-664; signer.py:218-244).
ServedAsGoverned == Reads!Spec

\* An object whose result is past its hard limit, or has no row because its
\* request or its sweep failed half way, is deleted in the end.
Kept(i) ==
    \/ rows[i] # None /\ rows[i].life # "over"
    \/ \E k \in Calls : pc[k] = "insert" /\ call[k].id = i

ObjectsArePurged == \A i \in Ids : (i \in Stored /\ ~ Kept(i)) ~> (i \notin Stored)
=============================================================================
