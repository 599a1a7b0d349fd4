------------------------- MODULE ResultSets_proofs -------------------------
(***************************************************************************)
(* Proofs about ResultSets: types, RowsHaveTheirFile, AnswersAreFresh and  *)
(* that the cache implements GovernedReads, for any number of requests,    *)
(* sessions, results, changes of the rules, commits and faults.            *)
(***************************************************************************)
EXTENDS ResultSets, FiniteSetTheorems, TLAPS

\* Where a request knows its caller and query, its roles, whether it shares,
\* and where it has an identifier of its own.
Planning == {"roles", "plan", "data", "lookup", "lock", "again", "vend", "copy", "insert"}
Roled == Planning \ {"roles"}
Classed == Roled \ {"plan"}
Building == {"copy", "insert"}
Answering == {"reader", "refresh", "touch"}

Requests == [caller : Callers \cup {None}, query : Queries \cup {None}, stamp : Nat,
             granted : Grants, shared : BOOLEAN, data : Nat, view : Views \cup {None},
             exported : BOOLEAN, id : Ids \cup {None}, by : Subs \cup {None}, held : BOOLEAN]
Gates == [pc : {"idle", "stamp"}, sub : Subs \cup {None}, id : Ids \cup {None},
          found : Nat \cup {None}]
Sweeps == [pc : {"idle", "purge", "delete", "orphans"}, chosen : SUBSET Ids,
           id : Ids \cup {None}]

TypeInv ==
    /\ TypeOK
    /\ pc \in [Calls -> Planning \cup Answering \cup {"idle", "done"}]
    /\ call \in [Calls -> Requests]
    /\ gate \in Gates /\ sweep \in Sweeps /\ IsFiniteSet(decisions)

\* What query q returns to c under the rules in force, and its class.
Shown(c, q) == Reads!View(rules, stamp, c, q)
Class(c, q) == IF q \notin Asking /\ ~ rules.session
               THEN [granted |-> rules.granted[c.sub]] ELSE [sub |-> c.sub]

\* Nothing will be uploaded or inserted under i any more.
Settled(i) == objects[i] # None /\ \A k \in Calls : pc[k] \in Building => call[k].id # i

\* Object i is what the rules in force show to s.
Proper(i, s) == \E c \in Callers, q \in Queries : c.sub = s /\ objects[i].view = Shown(c, q)

\* Object i, unless it was built from exports, is as new as data version n.
Fresh(i, n) == ~ objects[i].exported => objects[i].data >= n

\* A request at l with b: while the rules it began with are in force, what it
\* has read and is building is what they say.
Good(l, b) ==
    /\ b.stamp <= stamp /\ b.data <= data
    /\ l \in Planning => b.caller \in Callers /\ b.query \in Queries
    /\ l \in Answering => b.caller \in Callers /\ b.id \in Ids /\ Settled(b.id)
    /\ b.stamp = stamp =>
        /\ l \in Roled => b.granted = rules.granted[b.caller.sub]
        /\ l \in Classed => (b.shared <=> b.query \notin Asking /\ ~ rules.session)
        /\ l \in Building => b.view = Shown(b.caller, b.query)
    /\ l \in Building => b.id \in Ids /\ b.view \in Views
    /\ l = "copy" => objects[b.id] = None
    /\ l = "insert" => b.id \in Stored /\ objects[b.id].view = b.view
    /\ l \in Answering \cup {"insert"} /\ b.id \in Stored => Fresh(b.id, b.data)
    /\ l = "reader" /\ b.id \in Stored /\ rows[b.id] # None /\ rows[b.id].stamp = stamp =>
        \E q \in Queries : objects[b.id].view = Shown(b.caller, q)

CallsOK ==
    /\ \A k \in Calls : Good(pc[k], call[k])
    /\ \A k, j \in Calls :
        pc[k] \in Building /\ pc[j] \in Building /\ call[k].id = call[j].id => k = j

RowOK(i) ==
    /\ Settled(i) /\ i \in Stored
    /\ rows[i].stamp <= stamp /\ rows[i].key.stamp = rows[i].stamp
    /\ Fresh(i, rows[i].key.data)
    /\ rows[i].stamp = stamp =>
        \E c \in Callers, q \in Queries :
            /\ c.sub = rows[i].by /\ objects[i].view = Shown(c, q)
            /\ rows[i].key.query = q /\ rows[i].key.context = c.context
            /\ rows[i].key.class = Class(c, q)

RowsOK ==
    /\ \A i \in Ids : rows[i] # None => RowOK(i)
    /\ \A r \in readers : rows[r[1]].stamp = stamp => Proper(r[1], r[2])

GatewayOK ==
    /\ \A d \in decisions : objects[d[2]] # None
    /\ gate.pc = "stamp" =>
        /\ gate.sub \in Subs /\ gate.id \in Ids /\ objects[gate.id] # None
        /\ gate.found # None => gate.found <= stamp
        /\ gate.found = stamp /\ gate.id \in Stored => Proper(gate.id, gate.sub)

SweepOK ==
    /\ \A i \in sweep.chosen : Settled(i) /\ (sweep.pc = "orphans" => rows[i] = None)
    /\ sweep.pc = "delete" =>
        sweep.id \in Ids /\ Settled(sweep.id) /\ rows[sweep.id] = None

IInv == TypeInv /\ CallsOK /\ RowsOK /\ GatewayOK /\ SweepOK
----------------------------------------------------------------------------
(***************************************************************************)
(* Types.                                                                  *)
(***************************************************************************)

LEMMA BlankIsARequest == Blank \in Requests /\ Blank.stamp = 0 /\ Blank.data = 0
BY DEF Blank, Requests, Grants

LEMMA RolesAreGrants == ASSUME NEW r \in Regimes, NEW c \in Callers PROVE r.granted[c.sub] \in Grants
BY DEF Grants, Subs

LEMMA ShownIsAView ==
    ASSUME rules \in Regimes, stamp \in 0..MaxStamp, NEW c \in Callers, NEW q \in Queries
    PROVE  Shown(c, q) \in Views
BY DEF Shown, Views

\* What is shown depends on the caller's class and context alone.
LEMMA ClassDecides ==
    ASSUME NEW c \in Callers, NEW d \in Callers, NEW q \in Queries,
           c.context = d.context, Class(c, q) = Class(d, q)
    PROVE  Shown(c, q) = Shown(d, q)
<1>1. CASE q \notin Asking /\ ~ rules.session
  <2>1. [granted |-> rules.granted[c.sub]] = [granted |-> rules.granted[d.sub]]
    BY <1>1 DEF Class
  <2>2. rules.granted[c.sub] = rules.granted[d.sub]
    BY <2>1
  <2>3. QED
    BY <1>1, <2>2 DEF Shown, Reads!View
<1>2. CASE ~ (q \notin Asking /\ ~ rules.session)
  <2>1. [sub |-> c.sub] = [sub |-> d.sub]
    BY <1>2 DEF Class
  <2>2. c.sub = d.sub
    BY <2>1
  <2>3. QED
    BY <2>2 DEF Shown, Reads!View
<1>3. QED
  BY <1>1, <1>2

LEMMA StoredHasContent ==
    ASSUME TypeOK, NEW i \in Stored
    PROVE  i \in Ids /\ objects[i] \in Content /\ objects[i] # None
BY DEF TypeOK, Stored

LEMMA Initially == Init => IInv
<1> SUFFICES ASSUME Init PROVE IInv
  OBVIOUS
<1> USE ResultSetsAssumption, NoneAssumption
<1>1. TypeOK
  <2>1. IsFiniteSet({}) /\ Cardinality({}) = 0
    BY FS_EmptySet
  <2>2. call \in [Calls -> Requests] /\ \A k \in Calls : call[k].id = None /\ call[k].held = FALSE
    BY BlankIsARequest DEF Init, Blank
  <2>3. gate.pc = "idle" /\ sweep.pc = "idle"
    BY DEF Init, Waiting, Awake
  <2>4. rules \in Regimes /\ stamp \in 0..MaxStamp /\ data \in 0..MaxData /\ faults \in 0..MaxFaults
    BY DEF Init
  <2>5. rows \in [Ids -> Result \cup {None}] /\ objects \in [Ids -> Content \cup {None, Deleted}]
    BY DEF Init
  <2>6. Cardinality(decisions) <= CacheMax
    BY <2>1 DEF Init
  <2>7. QED
    BY <2>2, <2>3, <2>4, <2>5, <2>6 DEF Init, TypeOK
<1>2. TypeInv
  BY <1>1, BlankIsARequest, FS_EmptySet DEF Init, TypeInv, Waiting, Awake, Gates, Sweeps
<1>3. \A k \in Calls : Good(pc[k], call[k])
  BY BlankIsARequest DEF Init, Good, Planning, Answering, Roled, Classed, Building
<1>4. CallsOK
  BY <1>3 DEF Init, CallsOK, Building
<1>5. RowsOK /\ GatewayOK /\ SweepOK
  BY DEF Init, RowsOK, GatewayOK, SweepOK, Waiting, Awake
<1>6. QED
  BY <1>2, <1>4, <1>5 DEF IInv

----------------------------------------------------------------------------
(***************************************************************************)
(* Steps of a request that write nothing but its own locals.               *)
(***************************************************************************)

Steps == Planning \cup Answering \cup {"idle", "done"}

World == <<rules, stamp, data, rows, readers, objects, decisions, gate, sweep>>

\* Good looks at a few things besides the request.
LEMMA GoodStays ==
    ASSUME NEW m, NEW e, Good(m, e),
           UNCHANGED <<rules, stamp, data, rows, objects>>,
           \A i \in Ids : Settled(i) => Settled(i)'
    PROVE  Good(m, e)'
BY DEF Fresh, Good, Stored, Shown

LEMMA RequestStep ==
    ASSUME IInv, NEW k \in Calls, NEW l \in Steps, NEW b \in Requests,
           pc' = [pc EXCEPT ![k] = l], call' = [call EXCEPT ![k] = b],
           UNCHANGED World, faults' \in 0..MaxFaults, Good(l, b),
           l \in Building =>
               \/ pc[k] \in Building /\ b.id = call[k].id
               \/ objects[b.id] = None /\ \A j \in Calls : call[j].id # b.id
    PROVE  IInv'
<1> USE DEF IInv, World
<1>0. pc \in [Calls -> Steps] /\ call \in [Calls -> Requests]
  BY DEF TypeInv, Steps
<1>1. ASSUME NEW i \in Ids, Settled(i) PROVE Settled(i)'
  BY <1>0, <1>1 DEF Settled
<1>2. TypeInv'
  <2>1. pc' \in [Calls -> Steps] /\ call' \in [Calls -> Requests]
    BY <1>0
  <2>2. \A j \in Calls : pc'[j] \in Steps /\ call'[j].id \in Ids \cup {None} /\ call'[j].held \in BOOLEAN
    BY <2>1 DEF Requests
  <2>3. TypeOK'
    BY <2>2 DEF TypeInv, TypeOK, Steps, Planning, Answering
  <2>4. QED
    BY <2>1, <2>3 DEF TypeInv, Steps
<1>3. ASSUME NEW j \in Calls PROVE Good(pc[j], call[j])' 
  <2>1. Good(l, b)'
    BY <1>1, GoodStays
  <2>2. Good(pc[j], call[j]) 
    BY DEF CallsOK
  <2>3. CASE j = k
    BY <1>0, <2>1, <2>3 DEF Good, Stored, Shown, Settled
  <2>4. CASE j # k
    BY <1>0, <1>1, <2>2, <2>4 DEF Fresh, Good, Stored, Shown, Settled
  <2>5. QED
    BY <2>3, <2>4
<1>4. CallsOK'
  BY <1>0, <1>3 DEF CallsOK
<1>5. RowsOK'
  <2>1. \A i \in Ids : RowOK(i) => RowOK(i)'
    BY <1>1 DEF Fresh, RowOK, Shown, Class, Stored
  <2>2. \A i, s : Proper(i, s) => Proper(i, s)'
    BY DEF Proper, Shown
  <2>3. QED
    BY <2>1, <2>2 DEF RowsOK
<1>6. GatewayOK'
  BY DEF GatewayOK, Proper, Shown, Stored
<1>7. SweepOK'
  BY <1>1 DEF SweepOK, TypeInv, Sweeps
<1>8. QED
  BY <1>2, <1>4, <1>5, <1>6, <1>7

LEMMA EndKeeps ==
    ASSUME IInv, NEW k \in Calls, End(k), UNCHANGED World, faults' \in 0..MaxFaults
    PROVE  IInv'
<1>1. Good("done", Blank)
  BY BlankIsARequest DEF Good, Planning, Answering, Roled, Classed, Building, IInv, TypeInv, TypeOK
<1>2. QED
  BY <1>1, BlankIsARequest, RequestStep DEF End, Goto, Set, Steps, Building

\* The look-up finds what was built for this caller, or for one of its class.
LEMMA HitIsProper ==
    ASSUME IInv, NEW k \in Calls, pc[k] \in {"lookup", "again"},
           NEW i \in Hits(call[k])
    PROVE  /\ rows[i] # None /\ RowOK(i) /\ rows[i].by \in Subs
           /\ Fresh(i, call[k].data)
           /\ rows[i].stamp = stamp =>
                \E q \in Queries : objects[i].view = Shown(call[k].caller, q)
<1> DEFINE b == call[k]
<1> USE DEF IInv
<1>1. /\ i \in Ids /\ rows[i] # None /\ rows[i].key = Key(b) /\ rows[i] \in Result
      /\ RowOK(i)
  BY DEF Hits, Live, TypeInv, TypeOK, RowsOK
<1>2. /\ rows[i].key.data = b.data /\ rows[i].key.stamp = b.stamp /\ rows[i].key.query = b.query
      /\ rows[i].key.context = b.caller.context
      /\ rows[i].key.class = IF b.shared THEN [granted |-> b.granted] ELSE [sub |-> b.caller.sub]
  BY <1>1 DEF Key
<1>3. Good(pc[k], b)
  BY DEF CallsOK
<1>4. b.caller \in Callers /\ b.query \in Queries
  BY <1>3 DEF Good, Planning
<1>5. ASSUME rows[i].stamp = stamp PROVE \E q \in Queries : objects[i].view = Shown(b.caller, q)
  <2>1. b.stamp = stamp
    BY <1>1, <1>2, <1>5 DEF RowOK
  <2>2. rows[i].key.class = Class(b.caller, b.query)
    BY <1>2, <1>3, <2>1 DEF Good, Roled, Classed, Planning, Class
  <2>3. PICK c \in Callers, q \in Queries :
            /\ objects[i].view = Shown(c, q)
            /\ rows[i].key.query = q /\ rows[i].key.context = c.context
            /\ rows[i].key.class = Class(c, q)
    BY <1>1, <1>5 DEF RowOK
  <2>4. Shown(c, q) = Shown(b.caller, q)
    BY <1>2, <1>4, <2>2, <2>3, ClassDecides
  <2>5. QED
    BY <2>3, <2>4
<1>6. Fresh(i, b.data) /\ rows[i].by \in Subs
  BY <1>1, <1>2 DEF RowOK, Result
<1>7. QED
  BY <1>1, <1>5, <1>6

LEMMA HitKeeps ==
    ASSUME IInv, NEW k \in Calls, pc[k] \in {"lookup", "again"}, Hit(k), Calm
    PROVE  IInv'
<1> USE DEF IInv
<1>1. PICK i \in Hits(call[k]) :
          LET b == IF call[k].held THEN call[k]
                   ELSE [Blank EXCEPT !.caller = call[k].caller, !.data = call[k].data]
          IN  Set(k, [b EXCEPT !.id = i, !.by = rows[i].by])
  BY DEF Hit
<1> DEFINE b == IF call[k].held THEN call[k]
                ELSE [Blank EXCEPT !.caller = call[k].caller, !.data = call[k].data]
           a == [b EXCEPT !.id = i, !.by = rows[i].by]
<1>2. i \in Ids /\ call[k] \in Requests
  BY DEF Hits, TypeInv
<1>3. b \in Requests /\ b.caller = call[k].caller /\ b.data = call[k].data /\ b.stamp <= call[k].stamp
  <2>1. CASE call[k].held
    BY <1>2, <2>1 DEF Requests
  <2>2. CASE ~ call[k].held
    <3>1. b = [Blank EXCEPT !.caller = call[k].caller, !.data = call[k].data]
      BY <2>2
    <3>2. call[k].caller \in Callers \cup {None} /\ call[k].data \in Nat /\ call[k].stamp \in Nat
      BY <1>2 DEF Requests
    <3>3. Blank \in Requests /\ Blank.stamp = 0
      BY BlankIsARequest
    <3>4. [Blank EXCEPT !.caller = call[k].caller, !.data = call[k].data] \in Requests
      BY <3>2, <3>3 DEF Requests
    <3>5. b.caller = call[k].caller /\ b.data = call[k].data /\ b.stamp = 0
      BY <3>1, <3>3 DEF Requests
    <3>6. QED
      BY <3>1, <3>2, <3>4, <3>5
  <2>3. QED
    BY <2>1, <2>2
<1>4. /\ a \in Requests /\ a.id = i /\ a.caller = call[k].caller /\ a.data = call[k].data
      /\ a.stamp <= call[k].stamp /\ a.stamp \in Nat
  BY <1>2, <1>3, HitIsProper DEF Requests
<1>5. Good(pc[k], call[k])
  BY DEF CallsOK
<1>6. call[k].caller \in Callers /\ call[k].stamp <= stamp /\ call[k].data <= data
  BY <1>5 DEF Good, Planning
<1>7. Good("reader", a)
  <2>1. a.stamp <= stamp
    BY <1>2, <1>4, <1>6 DEF Requests, TypeInv, TypeOK
  <2>2. Settled(i)
    BY HitIsProper DEF RowOK
  <2>3. Fresh(i, a.data)
    BY <1>4, HitIsProper
  <2>4. rows[i].stamp = stamp => \E q \in Queries : objects[i].view = Shown(a.caller, q)
    BY <1>4, HitIsProper
  <2>5. QED
    BY <1>2, <1>4, <1>6, <2>1, <2>2, <2>3, <2>4
       DEF Good, Planning, Answering, Roled, Classed, Building
<1>8. pc' = [pc EXCEPT ![k] = "reader"] /\ call' = [call EXCEPT ![k] = a]
  BY <1>1 DEF Hit, Goto, Set
<1>9. UNCHANGED World /\ faults' \in 0..MaxFaults
  BY DEF Calm, World, governance, table, gateway, TypeInv, TypeOK
<1> HIDE DEF a, b
<1>10. QED
  BY <1>4, <1>7, <1>8, <1>9, RequestStep DEF Steps, Answering, Building

\* A request reads, one after another, what its key is made of.
LEMMA RequestKeeps ==
    ASSUME IInv, NEW k \in Calls, Request(k)
    PROVE  IInv'
<1>1. PICK c \in Callers, q \in Queries :
          Set(k, [Blank EXCEPT !.caller = c, !.query = q, !.stamp = stamp])
  BY DEF Request
<1> DEFINE b == [Blank EXCEPT !.caller = c, !.query = q, !.stamp = stamp]
<1>2. stamp \in Nat /\ data \in Nat
  BY ResultSetsAssumption DEF IInv, TypeInv, TypeOK
<1>3. b \in Requests /\ b.caller = c /\ b.query = q /\ b.stamp = stamp /\ b.data = 0
  BY <1>2, BlankIsARequest DEF Requests
<1>4. Good("roles", b)
  BY <1>2, <1>3 DEF Good, Planning, Answering, Roled, Classed, Building
<1>5. pc' = [pc EXCEPT ![k] = "roles"] /\ call' = [call EXCEPT ![k] = b]
  BY <1>1 DEF Request, Goto, Set
<1>6. UNCHANGED World /\ faults' \in 0..MaxFaults
  BY DEF Request, Calm, World, governance, table, gateway, IInv, TypeInv, TypeOK
<1> HIDE DEF b
<1>7. QED
  BY <1>3, <1>4, <1>5, <1>6, RequestStep DEF Steps, Planning, Building

LEMMA PlanKeeps ==
    ASSUME IInv, NEW k \in Calls, ReadRoles(k) \/ Shareable(k) \/ DataVersion(k)
    PROVE  IInv'
<1>1. /\ call[k] \in Requests /\ Good(pc[k], call[k]) /\ data \in Nat
      /\ rules \in Regimes
  BY ResultSetsAssumption DEF IInv, TypeInv, TypeOK, CallsOK
<1>2. UNCHANGED World /\ faults' \in 0..MaxFaults
  BY DEF ReadRoles, Shareable, DataVersion, Calm, World, governance, table, gateway,
         IInv, TypeInv, TypeOK
<1>3. CASE ReadRoles(k)
  <2> DEFINE b == [call[k] EXCEPT !.granted = rules.granted[call[k].caller.sub]]
  <2>1. call[k].caller \in Callers
    BY <1>1, <1>3 DEF ReadRoles, At, Good, Planning
  <2>2. b \in Requests
    BY <1>1, <2>1, RolesAreGrants DEF Requests
  <2>3. Good("plan", b)
    BY <1>1, <1>3, <2>1 DEF ReadRoles, At, Good, Requests, Planning, Answering, Roled, Classed, Building
  <2>4. pc' = [pc EXCEPT ![k] = "plan"] /\ call' = [call EXCEPT ![k] = b]
    BY <1>3 DEF ReadRoles, Goto, Set
  <2> HIDE DEF b
  <2>5. QED
    BY <1>2, <2>2, <2>3, <2>4, RequestStep DEF Steps, Planning, Building
<1>4. CASE Shareable(k)
  <2> DEFINE b == [call[k] EXCEPT !.shared = call[k].query \notin Asking /\ ~ rules.session]
  <2>1. b \in Requests
    BY <1>1 DEF Requests
  <2>2. Good("data", b)
    BY <1>1, <1>4 DEF Shareable, At, Good, Requests, Planning, Answering, Roled, Classed, Building
  <2>3. pc' = [pc EXCEPT ![k] = "data"] /\ call' = [call EXCEPT ![k] = b]
    BY <1>4 DEF Shareable, Goto, Set
  <2> HIDE DEF b
  <2>4. QED
    BY <1>2, <2>1, <2>2, <2>3, RequestStep DEF Steps, Planning, Building
<1>5. CASE DataVersion(k)
  <2> DEFINE b == [call[k] EXCEPT !.data = data]
  <2>1. b \in Requests
    BY <1>1 DEF Requests
  <2>2. Good("lookup", b)
    BY <1>1, <1>5 DEF DataVersion, At, Good, Requests, Planning, Answering, Roled, Classed, Building
  <2>3. pc' = [pc EXCEPT ![k] = "lookup"] /\ call' = [call EXCEPT ![k] = b]
    BY <1>5 DEF DataVersion, Goto, Set
  <2> HIDE DEF b
  <2>4. QED
    BY <1>2, <2>1, <2>2, <2>3, RequestStep DEF Steps, Planning, Building
<1>6. QED
  BY <1>3, <1>4, <1>5

LEMMA LookupKeeps ==
    ASSUME IInv, NEW k \in Calls, Lookup(k) \/ Acquire(k) \/ LookupAgain(k)
    PROVE  IInv'
<1>1. call[k] \in Requests /\ Good(pc[k], call[k])
  BY DEF IInv, TypeInv, CallsOK
<1>2. UNCHANGED World /\ faults' \in 0..MaxFaults /\ Calm
  BY DEF Lookup, Acquire, LookupAgain, Calm, World, governance, table, gateway,
         IInv, TypeInv, TypeOK
<1>3. CASE pc[k] \in {"lookup", "again"} /\ Hit(k)
  BY <1>2, <1>3, HitKeeps
<1>4. CASE End(k)
  BY <1>2, <1>4, EndKeeps
<1>5. CASE pc[k] = "lookup" /\ Goto(k, "lock") /\ UNCHANGED call
  <2>1. Good("lock", call[k])
    BY <1>1, <1>5 DEF Good, Planning, Answering, Roled, Classed, Building
  <2>2. call' = [call EXCEPT ![k] = call[k]]
    BY <1>5 DEF IInv, TypeInv
  <2>3. QED
    BY <1>1, <1>2, <1>5, <2>1, <2>2, RequestStep DEF Goto, Steps, Planning, Building
<1>6. CASE pc[k] = "lock" /\ Set(k, [call[k] EXCEPT !.held = TRUE]) /\ Goto(k, "again")
  <2> DEFINE b == [call[k] EXCEPT !.held = TRUE]
  <2>1. b \in Requests
    BY <1>1 DEF Requests
  <2>2. Good("again", b)
    BY <1>1, <1>6 DEF Good, Requests, Planning, Answering, Roled, Classed, Building
  <2>3. pc' = [pc EXCEPT ![k] = "again"] /\ call' = [call EXCEPT ![k] = b]
    BY <1>6 DEF Goto, Set
  <2> HIDE DEF b
  <2>4. QED
    BY <1>2, <2>1, <2>2, <2>3, RequestStep DEF Steps, Planning, Building
<1>7. CASE pc[k] = "again" /\ Goto(k, "vend") /\ UNCHANGED call
  <2>1. Good("vend", call[k])
    BY <1>1, <1>7 DEF Good, Planning, Answering, Roled, Classed, Building
  <2>2. call' = [call EXCEPT ![k] = call[k]]
    BY <1>7 DEF IInv, TypeInv
  <2>3. QED
    BY <1>1, <1>2, <1>7, <2>1, <2>2, RequestStep DEF Goto, Steps, Planning, Building
<1>8. QED
  BY <1>3, <1>4, <1>5, <1>6, <1>7 DEF Lookup, Acquire, LookupAgain, At

\* An identifier of its own, and the session of this moment.
LEMMA VendKeeps ==
    ASSUME IInv, NEW k \in Calls, Vend(k)
    PROVE  IInv'
<1>1. PICK i \in Unused :
          Set(k, [call[k] EXCEPT !.id = i,
                    !.view = Reads!View(rules, stamp, call[k].caller, call[k].query),
                    !.exported = Exported(rules, call[k].caller)])
  BY DEF Vend
<1> DEFINE b == [call[k] EXCEPT !.id = i,
                    !.view = Reads!View(rules, stamp, call[k].caller, call[k].query),
                    !.exported = Exported(rules, call[k].caller)]
<1>2. call[k] \in Requests /\ Good(pc[k], call[k]) /\ pc[k] = "vend"
  BY DEF IInv, TypeInv, CallsOK, Vend, At
<1>3. i \in Ids /\ objects[i] = None /\ \A j \in Calls : call[j].id # i
  BY DEF Unused
<1>4. call[k].caller \in Callers /\ call[k].query \in Queries
  BY <1>2 DEF Good, Planning
<1>5. b \in Requests /\ b.id = i /\ b.view = Shown(call[k].caller, call[k].query) /\ b.view \in Views
  <2>1. Shown(call[k].caller, call[k].query) \in Views
    BY <1>4, ShownIsAView DEF IInv, TypeInv, TypeOK
  <2>2. Exported(rules, call[k].caller) \in BOOLEAN
    BY DEF Exported
  <2>3. QED
    BY <1>2, <1>3, <2>1, <2>2 DEF Requests, Shown
<1>6. Good("copy", b)
  BY <1>2, <1>3, <1>4, <1>5 DEF Good, Requests, Planning, Answering, Roled, Classed, Building
<1>7. pc' = [pc EXCEPT ![k] = "copy"] /\ call' = [call EXCEPT ![k] = b]
  BY <1>1 DEF Vend, Goto, Set
<1>8. UNCHANGED World /\ faults' \in 0..MaxFaults
  BY DEF Vend, Calm, World, governance, table, gateway, IInv, TypeInv, TypeOK
<1> HIDE DEF b
<1>9. QED
  BY <1>3, <1>5, <1>6, <1>7, <1>8, RequestStep DEF Steps, Planning, Building

\* A result that is still there is handed to those who may read it.
LEMMA GetKeeps ==
    ASSUME IInv, NEW k \in Calls, Get(k)
    PROVE  IInv'
<1>1. PICK c \in Callers, i \in Ids :
          /\ Live(i)
          /\ Set(k, [Blank EXCEPT !.caller = c, !.id = i, !.stamp = rows[i].stamp])
  BY DEF Get
<1> DEFINE b == [Blank EXCEPT !.caller = c, !.id = i, !.stamp = rows[i].stamp]
<1>2. RowOK(i) /\ rows[i] \in Result /\ objects[i] \in Content
  BY <1>1, StoredHasContent DEF IInv, TypeInv, TypeOK, RowsOK, RowOK, Live
<1>3. rows[i].stamp \in Nat /\ objects[i].data \in Nat /\ rows[i].stamp <= stamp /\ data \in Nat
  BY <1>2, ResultSetsAssumption DEF Result, Content, RowOK, IInv, TypeInv, TypeOK
<1>4. b \in Requests /\ b.caller = c /\ b.id = i /\ b.stamp = rows[i].stamp /\ b.data = 0
  BY <1>3, BlankIsARequest DEF Requests
<1>5. Good("refresh", b)
  BY <1>2, <1>3, <1>4 DEF Fresh, Good, RowOK, Planning, Answering, Roled, Classed, Building
<1>6. pc' = [pc EXCEPT ![k] = "refresh"] /\ call' = [call EXCEPT ![k] = b]
  BY <1>1 DEF Get, Goto, Set
<1>7. UNCHANGED World /\ faults' \in 0..MaxFaults
  BY DEF Get, Calm, World, governance, table, gateway, IInv, TypeInv, TypeOK
<1> HIDE DEF b
<1>8. QED
  BY <1>4, <1>5, <1>6, <1>7, RequestStep DEF Steps, Answering, Building

LEMMA RefreshKeeps ==
    ASSUME IInv, NEW k \in Calls, Refresh(k)
    PROVE  IInv'
<1>1. call[k] \in Requests /\ Good("refresh", call[k])
  BY DEF IInv, TypeInv, CallsOK, Refresh, At
<1>2. UNCHANGED World /\ faults' \in 0..MaxFaults
  BY DEF Refresh, Calm, World, governance, table, gateway, IInv, TypeInv, TypeOK
<1>3. CASE Goto(k, "touch") /\ UNCHANGED call
  <2>1. Good("touch", call[k])
    BY <1>1 DEF Good, Planning, Answering, Roled, Classed, Building
  <2>2. call' = [call EXCEPT ![k] = call[k]]
    BY <1>3 DEF IInv, TypeInv
  <2>3. QED
    BY <1>1, <1>2, <1>3, <2>1, <2>2, RequestStep DEF Goto, Steps, Answering, Building
<1>4. CASE End(k)
  BY <1>2, <1>4, EndKeeps
<1>5. QED
  BY <1>3, <1>4 DEF Refresh

LEMMA StopKeeps ==
    ASSUME IInv, NEW k \in Calls, Reject(k) \/ Fail(k)
    PROVE  IInv'
<1>1. End(k) /\ UNCHANGED World
  BY DEF Reject, Fail, Calm, World, governance, table, gateway
<1>2. faults' \in 0..MaxFaults
  BY ResultSetsAssumption DEF Reject, Fail, Calm, IInv, TypeInv, TypeOK
<1>3. QED
  BY <1>1, <1>2, EndKeeps

----------------------------------------------------------------------------
(***************************************************************************)
(* Steps that leave the rules and the objects alone: calls go on or end,   *)
(* rows change their life or go, readers come if they may.                 *)
(***************************************************************************)

LEMMA Quiet ==
    ASSUME IInv, TypeInv', UNCHANGED <<rules, stamp, objects>>, data' >= data,
           \A i \in Ids : rows'[i] # None =>
               /\ rows[i] # None /\ rows'[i].key = rows[i].key
               /\ rows'[i].stamp = rows[i].stamp /\ rows'[i].by = rows[i].by,
           \A k \in Calls :
               \/ call'[k] = call[k] /\ pc'[k] = pc[k]
               \/ call'[k] = call[k] /\ pc[k] = "reader" /\ pc'[k] = "touch"
               \/ call'[k] = Blank /\ pc'[k] = "done",
           \A r \in readers' :
               r \in readers \/ (rows[r[1]].stamp = stamp => Proper(r[1], r[2]))
    PROVE  /\ CallsOK' /\ RowsOK'
           /\ \A i \in Ids : Settled(i) => Settled(i)'
           /\ \A i \in Ids, s \in Subs : Proper(i, s) => Proper(i, s)'
<1> USE DEF IInv
<1>1. ASSUME NEW i \in Ids, Settled(i) PROVE Settled(i)'
  BY <1>1 DEF Settled, Building
<1>2. ASSUME NEW i \in Ids, NEW s \in Subs, Proper(i, s) PROVE Proper(i, s)'
  BY <1>2 DEF Proper, Shown
<1>3. data \in Nat /\ data' \in Nat /\ stamp \in Nat
  BY ResultSetsAssumption DEF TypeInv, TypeOK
<1>4. ASSUME NEW k \in Calls PROVE Good(pc[k], call[k])'
  <2>1. Good(pc[k], call[k]) /\ call[k] \in Requests /\ pc[k] \in Planning \cup Answering \cup {"idle", "done"}
    BY DEF CallsOK, TypeInv
  <2>2. \A i \in Ids : rows'[i] # None => rows[i] # None /\ rows'[i].stamp = rows[i].stamp
    OBVIOUS
  <2>3. CASE call'[k] = call[k] /\ pc'[k] = pc[k]
    BY <1>1, <1>3, <2>1, <2>2, <2>3 DEF Fresh, Good, Stored, Shown, Requests
  <2>4. CASE call'[k] = call[k] /\ pc[k] = "reader" /\ pc'[k] = "touch"
    BY <1>1, <1>3, <2>1, <2>4
       DEF Fresh, Good, Stored, Shown, Requests, Planning, Answering, Roled, Classed, Building
  <2>5. CASE call'[k] = Blank /\ pc'[k] = "done"
    BY <1>3, <2>5, BlankIsARequest DEF Good, Planning, Answering, Roled, Classed, Building
  <2>6. QED
    BY <2>3, <2>4, <2>5
<1>5. CallsOK'
  BY <1>4 DEF CallsOK, Building
<1>6. ASSUME NEW i \in Ids, rows'[i] # None PROVE RowOK(i)'
  <2>1. RowOK(i) /\ rows'[i].key = rows[i].key /\ rows'[i].stamp = rows[i].stamp /\ rows'[i].by = rows[i].by
    BY <1>6 DEF RowsOK
  <2>2. Settled(i)' /\ i \in Stored'
    BY <1>1, <2>1 DEF RowOK, Stored
  <2>3. ASSUME rows'[i].stamp = stamp'
        PROVE  \E c \in Callers, q \in Queries :
                 /\ c.sub = rows'[i].by /\ objects'[i].view = Shown(c, q)'
                 /\ rows'[i].key.query = q /\ rows'[i].key.context = c.context
                 /\ rows'[i].key.class = Class(c, q)'
    <3>1. PICK c \in Callers, q \in Queries :
                 /\ c.sub = rows[i].by /\ objects[i].view = Shown(c, q)
                 /\ rows[i].key.query = q /\ rows[i].key.context = c.context
                 /\ rows[i].key.class = Class(c, q)
      BY <2>1, <2>3 DEF RowOK
    <3>2. Shown(c, q)' = Shown(c, q) /\ Class(c, q)' = Class(c, q)
      BY DEF Shown, Class
    <3>3. QED
      BY <2>1, <3>1, <3>2
  <2>4. QED
    BY <2>1, <2>2, <2>3 DEF Fresh, RowOK
<1>7. ASSUME NEW r \in readers', rows'[r[1]].stamp = stamp' PROVE Proper(r[1], r[2])'
  <2>1. r[1] \in Ids /\ r[2] \in Subs /\ rows'[r[1]] # None
    BY DEF TypeInv, TypeOK
  <2>2. rows[r[1]].stamp = stamp
    BY <1>7, <2>1
  <2>3. Proper(r[1], r[2])
    BY <2>2 DEF RowsOK
  <2>4. QED
    BY <1>2, <2>1, <2>3
<1>8. RowsOK'
  BY <1>6, <1>7 DEF RowsOK
<1>9. QED
  BY <1>1, <1>2, <1>5, <1>8

\* Most of those leave the gateway and the sweeper alone.
LEMMA OthersStay ==
    ASSUME IInv, UNCHANGED <<rules, stamp, objects, decisions, gate, sweep>>,
           \A i \in Ids : Settled(i) => Settled(i)',
           \A i \in Ids : rows[i] = None => rows'[i] = None
    PROVE  GatewayOK' /\ SweepOK'
<1>1. GatewayOK'
  BY DEF IInv, GatewayOK, Proper, Shown, Stored
<1>2. SweepOK'
  BY DEF IInv, SweepOK, TypeInv, Sweeps
<1>3. QED
  BY <1>1, <1>2

LEMMA CommitKeeps ==
    ASSUME IInv, Commit
    PROVE  IInv'
<1>1. data \in Nat /\ data' \in 0..MaxData /\ data' >= data
  BY ResultSetsAssumption DEF Commit, IInv, TypeInv, TypeOK
<1>2. UNCHANGED <<rules, stamp, rows, readers, objects, pc, call, decisions, gate, sweep, faults>>
  BY DEF Commit, governance, table, request, gateway
<1>3. TypeInv'
  BY <1>1, <1>2 DEF IInv, TypeInv, TypeOK
<1>4. /\ CallsOK' /\ RowsOK'
      /\ \A i \in Ids : Settled(i) => Settled(i)'
  BY <1>1, <1>2, <1>3, Quiet
<1>5. QED
  BY <1>2, <1>3, <1>4, OthersStay DEF IInv

\* A row of another life.
Aged(i, x) == [rows EXCEPT ![i].life = x]

LEMMA LifeKeepsType ==
    ASSUME TypeInv, NEW i \in Ids, rows[i] # None, NEW x \in {"live", "idle", "over"}
    PROVE  /\ Aged(i, x) \in [Ids -> Result \cup {None}]
           /\ \A j \in Ids : (Aged(i, x)[j] # None <=> rows[j] # None)
           /\ \A j \in Ids : Aged(i, x)[j] # None =>
                /\ Aged(i, x)[j].key = rows[j].key
                /\ Aged(i, x)[j].stamp = rows[j].stamp /\ Aged(i, x)[j].by = rows[j].by
<1> DEFINE new == [rows EXCEPT ![i].life = x]
<1>1. rows \in [Ids -> Result \cup {None}] /\ rows[i] \in Result
  BY DEF TypeInv, TypeOK
<1>2. [rows[i] EXCEPT !.life = x] \in Result
  BY <1>1 DEF Result
<1>3. new[i] = [rows[i] EXCEPT !.life = x] /\ \A j \in Ids \ {i} : new[j] = rows[j]
  BY <1>1
<1>4. new \in [Ids -> Result \cup {None}]
  BY <1>1, <1>2
<1>5. new[i] # None
  BY <1>2, <1>3, NoneAssumption
<1>6. new[i].key = rows[i].key /\ new[i].stamp = rows[i].stamp /\ new[i].by = rows[i].by
  BY <1>1, <1>3 DEF Result
<1> HIDE DEF new
<1>7. /\ new \in [Ids -> Result \cup {None}]
      /\ \A j \in Ids : (new[j] # None <=> rows[j] # None)
      /\ \A j \in Ids : new[j] # None =>
           /\ new[j].key = rows[j].key
           /\ new[j].stamp = rows[j].stamp /\ new[j].by = rows[j].by
  BY <1>3, <1>4, <1>5, <1>6
<1>8. QED
  BY <1>7 DEF new, Aged

LEMMA ExpireKeeps ==
    ASSUME IInv, NEW i \in Ids, Expire(i)
    PROVE  IInv'
<1>1. PICK x \in {"live", "idle", "over"} : rows' = Aged(i, x)
  BY DEF Expire, Aged
<1>2. UNCHANGED <<rules, stamp, data, readers, objects, pc, call, decisions, gate, sweep, faults>>
  BY DEF Expire, governance, request, gateway
<1>0. rows[i] # None /\ TypeInv
  BY DEF Expire, IInv
<1>3. /\ rows' \in [Ids -> Result \cup {None}]
      /\ \A j \in Ids : (rows'[j] # None <=> rows[j] # None)
      /\ \A j \in Ids : rows'[j] # None =>
           /\ rows'[j].key = rows[j].key
           /\ rows'[j].stamp = rows[j].stamp /\ rows'[j].by = rows[j].by
  BY <1>0, <1>1, LifeKeepsType
<1>4. TypeInv' /\ data' >= data
  BY <1>2, <1>3, ResultSetsAssumption DEF IInv, TypeInv, TypeOK
<1>5. /\ CallsOK' /\ RowsOK'
      /\ \A j \in Ids : Settled(j) => Settled(j)'
  BY <1>2, <1>3, <1>4, Quiet
<1>6. QED
  BY <1>2, <1>3, <1>4, <1>5, OthersStay DEF IInv

LEMMA TouchKeeps ==
    ASSUME IInv, NEW k \in Calls, Touch(k)
    PROVE  IInv'
<1>1. UNCHANGED <<rules, stamp, data, readers, objects, decisions, gate, sweep, faults>>
  BY DEF Touch, governance, gateway
<1>2. pc' = [pc EXCEPT ![k] = "done"] /\ call' = [call EXCEPT ![k] = Blank]
  BY DEF Touch, End, Goto, Set
<1>3. call[k].id \in Ids
  BY DEF IInv, CallsOK, Good, Touch, At, Answering
<1>4. /\ rows' \in [Ids -> Result \cup {None}]
      /\ \A j \in Ids : (rows'[j] # None <=> rows[j] # None)
      /\ \A j \in Ids : rows'[j] # None =>
           /\ rows'[j].key = rows[j].key
           /\ rows'[j].stamp = rows[j].stamp /\ rows'[j].by = rows[j].by
  <2>1. CASE rows[call[k].id] # None /\ rows[call[k].id].life = "idle"
    <3>1. rows' = Aged(call[k].id, "live")
      BY <2>1 DEF Touch, Aged
    <3>2. QED
      BY <1>3, <2>1, <3>1, LifeKeepsType DEF IInv
  <2>2. CASE ~ (rows[call[k].id] # None /\ rows[call[k].id].life = "idle")
    BY <2>2 DEF Touch, IInv, TypeInv, TypeOK
  <2>3. QED
    BY <2>1, <2>2
<1>5. /\ pc' \in [Calls -> Planning \cup Answering \cup {"idle", "done"}]
      /\ call' \in [Calls -> Requests]
  BY <1>2, BlankIsARequest DEF IInv, TypeInv
<1>6. \A j \in Calls :
          /\ pc'[j] \in Planning \cup Answering \cup {"idle", "done"}
          /\ call'[j].id \in Ids \cup {None} /\ call'[j].held \in BOOLEAN
  BY <1>5 DEF Requests
<1>7. TypeOK'
  BY <1>1, <1>4, <1>6 DEF IInv, TypeInv, TypeOK, Planning, Answering
<1>8. TypeInv'
  BY <1>1, <1>5, <1>7 DEF IInv, TypeInv
<1>9. \A j \in Calls : \/ call'[j] = call[j] /\ pc'[j] = pc[j]
                       \/ call'[j] = Blank /\ pc'[j] = "done"
  BY <1>2 DEF IInv, TypeInv
<1>10. data' >= data
  BY <1>1, ResultSetsAssumption DEF IInv, TypeInv, TypeOK
<1>11. /\ CallsOK' /\ RowsOK'
       /\ \A j \in Ids : Settled(j) => Settled(j)'
  BY <1>1, <1>4, <1>8, <1>9, <1>10, Quiet
<1>12. QED
  BY <1>1, <1>4, <1>8, <1>11, OthersStay DEF IInv

\* Who becomes a reader is shown the object under the rules in force, if the
\* result is from under them.
LEMMA AddReaderKeeps ==
    ASSUME IInv, NEW k \in Calls, AddReader(k)
    PROVE  IInv'
<1> DEFINE i == call[k].id
           s == call[k].caller.sub
<1>1. UNCHANGED <<rules, stamp, data, rows, objects, decisions, gate, sweep, faults>>
  BY DEF AddReader, governance, gateway
<1>2. pc[k] = "reader" /\ Good("reader", call[k]) /\ call[k] \in Requests
  BY DEF AddReader, At, IInv, CallsOK, TypeInv
<1>3. i \in Ids /\ s \in Subs /\ call[k].caller \in Callers
  BY <1>2 DEF Good, Answering, Subs
<1>4. CASE UNCHANGED readers /\ End(k)
  BY <1>1, <1>4, EndKeeps DEF World, IInv, TypeInv, TypeOK
<1>5. ASSUME pc' = [pc EXCEPT ![k] = "touch"], call' = call,
             readers' = readers \/ (readers' = readers \cup {<<i, s>>} /\ rows[i] # None)
      PROVE  IInv'
  <2>1. readers' \in SUBSET (Ids \X Subs) /\ \A r \in readers' : rows'[r[1]] # None
    BY <1>1, <1>3, <1>5 DEF IInv, TypeInv, TypeOK
  <2>2. pc' \in [Calls -> Planning \cup Answering \cup {"idle", "done"}]
    BY <1>5 DEF IInv, TypeInv, Answering
  <2>3. TypeOK'
    BY <1>1, <1>5, <2>1, <2>2 DEF IInv, TypeInv, TypeOK, Planning, Answering
  <2>4. TypeInv'
    BY <1>1, <1>5, <2>2, <2>3 DEF IInv, TypeInv
  <2>5. \A j \in Calls : \/ call'[j] = call[j] /\ pc'[j] = pc[j]
                         \/ call'[j] = call[j] /\ pc[j] = "reader" /\ pc'[j] = "touch"
    BY <1>2, <1>5 DEF IInv, TypeInv
  <2>6. ASSUME rows[i] # None, rows[i].stamp = stamp PROVE Proper(i, s)
    <3>1. i \in Stored
      BY <1>3, <2>6 DEF IInv, RowsOK, RowOK
    <3>2. PICK q \in Queries : objects[i].view = Shown(call[k].caller, q)
      BY <1>2, <2>6, <3>1 DEF Good
    <3>3. QED
      BY <1>3, <3>2 DEF Proper
  <2>7. \A r \in readers' : r \in readers \/ (rows[r[1]].stamp = stamp => Proper(r[1], r[2]))
    BY <1>5, <2>6
  <2>8. data' >= data
    BY <1>1, ResultSetsAssumption DEF IInv, TypeInv, TypeOK
  <2>9. \A j \in Ids : rows'[j] # None =>
          /\ rows[j] # None /\ rows'[j].key = rows[j].key
          /\ rows'[j].stamp = rows[j].stamp /\ rows'[j].by = rows[j].by
    BY <1>1
  <2>10. /\ CallsOK' /\ RowsOK'
         /\ \A j \in Ids : Settled(j) => Settled(j)'
    BY <1>1, <2>4, <2>5, <2>7, <2>8, <2>9, Quiet
  <2>11. QED
    BY <1>1, <2>4, <2>10, OthersStay DEF IInv
<1>6. QED
  BY <1>4, <1>5 DEF AddReader, Goto

----------------------------------------------------------------------------
(***************************************************************************)
(* The gateway and the sweeper.                                            *)
(***************************************************************************)

\* What both of them leave alone.
LEMMA Background ==
    ASSUME IInv, TypeInv', UNCHANGED <<rules, stamp, data, rows, readers, objects, pc, call>>
    PROVE  /\ CallsOK' /\ RowsOK'
           /\ \A i \in Ids : Settled(i) => Settled(i)'
           /\ \A i \in Ids, s \in Subs : Proper(i, s) => Proper(i, s)'
<1>1. data' >= data
  BY ResultSetsAssumption DEF IInv, TypeInv, TypeOK
<1>2. QED
  BY <1>1, Quiet

LEMMA SweepStays ==
    ASSUME IInv, UNCHANGED <<rows, sweep>>, \A i \in Ids : Settled(i) => Settled(i)'
    PROVE  SweepOK'
BY DEF IInv, SweepOK, TypeInv, Sweeps

LEMMA GateStays ==
    ASSUME IInv, UNCHANGED <<rules, stamp, objects, decisions, gate>>
    PROVE  GatewayOK'
BY DEF IInv, GatewayOK, Proper, Shown, Stored

\* The gateway reads the stamp of a row whose object the principal may see.
LEMMA KnockKeeps ==
    ASSUME IInv, Knock
    PROVE  IInv'
<1>1. /\ UNCHANGED <<rules, stamp, data, rows, readers, objects, pc, call, sweep, faults, decisions>>
      /\ TypeInv /\ RowsOK
  BY DEF Knock, Still, governance, table, request, IInv
<1>2. PICK s \in Subs, i \in { j \in Ids : objects[j] # None } :
          gate' = [pc |-> "stamp", sub |-> s, id |-> i,
                   found |-> IF Live(i) /\ MayRead(i, s) THEN rows[i].stamp ELSE None]
  BY DEF Knock
<1>3. i \in Ids /\ objects[i] # None
  BY <1>2
<1>4. rows[i] # None => rows[i].stamp \in Nat /\ rows[i].stamp <= stamp
  BY <1>1, <1>3, ResultSetsAssumption DEF TypeInv, TypeOK, RowsOK, RowOK, Result
<1>5. gate' \in Gates /\ gate'.pc = "stamp" /\ gate'.sub = s /\ gate'.id = i
      /\ (gate'.found # None => gate'.found <= stamp)
      /\ (gate'.found \in Nat => rows[i] # None /\ MayRead(i, s) /\ gate'.found = rows[i].stamp)
  <2>1. CASE Live(i) /\ MayRead(i, s)
    <3>1. gate' = [pc |-> "stamp", sub |-> s, id |-> i, found |-> rows[i].stamp]
      BY <1>2, <2>1
    <3>2. rows[i] # None
      BY <2>1 DEF Live
    <3>3. QED
      BY <1>2, <1>3, <1>4, <2>1, <3>1, <3>2 DEF Gates
  <2>2. CASE ~ (Live(i) /\ MayRead(i, s))
    <3>1. gate' = [pc |-> "stamp", sub |-> s, id |-> i, found |-> None]
      BY <1>2, <2>2
    <3>2. None \notin Nat
      BY NoneAssumption
    <3>3. QED
      BY <1>2, <1>3, <3>1, <3>2 DEF Gates
  <2>3. QED
    BY <2>1, <2>2
<1>6. TypeOK'
  BY <1>1, <1>5 DEF TypeInv, TypeOK
<1>7. TypeInv'
  BY <1>1, <1>5, <1>6 DEF TypeInv
<1>8. ASSUME gate'.found = stamp PROVE Proper(i, s)
  <2>1. rows[i] # None /\ MayRead(i, s) /\ rows[i].stamp = stamp
    BY <1>1, <1>5, <1>8, ResultSetsAssumption DEF TypeInv, TypeOK
  <2>2. CASE rows[i].by = s
    <3>1. PICK c \in Callers, q \in Queries : c.sub = rows[i].by /\ objects[i].view = Shown(c, q)
      BY <1>1, <1>3, <2>1 DEF RowsOK, RowOK
    <3>2. QED
      BY <2>2, <3>1 DEF Proper
  <2>3. CASE <<i, s>> \in readers
    <3>1. rows[<<i, s>>[1]].stamp = stamp
      BY <2>1
    <3>2. Proper(<<i, s>>[1], <<i, s>>[2])
      BY <1>1, <2>3, <3>1 DEF RowsOK
    <3>3. QED
      BY <3>2
  <2>4. QED
    BY <2>1, <2>2, <2>3 DEF MayRead
<1>9. GatewayOK'
  <2>1. Proper(i, s) => Proper(i, s)'
    BY <1>1 DEF Proper, Shown
  <2>2. QED
    BY <1>1, <1>2, <1>3, <1>5, <1>8, <2>1 DEF GatewayOK, IInv
<1>10. CallsOK' /\ RowsOK' /\ \A j \in Ids : Settled(j) => Settled(j)'
  BY <1>1, <1>7, Background
<1>11. QED
  BY <1>1, <1>7, <1>9, <1>10, SweepStays DEF IInv

LEMMA JudgeKeeps ==
    ASSUME IInv, Judge
    PROVE  IInv'
<1> DEFINE d == <<gate.sub, gate.id, gate.found = stamp>>
<1>1. /\ UNCHANGED <<rules, stamp, data, rows, readers, objects, pc, call, sweep, faults>>
      /\ gate' = Waiting /\ gate.pc = "stamp"
      /\ decisions' = IF Cardinality(decisions) >= CacheMax THEN {d} ELSE decisions \cup {d}
  BY DEF Judge, Decide, Put, Still, governance, table, request
<1>2. d \in Subs \X Ids \X BOOLEAN /\ objects[d[2]] # None
  BY <1>1 DEF IInv, GatewayOK
<1> HIDE DEF d
<1>3. IsFiniteSet(decisions) /\ Cardinality(decisions) \in Nat /\ CacheMax \in Nat \ {0}
  BY FS_CardinalityType, ResultSetsAssumption DEF IInv, TypeInv
<1>4. IsFiniteSet(decisions') /\ Cardinality(decisions') <= CacheMax
  <2>1. CASE Cardinality(decisions) >= CacheMax
    <3>1. decisions' = {d}
      BY <1>1, <2>1
    <3>2. IsFiniteSet({d}) /\ Cardinality({d}) = 1
      BY FS_Singleton
    <3>3. QED
      BY <1>3, <3>1, <3>2
  <2>2. CASE ~ (Cardinality(decisions) >= CacheMax)
    <3>1. decisions' = decisions \cup {d}
      BY <1>1, <2>2
    <3>2. /\ IsFiniteSet(decisions \cup {d})
          /\ \/ Cardinality(decisions \cup {d}) = Cardinality(decisions)
             \/ Cardinality(decisions \cup {d}) = Cardinality(decisions) + 1
      BY <1>3, FS_AddElement
    <3>3. QED
      BY <1>3, <2>2, <3>1, <3>2
  <2>3. QED
    BY <2>1, <2>2
<1>5. decisions' \in SUBSET (Subs \X Ids \X BOOLEAN) /\ \A e \in decisions' : objects[e[2]] # None
  BY <1>1, <1>2 DEF IInv, TypeInv, TypeOK, GatewayOK
<1>6. gate' \in Gates /\ gate'.pc = "idle"
  BY <1>1 DEF Waiting, Gates
<1>7. TypeOK'
  BY <1>1, <1>4, <1>5, <1>6 DEF IInv, TypeInv, TypeOK
<1>8. TypeInv'
  BY <1>1, <1>4, <1>6, <1>7 DEF IInv, TypeInv
<1>9. GatewayOK'
  BY <1>1, <1>5, <1>6 DEF GatewayOK
<1>10. CallsOK' /\ RowsOK' /\ \A j \in Ids : Settled(j) => Settled(j)'
  BY <1>1, <1>8, Background
<1>11. QED
  BY <1>1, <1>8, <1>9, <1>10, SweepStays DEF IInv

LEMMA ForgetKeeps ==
    ASSUME IInv, Forget
    PROVE  IInv'
<1>1. PICK d \in decisions : decisions' = decisions \ {d}
  BY DEF Forget
<1>2. UNCHANGED <<rules, stamp, data, rows, readers, objects, pc, call, sweep, faults, gate>>
  BY DEF Forget, Still, governance, table, request
<1>3. IsFiniteSet(decisions) /\ Cardinality(decisions) \in Nat /\ Cardinality(decisions) <= CacheMax
  BY FS_CardinalityType DEF IInv, TypeInv, TypeOK
<1>4. IsFiniteSet(decisions \ {d}) /\ Cardinality(decisions \ {d}) = Cardinality(decisions) - 1
  BY <1>3, FS_RemoveElement
<1>5. Cardinality(decisions') <= CacheMax
  BY <1>1, <1>3, <1>4, ResultSetsAssumption
<1>6. TypeOK'
  BY <1>1, <1>2, <1>5 DEF IInv, TypeInv, TypeOK
<1>7. TypeInv'
  BY <1>1, <1>2, <1>4, <1>6 DEF IInv, TypeInv
<1>8. GatewayOK'
  BY <1>1, <1>2 DEF IInv, GatewayOK, Proper, Shown, Stored
<1>9. CallsOK' /\ RowsOK' /\ \A j \in Ids : Settled(j) => Settled(j)'
  BY <1>2, <1>7, Background
<1>10. QED
  BY <1>2, <1>7, <1>8, <1>9, SweepStays DEF IInv

\* What the sweeper chooses, nothing is uploaded or inserted under any more:
\* a row is of a build that has ended, an orphan is not of one that goes on.
LEMMA SweepPlanKeeps ==
    ASSUME IInv, Select \/ ReadLive \/ SweepFails
    PROVE  IInv'
<1>1. UNCHANGED <<rules, stamp, data, rows, readers, objects, pc, call, decisions, gate>>
  BY DEF Select, ReadLive, SweepFails, Aside, governance, table, request, gateway
<1>2. faults' \in 0..MaxFaults
  BY <1>1, ResultSetsAssumption DEF Select, ReadLive, SweepFails, Aside, IInv, TypeInv, TypeOK
<1>3. /\ sweep' \in Sweeps /\ sweep'.pc # "delete"
      /\ \A i \in sweep'.chosen : Settled(i) /\ (sweep'.pc = "orphans" => rows[i] = None)
  <2>1. CASE Select
    <3>1. sweep'.pc = "purge" /\ sweep'.chosen = { i \in Ids : rows[i] # None /\ rows[i].life # "live" }
      BY <2>1 DEF Select, Awake
    <3>2. sweep' \in Sweeps
      BY <2>1 DEF Select, Awake, Sweeps
    <3>3. \A i \in sweep'.chosen : Settled(i)
      BY <3>1 DEF IInv, RowsOK, RowOK
    <3>4. QED
      BY <3>1, <3>2, <3>3
  <2>2. CASE ReadLive
    <3>1. sweep'.pc = "orphans" /\ sweep'.chosen = (Stored \cap Rowless) \ Young
      BY <2>2 DEF ReadLive, IInv, TypeInv, Sweeps
    <3>2. sweep' \in Sweeps
      BY <2>2 DEF ReadLive, IInv, TypeInv, Sweeps, Stored, Rowless
    <3>3. ASSUME NEW i \in sweep'.chosen PROVE Settled(i) /\ rows[i] = None
      <4>1. i \in Stored /\ rows[i] = None /\ i \notin Young
        BY <3>1, <3>3 DEF Rowless
      <4>2. objects[i] # None
        BY <4>1 DEF Stored
      <4>3. ASSUME NEW k \in Calls, pc[k] \in Building PROVE call[k].id # i
        <5>1. CASE pc[k] = "copy"
          BY <4>2, <5>1 DEF IInv, CallsOK, Good
        <5>2. CASE pc[k] = "insert"
          BY <4>1, <5>2 DEF Young, At
        <5>3. QED
          BY <4>3, <5>1, <5>2 DEF Building
      <4>4. QED
        BY <4>1, <4>2, <4>3 DEF Settled
    <3>4. QED
      BY <3>1, <3>2, <3>3
  <2>3. CASE SweepFails
    BY <2>3 DEF SweepFails, Awake, Sweeps
  <2>4. QED
    BY <2>1, <2>2, <2>3
<1>4. TypeInv'
  <2>1. sweep'.pc \in {"idle", "purge", "delete", "orphans"}
    BY <1>3 DEF Sweeps
  <2>2. TypeOK'
    BY <1>1, <1>2, <2>1 DEF IInv, TypeInv, TypeOK
  <2>3. QED
    BY <1>1, <1>3, <2>2 DEF IInv, TypeInv
<1>5. CallsOK' /\ RowsOK' /\ \A j \in Ids : Settled(j) => Settled(j)'
  BY <1>1, <1>4, Background
<1>6. SweepOK'
  BY <1>1, <1>3, <1>5 DEF SweepOK, Sweeps
<1>7. QED
  BY <1>1, <1>4, <1>5, <1>6, GateStays DEF IInv

LEMMA PurgeRowKeeps ==
    ASSUME IInv, PurgeRow
    PROVE  IInv'
<1>1. UNCHANGED <<rules, stamp, data, objects, pc, call, decisions, gate, faults>>
  BY DEF PurgeRow, Aside, governance, request, gateway
<1>2. PICK i \in sweep.chosen :
          /\ rows' = [rows EXCEPT ![i] = None]
          /\ readers' = { r \in readers : r[1] # i }
          /\ sweep' = [sweep EXCEPT !.pc = "delete", !.chosen = @ \ {i}, !.id = i]
  BY DEF PurgeRow
<1>3. i \in Ids /\ Settled(i)
  BY <1>2 DEF IInv, SweepOK, TypeInv, Sweeps
<1>4. /\ rows' \in [Ids -> Result \cup {None}] /\ rows'[i] = None
      /\ \A j \in Ids : j # i => rows'[j] = rows[j]
  BY <1>2, <1>3 DEF IInv, TypeInv, TypeOK
<1>5. /\ sweep' \in Sweeps /\ sweep'.pc = "delete" /\ sweep'.id = i
      /\ sweep'.chosen = sweep.chosen \ {i} 
  BY <1>2, <1>3 DEF IInv, TypeInv, Sweeps
<1>6. readers' \in SUBSET (Ids \X Subs) /\ \A r \in readers' : r \in readers /\ rows'[r[1]] # None
  BY <1>2, <1>4 DEF IInv, TypeInv, TypeOK
<1>7. TypeOK'
  BY <1>1, <1>4, <1>5, <1>6 DEF IInv, TypeInv, TypeOK
<1>8. TypeInv' /\ data' >= data
  BY <1>1, <1>5, <1>7, ResultSetsAssumption DEF IInv, TypeInv, TypeOK
<1>9. CallsOK' /\ RowsOK' /\ \A j \in Ids : Settled(j) => Settled(j)'
  <2>1. \A j \in Ids : rows'[j] # None => rows[j] # None /\ rows'[j] = rows[j]
    BY <1>4
  <2>2. QED
    BY <1>1, <1>6, <1>8, <2>1, Quiet
<1>10. SweepOK'
  BY <1>3, <1>4, <1>5, <1>9 DEF SweepOK, IInv, TypeInv, Sweeps
<1>11. QED
  BY <1>1, <1>8, <1>9, <1>10, GateStays DEF IInv

----------------------------------------------------------------------------
(***************************************************************************)
(* Steps that change the rules, the objects or what rows there are.        *)
(***************************************************************************)

\* A request whose object is left alone.
LEMMA GoodMoves ==
    ASSUME NEW l, NEW b, Good(l, b), UNCHANGED <<rules, stamp, data, rows>>,
           l \in Building \cup Answering => objects'[b.id] = objects[b.id],
           l \in Answering => Settled(b.id)'
    PROVE  Good(l, b)'
<1>1. Shown(b.caller, b.query)' = Shown(b.caller, b.query)
      /\ \A q : Shown(b.caller, q)' = Shown(b.caller, q)
  BY DEF Shown
<1>2. l \in Building \cup Answering => (b.id \in Stored' <=> b.id \in Stored)
  BY DEF Stored
<1>3. QED
  BY <1>1, <1>2 DEF Fresh, Good, Building, Answering

\* A row whose object is left alone.
LEMMA RowMoves ==
    ASSUME NEW i, RowOK(i), UNCHANGED <<rules, stamp>>, rows'[i] = rows[i],
           objects'[i] = objects[i], Settled(i)'
    PROVE  RowOK(i)'
<1>1. \A c, q : Shown(c, q)' = Shown(c, q) /\ Class(c, q)' = Class(c, q)
  BY DEF Shown, Class
<1>2. i \in Stored' <=> i \in Stored
  BY DEF Stored
<1>3. QED
  BY <1>1, <1>2 DEF Fresh, RowOK

\* A change of the rules outdates whatever was read before it.
LEMMA GovernKeeps ==
    ASSUME IInv, Govern
    PROVE  IInv'
<1>1. /\ UNCHANGED <<data, rows, readers, objects, pc, call, decisions, gate, sweep, faults>>
      /\ stamp' = stamp + 1 /\ stamp \in Nat /\ rules' \in Regimes /\ stamp' \in 0..MaxStamp
  BY ResultSetsAssumption DEF Govern, table, request, gateway, IInv, TypeInv, TypeOK
<1>2. TypeOK'
  BY <1>1 DEF IInv, TypeInv, TypeOK
<1>3. TypeInv'
  BY <1>1, <1>2 DEF IInv, TypeInv
<1>4. \A i \in Ids : Settled(i) => Settled(i)'
  BY <1>1 DEF Settled
<1>5. ASSUME NEW k \in Calls PROVE Good(pc[k], call[k])'
  <2>1. Good(pc[k], call[k]) /\ call[k].stamp \in Nat
    BY DEF IInv, CallsOK, TypeInv, Requests
  <2>2. call[k].stamp # stamp' /\ call[k].stamp <= stamp'
    BY <1>1, <2>1 DEF Good
  <2>3. \A i \in Ids : rows[i] # None => rows[i].stamp \in Nat /\ rows[i].stamp <= stamp
    BY ResultSetsAssumption DEF IInv, TypeInv, TypeOK, Result, RowsOK, RowOK
  <2>4. \A i \in Ids : rows[i] # None => rows[i].stamp # stamp'
    BY <1>1, <2>3
  <2>5. QED
    BY <1>1, <1>4, <2>1, <2>2, <2>4 DEF Fresh, Good, Stored, Answering
<1>6. CallsOK'
  BY <1>1, <1>5 DEF IInv, CallsOK
<1>7. RowsOK'
  <2>1. ASSUME NEW i \in Ids, rows[i] # None PROVE RowOK(i)' /\ rows[i].stamp # stamp'
    <3>1. RowOK(i) /\ rows[i].stamp \in Nat
      BY <2>1, ResultSetsAssumption DEF IInv, TypeInv, TypeOK, Result, RowsOK
    <3>2. rows[i].stamp < stamp'
      BY <1>1, <3>1 DEF RowOK
    <3>3. QED
      BY <1>1, <1>4, <3>1, <3>2 DEF Fresh, RowOK, Stored
  <2>2. \A r \in readers : r[1] \in Ids /\ rows[r[1]] # None
    BY DEF IInv, TypeInv, TypeOK
  <2>3. QED
    BY <1>1, <2>1, <2>2 DEF RowsOK
<1>8. GatewayOK'
  <2>1. gate.found \in Nat \cup {None}
    BY DEF IInv, TypeInv, Gates
  <2>2. gate.pc = "stamp" => gate.found # stamp' /\ (gate.found # None => gate.found <= stamp')
    BY <1>1, <2>1, NoneAssumption DEF IInv, GatewayOK
  <2>3. QED
    BY <1>1, <2>2 DEF IInv, GatewayOK
<1>9. SweepOK'
  BY <1>1, <1>4, SweepStays
<1>10. QED
  BY <1>3, <1>6, <1>7, <1>8, <1>9 DEF IInv

\* What a build uploads, no other request, row or sweep knows of.
LEMMA CopyKeeps ==
    ASSUME IInv, NEW k \in Calls, Copy(k)
    PROVE  IInv'
<1> DEFINE o == call[k].id
<1>0. PICK n \in DataRead(call[k]) :
          objects' = [objects EXCEPT ![o] =
                        [view |-> call[k].view, data |-> n, exported |-> call[k].exported]]
  BY DEF Copy
<1> DEFINE c == [view |-> call[k].view, data |-> n, exported |-> call[k].exported]
<1>1. UNCHANGED <<rules, stamp, data, rows, readers, call, decisions, gate, sweep, faults>>
  BY DEF Copy, governance, table, gateway
<1>2. /\ Good("copy", call[k]) /\ call \in [Calls -> Requests] /\ pc \in [Calls -> Steps]
      /\ pc[k] = "copy" /\ pc' = [pc EXCEPT ![k] = "insert"]
  BY DEF Copy, At, Goto, IInv, CallsOK, TypeInv, Steps
<1>3. /\ o \in Ids /\ objects[o] = None /\ call[k].view \in Views
      /\ call[k].data \in Nat /\ call[k].data <= data /\ data \in 0..MaxData
      /\ call[k].exported \in BOOLEAN
  BY <1>2 DEF Good, Building, Requests, IInv, TypeInv, TypeOK
<1>read. n \in 0..MaxData /\ (~ call[k].exported => n = data)
  BY <1>3, ResultSetsAssumption DEF DataRead
<1>4. /\ c \in Content /\ c.view = call[k].view /\ c.data = n /\ c.exported = call[k].exported
      /\ c # None /\ c # Deleted
  BY <1>3, <1>read, NoneAssumption DEF Content
<1>5. objects' = [objects EXCEPT ![o] = c]
  BY <1>0
<1> HIDE DEF c
<1>6. /\ objects' \in [Ids -> Content \cup {None, Deleted}] /\ objects'[o] = c
      /\ \A i \in Ids : i # o => objects'[i] = objects[i]
  BY <1>3, <1>4, <1>5 DEF IInv, TypeInv, TypeOK
<1>7. o \in Stored'
  BY <1>3, <1>4, <1>6 DEF Stored
<1>8. pc' \in [Calls -> Steps] /\ pc'[k] = "insert" /\ \A j \in Calls : j # k => pc'[j] = pc[j]
  BY <1>2 DEF Steps, Planning
<1>9. TypeOK'
  BY <1>1, <1>6, <1>8 DEF IInv, TypeInv, TypeOK, Steps, Planning, Answering
<1>10. TypeInv'
  BY <1>1, <1>8, <1>9 DEF IInv, TypeInv, Steps
<1>11. ASSUME NEW i \in Ids, Settled(i) PROVE i # o /\ objects'[i] = objects[i] /\ Settled(i)'
  <2>1. i # o
    BY <1>3, <1>11 DEF Settled
  <2>2. QED
    BY <1>1, <1>2, <1>6, <1>8, <1>11, <2>1 DEF Settled, Building
<1>12. ASSUME NEW j \in Calls PROVE Good(pc[j], call[j])'
  <2>1. Good(pc[j], call[j])
    BY DEF IInv, CallsOK
  <2>2. CASE j = k
    <3>1. pc'[j] = "insert" /\ call'[j] = call[k] /\ UNCHANGED <<rules, stamp, data>>
      BY <1>1, <1>8, <2>2
    <3>2. objects'[o].view = call[k].view /\ Fresh(o, call[k].data)'
      BY <1>1, <1>3, <1>4, <1>6, <1>read DEF Fresh
    <3>3. /\ call[k].stamp <= stamp /\ call[k].data <= data
          /\ call[k].caller \in Callers /\ call[k].query \in Queries
          /\ call[k].stamp = stamp =>
              /\ call[k].granted = rules.granted[call[k].caller.sub]
              /\ (call[k].shared <=> call[k].query \notin Asking /\ ~ rules.session)
              /\ call[k].view = Shown(call[k].caller, call[k].query)
      BY <1>2 DEF Good, Planning, Roled, Classed, Building
    <3>4. Shown(call[k].caller, call[k].query)' = Shown(call[k].caller, call[k].query)
      BY <3>1, <2>2 DEF Shown
    <3>5. QED
      BY <1>3, <1>7, <2>2, <3>1, <3>2, <3>3, <3>4
         DEF Good, Planning, Answering, Roled, Classed, Building
  <2>3. CASE j # k
    <3>1. pc[j] \in Building => call[j].id # o
      BY <1>2, <2>3 DEF IInv, CallsOK, Building
    <3>2. pc'[j] = pc[j] /\ call'[j] = call[j] /\ UNCHANGED <<rules, stamp, data, rows>>
      BY <1>1, <1>8, <2>3
    <3>3. pc[j] \in Building => call[j].id \in Ids /\ objects'[call[j].id] = objects[call[j].id]
      BY <1>6, <2>1, <3>1 DEF Good
    <3>4. pc[j] \in Answering =>
            /\ call[j].id \in Ids /\ Settled(call[j].id)'
            /\ objects'[call[j].id] = objects[call[j].id]
      BY <1>11, <2>1, <3>2 DEF Good
    <3>5. Good(pc[j], call[j])'
      <4>1. pc[j] \in Building \cup Answering => objects'[call[j].id] = objects[call[j].id]
        BY <3>3, <3>4
      <4>2. QED
        BY <2>1, <3>2, <3>4, <4>1, GoodMoves
    <3>6. QED
      BY <3>5
  <2>4. QED
    BY <2>2, <2>3
<1>13. CallsOK'
  BY <1>1, <1>2, <1>8, <1>12 DEF IInv, CallsOK, Building
<1>14. RowsOK'
  <2>1. ASSUME NEW i \in Ids, RowOK(i) PROVE RowOK(i)' /\ \A s \in Subs : Proper(i, s) => Proper(i, s)'
    <3>1. Settled(i)' /\ objects'[i] = objects[i]
      BY <1>11, <2>1 DEF RowOK
    <3>2. QED
      BY <1>1, <2>1, <3>1, RowMoves DEF Proper, Shown
  <2>2. \A r \in readers : r[1] \in Ids /\ r[2] \in Subs /\ rows[r[1]] # None
    BY DEF IInv, TypeInv, TypeOK
  <2>3. QED
    BY <1>1, <2>1, <2>2 DEF IInv, RowsOK
<1>15. GatewayOK'
  <2>1. \A i \in Ids : objects[i] # None => i # o /\ objects'[i] = objects[i]
    BY <1>3, <1>6
  <2>2. \A d \in decisions : d[2] \in Ids
    BY DEF IInv, TypeInv, TypeOK
  <2>3. QED
    BY <1>1, <2>1, <2>2 DEF IInv, GatewayOK, Proper, Shown, Stored
<1>16. SweepOK'
  BY <1>1, <1>11, SweepStays
<1>17. QED
  BY <1>10, <1>13, <1>14, <1>15, <1>16 DEF IInv

\* The row of a build that has ended: nobody knew of its identifier.
LEMMA InsertKeeps ==
    ASSUME IInv, NEW k \in Calls, Insert(k)
    PROVE  IInv'
<1>0. PICK b \in Requests : b = call[k]
  BY DEF IInv, TypeInv
<1> DEFINE o == b.id
           r == Row(b, b.stamp)
<1>1. UNCHANGED <<rules, stamp, data, readers, objects, decisions, gate, sweep, faults>>
  BY DEF Insert, governance, gateway
<1>2. /\ Good("insert", b) /\ b \in Requests /\ pc[k] = "insert"
      /\ call \in [Calls -> Requests] /\ pc \in [Calls -> Steps] /\ data \in Nat /\ stamp \in 0..MaxStamp
  BY <1>0, ResultSetsAssumption DEF Insert, At, IInv, CallsOK, TypeInv, TypeOK, Steps
<1>3. /\ o \in Ids /\ o \in Stored /\ objects[o].view = b.view /\ Fresh(o, b.data)
      /\ b.caller \in Callers /\ b.query \in Queries /\ b.stamp <= stamp
  BY <1>2 DEF Good, Building, Planning, Answering
<1>4. b.stamp = stamp =>
        /\ b.granted = rules.granted[b.caller.sub]
        /\ (b.shared <=> b.query \notin Asking /\ ~ rules.session)
        /\ b.view = Shown(b.caller, b.query)
  BY <1>2 DEF Good, Roled, Classed, Building, Planning
<1>5. Key(b) \in Keys /\ Key(b).query = b.query /\ Key(b).context = b.caller.context
      /\ Key(b).stamp = b.stamp /\ Key(b).data = b.data
      /\ Key(b).class = IF b.shared THEN [granted |-> b.granted] ELSE [sub |-> b.caller.sub]
  <2>1. b.granted \in Grants /\ b.caller.sub \in Subs /\ b.stamp \in Nat /\ b.data \in Nat
    BY <1>2, <1>3 DEF Requests, Subs
  <2>2. (IF b.shared THEN [granted |-> b.granted] ELSE [sub |-> b.caller.sub])
            \in [granted : Grants] \cup [sub : Subs]
    BY <2>1
  <2>3. QED
    BY <1>3, <2>1, <2>2 DEF Key, Keys
<1>6. /\ r \in Result /\ r.key = Key(b) /\ r.stamp = b.stamp /\ r.by = b.caller.sub
  <2>1. b.stamp \in 0..MaxStamp
    BY <1>2, <1>3, ResultSetsAssumption DEF Requests
  <2>2. Reusable(b) \in BOOLEAN /\ b.caller.sub \in Subs
    BY <1>3 DEF Reusable, Subs
  <2>3. QED
    BY <1>5, <2>1, <2>2 DEF Row, Result
<1>7. rows' = [rows EXCEPT ![o] = r] /\ pc' = [pc EXCEPT ![k] = "done"] /\ call' = [call EXCEPT ![k] = Blank]
  BY <1>0 DEF Insert, End, Goto, Set
<1> HIDE DEF r
<1>8. /\ rows' \in [Ids -> Result \cup {None}] /\ rows'[o] = r /\ r # None
      /\ \A i \in Ids : i # o => rows'[i] = rows[i]
  BY <1>3, <1>6, <1>7, NoneAssumption DEF IInv, TypeInv, TypeOK
<1>9. /\ pc' \in [Calls -> Steps] /\ call' \in [Calls -> Requests] /\ pc'[k] = "done" /\ call'[k] = Blank
      /\ \A j \in Calls : j # k => pc'[j] = pc[j] /\ call'[j] = call[j]
  BY <1>2, <1>7, BlankIsARequest DEF Steps
<1>10. TypeOK'
  <2>1. \A j \in Calls : pc'[j] \in Steps /\ call'[j].id \in Ids \cup {None} /\ call'[j].held \in BOOLEAN
    BY <1>9 DEF Requests
  <2>2. \A e \in readers : e[1] \in Ids /\ rows'[e[1]] # None
    BY <1>8 DEF IInv, TypeInv, TypeOK
  <2>3. QED
    BY <1>1, <1>8, <2>1, <2>2 DEF IInv, TypeInv, TypeOK, Steps, Planning, Answering
<1>11. TypeInv'
  BY <1>1, <1>9, <1>10 DEF IInv, TypeInv, Steps
<1>12. ASSUME NEW i \in Ids, Settled(i) PROVE i # o /\ rows'[i] = rows[i] /\ Settled(i)'
  <2>1. i # o
    BY <1>0, <1>2, <1>12 DEF Settled, Building
  <2>2. QED
    BY <1>1, <1>8, <1>9, <1>12, <2>1 DEF Settled, Building
<1>13. \A j \in Calls : j # k /\ pc[j] \in Building => call[j].id # o
  BY <1>0, <1>2 DEF IInv, CallsOK, Building
<1>14. Settled(o)'
  <2>1. objects[o] # None
    BY <1>3 DEF Stored
  <2>2. QED
    BY <1>1, <1>9, <1>13, <2>1 DEF Settled, Building
<1>15. RowOK(o)'
  <2>1. o \in Stored' /\ objects'[o] = objects[o] /\ rows'[o] = r /\ UNCHANGED <<rules, stamp>>
    BY <1>1, <1>3, <1>8 DEF Stored
  <2>2. ASSUME b.stamp = stamp PROVE Key(b).class = Class(b.caller, b.query)
    BY <1>4, <1>5, <2>2 DEF Class
  <2>3. \A c \in Callers, q \in Queries : Shown(c, q)' = Shown(c, q) /\ Class(c, q)' = Class(c, q)
    BY <1>1 DEF Shown, Class
  <2>4. ASSUME r.stamp = stamp
        PROVE  \E c \in Callers, q \in Queries :
                /\ c.sub = r.by /\ objects[o].view = Shown(c, q)
                /\ r.key.query = q /\ r.key.context = c.context
                /\ r.key.class = Class(c, q)
    BY <1>3, <1>4, <1>5, <1>6, <2>2, <2>4
  <2>5. r.stamp <= stamp /\ r.key.stamp = r.stamp /\ Fresh(o, r.key.data)
    BY <1>3, <1>5, <1>6
  <2>6. QED
    BY <1>14, <2>1, <2>3, <2>4, <2>5 DEF Fresh, RowOK
<1>16. RowsOK'
  <2>1. \A i \in Ids : rows'[i] # None => RowOK(i)'
    <3>1. ASSUME NEW i \in Ids, i # o, rows'[i] # None PROVE RowOK(i)'
      <4>1. RowOK(i) /\ rows'[i] = rows[i]
        BY <1>8, <3>1 DEF IInv, RowsOK
      <4>2. Settled(i)' /\ objects'[i] = objects[i] /\ UNCHANGED <<rules, stamp>>
        BY <1>1, <1>12, <4>1 DEF RowOK
      <4>3. QED
        BY <4>1, <4>2, RowMoves
    <3>2. QED
      BY <1>15, <3>1
  <2>2. ASSUME NEW e \in readers, rows'[e[1]].stamp = stamp' PROVE Proper(e[1], e[2])'
    <3>1. e[1] \in Ids /\ rows[e[1]] # None
      BY DEF IInv, TypeInv, TypeOK
    <3>2. rows'[e[1]] = rows[e[1]]
      BY <1>12, <3>1 DEF IInv, RowsOK, RowOK
    <3>3. Proper(e[1], e[2])
      BY <1>1, <2>2, <3>2 DEF IInv, RowsOK
    <3>4. QED
      BY <1>1, <3>3 DEF Proper, Shown
  <2>3. QED
    BY <1>1, <2>1, <2>2 DEF RowsOK
<1>17. ASSUME NEW j \in Calls PROVE Good(pc[j], call[j])'
  <2>1. CASE j = k
    BY <1>1, <1>2, <1>9, <2>1, BlankIsARequest DEF Good, Planning, Answering, Roled, Classed, Building
  <2>2. CASE j # k
    <3>1. Good(pc[j], call[j]) /\ pc'[j] = pc[j] /\ call'[j] = call[j]
      BY <1>9, <2>2 DEF IInv, CallsOK
    <3>2. pc[j] \in Answering => call[j].id \in Ids /\ Settled(call[j].id)
      BY <3>1 DEF Good
    <3>3. pc[j] \in Answering => rows'[call[j].id] = rows[call[j].id] /\ Settled(call[j].id)'
      BY <1>12, <3>1, <3>2
    <3>4. \A q : Shown(call[j].caller, q)' = Shown(call[j].caller, q)
      BY <1>1, <3>1 DEF Shown
    <3>5. QED
      BY <1>1, <3>1, <3>3, <3>4 DEF Fresh, Good, Stored, Answering
  <2>3. QED
    BY <2>1, <2>2
<1>18. CallsOK'
  BY <1>9, <1>17 DEF IInv, CallsOK, Building
<1>19. SweepOK'
  <2>1. \A i \in sweep.chosen : i \in Ids
    BY DEF IInv, TypeInv, Sweeps
  <2>2. QED
    BY <1>1, <1>12, <2>1 DEF IInv, SweepOK
<1>20. QED
  BY <1>1, <1>11, <1>16, <1>18, <1>19, GateStays DEF IInv

\* Objects the sweeper deletes: of no row, and no build's.
LEMMA WithoutKeeps ==
    ASSUME IInv, NEW S \in SUBSET Ids, objects' = Without(S),
           \A i \in S : Settled(i) /\ rows[i] = None,
           UNCHANGED <<rules, stamp, data, rows, readers, pc, call, decisions, gate, faults>>,
           sweep' \in Sweeps, sweep'.pc # "delete", sweep'.chosen \subseteq sweep.chosen,
           sweep'.pc # "orphans"
    PROVE  IInv'
<1>1. /\ objects' \in [Ids -> Content \cup {None, Deleted}]
      /\ \A i \in Ids \ S : objects'[i] = objects[i]
      /\ \A i \in Ids : objects[i] = None <=> objects'[i] = None
  <2>1. \A i \in Ids : objects'[i] = IF i \in S \cap Stored THEN Deleted ELSE objects[i]
    BY DEF Without
  <2>2. \A i \in Ids : objects[i] \in Content \cup {None, Deleted}
    BY DEF IInv, TypeInv, TypeOK
  <2>3. \A i \in Ids : objects[i] = None <=> objects'[i] = None
    BY <2>1, NoneAssumption DEF Stored
  <2>4. objects' \in [Ids -> Content \cup {None, Deleted}]
    BY <2>1, <2>2 DEF Without
  <2>5. QED
    BY <2>1, <2>3, <2>4
<1>2. \A i \in Ids : i \in Stored' => i \in Stored /\ objects'[i] = objects[i]
  BY <1>1 DEF Without, Stored
<1>3. sweep'.pc \in {"idle", "purge", "delete", "orphans"}
  BY DEF Sweeps
<1>4. TypeOK'
  BY <1>1, <1>3 DEF IInv, TypeInv, TypeOK
<1>5. TypeInv'
  BY <1>4 DEF IInv, TypeInv
<1>6. \A i \in Ids : Settled(i) => Settled(i)'
  BY <1>1 DEF Settled
<1>7. ASSUME NEW j \in Calls PROVE Good(pc[j], call[j])'
  <2>1. Good(pc[j], call[j])
    BY DEF IInv, CallsOK
  <2>2. pc[j] \in Building => call[j].id \in Ids \ S
    BY <2>1 DEF Good, Settled
  <2>3. pc[j] \in Building => objects'[call[j].id] = objects[call[j].id]
    BY <1>1, <2>2
  <2>4. pc[j] \in Answering => call[j].id \in Ids /\ Settled(call[j].id)'
    BY <1>6, <2>1 DEF Good
  <2>5. \A q : Shown(call[j].caller, q)' = Shown(call[j].caller, q)
    BY DEF Shown
  <2>6. CASE pc[j] \in Building
    BY <1>2, <2>1, <2>2, <2>3, <2>5, <2>6, GoodMoves DEF Building, Answering
  <2>7. CASE pc[j] \notin Building
    BY <1>2, <2>1, <2>4, <2>5, <2>7 DEF Fresh, Good, Building, Answering, Roled, Classed, Planning
  <2>8. QED
    BY <2>6, <2>7
<1>8. CallsOK'
  BY <1>7 DEF IInv, CallsOK
<1>9. RowsOK'
  <2>1. ASSUME NEW i \in Ids, rows[i] # None PROVE RowOK(i)' /\ objects'[i] = objects[i]
    <3>1. RowOK(i) /\ objects'[i] = objects[i] /\ Settled(i)'
      BY <1>1, <1>6, <2>1 DEF IInv, RowsOK, RowOK
    <3>2. QED
      BY <3>1, RowMoves
  <2>2. ASSUME NEW e \in readers, rows[e[1]].stamp = stamp PROVE Proper(e[1], e[2])'
    <3>1. e[1] \in Ids /\ rows[e[1]] # None /\ Proper(e[1], e[2])
      BY <2>2 DEF IInv, TypeInv, TypeOK, RowsOK
    <3>2. QED
      BY <2>1, <3>1 DEF Proper, Shown
  <2>3. QED
    BY <2>1, <2>2 DEF RowsOK
<1>10. GatewayOK'
  <2>1. \A d \in decisions : d[2] \in Ids /\ objects'[d[2]] # None
    BY <1>1 DEF IInv, TypeInv, TypeOK, GatewayOK
  <2>2. gate.pc = "stamp" => gate.id \in Ids /\ objects'[gate.id] # None
    BY <1>1 DEF IInv, GatewayOK
  <2>3. ASSUME gate.pc = "stamp", gate.found = stamp, gate.id \in Stored'
        PROVE  Proper(gate.id, gate.sub)'
    BY <1>2, <2>2, <2>3 DEF IInv, GatewayOK, Proper, Shown
  <2>4. QED
    BY <2>1, <2>2, <2>3 DEF IInv, GatewayOK
<1>11. SweepOK'
  BY <1>6 DEF IInv, TypeInv, Sweeps, SweepOK
<1>12. QED
  BY <1>5, <1>8, <1>9, <1>10, <1>11 DEF IInv

LEMMA PurgeObjectsKeeps ==
    ASSUME IInv, PurgeObjects \/ DeleteOrphans
    PROVE  IInv'
<1>1. UNCHANGED <<rules, stamp, data, rows, readers, pc, call, decisions, gate, faults>>
  BY DEF PurgeObjects, DeleteOrphans, Aside, governance, table, request, gateway
<1>2. CASE PurgeObjects
  <2>1. sweep.pc = "delete" /\ sweep.id \in Ids /\ Settled(sweep.id) /\ rows[sweep.id] = None
    BY <1>2 DEF PurgeObjects, IInv, SweepOK
  <2>2. sweep' \in Sweeps /\ sweep'.pc = "purge" /\ sweep'.chosen = sweep.chosen
    BY <1>2 DEF PurgeObjects, IInv, TypeInv, Sweeps
  <2>3. objects' = Without({sweep.id})
    BY <1>2 DEF PurgeObjects
  <2>4. QED
    BY <1>1, <2>1, <2>2, <2>3, WithoutKeeps
<1>3. CASE DeleteOrphans
  <2>1. sweep' \in Sweeps /\ sweep'.pc = "idle" /\ sweep'.chosen = {}
    BY <1>3 DEF DeleteOrphans, Awake, Sweeps
  <2>2. sweep.chosen \in SUBSET Ids /\ \A i \in sweep.chosen : Settled(i) /\ rows[i] = None
    BY <1>3 DEF DeleteOrphans, IInv, TypeInv, Sweeps, SweepOK
  <2>3. objects' = Without(sweep.chosen)
    BY <1>3 DEF DeleteOrphans
  <2>4. QED
    BY <1>1, <2>1, <2>2, <2>3, WithoutKeeps
<1>4. QED
  BY <1>2, <1>3

----------------------------------------------------------------------------
\* Every request, row, decision and choice of the sweeper is either of rules
\* that no longer hold or what the rules in force say; that is what makes
\* RowsHaveTheirFile, AnswersAreFresh and the refinement inductive.
THEOREM Invariance == Spec => []IInv
<1>1. IInv /\ [Next]_vars => IInv'
  <2> SUFFICES ASSUME IInv, [Next]_vars PROVE IInv'
    OBVIOUS
  <2>1. ASSUME NEW k \in Calls, Serving(k) \/ Fail(k) PROVE IInv'
    BY <2>1, RequestKeeps, PlanKeeps, LookupKeeps, VendKeeps, CopyKeeps, InsertKeeps, StopKeeps,
       AddReaderKeeps, TouchKeeps, GetKeeps, RefreshKeeps DEF Serving
  <2>2. ASSUME Gateway PROVE IInv'
    BY <2>2, KnockKeeps, JudgeKeeps, ForgetKeeps DEF Gateway
  <2>3. ASSUME Sweeper \/ SweepFails PROVE IInv'
    BY <2>3, SweepPlanKeeps, PurgeRowKeeps, PurgeObjectsKeeps DEF Sweeper
  <2>4. ASSUME UNCHANGED vars PROVE IInv'
    <3>1. UNCHANGED <<rules, stamp, data, rows, readers, objects, pc, call, decisions, gate, sweep, faults>>
      BY <2>4 DEF vars, governance, table, request, gateway
    <3>2. TypeInv'
      BY <3>1 DEF IInv, TypeInv, TypeOK
    <3>3. CallsOK' /\ RowsOK' /\ \A i \in Ids : Settled(i) => Settled(i)'
      BY <3>1, <3>2, Background
    <3>4. QED
      BY <3>1, <3>2, <3>3, GateStays, SweepStays DEF IInv
  <2>5. QED
    BY <2>1, <2>2, <2>3, <2>4, GovernKeeps, CommitKeeps, ExpireKeeps DEF Next, Done
<1>2. QED
  BY <1>1, Initially, PTL DEF Spec

\* The variables have their types.
THEOREM TypeCorrect == Spec => []TypeOK
<1>1. IInv => TypeOK
  BY DEF IInv, TypeInv
<1>2. QED
  BY <1>1, Invariance, PTL

\* The sweeper never deletes the object of a result whose row it leaves.
THEOREM RowsKeepTheirFile == Spec => []RowsHaveTheirFile
<1>1. IInv => RowsHaveTheirFile
  BY DEF IInv, RowsOK, RowOK, RowsHaveTheirFile
<1>2. QED
  BY <1>1, Invariance, PTL

\* An answer, from whichever build, is at least as new as the data version
\* its request read, unless it was built from masked exports.
THEOREM FreshAnswers == Spec => []AnswersAreFresh
<1>1. IInv => AnswersAreFresh
  BY DEF IInv, CallsOK, Good, Fresh, Answering, AnswersAreFresh
<1>2. QED
  BY <1>1, Invariance, PTL

----------------------------------------------------------------------------
(***************************************************************************)
(* The cache implements GovernedReads.                                     *)
(***************************************************************************)

Shows(d) == [to |-> d[1], what |-> objects[d[2]].view]
Serves(d) == d[3] /\ d[2] \in Stored

LEMMA PermittedIs == Permitted = { Shows(d) : d \in { x \in decisions : Serves(x) } }
BY DEF Permitted, Shows, Serves

\* An upload is of an identifier no decision is about; a deletion takes away.
LEMMA ObjectsShrink ==
    ASSUME IInv, UNCHANGED decisions,
           \A i \in Ids : objects[i] # None /\ i \in Stored' => i \in Stored /\ objects'[i] = objects[i]
    PROVE  Permitted' \in SUBSET Permitted
<1>1. \A d \in decisions : d[2] \in Ids /\ objects[d[2]] # None
  BY DEF IInv, TypeInv, TypeOK, GatewayOK
<1>2. ASSUME NEW d \in decisions, Serves(d)' PROVE Serves(d) /\ Shows(d)' = Shows(d)
  BY <1>1, <1>2 DEF Serves, Shows
<1>3. \A p \in Permitted' : \E d \in decisions : Serves(d)' /\ p = Shows(d)'
  BY DEF Permitted, Shows, Serves
<1>4. \A d \in decisions : Serves(d) => Shows(d) \in Permitted
  BY PermittedIs
<1>5. QED
  BY <1>2, <1>3, <1>4

LEMMA JudgePermits ==
    ASSUME IInv, Judge
    PROVE  Reads!Permit \/ Reads!Lapse
<1>1. /\ UNCHANGED <<rules, stamp, objects>> /\ gate.pc = "stamp"
      /\ decisions' = IF Cardinality(decisions) >= CacheMax
                      THEN {<<gate.sub, gate.id, gate.found = stamp>>}
                      ELSE decisions \cup {<<gate.sub, gate.id, gate.found = stamp>>}
  BY DEF Judge, Decide, Put, Still, governance
<1>2. PICK d \in Subs \X Ids \X BOOLEAN : d = <<gate.sub, gate.id, gate.found = stamp>>
  <2>1. gate.sub \in Subs /\ gate.id \in Ids /\ (gate.found = stamp) \in BOOLEAN
    BY <1>1 DEF IInv, GatewayOK
  <2>2. <<gate.sub, gate.id, gate.found = stamp>> \in Subs \X Ids \X BOOLEAN
    BY <2>1
  <2>3. QED
    BY <2>2
<1>3. PICK old \in SUBSET decisions : decisions' = old \cup {d}
  <2>1. decisions' = {} \cup {d} \/ decisions' = decisions \cup {d}
    BY <1>1, <1>2
  <2>2. QED
    BY <2>1
<1> DEFINE kept == { Shows(e) : e \in { x \in old : Serves(x) } }
<1>4. kept \in SUBSET Permitted
  BY PermittedIs
<1>5. \A x : Serves(x)' = Serves(x) /\ Shows(x)' = Shows(x)
  BY <1>1 DEF Serves, Shows, Stored
<1>6. Permitted' = { Shows(e) : e \in { x \in old \cup {d} : Serves(x) } }
  BY <1>3, <1>5 DEF Permitted, Serves, Shows
<1>7. CASE Serves(d)
  <2>1. gate.found = stamp /\ gate.id \in Stored /\ d[2] = gate.id /\ d[1] = gate.sub
    BY <1>2, <1>7 DEF Serves
  <2>2. PICK c \in Callers, q \in Queries : c.sub = gate.sub /\ objects[gate.id].view = Shown(c, q)
    BY <1>1, <2>1 DEF IInv, GatewayOK, Proper
  <2>3. Shows(d) = [to |-> c.sub, what |-> Reads!View(rules, stamp, c, q)]
    BY <2>1, <2>2 DEF Shows, Shown
  <2>4. Permitted' = kept \cup {Shows(d)}
    BY <1>6, <1>7
  <2>5. QED
    BY <1>1, <1>4, <2>3, <2>4 DEF Reads!Permit
<1>8. CASE ~ Serves(d)
  <2>1. Permitted' = kept
    BY <1>6, <1>8
  <2>2. QED
    BY <1>1, <1>4, <2>1 DEF Reads!Lapse
<1>9. QED
  BY <1>7, <1>8

\* What the gateway lets a principal read is what a query of theirs returned
\* under the rules that held when it decided, whatever requests, builds
\* shared between principals, changes and sweeps do meanwhile.
THEOREM Refinement == Spec => ServedAsGoverned
<1>1. Init => Reads!Init
  BY ResultSetsAssumption DEF Init, Reads!Init, Permitted
<1>2. IInv /\ [Next]_vars => [Reads!Next]_(Reads!vars)
  <2> SUFFICES ASSUME IInv, [Next]_vars PROVE [Reads!Next]_(Reads!vars)
    OBVIOUS
  <2>1. ASSUME UNCHANGED <<rules, stamp, objects, decisions>> PROVE UNCHANGED Reads!vars
    BY <2>1 DEF Reads!vars, Permitted, Stored
  <2>2. CASE Govern
    <3>1. rules' \in Regimes /\ stamp' = stamp + 1 /\ UNCHANGED <<objects, decisions>>
      BY <2>2 DEF Govern, gateway
    <3>2. UNCHANGED Permitted
      BY <3>1 DEF Permitted, Stored
    <3>3. QED
      BY <3>1, <3>2 DEF Reads!Next, Reads!Change
  <2>3. CASE Judge
    BY <2>3, JudgePermits DEF Reads!Next
  <2>4. CASE Forget
    <3>1. UNCHANGED <<rules, stamp, objects>> /\ decisions' \subseteq decisions
      BY <2>4 DEF Forget, Still, governance
    <3>2. Permitted' \in SUBSET Permitted
      BY <3>1 DEF Permitted, Stored
    <3>3. QED
      BY <3>1, <3>2 DEF Reads!Next, Reads!Lapse
  <2>5. CASE \E k \in Calls : Copy(k)
    <3>1. PICK k \in Calls : Copy(k)
      BY <2>5
    <3>2. /\ UNCHANGED <<rules, stamp, decisions>> /\ call[k].id \in Ids /\ objects[call[k].id] = None
          /\ \E new : objects' = [objects EXCEPT ![call[k].id] = new]
      BY <3>1 DEF Copy, At, governance, gateway, IInv, CallsOK, Good, Building
    <3>3. \A i \in Ids : objects[i] # None => objects'[i] = objects[i]
      BY <3>2 DEF IInv, TypeInv, TypeOK
    <3>4. Permitted' \in SUBSET Permitted
      BY <3>2, <3>3, ObjectsShrink DEF Stored
    <3>5. QED
      BY <3>2, <3>4 DEF Reads!Next, Reads!Lapse
  <2>6. CASE PurgeObjects \/ DeleteOrphans
    <3>1. UNCHANGED <<rules, stamp, decisions>> /\ \E S \in SUBSET Ids : objects' = Without(S)
      BY <2>6 DEF PurgeObjects, DeleteOrphans, Aside, governance, gateway,
                  IInv, SweepOK, TypeInv, Sweeps
    <3>2. \A i \in Ids : i \in Stored' => i \in Stored /\ objects'[i] = objects[i]
      BY <3>1 DEF Without, Stored
    <3>3. Permitted' \in SUBSET Permitted
      BY <3>1, <3>2, ObjectsShrink
    <3>4. QED
      BY <3>1, <3>3 DEF Reads!Next, Reads!Lapse
  <2>7. ASSUME NEW k \in Calls, Serving(k) \/ Fail(k), ~ Copy(k)
        PROVE  UNCHANGED <<rules, stamp, objects, decisions>>
    BY <2>7 DEF Serving, Fail, Request, ReadRoles, Shareable, DataVersion, Lookup, Acquire,
                LookupAgain, Vend, Insert, Reject, AddReader, Touch, Get, Refresh, Calm,
                governance, gateway
  <2>8. ASSUME Commit \/ (\E i \in Ids : Expire(i)) \/ Knock \/ Select \/ PurgeRow \/ ReadLive
               \/ SweepFails \/ UNCHANGED vars
        PROVE  UNCHANGED <<rules, stamp, objects, decisions>>
    BY <2>8 DEF Commit, Expire, Knock, Still, Select, PurgeRow, ReadLive, SweepFails, Aside, vars,
                governance, gateway
  <2>9. QED
    BY <2>1, <2>2, <2>3, <2>4, <2>5, <2>6, <2>7, <2>8 DEF Next, Gateway, Sweeper, Done
<1>3. QED
  BY <1>1, <1>2, Invariance, PTL DEF Spec, ServedAsGoverned, Reads!Spec
=============================================================================
