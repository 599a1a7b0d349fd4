------------------------ MODULE ServerProcess_proofs ------------------------
(***************************************************************************)
(* Proofs about what a server process keeps of its own: the dictionaries   *)
(* of catalog contexts (CatalogRegistry), and the arm of row security with *)
(* the readers' roles (ReaderRls, ReaderRoles).                            *)
(*                                                                         *)
(* Of the first, for any number of catalogs, contexts, requests and        *)
(* background passes, and any cap; of the second, types with the ownership *)
(* of the lock, and ReadersArePoliced, for any number of processes, vends, *)
(* tables and interrupts.                                                  *)
(***************************************************************************)
EXTENDS CatalogRegistry, ReaderRoles, FiniteSetTheorems, TLAPS

----------------------------------------------------------------------------
(***************************************************************************)
(* The inductive invariant of CatalogRegistry.                             *)
(***************************************************************************)

\* Dictionaries a and r, when contexts have the catalogs o and the leases n: a
\* context is filed under its own catalog, in one of them.
Filed(a, r, n, o) ==
    \A c \in Catalogs :
        /\ a[c] # NoContext => o[a[c]] = c
        /\ r[c] # NoContext =>
             /\ o[r[c]] = c
             /\ n[r[c]] > 0
             /\ a[c] = NoContext

Present(x, a, r, o) == a[o[x]] = x \/ r[o[x]] = x

DictionariesOK == Filed(active, retired, leases, of)
Registered(x) == Present(x, active, retired, of)

\* What a request holds has not been forgotten.
HeldOK == \A t \in Leases : held[t] # NoContext => Registered(held[t])

\* A context that has been built is its builder's alone.
Untouched(x) == ~ Registered(x) /\ ~ duck[x] /\ ~ pool[x] /\ ~ flag[x]

UserOK(u) ==
    /\ pc[u] \in {"built", "connect", "duck", "pool", "use"} => ctx[u] \in Contexts
    /\ pc[u] = "built" =>
         /\ of[ctx[u]] = want[u]
         /\ Untouched(ctx[u])
         /\ \A v \in Users \ {u} : ctx[v] # ctx[u]
    /\ pc[u] = "pool" /\ Registered(ctx[u]) => duck[ctx[u]]

\* A request holds what it was given last.
RequestOK(r) ==
    /\ pc[r] \in {"get", "resolve", "built"} => gets[r] < MaxGets[r]
    /\ \A k \in 1 .. MaxGets[r] : k > gets[r] => held[<<r, k>>] = NoContext
    /\ pc[r] \in {"connect", "duck", "pool", "use"} =>
         /\ gets[r] \in 1 .. MaxGets[r]
         /\ held[<<r, gets[r]>>] = ctx[r]
    /\ pc[r] = "use" => duck[ctx[r]]

\* Of a registered context the DuckDB connection is the first to be there, and
\* while it is alone somebody is building the pool.
ConnectionsOK ==
    \A x \in Contexts :
        Registered(x) =>
            /\ pool[x] \/ flag[x] => duck[x]
            /\ duck[x] /\ ~ pool[x] => \E u \in Users : pc[u] = "pool" /\ ctx[u] = x

UsersOK == \A u \in Users : UserOK(u)
RequestsOK == \A r \in Requests : RequestOK(r)

IInv ==
    /\ TypeOK
    /\ LeasesAreCounted
    /\ DictionariesOK /\ HeldOK
    /\ UsersOK /\ RequestsOK /\ ConnectionsOK
----------------------------------------------------------------------------
(***************************************************************************)
(* Evictions and revivals.                                                 *)
(***************************************************************************)

\* An eviction retires what is leased and closes the rest, and nothing else.
LEMMA EvictionFiles ==
    ASSUME NEW a \in [Catalogs -> Maybe], NEW r \in [Catalogs -> Maybe],
           NEW n \in [Contexts -> Nat], NEW o \in [Contexts -> Catalogs],
           Filed(a, r, n, o), NEW S \in SUBSET { c \in Catalogs : a[c] # NoContext }
    PROVE  /\ Kept(S, a) \in [Catalogs -> Maybe]
           /\ Deferred(S, a, r, n) \in [Catalogs -> Maybe]
           /\ Closed(S, a, n) \subseteq Contexts
           /\ \A x \in Closed(S, a, n) : n[x] = 0
           /\ Filed(Kept(S, a), Deferred(S, a, r, n), n, o)
           /\ \A x \in Contexts :
                Present(x, Kept(S, a), Deferred(S, a, r, n), o)
                  <=> Present(x, a, r, o) /\ x \notin Closed(S, a, n)
<1> DEFINE k == Kept(S, a)
           d == Deferred(S, a, r, n)
<1>1. /\ k \in [Catalogs -> Maybe] /\ d \in [Catalogs -> Maybe]
      /\ \A c \in Catalogs : k[c] = IF c \in S THEN NoContext ELSE a[c]
      /\ \A c \in Catalogs : d[c] = IF c \in S /\ n[a[c]] > 0 THEN a[c] ELSE r[c]
  <2>1. k \in [Catalogs -> Maybe] /\ \A c \in Catalogs : k[c] = IF c \in S THEN NoContext ELSE a[c]
    BY DEF Kept, Maybe
  <2>2. \A c \in Catalogs : (IF c \in S /\ n[a[c]] > 0 THEN a[c] ELSE r[c]) \in Maybe
    OBVIOUS
  <2>3. d \in [Catalogs -> Maybe]
    BY <2>2, Zenon DEF Deferred
  <2>4. \A c \in Catalogs : d[c] = IF c \in S /\ n[a[c]] > 0 THEN a[c] ELSE r[c]
    BY Zenon DEF Deferred
  <2>5. QED
    BY <2>1, <2>3, <2>4
<1>2. /\ \A c \in S : c \in Catalogs /\ a[c] \in Contexts /\ o[a[c]] = c
                     /\ r[c] = NoContext /\ n[a[c]] \in Nat
      /\ NoContext \notin Contexts
  BY ConstantsAssumption DEF Filed, Maybe
<1>3. Closed(S, a, n) \subseteq Contexts /\ \A x \in Closed(S, a, n) : n[x] = 0
  BY <1>2 DEF Closed
<1> HIDE DEF k, d
<1>4. Filed(k, d, n, o)
  BY <1>1, <1>2 DEF Filed
<1>5. ASSUME NEW x \in Contexts
      PROVE  Present(x, k, d, o) <=> Present(x, a, r, o) /\ x \notin Closed(S, a, n)
  <2>1. o[x] \in Catalogs /\ x # NoContext
    BY <1>2
  <2>2. CASE o[x] \in S
    <3>1. x \in Closed(S, a, n) <=> x = a[o[x]] /\ n[x] = 0
      BY <1>2, <2>2 DEF Closed
    <3>2. QED
      BY <1>1, <1>2, <2>1, <2>2, <3>1 DEF Present
  <2>3. CASE o[x] \notin S
    <3>1. x \notin Closed(S, a, n)
      BY <1>2, <2>3 DEF Closed
    <3>2. QED
      BY <1>1, <2>1, <2>3, <3>1 DEF Present
  <2>4. QED
    BY <2>2, <2>3
<1>6. QED
  BY <1>1, <1>3, <1>4, <1>5 DEF k, d

\* A look-up finds the context of its catalog, revived if need be; a miss can
\* file another one there.
LEMMA LookUpFiles ==
    ASSUME NEW a \in [Catalogs -> Maybe], NEW r \in [Catalogs -> Maybe],
           NEW n, NEW o \in [Contexts -> Catalogs],
           Filed(a, r, n, o), NEW c \in Catalogs, NEW x \in Contexts, o[x] = c,
           Found(c, a, r) \in {NoContext, x}
    PROVE  LET a2 == [a EXCEPT ![c] = x]
               r2 == WithoutRevived(c, a, r)
           IN  /\ a2 \in [Catalogs -> Maybe] /\ r2 \in [Catalogs -> Maybe]
               /\ Filed(a2, r2, n, o)
               /\ \A y \in Contexts : Present(y, a2, r2, o) <=> Present(y, a, r, o) \/ y = x
<1> DEFINE a2 == [a EXCEPT ![c] = x]
           r2 == WithoutRevived(c, a, r)
<1>1. /\ a2 \in [Catalogs -> Maybe] /\ r2 \in [Catalogs -> Maybe]
      /\ \A d \in Catalogs : a2[d] = IF d = c THEN x ELSE a[d]
      /\ \A d \in Catalogs : r2[d] = IF d = c /\ a[c] = NoContext THEN NoContext ELSE r[d]
  BY DEF WithoutRevived, Maybe
<1>2. /\ x # NoContext
      /\ a[c] = NoContext \/ (a[c] = x /\ r[c] = NoContext)
      /\ a[c] = NoContext => r[c] \in {NoContext, x}
  BY ConstantsAssumption DEF Found, Filed
<1> HIDE DEF a2, r2
<1>3. Filed(a2, r2, n, o)
  BY <1>1, <1>2 DEF Filed
<1>4. ASSUME NEW y \in Contexts
      PROVE  Present(y, a2, r2, o) <=> Present(y, a, r, o) \/ y = x
  <2>1. o[y] \in Catalogs /\ y # NoContext
    BY ConstantsAssumption
  <2>2. QED
    BY <1>1, <1>2, <2>1 DEF Present
<1>5. QED
  BY <1>1, <1>3, <1>4 DEF a2, r2

\* More leases do no harm.
LEMMA MoreLeasesFile ==
    ASSUME NEW a \in [Catalogs -> Maybe], NEW r \in [Catalogs -> Maybe],
           NEW n \in [Contexts -> Nat], NEW m \in [Contexts -> Nat], NEW o,
           \A x \in Contexts : n[x] <= m[x], Filed(a, r, n, o)
    PROVE  Filed(a, r, m, o)
<1>1. \A c \in Catalogs : r[c] # NoContext => r[c] \in Contexts /\ n[r[c]] > 0 /\ m[r[c]] > 0
  BY DEF Filed, Maybe
<1>2. QED
  BY <1>1 DEF Filed

----------------------------------------------------------------------------
(***************************************************************************)
(* Counting leases.                                                        *)
(***************************************************************************)

LEMMA LeaseIn == \A r \in Requests : \A k \in 1 .. MaxGets[r] : <<r, k>> \in Leases
<1> SUFFICES ASSUME NEW r \in Requests, NEW k \in 1 .. MaxGets[r] PROVE <<r, k>> \in Leases
  OBVIOUS
<1>1. <<r, k>> \in {r} \X (1 .. MaxGets[r])
  OBVIOUS
<1>2. {r} \X (1 .. MaxGets[r]) \in { {q} \X (1 .. MaxGets[q]) : q \in Requests }
  OBVIOUS
<1>3. QED
  BY <1>1, <1>2, Zenon DEF Leases

LEMMA HoldersFinite == \A x : IsFiniteSet(Holders(x)) /\ Holders(x) \subseteq Leases
<1> SUFFICES ASSUME NEW x PROVE IsFiniteSet(Holders(x)) /\ Holders(x) \subseteq Leases
  OBVIOUS
<1>1. Holders(x) \in SUBSET Leases
  BY DEF Holders
<1>2. QED
  BY <1>1, FS_Subset, ConstantsAssumption

\* When h is what is held and the leases n count it, what is held is leased.
LEMMA HeldIsLeased ==
    ASSUME NEW h \in [Leases -> Maybe], NEW n \in [Contexts -> Nat],
           \A x \in Contexts : n[x] = Cardinality({ v \in Leases : h[v] = x }),
           NEW t \in Leases, h[t] # NoContext
    PROVE  h[t] \in Contexts /\ n[h[t]] > 0
<1> DEFINE H == { v \in Leases : h[v] = h[t] }
<1>1. h[t] \in Contexts /\ t \in H /\ H \in SUBSET Leases
  BY DEF Maybe
<1> HIDE DEF H
<1>2. Cardinality(H) # 0
  BY <1>1, FS_Subset, FS_EmptySet, ConstantsAssumption
<1>3. n[h[t]] = Cardinality(H)
  BY <1>1 DEF H
<1>4. QED
  BY <1>1, <1>2, <1>3

LEMMA HoldType ==
    ASSUME TypeOK, NEW u \in Users, NEW x \in Contexts, leases' = Leased(u, x), Hold(u, x)
    PROVE  /\ leases' \in [Contexts -> Nat] /\ \A y \in Contexts : leases[y] <= leases'[y]
           /\ gets' \in [Users -> Nat]
           /\ held' \in [Leases -> Maybe]
           /\ ctx' \in [Users -> Maybe]
<1>1. leases' \in [Contexts -> Nat] /\ \A y \in Contexts : leases[y] <= leases'[y]
  <2>1. leases' = [leases EXCEPT ![x] = leases[x] + 1] \/ leases' = leases
    BY DEF Leased
  <2>2. QED
    BY <2>1 DEF TypeOK
<1>2. gets' \in [Users -> Nat] /\ ctx' \in [Users -> Maybe]
  BY DEF TypeOK, Hold, Maybe
<1>3. held' \in [Leases -> Maybe]
  <2>1. held' = [held EXCEPT ![<<u, gets[u] + 1>>] = x] \/ held' = held
    BY DEF Hold
  <2>2. x \in Maybe
    BY DEF Maybe
  <2>3. QED
    BY <2>1, <2>2 DEF TypeOK
<1>4. QED
  BY <1>1, <1>2, <1>3

\* A request that is given a context counts as one more.
LEMMA HoldCounts ==
    ASSUME TypeOK, LeasesAreCounted, NEW u \in Users, NEW x \in Contexts,
           u \in Requests => <<u, gets[u] + 1>> \in Leases /\ held[<<u, gets[u] + 1>>] = NoContext,
           leases' = Leased(u, x), Hold(u, x)
    PROVE  LeasesAreCounted'
<1>1. CASE u \notin Requests
  BY <1>1 DEF LeasesAreCounted, Leased, Hold, Holders
<1>2. CASE u \in Requests
  <2> DEFINE t == <<u, gets[u] + 1>>
  <2>1. t \in Leases /\ held[t] = NoContext /\ held' = [held EXCEPT ![t] = x]
    BY <1>2 DEF Hold
  <2> HIDE DEF t
  <2>2. x # NoContext
    BY ConstantsAssumption
  <2>3. { v \in Leases : held'[v] = x } = Holders(x) \cup {t} /\ t \notin Holders(x)
    BY <2>1, <2>2 DEF Holders, TypeOK
  <2>4. Cardinality(Holders(x) \cup {t}) = Cardinality(Holders(x)) + 1
    BY <2>3, HoldersFinite, FS_AddElement
  <2>5. \A y \in Contexts : y # x => { v \in Leases : held'[v] = y } = Holders(y)
    <3>1. \A y \in Contexts : y # NoContext
      BY ConstantsAssumption
    <3>2. QED
      BY <2>1, <3>1 DEF Holders, TypeOK
  <2>6. leases' = [leases EXCEPT ![x] = leases[x] + 1]
    BY <1>2 DEF Leased
  <2>7. ASSUME NEW y \in Contexts PROVE leases'[y] = Cardinality({ v \in Leases : held'[v] = y })
    <3>1. leases[y] = Cardinality(Holders(y))
      BY DEF LeasesAreCounted
    <3>2. CASE y = x
      BY <2>3, <2>4, <2>6, <3>1, <3>2 DEF TypeOK
    <3>3. CASE y # x
      BY <2>5, <2>6, <3>1, <3>3 DEF TypeOK
    <3>4. QED
      BY <3>2, <3>3
  <2>8. QED
    BY <2>7 DEF LeasesAreCounted, Holders
<1>3. QED
  BY <1>1, <1>2

\* A release takes the one lease it gives back.
LEMMA ReleaseCounts ==
    ASSUME TypeOK, LeasesAreCounted, NEW t \in Leases, NEW x \in Contexts, held[t] = x,
           leases' = [leases EXCEPT ![x] = Taken(@)],
           held' = [held EXCEPT ![t] = NoContext]
    PROVE  /\ LeasesAreCounted'
           /\ leases[x] > 0 /\ leases'[x] = leases[x] - 1 /\ Taken(leases[x]) = leases[x] - 1
           /\ \A y \in Contexts : y # x => leases'[y] = leases[y]
<1>1. x # NoContext /\ t \in Holders(x)
  BY ConstantsAssumption DEF Holders
<1>2. leases[x] > 0 /\ leases[x] \in Nat
  BY <1>1, HeldIsLeased DEF TypeOK, LeasesAreCounted, Holders
<1>3. /\ leases'[x] = leases[x] - 1 /\ Taken(leases[x]) = leases[x] - 1
      /\ \A y \in Contexts : y # x => leases'[y] = leases[y]
  BY <1>2 DEF Taken, TypeOK
<1>4. { v \in Leases : held'[v] = x } = Holders(x) \ {t}
  BY <1>1 DEF Holders, TypeOK
<1>5. Cardinality(Holders(x) \ {t}) = Cardinality(Holders(x)) - 1
  BY <1>1, HoldersFinite, FS_RemoveElement
<1>6. \A y \in Contexts : y # x => { v \in Leases : held'[v] = y } = Holders(y)
  <2>1. \A y \in Contexts : y # NoContext
    BY ConstantsAssumption
  <2>2. QED
    BY <1>1, <2>1 DEF Holders, TypeOK
<1>7. ASSUME NEW y \in Contexts PROVE leases'[y] = Cardinality({ v \in Leases : held'[v] = y })
  <2>1. leases[y] = Cardinality(Holders(y))
    BY DEF LeasesAreCounted
  <2>2. CASE y = x
    BY <1>3, <1>4, <1>5, <2>1, <2>2
  <2>3. CASE y # x
    BY <1>3, <1>6, <2>1, <2>3
  <2>4. QED
    BY <2>2, <2>3
<1>8. QED
  BY <1>2, <1>3, <1>7 DEF LeasesAreCounted, Holders

----------------------------------------------------------------------------
(***************************************************************************)
(* The two sections of get.                                                *)
(***************************************************************************)

LEMMA DisconnectType ==
    ASSUME NEW X, Disconnect(X)
    PROVE  /\ duck' \in [Contexts -> BOOLEAN]
           /\ pool' \in [Contexts -> BOOLEAN]
           /\ flag' \in [Contexts -> BOOLEAN]
           /\ \A y \in Contexts :
                /\ duck'[y] => duck[y]
                /\ pool'[y] => pool[y]
                /\ flag'[y] => flag[y]
                /\ y \notin X => /\ duck'[y] <=> duck[y]
                                 /\ pool'[y] <=> pool[y]
                                 /\ flag'[y] <=> flag[y]
<1>1. /\ duck' = [y \in Contexts |-> duck[y] /\ ~ (y \in X /\ flag[y])]
      /\ pool' = [y \in Contexts |-> pool[y] /\ ~ (y \in X /\ flag[y])]
      /\ flag' = [y \in Contexts |-> flag[y] /\ ~ (y \in X /\ flag[y])]
  BY DEF Disconnect
<1>2. QED
  BY <1>1, Zenon

\* A step of get closes the contexts in X, which nobody leases.  It files the
\* context it gives, one that was there or the one the user has built.
Given(u, x) ==
    /\ pc[u] \in {"get", "built"}
    /\ Registered(x) \/ (pc[u] = "built" /\ ctx[u] = x)
    /\ pc' = [pc EXCEPT ![u] = "connect"]
    /\ Hold(u, x)
    /\ leases' = Leased(u, x)

LEMMA GivenKeeps ==
    ASSUME IInv, TypeOK', LeasesAreCounted', NEW u \in Users, NEW x \in Contexts, Given(u, x),
           NEW X \in SUBSET Contexts, Disconnect(X), \A y \in X : leases'[y] = 0,
           \A y \in Contexts :
               Present(y, active', retired', of') <=> (Registered(y) \/ y = x) /\ y \notin X,
           of' = of, \A v \in Users : v # u => want'[v] = want[v]
    PROVE  HeldOK' /\ UsersOK' /\ RequestsOK' /\ ConnectionsOK'
<1>1. \A y \in Contexts : y # NoContext
  BY ConstantsAssumption
<1>2. ASSUME NEW t \in Leases, held'[t] # NoContext
      PROVE  held'[t] \in Contexts /\ held'[t] \notin X
  <2>1. held'[t] \in Contexts /\ leases'[held'[t]] > 0
    BY <1>2, HeldIsLeased DEF TypeOK, LeasesAreCounted, Holders
  <2>2. QED
    BY <2>1
<1>3. /\ pc[u] \in {"get", "built"} /\ pc'[u] = "connect" /\ ctx'[u] = x
      /\ \A v \in Users : v # u => /\ pc'[v] = pc[v] /\ ctx'[v] = ctx[v]
                                   /\ gets'[v] = gets[v]
      /\ gets'[u] = gets[u] + 1
  BY DEF Given, Hold, IInv, TypeOK
<1>4. \A t \in Leases : held'[t] = held[t] \/ held'[t] = x
  BY DEF Given, Hold, IInv, TypeOK
<1>5. HeldOK'
  <2>1. ASSUME NEW t \in Leases, held'[t] # NoContext 
        PROVE  Present(held'[t], active', retired', of')
    <3>1. Registered(held'[t]) \/ held'[t] = x
      BY <1>4, <2>1 DEF IInv, HeldOK
    <3>2. QED
      BY <1>2, <2>1, <3>1
  <2>2. QED
    BY <2>1 DEF HeldOK, Registered
<1>6. ASSUME NEW y \in Contexts, y \notin X
      PROVE  (duck'[y] <=> duck[y]) /\ (pool'[y] <=> pool[y]) /\ (flag'[y] <=> flag[y])
  BY <1>6, DisconnectType
<1>7. ASSUME NEW y \in Contexts, ~ Registered(y), y # x PROVE ~ Present(y, active', retired', of')
  BY <1>7
<1>8. ASSUME NEW v \in Users PROVE UserOK(v)'
  <2>1. UserOK(v) /\ UserOK(u) /\ v \in Users /\ u \in Users
    BY DEF IInv, UsersOK
  <2>2. CASE v = u
    BY <1>3, <2>2 DEF UserOK
  <2>3. CASE v # u /\ pc[v] = "built"
    <3>1. /\ ctx[v] \in Contexts /\ of[ctx[v]] = want[v] /\ Untouched(ctx[v])
          /\ \A w \in Users \ {v} : ctx[w] # ctx[v]
      BY <2>1, <2>3 DEF UserOK
    <3>2. ctx[v] # x
      BY <2>1, <2>3, <3>1 DEF Given, Untouched
    <3>3. ~ Present(ctx[v], active', retired', of')
      BY <1>7, <3>1, <3>2 DEF Untouched
    <3>4. ~ duck'[ctx[v]] /\ ~ pool'[ctx[v]] /\ ~ flag'[ctx[v]]
      BY <3>1, DisconnectType DEF Untouched
    <3>5. \A w \in Users \ {v} : ctx'[w] # ctx'[v]
      BY <1>3, <2>3, <3>1, <3>2
    <3>6. pc'[v] = "built" /\ ctx'[v] = ctx[v] /\ want'[v] = want[v]
      BY <1>3, <2>3
    <3>7. QED
      BY <3>1, <3>3, <3>4, <3>5, <3>6 DEF UserOK, Untouched, Registered
  <2>4. CASE v # u /\ pc[v] # "built"
    <3>1. pc'[v] = pc[v] /\ ctx'[v] = ctx[v]
      BY <1>3, <2>4
    <3>2. ASSUME pc[v] = "pool", Present(ctx[v], active', retired', of') PROVE duck'[ctx[v]]
      <4>1. ctx[v] \in Contexts /\ ctx[v] \notin X /\ (Registered(ctx[v]) \/ ctx[v] = x)
        BY <2>1, <3>2 DEF UserOK
      <4>2. Registered(ctx[v])
        BY <2>1, <2>4, <4>1 DEF Given, UserOK
      <4>3. QED
        BY <1>6, <2>1, <3>2, <4>1, <4>2 DEF UserOK
    <3>3. QED
      BY <2>1, <2>4, <3>1, <3>2 DEF UserOK, Registered
  <2>5. QED
    BY <2>2, <2>3, <2>4
<1>9. ASSUME NEW r \in Requests PROVE RequestOK(r)'
  <2>1. RequestOK(r) /\ r \in Users
    BY DEF IInv, RequestsOK, Users
  <2>2. CASE r = u
    <3>1. gets[r] \in Nat /\ gets[r] < MaxGets[r] /\ MaxGets[r] \in Nat
      BY <1>3, <2>1, <2>2, ConstantsAssumption DEF RequestOK, IInv, TypeOK
    <3>2. /\ <<r, gets[r] + 1>> \in Leases
          /\ held' = [held EXCEPT ![<<r, gets[r] + 1>>] = x]
      BY <2>2, <3>1, LeaseIn DEF Given, Hold
    <3>3. held'[<<r, gets[r] + 1>>] = x
      BY <3>2 DEF IInv, TypeOK
    <3>4. ASSUME NEW k \in 1 .. MaxGets[r], k > gets[r] + 1 PROVE held'[<<r, k>>] = NoContext
      <4>1. <<r, k>> \in Leases /\ <<r, k>> # <<r, gets[r] + 1>> /\ held[<<r, k>>] = NoContext
        BY <2>1, <3>1, <3>4, LeaseIn DEF RequestOK
      <4>2. QED
        BY <3>2, <4>1 DEF IInv, TypeOK
    <3>5. QED
      BY <1>3, <2>2, <3>1, <3>3, <3>4 DEF RequestOK
  <2>3. CASE r # u
    <3>1. \A k \in 1 .. MaxGets[r] : held'[<<r, k>>] = held[<<r, k>>]
      <4>1. \A k \in 1 .. MaxGets[r] : <<r, k>> \in Leases /\ <<r, k>> # <<u, gets[u] + 1>>
        BY <2>3, LeaseIn
      <4>2. held' = held \/ held' = [held EXCEPT ![<<u, gets[u] + 1>>] = x]
        BY DEF Given, Hold
      <4>3. QED
        BY <4>1, <4>2 DEF IInv, TypeOK
    <3>2. pc'[r] = pc[r] /\ ctx'[r] = ctx[r] /\ gets'[r] = gets[r]
      BY <1>3, <2>1, <2>3
    <3>3. ASSUME pc[r] = "use" PROVE duck'[ctx[r]]
      <4>1. /\ gets[r] \in 1 .. MaxGets[r] /\ held[<<r, gets[r]>>] = ctx[r] /\ duck[ctx[r]]
            /\ ctx[r] \in Contexts
        BY <2>1, <3>3 DEF RequestOK, IInv, UsersOK, UserOK
      <4>2. ctx[r] \notin X
        BY <1>1, <1>2, <3>1, <4>1, LeaseIn
      <4>3. QED
        BY <1>6, <4>1, <4>2
    <3>4. QED
      BY <2>1, <3>1, <3>2, <3>3 DEF RequestOK
  <2>4. QED
    BY <2>2, <2>3
<1>10. ASSUME NEW y \in Contexts, Present(y, active', retired', of')
       PROVE  /\ pool'[y] \/ flag'[y] => duck'[y]
              /\ duck'[y] /\ ~ pool'[y] => \E v \in Users : pc'[v] = "pool" /\ ctx'[v] = y
  <2>1. y \notin X /\ (Registered(y) \/ y = x)
    BY <1>10
  <2>2. CASE Registered(y)
    <3>1. /\ pool[y] \/ flag[y] => duck[y]
          /\ duck[y] /\ ~ pool[y] => \E v \in Users : pc[v] = "pool" /\ ctx[v] = y
      BY <2>2 DEF IInv, ConnectionsOK
    <3>2. ASSUME NEW v \in Users, pc[v] = "pool" PROVE pc'[v] = "pool" /\ ctx'[v] = ctx[v]
      BY <1>3, <3>2
    <3>3. QED
      BY <1>6, <2>1, <3>1, <3>2
  <2>3. CASE ~ Registered(y)
    <3>1. ~ duck[y] /\ ~ pool[y] /\ ~ flag[y]
      BY <2>1, <2>3 DEF Given, IInv, UsersOK, UserOK, Untouched
    <3>2. QED
      BY <1>6, <2>1, <3>1
  <2>4. QED
    BY <2>2, <2>3
<1>11. QED
  BY <1>5, <1>8, <1>9, <1>10 DEF UsersOK, RequestsOK, ConnectionsOK, Registered

\* A step of get that gives no context.
LEMMA MissKeeps ==
    ASSUME IInv, NEW u \in Users, pc[u] = "get", pc' = [pc EXCEPT ![u] = "resolve"],
           NEW X \in SUBSET Contexts, Disconnect(X), \A y \in X : leases[y] = 0,
           \A y \in Contexts :
               Present(y, active', retired', of') <=> Registered(y) /\ y \notin X,
           UNCHANGED <<of, leases, ctx, gets, held>>,
           \A v \in Users : v # u => want'[v] = want[v]
    PROVE  HeldOK' /\ UsersOK' /\ RequestsOK' /\ ConnectionsOK'
<1>1. ASSUME NEW t \in Leases, held[t] # NoContext
      PROVE  held[t] \in Contexts /\ held[t] \notin X /\ Registered(held[t])
  <2>1. held[t] \in Contexts /\ leases[held[t]] > 0
    BY <1>1, HeldIsLeased DEF IInv, TypeOK, LeasesAreCounted, Holders
  <2>2. QED
    BY <1>1, <2>1 DEF IInv, HeldOK
<1>2. pc'[u] = "resolve" /\ \A v \in Users : v # u => pc'[v] = pc[v]
  BY DEF IInv, TypeOK
<1>3. ASSUME NEW y \in Contexts, y \notin X
      PROVE  (duck'[y] <=> duck[y]) /\ (pool'[y] <=> pool[y]) /\ (flag'[y] <=> flag[y])
  BY <1>3, DisconnectType
<1>4. HeldOK'
  BY <1>1 DEF HeldOK, Registered
<1>5. ASSUME NEW v \in Users PROVE UserOK(v)'
  <2>1. UserOK(v)
    BY DEF IInv, UsersOK
  <2>2. CASE v = u
    BY <1>2, <2>2 DEF UserOK
  <2>3. CASE v # u /\ pc[v] = "built"
    <3>1. /\ ctx[v] \in Contexts /\ of[ctx[v]] = want[v] /\ Untouched(ctx[v])
          /\ \A w \in Users \ {v} : ctx[w] # ctx[v]
      BY <2>1, <2>3 DEF UserOK
    <3>2. ~ Present(ctx[v], active', retired', of')
      BY <3>1 DEF Untouched
    <3>3. ~ duck'[ctx[v]] /\ ~ pool'[ctx[v]] /\ ~ flag'[ctx[v]]
      BY <3>1, DisconnectType DEF Untouched
    <3>4. QED
      BY <1>2, <2>3, <3>1, <3>2, <3>3 DEF UserOK, Untouched, Registered
  <2>4. CASE v # u /\ pc[v] # "built"
    <3>1. ASSUME pc[v] = "pool", Present(ctx[v], active', retired', of') PROVE duck'[ctx[v]]
      <4>1. ctx[v] \in Contexts /\ ctx[v] \notin X /\ Registered(ctx[v])
        BY <2>1, <3>1 DEF UserOK
      <4>2. QED
        BY <1>3, <2>1, <3>1, <4>1 DEF UserOK
    <3>2. QED
      BY <1>2, <2>1, <2>4, <3>1 DEF UserOK, Registered
  <2>5. QED
    BY <2>2, <2>3, <2>4
<1>6. ASSUME NEW r \in Requests PROVE RequestOK(r)'
  <2>1. RequestOK(r) /\ r \in Users
    BY DEF IInv, RequestsOK, Users
  <2>2. ASSUME pc[r] = "use" PROVE duck'[ctx[r]]
    <3>1. /\ gets[r] \in 1 .. MaxGets[r] /\ held[<<r, gets[r]>>] = ctx[r] /\ duck[ctx[r]]
          /\ ctx[r] \in Contexts /\ ctx[r] # NoContext
      BY <2>1, <2>2, ConstantsAssumption DEF RequestOK, IInv, UsersOK, UserOK
    <3>2. ctx[r] \notin X
      BY <1>1, <3>1, LeaseIn
    <3>3. QED
      BY <1>3, <3>1, <3>2
  <2>3. CASE r = u
    BY <1>2, <2>1, <2>3 DEF RequestOK
  <2>4. CASE r # u
    BY <1>2, <2>1, <2>2, <2>4 DEF RequestOK
  <2>5. QED
    BY <2>3, <2>4
<1>7. ASSUME NEW y \in Contexts, Present(y, active', retired', of')
      PROVE  /\ pool'[y] \/ flag'[y] => duck'[y]
             /\ duck'[y] /\ ~ pool'[y] => \E v \in Users : pc'[v] = "pool" /\ ctx'[v] = y
  <2>1. y \notin X /\ Registered(y)
    BY <1>7
  <2>2. /\ pool[y] \/ flag[y] => duck[y]
        /\ duck[y] /\ ~ pool[y] => \E v \in Users : pc[v] = "pool" /\ ctx[v] = y
    BY <2>1 DEF IInv, ConnectionsOK
  <2>3. ASSUME NEW v \in Users, pc[v] = "pool" PROVE pc'[v] = "pool"
    BY <1>2, <2>3
  <2>4. QED
    BY <1>3, <2>1, <2>2, <2>3
<1>8. QED
  BY <1>4, <1>5, <1>6, <1>7 DEF UsersOK, RequestsOK, ConnectionsOK, Registered

\* A request that may be given a context has a lease left for it.
LEMMA LeaseLeft ==
    ASSUME IInv, NEW u \in Requests, pc[u] \in {"get", "built"}
    PROVE  <<u, gets[u] + 1>> \in Leases /\ held[<<u, gets[u] + 1>>] = NoContext
<1>1. gets[u] \in Nat /\ MaxGets[u] \in Nat /\ gets[u] < MaxGets[u]
  BY ConstantsAssumption DEF IInv, TypeOK, RequestsOK, RequestOK, Users
<1>2. gets[u] + 1 \in 1 .. MaxGets[u]
  BY <1>1
<1>3. \A k \in 1 .. MaxGets[u] : k > gets[u] => held[<<u, k>>] = NoContext
  BY DEF IInv, RequestsOK, RequestOK
<1>4. gets[u] + 1 > gets[u]
  BY <1>1
<1>5. QED
  BY <1>2, <1>3, <1>4, LeaseIn

LEMMA GetCachedInv ==
    ASSUME IInv, NEW u \in Users, NEW c \in Catalogs, GetCached(u, c)
    PROVE  IInv'
<1>1. PICK idle \in IdleSets :
        LET a == Kept(idle, active)
            r == Deferred(idle, active, retired, leases)
            x == Found(c, a, r)
        IN  /\ pc[u] = "get"
            /\ Disconnect(Closed(idle, active, leases))
            /\ \/ /\ x # NoContext
                  /\ active' = [a EXCEPT ![c] = x]
                  /\ retired' = WithoutRevived(c, a, r)
                  /\ leases' = Leased(u, x)
                  /\ Hold(u, x)
                  /\ pc' = [pc EXCEPT ![u] = "connect"]
                  /\ UNCHANGED want
               \/ /\ x = NoContext
                  /\ active' = a
                  /\ retired' = r
                  /\ want' = [want EXCEPT ![u] = c]
                  /\ pc' = [pc EXCEPT ![u] = "resolve"]
                  /\ UNCHANGED <<leases, gets, held, ctx>>
            /\ UNCHANGED of
  BY DEF GetCached
<1> DEFINE a == Kept(idle, active)
           r == Deferred(idle, active, retired, leases)
           x == Found(c, a, r)
           X == Closed(idle, active, leases)
<1>2. /\ a \in [Catalogs -> Maybe] /\ r \in [Catalogs -> Maybe]
      /\ X \in SUBSET Contexts /\ \A y \in X : leases[y] = 0
      /\ Filed(a, r, leases, of)
      /\ \A y \in Contexts : Present(y, a, r, of) <=> Registered(y) /\ y \notin X
  <2>1. idle \in SUBSET { d \in Catalogs : active[d] # NoContext }
    BY DEF IdleSets
  <2>2. QED
    BY <2>1, EvictionFiles DEF IInv, TypeOK, DictionariesOK, Registered
<1>3. /\ pc[u] = "get" /\ Disconnect(X) /\ of' = of
      /\ duck' \in [Contexts -> BOOLEAN] /\ pool' \in [Contexts -> BOOLEAN]
      /\ flag' \in [Contexts -> BOOLEAN]
  BY <1>1, DisconnectType
<1>4. CASE x = NoContext
  <2>1. /\ active' = a /\ retired' = r
        /\ want' = [want EXCEPT ![u] = c]
        /\ pc' = [pc EXCEPT ![u] = "resolve"]
        /\ UNCHANGED <<leases, gets, held, ctx>>
    BY <1>1, <1>4
  <2> HIDE DEF a, r, x, X
  <2>2. TypeOK'
    BY <1>2, <1>3, <2>1 DEF IInv, TypeOK
  <2>3. LeasesAreCounted' /\ DictionariesOK'
    BY <1>2, <1>3, <2>1 DEF IInv, LeasesAreCounted, Holders, DictionariesOK
  <2>4. \A v \in Users : v # u => want'[v] = want[v]
    BY <2>1 DEF IInv, TypeOK
  <2>5. HeldOK' /\ UsersOK' /\ RequestsOK' /\ ConnectionsOK'
    BY <1>2, <1>3, <2>1, <2>4, MissKeeps
  <2>6. QED
    BY <2>2, <2>3, <2>5 DEF IInv
<1>5. CASE x # NoContext
  <2>1. /\ active' = [a EXCEPT ![c] = x] /\ retired' = WithoutRevived(c, a, r)
        /\ leases' = Leased(u, x) /\ Hold(u, x)
        /\ pc' = [pc EXCEPT ![u] = "connect"] /\ want' = want
    BY <1>1, <1>5
  <2>2. x = Found(c, a, r)
    OBVIOUS
  <2> HIDE DEF a, r, x, X
  <2>3. x \in Contexts /\ of[x] = c /\ Present(x, a, r, of)
    BY <1>2, <1>5, <2>2 DEF Found, Filed, Present, Maybe
  <2>4. /\ active' \in [Catalogs -> Maybe] /\ retired' \in [Catalogs -> Maybe]
        /\ Filed(active', retired', leases, of)
        /\ \A y \in Contexts :
             Present(y, active', retired', of) <=> Present(y, a, r, of) \/ y = x
    <3>1. Found(c, a, r) \in {NoContext, x} /\ of \in [Contexts -> Catalogs]
      BY <2>2 DEF IInv, TypeOK
    <3>2. /\ [a EXCEPT ![c] = x] \in [Catalogs -> Maybe]
          /\ WithoutRevived(c, a, r) \in [Catalogs -> Maybe]
          /\ Filed([a EXCEPT ![c] = x], WithoutRevived(c, a, r), leases, of)
          /\ \A y \in Contexts :
               Present(y, [a EXCEPT ![c] = x], WithoutRevived(c, a, r), of)
                 <=> Present(y, a, r, of) \/ y = x
      BY <1>2, <2>3, <3>1, LookUpFiles
    <3>3. QED
      BY <2>1, <3>2
  <2>5. TypeOK'
    BY <1>3, <2>1, <2>3, <2>4, HoldType DEF IInv, TypeOK
  <2>6. LeasesAreCounted'
    BY <1>3, <2>1, <2>3, LeaseLeft, HoldCounts DEF IInv
  <2>7. DictionariesOK'
    <3>1. leases \in [Contexts -> Nat] /\ leases' \in [Contexts -> Nat]
      BY <2>5 DEF IInv, TypeOK
    <3>2. \A y \in Contexts : leases[y] <= leases'[y]
      BY <2>1, <2>3, HoldType DEF IInv
    <3>3. Filed(active', retired', leases', of)
      BY <2>4, <3>1, <3>2, MoreLeasesFile
    <3>4. QED
      BY <1>3, <3>3 DEF DictionariesOK
  <2>8. x \notin X /\ Registered(x) /\ Given(u, x)
    BY <1>2, <1>3, <2>1, <2>3 DEF Given
  <2>9. \A y \in X : leases'[y] = 0
    <3>1. leases' = leases \/ leases' = [leases EXCEPT ![x] = leases[x] + 1]
      BY <2>1 DEF Leased
    <3>2. \A y \in X : y # x /\ y \in Contexts /\ leases[y] = 0
      BY <1>2, <2>8
    <3>3. QED
      BY <3>1, <3>2 DEF IInv, TypeOK
  <2>10. \A y \in Contexts :
          Present(y, active', retired', of') <=> (Registered(y) \/ y = x) /\ y \notin X
    BY <1>2, <1>3, <2>4, <2>8
  <2>11. HeldOK' /\ UsersOK' /\ RequestsOK' /\ ConnectionsOK'
    BY <1>2, <1>3, <2>1, <2>3, <2>5, <2>6, <2>8, <2>9, <2>10, GivenKeeps
  <2>12. QED
    BY <2>5, <2>6, <2>7, <2>11 DEF IInv
<1>6. QED
  BY <1>4, <1>5

LEMMA GetBuiltInv ==
    ASSUME IInv, NEW u \in Users, GetBuilt(u)
    PROVE  IInv'
<1> DEFINE c == want[u]
           known == Found(c, active, retired)
           x == IF known # NoContext THEN known ELSE ctx[u]
           a == [active EXCEPT ![c] = x]
           r == WithoutRevived(c, active, retired)
           n == Leased(u, x)
<1>1. PICK S \in CapEvictions(c, a) :
        /\ active' = Kept(S, a)
        /\ retired' = Deferred(S, a, r, n)
        /\ Disconnect(Closed(S, a, n))
  BY DEF GetBuilt
<1>2. /\ pc[u] = "built" /\ leases' = n /\ Hold(u, x) /\ of' = of
      /\ want' = [want EXCEPT ![u] = Default] /\ pc' = [pc EXCEPT ![u] = "connect"]
  BY DEF GetBuilt
<1>3. c \in Catalogs /\ known \in Maybe
  BY DEF IInv, TypeOK, Found
<1>4. /\ x \in Contexts /\ of[x] = c /\ known \in {NoContext, x}
      /\ Registered(x) \/ ctx[u] = x
  <2>1. CASE known # NoContext
    BY <1>3, <2>1 DEF IInv, DictionariesOK, Filed, Registered, Present, Found, Maybe
  <2>2. CASE known = NoContext
    BY <1>2, <2>2 DEF IInv, UsersOK, UserOK
  <2>3. QED
    BY <2>1, <2>2
<1> DEFINE X == Closed(S, a, n)
<1>5. S \in SUBSET { d \in Catalogs : a[d] # NoContext }
  BY DEF CapEvictions
<1> HIDE DEF c, x
<1>6. /\ a \in [Catalogs -> Maybe] /\ r \in [Catalogs -> Maybe]
      /\ Filed(a, r, leases, of)
      /\ \A y \in Contexts : Present(y, a, r, of) <=> Registered(y) \/ y = x
  BY <1>3, <1>4, LookUpFiles DEF IInv, TypeOK, DictionariesOK, Registered
<1>7. n \in [Contexts -> Nat] /\ \A y \in Contexts : leases[y] <= n[y]
  BY <1>2, <1>4, HoldType DEF IInv
<1> HIDE DEF a, r, n
<1>8. Filed(a, r, n, of)
  BY <1>6, <1>7, MoreLeasesFile DEF IInv, TypeOK
<1>9. /\ active' \in [Catalogs -> Maybe] /\ retired' \in [Catalogs -> Maybe]
      /\ X \in SUBSET Contexts /\ \A y \in X : n[y] = 0
      /\ Filed(active', retired', n, of)
      /\ \A y \in Contexts : Present(y, active', retired', of) <=> Present(y, a, r, of) /\ y \notin X
  BY <1>1, <1>5, <1>6, <1>7, <1>8, EvictionFiles DEF IInv, TypeOK
<1>10. TypeOK'
  <2>1. /\ duck' \in [Contexts -> BOOLEAN] /\ pool' \in [Contexts -> BOOLEAN]
        /\ flag' \in [Contexts -> BOOLEAN]
    BY <1>1, DisconnectType
  <2>2. leases' = Leased(u, x)
    BY <1>2 DEF n
  <2>3. QED
    BY <1>2, <1>4, <1>9, <2>1, <2>2, HoldType, ConstantsAssumption DEF IInv, TypeOK
<1>11. LeasesAreCounted'
  BY <1>2, <1>4, LeaseLeft, HoldCounts DEF IInv, n
<1>12. DictionariesOK'
  BY <1>2, <1>9 DEF DictionariesOK
<1>13. HeldOK' /\ UsersOK' /\ RequestsOK' /\ ConnectionsOK'
  <2>1. Given(u, x)
    BY <1>2, <1>4 DEF Given, n
  <2>2. \A y \in Contexts :
          Present(y, active', retired', of') <=> (Registered(y) \/ y = x) /\ y \notin X
    BY <1>2, <1>6, <1>9
  <2>3. Disconnect(X) /\ \A y \in X : leases'[y] = 0
    BY <1>1, <1>2, <1>9
  <2>4. \A v \in Users : v # u => want'[v] = want[v]
    BY <1>2 DEF IInv, TypeOK
  <2> HIDE DEF X
  <2>5. QED
    BY <1>2, <1>4, <1>9, <1>10, <1>11, <2>1, <2>2, <2>3, <2>4, GivenKeeps
<1>14. QED
  BY <1>10, <1>11, <1>12, <1>13 DEF IInv

----------------------------------------------------------------------------
(***************************************************************************)
(* The other steps.                                                        *)
(***************************************************************************)

\* The object a user builds is nobody else's.
LEMMA ResolveInv ==
    ASSUME IInv, NEW u \in Users, Resolve(u)
    PROVE  IInv'
<1> DEFINE x == CHOOSE y \in Contexts : Fresh(y)
<1>1. x \in Contexts /\ Fresh(x)
  BY DEF Resolve
<1>2. /\ pc[u] = "resolve" /\ pc' = [pc EXCEPT ![u] = "built"]
      /\ of' = [of EXCEPT ![x] = want[u]] /\ ctx' = [ctx EXCEPT ![u] = x]
      /\ duck' = [duck EXCEPT ![x] = FALSE]
      /\ pool' = [pool EXCEPT ![x] = FALSE]
      /\ flag' = [flag EXCEPT ![x] = FALSE]
      /\ UNCHANGED <<active, retired, leases, want, gets, held>>
  BY DEF Resolve, dictionaries
<1> HIDE DEF x
<1>3. x # NoContext /\ ~ Registered(x)
  BY <1>1, ConstantsAssumption DEF Fresh, Registered, Present, IInv, TypeOK
<1>4. TypeOK'
  BY <1>1, <1>2 DEF IInv, TypeOK, Maybe
<1>5. /\ pc'[u] = "built" /\ ctx'[u] = x /\ of'[x] = want[u]
      /\ ~ duck'[x] /\ ~ pool'[x] /\ ~ flag'[x]
      /\ \A v \in Users : v # u => pc'[v] = pc[v] /\ ctx'[v] = ctx[v]
  BY <1>1, <1>2 DEF IInv, TypeOK
<1>6. ASSUME NEW y \in Contexts, y # x
      PROVE  /\ of'[y] = of[y]
             /\ duck'[y] = duck[y] /\ pool'[y] = pool[y] /\ flag'[y] = flag[y]
  BY <1>2, <1>6 DEF IInv, TypeOK
<1>7. ASSUME NEW y \in Contexts
      PROVE  Present(y, active', retired', of') <=> Registered(y)
  <2>1. CASE y = x
    <3>1. of'[x] \in Catalogs
      BY <1>1, <1>4 DEF TypeOK
    <3>2. ~ Present(x, active', retired', of')
      BY <1>1, <1>2, <3>1 DEF Fresh, Present
    <3>3. QED
      BY <1>3, <2>1, <3>2
  <2>2. CASE y # x
    BY <1>2, <1>6, <2>2 DEF Registered, Present
  <2>3. QED
    BY <2>1, <2>2
<1>8. LeasesAreCounted'
  BY <1>2 DEF IInv, LeasesAreCounted, Holders
<1>9. DictionariesOK'
  <2>1. \A c \in Catalogs : /\ active[c] \in Maybe /\ active[c] # x
                            /\ retired[c] \in Maybe /\ retired[c] # x
    BY <1>1 DEF Fresh, IInv, TypeOK
  <2>2. QED
    BY <1>2, <1>6, <2>1 DEF IInv, DictionariesOK, Filed, Maybe
<1>10. HeldOK'
  <2>1. ASSUME NEW t \in Leases, held'[t] # NoContext
        PROVE  Present(held'[t], active', retired', of')
    <3>1. held'[t] = held[t] /\ held[t] \in Contexts /\ Registered(held[t])
      BY <1>2, <2>1 DEF IInv, HeldOK, TypeOK, Maybe
    <3>2. QED
      BY <1>7, <3>1
  <2>2. QED
    BY <2>1 DEF HeldOK, Registered
<1>11. ASSUME NEW v \in Users PROVE UserOK(v)'
  <2>1. UserOK(v)
    BY DEF IInv, UsersOK
  <2>2. \A w \in Users : w # u => ctx'[w] # x
    BY <1>1, <1>5 DEF Fresh
  <2>3. CASE v = u
    <3>1. ~ Present(x, active', retired', of')
      BY <1>1, <1>3, <1>7
    <3>2. QED
      BY <1>1, <1>2, <1>5, <2>2, <2>3, <3>1 DEF UserOK, Untouched, Registered
  <2>4. CASE v # u /\ pc[v] = "built"
    <3>1. /\ ctx[v] \in Contexts /\ ctx[v] # x /\ of[ctx[v]] = want[v] /\ Untouched(ctx[v])
          /\ \A w \in Users \ {v} : ctx[w] # ctx[v]
      BY <1>1, <2>1, <2>4 DEF UserOK, Fresh
    <3>2. /\ pc'[v] = "built" /\ ctx'[v] = ctx[v] /\ want'[v] = want[v]
          /\ of'[ctx[v]] = of[ctx[v]]
          /\ ~ Present(ctx[v], active', retired', of')
          /\ ~ duck'[ctx[v]] /\ ~ pool'[ctx[v]] /\ ~ flag'[ctx[v]]
      BY <1>2, <1>5, <1>6, <1>7, <2>4, <3>1 DEF Untouched
    <3>3. \A w \in Users \ {v} : ctx'[w] # ctx'[v]
      BY <1>5, <3>1, <3>2
    <3>4. QED
      BY <3>1, <3>2, <3>3 DEF UserOK, Untouched, Registered
  <2>5. CASE v # u /\ pc[v] # "built"
    <3>1. ASSUME pc[v] = "pool", Present(ctx[v], active', retired', of') PROVE duck'[ctx[v]]
      <4>1. ctx[v] \in Contexts /\ ctx[v] # x
        BY <1>1, <2>1, <3>1 DEF UserOK, Fresh
      <4>2. QED
        BY <1>6, <1>7, <2>1, <3>1, <4>1 DEF UserOK
    <3>2. QED
      BY <1>5, <2>1, <2>5, <3>1 DEF UserOK, Registered
  <2>6. QED
    BY <2>3, <2>4, <2>5
<1>12. ASSUME NEW r \in Requests PROVE RequestOK(r)'
  <2>1. RequestOK(r) /\ r \in Users
    BY DEF IInv, RequestsOK, Users
  <2>2. CASE r = u
    BY <1>2, <1>5, <2>1, <2>2 DEF RequestOK
  <2>3. CASE r # u
    <3>1. pc[r] = "use" => ctx[r] \in Contexts /\ ctx[r] # x
      BY <1>1, <2>1 DEF IInv, UsersOK, UserOK, Fresh
    <3>2. pc[r] = "use" => duck'[ctx[r]]
      BY <1>6, <2>1, <3>1 DEF RequestOK
    <3>3. QED
      BY <1>2, <1>5, <2>1, <2>3, <3>2 DEF RequestOK
  <2>4. QED
    BY <2>2, <2>3
<1>13. ASSUME NEW y \in Contexts, Present(y, active', retired', of')
       PROVE  /\ pool'[y] \/ flag'[y] => duck'[y]
              /\ duck'[y] /\ ~ pool'[y] => \E v \in Users : pc'[v] = "pool" /\ ctx'[v] = y
  <2>1. y # x /\ Registered(y)
    BY <1>3, <1>7, <1>13
  <2>2. /\ pool[y] \/ flag[y] => duck[y]
        /\ duck[y] /\ ~ pool[y] => \E v \in Users : pc[v] = "pool" /\ ctx[v] = y
    BY <2>1 DEF IInv, ConnectionsOK
  <2>3. ASSUME NEW v \in Users, pc[v] = "pool" PROVE pc'[v] = "pool" /\ ctx'[v] = ctx[v]
    BY <1>2, <1>5, <2>3
  <2>4. QED
    BY <1>6, <2>1, <2>2, <2>3
<1>14. QED
  BY <1>4, <1>8, <1>9, <1>10, <1>11, <1>12, <1>13
  DEF IInv, UsersOK, RequestsOK, ConnectionsOK, Registered

\* The last release of a retired context forgets and closes it; another
\* release leaves everything where it is.
Unused(x) == IF Last(x) THEN {x} ELSE {}

LEMMA ReleaseFiles ==
    ASSUME IInv, NEW r \in Requests, NEW k \in 1 .. MaxGets[r], Release(r, k)
    PROVE  LET x == held[<<r, k>>] IN
           /\ TypeOK' /\ LeasesAreCounted' /\ DictionariesOK'
           /\ \A t \in Leases : t # <<r, k>> => held'[t] = held[t]
           /\ held'[<<r, k>>] = NoContext
           /\ \A t \in Leases : held'[t] # NoContext => held'[t] \notin Unused(x)
           /\ \A y \in Contexts :
                Present(y, active', retired', of') <=> Registered(y) /\ y \notin Unused(x)
           /\ \A y \in Contexts :
                /\ duck'[y] => duck[y]
                /\ pool'[y] => pool[y]
                /\ flag'[y] => flag[y]
                /\ y \notin Unused(x) =>
                     (duck'[y] <=> duck[y]) /\ (pool'[y] <=> pool[y]) /\ (flag'[y] <=> flag[y])
<1> DEFINE x == held[<<r, k>>]
           t == <<r, k>>
<1>1. /\ x # NoContext
      /\ leases' = [leases EXCEPT ![x] = Taken(@)]
      /\ held' = [held EXCEPT ![t] = NoContext]
      /\ Last(x) => /\ retired' = [retired EXCEPT ![of[x]] = NoContext]
                    /\ Disconnect({x})
      /\ ~ Last(x) => UNCHANGED <<retired, duck, pool, flag>>
      /\ UNCHANGED <<active, of, pc, want, ctx, gets>>
  BY DEF Release, connections
<1>2. t \in Leases /\ x = held[t]
  BY LeaseIn
<1> HIDE DEF x, t
<1>3. x \in Contexts
  BY <1>1, <1>2 DEF IInv, TypeOK, Maybe
<1>4. /\ LeasesAreCounted'
      /\ leases[x] > 0 /\ leases'[x] = leases[x] - 1 /\ Taken(leases[x]) = leases[x] - 1
      /\ \A y \in Contexts : y # x => leases'[y] = leases[y]
  BY <1>1, <1>2, <1>3, ReleaseCounts DEF IInv
<1>5. leases' \in [Contexts -> Nat] /\ held' \in [Leases -> Maybe]
  <2>1. leases' = [leases EXCEPT ![x] = leases[x] - 1] /\ leases[x] - 1 \in Nat
    BY <1>1, <1>3, <1>4 DEF IInv, TypeOK
  <2>2. leases' \in [Contexts -> Nat]
    BY <2>1 DEF IInv, TypeOK
  <2>3. held' = [held EXCEPT ![t] = NoContext] /\ NoContext \in Maybe
    BY <1>1 DEF Maybe
  <2>4. QED
    BY <2>2, <2>3 DEF IInv, TypeOK
<1>6. /\ \A v \in Leases : v # t => held'[v] = held[v]
      /\ held'[t] = NoContext
  BY <1>1, <1>2 DEF IInv, TypeOK
<1>7. of[x] \in Catalogs
  BY <1>3 DEF IInv, TypeOK
<1>8. CASE Last(x)
  <2>1. /\ retired[of[x]] = x /\ leases'[x] = 0 /\ active[of[x]] = NoContext
        /\ retired' = [retired EXCEPT ![of[x]] = NoContext] /\ Disconnect({x})
        /\ Unused(x) = {x}
    BY <1>1, <1>4, <1>7, <1>8 DEF Last, IInv, DictionariesOK, Filed, Unused
  <2>2. TypeOK'
    <3>1. retired' \in [Catalogs -> Maybe]
      BY <2>1 DEF IInv, TypeOK, Maybe
    <3>2. QED
      BY <1>1, <1>5, <2>1, <3>1, DisconnectType DEF IInv, TypeOK
  <2>3. \A c \in Catalogs : retired'[c] = IF c = of[x] THEN NoContext ELSE retired[c]
    BY <2>1 DEF IInv, TypeOK
  <2>4. DictionariesOK'
    <3>1. \A c \in Catalogs :
            retired'[c] # NoContext => /\ retired'[c] = retired[c]
                                       /\ retired[c] \in Contexts /\ retired[c] # x
      BY <2>3 DEF IInv, TypeOK, DictionariesOK, Filed, Maybe
    <3>2. QED
      BY <1>1, <1>4, <3>1 DEF IInv, DictionariesOK, Filed
  <2>5. ASSUME NEW v \in Leases, held'[v] # NoContext PROVE held'[v] # x
    <3>1. held'[v] \in Contexts /\ leases'[held'[v]] > 0
      BY <1>4, <1>5, <2>5, HeldIsLeased DEF LeasesAreCounted, Holders
    <3>2. QED
      BY <2>1, <3>1
  <2>6. ASSUME NEW y \in Contexts
        PROVE  Present(y, active', retired', of') <=> Registered(y) /\ y # x
    <3>1. of[y] \in Catalogs /\ y # NoContext /\ x # NoContext
      BY <1>1, ConstantsAssumption DEF IInv, TypeOK
    <3>2. QED
      BY <1>1, <2>1, <2>3, <3>1 DEF Present, Registered
  <2>7. QED
    BY <1>4, <1>6, <2>1, <2>2, <2>4, <2>5, <2>6, DisconnectType DEF x, t
<1>9. CASE ~ Last(x)
  <2>1. Unused(x) = {} /\ UNCHANGED <<active, retired, of, duck, pool, flag>>
    BY <1>1, <1>9 DEF Unused
  <2>2. TypeOK'
    BY <1>1, <1>5, <2>1 DEF IInv, TypeOK
  <2>3. DictionariesOK'
    <3>1. \A c \in Catalogs :
            retired[c] # NoContext => retired[c] \in Contexts /\ leases'[retired[c]] > 0
      <4>1. SUFFICES ASSUME NEW c \in Catalogs, retired[c] # NoContext
                     PROVE  retired[c] \in Contexts /\ leases'[retired[c]] > 0
        OBVIOUS
      <4>2. retired[c] \in Contexts /\ of[retired[c]] = c /\ leases[retired[c]] > 0
        BY <4>1 DEF IInv, TypeOK, Maybe, DictionariesOK, Filed
      <4>3. CASE retired[c] = x
        <5>1. Taken(leases[x]) # 0
          BY <1>9, <4>2, <4>3 DEF Last
        <5>2. leases'[x] \in Nat /\ leases'[x] # 0
          BY <1>3, <1>4, <1>5, <5>1
        <5>3. QED
          BY <4>2, <4>3, <5>2
      <4>4. CASE retired[c] # x
        BY <1>4, <4>2, <4>4
      <4>5. QED
        BY <4>3, <4>4
    <3>2. QED
      BY <2>1, <3>1 DEF IInv, DictionariesOK, Filed
  <2>4. QED
    BY <1>4, <1>6, <2>1, <2>2, <2>3 DEF x, t, Registered
<1>10. QED
  BY <1>8, <1>9

LEMMA ReleaseInv ==
    ASSUME IInv, NEW r \in Requests, NEW k \in 1 .. MaxGets[r], Release(r, k)
    PROVE  IInv'
<1> DEFINE X == Unused(held[<<r, k>>])
<1>1. TypeOK' /\ LeasesAreCounted' /\ DictionariesOK'
  BY ReleaseFiles
<1>2. /\ \A t \in Leases : t # <<r, k>> => held'[t] = held[t]
      /\ held'[<<r, k>>] = NoContext
      /\ \A t \in Leases : held'[t] # NoContext => held'[t] \notin X
      /\ \A y \in Contexts : Present(y, active', retired', of') <=> Registered(y) /\ y \notin X
  BY ReleaseFiles
<1>3. \A y \in Contexts :
        /\ duck'[y] => duck[y]
        /\ pool'[y] => pool[y]
        /\ flag'[y] => flag[y]
        /\ y \notin X => (duck'[y] <=> duck[y]) /\ (pool'[y] <=> pool[y]) /\ (flag'[y] <=> flag[y])
  BY ReleaseFiles
<1>4. pc[r] = "release" /\ UNCHANGED <<of, pc, want, ctx, gets>>
  BY DEF Release
<1> HIDE DEF X
<1>5. HeldOK'
  <2>1. ASSUME NEW t \in Leases, held'[t] # NoContext
        PROVE  Present(held'[t], active', retired', of')
    <3>1. held'[t] = held[t] /\ held[t] \in Contexts /\ Registered(held[t]) /\ held[t] \notin X
      BY <1>2, <2>1 DEF IInv, HeldOK, TypeOK, Maybe
    <3>2. QED
      BY <1>2, <3>1
  <2>2. QED
    BY <2>1 DEF HeldOK, Registered
<1>6. ASSUME NEW v \in Users PROVE UserOK(v)'
  <2>1. UserOK(v)
    BY DEF IInv, UsersOK
  <2>2. ASSUME pc[v] = "built" PROVE Untouched(ctx[v])'
    <3>1. ctx[v] \in Contexts /\ Untouched(ctx[v])
      BY <2>1, <2>2 DEF UserOK
    <3>2. /\ ~ Present(ctx[v], active', retired', of')
          /\ ~ duck'[ctx[v]] /\ ~ pool'[ctx[v]] /\ ~ flag'[ctx[v]]
      BY <1>2, <1>3, <3>1 DEF Untouched
    <3>3. QED
      BY <1>4, <3>2 DEF Untouched, Registered
  <2>3. ASSUME pc[v] = "pool", Present(ctx[v], active', retired', of') PROVE duck'[ctx[v]]
    <3>1. ctx[v] \in Contexts /\ Registered(ctx[v]) /\ ctx[v] \notin X
      BY <1>2, <2>1, <2>3 DEF UserOK
    <3>2. QED
      BY <1>3, <2>1, <2>3, <3>1 DEF UserOK
  <2>4. QED
    BY <1>4, <2>1, <2>2, <2>3 DEF UserOK, Registered
<1>7. ASSUME NEW q \in Requests PROVE RequestOK(q)'
  <2>1. RequestOK(q) /\ q \in Users
    BY DEF IInv, RequestsOK, Users
  <2>2. ASSUME NEW j \in 1 .. MaxGets[q]
        PROVE  /\ held'[<<q, j>>] = held[<<q, j>>] \/ held'[<<q, j>>] = NoContext
               /\ q # r => held'[<<q, j>>] = held[<<q, j>>]
    <3>1. <<q, j>> \in Leases /\ (q # r => <<q, j>> # <<r, k>>)
      BY LeaseIn
    <3>2. QED
      BY <1>2, <3>1
  <2>3. ASSUME pc[q] = "use" PROVE duck'[ctx[q]]
    <3>1. /\ gets[q] \in 1 .. MaxGets[q] /\ held[<<q, gets[q]>>] = ctx[q] /\ duck[ctx[q]]
          /\ ctx[q] \in Contexts /\ ctx[q] # NoContext
      BY <2>1, <2>3, ConstantsAssumption DEF RequestOK, IInv, UsersOK, UserOK
    <3>2. held'[<<q, gets[q]>>] = ctx[q]
      BY <1>4, <2>2, <2>3, <3>1
    <3>3. ctx[q] \notin X
      BY <1>2, <3>1, <3>2, LeaseIn
    <3>4. QED
      BY <1>3, <3>1, <3>3
  <2>4. QED
    BY <1>4, <2>1, <2>2, <2>3 DEF RequestOK
<1>8. ASSUME NEW y \in Contexts, Present(y, active', retired', of')
      PROVE  /\ pool'[y] \/ flag'[y] => duck'[y]
             /\ duck'[y] /\ ~ pool'[y] => \E v \in Users : pc'[v] = "pool" /\ ctx'[v] = y
  <2>1. y \notin X /\ Registered(y)
    BY <1>2, <1>8
  <2>2. /\ pool[y] \/ flag[y] => duck[y]
        /\ duck[y] /\ ~ pool[y] => \E v \in Users : pc[v] = "pool" /\ ctx[v] = y
    BY <2>1 DEF IInv, ConnectionsOK
  <2>3. QED
    BY <1>3, <1>4, <2>1, <2>2
<1>9. QED
  BY <1>1, <1>5, <1>6, <1>7, <1>8
  DEF IInv, UsersOK, RequestsOK, ConnectionsOK, Registered

\* A step of u on the context it has, or on nothing, that leaves the registry
\* as it is: what others rely on is not disturbed.
LEMMA OwnStep ==
    ASSUME IInv, TypeOK', NEW u \in Users,
           UNCHANGED <<active, retired, of, leases, held, gets>>,
           \A v \in Users : v # u => pc'[v] = pc[v] /\ ctx'[v] = ctx[v] /\ want'[v] = want[v],
           pc[u] # "built", pc'[u] # "built", ctx'[u] \in {ctx[u], NoContext},
           \A y \in Contexts :
             /\ duck[y] => duck'[y]
             /\ y # ctx[u] => duck'[y] = duck[y] /\ pool'[y] = pool[y] /\ flag'[y] = flag[y],
           UserOK(u)', u \in Requests => RequestOK(u)',
           \A y \in Contexts :
             y = ctx[u] /\ Registered(y) =>
               /\ pool'[y] \/ flag'[y] => duck'[y]
               /\ duck'[y] /\ ~ pool'[y] => \E v \in Users : pc'[v] = "pool" /\ ctx'[v] = y
    PROVE  IInv'
<1>1. LeasesAreCounted' /\ DictionariesOK' /\ HeldOK'
  BY DEF IInv, LeasesAreCounted, Holders, DictionariesOK, HeldOK, Registered
<1>2. ASSUME NEW v \in Users, v # u PROVE UserOK(v)'
  <2>1. UserOK(v) /\ pc'[v] = pc[v] /\ ctx'[v] = ctx[v] /\ want'[v] = want[v]
    BY <1>2 DEF IInv, UsersOK
  <2>2. CASE pc[v] = "built"
    <3>1. /\ ctx[v] \in Contexts /\ of[ctx[v]] = want[v] /\ Untouched(ctx[v])
          /\ \A w \in Users \ {v} : ctx[w] # ctx[v]
      BY <2>1, <2>2 DEF UserOK
    <3>2. ctx[v] # NoContext /\ ctx[v] # ctx[u]
      BY <1>2, <3>1, ConstantsAssumption
    <3>3. \A w \in Users \ {v} : ctx'[w] # ctx'[v]
      BY <2>1, <3>1, <3>2
    <3>4. ~ duck'[ctx[v]] /\ ~ pool'[ctx[v]] /\ ~ flag'[ctx[v]]
      BY <3>1, <3>2 DEF Untouched
    <3>5. ~ Present(ctx[v], active', retired', of')
      BY <3>1 DEF Untouched, Registered
    <3>6. QED
      BY <2>1, <2>2, <3>1, <3>3, <3>4, <3>5 DEF UserOK, Untouched, Registered
  <2>3. CASE pc[v] # "built"
    BY <2>1, <2>3 DEF UserOK, Registered
  <2>4. QED
    BY <2>2, <2>3
<1>3. ASSUME NEW r \in Requests, r # u PROVE RequestOK(r)'
  <2>1. RequestOK(r) /\ r \in Users
    BY DEF IInv, RequestsOK, Users
  <2>2. pc'[r] = pc[r] /\ ctx'[r] = ctx[r]
    BY <1>3, <2>1
  <2>3. ASSUME pc[r] = "use" PROVE duck'[ctx[r]]
    <3>1. ctx[r] \in Contexts /\ duck[ctx[r]]
      BY <2>1, <2>3 DEF RequestOK, IInv, UsersOK, UserOK
    <3>2. QED
      BY <3>1
  <2>4. QED
    BY <2>1, <2>2, <2>3 DEF RequestOK
<1>4. ASSUME NEW y \in Contexts, Registered(y), y # ctx[u]
      PROVE  /\ pool'[y] \/ flag'[y] => duck'[y]
             /\ duck'[y] /\ ~ pool'[y] => \E v \in Users : pc'[v] = "pool" /\ ctx'[v] = y
  <2>1. /\ pool[y] \/ flag[y] => duck[y]
        /\ duck[y] /\ ~ pool[y] => \E v \in Users : pc[v] = "pool" /\ ctx[v] = y
    BY <1>4 DEF IInv, ConnectionsOK
  <2>2. ASSUME NEW v \in Users, ctx[v] = y PROVE pc'[v] = pc[v] /\ ctx'[v] = ctx[v]
    BY <1>4, <2>2
  <2>3. QED
    BY <1>4, <2>1, <2>2
<1>5. ConnectionsOK'
  BY <1>4 DEF ConnectionsOK, Registered
<1>6. QED
  BY <1>1, <1>2, <1>3, <1>5 DEF IInv, UsersOK, RequestsOK

\* A request uses a context that is registered.
LEMMA UsedIsRegistered ==
    ASSUME IInv, NEW r \in Requests, pc[r] \in {"connect", "duck", "pool", "use"}
    PROVE  ctx[r] \in Contexts /\ Registered(ctx[r])
<1>1. ctx[r] \in Contexts /\ ctx[r] # NoContext
  BY ConstantsAssumption DEF IInv, UsersOK, UserOK, Users
<1>2. gets[r] \in 1 .. MaxGets[r] /\ held[<<r, gets[r]>>] = ctx[r]
  BY DEF IInv, RequestsOK, RequestOK
<1>3. QED
  BY <1>1, <1>2, LeaseIn DEF IInv, HeldOK

LEMMA ConnectInv ==
    ASSUME IInv, NEW u \in Users, Connect(u)
    PROVE  IInv'
<1>1. /\ pc[u] = "connect" /\ ctx[u] \in Contexts
      /\ UNCHANGED <<active, retired, of, leases, held, gets, duck, pool, want, ctx>>
  BY DEF Connect, dictionaries, IInv, UsersOK, UserOK
<1>2. UserOK(u) /\ (u \in Requests => RequestOK(u) /\ Registered(ctx[u]))
  BY <1>1, UsedIsRegistered DEF IInv, UsersOK, RequestsOK
<1>3. CASE Disconnected(ctx[u])
  <2>1. pc' = [pc EXCEPT ![u] = "duck"] /\ flag' = flag
    BY <1>3 DEF Connect
  <2>2. TypeOK' /\ pc'[u] = "duck" /\ \A v \in Users : v # u => pc'[v] = pc[v]
    BY <1>1, <2>1 DEF IInv, TypeOK
  <2>3. UserOK(u)' /\ (u \in Requests => RequestOK(u)')
    BY <1>1, <1>2, <2>2 DEF UserOK, RequestOK
  <2>4. ASSUME NEW y \in Contexts, y = ctx[u], Registered(y)
        PROVE  ~ pool'[y] /\ ~ flag'[y] /\ ~ duck'[y]
    BY <1>1, <1>3, <2>1, <2>4 DEF IInv, ConnectionsOK, Disconnected
  <2>5. QED
    BY <1>1, <2>1, <2>2, <2>3, <2>4, OwnStep
<1>4. CASE ~ Disconnected(ctx[u])
  <2>1. pc' = [pc EXCEPT ![u] = "use"] /\ flag' = [flag EXCEPT ![ctx[u]] = TRUE]
    BY <1>4 DEF Connect
  <2>2. TypeOK' /\ pc'[u] = "use" /\ \A v \in Users : v # u => pc'[v] = pc[v]
    BY <1>1, <2>1 DEF IInv, TypeOK
  <2>3. \A y \in Contexts : y # ctx[u] => flag'[y] = flag[y]
    BY <2>1 DEF IInv, TypeOK
  <2>4. Registered(ctx[u]) => duck[ctx[u]]
    BY <1>1, <1>4 DEF IInv, ConnectionsOK, Disconnected
  <2>5. UserOK(u)' /\ (u \in Requests => RequestOK(u)')
    BY <1>1, <1>2, <2>2, <2>4 DEF UserOK, RequestOK
  <2>6. ASSUME NEW y \in Contexts, y = ctx[u], Registered(y)
        PROVE  /\ duck'[y]
               /\ ~ pool'[y] => \E v \in Users : pc'[v] = "pool" /\ ctx'[v] = y
    <3>1. duck[y] /\ (~ pool[y] => \E v \in Users : pc[v] = "pool" /\ ctx[v] = y)
      BY <2>4, <2>6 DEF IInv, ConnectionsOK
    <3>2. \A v \in Users : pc[v] = "pool" => pc'[v] = "pool"
      BY <1>1, <2>2
    <3>3. QED
      BY <1>1, <3>1, <3>2
  <2>7. QED
    BY <1>1, <2>2, <2>3, <2>5, <2>6, OwnStep
<1>5. QED
  BY <1>3, <1>4

LEMMA BuildDuckInv ==
    ASSUME IInv, NEW u \in Users, BuildDuck(u)
    PROVE  IInv'
<1>1. /\ pc[u] = "duck" /\ ctx[u] \in Contexts
      /\ UNCHANGED <<active, retired, of, leases, held, gets, pool, flag, want, ctx>>
      /\ pc' = [pc EXCEPT ![u] = "pool"] /\ duck' = [duck EXCEPT ![ctx[u]] = TRUE]
  BY DEF BuildDuck, dictionaries, IInv, UsersOK, UserOK
<1>2. /\ TypeOK' /\ pc'[u] = "pool" /\ duck'[ctx[u]]
      /\ \A v \in Users : v # u => pc'[v] = pc[v]
      /\ \A y \in Contexts : y # ctx[u] => duck'[y] = duck[y]
  BY <1>1 DEF IInv, TypeOK
<1>3. UserOK(u)' /\ (u \in Requests => RequestOK(u)')
  BY <1>1, <1>2 DEF UserOK, RequestOK, IInv, RequestsOK
<1>4. QED
  BY <1>1, <1>2, <1>3, OwnStep

LEMMA BuildPoolInv ==
    ASSUME IInv, NEW u \in Users, BuildPool(u)
    PROVE  IInv'
<1>1. /\ pc[u] = "pool" /\ ctx[u] \in Contexts
      /\ UNCHANGED <<active, retired, of, leases, held, gets, duck, want, ctx>>
      /\ pc' = [pc EXCEPT ![u] = "use"]
      /\ pool' = [pool EXCEPT ![ctx[u]] = TRUE] /\ flag' = [flag EXCEPT ![ctx[u]] = TRUE]
  BY DEF BuildPool, dictionaries, IInv, UsersOK, UserOK
<1>2. /\ TypeOK' /\ pc'[u] = "use" /\ pool'[ctx[u]]
      /\ \A v \in Users : v # u => pc'[v] = pc[v]
      /\ \A y \in Contexts : y # ctx[u] => pool'[y] = pool[y] /\ flag'[y] = flag[y]
  BY <1>1 DEF IInv, TypeOK
<1>3. Registered(ctx[u]) => duck[ctx[u]]
  BY <1>1 DEF IInv, UsersOK, UserOK
<1>4. UserOK(u)' /\ (u \in Requests => RequestOK(u)')
  BY <1>1, <1>2, <1>3, UsedIsRegistered DEF UserOK, RequestOK, IInv, RequestsOK
<1>5. QED
  BY <1>1, <1>2, <1>3, <1>4, OwnStep

LEMMA ReconnectInv ==
    ASSUME IInv, NEW u \in Users, Reconnect(u)
    PROVE  IInv'
<1>1. /\ pc[u] = "use" /\ ctx[u] \in Contexts /\ u \notin Requests
      /\ UNCHANGED <<active, retired, of, leases, held, gets, flag, want, ctx, pc>>
      /\ duck' = [duck EXCEPT ![ctx[u]] = TRUE] /\ pool' = [pool EXCEPT ![ctx[u]] = TRUE]
  BY ConstantsAssumption DEF Reconnect, dictionaries, IInv, UsersOK, UserOK
<1>2. /\ TypeOK' /\ pool'[ctx[u]] /\ duck'[ctx[u]]
      /\ \A y \in Contexts : y # ctx[u] => pool'[y] = pool[y] /\ duck'[y] = duck[y]
  BY <1>1 DEF IInv, TypeOK
<1>3. UserOK(u)'
  BY <1>1 DEF UserOK
<1>4. QED
  BY <1>1, <1>2, <1>3, OwnStep

\* A step that touches no connection, of a user that is building none.
LEMMA IdleStep ==
    ASSUME IInv, TypeOK', NEW u \in Users,
           UNCHANGED <<active, retired, of, leases, held, gets, duck, pool, flag>>,
           \A v \in Users : v # u => pc'[v] = pc[v] /\ ctx'[v] = ctx[v] /\ want'[v] = want[v],
           pc[u] \notin {"built", "pool"}, pc'[u] \in {"get", "release", "over"},
           ctx'[u] \in {ctx[u], NoContext},
           u \in Requests /\ pc'[u] = "get" => gets[u] < MaxGets[u]
    PROVE  IInv'
<1>1. UserOK(u)'
  BY DEF UserOK
<1>2. u \in Requests => RequestOK(u)'
  BY DEF RequestOK, IInv, RequestsOK
<1>3. ASSUME NEW y \in Contexts, Registered(y)
      PROVE  /\ pool'[y] \/ flag'[y] => duck'[y]
             /\ duck'[y] /\ ~ pool'[y] => \E v \in Users : pc'[v] = "pool" /\ ctx'[v] = y
  <2>1. /\ pool[y] \/ flag[y] => duck[y]
        /\ duck[y] /\ ~ pool[y] => \E v \in Users : pc[v] = "pool" /\ ctx[v] = y
    BY <1>3 DEF IInv, ConnectionsOK
  <2>2. ASSUME NEW v \in Users, pc[v] = "pool" PROVE pc'[v] = "pool" /\ ctx'[v] = ctx[v]
    BY <2>2
  <2>3. QED
    BY <2>1, <2>2
<1>4. QED
  BY <1>1, <1>2, <1>3, OwnStep

LEMMA GetAgainInv ==
    ASSUME IInv, NEW u \in Users, GetAgain(u)
    PROVE  IInv'
<1>1. /\ pc[u] = "use" /\ gets[u] < MaxGets[u]
      /\ ctx' = [ctx EXCEPT ![u] = NoContext] /\ pc' = [pc EXCEPT ![u] = "get"]
      /\ UNCHANGED <<active, retired, of, leases, held, gets, duck, pool, flag, want>>
  BY DEF GetAgain, dictionaries, connections
<1>2. /\ TypeOK' /\ pc'[u] = "get" /\ ctx'[u] = NoContext
      /\ \A v \in Users : v # u => pc'[v] = pc[v] /\ ctx'[v] = ctx[v]
  BY <1>1 DEF IInv, TypeOK, Maybe
<1>3. QED
  BY <1>1, <1>2, IdleStep

LEMMA FinishInv ==
    ASSUME IInv, NEW u \in Users, Finish(u)
    PROVE  IInv'
<1>1. /\ pc[u] \in {"resolve", "duck", "use"}
      /\ ctx' = [ctx EXCEPT ![u] = NoContext] /\ want' = [want EXCEPT ![u] = Default]
      /\ pc' = [pc EXCEPT ![u] = IF u \in Requests THEN "release" ELSE "over"]
      /\ UNCHANGED <<active, retired, of, leases, held, gets, duck, pool, flag>>
  BY DEF Finish, dictionaries, connections
<1>2. /\ TypeOK' /\ pc'[u] \in {"release", "over"} /\ ctx'[u] = NoContext
      /\ \A v \in Users : v # u => pc'[v] = pc[v] /\ ctx'[v] = ctx[v] /\ want'[v] = want[v]
  BY <1>1, ConstantsAssumption DEF IInv, TypeOK, Maybe
<1>3. QED
  BY <1>1, <1>2, IdleStep

LEMMA LeaveInv ==
    ASSUME IInv, NEW r \in Requests, Leave(r)
    PROVE  IInv'
<1>1. /\ pc[r] = "release" /\ r \in Users /\ pc' = [pc EXCEPT ![r] = "over"]
      /\ UNCHANGED <<active, retired, of, leases, held, gets, duck, pool, flag, want, ctx>>
  BY DEF Leave, dictionaries, connections, Users
<1>2. /\ TypeOK' /\ pc'[r] = "over" /\ \A v \in Users : v # r => pc'[v] = pc[v]
  BY <1>1 DEF IInv, TypeOK
<1>3. QED
  BY <1>1, <1>2, IdleStep

LEMMA StutterInv ==
    ASSUME IInv, UNCHANGED vars
    PROVE  IInv'
<1>1. UNCHANGED <<active, retired, of, leases, duck, pool, flag, pc, want, ctx, gets, held>>
  BY DEF vars, dictionaries, connections
<1>2. TypeOK' /\ LeasesAreCounted' /\ DictionariesOK' /\ HeldOK'
  BY <1>1 DEF IInv, TypeOK, LeasesAreCounted, Holders, DictionariesOK, HeldOK, Registered
<1>3. UsersOK' /\ RequestsOK' /\ ConnectionsOK'
  BY <1>1 DEF IInv, UsersOK, UserOK, RequestsOK, RequestOK, ConnectionsOK, Registered, Untouched
<1>4. QED
  BY <1>2, <1>3 DEF IInv

----------------------------------------------------------------------------
(***************************************************************************)
(* The invariant.                                                          *)
(***************************************************************************)

LEMMA InitInv == Init => IInv
<1> SUFFICES ASSUME Init PROVE IInv
  OBVIOUS
<1> DEFINE x == CHOOSE y \in Contexts : TRUE
<1>1. x \in Contexts /\ Default \in Catalogs
  BY ConstantsAssumption
<1>2. /\ active = [c \in Catalogs |-> IF c = Default THEN x ELSE NoContext]
      /\ duck = [y \in Contexts |-> y = x]
      /\ pool = [y \in Contexts |-> y = x]
      /\ flag = [y \in Contexts |-> y = x]
  BY DEF Init
<1> HIDE DEF x
<1>3. /\ retired = [c \in Catalogs |-> NoContext]
      /\ of = [y \in Contexts |-> Default]
      /\ leases = [y \in Contexts |-> 0]
      /\ pc = [u \in Users |-> "get"]
      /\ want = [u \in Users |-> Default]
      /\ ctx = [u \in Users |-> NoContext]
      /\ gets = [u \in Users |-> 0]
      /\ held = [t \in Leases |-> NoContext]
  BY DEF Init
<1>4. TypeOK
  BY <1>1, <1>2, <1>3 DEF TypeOK, Maybe
<1>5. LeasesAreCounted
  <2>1. \A y \in Contexts : y # NoContext
    BY ConstantsAssumption
  <2>2. \A y \in Contexts : Holders(y) = {}
    BY <1>3, <2>1 DEF Holders
  <2>3. QED
    BY <1>3, <2>2, FS_EmptySet DEF LeasesAreCounted
<1>6. DictionariesOK /\ HeldOK
  BY <1>1, <1>2, <1>3 DEF DictionariesOK, Filed, HeldOK
<1>7. UsersOK
  BY <1>3 DEF UsersOK, UserOK
<1>8. RequestsOK
  <2>1. ASSUME NEW r \in Requests PROVE RequestOK(r)
    <3>1. pc[r] = "get" /\ gets[r] = 0 /\ MaxGets[r] \in Nat \ {0}
      BY <1>3, ConstantsAssumption DEF Users
    <3>2. \A k \in 1 .. MaxGets[r] : held[<<r, k>>] = NoContext
      BY <1>3, LeaseIn
    <3>3. QED
      BY <3>1, <3>2 DEF RequestOK
  <2>2. QED
    BY <2>1 DEF RequestsOK
<1>9. ConnectionsOK
  BY <1>2 DEF ConnectionsOK
<1>10. QED
  BY <1>4, <1>5, <1>6, <1>7, <1>8, <1>9 DEF IInv

LEMMA StepInv == IInv /\ [Next]_vars => IInv'
<1> SUFFICES ASSUME IInv, [Next]_vars PROVE IInv'
  OBVIOUS
<1>1. ASSUME NEW u \in Users, NEW c \in Catalogs, GetCached(u, c) PROVE IInv'
  BY <1>1, GetCachedInv
<1>2. ASSUME NEW u \in Users, Resolve(u) PROVE IInv'
  BY <1>2, ResolveInv
<1>3. ASSUME NEW u \in Users, GetBuilt(u) PROVE IInv'
  BY <1>3, GetBuiltInv
<1>4. ASSUME NEW u \in Users, Connect(u) \/ BuildDuck(u) \/ BuildPool(u) PROVE IInv'
  BY <1>4, ConnectInv, BuildDuckInv, BuildPoolInv
<1>5. ASSUME NEW u \in Users, GetAgain(u) \/ Reconnect(u) \/ Finish(u) PROVE IInv'
  BY <1>5, GetAgainInv, ReconnectInv, FinishInv
<1>6. ASSUME NEW r \in Requests, NEW k \in 1 .. MaxGets[r], Release(r, k) PROVE IInv'
  BY <1>6, ReleaseInv
<1>7. ASSUME NEW r \in Requests, Leave(r) PROVE IInv'
  BY <1>7, LeaveInv
<1>8. CASE Done \/ UNCHANGED vars
  BY <1>8, StutterInv DEF Done
<1>9. QED
  BY <1>1, <1>2, <1>3, <1>4, <1>5, <1>6, <1>7, <1>8, Zenon DEF Next

\* Whatever the threads do, in any order, the invariant holds.
THEOREM Invariance == Spec => []IInv
<1>1. Init => IInv
  BY InitInv
<1>2. IInv /\ [Next]_vars => IInv'
  BY StepInv
<1>3. QED
  BY <1>1, <1>2, PTL DEF Spec

\* The variables have the types that the code gives them: in particular the
\* lease counts of CatalogContext never go below zero.
THEOREM TypeCorrect == Spec => []TypeOK
<1>1. IInv => TypeOK
  BY DEF IInv
<1>2. QED
  BY <1>1, Invariance, PTL

\* The _leases of a CatalogContext are the leases that requests hold on it.
THEOREM LeaseCount == Spec => []LeasesAreCounted
<1>1. IInv => LeasesAreCounted
  BY DEF IInv
<1>2. QED
  BY <1>1, Invariance, PTL

\* CatalogRegistry._retired holds contexts that are leased, of catalogs that
\* _ctxs has no context of.
THEOREM RetiredWait == Spec => []RetiredAreLeased
<1>1. IInv => RetiredAreLeased
  BY DEF IInv, DictionariesOK, Filed, RetiredAreLeased
<1>2. QED
  BY <1>1, Invariance, PTL

\* Leases are counted, and a retired context waits for one to be given back.
THEOREM LeasesRight == Spec => []LeasesAreRight
<1>1. LeasesAreCounted /\ RetiredAreLeased => LeasesAreRight
  BY DEF LeasesAreRight
<1>2. QED
  BY <1>1, LeaseCount, RetiredWait, PTL

\* CatalogRegistry.get gives the requests that use a catalog at the same time
\* one context of it.
THEOREM OneContext == Spec => []OneContextPerCatalog
<1>1. ASSUME IInv PROVE OneContextPerCatalog
  <2>1. SUFFICES ASSUME NEW t \in Leases, NEW v \in Leases,
                        held[t] # NoContext, held[v] # NoContext, of[held[t]] = of[held[v]]
                 PROVE  held[t] = held[v]
    BY DEF OneContextPerCatalog
  <2>2. held[t] \in Contexts /\ held[v] \in Contexts /\ of[held[t]] \in Catalogs
    BY <1>1, <2>1 DEF IInv, TypeOK, Maybe
  <2>3. Registered(held[t]) /\ Registered(held[v])
    BY <1>1, <2>1 DEF IInv, HeldOK
  <2>4. QED
    BY <1>1, <2>1, <2>2, <2>3 DEF IInv, DictionariesOK, Filed, Registered, Present
<1>2. QED
  BY <1>1, Invariance, PTL

\* A request whose connect has returned has an open context, unless somebody
\* is building the connections still.
THEOREM SettledOpen == Spec => []SettledIsOpen
<1>1. ASSUME IInv PROVE SettledIsOpen
  <2>1. SUFFICES ASSUME NEW r \in Requests, pc[r] = "use",
                        \A u \in Users : pc[u] \in {"duck", "pool"} => ctx[u] # ctx[r]
                 PROVE  Open(ctx[r])
    BY DEF SettledIsOpen
  <2>2. duck[ctx[r]] /\ ctx[r] \in Contexts /\ Registered(ctx[r])
    BY <1>1, <2>1, UsedIsRegistered DEF IInv, RequestsOK, RequestOK
  <2>3. QED
    BY <1>1, <2>1, <2>2 DEF IInv, ConnectionsOK, Open
<1>2. QED
  BY <1>1, Invariance, PTL

----------------------------------------------------------------------------
(***************************************************************************)
(* What a step may close.                                                  *)
(***************************************************************************)

LEMMA GetCachedCloses ==
    ASSUME IInv, NEW u \in Users, NEW c \in Catalogs, GetCached(u, c)
    PROVE  \E X \in SUBSET Contexts : Disconnect(X) /\ \A y \in X : leases[y] = 0
<1>1. PICK idle \in IdleSets : Disconnect(Closed(idle, active, leases))
  BY DEF GetCached
<1>2. idle \in SUBSET { d \in Catalogs : active[d] # NoContext }
  BY DEF IdleSets
<1>3. /\ Closed(idle, active, leases) \subseteq Contexts
      /\ \A y \in Closed(idle, active, leases) : leases[y] = 0
  BY <1>2, EvictionFiles DEF IInv, TypeOK, DictionariesOK
<1>4. QED
  BY <1>1, <1>3

LEMMA GetBuiltCloses ==
    ASSUME IInv, NEW u \in Users, GetBuilt(u)
    PROVE  \E X \in SUBSET Contexts : Disconnect(X) /\ \A y \in X : leases[y] = 0
<1> DEFINE c == want[u]
           known == Found(c, active, retired)
           x == IF known # NoContext THEN known ELSE ctx[u]
           a == [active EXCEPT ![c] = x]
           n == Leased(u, x)
<1>1. PICK S \in CapEvictions(c, a) : Disconnect(Closed(S, a, n))
  BY DEF GetBuilt
<1>2. /\ x \in Contexts /\ c \in Catalogs
      /\ leases' = n /\ Hold(u, x)
  <2>1. pc[u] = "built" /\ leases' = n /\ Hold(u, x)
    BY DEF GetBuilt
  <2>2. ctx[u] \in Contexts /\ known \in Maybe /\ c \in Catalogs
    BY <2>1 DEF IInv, UsersOK, UserOK, TypeOK, Found
  <2>3. QED
    BY <2>1, <2>2 DEF Maybe
<1>3. n \in [Contexts -> Nat] /\ \A y \in Contexts : leases[y] <= n[y] /\ leases[y] \in Nat
  BY <1>2, HoldType DEF IInv, TypeOK
<1>4. \A d \in S : d \in Catalogs /\ a[d] \in Contexts
  BY <1>2 DEF CapEvictions, IInv, TypeOK, Maybe
<1> HIDE DEF a, n
<1>5. Closed(S, a, n) \in SUBSET Contexts /\ \A y \in Closed(S, a, n) : n[y] = 0
  BY <1>4 DEF Closed
<1>6. \A y \in Closed(S, a, n) : leases[y] = 0
  BY <1>3, <1>5
<1>7. QED
  BY <1>1, <1>5, <1>6

\* Only an eviction and the last release close anything, and neither closes a
\* context that somebody goes on holding.
THEOREM HeldStays == Spec => HeldStaysOpen
<1>1. ASSUME IInv, [Next]_vars
      PROVE  \A t \in Leases :
               held[t] # NoContext /\ held'[t] = held[t] /\ Open(held[t]) => Open(held[t])'
  <2>1. SUFFICES ASSUME NEW t \in Leases, held[t] # NoContext, held'[t] = held[t],
                        duck[held[t]], pool[held[t]]
                 PROVE  duck'[held[t]] /\ pool'[held[t]]
    BY DEF Open
  <2> DEFINE x == held[t]
  <2>2. x \in Contexts /\ leases[x] > 0
    BY <1>1, <2>1, HeldIsLeased DEF IInv, TypeOK, LeasesAreCounted, Holders
  <2> HIDE DEF x
  <2>3. ASSUME NEW X \in SUBSET Contexts, Disconnect(X), \A y \in X : leases[y] = 0
        PROVE  duck'[x] /\ pool'[x]
    BY <2>1, <2>2, <2>3, DisconnectType DEF x
  <2>4. ASSUME NEW u \in Users, NEW c \in Catalogs, GetCached(u, c) PROVE duck'[x] /\ pool'[x]
    BY <1>1, <2>3, <2>4, GetCachedCloses
  <2>5. ASSUME NEW u \in Users, GetBuilt(u) PROVE duck'[x] /\ pool'[x]
    BY <1>1, <2>3, <2>5, GetBuiltCloses
  <2>6. ASSUME NEW u \in Users, Resolve(u) PROVE duck'[x] /\ pool'[x]
    <3> DEFINE z == CHOOSE y \in Contexts : Fresh(y)
    <3>1. z \in Contexts /\ Fresh(z)
      BY <2>6 DEF Resolve
    <3>2. duck' = [duck EXCEPT ![z] = FALSE] /\ pool' = [pool EXCEPT ![z] = FALSE]
      BY <2>6 DEF Resolve
    <3> HIDE DEF z
    <3>3. z # x
      BY <3>1 DEF Fresh, x
    <3>4. QED
      BY <1>1, <2>1, <2>2, <3>2, <3>3 DEF IInv, TypeOK, x
  <2>7. ASSUME NEW u \in Users, BuildDuck(u) \/ BuildPool(u) \/ Reconnect(u)
        PROVE  duck'[x] /\ pool'[x]
    <3>1. /\ duck' = duck \/ duck' = [duck EXCEPT ![ctx[u]] = TRUE]
          /\ pool' = pool \/ pool' = [pool EXCEPT ![ctx[u]] = TRUE]
      BY <2>7 DEF BuildDuck, BuildPool, Reconnect
    <3>2. QED
      BY <1>1, <2>1, <2>2, <3>1 DEF IInv, TypeOK, x
  <2>8. ASSUME NEW r \in Requests, NEW k \in 1 .. MaxGets[r], Release(r, k)
        PROVE  duck'[x] /\ pool'[x]
    <3>1. x \notin Unused(held[<<r, k>>])
      BY <1>1, <2>1, <2>8, ReleaseFiles DEF x
    <3>2. duck'[x] = duck[x] /\ pool'[x] = pool[x]
      <4>1. (duck'[x] <=> duck[x]) /\ (pool'[x] <=> pool[x])
        BY <1>1, <2>2, <2>8, <3>1, ReleaseFiles
      <4>2. TypeOK /\ TypeOK'
        BY <1>1, <2>8, ReleaseFiles DEF IInv
      <4>3. QED
        BY <2>2, <4>1, <4>2 DEF TypeOK
    <3>3. QED
      BY <2>1, <3>2 DEF x
  <2>9. duck' = duck /\ pool' = pool => duck'[x] /\ pool'[x]
    BY <2>1 DEF x
  <2>10. ASSUME NEW u \in Users, Connect(u) \/ GetAgain(u) \/ Finish(u)
         PROVE  duck'[x] /\ pool'[x]
    BY <2>9, <2>10 DEF Connect, GetAgain, Finish, connections
  <2>11. ASSUME NEW r \in Requests, Leave(r) PROVE duck'[x] /\ pool'[x]
    BY <2>9, <2>11 DEF Leave, connections
  <2>12. CASE Done \/ UNCHANGED vars
    <3>1. UNCHANGED <<duck, pool>>
      BY <2>12 DEF Done, vars, connections
    <3>2. QED
      BY <2>9, <3>1 DEF x
  <2>13. duck'[x] /\ pool'[x]
    <3>1. \/ \E u \in Users :
               \/ \E c \in Catalogs : GetCached(u, c)
               \/ GetBuilt(u) \/ Resolve(u)
               \/ BuildDuck(u) \/ BuildPool(u) \/ Reconnect(u)
               \/ Connect(u) \/ GetAgain(u) \/ Finish(u)
          \/ \E r \in Requests : (\E k \in 1 .. MaxGets[r] : Release(r, k)) \/ Leave(r)
          \/ Done \/ UNCHANGED vars
      BY <1>1, Zenon DEF Next
    <3>2. QED
      BY <2>4, <2>5, <2>6, <2>7, <2>8, <2>10, <2>11, <2>12, <3>1 DEF x
  <2>14. QED
    BY <2>13 DEF x
<1>2. QED
  BY <1>1, Invariance, PTL DEF Spec, HeldStaysOpen

----------------------------------------------------------------------------
(***************************************************************************)
(* The inductive invariant of ReaderRls and ReaderRoles.                   *)
(***************************************************************************)


Steps == {"idle", "gap", "lock", "arming", "ready", "dating", "mapping", "answered", "failed"}

\* Values that RlsTypeOK leaves open.
Shape ==
    /\ arm \in [Calls -> Steps]
    /\ lock \in Calls \cup {None}
    /\ Early \subseteq exists

\* A process that is armed, and has not put its arm off, has seen a whole arm;
\* whoever arms has classified the tables the catalog began with.
ArmedOK ==
    /\ \A w \in Workers : armed[w] # "never" /\ w \notin pending => Early \subseteq granted \cap policied
    /\ \A k \in Calls : ArmAt(k, "arming") => Early \subseteq todo[k]

\* A vend gets past the look at _ARMED only in an armed process, or with the
\* whole DDL to run.
VendOK ==
    \A k \in Calls :
        ArmAt(k, "ready") \/ ArmAt(k, "gap") \/ (arm[k] \in {"lock", "arming"} /\ k \notin full)
            => armed[WorkerOf[k]] # "never"

RlsInv == RlsTypeOK /\ Shape /\ ArmedOK /\ VendOK

Settled == {"answered", "failed"}

\* A role that can log in belongs to a vend that has got that far, and one
\* that has expired, or that a sweep is at, to a vend that is over.
RolesOK ==
    /\ \A k \in Calls : Dated(k) => arm[k] \in {"mapping"} \cup Settled
    /\ \A k \in Calls : age[k] # "valid" => arm[k] \in Settled

SweepOK ==
    /\ gone \in [Sweepers -> Calls \cup {None}]
    /\ \A w \in Sweepers :
          /\ \A k \in found[w] : age[k] # "valid"
          /\ gone[w] # None => arm[gone[w]] \in Settled

ReadersInv == ReadersTypeOK /\ RlsInv /\ RolesOK /\ SweepOK
----------------------------------------------------------------------------
(***************************************************************************)
(* Arming.                                                                 *)
(***************************************************************************)

LEMMA RlsInitially == RlsInit => RlsInv
BY ReaderRlsAssumption
   DEF RlsInit, RlsInv, RlsTypeOK, Shape, ArmedOK, VendOK, ArmAt, Steps

LEMMA AppearKeeps == RlsInv /\ Appear => RlsInv'
BY DEF RlsInv, RlsTypeOK, Shape, ArmedOK, VendOK, ArmAt, Appear, process, arming

LEMMA FallDueKeeps == ASSUME NEW w \in Workers, RlsInv, FallDue(w) PROVE RlsInv'
BY DEF RlsInv, RlsTypeOK, Shape, ArmedOK, VendOK, ArmAt, FallDue, Mark, ddl, arming

\* The steps of a vend that do not touch the tables.
LEMMA LookKeeps ==
    ASSUME NEW k \in Calls, RlsInv, Check(k) \/ Recheck(k)
    PROVE  RlsInv'
<1> DEFINE w == WorkerOf[k]
<1>1. w \in Workers
  BY ReaderRlsAssumption
<1> USE <1>1 DEF RlsInv, RlsTypeOK, Shape, ArmedOK, VendOK, ArmAt, ArmTo, Mark, Steps, ddl, process
<1>2. CASE Check(k)
  BY <1>2, ReaderRlsAssumption DEF Check
<1>3. CASE Recheck(k)
  BY <1>3 DEF Recheck
<1>4. QED
  BY <1>2, <1>3

\* The statements of ensure_rls, one after the other.
LEMMA DdlKeeps ==
    ASSUME NEW k \in Calls, RlsInv, Lock(k) \/ Grant(k) \/ Police(k)
    PROVE  RlsInv'
<1> USE DEF RlsInv, RlsTypeOK, Shape, ArmedOK, VendOK, ArmAt, ArmTo, Steps, ddl, process, arming
<1>1. CASE Lock(k)
  BY <1>1, ReaderRlsAssumption DEF Lock
<1>2. CASE Grant(k)
  BY <1>2 DEF Grant
<1>3. CASE Police(k)
  BY <1>3 DEF Police
<1>4. QED
  BY <1>1, <1>2, <1>3

\* The end of an arm: everything that was classified is granted and policied.
LEMMA ArmedKeeps == ASSUME NEW k \in Calls, RlsInv, Armed(k) PROVE RlsInv'
<1> DEFINE w == WorkerOf[k]
<1>1. w \in Workers
  BY ReaderRlsAssumption
<1>2. /\ ArmAt(k, "arming") /\ todo[k] \subseteq granted \cap policied
      /\ lock = k /\ lock' = None
      /\ arm' = [arm EXCEPT ![k] = "ready"]
      /\ todo' = [todo EXCEPT ![k] = {}] /\ full' = full \ {k}
      /\ UNCHANGED <<exists, granted, policied, interrupts>>
  BY DEF Armed, ArmTo, LeaveArm, ddl, RlsInv, RlsTypeOK
<1>3. \/ k \in full /\ armed' = [armed EXCEPT ![w] = "fresh"] /\ pending' = pending \ {w}
      \/ k \notin full /\ UNCHANGED <<armed, pending>>
  BY DEF Armed, Mark, process
<1>4. Early \subseteq granted \cap policied
  BY <1>2 DEF RlsInv, ArmedOK
<1>5. RlsTypeOK' /\ Shape'
  BY <1>1, <1>2, <1>3, ReaderRlsAssumption DEF RlsInv, RlsTypeOK, Shape, ArmAt, Steps
<1>6. ArmedOK'
  BY <1>1, <1>2, <1>3, <1>4 DEF RlsInv, Shape, ArmedOK, ArmAt
<1>7. VendOK'
  BY <1>1, <1>2, <1>3, ReaderRlsAssumption DEF RlsInv, RlsTypeOK, Shape, VendOK, ArmAt
<1>8. QED
  BY <1>5, <1>6, <1>7 DEF RlsInv

\* One that is cut short leaves the tables as they are; a process that is
\* marked for it is pending.
LEMMA InterruptKeeps == ASSUME NEW k \in Calls, RlsInv, Interrupt(k) PROVE RlsInv'
<1> DEFINE w == WorkerOf[k]
<1>1. w \in Workers
  BY ReaderRlsAssumption
<1>2. /\ arm[k] \in {"lock", "arming"}
      /\ interrupts' \in 0 .. MaxInterrupts
      /\ lock' = IF lock = k THEN None ELSE lock
      /\ todo' = [todo EXCEPT ![k] = {}] /\ full' = full \ {k}
      /\ UNCHANGED <<exists, granted, policied>>
  BY ReaderRlsAssumption DEF Interrupt, LeaveArm, ddl, RlsInv, RlsTypeOK
<1>3. \/ /\ k \notin full /\ arm' = [arm EXCEPT ![k] = "ready"]
         /\ UNCHANGED <<armed, pending>>
      \/ /\ arm' = [arm EXCEPT ![k] = "ready"]
         /\ armed' = [armed EXCEPT ![w] = "fresh"] /\ pending' = pending \cup {w}
      \/ /\ arm' = [arm EXCEPT ![k] = "failed"]
         /\ UNCHANGED <<armed, pending>>
  BY DEF Interrupt, Mark, ArmTo, process
<1>4. RlsTypeOK' /\ Shape'
  <2>1. /\ arm' \in [Calls -> Steps] /\ lock' \in Calls \cup {None} /\ Shape'
    BY <1>2, <1>3 DEF RlsInv, Shape, Steps
  <2>2. ASSUME NEW j \in Calls PROVE lock' = j <=> arm'[j] = "arming"
    <3>1. /\ arm \in [Calls -> Steps] /\ (lock = j <=> arm[j] = "arming")
          /\ (lock = k <=> arm[k] = "arming") /\ None \notin Calls
      BY ReaderRlsAssumption DEF RlsInv, RlsTypeOK, Shape, ArmAt
    <3>2. arm'[k] # "arming" /\ (j # k => arm'[j] = arm[j])
      BY <1>3, <3>1
    <3>3. CASE lock = k
      BY <1>2, <3>1, <3>2, <3>3
    <3>4. CASE lock # k
      BY <1>2, <3>1, <3>2, <3>4
    <3>5. QED
      BY <3>3, <3>4
  <2>3. full' \subseteq { j \in Calls : arm'[j] \in {"lock", "arming"} }
    BY <1>2, <1>3 DEF RlsInv, RlsTypeOK, Shape
  <2>4. /\ armed' \in [Workers -> {"never", "fresh", "due"}]
        /\ pending' \subseteq { v \in Workers : armed'[v] # "never" }
    BY <1>1, <1>3 DEF RlsInv, RlsTypeOK
  <2>5. QED
    BY <1>2, <2>1, <2>2, <2>3, <2>4 DEF RlsInv, RlsTypeOK, ArmAt
<1>5. ArmedOK'
  BY <1>1, <1>2, <1>3 DEF RlsInv, RlsTypeOK, Shape, ArmedOK, ArmAt
<1>6. ASSUME NEW j \in Calls,
             arm'[j] \in {"ready", "gap"} \/ (arm'[j] \in {"lock", "arming"} /\ j \notin full')
      PROVE  armed'[WorkerOf[j]] # "never"
  <2>1. WorkerOf[j] \in Workers /\ armed \in [Workers -> {"never", "fresh", "due"}]
    BY ReaderRlsAssumption DEF RlsInv, RlsTypeOK
  <2>2. armed[WorkerOf[j]] # "never" => armed'[WorkerOf[j]] # "never"
    BY <1>1, <1>3, <2>1
  <2>3. CASE j = k
    BY <1>1, <1>2, <1>3, <1>6, <2>1, <2>2, <2>3 DEF RlsInv, Shape, VendOK
  <2>4. CASE j # k
    <3>1. arm'[j] = arm[j] /\ (j \in full => j \in full')
      BY <1>2, <1>3, <2>4 DEF RlsInv, Shape
    <3>2. QED
      BY <1>6, <2>2, <3>1 DEF RlsInv, VendOK, ArmAt
  <2>5. QED
    BY <2>3, <2>4
<1>7. QED
  BY <1>4, <1>5, <1>6 DEF RlsInv, VendOK, ArmAt

LEMMA ArmingKeeps == ASSUME NEW k \in Calls, RlsInv, Arming(k) PROVE RlsInv'
BY LookKeeps, DdlKeeps, ArmedKeeps, InterruptKeeps DEF Arming

\* A process dies; its calls fail, its arm is forgotten.
LEMMA DieKeeps ==
    ASSUME NEW w \in Workers, RlsInv, Die(w), interrupts' \in 0 .. MaxInterrupts
    PROVE  RlsInv'
BY ReaderRlsAssumption
   DEF RlsInv, RlsTypeOK, Shape, ArmedOK, VendOK, ArmAt, Mark, Die, Steps, ddl

\* A vend that goes on, or ends, outside the arming.
LEMMA MoveKeeps ==
    ASSUME NEW k \in Calls, NEW l \in Steps \ {"gap", "lock", "arming", "ready"}, RlsInv,
           arm[k] \notin {"lock", "arming"}, ArmTo(k, l),
           UNCHANGED <<ddl, process, lock, full, todo>>, interrupts' \in 0 .. MaxInterrupts
    PROVE  RlsInv'
BY DEF RlsInv, RlsTypeOK, Shape, ArmedOK, VendOK, ArmAt, ArmTo, Steps, ddl, process

LEMMA RlsStutters == RlsInv /\ UNCHANGED rls => RlsInv'
BY DEF RlsInv, RlsTypeOK, Shape, ArmedOK, VendOK, ArmAt, rls, ddl, process, arming
----------------------------------------------------------------------------
(***************************************************************************)
(* The other steps, and the theorems.                                      *)
(***************************************************************************)

LEMMA Initially == ReadersInit => ReadersInv
<1> SUFFICES ASSUME ReadersInit PROVE ReadersInv
  OBVIOUS
<1>1. RlsInv
  BY RlsInitially DEF ReadersInit
<1>2. QED
  BY <1>1 DEF ReadersInit, ReadersInv, ReadersTypeOK, RlsInv, RolesOK, SweepOK, Dated

\* Arming does not touch the roles, and a vend that arms has none that can
\* log in.
LEMMA RolesUntouched ==
    ASSUME ReadersInv, RlsInv', UNCHANGED <<roles, sweep>>,
           \A k \in Calls : arm[k] \in {"mapping"} \cup Settled => arm'[k] = arm[k]
    PROVE  ReadersInv'
BY DEF ReadersInv, ReadersTypeOK, RlsInv, RolesOK, SweepOK, Dated, Settled, roles, sweep

LEMMA ArmingStays ==
    ASSUME NEW k \in Calls, ReadersInv, Arming(k)
    PROVE  \A j \in Calls : arm[j] \in {"mapping"} \cup Settled => arm'[j] = arm[j]
BY DEF ReadersInv, RlsInv, Shape, Settled, Arming, Check, Recheck, Lock, Grant, Police, Armed, Interrupt,
       ArmAt, ArmTo, arming

\* Provisioning, statement by statement.
LEMMA ProvisionKeeps == ASSUME NEW k \in Calls, ReadersInv, Provision(k) \/ Again(k) PROVE ReadersInv'
<1>1. PICK l \in Steps \ {"gap", "lock", "arming", "ready"} :
        /\ ArmTo(k, l) /\ arm[k] \notin {"lock", "arming"}
        /\ UNCHANGED <<ddl, process, lock, full, todo, sweep>>
        /\ interrupts' \in 0 .. MaxInterrupts
  BY ReaderRlsAssumption
     DEF Provision, Create, Date, MapToPrincipal, ProvisionFails, Again, Fault, ArmAt, ArmTo, Steps,
         ReadersInv, RlsInv, RlsTypeOK
<1>2. RlsInv'
  BY <1>1, MoveKeeps DEF ReadersInv
<1> USE DEF ReadersInv, ReadersTypeOK, RolesOK, SweepOK, Dated, Settled, sweep
<1>3. CASE Create(k) \/ Date(k)
  BY <1>2, <1>3 DEF Create, Date, ArmAt, ArmTo, RlsInv, Shape
<1>4. CASE MapToPrincipal(k) \/ ProvisionFails(k)
  BY <1>2, <1>4 DEF MapToPrincipal, ProvisionFails, ArmAt, ArmTo, RlsInv, Shape, roles
<1>5. CASE Again(k)
  BY <1>2, <1>5 DEF Again, ArmTo, RlsInv, Shape
<1>6. QED
  BY <1>3, <1>4, <1>5 DEF Provision

\* The clock, and the sweeps.
LEMMA GrowKeeps == ASSUME NEW k \in Calls, ReadersInv, Grow(k) PROVE ReadersInv'
<1>1. RlsInv'
  BY RlsStutters DEF Grow, ReadersInv
<1>2. arm' = arm
  BY DEF Grow, rls, arming
<1>3. QED
  BY <1>1, <1>2 DEF Grow, ReadersInv, ReadersTypeOK, RlsInv, RolesOK, SweepOK, Dated, Settled, sweep

LEMMA SweepKeeps == ASSUME NEW w \in Sweepers, ReadersInv, Sweep(w) PROVE ReadersInv'
<1>1. RlsInv' /\ arm' = arm
  BY RlsStutters
     DEF Sweep, Begin, Drop, DeleteRow, DeleteOrphans, Disable, End, ReadersInv, rls, arming
<1> USE <1>1 DEF ReadersInv, ReadersTypeOK, RlsInv, RolesOK, SweepOK, Dated, Settled, SweepTo, roles
<1>2. CASE Begin(w) \/ End(w)
  BY <1>2 DEF Begin, End
<1>3. CASE Drop(w)
  BY <1>3, ReaderRlsAssumption DEF Drop
<1>4. CASE DeleteRow(w)
  BY <1>4 DEF DeleteRow
<1>5. CASE DeleteOrphans(w)
  BY <1>5 DEF DeleteOrphans, Overdue
<1>6. CASE Disable(w)
  BY <1>6 DEF Disable
<1>7. QED
  BY <1>2, <1>3, <1>4, <1>5, <1>6 DEF Sweep

\* A statement of a sweep fails, or a whole process.
LEMMA FaultKeeps ==
    ASSUME ReadersInv, (\E w \in Sweepers : PassOver(w)) \/ (\E w \in Workers : Restart(w))
    PROVE  ReadersInv'
<1>1. interrupts' \in 0 .. MaxInterrupts
  BY ReaderRlsAssumption DEF PassOver, Restart, Fault, ReadersInv, RlsInv, RlsTypeOK
<1> USE DEF ReadersInv, ReadersTypeOK, RolesOK, SweepOK, Dated, Settled, roles
<1>2. ASSUME NEW w \in Sweepers, PassOver(w) PROVE ReadersInv'
  <2>1. RlsInv'
    BY <1>1, <1>2 DEF PassOver, RlsInv, RlsTypeOK, Shape, ArmedOK, VendOK, ArmAt, ddl, process, arming
  <2>2. QED
    BY <1>2, <2>1 DEF PassOver, RlsInv, arming
<1>3. ASSUME NEW w \in Workers, Restart(w) PROVE ReadersInv'
  <2>1. RlsInv'
    BY <1>1, <1>3, DieKeeps DEF Restart
  <2>2. \A k \in Calls : arm'[k] \in {arm[k], "failed"} /\ (arm[k] \in Settled => arm'[k] \in Settled)
    BY <1>3 DEF Restart, Die
  <2>3. QED
    BY <1>3, <2>1, <2>2, ReaderRolesAssumption DEF Restart, RlsInv
<1>4. QED
  BY <1>1, <1>2, <1>3

\* The inductive invariant: who has been armed has seen a whole arm, and only
\* vends that are over have roles that sweeps look at.
THEOREM ReadersInvariance == ReadersSpec => []ReadersInv
<1>1. ReadersInv /\ [ReadersNext]_readerVars => ReadersInv'
  <2> SUFFICES ASSUME ReadersInv, [ReadersNext]_readerVars PROVE ReadersInv'
    OBVIOUS
  <2>1. ASSUME Appear, UNCHANGED <<roles, sweep>> PROVE ReadersInv'
    <3>1. RlsInv' /\ arm' = arm
      BY <2>1, AppearKeeps DEF ReadersInv, Appear, arming
    <3>2. QED
      BY <2>1, <3>1, RolesUntouched
  <2>2. ASSUME NEW w \in Workers, FallDue(w), UNCHANGED <<roles, sweep>> PROVE ReadersInv'
    <3>1. RlsInv' /\ arm' = arm
      BY <2>2, FallDueKeeps DEF ReadersInv, FallDue, arming
    <3>2. QED
      BY <2>2, <3>1, RolesUntouched
  <2>3. ASSUME NEW k \in Calls, Arming(k), UNCHANGED <<roles, sweep>> PROVE ReadersInv'
    BY <2>3, ArmingKeeps, ArmingStays, RolesUntouched DEF ReadersInv
  <2>4. ASSUME UNCHANGED readerVars PROVE ReadersInv'
    <3>1. RlsInv' /\ arm' = arm
      BY <2>4, RlsStutters DEF readerVars, ReadersInv, rls, arming
    <3>2. QED
      BY <2>4, <3>1, RolesUntouched DEF readerVars
  <2>5. QED
    BY <2>1, <2>2, <2>3, <2>4, ProvisionKeeps, GrowKeeps, SweepKeeps, FaultKeeps DEF ReadersNext, Vend
<1>2. QED
  BY <1>1, Initially, PTL DEF ReadersSpec

\* The variables have their types, and the advisory lock of the DDL is in the
\* hands of the vend that runs it.
THEOREM ReadersTypeCorrect == ReadersSpec => []ReadersTypeOK
<1>1. ReadersInv => ReadersTypeOK
  BY DEF ReadersInv
<1>2. QED
  BY <1>1, ReadersInvariance, PTL

\* ensure_rls_cached lets a vend pass only when row security is in place, for
\* any number of processes, restarts and arms that are cut short, but in a
\* process that has put its own arm off.
THEOREM ReadersPoliced == ReadersSpec => []ReadersArePoliced
<1>1. ReadersInv => ReadersArePoliced
  BY ReaderRlsAssumption DEF ReadersInv, RlsInv, ArmedOK, VendOK, ReadersArePoliced
<1>2. QED
  BY <1>1, ReadersInvariance, PTL
=============================================================================
