-------------------------- MODULE CatalogRegistry --------------------------
(***************************************************************************)
(* The catalogs one process has open (registry.CatalogRegistry), the       *)
(* requests that lease them (CatalogLeaseMiddleware) and the background    *)
(* jobs that use them without a lease (maintenance).                       *)
(*                                                                         *)
(* The registry's dictionaries change under its lock; a context is         *)
(* connected after the lock is released, so several threads may be         *)
(* connecting the same one.  A context evicted while requests hold it is   *)
(* retired: it is closed by the last release, or revived by the next get.  *)
(***************************************************************************)
EXTENDS Integers, FiniteSets

CONSTANTS
    Catalogs,    \* catalog ids
    Default,     \* the catalog of the settings, never evicted
    Contexts,    \* CatalogContext objects
    NoContext,   \* None
    Requests,    \* HTTP requests
    Background,  \* maintenance passes over one catalog
    MaxActive,   \* DUCKICELAKE_MAX_ACTIVE_CATALOGS
    MaxGets      \* bound: how often each request resolves a catalog at most

Users == Requests \cup Background
Leases == UNION { {r} \X (1 .. MaxGets[r]) : r \in Requests }

ASSUME ConstantsAssumption ==
    /\ Default \in Catalogs
    /\ IsFiniteSet(Catalogs)
    /\ Contexts # {} /\ NoContext \notin Contexts
    /\ Requests \cap Background = {}
    /\ MaxActive \in Nat
    /\ MaxGets \in [Requests -> Nat \ {0}]
    /\ IsFiniteSet(Leases)

VARIABLES
    active,   \* _ctxs: catalog -> its context
    retired,  \* _retired: contexts evicted while leased
    of,       \* catalog_id of each context
    leases,   \* _leases of each context
    duck,     \* catalog._conn is not None
    pool,     \* catalog._pg_pool is not None
    flag,     \* _connected
    pc,       \* where each user is
    want,     \* the catalog it has missed and is opening, or Default
    ctx,      \* the context it has built or was given
    gets,     \* how often it has been given one
    held      \* the request's leases: <<request, n>> -> the context of its nth

dictionaries == <<active, retired>>
connections == <<duck, pool, flag>>
vars == <<dictionaries, of, leases, connections, pc, want, ctx, gets, held>>

Maybe == Contexts \cup {NoContext}
Open(x) == duck[x] /\ pool[x]
Holders(x) == { t \in Leases : held[t] = x }

\* The lifespan has connected the default catalog.
Init ==
    /\ LET x == CHOOSE y \in Contexts : TRUE
       IN
         /\ active = [c \in Catalogs |-> IF c = Default THEN x ELSE NoContext]
         /\ duck = [y \in Contexts |-> y = x]
         /\ pool = [y \in Contexts |-> y = x]
         /\ flag = [y \in Contexts |-> y = x]
    /\ retired = [c \in Catalogs |-> NoContext]
    /\ of = [x \in Contexts |-> Default]
    /\ leases = [x \in Contexts |-> 0]
    /\ pc = [u \in Users |-> "get"]
    /\ want = [u \in Users |-> Default]
    /\ ctx = [u \in Users |-> NoContext]
    /\ gets = [u \in Users |-> 0]
    /\ held = [t \in Leases |-> NoContext]

----------------------------------------------------------------------------
\* _close_locked of the catalogs in S, when the dictionaries are a and r and
\* the lease counts n: what stays active, what is retired, what is closed.
\* A faulty one would close what is leased.
Kept(S, a) == [c \in Catalogs |-> IF c \in S THEN NoContext ELSE a[c]]
Deferred(S, a, r, n) ==
    [c \in Catalogs |-> IF c \in S /\ n[a[c]] > 0 THEN a[c] ELSE r[c]]
ClosedAll(S, a, n) == { a[c] : c \in S }
Closed(S, a, n) == { a[c] : c \in { d \in S : n[a[d]] = 0 } }

\* CatalogContext.close: nothing, unless it is known to be connected.
Disconnect(X) ==
    LET Off(f) == [x \in Contexts |-> f[x] /\ ~ (x \in X /\ flag[x])]
    IN  duck' = Off(duck) /\ pool' = Off(pool) /\ flag' = Off(flag)

\* _ctxs.get(c) or _revive_locked(c).  A faulty one would not revive.
ActiveOnly(c, a, r) == a[c]
Found(c, a, r) == IF a[c] # NoContext THEN a[c] ELSE r[c]
WithoutRevived(c, a, r) ==
    [d \in Catalogs |-> IF d = c /\ a[c] = NoContext THEN NoContext ELSE r[d]]

\* _lease_locked: only inside a request.  A faulty one would count a
\* request once per context.
LeasedOnce(u, x) ==
    IF u \in Requests /\ \A t \in Leases : t[1] = u => held[t] # x
    THEN [leases EXCEPT ![x] = @ + 1] ELSE leases
Leased(u, x) == IF u \in Requests THEN [leases EXCEPT ![x] = @ + 1] ELSE leases

Hold(u, x) ==
    /\ gets' = [gets EXCEPT ![u] = @ + 1]
    /\ held' = IF u \in Requests THEN [held EXCEPT ![<<u, gets[u] + 1>>] = x] ELSE held
    /\ ctx' = [ctx EXCEPT ![u] = x]

\* What get finds idle for too long, whatever the clock says.
IdleSets == SUBSET { c \in Catalogs \ {Default} : active[c] # NoContext }

\* get, first section: evict the idle, then look up or revive.
GetCached(u, c) ==
    \E idle \in IdleSets :
        LET a == Kept(idle, active)
            r == Deferred(idle, active, retired, leases)
            x == Found(c, a, r)
        IN  /\ pc[u] = "get"
            /\ Disconnect(Closed(idle, active, leases))
            /\ \/ /\ x # NoContext
                  /\ active' = [a EXCEPT ![c] = x]
                  /\ retired' = WithoutRevived(c, a, r)
                  /\ leases' = Leased(u, x)
                  /\ Hold(u, x)
                  /\ pc' = [pc EXCEPT ![u] = "connect"]
                  /\ UNCHANGED want
               \/ /\ x = NoContext
                  /\ active' = a
                  /\ retired' = r
                  /\ want' = [want EXCEPT ![u] = c]
                  /\ pc' = [pc EXCEPT ![u] = "resolve"]
                  /\ UNCHANGED <<leases, gets, held, ctx>>
            /\ UNCHANGED of

\* An object nobody refers to is collected, and its connections with it.
Fresh(x) ==
    /\ \A c \in Catalogs : active[c] # x /\ retired[c] # x
    /\ \A u \in Users : ctx[u] # x
    /\ \A t \in Leases : held[t] # x

\* _resolve_row, and a new CatalogContext, outside the lock.
Resolve(u) ==
    /\ pc[u] = "resolve"
    /\ \E x \in Contexts : Fresh(x)
    /\ LET x == CHOOSE y \in Contexts : Fresh(y)
       IN
         /\ of' = [of EXCEPT ![x] = want[u]]
         /\ ctx' = [ctx EXCEPT ![u] = x]
         /\ duck' = [duck EXCEPT ![x] = FALSE]
         /\ pool' = [pool EXCEPT ![x] = FALSE]
         /\ flag' = [flag EXCEPT ![x] = FALSE]
    /\ pc' = [pc EXCEPT ![u] = "built"]
    /\ UNCHANGED <<dictionaries, leases, want, gets, held>>

\* _evict_locked: the least recently used but for the default catalog, c,
\* which has just been used, after the others.
CapEvictions(c, a) ==
    LET present == { d \in Catalogs : a[d] # NoContext }
    IN  { S \in SUBSET (present \ {Default}) :
            /\ c \in S => S = present \ {Default}
            /\ \/ Cardinality(present) - Cardinality(S) <= MaxActive
               \/ S = present \ {Default}
            /\ S # {} => Cardinality(present) - Cardinality(S) >= MaxActive }

\* get, second section: another thread may have built the context meanwhile.
GetBuilt(u) ==
    LET c == want[u]
        known == Found(c, active, retired)
        x == IF known # NoContext THEN known ELSE ctx[u]
        a == [active EXCEPT ![c] = x]
        r == WithoutRevived(c, active, retired)
        n == Leased(u, x)
    IN  /\ pc[u] = "built"
        /\ \E S \in CapEvictions(c, a) :
             /\ active' = Kept(S, a)
             /\ retired' = Deferred(S, a, r, n)
             /\ Disconnect(Closed(S, a, n))
        /\ leases' = n
        /\ Hold(u, x)
        /\ want' = [want EXCEPT ![u] = Default]
        /\ pc' = [pc EXCEPT ![u] = "connect"]
        /\ UNCHANGED of

----------------------------------------------------------------------------
\* CatalogContext.connect and DuckLakeCatalog.connect, without a lock: who
\* finds the DuckDB connection there takes everything to be there.
Disconnected(x) == ~ flag[x] /\ ~ duck[x]

Connect(u) ==
    /\ pc[u] = "connect"
    /\ IF Disconnected(ctx[u])
       THEN /\ pc' = [pc EXCEPT ![u] = "duck"]
            /\ UNCHANGED flag
       ELSE /\ pc' = [pc EXCEPT ![u] = "use"]
            /\ flag' = [flag EXCEPT ![ctx[u]] = TRUE]
    /\ UNCHANGED <<dictionaries, of, leases, duck, pool, want, ctx, gets, held>>

\* _build_duckdb_conn: ATTACH, which may take seconds.
BuildDuck(u) ==
    /\ pc[u] = "duck"
    /\ duck' = [duck EXCEPT ![ctx[u]] = TRUE]
    /\ pc' = [pc EXCEPT ![u] = "pool"]
    /\ UNCHANGED <<dictionaries, of, leases, pool, flag, want, ctx, gets, held>>

BuildPool(u) ==
    /\ pc[u] = "pool"
    /\ pool' = [pool EXCEPT ![ctx[u]] = TRUE]
    /\ flag' = [flag EXCEPT ![ctx[u]] = TRUE]
    /\ pc' = [pc EXCEPT ![u] = "use"]
    /\ UNCHANGED <<dictionaries, of, leases, duck, want, ctx, gets, held>>

\* The request resolves another catalog, or the same one again.
GetAgain(u) ==
    /\ pc[u] = "use"
    /\ u \in Requests /\ gets[u] < MaxGets[u]
    /\ ctx' = [ctx EXCEPT ![u] = NoContext]
    /\ pc' = [pc EXCEPT ![u] = "get"]
    /\ UNCHANGED <<dictionaries, of, leases, connections, want, gets, held>>

\* A background job finds its context closed: the catalog reconnects itself,
\* behind the back of its context.
Reconnect(u) ==
    /\ pc[u] = "use"
    /\ u \in Background
    /\ ~ duck[ctx[u]]
    /\ duck' = [duck EXCEPT ![ctx[u]] = TRUE]
    /\ pool' = [pool EXCEPT ![ctx[u]] = TRUE]
    /\ UNCHANGED <<dictionaries, of, leases, flag, pc, want, ctx, gets, held>>

\* The response has been sent or the handler has raised: the catalog may be
\* unknown, Postgres or the ATTACH may fail.
Finish(u) ==
    /\ pc[u] \in {"resolve", "duck", "use"}
    /\ ctx' = [ctx EXCEPT ![u] = NoContext]
    /\ want' = [want EXCEPT ![u] = Default]
    /\ pc' = [pc EXCEPT ![u] = IF u \in Requests THEN "release" ELSE "over"]
    /\ UNCHANGED <<dictionaries, of, leases, connections, gets, held>>

\* release.  A faulty one would take more than the lease, or close a
\* retired context while others hold it.
TakenTwice(n) == n - 2
Taken(n) == IF n > 0 THEN n - 1 ELSE 0
First(x) == retired[of[x]] = x
Last(x) == retired[of[x]] = x /\ Taken(leases[x]) = 0

Release(r, k) ==
    LET x == held[<<r, k>>]
    IN  /\ pc[r] = "release"
        /\ x # NoContext
        /\ \A j \in 1 .. k - 1 : held[<<r, j>>] = NoContext
        /\ leases' = [leases EXCEPT ![x] = Taken(@)]
        /\ held' = [held EXCEPT ![<<r, k>>] = NoContext]
        /\ IF Last(x)
           THEN /\ retired' = [retired EXCEPT ![of[x]] = NoContext]
                /\ Disconnect({x})
           ELSE UNCHANGED <<retired, connections>>
        /\ UNCHANGED <<active, of, pc, want, ctx, gets>>

Leave(r) ==
    /\ pc[r] = "release"
    /\ \A k \in 1 .. MaxGets[r] : held[<<r, k>>] = NoContext
    /\ pc' = [pc EXCEPT ![r] = "over"]
    /\ UNCHANGED <<dictionaries, of, leases, connections, want, ctx, gets, held>>

Done ==
    /\ \A u \in Users : pc[u] = "over"
    /\ UNCHANGED vars

Next ==
    \/ \E u \in Users :
         \/ (\E c \in Catalogs : GetCached(u, c)) \/ Resolve(u) \/ GetBuilt(u)
         \/ Connect(u) \/ BuildDuck(u) \/ BuildPool(u)
         \/ GetAgain(u) \/ Reconnect(u) \/ Finish(u)
    \/ \E r \in Requests : (\E k \in 1 .. MaxGets[r] : Release(r, k)) \/ Leave(r)
    \/ Done

Spec == Init /\ [][Next]_vars
----------------------------------------------------------------------------
TypeOK ==
    /\ active \in [Catalogs -> Maybe]
    /\ retired \in [Catalogs -> Maybe]
    /\ of \in [Contexts -> Catalogs]
    /\ leases \in [Contexts -> Nat]
    /\ duck \in [Contexts -> BOOLEAN]
    /\ pool \in [Contexts -> BOOLEAN]
    /\ flag \in [Contexts -> BOOLEAN]
    /\ pc \in [Users -> {"get", "resolve", "built", "connect", "duck", "pool",
                         "use", "release", "over"}]
    /\ want \in [Users -> Catalogs]
    /\ ctx \in [Users -> Maybe]
    /\ gets \in [Users -> Nat]
    /\ held \in [Leases -> Maybe]

\* A context counts exactly the leases that requests hold on it, whatever
\* they resolve twice, share or give back while it is retired or revived: a
\* count too low closes it under a query, one too high keeps it for ever.
LeasesAreCounted ==
    \A x \in Contexts : leases[x] = Cardinality(Holders(x))

\* A retired context waits for a release that will come, and its catalog has
\* no other context meanwhile.
RetiredAreLeased ==
    \A c \in Catalogs :
        retired[c] # NoContext =>
            /\ leases[retired[c]] > 0
            /\ active[c] = NoContext

\* Together: a count that is too low closes a context under a query, one that
\* is too high, or a retired context that nobody holds, is never closed
\* (registry.py:286-345).
LeasesAreRight == LeasesAreCounted /\ RetiredAreLeased

\* Requests that hold a catalog at the same time hold the same context: an
\* eviction between them does not make the process attach it twice.
OneContextPerCatalog ==
    \A t, v \in Leases :
        held[t] # NoContext /\ held[v] # NoContext /\ of[held[t]] = of[held[v]]
            => held[t] = held[v]

\* The connections of a context stay open for as long as a request holds it,
\* through evictions, idle timeouts and the releases of others.
HeldStaysOpen ==
    [][ \A t \in Leases :
          held[t] # NoContext /\ held'[t] = held[t] /\ Open(held[t])
            => Open(held[t])' ]_vars

\* A request that has been given a context can use it, once nobody is still
\* connecting it: no thread takes another's unfinished connect for granted
\* when that one will never finish it.
SettledIsOpen ==
    \A r \in Requests :
        /\ pc[r] = "use"
        /\ \A u \in Users : pc[u] \in {"duck", "pool"} => ctx[u] # ctx[r]
        => Open(ctx[r])
=============================================================================
