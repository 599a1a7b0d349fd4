---------------------------- MODULE GovernedReads ----------------------------
(***************************************************************************)
(* What a cached result promises, whatever the cache does: a principal is  *)
(* permitted to read only what a query of theirs would have returned under *)
(* the rules that held when the permission was given.                      *)
(*                                                                         *)
(* Rules change at any time.  A permission lapses by itself and until then *)
(* outlives a change.                                                      *)
(***************************************************************************)
EXTENDS Integers

CONSTANTS
    Callers,    \* sessions: [sub, context], a principal and what its session carries
    Queries,    \* query texts
    Asking,     \* of these, the ones that call a session function
    Regimes,    \* rules a catalog may have: [granted, session], the roles of each
                \* principal and whether a policy calls a session function
    None

VARIABLES
    rules,      \* the rules in force
    stamp,      \* how often they have changed
    permitted   \* what may be shown: [to, what]

vars == <<rules, stamp, permitted>>

\* What query q returns to caller c: a function of the rules, the caller's
\* roles and context, and the caller itself when something asks for it.
View(r, n, c, q) ==
    [query   |-> q,
     stamp   |-> n,
     roles   |-> r.granted[c.sub],
     context |-> c.context,
     who     |-> IF r.session \/ q \in Asking THEN c.sub ELSE None]

Init ==
    /\ rules \in Regimes
    /\ stamp = 0
    /\ permitted = {}

Change ==
    /\ rules' \in Regimes
    /\ stamp' = stamp + 1
    /\ UNCHANGED permitted

\* Others may have to make room for it.
Permit ==
    /\ \E c \in Callers, q \in Queries, kept \in SUBSET permitted :
          permitted' = kept \cup {[to |-> c.sub, what |-> View(rules, stamp, c, q)]}
    /\ UNCHANGED <<rules, stamp>>

Lapse ==
    /\ permitted' \in SUBSET permitted
    /\ UNCHANGED <<rules, stamp>>

Next == Change \/ Permit \/ Lapse

Spec == Init /\ [][Next]_vars
=============================================================================
