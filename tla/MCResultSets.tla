---------------------------- MODULE MCResultSets ----------------------------
(***************************************************************************)
(* Instances of ResultSets for TLC.                                        *)
(***************************************************************************)
EXTENDS ResultSets, TLC

CONSTANTS ann, bob, rest, mcp, analyst, k1, k2, i1, i2

Person(p, x) == [sub |-> p, context |-> x]
Sessions == {Person(ann, rest), Person(bob, rest)}
ThreeSessions == Sessions \cup {Person(ann, mcp)}

\* Ann and Bob are equal; Bob becomes an analyst; a policy reads the session.
\* The sessions that come by mcp are airtight, and Bob's as an analyst.
Nobody == [p \in {ann, bob} |-> {}]
Airtight == {<<{}, mcp>>, <<{analyst}, rest>>}
Rulebook ==
    { [granted |-> Nobody, session |-> FALSE, exported |-> Airtight],
      [granted |-> [Nobody EXCEPT ![bob] = {analyst}], session |-> FALSE, exported |-> Airtight],
      [granted |-> Nobody, session |-> TRUE, exported |-> {}] }

\* One set of rules.
Equal == { r \in Rulebook : r.granted = Nobody /\ ~ r.session }

Symmetry == Permutations({k1, k2}) \cup Permutations({i1, i2})
=============================================================================
