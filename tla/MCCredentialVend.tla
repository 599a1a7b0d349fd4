-------------------------- MODULE MCCredentialVend --------------------------
(***************************************************************************)
(* Instances of CredentialVend for TLC.                                    *)
(***************************************************************************)
EXTENDS CredentialVend, TLC

CONSTANTS k1, k2, t1, t2, far, ann

Human == [sub |-> ann, agent |-> FALSE, roles |-> {}]
Bot == [sub |-> ann, agent |-> TRUE, roles |-> {}]
Sessions == {Human, Bot}

\* The tiers of two tables of the namespace and of one of another namespace.
\* The last rules grant Ann a role that is called like the tag of her bot.
Tiered(a, b, f) == [t \in {t1, t2, far} |-> CASE t = t1 -> a [] t = t2 -> b [] OTHER -> f]
Rulebook ==
    { [tier |-> Tiered("file", "none", "none"), granted |-> [s \in {ann} |-> {}]],
      [tier |-> Tiered("file", "none", "none"), granted |-> [s \in {ann} |-> {Bypass}]],
      [tier |-> Tiered("view", "view", "file"), granted |-> [s \in {ann} |-> {}]],
      [tier |-> Tiered("none", "view", "none"), granted |-> [s \in {ann} |-> {}]],
      [tier |-> Tiered("view", "none", "none"), granted |-> [s \in {ann} |-> {Agent}]] }

Symmetry == Permutations({k1, k2})
=============================================================================
