---------------------------- MODULE MCQueryPath ----------------------------
(* Small instances of QueryPath for TLC. *)
EXTENDS QueryPath, TLC

CONSTANTS k1, k2

\* One name's A and AAAA keys, and a key of a type that has no sibling.
SiblingPair == (k1 :> k2) @@ (k2 :> k1)
NoSiblings == k1 :> NoKey

Plain == [cd |-> FALSE, allowed |-> TRUE]
PlainOnly == {Plain}
PlainAndCd == {Plain, [cd |-> TRUE, allowed |-> TRUE]}
PlainAndDenied == {[cd |-> FALSE, allowed |-> a] : a \in BOOLEAN}

TaskSymmetry == Permutations(Tasks)
=============================================================================
