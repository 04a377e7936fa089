------------------------------- MODULE Policy -------------------------------
(***************************************************************************)
(* The policy engine: which client may ask what, and in which view.  The   *)
(* client lists of the ACL and of the views are binary tries over address  *)
(* bits; an address belongs to the lowest numbered list with a prefix of   *)
(* it.  The rate limit is in Service and a free choice here.               *)
(*                                                                         *)
(* Addresses and prefixes are sequences of bits (the family is their first *)
(* element).  A trie maps its nodes, the prefixes, to the least index that *)
(* ends there; what is not in it has no node.                              *)
(***************************************************************************)
EXTENDS Naturals, Sequences, FiniteSets, SequencesExt, FiniteSetsExt

CONSTANTS
  None,
  AllowClients,    \* the prefixes of allow_clients, in order
  DenyAny,         \* deny_any_queries
  BlockedDomains,  \* patterns: a name, and whether all below it is meant
  RateLimited      \* whether a client may be out of tokens

VARIABLE views     \* the views the running engine was built from, in order

EmptyTrie == [p \in {<<>>} |-> None]

\* update_min_index
Least(old, i) == IF old # None /\ old <= i THEN old ELSE i

\* insert_prefix_bits
Insert(trie, prefix, i) ==
  [p \in DOMAIN trie \cup Prefixes(prefix) |->
     LET old == IF p \in DOMAIN trie THEN trie[p] ELSE None
     IN IF p = prefix THEN Least(old, i) ELSE old]

\* lookup_bits: every terminal met on the way down counts.
Lookup(trie, address) ==
  LET met == {trie[p] : p \in Prefixes(address) \cap DOMAIN trie} \ {None}
  IN IF met = {} THEN None ELSE Min(met)

\* The trie of a sequence of <<prefix, index>>.
TrieOf(entries) ==
  LET trie[k \in 0..Len(entries)] ==
        IF k = 0 THEN EmptyTrie ELSE Insert(trie[k - 1], entries[k][1], entries[k][2])
  IN trie[Len(entries)]
-----------------------------------------------------------------------------
\* domain_is_same_or_subdomain_of
Encloses(z, n) == Len(z) <= Len(n) /\ SubSeq(n, 1, Len(z)) = z

\* domain_matches_normalized
Blocks(patterns, n) ==
  n # <<>> /\ \E p \in patterns : n = p.name \/ (p.below /\ p.name # <<>> /\ Encloses(p.name, n))

AllowTrie == TrieOf([i \in DOMAIN AllowClients |-> <<AllowClients[i], i>>])

\* One entry per prefix of a view; their order within a view is immaterial.
ViewEntries ==
  LET all[v \in 0..Len(views)] == IF v = 0 THEN <<>>
        ELSE all[v - 1] \o [i \in DOMAIN views[v].clients |-> <<views[v].clients[i], v>>]
  IN all[Len(views)]

DefaultView ==
  LET D == {v \in DOMAIN views : views[v].name = "default"}
  IN IF D = {} THEN None ELSE Min(D)

MatchedView(client) ==
  LET v == Lookup(TrieOf(ViewEntries), client) IN IF v # None THEN v ELSE DefaultView

Decision(rcode, v) == [rcode |-> rcode, view |-> v]

\* evaluate: the checks in their order.
Evaluate(client, n, t) ==
  LET v == MatchedView(client)
  IN IF AllowClients # <<>> /\ Lookup(AllowTrie, client) = None THEN {Decision("refused", None)}
     ELSE IF DenyAny /\ t = "ANY" THEN {Decision("refused", None)}
     ELSE IF v # None /\ Blocks(views[v].blocked, n) THEN {Decision("refused", v)}
     ELSE IF Blocks(BlockedDomains, n) THEN {Decision("nxdomain", v)}
     ELSE {Decision("allow", v)} \cup (IF RateLimited THEN {Decision("refused", None)} ELSE {})
=============================================================================
