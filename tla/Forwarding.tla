----------------------------- MODULE Forwarding -----------------------------
(***************************************************************************)
(* The forwarder: what resolve_uncached does between the cache miss and    *)
(* the packet it hands on.  The upstreams in order of health, the retries  *)
(* of each, UDP then TCP, the downgrade of EDNS after FORMERR, and the     *)
(* CNAME chain followed one name at a time through that one upstream, with *)
(* the cache consulted before every hop.                                   *)
(*                                                                         *)
(* zone is the world the upstreams report on: each name has an address, no *)
(* record, or a CNAME to another name.  It may contain loops.  Upstreams   *)
(* report it truthfully but choose how much of a chain a reply holds, and  *)
(* in which order; they also fail, truncate, answer SERVFAIL and FORMERR.  *)
(***************************************************************************)
EXTENDS Integers, FiniteSets

CONSTANTS
  Tasks, Upstreams, Names,
  None,
  Asked,        \* the names clients ask for
  Zones,        \* the zones considered, functions on Names
  Retries,      \* upstream_retries
  MaxDepth      \* cname_chain_max_depth

Facts == Names \cup {"address", "negative"}

ASSUME TasksAssumption == IsFiniteSet(Upstreams) /\ Upstreams # {}
ASSUME NamesAssumption == IsFiniteSet(Names) /\ Asked \subseteq Names
ASSUME FactsAssumption == None \notin Names /\ Names \cap {"address", "negative"} = {}
ASSUME ZonesAssumption == Zones \subseteq [Names -> Facts]
ASSUME BoundsAssumption == Retries \in Nat /\ MaxDepth \in Nat

VARIABLES
  zone, opt,     \* the world, and the OPT record of the clients
  unhealthy,     \* upstreams whose backoff has not passed
  cached,        \* name -> packet of its address query
  hopOwner,      \* name -> owner written in its cached CNAME answer
  at,            \* per task: where its query is
  query,         \* the name and the plan it started with
  turn, tries,   \* position in the plan, failed attempts on that upstream
  failed,        \* failed attempts per upstream, kept for the properties
  follow,        \* the chain walked by this attempt
  packet,        \* the reply under inspection
  out            \* how the query ended

taskVars == <<at, query, turn, tries, failed, follow, packet, out>>
fwdVars == <<zone, opt, unhealthy, cached, hopOwner, taskVars>>
-----------------------------------------------------------------------------
(* Chains and packets *)

IsAlias(n) == zone[n] \in Names

\* In zone z, the names down the chain of n, the first ones of them.
Down(z, n) ==
  LET down[k \in 0..Cardinality(Names)] ==
        IF k = 0 THEN n ELSE IF z[down[k - 1]] \in Names THEN z[down[k - 1]] ELSE down[k - 1]
  IN down

Last(n, k) == Down(zone, n)[k]

\* The owners of the first k CNAMEs of the chain of n.
Links(n, k) == {m \in {Last(n, i) : i \in 0..(k - 1)} : IsAlias(m)}

Loops(n) == IsAlias(Last(n, Cardinality(Names)))
Length(n) == Cardinality(Links(n, Cardinality(Names)))

Rcodes == {"noerror", "nxdomain", "servfail", "formerr"}
Packet == [rcode : Rcodes, links : SUBSET Names, leaf : Names \cup {None}]
Plain(code) == [rcode |-> code, links |-> {}, leaf |-> None]

(* analyze_answer_for_name_with_dnames *)
OwnsCname(p, n) == n \in p.links
Targets(p) == {zone[m] : m \in p.links}   \* first_cname is one: the order is the upstream's

\* What is true of n: any number of links of its chain, with the address if
\* they reach one, or the whole chain and that nothing is there.
Truths(n) ==
  UNION {
    {[rcode |-> "noerror", links |-> Links(n, k),
      leaf |-> IF zone[Last(n, k)] = "address" THEN Last(n, k) ELSE None],
     [rcode |-> IF zone[Last(n, k)] = "negative" THEN "nxdomain" ELSE "noerror",
      links |-> Links(n, k), leaf |-> None]}
    : k \in (IF IsAlias(n) THEN 1 ELSE 0)..Cardinality(Names)}
  \ (IF zone[n] = "address" THEN {Plain("noerror")} ELSE {})

Replies(n) == Truths(n) \cup {Plain("servfail"), Plain("formerr")}

\* Mutant: only the last hop is returned.
MergeLast(p, links) == p

\* append_cname_answers, and clear_header_rcode when the chain has a CNAME.
Merge(p, links) ==
  [rcode |-> IF links # {} THEN "noerror" ELSE p.rcode,
   links |-> links, leaf |-> p.leaf]

Cacheable(p) == p.rcode \in {"noerror", "nxdomain"}

(* One attempt: the walk starts at the name asked for. *)
Walk(n) == [name |-> n, seen |-> {n}, links |-> {}, hops |-> 0, stripped |-> FALSE]
Walks == [name : Names, seen : SUBSET Names, links : SUBSET Names,
          hops : 0..MaxDepth, stripped : BOOLEAN]

Positions == 1..Cardinality(Upstreams)

\* Mutant: the order of the groups is swapped.
OrdersWorstFirst ==
  {p \in [Positions -> Upstreams] :
     /\ \A i, j \in Positions : p[i] = p[j] => i = j
     /\ \A i, j \in Positions : p[i] \in unhealthy /\ p[j] \notin unhealthy => i < j}

\* select_upstream_order: every upstream once, the healthy ones first; inside
\* a group the order is that of scores the model leaves out.
Orders ==
  {p \in [Positions -> Upstreams] :
     /\ \A i, j \in Positions : p[i] = p[j] => i = j
     /\ \A i, j \in Positions : p[i] \in unhealthy /\ p[j] \notin unhealthy => j < i}

Errors == {"loop", "deep", "exhausted"}

Init ==
  /\ zone \in Zones
  /\ opt \in {"none", "edns", "do"}
  /\ unhealthy = {}
  /\ cached = [n \in Names |-> None]
  /\ hopOwner = [n \in Names |-> None]
  /\ at = [t \in Tasks |-> "idle"]
  /\ query = [t \in Tasks |-> None]
  /\ turn = [t \in Tasks |-> 1]
  /\ tries = [t \in Tasks |-> 0]
  /\ failed = [t \in Tasks |-> [u \in Upstreams |-> 0]]
  /\ follow = [t \in Tasks |-> None]
  /\ packet = [t \in Tasks |-> None]
  /\ out = [t \in Tasks |-> None]
-----------------------------------------------------------------------------
Upstream(t) == query[t].plan[turn[t]]

\* SelectUpstream, after a cache miss; a task that is done takes another query.
Ask(t) ==
  /\ at[t] \in {"idle", "done"}
  /\ \E n \in Asked, p \in Orders :
       /\ cached[n] = None
       /\ query' = [query EXCEPT ![t] = [name |-> n, plan |-> p, avoid |-> unhealthy]]
       /\ follow' = [follow EXCEPT ![t] = Walk(n)]
  /\ turn' = [turn EXCEPT ![t] = 1]
  /\ tries' = [tries EXCEPT ![t] = 0]
  /\ failed' = [failed EXCEPT ![t] = [u \in Upstreams |-> 0]]
  /\ out' = [out EXCEPT ![t] = None]
  /\ at' = [at EXCEPT ![t] = "udp"]
  /\ UNCHANGED <<zone, opt, unhealthy, cached, hopOwner, packet>>

(* query_address_once *)
UdpReplies(t) ==
  /\ at[t] = "udp"
  /\ \E p \in Replies(follow[t].name) : packet' = [packet EXCEPT ![t] = p]
  /\ at' = [at EXCEPT ![t] = "replied"]
  /\ UNCHANGED <<zone, opt, unhealthy, cached, hopOwner, query, turn, tries, failed, follow, out>>

\* No reply in time, or one with the TC bit.
UdpFallsBack(t) ==
  /\ at[t] = "udp"
  /\ at' = [at EXCEPT ![t] = "tcp"]
  /\ UNCHANGED <<zone, opt, unhealthy, cached, hopOwner, query, turn, tries, failed, follow, packet, out>>

TcpReplies(t) ==
  /\ at[t] = "tcp"
  /\ \E p \in Replies(follow[t].name) : packet' = [packet EXCEPT ![t] = p]
  /\ at' = [at EXCEPT ![t] = "replied"]
  /\ UNCHANGED <<zone, opt, unhealthy, cached, hopOwner, query, turn, tries, failed, follow, out>>

(* query_single_upstream, an attempt that failed *)

\* Mutant: the walk of the failed attempt is kept.
RetryKeepsWalk(t) ==
  /\ tries' = [tries EXCEPT ![t] = @ + 1]
  /\ follow' = [follow EXCEPT ![t] = [Walk(query[t].name) EXCEPT !.seen = follow[t].seen]]
  /\ at' = [at EXCEPT ![t] = "udp"]
  /\ UNCHANGED <<unhealthy, turn, out>>

RetrySame(t) ==
  /\ tries' = [tries EXCEPT ![t] = @ + 1]
  /\ follow' = [follow EXCEPT ![t] = Walk(query[t].name)]
  /\ at' = [at EXCEPT ![t] = "udp"]
  /\ UNCHANGED <<unhealthy, turn, out>>

End(t, o) ==
  /\ at' = [at EXCEPT ![t] = "done"]
  /\ out' = [out EXCEPT ![t] = o]
  /\ follow' = [follow EXCEPT ![t] = None]

\* Mutant: the next upstream inherits the failed attempts of the last.
GiveUpKeepsTries(t, error) ==
  /\ unhealthy' = unhealthy \cup {Upstream(t)}
  /\ UNCHANGED tries
  /\ IF error \in {"loop", "deep"}
     THEN End(t, Plain(error)) /\ UNCHANGED turn
     ELSE IF turn[t] = Cardinality(Upstreams)
     THEN End(t, Plain("exhausted")) /\ UNCHANGED turn
     ELSE /\ turn' = [turn EXCEPT ![t] = @ + 1]
          /\ follow' = [follow EXCEPT ![t] = Walk(query[t].name)]
          /\ at' = [at EXCEPT ![t] = "udp"]
          /\ UNCHANGED out

\* The last attempt's error decides: a chain error ends the query, any other
\* one goes on to the next upstream.
GiveUpOn(t, error) ==
  /\ unhealthy' = unhealthy \cup {Upstream(t)}
  /\ IF error \in {"loop", "deep"}
     THEN End(t, Plain(error)) /\ UNCHANGED <<turn, tries>>
     ELSE IF turn[t] = Cardinality(Upstreams)
     THEN End(t, Plain("exhausted")) /\ UNCHANGED <<turn, tries>>
     ELSE /\ turn' = [turn EXCEPT ![t] = @ + 1]
          /\ tries' = [tries EXCEPT ![t] = 0]
          /\ follow' = [follow EXCEPT ![t] = Walk(query[t].name)]
          /\ at' = [at EXCEPT ![t] = "udp"]
          /\ UNCHANGED out

AttemptFails(t, error) ==
  /\ failed' = [failed EXCEPT ![t][Upstream(t)] = @ + 1]
  /\ packet' = [packet EXCEPT ![t] = None]
  /\ IF tries[t] < Retries THEN RetrySame(t) ELSE GiveUpOn(t, error)
  /\ UNCHANGED <<zone, opt, query>>

TcpFails(t) ==
  /\ at[t] = "tcp"
  /\ AttemptFails(t, "failed")
  /\ UNCHANGED <<cached, hopOwner>>

\* The budget of the whole chain runs out while a hop is being asked.
ChainTimesOut(t) ==
  /\ at[t] \in {"udp", "tcp", "replied"}
  /\ follow[t].hops > 0
  /\ AttemptFails(t, "failed")
  /\ UNCHANGED <<cached, hopOwner>>

(* query_address, the reply of one exchange *)

FormerrToEdns(t) == packet[t].rcode = "formerr" /\ opt # "none" /\ ~follow[t].stripped

RefuseDowngrade(t) ==
  /\ at[t] = "replied"
  /\ FormerrToEdns(t)
  /\ opt = "do"
  /\ AttemptFails(t, "failed")
  /\ UNCHANGED <<cached, hopOwner>>

\* Mutant: the downgrade is forgotten.
StripEdnsAgain(t) ==
  /\ at[t] = "replied"
  /\ FormerrToEdns(t)
  /\ opt # "do"
  /\ packet' = [packet EXCEPT ![t] = None]
  /\ at' = [at EXCEPT ![t] = "udp"]
  /\ UNCHANGED <<zone, opt, unhealthy, cached, hopOwner, query, turn, tries, failed, follow, out>>

StripEdns(t) ==
  /\ at[t] = "replied"
  /\ FormerrToEdns(t)
  /\ opt # "do"
  /\ follow' = [follow EXCEPT ![t].stripped = TRUE]
  /\ packet' = [packet EXCEPT ![t] = None]
  /\ at' = [at EXCEPT ![t] = "udp"]
  /\ UNCHANGED <<zone, opt, unhealthy, cached, hopOwner, query, turn, tries, failed, out>>

(* resolve_cname_chain_via_upstream, one step of the walk *)
Collected(t) == follow[t].links \cup packet[t].links

Terminal(t) ==
  \/ packet[t].rcode # "noerror"
  \/ packet[t].leaf = follow[t].name /\ ~OwnsCname(packet[t], follow[t].name)

\* Each hop of a chain is also cached as a CNAME answer; the answer is built
\* from the question of the client, so that is the owner it names.
CacheHops(t) ==
  hopOwner' = [n \in Names |-> IF n \in packet[t].links THEN query[t].name ELSE hopOwner[n]]

\* mark_upstream_success, the insert of the merged chain and that of
\* resolve_uncached.
Conclude(t) ==
  /\ at[t] = "replied"
  /\ ~FormerrToEdns(t)
  /\ Terminal(t) \/ packet[t].links = {}
  /\ LET p == Merge(packet[t], Collected(t))
     IN /\ End(t, p)
        /\ cached' = [cached EXCEPT ![query[t].name] = IF Cacheable(p) THEN p ELSE @]
  /\ unhealthy' = unhealthy \ {Upstream(t)}
  /\ CacheHops(t)
  /\ packet' = [packet EXCEPT ![t] = None]
  /\ UNCHANGED <<zone, opt, query, turn, tries, failed>>

ChainFails(t) ==
  /\ at[t] = "replied"
  /\ ~FormerrToEdns(t)
  /\ ~Terminal(t)
  /\ \E next \in Targets(packet[t]) :
       \/ follow[t].hops >= MaxDepth /\ AttemptFails(t, "deep")
       \/ /\ follow[t].hops < MaxDepth
          /\ next \in follow[t].seen
          /\ AttemptFails(t, "loop")
  /\ CacheHops(t)
  /\ UNCHANGED cached

\* The next name comes from the cache or from the same upstream; what the cache
\* holds is never a FORMERR.
NextHop(t) ==
  /\ at[t] = "replied"
  /\ ~FormerrToEdns(t)
  /\ ~Terminal(t)
  /\ follow[t].hops < MaxDepth
  /\ \E next \in Targets(packet[t]) \ follow[t].seen :
       /\ follow' = [follow EXCEPT ![t] =
            [name |-> next, seen |-> @.seen \cup {next}, links |-> Collected(t),
             hops |-> @.hops + 1, stripped |-> FALSE]]
       /\ packet' = [packet EXCEPT ![t] = cached[next]]
       /\ at' = [at EXCEPT ![t] = IF cached[next] = None THEN "udp" ELSE "replied"]
  /\ CacheHops(t)
  /\ UNCHANGED <<zone, opt, unhealthy, cached, query, turn, tries, failed, out>>

Expire(n) ==
  /\ cached[n] # None
  /\ cached' = [cached EXCEPT ![n] = None]
  /\ UNCHANGED <<zone, opt, unhealthy, hopOwner, taskVars>>

\* unhealthy_until passes.
Recover(u) ==
  /\ u \in unhealthy
  /\ unhealthy' = unhealthy \ {u}
  /\ UNCHANGED <<zone, opt, cached, hopOwner, taskVars>>

Work(t) ==
  \/ Ask(t) \/ UdpReplies(t) \/ UdpFallsBack(t) \/ TcpReplies(t) \/ TcpFails(t)
  \/ ChainTimesOut(t) \/ RefuseDowngrade(t) \/ StripEdns(t)
  \/ Conclude(t) \/ ChainFails(t) \/ NextHop(t)

Next ==
  \/ \E t \in Tasks : Work(t)
  \/ \E n \in Names : Expire(n)
  \/ \E u \in Upstreams : Recover(u)

Spec == Init /\ [][Next]_fwdVars
\* Every exchange, and every chain, has a timeout; the runtime polls a task
\* that is ready.
FairSpec == Spec /\ \A t \in Tasks : WF_fwdVars(Work(t))
-----------------------------------------------------------------------------
(* Properties *)

Outs == Packet \cup {Plain(e) : e \in Errors} \cup {None}
FailedWith(t, e) == out[t] = Plain(e)

\* The variables keep their types.
TypeOK ==
  /\ zone \in Zones
  /\ opt \in {"none", "edns", "do"}
  /\ unhealthy \subseteq Upstreams
  /\ cached \in [Names -> Packet \cup {None}]
  /\ hopOwner \in [Names -> Names \cup {None}]
  /\ at \in [Tasks -> {"idle", "udp", "tcp", "replied", "done"}]
  /\ \A t \in Tasks :
       /\ at[t] # "idle" => query[t].name \in Names
       /\ at[t] \notin {"idle", "done"} => follow[t] \in Walks
       /\ packet[t] \in Packet \cup {None}
       /\ out[t] \in Outs
  /\ turn \in [Tasks -> Positions]
  /\ tries \in [Tasks -> 0..Retries]
  /\ failed \in [Tasks -> [Upstreams -> 0..(Retries + 1)]]

\* What the zone says of n, possibly cut short: the CNAMEs are a prefix of the
\* chain of n, an address comes with the whole chain that leads to it, and
\* "no such name" is said only of a name that has nothing.
SaidOf(n, p) ==
  /\ \E k \in 0..Cardinality(Names) : p.links = Links(n, k)
  /\ p.leaf # None =>
       /\ p.rcode = "noerror"
       /\ p.links = Links(n, Cardinality(Names))
       /\ p.leaf = Last(n, Cardinality(Names))
       /\ zone[p.leaf] = "address"
  /\ p.rcode = "nxdomain" => zone[n] = "negative"

\* Whatever mixture of replies, retries and cached chains an answer was merged
\* from, the client and the cache get the chain of the name asked for
\* (append_cname_answers after the walk of resolve_cname_chain_via_upstream).
WholeChains ==
  /\ \A t \in Tasks : at[t] = "done" /\ out[t].rcode \in Rcodes => SaidOf(query[t].name, out[t])
  /\ \A n \in Names : cached[n] # None => SaidOf(n, cached[n])

\* A query fails with "cname chain loop detected" only if its chain loops, and
\* with "exceeded max depth" only if it is that long or loops: neither a retry
\* nor a cached hop makes the follower meet a name twice.
NoFalseChainError ==
  \A t \in Tasks : at[t] = "done" =>
    /\ FailedWith(t, "loop") => Loops(query[t].name)
    /\ FailedWith(t, "deep") => Loops(query[t].name) \/ Length(query[t].name) > MaxDepth

\* "all upstream resolvers failed": each of them, every attempt of each.
ExhaustedAfterAll ==
  \A t \in Tasks :
    at[t] = "done" /\ FailedWith(t, "exhausted") => \A u \in Upstreams : failed[t][u] = Retries + 1

\* An upstream that was in its backoff when the plan was made is asked only
\* when every other one has failed all its attempts.
LastResort ==
  \A t \in Tasks :
    at[t] \notin {"idle", "done"} /\ Upstream(t) \in query[t].avoid =>
      \A u \in Upstreams \ query[t].avoid : failed[t][u] = Retries + 1

\* The CNAME answer cached for a name has that name as its owner.
HopAnswersItsOwner == \A n \in Names : hopOwner[n] \in {n, None}

\* Every query ends, whatever the upstreams do and the zone says.
EveryQueryEnds == \A t \in Tasks : at[t] = "udp" ~> at[t] = "done"
=============================================================================
