----------------------------- MODULE Iterative -----------------------------
(***************************************************************************)
(* The iterative resolver.  A query walks referrals from the roots, or     *)
(* from a cached delegation, hop by hop: each hop asks all its servers at  *)
(* once and takes the first reply that gets it further.  Referrals without *)
(* glue have their NS host names resolved, a few at a time.  Address       *)
(* queries follow CNAMEs by a walk per name, within one time budget.       *)
(*                                                                         *)
(* Two caches outlive a query and are shared by all of them: delegations   *)
(* and NS host addresses, with marks for what has just failed.             *)
(*                                                                         *)
(* Names are sequences of labels from the top.  What the servers of the    *)
(* world say is the constant Says; they may refer anywhere, and be silent. *)
(***************************************************************************)
EXTENDS Naturals, Sequences, FiniteSets

CONSTANTS
  Tasks, Names, Hosts, Servers, None,
  Asked,          \* the questions of clients: name and kind
  Alias,          \* the CNAME of each name, or None
  Addresses,      \* the endpoints of each NS host
  Found,          \* what a resolution of it may yield
  Says,           \* server -> name -> the packets it may answer with
  NsOf,           \* the NS hosts each zone really has
  Recursive,      \* name -> the usable packets of the bootstrap resolvers
  Roots,          \* root_servers
  Allowed,        \* the endpoints of iterative_address_family
  MaxDepth,       \* iterative_max_depth
  MaxChain,       \* cname_chain_max_depth
  MaxConcurrent,  \* ns_hostname_max_concurrent
  Enough,         \* ns_hostname_enough_endpoints
  Minimize,       \* qname_minimization
  Fallback,       \* iterative_fallback_to_forwarder
  Bridge,         \* iterative_cname_bridge_fallback_to_recursive
  InlineCache,    \* cname_chain_inline_cache_enabled
  CanBeLate       \* whether deadlines pass

Kinds == {"address", "cname", "other"}

ASSUME WorldAssumption ==
  /\ IsFiniteSet(Servers) /\ IsFiniteSet(Hosts) /\ IsFiniteSet(Names)
  /\ Asked \subseteq [name : Names, kind : Kinds]
  /\ Alias \in [Names -> Names \cup {None}]
  /\ Addresses \in [Hosts -> SUBSET Servers]
  /\ \A h \in Hosts : Found[h] \subseteq SUBSET (Addresses[h] \cap Allowed)
  /\ None \notin Names
ASSUME ConfigurationAssumption ==
  /\ Roots \subseteq Allowed /\ Roots # {} /\ Allowed \subseteq Servers
  /\ MaxDepth \in Nat /\ MaxChain \in Nat
  /\ MaxConcurrent \in Nat \ {0} /\ Enough \in Nat \ {0}
ASSUME SwitchAssumption == {Minimize, Fallback, Bridge, InlineCache, CanBeLate} \subseteq BOOLEAN

VARIABLES
  deleg,     \* zone -> its cached endpoints and whether they cool down, or None
  hosts,     \* NS host -> its cached endpoints, or None
  failed,    \* NS hosts in their failure backoff
  stored,    \* name -> the answer cached for its chain, or None
  at, ask,   \* per task: where it is, and the question
  chain,     \* the CNAME chain followed so far
  walk,      \* the walk for the current name of the chain
  hop,       \* the NS host names being resolved
  packet,    \* the reply of the last walk, or its error
  late,      \* the budget of the query has passed
  out        \* how the query ended

caches == <<deleg, hosts, failed, stored>>
iterVars == <<caches, at, ask, chain, walk, hop, packet, late, out>>
-----------------------------------------------------------------------------
(* Names, packets and referrals *)

\* domain_is_same_or_subdomain_of(n, z)
Encloses(z, n) == Len(z) <= Len(n) /\ SubSeq(n, 1, Len(z)) = z

ZonesAbove(n) == {SubSeq(n, 1, i) : i \in 1..Len(n)}

\* iterative_minimized_qname: one label more at every depth.
Minimized(n, depth) == IF depth < Len(n) THEN SubSeq(n, 1, depth + 1) ELSE n

Deepest(Z) == CHOOSE z \in Z : \A y \in Z : Len(y) <= Len(z)

\* about: the name it answers; links: the owners of its CNAMEs; leaf: the
\* owner of a record of the type asked for.  The rest is authority and glue.
Packet ==
  [about : Names, rcode : {"noerror", "nxdomain", "refused"}, links : SUBSET Names, leaf : Names \cup {None},
   soa : BOOLEAN, zones : SUBSET Names, nss : SUBSET Hosts,
   glue : SUBSET (Hosts \X Servers)]

HasAnswer(p) == p.links # {} \/ p.leaf # None

\* A packet that ends the walk: an error, an answer, or "no such record".
Conclusive(p) == p.rcode # "noerror" \/ HasAnswer(p) \/ (p.soa /\ p.nss = {})

GlueEndpoints(p) == {g[2] : g \in p.glue}
GlueOf(p, h) == {g[2] : g \in {x \in p.glue : x[1] = h}}

\* validate_referral_security: every zone the referral names encloses the name.
Valid(p, n) == p.zones # {} /\ \A z \in p.zones : Encloses(z, n)

\* filter_endpoints_for_iterative_family
Filter(E) == E \cap Allowed

\* The names down the chain of n, the first ones of them.
Reach(n) ==
  LET reach[k \in 0..Cardinality(Names)] ==
        IF k = 0 THEN n
        ELSE IF Alias[reach[k - 1]] = None THEN reach[k - 1] ELSE Alias[reach[k - 1]]
  IN reach

\* The CNAMEs of p are the first of the chain of n, and its record is of the end.
Unbroken(n, p) ==
  \E k \in 0..Cardinality(Names) :
    /\ p.links = {Reach(n)[i] : i \in 0..(k - 1)}
    /\ \A m \in p.links : Alias[m] # None
    /\ p.leaf # None => p.leaf = Reach(n)[k] /\ Alias[p.leaf] = None

(* The world is silent, or cuts things short, but it does not lie. *)

\* A reply is about the name asked: servers answer what they are asked, and the
\* code, which does not compare the question of a reply with its own, relies on it.
Truthful(n, p) == p \in Packet /\ p.about = n /\ Unbroken(n, p)

ASSUME TruthAssumption ==
  /\ \A n \in Names, d \in 0..MaxDepth : Minimized(n, d) \in Names
  /\ \A s \in Servers, n \in Names : \A p \in Says[s][n] : Truthful(n, p)
  /\ \A n \in Names : \A p \in Recursive[n] : Truthful(n, p)

\* Glue is of its host, and a valid referral names servers of its deepest zone.
ASSUME ReferralAssumption ==
  \A s \in Servers, n \in Names : \A p \in Says[s][n] :
    /\ \A h \in Hosts : GlueOf(p, h) \subseteq Addresses[h]
    /\ \A m \in Names : Valid(p, m) => p.nss \subseteq NsOf[Deepest(p.zones)]

Error(e) == [rcode |-> e, about |-> <<>>, links |-> {}, leaf |-> None, soa |-> FALSE,
             zones |-> {}, nss |-> {}, glue |-> {}]
Errors == {"budget", "loop", "depth", "noglue", "chainloop", "chaindepth"}
IsError(p) == p.rcode \in Errors

\* append_cname_answers; the rcode of the target is cleared when there is a chain.
Merge(p, links) ==
  [p EXCEPT !.links = links, !.rcode = IF links # {} THEN "noerror" ELSE p.rcode]

NoWalk == [depth |-> 0, cands |-> {}, seen |-> {}, tried |-> {}, seed |-> None,
           next |-> {}, flying |-> {}]
NoHop == [from |-> None, queue |-> {}, asking |-> {}, got |-> {}]

Init ==
  /\ deleg = [z \in Names |-> None]
  /\ hosts = [h \in Hosts |-> None]
  /\ failed = {}
  /\ stored = [n \in Names |-> None]
  /\ at = [t \in Tasks |-> "idle"]
  /\ ask = [t \in Tasks |-> None]
  /\ chain = [t \in Tasks |-> None]
  /\ walk = [t \in Tasks |-> NoWalk]
  /\ hop = [t \in Tasks |-> NoHop]
  /\ packet = [t \in Tasks |-> None]
  /\ late = [t \in Tasks |-> FALSE]
  /\ out = [t \in Tasks |-> None]
-----------------------------------------------------------------------------
Goto(t, place) == at' = [at EXCEPT ![t] = place]
Follows(t) == ask[t].kind = "address"
Name(t) == chain[t].name

Finish(t, p) ==
  /\ Goto(t, "done")
  /\ out' = [out EXCEPT ![t] = p]
  /\ walk' = [walk EXCEPT ![t] = NoWalk]
  /\ hop' = [hop EXCEPT ![t] = NoHop]
  /\ packet' = [packet EXCEPT ![t] = None]

(* query_iterative, before the first walk: only addresses are followed. *)
Start(t) ==
  /\ at[t] \in {"idle", "done"}
  /\ \E q \in Asked :
       /\ ask' = [ask EXCEPT ![t] = q]
       /\ chain' = [chain EXCEPT ![t] =
            [name |-> q.name, seen |-> {q.name}, links |-> {}, depth |-> 0]]
       /\ Goto(t, IF q.kind = "address" THEN "step"
                  ELSE IF q.kind = "cname" /\ Fallback THEN "ask forwarder" ELSE "walk")
  /\ late' = [late EXCEPT ![t] = FALSE]
  /\ out' = [out EXCEPT ![t] = None]
  /\ UNCHANGED <<caches, walk, hop, packet>>

\* A CNAME query goes to the bootstrap resolvers first, if they may be used.
AskForwarderFirst(t) ==
  /\ at[t] = "ask forwarder"
  /\ \/ \E p \in Recursive[Name(t)] : Finish(t, p)
     \/ Goto(t, "walk") /\ UNCHANGED <<walk, hop, packet, out>>
  /\ UNCHANGED <<caches, ask, chain, late>>

(* One name of the chain: a cached answer, if it has not expired, or a walk. *)
Step(t) ==
  /\ at[t] = "step"
  /\ \/ late[t] /\ Finish(t, Error("budget"))
     \/ /\ ~late[t] /\ InlineCache /\ stored[Name(t)] # None
        /\ packet' = [packet EXCEPT ![t] = stored[Name(t)]]
        /\ Goto(t, "scan")
        /\ UNCHANGED <<walk, hop, out>>
     \/ ~late[t] /\ Goto(t, "walk") /\ UNCHANGED <<walk, hop, packet, out>>
  /\ UNCHANGED <<caches, ask, chain, late>>
-----------------------------------------------------------------------------
(* query_iterative_single *)

\* get_cached_delegation_endpoints: the deepest zone that is not cooling down.
Usable(n) == {z \in ZonesAbove(n) \cap Names : deleg[z] # None /\ ~deleg[z].cooling}

Begin(t) ==
  /\ at[t] = "walk"
  /\ LET seed == IF Usable(Name(t)) = {} THEN None ELSE Deepest(Usable(Name(t)))
     IN walk' = [walk EXCEPT ![t] =
          [NoWalk EXCEPT !.cands = IF seed = None THEN Roots ELSE deleg[seed].endpoints,
                         !.seed = seed]]
  /\ Goto(t, "hop")
  /\ UNCHANGED <<caches, ask, chain, hop, packet, late, out>>

EndWalk(t, p) ==
  IF Follows(t)
  THEN /\ packet' = [packet EXCEPT ![t] = p]
       /\ Goto(t, IF IsError(p) THEN "bridge" ELSE "scan")
       /\ walk' = [walk EXCEPT ![t] = [walk[t] EXCEPT !.flying = {}, !.next = {}]]
       /\ hop' = [hop EXCEPT ![t] = NoHop]
       /\ UNCHANGED out
  ELSE Finish(t, p)

\* The head of the referral loop.
Hop(t) ==
  /\ at[t] = "hop"
  /\ LET w == walk[t]
     IN IF w.depth = MaxDepth THEN EndWalk(t, Error("depth"))
        ELSE IF w.cands \in w.seen THEN EndWalk(t, Error("loop"))
        ELSE IF late[t] THEN EndWalk(t, Error("budget"))
        ELSE /\ walk' = [walk EXCEPT ![t] = [w EXCEPT !.seen = @ \cup {w.cands},
                           !.flying = w.cands, !.next = {}]]
             /\ Goto(t, "collect")
             /\ UNCHANGED <<hop, packet, out>>
  /\ UNCHANGED <<caches, ask, chain, late>>

\* Mutant: the walks of the follower are minimized too.
QNameMinimized(t) == IF Minimize THEN Minimized(Name(t), walk[t].depth) ELSE Name(t)

\* Walks of the CNAME follower never minimize.
QNameOf(t) ==
  IF Minimize /\ ~Follows(t) THEN Minimized(Name(t), walk[t].depth) ELSE Name(t)

\* query_address failed for one server.
ServerFails(t, s) ==
  /\ at[t] = "collect" /\ s \in walk[t].flying
  /\ walk' = [walk EXCEPT ![t].flying = @ \ {s}]
  /\ UNCHANGED <<caches, at, ask, chain, hop, packet, late, out>>

\* Whatever family it is of, glue is kept for its host.
WarmHosts(p) ==
  hosts' = [h \in Hosts |-> IF GlueOf(p, h) # {} THEN GlueOf(p, h) ELSE hosts[h]]

ServerAnswers(t, s) ==
  /\ at[t] = "collect" /\ s \in walk[t].flying
  /\ \E p \in Says[s][QNameOf(t)] :
       LET w == walk[t]
           next == w.next \cup Filter(GlueEndpoints(p))
           progress == p.glue # {} /\ next # {}
       IN IF Conclusive(p) THEN EndWalk(t, p) /\ UNCHANGED hosts
          ELSE /\ WarmHosts(p)
               /\ IF progress \/ p.nss = {} \/ p.nss \in w.tried
                  THEN /\ walk' = [walk EXCEPT ![t] =
                            [w EXCEPT !.next = next,
                                      !.flying = IF progress THEN {} ELSE @ \ {s}]]
                       /\ UNCHANGED <<at, hop>>
                  ELSE /\ walk' = [walk EXCEPT ![t] =
                            [w EXCEPT !.next = next, !.flying = @ \ {s},
                                      !.tried = @ \cup {p.nss}]]
                       /\ hop' = [hop EXCEPT ![t] =
                            [from |-> p, queue |-> p.nss, asking |-> {}, got |-> {}]]
                       /\ Goto(t, "resolve")
               /\ UNCHANGED <<packet, out>>
  /\ UNCHANGED <<deleg, failed, stored, ask, chain, late>>
-----------------------------------------------------------------------------
(* resolve_ns_hostnames *)

Filling(t) ==
  /\ hop[t].queue # {}
  /\ Cardinality(hop[t].asking) < MaxConcurrent
  /\ Cardinality(hop[t].got) < Enough

\* The next host: skipped if it has just failed, from the cache, or asked for.
\* Backoffs end and cached addresses expire.
Schedule(t, h) ==
  /\ at[t] = "resolve" /\ h \in hop[t].queue /\ Filling(t)
  /\ \/ h \in failed /\ hop' = [hop EXCEPT ![t].queue = @ \ {h}]
     \/ /\ hosts[h] # None
        /\ hop' = [hop EXCEPT ![t] = [hop[t] EXCEPT !.queue = @ \ {h}, !.got = @ \cup hosts[h]]]
     \/ hop' = [hop EXCEPT ![t] = [hop[t] EXCEPT !.queue = @ \ {h}, !.asking = @ \cup {h}]]
  /\ UNCHANGED <<caches, at, ask, chain, walk, packet, late, out>>

\* The bootstrap resolvers or a walk of its own found some of its addresses, or
\* none in time.
HostResolved(t, h) ==
  /\ at[t] = "resolve" /\ h \in hop[t].asking
  /\ ~Filling(t) /\ Cardinality(hop[t].got) < Enough
  /\ \E E \in Found[h] :
       /\ hop' = [hop EXCEPT ![t] = [hop[t] EXCEPT !.asking = @ \ {h}, !.got = @ \cup E]]
       /\ hosts' = IF E = {} THEN hosts ELSE [hosts EXCEPT ![h] = E]
       /\ failed' = IF E = {} THEN failed \cup {h} ELSE failed
  /\ UNCHANGED <<deleg, stored, at, ask, chain, walk, packet, late, out>>

\* The deadline of the hop: no more hosts are asked for.
HopDeadline(t) ==
  /\ CanBeLate
  /\ at[t] = "resolve" /\ hop[t].queue # {}
  /\ hop' = [hop EXCEPT ![t].queue = {}]
  /\ UNCHANGED <<caches, at, ask, chain, walk, packet, late, out>>

\* put_cached_delegation_endpoints: the deepest zone of the referral that
\* encloses the name, unless it is the root.
Delegated(d, zones, n, E) ==
  LET Z == {z \in zones : Encloses(z, n)}
      z == Deepest(Z)
  IN IF Z = {} \/ Filter(E) = {} THEN d
     ELSE IF z = <<>> THEN d
     ELSE [d EXCEPT ![z] = [endpoints |-> Filter(E), cooling |-> FALSE]]

\* Mutant: everything the hop has found so far is cached for the zone.
HostsDoneCachesAll(t) ==
  /\ at[t] = "resolve" /\ ~Filling(t)
  /\ hop[t].asking = {} \/ Cardinality(hop[t].got) >= Enough
  /\ LET p == hop[t].from
         next == walk[t].next \cup hop[t].got
     IN /\ walk' = [walk EXCEPT ![t] = [walk[t] EXCEPT !.next = next]]
        /\ deleg' = IF hop[t].got # {} /\ Valid(p, Name(t))
                    THEN Delegated(deleg, p.zones, Name(t), next) ELSE deleg
  /\ Goto(t, "collect")
  /\ hop' = [hop EXCEPT ![t] = NoHop]
  /\ UNCHANGED <<hosts, failed, stored, ask, chain, packet, late, out>>

\* Enough addresses, or no host left.  A set of hosts that gave nothing may be
\* tried again; a delegation is cached only if its referral was valid.
HostsDone(t) ==
  /\ at[t] = "resolve" /\ ~Filling(t)
  /\ hop[t].asking = {} \/ Cardinality(hop[t].got) >= Enough
  /\ LET p == hop[t].from
         got == hop[t].got
         w == walk[t]
         next == w.next \cup got
     IN /\ walk' = [walk EXCEPT ![t] =
             [w EXCEPT !.next = next,
                       !.tried = IF got = {} THEN @ \ {p.nss} ELSE @,
                       !.flying = IF Cardinality(next) >= Enough THEN {} ELSE @]]
        /\ deleg' = IF got # {} /\ Valid(p, Name(t))
                    THEN Delegated(deleg, p.zones, Name(t), got) ELSE deleg
  /\ Goto(t, "collect")
  /\ hop' = [hop EXCEPT ![t] = NoHop]
  /\ UNCHANGED <<hosts, failed, stored, ask, chain, packet, late, out>>
-----------------------------------------------------------------------------
(* The end of a hop *)

HopOver(t) == at[t] = "collect" /\ walk[t].flying = {}

GoDeeper(t) ==
  /\ HopOver(t) /\ walk[t].next # {}
  /\ walk' = [walk EXCEPT ![t] = [walk[t] EXCEPT !.cands = walk[t].next, !.next = {}, !.depth = @ + 1]]
  /\ Goto(t, "hop")
  /\ UNCHANGED <<caches, ask, chain, hop, packet, late, out>>

StartedFromCache(t) == walk[t].depth = 0 /\ walk[t].seed # None

\* mark_delegation_cache_failure, and once more from the roots.
RetryFromRoots(t) ==
  /\ HopOver(t) /\ walk[t].next = {} /\ StartedFromCache(t)
  /\ LET z == walk[t].seed
     IN deleg' = IF deleg[z] = None THEN deleg ELSE [deleg EXCEPT ![z].cooling = TRUE]
  /\ walk' = [walk EXCEPT ![t] = [walk[t] EXCEPT !.cands = Roots, !.seed = None, !.depth = 1]]
  /\ Goto(t, "hop")
  /\ UNCHANGED <<hosts, failed, stored, ask, chain, hop, packet, late, out>>

DeadEnd(t) ==
  /\ HopOver(t) /\ walk[t].next = {} /\ ~StartedFromCache(t)
  /\ \/ Fallback /\ \E p \in Recursive[Name(t)] : EndWalk(t, p)
     \/ EndWalk(t, Error("noglue"))
  /\ UNCHANGED <<caches, ask, chain, late>>
-----------------------------------------------------------------------------
(* query_iterative, after a walk *)

\* The step of an address query is cut off at any await when its budget is over.
StepTimesOut(t) ==
  /\ late[t] /\ Follows(t)
  /\ \/ at[t] = "collect" /\ walk[t].flying # {}
     \/ at[t] = "resolve" /\ hop[t].asking # {}
  /\ EndWalk(t, Error("budget"))
  /\ UNCHANGED <<caches, ask, chain, late>>

\* A failed step is answered by the bootstrap resolvers, if they may be used.
MayBridge(t) ==
  Fallback \/ (Bridge /\ chain[t].links # {} /\ packet[t].rcode = "noglue")

WalkFailed(t) ==
  /\ at[t] = "bridge"
  /\ \/ MayBridge(t) /\ \E p \in Recursive[Name(t)] :
          Finish(t, [p EXCEPT !.links = @ \cup chain[t].links])
     \/ Finish(t, packet[t])
  /\ UNCHANGED <<caches, ask, chain, late>>

Collected(t) == chain[t].links \cup packet[t].links

\* The name itself has the record, or there is none.
Terminal(t) ==
  packet[t].rcode # "noerror" \/ (packet[t].leaf = Name(t) /\ Name(t) \notin packet[t].links)

StoreChain(t, p) ==
  stored' = [stored EXCEPT ![ask[t].name] = [p EXCEPT !.about = ask[t].name]]

\* The chain is complete, and cached as the answer to the question.
Conclude(t) ==
  /\ at[t] = "scan"
  /\ Terminal(t) \/ packet[t].links = {}
  /\ LET p == IF Terminal(t) THEN Merge(packet[t], Collected(t))
              ELSE [packet[t] EXCEPT !.links = Collected(t)]
     IN /\ Finish(t, p)
        /\ IF p.rcode \in {"noerror", "nxdomain"} /\ (Terminal(t) \/ chain[t].links # {})
           THEN StoreChain(t, p) ELSE UNCHANGED stored
  /\ UNCHANGED <<deleg, hosts, failed, ask, chain, late>>

\* first_cname is the target of the first CNAME, in the server's order.
NextNames(t) == {Alias[n] : n \in packet[t].links}

\* Mutant: every name of the chain starts afresh.
FollowForgets(t) ==
  /\ at[t] = "scan" /\ ~Terminal(t)
  /\ \E n \in NextNames(t) :
       chain' = [chain EXCEPT ![t] = [name |-> n, seen |-> {n}, links |-> {}, depth |-> 0]]
  /\ Goto(t, "step")
  /\ packet' = [packet EXCEPT ![t] = None]
  /\ UNCHANGED <<caches, ask, walk, hop, late, out>>

Follow(t) ==
  /\ at[t] = "scan" /\ ~Terminal(t)
  /\ \E n \in NextNames(t) :
       IF chain[t].depth >= MaxChain THEN Finish(t, Error("chaindepth")) /\ UNCHANGED chain
       ELSE IF n \in chain[t].seen THEN Finish(t, Error("chainloop")) /\ UNCHANGED chain
       ELSE /\ chain' = [chain EXCEPT ![t] =
                 [name |-> n, seen |-> @.seen \cup {n}, links |-> Collected(t),
                  depth |-> @.depth + 1]]
            /\ packet' = [packet EXCEPT ![t] = None]
            /\ Goto(t, "step")
            /\ UNCHANGED <<walk, hop, out>>
  /\ UNCHANGED <<caches, ask, late>>
-----------------------------------------------------------------------------
(* Time *)

BudgetPasses(t) ==
  /\ CanBeLate /\ at[t] \notin {"idle", "done"} /\ ~late[t]
  /\ late' = [late EXCEPT ![t] = TRUE]
  /\ UNCHANGED <<caches, at, ask, chain, walk, hop, packet, out>>

\* Expired delegations are dropped when they are met, and the least recently
\* used when a shard is full: one may go at any time.
DropDelegation(z) ==
  /\ deleg[z] # None
  /\ deleg' = [deleg EXCEPT ![z] = None]
  /\ UNCHANGED <<hosts, failed, stored, at, ask, chain, walk, hop, packet, late, out>>

CooldownEnds(z) ==
  /\ deleg[z] # None /\ deleg[z].cooling
  /\ deleg' = [deleg EXCEPT ![z].cooling = FALSE]
  /\ UNCHANGED <<hosts, failed, stored, at, ask, chain, walk, hop, packet, late, out>>

Resolve(t) ==
  \/ AskForwarderFirst(t) \/ Step(t) \/ Begin(t) \/ Hop(t)
  \/ \E s \in Servers : ServerFails(t, s) \/ ServerAnswers(t, s)
  \/ \E h \in Hosts : Schedule(t, h) \/ HostResolved(t, h)
  \/ HostsDone(t) \/ GoDeeper(t) \/ RetryFromRoots(t) \/ DeadEnd(t)
  \/ StepTimesOut(t) \/ WalkFailed(t) \/ Conclude(t) \/ Follow(t)

Next ==
  \/ \E t \in Tasks : Start(t) \/ Resolve(t) \/ HopDeadline(t) \/ BudgetPasses(t)
  \/ \E z \in Names : DropDelegation(z) \/ CooldownEnds(z)

Spec == Init /\ [][Next]_iterVars
\* Each exchange and each host name has a timeout; the runtime polls ready tasks.
FairSpec == Spec /\ \A t \in Tasks : WF_iterVars(Resolve(t))
-----------------------------------------------------------------------------
(* Properties *)

Endpoints(z) == UNION {Addresses[h] : h \in NsOf[z]}

\* A cached delegation leads to servers of its own zone: what the replies of a
\* hop yield together, and what an invalid referral yields, is used but not
\* kept (put_cached_delegation_endpoints).
DelegationsTrue ==
  \A z \in Names : deleg[z] # None =>
    deleg[z].endpoints # {} /\ deleg[z].endpoints \subseteq Endpoints(z) \cap Allowed

\* An address query is answered about the end of the chain it followed, also
\* with QNAME minimization, which is off for the walks of the follower.
FollowersAnswerTheirName ==
  \A t \in Tasks :
    at[t] = "done" /\ Follows(t) /\ ~IsError(out[t]) => out[t].about = chain[t].name

\* The CNAMEs of an answer, and of a cached one, are an unbroken chain from the
\* question to the name of the record, however many walks and cached chains it
\* was put together from.
ChainsUnbroken ==
  /\ \A t \in Tasks : at[t] = "done" /\ Follows(t) /\ ~IsError(out[t]) =>
       Unbroken(ask[t].name, out[t])
  /\ \A n \in Names : stored[n] # None => Unbroken(n, stored[n])

\* Every query ends, whatever the servers refer to.
QueriesEnd == \A t \in Tasks : at[t] # "idle" ~> at[t] = "done"
=============================================================================
