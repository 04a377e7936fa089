-------------------------- MODULE Forwarding_proofs --------------------------
(***************************************************************************)
(* The forwarder, for any number of upstreams and retries, any world and   *)
(* any replies.                                                            *)
(*                                                                         *)
(* No upstream is passed over: the plan holds every upstream once, and the *)
(* failed attempts are those of the upstreams before the present one, all  *)
(* of them, and those of the present one so far.  That the end of the plan *)
(* is the end of the upstreams is the pigeonhole principle.                *)
(*                                                                         *)
(* Answers are whole chains: a query at work stands on the chain of its    *)
(* name, with the CNAMEs up to there or further collected, and has been    *)
(* only at names before; the cache, like a reply, tells of such a chain.   *)
(***************************************************************************)
EXTENDS Forwarding, Chains

\* A packet of some upstream: what it calls aliases are.
Sound(p) == p.rcode \in Rcodes /\ \A m \in p.links : zone[m] \in Names

Working(t) == at[t] \notin {"idle", "done"}

Plan(p, avoid) ==
  /\ p \in [Positions -> Upstreams]
  /\ \A i, j \in Positions : p[i] = p[j] => i = j
  /\ \A i, j \in Positions : p[i] \in avoid /\ p[j] \notin avoid => j < i

\* Every attempt of those before, those so far of the present one, none of the rest.
Counted(t) ==
  \A i \in Positions :
    failed[t][query[t].plan[i]] =
      IF i < turn[t] THEN Retries + 1 ELSE IF i = turn[t] THEN tries[t] ELSE 0

AllFailed(t) == \A u \in Upstreams : failed[t][u] = Retries + 1

Kinds ==
  /\ at \in [Tasks -> {"idle", "udp", "tcp", "replied", "done"}]
  /\ DOMAIN cached = Names
  /\ DOMAIN query = Tasks /\ DOMAIN follow = Tasks /\ DOMAIN packet = Tasks /\ DOMAIN out = Tasks
  /\ turn \in [Tasks -> Positions] /\ tries \in [Tasks -> 0 .. Retries]
  /\ failed \in [Tasks -> [Upstreams -> Nat]]

CacheSound == \A n \in Names : cached[n] # None => Sound(cached[n])

TaskInv(t) ==
  /\ at[t] = "replied" => Sound(packet[t])
  /\ Working(t) =>
       /\ \A m \in follow[t].links : zone[m] \in Names
       /\ Plan(query[t].plan, query[t].avoid)
       /\ Counted(t)
  /\ at[t] = "done" /\ FailedWith(t, "exhausted") => AllFailed(t)

FwdInv == Kinds /\ CacheSound /\ \A t \in Tasks : TaskInv(t)
-----------------------------------------------------------------------------
\* The positions of a plan are as many as the upstreams.
LEMMA PositionsFinite ==
  /\ Cardinality(Upstreams) \in Nat \ {0}
  /\ 1 \in Positions /\ Cardinality(Upstreams) \in Positions
  /\ \A i \in Positions : i \in Nat /\ 1 <= i /\ i <= Cardinality(Upstreams)
  /\ IsFiniteSet(Positions) /\ Cardinality(Positions) = Cardinality(Upstreams)
<1>1. Cardinality(Upstreams) \in Nat \ {0}
  BY TasksAssumption, FS_CardinalityType, FS_EmptySet
<1> DEFINE N == Cardinality(Upstreams)
<1>2. IsFiniteSet(1 .. N) /\ Cardinality(1 .. N) = IF 1 > N THEN 0 ELSE N - 1 + 1
  BY <1>1, FS_Interval
<1> QED  BY <1>1, <1>2 DEF Positions

\* So a plan, which repeats none, leaves none out.
LEMMA PlanReachesAll ==
  ASSUME NEW p, NEW avoid, Plan(p, avoid), NEW u \in Upstreams
  PROVE  \E i \in Positions : p[i] = u
<1>1. p \in Injection(Positions, Upstreams)
  BY DEF Plan, Injection, IsInjective
<1>2. p \in Surjection(Positions, Upstreams)
  BY <1>1, PositionsFinite, TasksAssumption, FS_Injection
<1> QED  BY <1>2 DEF Surjection

LEMMA OrdersArePlans == \A p \in Orders : Plan(p, unhealthy)
BY DEF Orders, Plan

\* Whatever an upstream replies calls aliases only what are.
LEMMA RepliesSound == ASSUME NEW n, NEW p \in Replies(n) PROVE Sound(p)
<1>1. CASE p \in {Plain("servfail"), Plain("formerr")}
  BY <1>1 DEF Plain, Sound, Rcodes
<1>2. CASE p \in Truths(n)
  <2>1. PICK k, l, c : p = [rcode |-> c, links |-> Links(n, k), leaf |-> l] /\ c \in {"noerror", "nxdomain"}
    BY <1>2 DEF Truths
  <2> QED  BY <2>1 DEF Sound, Rcodes, Links, IsAlias
<1> QED  BY <1>1, <1>2 DEF Replies

\* So does what is merged from such.
LEMMA MergeSound ==
  ASSUME NEW p, Sound(p), NEW L, \A m \in L : zone[m] \in Names
  PROVE  Sound(Merge(p, L)) /\ Merge(p, L) # Plain("exhausted")
BY DEF Sound, Merge, Plain, Rcodes
-----------------------------------------------------------------------------
(* Steps *)

\* The state of one task's query.
Mine(t) == <<at[t], query[t], turn[t], tries[t], failed[t], follow[t], packet[t], out[t]>>

\* What another task does is nothing to this one.
LEMMA TaskFrame ==
  ASSUME NEW t, TaskInv(t), zone' = zone, Mine(t)' = Mine(t)
  PROVE  TaskInv(t)'
<1>1. /\ at'[t] = at[t] /\ query'[t] = query[t] /\ turn'[t] = turn[t] /\ tries'[t] = tries[t]
      /\ failed'[t] = failed[t] /\ follow'[t] = follow[t] /\ packet'[t] = packet[t] /\ out'[t] = out[t]
  BY DEF Mine
<1>2. Working(t)' = Working(t) /\ Counted(t)' = Counted(t) /\ AllFailed(t)' = AllFailed(t)
  BY <1>1 DEF Working, Counted, AllFailed, Positions
<1>3. Plan(query[t].plan, query[t].avoid)' = Plan(query[t].plan, query[t].avoid)
  BY <1>1 DEF Plan, Positions
<1>4. FailedWith(t, "exhausted")' = FailedWith(t, "exhausted")
  BY <1>1 DEF FailedWith
<1>5. Sound(packet[t])' = Sound(packet[t])
  BY <1>1 DEF Sound
<1>6. (\A m \in follow[t].links : zone[m] \in Names)' = (\A m \in follow[t].links : zone[m] \in Names)
  BY <1>1
<1> QED  BY <1>1, <1>2, <1>3, <1>4, <1>5, <1>6 DEF TaskInv

LEMMA CacheFrame ==
  ASSUME CacheSound, zone' = zone, \A n \in Names : cached'[n] \in {cached[n], None}
  PROVE  CacheSound'
BY DEF CacheSound, Sound

\* It is enough to look at the task that takes the step.
LEMMA OneTask ==
  ASSUME FwdInv, NEW t \in Tasks, Kinds', CacheSound', zone' = zone,
         \A s \in Tasks \ {t} : Mine(s)' = Mine(s), TaskInv(t)'
  PROVE  FwdInv'
<1>1. \A s \in Tasks \ {t} : TaskInv(s)'
  BY TaskFrame DEF FwdInv
<1> QED  BY <1>1 DEF FwdInv

LEMMA AskKeeps ==
  ASSUME FwdInv, NEW t \in Tasks, Ask(t)
  PROVE  FwdInv'
<1>1. PICK n \in Asked, p \in Orders :
        /\ query' = [query EXCEPT ![t] = [name |-> n, plan |-> p, avoid |-> unhealthy]]
        /\ follow' = [follow EXCEPT ![t] = Walk(n)]
  BY DEF Ask
<1>2. Kinds'
  BY <1>1, PositionsFinite, BoundsAssumption DEF FwdInv, Kinds, Ask
<1>3. CacheSound' /\ zone' = zone
  BY CacheFrame DEF Ask, FwdInv
<1>4. \A s \in Tasks \ {t} : Mine(s)' = Mine(s)
  BY <1>1 DEF Ask, Mine, FwdInv, Kinds
<1>5. TaskInv(t)'
  <2>1. /\ at'[t] = "udp" /\ follow'[t].links = {} /\ turn'[t] = 1 /\ tries'[t] = 0
        /\ query'[t].plan = p /\ query'[t].avoid = unhealthy /\ failed'[t] = [u \in Upstreams |-> 0]
    BY <1>1 DEF Ask, Walk, FwdInv, Kinds
  <2>2. Plan(p, unhealthy)
    BY OrdersArePlans
  <2>3. Plan(query'[t].plan, query'[t].avoid)
    BY <2>1, <2>2
  <2>4. Counted(t)'
    <3> SUFFICES ASSUME NEW i \in Positions
                 PROVE  failed'[t][query'[t].plan[i]] =
                          IF i < turn'[t] THEN Retries + 1 ELSE IF i = turn'[t] THEN tries'[t] ELSE 0
      BY DEF Counted, Positions
    <3> QED  BY <2>1, <2>2, PositionsFinite DEF Plan
  <2> QED  BY <2>1, <2>3, <2>4 DEF TaskInv, Working, Plan, Positions
<1> QED  BY <1>2, <1>3, <1>4, <1>5, OneTask

\* Steps between the exchanges leave the count alone.
LEMMA SameCount ==
  ASSUME FwdInv, NEW t \in Tasks, Working(t), Working(t)',
         zone' = zone, query' = query, turn' = turn, tries' = tries, failed' = failed,
         at'[t] = "replied" => Sound(packet[t])',
         \A m \in follow'[t].links : zone[m] \in Names
  PROVE  TaskInv(t)'
<1>1. Plan(query[t].plan, query[t].avoid) /\ Counted(t)
  BY DEF FwdInv, TaskInv
<1>2. Plan(query[t].plan, query[t].avoid)' /\ Counted(t)'
  BY <1>1 DEF Plan, Counted, Positions
<1> QED  BY <1>2 DEF TaskInv, Working

LEMMA ExchangeKeeps ==
  ASSUME FwdInv, NEW t \in Tasks, UdpReplies(t) \/ UdpFallsBack(t) \/ TcpReplies(t) \/ StripEdns(t)
  PROVE  FwdInv'
<1>1. Kinds'
  BY DEF FwdInv, Kinds, UdpReplies, UdpFallsBack, TcpReplies, StripEdns
<1>2. CacheSound' /\ zone' = zone
  BY CacheFrame DEF UdpReplies, UdpFallsBack, TcpReplies, StripEdns, FwdInv
<1>3. \A s \in Tasks \ {t} : Mine(s)' = Mine(s)
  BY DEF UdpReplies, UdpFallsBack, TcpReplies, StripEdns, Mine, FwdInv, Kinds
<1>4. Working(t) /\ Working(t)' /\ UNCHANGED <<query, turn, tries, failed>>
  BY DEF UdpReplies, UdpFallsBack, TcpReplies, StripEdns, Working, FwdInv, Kinds
<1>5. at'[t] = "replied" => Sound(packet[t])'
  <2>1. CASE UdpReplies(t) \/ TcpReplies(t)
    <3>1. PICK p \in Replies(follow[t].name) : packet' = [packet EXCEPT ![t] = p]
      BY <2>1 DEF UdpReplies, TcpReplies
    <3>2. Sound(p) /\ packet'[t] = p
      BY <3>1, RepliesSound DEF FwdInv, Kinds
    <3> QED  BY <1>2, <3>2 DEF Sound
  <2>2. CASE UdpFallsBack(t) \/ StripEdns(t)
    BY <2>2 DEF UdpFallsBack, StripEdns, FwdInv, Kinds
  <2> QED  BY <2>1, <2>2
<1>6. \A m \in follow'[t].links : zone[m] \in Names
  <2>1. follow'[t].links = follow[t].links
    <3>1. CASE StripEdns(t)
      BY <3>1 DEF StripEdns, FwdInv, Kinds
    <3>2. CASE follow' = follow
      BY <3>2
    <3> QED  BY <3>1, <3>2 DEF UdpReplies, UdpFallsBack, TcpReplies
  <2> QED  BY <1>4, <2>1 DEF FwdInv, TaskInv
<1>7. TaskInv(t)'
  BY <1>2, <1>4, <1>5, <1>6, SameCount
<1> QED  BY <1>1, <1>2, <1>3, <1>7, OneTask
\* A failed attempt is counted for the upstream it was made on, and the query
\* moves on from an upstream only when it has had all of its attempts.
LEMMA FailureCounted ==
  ASSUME FwdInv, NEW t \in Tasks, NEW error, AttemptFails(t, error), Working(t), cached' = cached
  PROVE  Kinds' /\ TaskInv(t)' /\ zone' = zone /\ \A s \in Tasks \ {t} : Mine(s)' = Mine(s)
<1> DEFINE p == query[t].plan
           u == Upstream(t)
           N == Cardinality(Upstreams)
<1>1. /\ failed' = [failed EXCEPT ![t][u] = @ + 1] /\ packet' = [packet EXCEPT ![t] = None]
      /\ query' = query /\ zone' = zone
      /\ IF tries[t] < Retries THEN RetrySame(t) ELSE GiveUpOn(t, error)
  BY DEF AttemptFails
<1>2. Plan(p, query[t].avoid) /\ Counted(t) /\ turn[t] \in Positions /\ u = p[turn[t]] /\ u \in Upstreams
  BY DEF FwdInv, TaskInv, Kinds, Plan, Upstream
<1>3. tries[t] \in 0 .. Retries /\ failed[t] \in [Upstreams -> Nat] /\ failed[t][u] = tries[t]
  BY <1>2, PositionsFinite DEF FwdInv, Kinds, Counted
<1>4. failed'[t] = [failed[t] EXCEPT ![u] = @ + 1] /\ failed' \in [Tasks -> [Upstreams -> Nat]]
  BY <1>1, <1>2 DEF FwdInv, Kinds
<1>5. \A s \in Tasks \ {t} : failed'[s] = failed[s] /\ packet'[s] = packet[s]
  BY <1>1 DEF FwdInv, Kinds
<1>6. \A i \in Positions : failed'[t][p[i]] = IF i = turn[t] THEN tries[t] + 1 ELSE failed[t][p[i]]
  BY <1>2, <1>3, <1>4 DEF Plan
<1> HIDE DEF p, u
<1>7. CASE tries[t] < Retries /\ RetrySame(t)
  <2>1. /\ tries' = [tries EXCEPT ![t] = @ + 1] /\ follow' = [follow EXCEPT ![t] = Walk(query[t].name)]
        /\ at' = [at EXCEPT ![t] = "udp"] /\ turn' = turn /\ out' = out
    BY <1>7 DEF RetrySame
  <2>2. Kinds'
    BY <1>1, <1>3, <1>4, <1>7, <2>1, BoundsAssumption DEF FwdInv, Kinds, AttemptFails, RetrySame, Positions
  <2>3. at'[t] = "udp" /\ follow'[t].links = {} /\ tries'[t] = tries[t] + 1
    BY <2>1 DEF FwdInv, Kinds, Walk
  <2>4. Counted(t)'
    <3> SUFFICES ASSUME NEW i \in Positions
                 PROVE  failed'[t][query'[t].plan[i]] =
                          IF i < turn'[t] THEN Retries + 1 ELSE IF i = turn'[t] THEN tries'[t] ELSE 0
      BY DEF Counted, Positions
    <3> QED  BY <1>1, <1>2, <1>6, <2>1, <2>3, PositionsFinite DEF Counted, p
  <2>5. Plan(query'[t].plan, query'[t].avoid)
    BY <1>1, <1>2 DEF p
  <2>6. TaskInv(t)'
    BY <1>1, <2>3, <2>4, <2>5 DEF TaskInv, Working, Plan, Positions
  <2>7. \A s \in Tasks \ {t} : Mine(s)' = Mine(s)
    BY <1>1, <1>5, <2>1 DEF Mine, FwdInv, Kinds
  <2> QED  BY <1>1, <2>2, <2>6, <2>7
<1>8. CASE tries[t] = Retries /\ GiveUpOn(t, error)
  <2>1. \A s \in Tasks \ {t} : Mine(s)' = Mine(s)
    <3>1. \A s \in Tasks \ {t} :
            at'[s] = at[s] /\ out'[s] = out[s] /\ follow'[s] = follow[s] /\ turn'[s] = turn[s] /\ tries'[s] = tries[s]
      BY <1>8 DEF GiveUpOn, End, FwdInv, Kinds
    <3> QED  BY <1>1, <1>5, <3>1 DEF Mine
  <2>2. CASE error \in {"loop", "deep"} /\ End(t, Plain(error)) /\ UNCHANGED <<turn, tries>>
    <3>1. Kinds'
      BY <1>1, <1>4, <1>8, <2>2 DEF FwdInv, Kinds, AttemptFails, GiveUpOn, End, Positions
    <3>2. at'[t] = "done" /\ out'[t].rcode = error
      BY <2>2 DEF End, Plain, FwdInv, Kinds
    <3>3. TaskInv(t)'
      BY <2>2, <3>2 DEF TaskInv, Working, FailedWith, Plain
    <3> QED  BY <1>1, <2>1, <3>1, <3>3
  <2>3. CASE turn[t] = N /\ End(t, Plain("exhausted")) /\ UNCHANGED <<turn, tries>>
    <3>1. Kinds'
      BY <1>1, <1>4, <1>8, <2>3 DEF FwdInv, Kinds, AttemptFails, GiveUpOn, End, Positions
    <3>2. \A i \in Positions : failed'[t][p[i]] = Retries + 1
      BY <1>2, <1>6, <1>8, <2>3, PositionsFinite DEF Counted, p
    <3>3. AllFailed(t)'
      BY <1>2, <3>2, PlanReachesAll DEF AllFailed
    <3>4. at'[t] = "done"
      BY <2>3 DEF End, FwdInv, Kinds
    <3> QED  BY <1>1, <2>1, <3>1, <3>3, <3>4 DEF TaskInv, Working
  <2>4. CASE /\ turn[t] # N /\ turn' = [turn EXCEPT ![t] = @ + 1] /\ tries' = [tries EXCEPT ![t] = 0]
             /\ follow' = [follow EXCEPT ![t] = Walk(query[t].name)]
             /\ at' = [at EXCEPT ![t] = "udp"] /\ out' = out
    <3>1. turn[t] + 1 \in Positions
      BY <1>2, <2>4, PositionsFinite DEF Positions
    <3>2. Kinds'
      BY <1>1, <1>4, <1>8, <2>4, <3>1, BoundsAssumption DEF FwdInv, Kinds, AttemptFails, GiveUpOn, Positions
    <3>3. at'[t] = "udp" /\ follow'[t].links = {} /\ tries'[t] = 0 /\ turn'[t] = turn[t] + 1
      BY <2>4 DEF FwdInv, Kinds, Walk
    <3>4. Counted(t)'
      <4> SUFFICES ASSUME NEW i \in Positions
                   PROVE  failed'[t][query'[t].plan[i]] =
                            IF i < turn'[t] THEN Retries + 1 ELSE IF i = turn'[t] THEN tries'[t] ELSE 0
        BY DEF Counted, Positions
      <4> QED  BY <1>1, <1>2, <1>6, <1>8, <3>3, PositionsFinite DEF Counted, p
    <3>5. Plan(query'[t].plan, query'[t].avoid)
      BY <1>1, <1>2 DEF p
    <3>6. TaskInv(t)'
      BY <1>1, <3>3, <3>4, <3>5 DEF TaskInv, Working, Plan, Positions
    <3> QED  BY <1>1, <2>1, <3>2, <3>6
  <2> QED  BY <1>8, <2>2, <2>3, <2>4 DEF GiveUpOn, N
<1>9. tries[t] < Retries \/ tries[t] = Retries
  BY <1>3, BoundsAssumption
<1> QED  BY <1>1, <1>7, <1>8, <1>9
LEMMA FailureKeeps ==
  ASSUME FwdInv, NEW t \in Tasks,
         TcpFails(t) \/ ChainTimesOut(t) \/ RefuseDowngrade(t) \/ ChainFails(t)
  PROVE  FwdInv'
<1>1. Working(t) /\ cached' = cached /\ \E error : AttemptFails(t, error)
  BY DEF TcpFails, ChainTimesOut, RefuseDowngrade, ChainFails, Working
<1>2. Kinds' /\ TaskInv(t)' /\ zone' = zone /\ \A s \in Tasks \ {t} : Mine(s)' = Mine(s)
  BY <1>1, FailureCounted
<1>3. CacheSound'
  BY <1>1, <1>2, CacheFrame DEF FwdInv
<1> QED  BY <1>2, <1>3, OneTask

LEMMA ConcludeKeeps ==
  ASSUME FwdInv, NEW t \in Tasks, Conclude(t)
  PROVE  FwdInv'
<1> DEFINE p == Merge(packet[t], Collected(t))
<1>1. /\ at' = [at EXCEPT ![t] = "done"] /\ out' = [out EXCEPT ![t] = p] /\ follow' = [follow EXCEPT ![t] = None]
      /\ cached' = [cached EXCEPT ![query[t].name] = IF Cacheable(p) THEN p ELSE @]
      /\ packet' = [packet EXCEPT ![t] = None] /\ UNCHANGED <<zone, query, turn, tries, failed>>
  BY DEF Conclude, End
<1>2. at[t] = "replied" /\ Sound(packet[t]) /\ \A m \in follow[t].links : zone[m] \in Names
  BY DEF Conclude, FwdInv, TaskInv, Working
<1>3. Sound(p) /\ p # Plain("exhausted")
  BY <1>2, MergeSound DEF Collected, Sound
<1> HIDE DEF p
<1>4. Kinds'
  BY <1>1 DEF FwdInv, Kinds, Positions
<1>5. CacheSound'
  <2> SUFFICES ASSUME NEW n \in Names, cached'[n] # None PROVE Sound(cached'[n])
    BY <1>1 DEF CacheSound, Sound
  <2>1. cached'[n] = cached[n] \/ cached'[n] = p
    BY <1>1 DEF FwdInv, Kinds
  <2> QED  BY <1>3, <2>1 DEF FwdInv, CacheSound
<1>6. \A s \in Tasks \ {t} : Mine(s)' = Mine(s)
  BY <1>1 DEF Mine, FwdInv, Kinds
<1>7. at'[t] = "done" /\ out'[t] = p
  BY <1>1 DEF FwdInv, Kinds
<1>8. TaskInv(t)'
  BY <1>3, <1>7 DEF TaskInv, Working, FailedWith, Plain
<1> QED  BY <1>1, <1>4, <1>5, <1>6, <1>8, OneTask

LEMMA NextHopKeeps ==
  ASSUME FwdInv, NEW t \in Tasks, NextHop(t)
  PROVE  FwdInv'
<1>1. PICK next \in Targets(packet[t]) \ follow[t].seen :
        /\ follow' = [follow EXCEPT ![t] = [name |-> next, seen |-> @.seen \cup {next}, links |-> Collected(t),
                                           hops |-> @.hops + 1, stripped |-> FALSE]]
        /\ packet' = [packet EXCEPT ![t] = cached[next]]
        /\ at' = [at EXCEPT ![t] = IF cached[next] = None THEN "udp" ELSE "replied"]
  BY DEF NextHop
<1>2. /\ at[t] = "replied" /\ Working(t) /\ Sound(packet[t]) /\ \A m \in follow[t].links : zone[m] \in Names
      /\ UNCHANGED <<zone, cached, query, turn, tries, failed, out>>
  BY DEF NextHop, FwdInv, TaskInv, Working
<1>3. next \in Names
  BY <1>2 DEF Targets, Sound
<1>4. Kinds'
  BY <1>1, <1>2 DEF FwdInv, Kinds, Positions
<1>5. CacheSound'
  BY <1>2, CacheFrame DEF FwdInv
<1>6. \A s \in Tasks \ {t} : Mine(s)' = Mine(s)
  BY <1>1, <1>2 DEF Mine, FwdInv, Kinds
<1>7. /\ at'[t] = IF cached[next] = None THEN "udp" ELSE "replied"
      /\ packet'[t] = cached[next] /\ follow'[t].links = Collected(t)
  BY <1>1 DEF FwdInv, Kinds
<1>8. at'[t] = "replied" => Sound(packet[t])'
  BY <1>2, <1>3, <1>7 DEF FwdInv, CacheSound, Sound
<1>9. \A m \in follow'[t].links : zone[m] \in Names
  BY <1>2, <1>7 DEF Collected, Sound
<1>10. Working(t)'
  BY <1>7 DEF Working
<1>11. TaskInv(t)'
  BY <1>2, <1>8, <1>9, <1>10, SameCount
<1> QED  BY <1>2, <1>4, <1>5, <1>6, <1>11, OneTask

LEMMA BystanderKeeps ==
  ASSUME FwdInv, (\E n \in Names : Expire(n)) \/ (\E u \in Upstreams : Recover(u)) \/ UNCHANGED fwdVars
  PROVE  FwdInv'
<1>1. UNCHANGED <<zone, taskVars>> /\ \A n \in Names : cached'[n] \in {cached[n], None}
  BY DEF Expire, Recover, fwdVars, taskVars, FwdInv, Kinds
<1>2. Kinds'
  BY <1>1 DEF FwdInv, Kinds, Expire, Recover, fwdVars, taskVars, Positions
<1>3. CacheSound'
  BY <1>1, CacheFrame DEF FwdInv
<1>4. \A s \in Tasks : TaskInv(s)'
  <2>1. \A s : Mine(s)' = Mine(s)
    BY <1>1 DEF Mine, taskVars
  <2> QED  BY <1>1, <2>1, TaskFrame DEF FwdInv
<1> QED  BY <1>2, <1>3, <1>4 DEF FwdInv

LEMMA FwdStarts == Init => FwdInv
BY PositionsFinite, BoundsAssumption DEF Init, FwdInv, Kinds, CacheSound, TaskInv, Working

LEMMA FwdContinues == FwdInv /\ [Next]_fwdVars => FwdInv'
<1> SUFFICES ASSUME FwdInv, [Next]_fwdVars PROVE FwdInv'
  OBVIOUS
<1>1. ASSUME NEW t \in Tasks, Work(t) PROVE FwdInv'
  BY <1>1, AskKeeps, ExchangeKeeps, FailureKeeps, ConcludeKeeps, NextHopKeeps DEF Work
<1> QED  BY <1>1, BystanderKeeps DEF Next

\* A query that reports "all upstream resolvers failed" has failed every attempt
\* on every upstream, whatever else went on meanwhile.
THEOREM NobodyPassedOver == Spec => []ExhaustedAfterAll
<1>1. Init => FwdInv
  BY FwdStarts
<1>2. FwdInv /\ [Next]_fwdVars => FwdInv'
  BY FwdContinues
<1>3. FwdInv => ExhaustedAfterAll
  BY DEF FwdInv, TaskInv, ExhaustedAfterAll, AllFailed
<1> QED  BY <1>1, <1>2, <1>3, PTL DEF Spec

\* An upstream in its backoff is asked only after all others have failed all
\* their attempts.
THEOREM UnhealthyLast == Spec => []LastResort
<1>1. Init => FwdInv
  BY FwdStarts
<1>2. FwdInv /\ [Next]_fwdVars => FwdInv'
  BY FwdContinues
<1>3. FwdInv => LastResort
  <2> SUFFICES ASSUME FwdInv, NEW t \in Tasks, Working(t), Upstream(t) \in query[t].avoid,
                      NEW u \in Upstreams \ query[t].avoid
               PROVE  failed[t][u] = Retries + 1
    BY DEF LastResort, Working
  <2>1. Plan(query[t].plan, query[t].avoid) /\ Counted(t) /\ turn[t] \in Positions
    BY DEF FwdInv, TaskInv, Kinds
  <2>2. PICK i \in Positions : query[t].plan[i] = u
    BY <2>1, PlanReachesAll
  <2>3. i < turn[t]
    BY <2>1, <2>2 DEF Plan, Upstream
  <2> QED  BY <2>1, <2>2, <2>3 DEF Counted
<1> QED  BY <1>1, <1>2, <1>3, PTL DEF Spec
-----------------------------------------------------------------------------
(* The chain a query is on *)
C == Cardinality(Names)
Aliases(z) == {m \in Names : z[m] \in Names}
Onward(z) == [m \in Names |-> IF z[m] \in Names THEN z[m] ELSE m]
Chain(z, n) == Orbit(Names, Onward(z), n)

\* The owners of the first k CNAMEs, for any k.
Prefix(n, k) == Owners(Chain(zone, n), Aliases(zone), k)

\* What a reply about n, before it is merged, tells of it.
Told(n, p) ==
  /\ p.rcode \in Rcodes
  /\ \E k \in Nat : p.links = Prefix(n, k)
  /\ p.leaf # None =>
       /\ p.rcode = "noerror" /\ p.links = Prefix(n, C)
       /\ p.leaf = Chain(zone, n)[C] /\ zone[p.leaf] = "address"
  /\ p.rcode = "nxdomain" /\ p.links = {} => zone[n] = "negative"

\* The walk has come from n to its present name along the chain of n.
Walked(n, w) ==
  \E i, j \in Nat :
    /\ i <= j /\ w.name = Chain(zone, n)[i] /\ w.links = Prefix(n, j)
    /\ w.seen \subseteq {Chain(zone, n)[l] : l \in 0 .. i}
    /\ w.hops \in Nat /\ w.hops <= i

Said(n, p) == SaidOf(n, p) /\ p.rcode \in Rcodes

Ended(t) ==
  /\ out[t].rcode \in Rcodes => SaidOf(query[t].name, out[t])
  /\ FailedWith(t, "loop") => Loops(query[t].name)
  /\ FailedWith(t, "deep") => Loops(query[t].name) \/ Length(query[t].name) > MaxDepth

OnChain(t) ==
  /\ at[t] # "idle" => query[t].name \in Names
  /\ Working(t) => Walked(query[t].name, follow[t])
  /\ at[t] = "replied" => Told(follow[t].name, packet[t])
  /\ at[t] = "done" => Ended(t)

ChainInv ==
  /\ zone \in Zones
  /\ \A n \in Names : cached[n] # None => Said(n, cached[n])
  /\ \A t \in Tasks : OnChain(t)
-----------------------------------------------------------------------------
LEMMA ZoneIsWorld ==
  ASSUME NEW z \in Zones
  PROVE  World(Names, Aliases(z), Onward(z)) /\ C \in Nat
BY NamesAssumption, ZonesAssumption, FS_CardinalityType DEF World, Aliases, Onward, C

LEMMA ChainIsOrbit ==
  ASSUME NEW z \in Zones, NEW n \in Names
  PROVE  /\ IsOrbit(Chain(z, n), Names, Onward(z), n)
         /\ Chain(z, n) \in [Nat -> Names] /\ Chain(z, n)[0] = n
<1>1. Onward(z) \in [Names -> Names]
  BY DEF Onward
<1>2. IsOrbit(Chain(z, n), Names, Onward(z), n)
  BY <1>1, OrbitFollows DEF Chain
<1> QED  BY <1>2 DEF IsOrbit

\* The table of the specification holds the first names of every chain.
LEMMA DownIsChain ==
  ASSUME NEW z \in Zones, NEW n \in Names, NEW k \in 0 .. C
  PROVE  Down(z, n)[k] = Chain(z, n)[k]
<1> DEFINE f == Chain(z, n)
           R(D) == [l \in 0 .. C |->
                      IF l = 0 THEN n ELSE IF z[D[l - 1]] \in Names THEN z[D[l - 1]] ELSE D[l - 1]]
           E == [l \in 0 .. C |-> f[l]]
           D == Down(z, n)
<1>1. C \in Nat
  BY ZoneIsWorld
<1>2. f[0] = n /\ \A l \in Nat : f[l] \in Names /\ f[l + 1] = Onward(z)[f[l]]
  BY ChainIsOrbit DEF IsOrbit
<1> HIDE DEF f
<1>3. E = R(E)
  <2>1. ASSUME NEW l \in 0 .. C, l # 0
        PROVE  f[l] = IF z[E[l - 1]] \in Names THEN z[E[l - 1]] ELSE E[l - 1]
    <3>1. l - 1 \in 0 .. C /\ l - 1 \in Nat /\ (l - 1) + 1 = l
      BY <1>1, <2>1
    <3> QED  BY <1>2, <3>1 DEF Onward
  <2> QED  BY <1>2, <2>1
<1>4. D = R(D)
  <2>1. D = CHOOSE d : d = R(d)
    BY DEF Down, C
  <2> HIDE DEF R, E, D
  <2> QED  BY <1>3, <2>1
<1> DEFINE G == {l \in Nat : l <= C => D[l] = f[l]}
<1> HIDE DEF D
<1>5. \A l \in 0 .. C :
        D[l] = IF l = 0 THEN n ELSE IF z[D[l - 1]] \in Names THEN z[D[l - 1]] ELSE D[l - 1]
  BY <1>4
<1>6. 0 \in G
  BY <1>1, <1>2, <1>5
<1>7. ASSUME NEW l \in Nat, l \in G PROVE l + 1 \in G
  <2> SUFFICES ASSUME l + 1 <= C PROVE D[l + 1] = f[l + 1]
    OBVIOUS
  <2>1. l + 1 \in 0 .. C /\ (l + 1) - 1 = l /\ l + 1 # 0 /\ D[l] = f[l]
    BY <1>1, <1>7
  <2>2. D[l + 1] = IF z[D[l]] \in Names THEN z[D[l]] ELSE D[l]
    BY <1>5, <2>1
  <2> QED  BY <1>2, <2>1, <2>2 DEF Onward
<1>8. Nat \subseteq G
  <2> HIDE DEF G
  <2> QED  BY <1>6, <1>7, SetInduction
<1> QED  BY <1>1, <1>8 DEF D, f

LEMMA LinksArePrefix ==
  ASSUME zone \in Zones, NEW n \in Names
  PROVE  /\ \A k \in 0 .. C : Links(n, k) = Prefix(n, k) /\ Last(n, k) = Chain(zone, n)[k]
         /\ Loops(n) <=> Chain(zone, n)[C] \in Aliases(zone)
         /\ Length(n) = Cardinality(Prefix(n, C))
<1>1. C \in Nat /\ C \in 0 .. C
  BY ZoneIsWorld
<1>2. \A k \in 0 .. C : Last(n, k) = Chain(zone, n)[k] /\ Chain(zone, n)[k] \in Names
  BY <1>1, DownIsChain, ChainIsOrbit DEF Last
<1>3. ASSUME NEW k \in 0 .. C PROVE Links(n, k) = Prefix(n, k)
  <2>1. {Last(n, i) : i \in 0 .. (k - 1)} = {Chain(zone, n)[i] : i \in 0 .. (k - 1)}
    BY <1>1, <1>2
  <2>2. \A i \in 0 .. (k - 1) : Chain(zone, n)[i] \in Names
    BY <1>1, <1>2
  <2> QED  BY <2>1, <2>2 DEF Links, Prefix, Owners, Aliases, IsAlias
<1> QED  BY <1>1, <1>2, <1>3 DEF Loops, Length, Aliases, IsAlias, C

\* However far one counts, the CNAMEs are those of some row of the table.
LEMMA PrefixIsShort ==
  ASSUME zone \in Zones, NEW n \in Names, NEW k \in Nat
  PROVE  /\ \E l \in 0 .. C : Prefix(n, k) = Links(n, l)
         /\ C <= k => Prefix(n, k) = Links(n, C)
<1>1. World(Names, Aliases(zone), Onward(zone)) /\ C \in Nat /\ IsOrbit(Chain(zone, n), Names, Onward(zone), n)
  BY ZoneIsWorld, ChainIsOrbit
<1>2. C <= k => Prefix(n, k) = Prefix(n, C)
  BY <1>1, OwnersSaturate DEF Prefix, C
<1>3. Prefix(n, C) = Links(n, C)
  BY <1>1, LinksArePrefix
<1>4. k <= C => Prefix(n, k) = Links(n, k)
  BY <1>1, LinksArePrefix
<1>5. k \in 0 .. C \/ C <= k
  BY <1>1
<1> QED  BY <1>1, <1>2, <1>3, <1>4, <1>5

LEMMA PrefixJoins ==
  ASSUME zone \in Zones, NEW n \in Names, NEW i \in Nat, NEW j \in Nat, i <= j, NEW k \in Nat
  PROVE  /\ Chain(zone, Chain(zone, n)[i])[k] = Chain(zone, n)[i + k]
         /\ Prefix(n, j) \cup Prefix(Chain(zone, n)[i], k) = Prefix(n, IF j < i + k THEN i + k ELSE j)
<1>1. World(Names, Aliases(zone), Onward(zone)) /\ Onward(zone) \in [Names -> Names]
  BY ZoneIsWorld DEF World
<1>2. Chain(zone, Chain(zone, n)[i])[k] = Chain(zone, n)[i + k]
  <2>1. Orbit(Names, Onward(zone), Orbit(Names, Onward(zone), n)[i])[k] = Orbit(Names, Onward(zone), n)[i + k]
    BY <1>1, OrbitShifts
  <2> QED  BY <2>1 DEF Chain
<1>3. Prefix(n, j) \cup Prefix(Chain(zone, n)[i], k) = Prefix(n, IF j < i + k THEN i + k ELSE j)
  BY <1>1, OwnersJoin DEF Chain, Prefix
<1> QED  BY <1>2, <1>3

\* A link of a reply is some way down the chain, and its target one further.
LEMMA LinkIsOnChain ==
  ASSUME zone \in Zones, NEW n \in Names, NEW i \in Nat, NEW k \in Nat,
         NEW m \in Prefix(Chain(zone, n)[i], k)
  PROVE  \E r \in 0 .. (k - 1) :
           /\ m = Chain(zone, n)[i + r] /\ m \in Aliases(zone)
           /\ zone[m] = Chain(zone, n)[i + r + 1]
<1>1. Chain(zone, n)[i] \in Names /\ Onward(zone) \in [Names -> Names]
  BY ChainIsOrbit DEF Onward
<1>2. PICK r \in 0 .. (k - 1) : m = Chain(zone, Chain(zone, n)[i])[r] /\ m \in Aliases(zone)
  BY DEF Prefix, Owners
<1>3. m = Chain(zone, n)[i + r]
  <2>1. r \in Nat
    BY <1>2
  <2>2. Chain(zone, Chain(zone, n)[i])[r] = Chain(zone, n)[i + r]
    BY <2>1, PrefixJoins
  <2> QED  BY <1>2, <2>2
<1>4. Chain(zone, n)[i + r + 1] = Onward(zone)[Chain(zone, n)[i + r]]
  <2>1. i + r \in Nat
    OBVIOUS
  <2> QED  BY <2>1, ChainIsOrbit DEF IsOrbit
<1> QED  BY <1>2, <1>3, <1>4 DEF Onward, Aliases

\* A walk begins at the name asked for.
LEMMA WalkBegins ==
  ASSUME zone \in Zones, NEW n \in Names
  PROVE  Walked(n, Walk(n))
<1>1. Chain(zone, n)[0] = n
  BY ChainIsOrbit
<1>2. Prefix(n, 0) = {}
  BY DEF Prefix, Owners
<1>3. Walk(n).name = Chain(zone, n)[0] /\ Walk(n).links = Prefix(n, 0) /\ Walk(n).hops = 0
      /\ Walk(n).seen \subseteq {Chain(zone, n)[l] : l \in 0 .. 0}
  BY <1>1, <1>2 DEF Walk
<1> QED  BY <1>3 DEF Walked

\* Every reply about a name tells of its chain.
LEMMA RepliesTell ==
  ASSUME zone \in Zones, NEW n \in Names, NEW p \in Replies(n)
  PROVE  Told(n, p)
<1>1. CASE p \in {Plain("servfail"), Plain("formerr")}
  <2>1. Prefix(n, 0) = {}
    BY DEF Prefix, Owners
  <2> QED  BY <1>1, <2>1 DEF Told, Plain, Rcodes
<1>2. CASE p \in Truths(n)
  <2>0. C \in Nat /\ World(Names, Aliases(zone), Onward(zone)) /\ IsOrbit(Chain(zone, n), Names, Onward(zone), n)
    BY ZoneIsWorld, ChainIsOrbit
  <2>1. PICK k \in (IF IsAlias(n) THEN 1 ELSE 0) .. C :
          \/ p = [rcode |-> "noerror", links |-> Links(n, k),
                  leaf |-> IF zone[Last(n, k)] = "address" THEN Last(n, k) ELSE None]
          \/ p = [rcode |-> IF zone[Last(n, k)] = "negative" THEN "nxdomain" ELSE "noerror",
                  links |-> Links(n, k), leaf |-> None]
    BY <1>2 DEF Truths, C
  <2>2. k \in 0 .. C /\ k \in Nat
    BY <2>0, <2>1
  <2>3. Links(n, k) = Prefix(n, k) /\ Last(n, k) = Chain(zone, n)[k]
    BY <2>2, LinksArePrefix
  <2>4. p.rcode \in Rcodes /\ p.links = Prefix(n, k)
    BY <2>1, <2>3 DEF Rcodes
  <2>5. ASSUME p.leaf # None
        PROVE  /\ p.rcode = "noerror" /\ p.links = Prefix(n, C)
               /\ p.leaf = Chain(zone, n)[C] /\ zone[p.leaf] = "address"
    <3>1. p.rcode = "noerror" /\ p.leaf = Chain(zone, n)[k] /\ zone[p.leaf] = "address"
      BY <2>1, <2>3, <2>5
    <3>2. Chain(zone, n)[k] \notin Aliases(zone)
      BY <3>1, FactsAssumption DEF Aliases
    <3>3. Chain(zone, n)[C] = Chain(zone, n)[k]
      BY <2>0, <2>2, <3>2, OrbitEndsEarly DEF C
    <3>4. Prefix(n, k) = Prefix(n, C)
      <4>1. ASSUME NEW l \in k .. (C - 1) PROVE Chain(zone, n)[l] \notin Aliases(zone)
        BY <2>0, <2>2, <3>2, OrbitEnds
      <4> QED  BY <2>0, <2>2, <4>1 DEF Prefix, Owners
    <3> QED  BY <2>4, <3>1, <3>3, <3>4
  <2>6. ASSUME p.rcode = "nxdomain", p.links = {} PROVE zone[n] = "negative"
    <3>1. zone[Chain(zone, n)[k]] = "negative"
      BY <2>1, <2>3, <2>6
    <3>2. Chain(zone, n)[0] = n
      BY ChainIsOrbit
    <3>3. CASE k = 0
      BY <3>1, <3>2, <3>3
    <3>4. CASE k # 0
      <4>1. 0 \in 0 .. (k - 1)
        BY <2>2, <3>4
      <4>2. n \notin Aliases(zone)
        BY <2>4, <2>6, <3>2, <4>1 DEF Prefix, Owners
      <4>3. Chain(zone, n)[k] = n
        BY <2>0, <2>2, <3>2, <4>2, OrbitEnds
      <4> QED  BY <3>1, <4>3
    <3> QED  BY <3>3, <3>4
  <2> QED  BY <2>2, <2>4, <2>5, <2>6 DEF Told
<1> QED  BY <1>1, <1>2 DEF Replies

\* So does what the cache says.
LEMMA SaidIsTold ==
  ASSUME zone \in Zones, NEW n \in Names, NEW p, Said(n, p)
  PROVE  Told(n, p)
<1>1. C \in Nat /\ C \in 0 .. C
  BY ZoneIsWorld
<1>2. PICK k \in 0 .. C : p.links = Links(n, k)
  BY DEF Said, SaidOf, C
<1>3. p.links = Prefix(n, k) /\ k \in Nat
  BY <1>1, <1>2, LinksArePrefix
<1>4. Links(n, C) = Prefix(n, C) /\ Last(n, C) = Chain(zone, n)[C]
  BY <1>1, LinksArePrefix
<1> QED  BY <1>3, <1>4 DEF Said, SaidOf, Told, C

\* The chain walked and what is told of its end are said of its beginning.
LEMMA MergeIsSaid ==
  ASSUME zone \in Zones, NEW n \in Names, NEW w, Walked(n, w), NEW p, Told(w.name, p)
  PROVE  Said(n, Merge(p, w.links \cup p.links))
<1> DEFINE f == Chain(zone, n)
           L == w.links \cup p.links
           q == Merge(p, L)
<1>1. C \in Nat /\ World(Names, Aliases(zone), Onward(zone)) /\ IsOrbit(f, Names, Onward(zone), n) /\ f[0] = n
  BY ZoneIsWorld, ChainIsOrbit
<1>2. PICK i \in Nat, j \in Nat : i <= j /\ w.name = f[i] /\ w.links = Prefix(n, j)
  BY DEF Walked
<1>3. f[i] \in Names
  BY ChainIsOrbit
<1>4. PICK k \in Nat : p.links = Prefix(w.name, k)
  BY DEF Told
<1> HIDE DEF f
<1>5. \A l \in Nat : w.links \cup Prefix(w.name, l) = Prefix(n, IF j < i + l THEN i + l ELSE j)
  BY <1>2, PrefixJoins DEF f
<1>6. \E l \in 0 .. C : L = Links(n, l)
  <2>1. L = Prefix(n, IF j < i + k THEN i + k ELSE j)
    BY <1>4, <1>5
  <2> QED  BY <2>1, PrefixIsShort
<1>7. q.links = L /\ q.leaf = p.leaf /\ q.rcode = IF L # {} THEN "noerror" ELSE p.rcode
  BY DEF Merge
<1>8. ASSUME p.leaf # None
      PROVE  /\ q.rcode = "noerror" /\ L = Links(n, C) /\ p.leaf = Last(n, C) /\ zone[p.leaf] = "address"
  <2>1. /\ p.rcode = "noerror" /\ p.links = Prefix(w.name, C)
        /\ p.leaf = Chain(zone, w.name)[C] /\ zone[p.leaf] = "address"
    BY <1>8 DEF Told
  <2>2. L = Links(n, C)
    <3>1. L = Prefix(n, IF j < i + C THEN i + C ELSE j)
      BY <1>1, <1>5, <2>1
    <3> QED  BY <1>1, <3>1, PrefixIsShort
  <2>3. p.leaf = f[i + C] /\ i + C \in Nat
    BY <1>1, <1>2, <2>1, PrefixJoins DEF f
  <2>4. f[C] = f[i + C]
    <3>1. f[i + C] \notin Aliases(zone)
      BY <2>1, <2>3, FactsAssumption DEF Aliases
    <3> QED  BY <1>1, <2>3, <3>1, OrbitEndsEarly DEF C
  <2>5. Last(n, C) = f[C]
    BY <1>1, LinksArePrefix DEF f
  <2> QED  BY <1>7, <2>1, <2>2, <2>3, <2>4, <2>5
<1>9. ASSUME q.rcode = "nxdomain" PROVE zone[n] = "negative"
  <2>1. L = {} /\ p.rcode = "nxdomain"
    BY <1>7, <1>9
  <2>2. zone[w.name] = "negative"
    BY <2>1 DEF Told
  <2>3. w.name = n
    <3>1. CASE i = 0
      BY <1>1, <1>2, <3>1
    <3>2. CASE i # 0
      <4>1. n \notin Aliases(zone)
        <5>1. 0 \in 0 .. (j - 1)
          BY <1>2, <3>2
        <5> QED  BY <1>1, <1>2, <2>1, <5>1 DEF Prefix, Owners, f
      <4> QED  BY <1>1, <1>2, <4>1, OrbitEnds
    <3> QED  BY <3>1, <3>2
  <2> QED  BY <2>2, <2>3
<1>10. q.rcode \in Rcodes
  BY <1>7 DEF Told, Rcodes
<1> HIDE DEF L, q
<1>11. SaidOf(n, q)
  BY <1>6, <1>7, <1>8, <1>9 DEF SaidOf, C
<1> QED  BY <1>10, <1>11 DEF Said, q, L

\* Following a link that was told is going further down the chain.
LEMMA WalkGoesOn ==
  ASSUME zone \in Zones, NEW n \in Names, NEW w, Walked(n, w), NEW p, Told(w.name, p),
         NEW m \in p.links
  PROVE  /\ zone[m] \in Names
         /\ Walked(n, [name |-> zone[m], seen |-> w.seen \cup {zone[m]}, links |-> w.links \cup p.links,
                       hops |-> w.hops + 1, stripped |-> FALSE])
         /\ zone[m] \in w.seen => Loops(n)
         /\ Loops(n) \/ Length(n) > w.hops
<1> DEFINE f == Chain(zone, n)
           next == [name |-> zone[m], seen |-> w.seen \cup {zone[m]}, links |-> w.links \cup p.links,
                    hops |-> w.hops + 1, stripped |-> FALSE]
<1>1. C \in Nat /\ World(Names, Aliases(zone), Onward(zone)) /\ IsOrbit(f, Names, Onward(zone), n) /\ f \in [Nat -> Names]
  BY ZoneIsWorld, ChainIsOrbit
<1>2. PICK i \in Nat, j \in Nat :
        /\ i <= j /\ w.name = f[i] /\ w.links = Prefix(n, j)
        /\ w.seen \subseteq {f[l] : l \in 0 .. i} /\ w.hops \in Nat /\ w.hops <= i
  BY DEF Walked
<1>3. PICK k \in Nat : p.links = Prefix(f[i], k)
  BY <1>2 DEF Told
<1>4. PICK r \in 0 .. (k - 1) : m = f[i + r] /\ m \in Aliases(zone) /\ zone[m] = f[i + r + 1]
  <2>1. m \in Prefix(Chain(zone, n)[i], k)
    BY <1>3
  <2> QED  BY <2>1, LinkIsOnChain
<1>5. w.links \cup p.links = Prefix(n, IF j < i + k THEN i + k ELSE j)
  <2>1. Prefix(n, j) \cup Prefix(f[i], k) = Prefix(n, IF j < i + k THEN i + k ELSE j)
    BY <1>2, PrefixJoins
  <2> QED  BY <1>2, <1>3, <2>1
<1> HIDE DEF f
<1>6. zone[m] \in Names
  BY <1>4 DEF Aliases
<1>7. Walked(n, next)
  <2> DEFINE a == i + r + 1
             b == IF j < i + k THEN i + k ELSE j
  <2>1. a \in Nat /\ b \in Nat /\ a <= b /\ i < a
    BY <1>2, <1>4
  <2>2. next.name = f[a] /\ next.links = Prefix(n, b)
    BY <1>4, <1>5
  <2>3. next.seen \subseteq {f[l] : l \in 0 .. a}
    <3>1. \A l \in 0 .. i : l \in 0 .. a
      BY <2>1
    <3>2. a \in 0 .. a
      BY <2>1
    <3> HIDE DEF a
    <3> QED  BY <1>2, <2>2, <3>1, <3>2
  <2>4. next.hops \in Nat /\ next.hops <= a
    BY <1>2, <2>1
  <2> HIDE DEF next, a, b
  <2> QED  BY <2>1, <2>2, <2>3, <2>4 DEF Walked, f
<1>8. Loops(n) <=> f[C] \in Aliases(zone)
  BY LinksArePrefix DEF f
<1>9. ASSUME zone[m] \in w.seen PROVE Loops(n)
  <2>1. PICK l \in 0 .. i : zone[m] = f[l]
    BY <1>2, <1>9
  <2>2. l \in Nat /\ i + r + 1 \in Nat /\ l < i + r + 1 /\ l \in 0 .. (i + r) /\ i + r \in Nat
    BY <1>2, <1>4, <2>1
  <2>3. f[l] \in Aliases(zone)
    BY <1>1, <1>4, <2>2, AliasesBefore
  <2>4. f[l] = f[i + r + 1]
    BY <1>4, <2>1
  <2> QED  BY <1>1, <1>8, <2>2, <2>3, <2>4, NoReturn DEF C
<1>10. ASSUME ~Loops(n) PROVE Length(n) > w.hops
  <2>1. i + r \in Nat /\ w.hops <= i + r
    BY <1>2, <1>4
  <2>2. Cardinality(Prefix(n, C)) > i + r
    BY <1>1, <1>4, <1>8, <1>10, <2>1, OwnersCounted DEF Prefix, C, f
  <2>3. Cardinality(Prefix(n, C)) \in Nat
    <3>1. Prefix(n, C) \in SUBSET Names
      BY DEF Prefix, Owners, Aliases
    <3>2. IsFiniteSet(Prefix(n, C))
      BY <3>1, NamesAssumption, FS_Subset
    <3> QED  BY <3>2, FS_CardinalityType
  <2> QED  BY <1>2, <2>1, <2>2, <2>3, LinksArePrefix
<1> QED  BY <1>6, <1>7, <1>9, <1>10
-----------------------------------------------------------------------------
\* What another task does is nothing to this one.
LEMMA ChainFrame ==
  ASSUME NEW t, OnChain(t), zone' = zone, Mine(t)' = Mine(t)
  PROVE  OnChain(t)'
<1>1. at'[t] = at[t] /\ query'[t] = query[t] /\ follow'[t] = follow[t] /\ packet'[t] = packet[t] /\ out'[t] = out[t]
  BY DEF Mine
<1>2. Told(follow[t].name, packet[t])' = Told(follow[t].name, packet[t])
  BY <1>1 DEF Told, Prefix
<1>3. Walked(query[t].name, follow[t])' = Walked(query[t].name, follow[t])
  BY <1>1 DEF Walked, Prefix
<1>4. SaidOf(query[t].name, out[t])' = SaidOf(query[t].name, out[t])
  BY <1>1 DEF SaidOf, Links, Last, IsAlias
<1>5. Loops(query[t].name)' = Loops(query[t].name) /\ Length(query[t].name)' = Length(query[t].name)
  BY <1>1 DEF Loops, Length, Links, Last, IsAlias
<1>6. Ended(t)' = Ended(t)
  BY <1>1, <1>4, <1>5 DEF Ended, FailedWith
<1> QED  BY <1>1, <1>2, <1>3, <1>6 DEF OnChain, Working

LEMMA CacheKeepsSaying ==
  ASSUME ChainInv, zone' = zone,
         \A n \in Names : cached'[n] = cached[n] \/ cached'[n] = None \/ Said(n, cached'[n])
  PROVE  \A n \in Names : cached'[n] # None => Said(n, cached[n])'
<1> SUFFICES ASSUME NEW n \in Names, cached'[n] # None PROVE Said(n, cached[n])'
  OBVIOUS
<1>1. Said(n, cached'[n])
  BY DEF ChainInv
<1> QED  BY <1>1 DEF Said, SaidOf, Links, Last, IsAlias

\* Again it is enough to look at the task that takes the step.
LEMMA OneTaskOnChain ==
  ASSUME ChainInv, NEW t \in Tasks, zone' = zone,
         \A n \in Names : cached'[n] = cached[n] \/ cached'[n] = None \/ Said(n, cached'[n]),
         \A s \in Tasks \ {t} : Mine(s)' = Mine(s), OnChain(t)'
  PROVE  ChainInv'
<1>1. \A s \in Tasks \ {t} : OnChain(s)'
  BY ChainFrame DEF ChainInv
<1>2. \A n \in Names : cached'[n] # None => Said(n, cached[n])'
  BY CacheKeepsSaying
<1> QED  BY <1>1, <1>2 DEF ChainInv

\* A query that is still at work is on the chain of its name.
LEMMA StillOnChain ==
  ASSUME zone' = zone, NEW t, at'[t] \in {"udp", "tcp", "replied"}, query'[t].name \in Names,
         Walked(query'[t].name, follow'[t]),
         at'[t] = "replied" => Told(follow'[t].name, packet'[t])
  PROVE  OnChain(t)'
<1>1. Walked(query[t].name, follow[t])'
  BY DEF Walked, Prefix
<1>2. at'[t] = "replied" => Told(follow[t].name, packet[t])'
  BY DEF Told, Prefix
<1> QED  BY <1>1, <1>2 DEF OnChain, Working

\* A failed attempt starts the chain again, or ends it with an error that is true.
LEMMA FailureOnChain ==
  ASSUME FwdInv, ChainInv, NEW t \in Tasks, NEW error, AttemptFails(t, error), Working(t),
         error = "loop" => Loops(query[t].name),
         error = "deep" => Loops(query[t].name) \/ Length(query[t].name) > MaxDepth
  PROVE  OnChain(t)'
<1> DEFINE n == query[t].name
<1>1. zone' = zone /\ query' = query /\ n \in Names /\ zone \in Zones
  BY DEF AttemptFails, ChainInv, OnChain, Working
<1>2. \/ at'[t] = "udp" /\ follow'[t] = Walk(n)
      \/ at'[t] = "done" /\ \E e \in {error, "exhausted"} \cap Errors : out'[t] = Plain(e)
  BY DEF AttemptFails, RetrySame, GiveUpOn, End, FwdInv, Kinds, Errors
<1>3. CASE at'[t] = "udp" /\ follow'[t] = Walk(n)
  <2>1. Walked(n, Walk(n))
    BY <1>1, WalkBegins
  <2> QED  BY <1>1, <1>3, <2>1, StillOnChain
<1>4. CASE at'[t] = "done" /\ \E e \in {error, "exhausted"} \cap Errors : out'[t] = Plain(e)
  <2>1. PICK e \in {error, "exhausted"} \cap Errors : out'[t] = Plain(e)
    BY <1>4
  <2>2. out'[t].rcode = e /\ e \notin Rcodes
    BY <2>1 DEF Plain, Rcodes, Errors
  <2>3. (out'[t] = Plain("loop") => e = "loop") /\ (out'[t] = Plain("deep") => e = "deep")
    BY <2>2 DEF Plain
  <2>4. Loops(query[t].name)' = Loops(n) /\ Length(query[t].name)' = Length(n)
    BY <1>1 DEF Loops, Length, Links, Last, IsAlias
  <2>5. Ended(t)'
    BY <2>2, <2>3, <2>4 DEF Ended, FailedWith
  <2> QED  BY <1>1, <1>4, <2>5 DEF OnChain, Working
<1> QED  BY <1>2, <1>3, <1>4

LEMMA FailuresOnChain ==
  ASSUME FwdInv, ChainInv, NEW t \in Tasks,
         TcpFails(t) \/ ChainTimesOut(t) \/ RefuseDowngrade(t) \/ ChainFails(t)
  PROVE  ChainInv'
<1> DEFINE n == query[t].name
<1>1. Working(t) /\ cached' = cached
  BY DEF TcpFails, ChainTimesOut, RefuseDowngrade, ChainFails, Working
<1>2. PICK error : /\ AttemptFails(t, error)
                   /\ error = "loop" => Loops(n)
                   /\ error = "deep" => Loops(n) \/ Length(n) > MaxDepth
  <2>1. CASE ~ChainFails(t)
    <3>1. AttemptFails(t, "failed")
      BY <2>1 DEF TcpFails, ChainTimesOut, RefuseDowngrade
    <3> QED  BY <3>1
  <2>2. CASE ChainFails(t)
    <3>1. Walked(n, follow[t]) /\ Told(follow[t].name, packet[t]) /\ n \in Names /\ zone \in Zones
      BY <2>2 DEF ChainFails, ChainInv, OnChain, Working
    <3>2. PICK m \in packet[t].links :
            \/ follow[t].hops >= MaxDepth /\ AttemptFails(t, "deep")
            \/ zone[m] \in follow[t].seen /\ AttemptFails(t, "loop")
      BY <2>2 DEF ChainFails, Targets
    <3>3. (zone[m] \in follow[t].seen => Loops(n)) /\ (Loops(n) \/ Length(n) > follow[t].hops)
      BY <3>1, WalkGoesOn
    <3>4. follow[t].hops \in Nat
      BY <3>1 DEF Walked
    <3>5. Length(n) \in Nat
      <4>1. Links(n, Cardinality(Names)) \in SUBSET Names
        <5>1. C \in 0 .. C
          BY <3>1, ZoneIsWorld
        <5>2. Links(n, C) = Prefix(n, C)
          BY <3>1, <5>1, LinksArePrefix
        <5>3. Prefix(n, C) \subseteq Names
          BY DEF Prefix, Owners, Aliases
        <5> QED  BY <5>2, <5>3 DEF C
      <4> QED  BY <4>1, NamesAssumption, FS_Subset, FS_CardinalityType DEF Length
    <3>6. CASE follow[t].hops >= MaxDepth /\ AttemptFails(t, "deep")
      <4>1. Loops(n) \/ Length(n) > MaxDepth
        BY <3>3, <3>4, <3>5, <3>6, BoundsAssumption
      <4> QED  BY <3>6, <4>1
    <3>7. CASE zone[m] \in follow[t].seen /\ AttemptFails(t, "loop")
      BY <3>3, <3>7
    <3> QED  BY <3>2, <3>6, <3>7
  <2> QED  BY <2>1, <2>2
<1>3. zone' = zone /\ \A s \in Tasks \ {t} : Mine(s)' = Mine(s)
  BY <1>1, <1>2, FailureCounted
<1>4. OnChain(t)'
  BY <1>1, <1>2, FailureOnChain
<1> QED  BY <1>1, <1>3, <1>4, OneTaskOnChain

LEMMA AskOnChain ==
  ASSUME FwdInv, ChainInv, NEW t \in Tasks, Ask(t)
  PROVE  ChainInv'
<1>1. PICK n \in Asked, p \in Orders :
        /\ query' = [query EXCEPT ![t] = [name |-> n, plan |-> p, avoid |-> unhealthy]]
        /\ follow' = [follow EXCEPT ![t] = Walk(n)]
  BY DEF Ask
<1>2. zone' = zone /\ cached' = cached /\ \A s \in Tasks \ {t} : Mine(s)' = Mine(s)
  BY <1>1 DEF Ask, Mine, FwdInv, Kinds
<1>3. at'[t] = "udp" /\ query'[t].name = n /\ follow'[t] = Walk(n) /\ n \in Names
  BY <1>1, NamesAssumption DEF Ask, FwdInv, Kinds
<1>4. Walked(n, Walk(n))
  BY <1>3, WalkBegins DEF ChainInv
<1>5. OnChain(t)'
  BY <1>2, <1>3, <1>4, StillOnChain
<1> QED  BY <1>2, <1>5, OneTaskOnChain

LEMMA ExchangeOnChain ==
  ASSUME FwdInv, ChainInv, NEW t \in Tasks, UdpReplies(t) \/ UdpFallsBack(t) \/ TcpReplies(t) \/ StripEdns(t)
  PROVE  ChainInv'
<1> DEFINE n == query[t].name
<1>1. zone' = zone /\ cached' = cached /\ query' = query /\ \A s \in Tasks \ {t} : Mine(s)' = Mine(s)
  BY DEF UdpReplies, UdpFallsBack, TcpReplies, StripEdns, Mine, FwdInv, Kinds
<1>2. Walked(n, follow[t]) /\ n \in Names /\ zone \in Zones
  BY DEF UdpReplies, UdpFallsBack, TcpReplies, StripEdns, ChainInv, OnChain, Working
<1>3. /\ at'[t] \in {"udp", "tcp", "replied"}
      /\ follow'[t] = follow[t] \/ follow'[t] = [follow[t] EXCEPT !.stripped = TRUE]
      /\ at'[t] = "replied" => follow'[t] = follow[t] /\ packet'[t] \in Replies(follow[t].name)
  BY DEF UdpReplies, UdpFallsBack, TcpReplies, StripEdns, FwdInv, Kinds
<1>4. Walked(n, follow'[t])
  <2>1. CASE follow'[t] = [follow[t] EXCEPT !.stripped = TRUE]
    <3>1. /\ follow'[t].name = follow[t].name /\ follow'[t].links = follow[t].links
          /\ follow'[t].seen = follow[t].seen /\ follow'[t].hops = follow[t].hops
      BY <2>1
    <3> QED  BY <1>2, <3>1 DEF Walked
  <2> QED  BY <1>2, <1>3, <2>1
<1>5. at'[t] = "replied" => Told(follow'[t].name, packet'[t])
  <2>1. follow[t].name \in Names
    BY <1>2, ChainIsOrbit DEF Walked
  <2> QED  BY <1>2, <1>3, <2>1, RepliesTell
<1>6. OnChain(t)'
  BY <1>1, <1>2, <1>3, <1>4, <1>5, StillOnChain
<1> QED  BY <1>1, <1>6, OneTaskOnChain

LEMMA ConcludeOnChain ==
  ASSUME FwdInv, ChainInv, NEW t \in Tasks, Conclude(t)
  PROVE  ChainInv'
<1> DEFINE n == query[t].name
           p == Merge(packet[t], Collected(t))
<1>1. /\ at' = [at EXCEPT ![t] = "done"] /\ out' = [out EXCEPT ![t] = p] /\ follow' = [follow EXCEPT ![t] = None]
      /\ cached' = [cached EXCEPT ![n] = IF Cacheable(p) THEN p ELSE @]
      /\ packet' = [packet EXCEPT ![t] = None] /\ UNCHANGED <<zone, query, turn, tries, failed>>
  BY DEF Conclude, End
<1>2. Walked(n, follow[t]) /\ Told(follow[t].name, packet[t]) /\ n \in Names /\ zone \in Zones
  BY DEF Conclude, ChainInv, OnChain, Working
<1>3. Said(n, p)
  BY <1>2, MergeIsSaid DEF Collected
<1> HIDE DEF p
<1>4. \A m \in Names : cached'[m] = cached[m] \/ cached'[m] = None \/ Said(m, cached'[m])
  BY <1>1, <1>3 DEF FwdInv, Kinds
<1>5. zone' = zone /\ \A s \in Tasks \ {t} : Mine(s)' = Mine(s)
  BY <1>1 DEF Mine, FwdInv, Kinds
<1>6. at'[t] = "done" /\ out'[t] = p /\ query'[t] = query[t]
  BY <1>1 DEF FwdInv, Kinds
<1>7. Ended(t)'
  <2>1. SaidOf(query[t].name, out[t])'
    BY <1>3, <1>5, <1>6 DEF Said, SaidOf, Links, Last, IsAlias
  <2>2. out'[t] # Plain("loop") /\ out'[t] # Plain("deep")
    BY <1>3, <1>6 DEF Said, Rcodes, Plain
  <2> QED  BY <2>1, <2>2 DEF Ended, FailedWith, Plain
<1>8. OnChain(t)'
  BY <1>2, <1>6, <1>7 DEF OnChain, Working
<1> QED  BY <1>4, <1>5, <1>8, OneTaskOnChain

LEMMA NextHopOnChain ==
  ASSUME FwdInv, ChainInv, NEW t \in Tasks, NextHop(t)
  PROVE  ChainInv'
<1> DEFINE n == query[t].name
<1>1. PICK m \in packet[t].links :
        /\ follow' = [follow EXCEPT ![t] = [name |-> zone[m], seen |-> @.seen \cup {zone[m]}, links |-> Collected(t),
                                           hops |-> @.hops + 1, stripped |-> FALSE]]
        /\ packet' = [packet EXCEPT ![t] = cached[zone[m]]]
        /\ at' = [at EXCEPT ![t] = IF cached[zone[m]] = None THEN "udp" ELSE "replied"]
  <2>1. PICK next \in Targets(packet[t]) \ follow[t].seen :
          /\ follow' = [follow EXCEPT ![t] = [name |-> next, seen |-> @.seen \cup {next}, links |-> Collected(t),
                                             hops |-> @.hops + 1, stripped |-> FALSE]]
          /\ packet' = [packet EXCEPT ![t] = cached[next]]
          /\ at' = [at EXCEPT ![t] = IF cached[next] = None THEN "udp" ELSE "replied"]
    BY DEF NextHop
  <2>2. PICK m \in packet[t].links : next = zone[m]
    BY DEF Targets
  <2> QED  BY <2>1, <2>2
<1>2. at[t] = "replied" /\ UNCHANGED <<zone, cached, query, turn, tries, failed, out>>
  BY DEF NextHop
<1>3. Walked(n, follow[t]) /\ Told(follow[t].name, packet[t]) /\ n \in Names /\ zone \in Zones
  BY <1>2 DEF ChainInv, OnChain, Working
<1>4. \A s \in Tasks \ {t} : Mine(s)' = Mine(s)
  BY <1>1, <1>2 DEF Mine, FwdInv, Kinds
<1>5. /\ at'[t] = IF cached[zone[m]] = None THEN "udp" ELSE "replied"
      /\ packet'[t] = cached[zone[m]]
      /\ follow'[t] = [name |-> zone[m], seen |-> follow[t].seen \cup {zone[m]}, links |-> Collected(t),
                       hops |-> follow[t].hops + 1, stripped |-> FALSE]
  BY <1>1 DEF FwdInv, Kinds
<1>6. zone[m] \in Names /\ Walked(n, follow'[t])
  BY <1>3, <1>5, WalkGoesOn DEF Collected
<1>7. at'[t] = "replied" => Told(follow'[t].name, packet'[t])
  <2>1. cached[zone[m]] # None => Told(zone[m], cached[zone[m]])
    BY <1>3, <1>6, SaidIsTold DEF ChainInv
  <2> QED  BY <1>5, <2>1
<1>8. OnChain(t)'
  BY <1>2, <1>3, <1>5, <1>6, <1>7, StillOnChain
<1> QED  BY <1>2, <1>4, <1>8, OneTaskOnChain

LEMMA BystanderOnChain ==
  ASSUME FwdInv, ChainInv,
         (\E n \in Names : Expire(n)) \/ (\E u \in Upstreams : Recover(u)) \/ UNCHANGED fwdVars
  PROVE  ChainInv'
<1>1. UNCHANGED <<zone, taskVars>> /\ \A n \in Names : cached'[n] = cached[n] \/ cached'[n] = None
  BY DEF Expire, Recover, fwdVars, taskVars, FwdInv, Kinds
<1>2. \A s : Mine(s)' = Mine(s)
  BY <1>1 DEF Mine, taskVars
<1>3. \A s \in Tasks : OnChain(s)'
  BY <1>1, <1>2, ChainFrame DEF ChainInv
<1>4. \A n \in Names : cached'[n] # None => Said(n, cached[n])'
  BY <1>1, CacheKeepsSaying
<1> QED  BY <1>1, <1>3, <1>4 DEF ChainInv

LEMMA ChainStarts == Init => ChainInv
BY DEF Init, ChainInv, OnChain, Working

LEMMA ChainContinues == FwdInv /\ ChainInv /\ [Next]_fwdVars => ChainInv'
<1> SUFFICES ASSUME FwdInv, ChainInv, [Next]_fwdVars PROVE ChainInv'
  OBVIOUS
<1>1. ASSUME NEW t \in Tasks, Work(t) PROVE ChainInv'
  BY <1>1, AskOnChain, ExchangeOnChain, FailuresOnChain, ConcludeOnChain, NextHopOnChain DEF Work
<1> QED  BY <1>1, BystanderOnChain DEF Next

LEMMA AlwaysOnChain == Spec => [](FwdInv /\ ChainInv)
<1>1. Init => FwdInv /\ ChainInv
  BY FwdStarts, ChainStarts
<1>2. FwdInv /\ ChainInv /\ [Next]_fwdVars => FwdInv' /\ ChainInv'
  BY FwdContinues, ChainContinues
<1> QED  BY <1>1, <1>2, PTL DEF Spec

\* Whatever mixture of replies, retries and cached chains an answer was merged
\* from, it is the chain of the name asked for, cut short or whole with its
\* address, for any zone, also one with loops.
THEOREM ChainsAreWhole == Spec => []WholeChains
<1>1. ChainInv => WholeChains
  BY DEF ChainInv, OnChain, Ended, Said, WholeChains
<1> QED  BY <1>1, AlwaysOnChain, PTL

\* A chain is called a loop only if it loops, and too deep only if it is as long
\* or loops: a follower never meets a name twice by its own doing.
THEOREM ChainErrorsAreTrue == Spec => []NoFalseChainError
<1>1. ChainInv => NoFalseChainError
  BY DEF ChainInv, OnChain, Ended, NoFalseChainError
<1> QED  BY <1>1, AlwaysOnChain, PTL
==============================================================================
