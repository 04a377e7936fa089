-------------------------- MODULE QueryPath_proofs --------------------------
(***************************************************************************)
(* Proofs about QueryPath for any keys and any number of queries,          *)
(* cancellation included.                                                  *)
(***************************************************************************)
EXTENDS QueryPath, TLAPS

Tier == [Keys -> Entry \cup {NoEntry}]

\* Moving a task to a stage of the query path keeps pc a function to stages.
LEMMA GotoType ==
  ASSUME pc \in [Tasks -> PCs], NEW t \in Tasks, NEW l \in PCs, Goto(t, l)
  PROVE  pc' \in [Tasks -> PCs]
  BY DEF Goto

\* The stages by name, for the steps that move a task there.
LEMMA Labels ==
  /\ "idle" \in PCs /\ "gate" \in PCs /\ "bad" \in PCs /\ "hot" \in PCs
  /\ "main" \in PCs /\ "register" \in PCs /\ "handle" \in PCs
  /\ "waiting" \in PCs /\ "woken" \in PCs /\ "resolve" \in PCs
  /\ "fetch" \in PCs /\ "store" \in PCs /\ "finish" \in PCs
  /\ "notify" \in PCs /\ "rule" \in PCs /\ "prefetch" \in PCs
  /\ "prestore" \in PCs /\ "reply" \in PCs
  BY DEF PCs

\* A request carries its CD bit and whether its view may recurse.
LEMMA RequestTypes ==
  \A r \in Requests : r.cd \in BOOLEAN /\ r.allowed \in BOOLEAN
  BY RequestsAssumption

\* Lookups, inserts and expiry keep a cache tier a cache tier.
LEMMA TierTypes ==
  /\ \A kind \in Kinds : Fresh(kind) \in Entry /\ kind \in Packet
  /\ \A tier \in Tier, k \in Keys : tier[k] # NoEntry => tier[k].kind \in Kinds
  /\ \A tier \in Tier, k \in Keys : \A f : AfterGet(tier, k, f) \in Tier
  /\ \A tier \in Tier, k \in Keys : \A f : Servable(tier, k, f) => tier[k].kind \in Kinds
  BY DEF Tier, Fresh, Entry, Kinds, Packet, AfterGet, Servable

\* What nobody has looked at is still something a cache may hold.
LEMMA UncheckedType ==
  \A kind \in Cacheable : Unchecked(kind) \in Kinds \ {"bogus"} /\ Fresh(Unchecked(kind)) \in Entry
  BY DEF Cacheable, Unchecked, Kinds, Fresh, Entry

\* What the chain follower caches leaves the response cache a cache.
LEMMA ChainType ==
  ASSUME main \in Tier, NEW k, NEW kind
  PROVE  AfterChain(k, kind) \in Tier
  BY UncheckedType DEF AfterChain, Tier

\* An entry whose deadline passes is still an entry.
LEMMA ExpiredTypes ==
  ASSUME NEW tier \in Tier, NEW k \in Keys, tier[k] # NoEntry
  PROVE  [tier EXCEPT ![k].live = FALSE] \in Tier
<1>1. tier[k] \in Entry
  BY DEF Tier
<1>2. [tier[k] EXCEPT !.live = FALSE] \in Entry
  BY <1>1 DEF Entry
<1> QED
  BY <1>2 DEF Tier

\* A promotion leaves the hot tier a cache.
LEMMA PromotedType ==
  ASSUME hot \in Tier, NEW k, NEW kind \in Kinds
  PROVE  \A h \in Promoted(k, kind) : h \in Tier
  BY TierTypes DEF Promoted, Tier

\* try_cache_hit keeps the type of every variable, at both of its call sites.
LEMMA CacheHitType ==
  ASSUME TypeOK, NEW t \in Tasks, NEW hit \in PCs, NEW miss \in PCs,
         CacheHit(t, hit, miss)
  PROVE  TypeOK'
<1> DEFINE k == key[t]
<1>1. k \in Keys /\ main \in Tier /\ hot \in Tier
  BY DEF TypeOK, Tier
<1>2. main' \in Tier
  BY <1>1, TierTypes DEF CacheHit
<1>3. packet' \in [Tasks -> Packet] /\ hot' \in Tier
  <2>1. CASE Servable(main, k, frozen[k])
    <3>1. main[k].kind \in Kinds
      BY <2>1, <1>1, TierTypes
    <3>2. packet' \in [Tasks -> Packet]
      BY <2>1, <3>1, TierTypes DEF CacheHit, TypeOK
    <3>3. hot' \in Promoted(k, main[k].kind)
      BY <2>1 DEF CacheHit
    <3> QED
      BY <1>1, <3>1, <3>2, <3>3, PromotedType
  <2>2. CASE ~Servable(main, k, frozen[k])
    BY <2>2, <1>1 DEF CacheHit, TypeOK
  <2> QED
    BY <2>1, <2>2
<1>4. pc' \in [Tasks -> PCs]
  BY DEF CacheHit, TypeOK, Goto
<1> QED
  BY <1>2, <1>3, <1>4 DEF CacheHit, TypeOK, Tier

\* Every step keeps the type of every variable of the query path.
THEOREM TypeCorrect == Spec => []TypeOK
<1>1. Init => TypeOK
  <2> SUFFICES ASSUME Init PROVE TypeOK
    OBVIOUS
  <2>1. main \in [Keys -> Entry \cup {NoEntry}]
    BY TierTypes DEF Init, Kinds
  <2>2. key \in [Tasks -> Keys]
    BY KeysAssumption DEF Init
  <2> QED
    BY <2>1, <2>2 DEF Init, TypeOK, PCs, Packet
<1>2. TypeOK /\ [Next]_vars => TypeOK'
  <2> SUFFICES ASSUME TypeOK, [Next]_vars PROVE TypeOK'
    OBVIOUS
  <2>0. main \in Tier /\ hot \in Tier
    BY DEF TypeOK, Tier
  <2>1. ASSUME NEW t \in Tasks, TaskStep(t) PROVE TypeOK'
    <3>1. CASE Receive(t)
      <4>1. PICK k \in Asked, r \in Requests :
              /\ key' = [key EXCEPT ![t] = k]
              /\ cd' = [cd EXCEPT ![t] = r.cd]
              /\ allowed' = [allowed EXCEPT ![t] = r.allowed]
              /\ Goto(t, IF r.cd THEN "resolve" ELSE "gate")
        BY <3>1 DEF Receive
      <4>2. k \in Keys /\ r.cd \in BOOLEAN /\ r.allowed \in BOOLEAN
        BY KeysAssumption, RequestTypes
      <4>3. pc' \in [Tasks -> PCs]
        BY <4>1, GotoType, Labels DEF TypeOK
      <4>4. key' \in [Tasks -> Keys]
        BY <4>1, <4>2 DEF TypeOK
      <4>5. cd' \in [Tasks -> BOOLEAN] /\ allowed' \in [Tasks -> BOOLEAN]
        BY <4>1, <4>2 DEF TypeOK
      <4> QED
        BY <3>1, <4>3, <4>4, <4>5 DEF Receive, caches, TypeOK
    <3>2. CASE Gate(t)
      BY <3>2 DEF Gate, Goto, caches, locals, TypeOK, PCs
    <3>3. CASE TryBad(t)
      <4>1. pc' \in [Tasks -> PCs]
        BY <3>3, GotoType, Labels DEF TryBad, TypeOK
      <4>2. packet' \in [Tasks -> Packet]
        BY <3>3 DEF TryBad, Packet, TypeOK
      <4> QED
        BY <3>3, <4>1, <4>2 DEF TryBad, caches, TypeOK
    <3>4. CASE TryHot(t)
      <4>1. pc' \in [Tasks -> PCs]
        BY <3>4, GotoType, Labels DEF TryHot, TypeOK
      <4>2. key[t] \in Keys
        BY DEF TypeOK
      <4>3. hot' \in Tier
        BY <2>0, <3>4, <4>2, TierTypes DEF TryHot
      <4>4. packet' \in [Tasks -> Packet]
        <5>1. CASE Servable(hot, key[t], frozen[key[t]])
          <6>1. hot[key[t]].kind \in Packet
            BY <2>0, <4>2, <5>1, TierTypes
          <6> QED
            BY <3>4, <5>1, <6>1 DEF TryHot, TypeOK
        <5>2. CASE ~Servable(hot, key[t], frozen[key[t]])
          BY <3>4, <5>2 DEF TryHot, TypeOK
        <5> QED
          BY <5>1, <5>2
      <4> QED
        BY <3>4, <4>1, <4>3, <4>4 DEF TryHot, TypeOK, Tier
    <3>5. CASE TryMain(t)
      BY <3>5, CacheHitType DEF TryMain, PCs
    <3>6. CASE RegisterOrWait(t)
      <4>1. pc' \in [Tasks -> PCs]
        BY <3>6, GotoType, Labels DEF RegisterOrWait, TypeOK
      <4>2. inflight' \in [Keys -> Tasks \cup {Free, Dropped}]
        BY <3>6 DEF RegisterOrWait, TypeOK
      <4>3. owner' \in [Tasks -> BOOLEAN]
        BY <3>6 DEF RegisterOrWait, TypeOK
      <4>4. handle' \in [Tasks -> Tasks \cup {Free, Dropped}]
        BY <3>6 DEF RegisterOrWait, TypeOK
      <4> QED
        BY <3>6, <4>1, <4>2, <4>3, <4>4 DEF RegisterOrWait, caches, TypeOK
    <3>7. CASE Subscribe(t)
      BY <3>7 DEF Subscribe, Goto, caches, locals, TypeOK, PCs
    <3>8. CASE Recheck(t)
      BY <3>8, CacheHitType DEF Recheck, PCs
    <3>9. CASE ResolveUncached(t)
      <4>1. pc' \in [Tasks -> PCs]
        BY <3>9, GotoType, Labels DEF ResolveUncached, Conclude, TypeOK
      <4>2. packet' \in [Tasks -> Packet]
        BY <3>9 DEF ResolveUncached, Conclude, Packet, TypeOK
      <4> QED
        BY <3>9, <4>1, <4>2 DEF ResolveUncached, caches, TypeOK
    <3>10. CASE UpstreamAnswers(t)
      <4>1. pc' \in [Tasks -> PCs]
        BY <3>10, GotoType, Labels DEF UpstreamAnswers, TypeOK
      <4>2. packet' \in [Tasks -> Packet]
        BY <3>10 DEF UpstreamAnswers, Packet, TypeOK
      <4>3. main' \in Tier
        BY <2>0, <3>10, ChainType DEF UpstreamAnswers
      <4> QED
        BY <3>10, <4>1, <4>2, <4>3 DEF UpstreamAnswers, TypeOK, Tier
    <3>11. CASE UpstreamsExhausted(t)
      <4>1. pc' \in [Tasks -> PCs]
        BY <3>11, GotoType, Labels DEF UpstreamsExhausted, Conclude, TypeOK
      <4>2. key[t] \in Keys
        BY DEF TypeOK
      <4>3. main[key[t]] # NoEntry => main[key[t]].kind \in Packet
        BY <2>0, <4>2, TierTypes
      <4>4. packet' \in [Tasks -> Packet]
        BY <3>11, <4>3 DEF UpstreamsExhausted, Conclude, Packet, TypeOK
      <4> QED
        BY <3>11, <4>1, <4>4 DEF UpstreamsExhausted, caches, TypeOK
    <3>12. CASE Store(t)
      <4>1. pc' \in [Tasks -> PCs]
        BY <3>12, GotoType, Labels DEF Store, Conclude, TypeOK
      <4>2. main' \in Tier
        BY <2>0, <3>12, TierTypes DEF Store, Tier, Kinds
      <4>3. bad' \in [Keys -> BOOLEAN] /\ packet' \in [Tasks -> Packet]
        BY <3>12 DEF Store, Conclude, Packet, TypeOK
      <4> QED
        BY <3>12, <4>1, <4>2, <4>3 DEF Store, TypeOK, Tier
    <3>13. CASE FinishInflight(t)
      BY <3>13 DEF FinishInflight, Goto, caches, locals, TypeOK, PCs
    <3>14. CASE NotifyWaiters(t)
      BY <3>14 DEF NotifyWaiters, caches, TypeOK, PCs
    <3>15. CASE SkipPrefetch(t)
      BY <3>15 DEF SkipPrefetch, Goto, caches, locals, TypeOK, PCs
    <3>16. CASE PrefetchRule(t)
      <4>1. pc' \in [Tasks -> PCs]
        BY <3>16, GotoType, Labels DEF PrefetchRule, TypeOK
      <4>2. Sibling[key[t]] \in Keys
        BY <3>16, KeysAssumption DEF PrefetchRule, TypeOK
      <4>3. main' \in Tier /\ hot' \in Tier
        BY <2>0, <3>16, <4>2, TierTypes DEF PrefetchRule
      <4> QED
        BY <3>16, <4>1, <4>3 DEF PrefetchRule, locals, TypeOK, Tier
    <3>17. CASE PrefetchAnswers(t)
      <4>1. pc' \in [Tasks -> PCs]
        BY <3>17, GotoType, Labels DEF PrefetchAnswers, TypeOK
      <4>2. fetched' \in [Tasks -> Packet]
        BY <3>17 DEF PrefetchAnswers, Cacheable, Packet, TypeOK
      <4>3. main' \in Tier
        BY <2>0, <3>17, ChainType DEF PrefetchAnswers
      <4> QED
        BY <3>17, <4>1, <4>2, <4>3 DEF PrefetchAnswers, TypeOK, Tier
    <3>18. CASE PrefetchStore(t)
      <4>1. pc' \in [Tasks -> PCs]
        BY <3>18, GotoType, Labels DEF PrefetchStore, TypeOK
      <4>2a. Fresh("answer") \in Entry
        BY TierTypes DEF Kinds
      <4>2b. main' \in Tier
        BY <2>0, <3>18, <4>2a DEF PrefetchStore, Tier
      <4>2. bad' \in [Keys -> BOOLEAN]
        BY <3>18 DEF PrefetchStore, TypeOK
      <4>3. hot' \in Tier
        BY <2>0, <3>18, PromotedType DEF PrefetchStore, Kinds
      <4>4. fetched' \in [Tasks -> Packet]
        BY <3>18 DEF PrefetchStore, TypeOK, Packet
      <4> QED
        BY <3>18, <4>1, <4>2, <4>2b, <4>3, <4>4 DEF PrefetchStore, TypeOK, Tier
    <3>19. CASE Reply(t)
      BY <3>19 DEF Reply, Forget, Goto, caches, TypeOK, PCs, Packet
    <3>20. CASE Cancel(t)
      BY <3>20 DEF Cancel, Forget, Goto, caches, TypeOK, PCs, Packet
    <3> QED
      BY <2>1, <3>1, <3>2, <3>3, <3>4, <3>5, <3>6, <3>7, <3>8, <3>9, <3>10, <3>11, <3>12, <3>13, <3>14, <3>15, <3>16, <3>17, <3>18, <3>19, <3>20
         DEF TaskStep
  <2>2. ASSUME NEW k \in Keys,
               ExpireMain(k) \/ ExpireHot(k) \/ ExpireBad(k) \/ EvictHot(k)
                 \/ ClearCache(k) \/ SetFreeze(k) \/ PrefetchTarget(k)
        PROVE  TypeOK'
    <3>1. CASE ExpireMain(k)
      BY <3>1, ExpiredTypes, <2>0 DEF ExpireMain, caches, locals, TypeOK, Tier
    <3>2. CASE ExpireHot(k)
      BY <3>2, ExpiredTypes, <2>0 DEF ExpireHot, caches, locals, TypeOK, Tier
    <3>3. CASE ExpireBad(k)
      BY <3>3 DEF ExpireBad, caches, locals, TypeOK
    <3>4. CASE EvictHot(k)
      BY <3>4 DEF EvictHot, caches, locals, TypeOK
    <3>5. CASE ClearCache(k)
      BY <3>5 DEF ClearCache, caches, locals, TypeOK
    <3>6. CASE SetFreeze(k)
      BY <3>6 DEF SetFreeze, caches, locals, TypeOK
    <3>7. CASE PrefetchTarget(k)
      <4>1. PICK kind \in Cacheable :
              /\ main' = [main EXCEPT ![k] = Fresh(Unchecked(kind))]
              /\ hot' = IF Servable(hot, k, FALSE)
                        THEN [hot EXCEPT ![k] = Fresh(Unchecked(kind))]
                        ELSE AfterGet(hot, k, FALSE)
        BY <3>7 DEF PrefetchTarget
      <4>2. Fresh(Unchecked(kind)) \in Entry
        BY UncheckedType
      <4>3. main' \in Tier /\ [hot EXCEPT ![k] = Fresh(Unchecked(kind))] \in Tier
        BY <2>0, <4>1, <4>2 DEF Tier
      <4>4. hot' \in Tier
        BY <2>0, <4>1, <4>3, TierTypes
      <4> QED
        BY <3>7, <4>3, <4>4 DEF PrefetchTarget, locals, TypeOK, Tier
    <3> QED
      BY <2>2, <3>1, <3>2, <3>3, <3>4, <3>5, <3>6, <3>7
  <2>3. CASE UNCHANGED vars
    BY <2>3 DEF vars, TypeOK
  <2> QED
    BY <2>1, <2>2, <2>3 DEF Next, World
<1> QED
  BY <1>1, <1>2, PTL DEF Spec
-----------------------------------------------------------------------------
(* Ownership.  InflightOwned is not inductive alone: that only the owner    *)
(* removes the entry needs to know who owns, and in which stages.           *)

OwnerStages ==
  \A t \in Tasks :
    /\ owner[t] => pc[t] \in Owning \cup {"notify"}
    /\ pc[t] \in {"finish", "notify"} => owner[t]

OwnedInv == OwnerStages /\ InflightOwned /\ WaitersHaveNotifier

\* A step of t that leaves the table, the handles and the ownership alone.
LEMMA QuietStep ==
  ASSUME TypeOK, OwnedInv, NEW t \in Tasks, NEW l \in PCs, Goto(t, l),
         UNCHANGED <<inflight, key, owner, handle>>,
         owner[t] => pc[t] \in Owning /\ l \in Owning,
         ~owner[t] => l \notin {"finish", "notify"},
         pc[t] \in {"handle", "waiting"} => l \in {"handle", "waiting"}
  PROVE  OwnedInv'
<1> USE DEF Goto, TypeOK, OwnedInv, Owning
<1>1. OwnerStages'
  BY DEF OwnerStages
<1>2. InflightOwned'
  BY DEF InflightOwned, Holds
<1>3. WaitersHaveNotifier'
  BY DEF WaitersHaveNotifier
<1> QED
  BY <1>1, <1>2, <1>3

\* Every step of a query keeps the table, the handles and the owners in agreement:
\* register_or_wait, finish_inflight and a cancellation are the only ones to touch them.
LEMMA OwnedStep ==
  ASSUME TypeOK, OwnedInv, NEW t \in Tasks, TaskStep(t)
  PROVE  OwnedInv'
<1> USE Labels
<1>0. /\ owner[t] => pc[t] \in {"resolve", "fetch", "store", "finish", "notify"}
      /\ pc[t] \in {"finish", "notify"} => owner[t]
      /\ \A u \in Tasks : handle[u] = t \/ handle[t] = u =>
           u # t /\ pc[t] \in Owning \cup {"notify", "handle", "waiting"}
  BY DEF OwnedInv, OwnerStages, WaitersHaveNotifier, Owning
<1>1. CASE Receive(t)
  <2>1. PICK k \in Asked, l \in {"resolve", "gate"} :
          key' = [key EXCEPT ![t] = k] /\ Goto(t, l)
    BY <1>1 DEF Receive
  <2>2. UNCHANGED <<inflight, owner, handle>> /\ pc[t] = "idle" /\ ~owner[t]
    BY <1>0, <1>1 DEF Receive
  <2>3. OwnerStages'
    BY <2>1, <2>2 DEF OwnedInv, OwnerStages, Goto, TypeOK, Owning
  <2>4. InflightOwned'
    BY <2>1, <2>2 DEF OwnedInv, InflightOwned, Holds, Goto, TypeOK, Owning
  <2>5. WaitersHaveNotifier'
    BY <2>1, <2>2 DEF OwnedInv, WaitersHaveNotifier, Goto, TypeOK, Owning
  <2> QED
    BY <2>3, <2>4, <2>5 DEF OwnedInv
<1>2. CASE Gate(t)
  BY <1>0, <1>2, QuietStep DEF Gate, locals
<1>3. CASE TryBad(t)
  BY <1>0, <1>3, QuietStep DEF TryBad
<1>4. CASE TryHot(t)
  BY <1>0, <1>4, QuietStep DEF TryHot
<1>5. CASE TryMain(t)
  BY <1>0, <1>5, QuietStep DEF TryMain, CacheHit
<1>6. CASE RegisterOrWait(t)
  <2> DEFINE k == key[t]
  <2>0. k \in Keys /\ pc[t] = "register" /\ ~owner[t] /\ key' = key
    BY <1>0, <1>6 DEF RegisterOrWait, TypeOK
  <2>1. CASE inflight[k] = Free
    <3>1. /\ inflight' = [inflight EXCEPT ![k] = t]
          /\ owner' = [owner EXCEPT ![t] = TRUE]
          /\ Goto(t, "resolve")
          /\ handle' = handle
      BY <1>6, <2>1 DEF RegisterOrWait
    <3>2. OwnerStages'
      BY <2>0, <3>1 DEF OwnedInv, OwnerStages, Goto, TypeOK, Owning
    <3>3. InflightOwned'
      BY <2>0, <2>1, <3>1, TasksAssumption
         DEF OwnedInv, InflightOwned, Holds, Goto, TypeOK, Owning
    <3>4. WaitersHaveNotifier'
      BY <2>0, <3>1 DEF OwnedInv, WaitersHaveNotifier, Goto, TypeOK, Owning
    <3> QED
      BY <3>2, <3>3, <3>4 DEF OwnedInv
  <2>2. CASE inflight[k] # Free
    <3>1. /\ handle' = [handle EXCEPT ![t] = inflight[k]]
          /\ Goto(t, "handle")
          /\ UNCHANGED <<inflight, owner>>
      BY <1>6, <2>2 DEF RegisterOrWait
    <3>2. OwnerStages'
      BY <2>0, <3>1 DEF OwnedInv, OwnerStages, Goto, TypeOK, Owning
    <3>3. InflightOwned'
      BY <2>0, <3>1 DEF OwnedInv, InflightOwned, Holds, Goto, TypeOK, Owning
    <3>4. \A u \in Tasks : inflight[k] = u =>
            u # t /\ owner[u] /\ pc[u] \in Owning /\ key[u] = k
      BY <2>0 DEF OwnedInv, InflightOwned, Holds, Owning
    <3>5. WaitersHaveNotifier'
      BY <2>0, <3>1, <3>4 DEF OwnedInv, WaitersHaveNotifier, Goto, TypeOK, Owning
    <3> QED
      BY <3>2, <3>3, <3>5 DEF OwnedInv
  <2> QED
    BY <2>1, <2>2
<1>7. CASE Subscribe(t)
  BY <1>0, <1>7, QuietStep DEF Subscribe, locals
<1>8. CASE Recheck(t)
  BY <1>0, <1>8, QuietStep DEF Recheck, CacheHit
<1>9. CASE ResolveUncached(t)
  BY <1>0, <1>9, QuietStep DEF ResolveUncached, Conclude, Owning
<1>10. CASE UpstreamAnswers(t)
  BY <1>0, <1>10, QuietStep DEF UpstreamAnswers, Owning
<1>11. CASE UpstreamsExhausted(t)
  BY <1>0, <1>11, QuietStep DEF UpstreamsExhausted, Conclude, Owning
<1>12. CASE Store(t)
  BY <1>0, <1>12, QuietStep DEF Store, Conclude, Owning
<1>13. CASE FinishInflight(t)
  <2>1. /\ pc[t] = "finish" /\ owner[t]
        /\ inflight' = [inflight EXCEPT ![key[t]] = Free]
        /\ Goto(t, "notify")
        /\ UNCHANGED <<key, owner, handle>>
    BY <1>0, <1>13 DEF FinishInflight, locals
  <2>2. OwnerStages'
    BY <2>1 DEF OwnedInv, OwnerStages, Goto, TypeOK, Owning
  <2>3. InflightOwned'
    BY <2>1, TasksAssumption DEF OwnedInv, InflightOwned, Holds, Goto, TypeOK, Owning
  <2>4. WaitersHaveNotifier'
    BY <2>1 DEF OwnedInv, WaitersHaveNotifier, Goto, TypeOK, Owning
  <2> QED
    BY <2>2, <2>3, <2>4 DEF OwnedInv
<1>14. CASE NotifyWaiters(t)
  <2>1. /\ pc[t] = "notify" /\ owner[t]
        /\ pc' = [u \in Tasks |->
                    IF u = t THEN "reply"
                    ELSE IF pc[u] = "waiting" /\ handle[u] = t THEN "woken"
                    ELSE pc[u]]
        /\ handle' = [u \in Tasks |-> IF handle[u] = t THEN Dropped ELSE handle[u]]
        /\ owner' = [owner EXCEPT ![t] = FALSE]
        /\ UNCHANGED <<inflight, key>>
    BY <1>0, <1>14 DEF NotifyWaiters
  <2>2. OwnerStages'
    BY <2>1 DEF OwnedInv, OwnerStages, TypeOK, Owning
  <2>3. InflightOwned'
    BY <2>1 DEF OwnedInv, OwnerStages, InflightOwned, Holds, TypeOK, Owning
  <2>4. WaitersHaveNotifier'
    BY <2>1, TasksAssumption DEF OwnedInv, WaitersHaveNotifier, TypeOK, Owning
  <2> QED
    BY <2>2, <2>3, <2>4 DEF OwnedInv
<1>15. CASE SkipPrefetch(t)
  BY <1>0, <1>15, QuietStep DEF SkipPrefetch, locals
<1>16. CASE PrefetchRule(t)
  BY <1>0, <1>16, QuietStep DEF PrefetchRule, locals
<1>17. CASE PrefetchAnswers(t)
  BY <1>0, <1>17, QuietStep DEF PrefetchAnswers
<1>18. CASE PrefetchStore(t)
  BY <1>0, <1>18, QuietStep DEF PrefetchStore, locals
<1>19. CASE Reply(t)
  <2>1. /\ pc[t] = "reply" /\ ~owner[t]
        /\ Goto(t, "idle")
        /\ handle' = [handle EXCEPT ![t] = Free]
        /\ owner' = [owner EXCEPT ![t] = FALSE]
        /\ UNCHANGED <<inflight, key>>
    BY <1>0, <1>19 DEF Reply, Forget
  <2>2. OwnerStages'
    BY <2>1 DEF OwnedInv, OwnerStages, Goto, TypeOK, Owning
  <2>3. InflightOwned'
    BY <2>1 DEF OwnedInv, InflightOwned, Holds, Goto, TypeOK, Owning
  <2>4. WaitersHaveNotifier'
    BY <2>1, TasksAssumption DEF OwnedInv, WaitersHaveNotifier, Goto, TypeOK, Owning
  <2> QED
    BY <2>2, <2>3, <2>4 DEF OwnedInv
<1>20. CASE Cancel(t)
  <2>1. /\ pc[t] \notin {"finish", "notify"}
        /\ Goto(t, "idle")
        /\ inflight' = [k \in Keys |-> IF inflight[k] = t THEN Dropped ELSE inflight[k]]
        /\ handle' = [u \in Tasks |->
                         IF u = t THEN Free
                         ELSE IF handle[u] = t THEN Dropped ELSE handle[u]]
        /\ owner' = [owner EXCEPT ![t] = FALSE]
        /\ key' = key
    BY <1>20 DEF Cancel, Forget, AwaitPoints
  <2>2. OwnerStages'
    BY <2>1 DEF OwnedInv, OwnerStages, Goto, TypeOK, Owning
  <2>3. InflightOwned'
    BY <2>1, TasksAssumption DEF OwnedInv, InflightOwned, Holds, Goto, TypeOK, Owning
  <2>4. WaitersHaveNotifier'
    BY <2>1, TasksAssumption DEF OwnedInv, WaitersHaveNotifier, Goto, TypeOK, Owning
  <2> QED
    BY <2>2, <2>3, <2>4 DEF OwnedInv
<1> QED
  BY <1>1, <1>2, <1>3, <1>4, <1>5, <1>6, <1>7, <1>8, <1>9, <1>10, <1>11, <1>12,
     <1>13, <1>14, <1>15, <1>16, <1>17, <1>18, <1>19, <1>20 DEF TaskStep

\* The world's steps do not reach the table or the queries.
LEMMA OwnedWorld ==
  ASSUME OwnedInv, World \/ UNCHANGED vars
  PROVE  OwnedInv'
<1>1. UNCHANGED <<inflight, pc, key, owner, handle>>
  BY DEF World, ExpireMain, ExpireHot, ExpireBad, EvictHot, ClearCache,
         SetFreeze, PrefetchTarget, locals, vars
<1> QED
  BY <1>1 DEF OwnedInv, OwnerStages, InflightOwned, WaitersHaveNotifier, Holds

\* The in-flight table, the owners and the waiters agree in every reachable
\* state; the strengthening the theorems below are read off.
THEOREM OwnedInvariant == Spec => [](TypeOK /\ OwnedInv)
<1>1. Init => OwnedInv
  BY TasksAssumption DEF Init, OwnedInv, OwnerStages, InflightOwned,
     WaitersHaveNotifier, Holds, Owning
<1>2. TypeOK /\ OwnedInv /\ [Next]_vars => OwnedInv'
  BY OwnedStep, OwnedWorld DEF Next
<1> QED
  BY <1>1, <1>2, TypeCorrect, PTL DEF Spec

\* No key ever has two owners, and an entry always names its owner.
THEOREM EntriesOwned == Spec => []InflightOwned
<1>1. OwnedInv => InflightOwned
  BY DEF OwnedInv
<1> QED
  BY <1>1, OwnedInvariant, PTL

\* A waiter on a living owner's Notify is still going to be notified.
THEOREM WaitersNotified == Spec => []WaitersHaveNotifier
<1>1. OwnedInv => WaitersHaveNotifier
  BY DEF OwnedInv
<1> QED
  BY <1>1, OwnedInvariant, PTL
-----------------------------------------------------------------------------
(* Validation.  An answer that validation rejects lives only in the hands   *)
(* of a query that is about to validate it or that has the CD bit; what     *)
(* nobody validated, only under the keys of cached chains.                  *)

\* What a cache may hold for a key.
Clean(k) == {kind \in {"answer", "unvalidated"} : kind = "answer" \/ k \in ChainCached}

SoundTier(tier) == \A k \in Keys : tier[k] # NoEntry => tier[k].kind \in Clean(k)

Held ==
  \A t \in Tasks :
    /\ packet[t] = "bogus" => pc[t] # "idle" /\ (cd[t] \/ pc[t] = "store")
    /\ packet[t] = "unvalidated" => pc[t] # "idle" /\ key[t] \in ChainCached

ValidInv == SoundTier(main) /\ SoundTier(hot) /\ Held

\* A sound cache stays one under a lookup, an insert of what it may hold and a
\* removal, and a lookup returns what it may hold.
LEMMA SoundOps ==
  ASSUME NEW tier \in Tier, SoundTier(tier), NEW k \in Keys
  PROVE  /\ \A f : SoundTier(AfterGet(tier, k, f))
         /\ \A kind \in Clean(k) : SoundTier([tier EXCEPT ![k] = Fresh(kind)])
         /\ SoundTier([tier EXCEPT ![k] = NoEntry])
         /\ \A f : Servable(tier, k, f) => tier[k].kind \in Clean(k)
  BY DEF Tier, SoundTier, AfterGet, Fresh, Servable

\* Expiry does not change what an entry holds.
LEMMA SoundExpiry ==
  ASSUME NEW tier \in Tier, SoundTier(tier), NEW k \in Keys, tier[k] # NoEntry
  PROVE  SoundTier([tier EXCEPT ![k].live = FALSE])
<1>1. tier[k] \in Entry /\ tier[k].kind \in Clean(k)
  BY DEF Tier, SoundTier
<1>2. [tier[k] EXCEPT !.live = FALSE].kind \in Clean(k)
  BY <1>1 DEF Entry
<1> QED
  BY <1>2 DEF Tier, SoundTier

\* A validated answer may be cached anywhere, an unchecked one only under the
\* key of a cached chain.
LEMMA CleanKinds ==
  /\ \A k : "answer" \in Clean(k)
  /\ \A k \in ChainCached, kind \in Cacheable : Unchecked(kind) \in Clean(k)
  /\ \A k, kind : kind \in Clean(k) =>
       kind # "bogus" /\ (kind = "unvalidated" => k \in ChainCached)
  BY DEF Clean, Unchecked, Cacheable

\* A chain that is cached on the way leaves the response cache sound.
LEMMA SoundChain ==
  ASSUME main \in Tier, SoundTier(main), NEW k, NEW kind
  PROVE  SoundTier(AfterChain(k, kind))
  BY SoundOps, CleanKinds, SwitchesAssumption DEF AfterChain

\* A step that moves a task past the caches, with what its key may hold.
LEMMA HeldStep ==
  ASSUME TypeOK, Held, NEW t \in Tasks, NEW l \in PCs \ {"idle"}, Goto(t, l),
         UNCHANGED <<key, cd>>,
         \/ packet' = packet /\ (packet[t] = "bogus" => cd[t] \/ pc[t] # "store")
         \/ \E p \in Clean(key[t]) \cup (Packet \ {"bogus", "unvalidated"}) :
              packet' = [packet EXCEPT ![t] = p]
  PROVE  Held'
<1>1. \A u \in Tasks \ {t} : pc'[u] = pc[u] /\ packet'[u] = packet[u]
  BY DEF Goto, TypeOK
<1>2. pc'[t] = l
  BY DEF Goto, TypeOK
<1>3. /\ packet'[t] = "bogus" => cd[t]
      /\ packet'[t] = "unvalidated" => key[t] \in ChainCached
  <2>1. CASE packet' = packet /\ (packet[t] = "bogus" => cd[t] \/ pc[t] # "store")
    BY <2>1 DEF Held
  <2>2. CASE \E p \in Clean(key[t]) \cup (Packet \ {"bogus", "unvalidated"}) :
               packet' = [packet EXCEPT ![t] = p]
    <3>1. PICK p \in Clean(key[t]) \cup (Packet \ {"bogus", "unvalidated"}) :
            packet' = [packet EXCEPT ![t] = p]
      BY <2>2
    <3>2. packet'[t] = p
      BY <3>1 DEF TypeOK
    <3>3. p # "bogus" /\ (p = "unvalidated" => key[t] \in ChainCached)
      BY <3>1 DEF Clean
    <3> QED
      BY <3>2, <3>3
  <2> QED
    BY <2>1, <2>2
<1> QED
  BY <1>1, <1>2, <1>3 DEF Held

\* A cache hit in a sound cache serves what the key may hold.
LEMMA SoundHit ==
  ASSUME TypeOK, ValidInv, NEW t \in Tasks, NEW hit \in PCs \ {"idle"},
         NEW miss \in PCs \ {"idle"}, CacheHit(t, hit, miss), pc[t] # "store"
  PROVE  ValidInv'
<1> DEFINE k == key[t]
<1>0. k \in Keys /\ main \in Tier /\ hot \in Tier /\ UNCHANGED <<key, cd>>
  BY DEF TypeOK, Tier, CacheHit
<1>1. SoundTier(main')
  BY <1>0, SoundOps DEF CacheHit, ValidInv
<1>2. CASE Servable(main, k, frozen[k])
  <2>1. main[k].kind \in Clean(k)
    BY <1>0, <1>2, SoundOps DEF ValidInv
  <2>2. SoundTier(hot')
    <3>1. hot' \in {hot, [hot EXCEPT ![k] = Fresh(main[k].kind)]}
      BY <1>2 DEF CacheHit, Promoted
    <3>2. SoundTier([hot EXCEPT ![k] = Fresh(main[k].kind)])
      BY <1>0, <2>1, SoundOps DEF ValidInv
    <3> QED
      BY <3>1, <3>2 DEF ValidInv
  <2>3. packet' = [packet EXCEPT ![t] = main[k].kind] /\ Goto(t, hit)
    BY <1>2 DEF CacheHit
  <2>4. Held'
    BY <1>0, <2>1, <2>3, HeldStep DEF ValidInv
  <2> QED
    BY <1>1, <2>2, <2>4 DEF ValidInv, SoundTier
<1>3. CASE ~Servable(main, k, frozen[k])
  <2>1. hot' = hot /\ packet' = packet /\ Goto(t, miss)
    BY <1>3 DEF CacheHit
  <2>2. Held'
    BY <1>0, <2>1, HeldStep DEF ValidInv
  <2> QED
    BY <1>1, <2>1, <2>2 DEF ValidInv, SoundTier
<1> QED
  BY <1>2, <1>3

\* No step of a query caches what validation rejects but unvalidated under the
\* key of a cached chain, or hands it to a query that wants validation.
LEMMA ValidStep ==
  ASSUME TypeOK, ValidInv, NEW t \in Tasks, TaskStep(t)
  PROVE  ValidInv'
<1>0. /\ main \in Tier /\ hot \in Tier /\ key[t] \in Keys
      /\ SoundTier(main) /\ SoundTier(hot) /\ Held
  BY DEF TypeOK, Tier, ValidInv
<1>s. ASSUME SoundTier(main'), SoundTier(hot'), Held' PROVE ValidInv'
  BY <1>s DEF ValidInv, SoundTier
<1>q. ASSUME NEW l \in PCs \ {"idle"}, Goto(t, l), UNCHANGED <<main, key, cd>>,
             SoundTier(hot'),
             \/ packet' = packet /\ pc[t] # "store"
             \/ \E p \in Clean(key[t]) \cup (Packet \ {"bogus", "unvalidated"}) :
                  packet' = [packet EXCEPT ![t] = p]
      PROVE  ValidInv'
  <2>1. Held'
    BY <1>0, <1>q, HeldStep
  <2> QED
    BY <1>0, <1>q, <1>s, <2>1
<1>p. {"servfail", "refused", "error"} \subseteq Packet \ {"bogus", "unvalidated"}
  BY DEF Packet
<1>1. CASE Receive(t)
  <2>1. UNCHANGED <<main, hot, packet>> /\ pc[t] = "idle"
    BY <1>1 DEF Receive, caches
  <2>2. Held'
    BY <1>0, <1>1, <2>1 DEF Receive, Goto, Held, TypeOK
  <2> QED
    BY <1>0, <1>s, <2>1, <2>2
<1>2. CASE Gate(t)
  <2>1. PICK l \in {"bad", "resolve"} : Goto(t, l)
    BY <1>2 DEF Gate
  <2> QED
    BY <1>0, <1>2, <1>q, <2>1, Labels DEF Gate, caches, locals
<1>3. CASE TryBad(t)
  BY <1>0, <1>3, <1>p, <1>q, Labels DEF TryBad, caches
<1>4. CASE TryHot(t)
  <2>1. SoundTier(hot') /\ UNCHANGED <<main, key, cd>>
    BY <1>0, <1>4, SoundOps DEF TryHot
  <2>2. CASE Servable(hot, key[t], frozen[key[t]])
    <3>1. hot[key[t]].kind \in Clean(key[t])
      BY <1>0, <2>2, SoundOps
    <3> QED
      BY <1>4, <1>q, <2>1, <2>2, <3>1, Labels DEF TryHot
  <2>3. CASE ~Servable(hot, key[t], frozen[key[t]])
    BY <1>4, <1>q, <2>1, <2>3, Labels DEF TryHot
  <2> QED
    BY <2>2, <2>3
<1>5. CASE TryMain(t)
  BY <1>5, SoundHit, Labels DEF TryMain
<1>6. CASE RegisterOrWait(t)
  <2>1. PICK l \in {"resolve", "handle"} : Goto(t, l)
    BY <1>6 DEF RegisterOrWait
  <2> QED
    BY <1>0, <1>6, <1>q, <2>1, Labels DEF RegisterOrWait, caches
<1>7. CASE Subscribe(t)
  BY <1>0, <1>7, <1>q, Labels DEF Subscribe, caches, locals
<1>8. CASE Recheck(t)
  BY <1>8, SoundHit, Labels DEF Recheck
<1>9. CASE ResolveUncached(t)
  <2>1. UNCHANGED <<main, hot, key, cd>> /\ pc[t] = "resolve"
    BY <1>9 DEF ResolveUncached, caches
  <2>2. CASE Goto(t, "fetch") /\ UNCHANGED packet
    BY <1>0, <1>q, <2>1, <2>2, Labels
  <2>3. CASE Conclude(t, "refused")
    <3>1. PICK l \in {"finish", "reply"} : Goto(t, l)
      BY <2>3 DEF Conclude
    <3> QED
      BY <1>0, <1>p, <1>q, <2>1, <2>3, <3>1, Labels DEF Conclude
  <2> QED
    BY <1>9, <2>2, <2>3 DEF ResolveUncached
<1>10. CASE UpstreamAnswers(t)
  <2>1. SoundTier(main') /\ UNCHANGED <<hot, key, cd>>
    BY <1>0, <1>10, SoundChain DEF UpstreamAnswers
  <2>2. Held'
    BY <1>0, <1>10, <2>1 DEF UpstreamAnswers, Goto, Held, TypeOK
  <2> QED
    BY <1>0, <1>s, <2>1, <2>2
<1>11. CASE UpstreamsExhausted(t)
  <2>1. PICK p \in Clean(key[t]) \cup {"error"} : Conclude(t, p)
    BY <1>0, <1>11 DEF UpstreamsExhausted, SoundTier
  <2>2. PICK l \in {"finish", "reply"} : Goto(t, l)
    BY <2>1 DEF Conclude
  <2> QED
    BY <1>0, <1>11, <1>p, <1>q, <2>1, <2>2, Labels DEF UpstreamsExhausted, Conclude, caches
<1>12. CASE Store(t)
  <2>1. SoundTier(main') /\ UNCHANGED <<hot, key, cd>>
    BY <1>0, <1>12, SoundOps, CleanKinds DEF Store
  <2>2. PICK l \in {"finish", "reply"} : Goto(t, l)
    BY <1>12 DEF Store, Conclude
  <2>3. CASE packet[t] = "bogus" /\ ~cd[t]
    <3>1. packet' = [packet EXCEPT ![t] = "servfail"]
      BY <1>12, <2>3 DEF Store, Conclude
    <3>2. Held'
      BY <1>0, <1>p, <2>1, <2>2, <3>1, HeldStep, Labels
    <3> QED
      BY <1>0, <1>s, <2>1, <3>2
  <2>4. CASE ~(packet[t] = "bogus" /\ ~cd[t])
    <3>1. packet' = packet
      BY <1>12, <2>4 DEF Store, Conclude, TypeOK
    <3>2. Held'
      BY <1>0, <2>1, <2>2, <2>4, <3>1, HeldStep, Labels
    <3> QED
      BY <1>0, <1>s, <2>1, <3>2
  <2> QED
    BY <2>3, <2>4
<1>13. CASE FinishInflight(t)
  BY <1>0, <1>13, <1>q, Labels DEF FinishInflight, caches, locals
<1>14. CASE NotifyWaiters(t)
  <2>1. UNCHANGED <<main, hot, key, cd, packet>>
    BY <1>14 DEF NotifyWaiters, caches
  <2>2. Held'
    BY <1>0, <1>14, <2>1 DEF NotifyWaiters, Held, TypeOK
  <2> QED
    BY <1>0, <1>s, <2>1, <2>2
<1>15. CASE SkipPrefetch(t)
  BY <1>0, <1>15, <1>q, Labels DEF SkipPrefetch, caches, locals
<1>16. CASE PrefetchRule(t)
  <2>1. Sibling[key[t]] \in Keys
    BY <1>0, <1>16, KeysAssumption DEF PrefetchRule
  <2>2. SoundTier(main') /\ SoundTier(hot') /\ UNCHANGED <<key, cd, packet>>
    BY <1>0, <1>16, <2>1, SoundOps DEF PrefetchRule, locals
  <2>3. PICK l \in {"prefetch", "reply"} : Goto(t, l)
    BY <1>16 DEF PrefetchRule
  <2>4. Held'
    BY <1>0, <1>16, <2>2, <2>3, HeldStep, Labels DEF PrefetchRule
  <2> QED
    BY <1>s, <2>2, <2>4
<1>17. CASE PrefetchAnswers(t)
  <2>1. SoundTier(main')
    BY <1>0, <1>17, SoundChain DEF PrefetchAnswers
  <2>2. UNCHANGED <<hot, key, cd, packet>> /\ pc[t] = "prefetch"
    BY <1>17 DEF PrefetchAnswers
  <2>3. PICK l \in {"prestore", "reply"} : Goto(t, l)
    BY <1>17 DEF PrefetchAnswers
  <2>4. Held'
    BY <1>0, <2>2, <2>3, HeldStep, Labels
  <2> QED
    BY <1>0, <1>s, <2>1, <2>2, <2>4
<1>18. CASE PrefetchStore(t)
  <2>1. UNCHANGED <<key, cd, packet>> /\ pc[t] = "prestore"
    BY <1>18 DEF PrefetchStore
  <2>2. SoundTier(main') /\ SoundTier(hot')
    <3>1. CASE Sibling[key[t]] \in Keys
      <4> DEFINE s == Sibling[key[t]]
      <4>1. /\ SoundTier([main EXCEPT ![s] = Fresh("answer")])
            /\ SoundTier([hot EXCEPT ![s] = Fresh("answer")])
        BY <1>0, <3>1, SoundOps, CleanKinds
      <4>2. /\ main' \in {main, [main EXCEPT ![s] = Fresh("answer")]}
            /\ hot' \in {hot, [hot EXCEPT ![s] = Fresh("answer")]}
        BY <1>18 DEF PrefetchStore, Promoted
      <4> QED
        BY <1>0, <4>1, <4>2
    <3>2. CASE Sibling[key[t]] \notin Keys
      <4>1. \A e : [main EXCEPT ![Sibling[key[t]]] = e] = main
        BY <1>0, <3>2 DEF Tier
      <4>2. \A e : [hot EXCEPT ![Sibling[key[t]]] = e] = hot
        BY <1>0, <3>2 DEF Tier
      <4> QED
        BY <1>0, <1>18, <4>1, <4>2 DEF PrefetchStore, Promoted
    <3> QED
      BY <3>1, <3>2
  <2>3. Held'
    BY <1>0, <1>18, <2>1, HeldStep, Labels DEF PrefetchStore
  <2> QED
    BY <1>s, <2>2, <2>3
<1>19. CASE Reply(t)
  <2>1. Held' /\ UNCHANGED <<main, hot>>
    BY <1>0, <1>19 DEF Reply, Forget, Goto, caches, Held, TypeOK
  <2> QED
    BY <1>0, <1>s, <2>1
<1>20. CASE Cancel(t)
  <2>1. Held' /\ UNCHANGED <<main, hot>>
    BY <1>0, <1>20 DEF Cancel, Forget, Goto, caches, Held, TypeOK
  <2> QED
    BY <1>0, <1>s, <2>1
<1> QED
  BY <1>1, <1>2, <1>3, <1>4, <1>5, <1>6, <1>7, <1>8, <1>9, <1>10, <1>11, <1>12,
     <1>13, <1>14, <1>15, <1>16, <1>17, <1>18, <1>19, <1>20 DEF TaskStep

\* Nor do expiry, eviction, cache clearing and freezing; a target prefetch
\* stores unvalidated only under the key of a cached chain.
LEMMA ValidWorld ==
  ASSUME TypeOK, ValidInv, World \/ UNCHANGED vars
  PROVE  ValidInv'
<1>0. main \in Tier /\ hot \in Tier /\ SoundTier(main) /\ SoundTier(hot) /\ Held
  BY DEF TypeOK, Tier, ValidInv
<1>1. UNCHANGED <<pc, key, cd, packet>>
  BY DEF World, ExpireMain, ExpireHot, ExpireBad, EvictHot, ClearCache, SetFreeze,
         PrefetchTarget, locals, vars
<1>2. SoundTier(main') /\ SoundTier(hot')
  <2>1. ASSUME NEW k \in Keys, ExpireMain(k) PROVE SoundTier(main') /\ SoundTier(hot')
    BY <1>0, <2>1, SoundExpiry DEF ExpireMain
  <2>2. ASSUME NEW k \in Keys, ExpireHot(k) PROVE SoundTier(main') /\ SoundTier(hot')
    BY <1>0, <2>2, SoundExpiry DEF ExpireHot
  <2>3. ASSUME NEW k \in Keys, EvictHot(k) \/ ClearCache(k)
        PROVE  SoundTier(main') /\ SoundTier(hot')
    BY <1>0, <2>3, SoundOps DEF EvictHot, ClearCache
  <2>4. ASSUME NEW k \in Keys, ExpireBad(k) \/ SetFreeze(k)
        PROVE  SoundTier(main') /\ SoundTier(hot')
    BY <1>0, <2>4 DEF ExpireBad, SetFreeze, caches
  <2>5. ASSUME NEW k \in Keys, PrefetchTarget(k)
        PROVE  SoundTier(main') /\ SoundTier(hot')
    <3>1. PICK kind \in Clean(k) :
            /\ main' = [main EXCEPT ![k] = Fresh(kind)]
            /\ hot' = IF Servable(hot, k, FALSE) THEN [hot EXCEPT ![k] = Fresh(kind)]
                      ELSE AfterGet(hot, k, FALSE)
      BY <2>5, CleanKinds DEF PrefetchTarget
    <3> QED
      BY <1>0, <3>1, SoundOps
  <2>6. CASE UNCHANGED vars
    BY <1>0, <2>6 DEF vars
  <2> QED
    BY <2>1, <2>2, <2>3, <2>4, <2>5, <2>6 DEF World
<1> QED
  BY <1>0, <1>1, <1>2 DEF ValidInv, SoundTier, Held

\* A query that wants validation gets what validation rejects only out of a
\* cache, under the key of a chain that was cached before it was validated:
\* whatever is frozen, stale, promoted, cancelled or asked with the CD bit.
THEOREM ValidatedOnly == Spec => []OnlyValidatedServed
<1>1. Init => ValidInv
  BY DEF Init, ValidInv, SoundTier, Held, Fresh, Clean
<1>2. TypeOK /\ ValidInv /\ [Next]_vars => ValidInv'
  BY ValidStep, ValidWorld DEF Next
<1>3. ValidInv => OnlyValidatedServed
  BY DEF ValidInv, Held, OnlyValidatedServed
<1> QED
  BY <1>1, <1>2, <1>3, TypeCorrect, PTL DEF Spec
-----------------------------------------------------------------------------
(* The in-flight table implements the lease per key.                        *)

\* Every step of the query path takes, gives back or leaves behind at most one
\* lease, or leaves the leases alone.
LEMMA LeaseStep ==
  ASSUME TypeOK, OwnedInv, [Next]_vars
  PROVE  [Lease!Next]_inflight
<1>1. ASSUME NEW t \in Tasks, RegisterOrWait(t)
      PROVE  [Lease!Next]_inflight
  <2>1. key[t] \in Keys
    BY DEF TypeOK
  <2>2. CASE inflight[key[t]] = Free
    <3>1. inflight' = [inflight EXCEPT ![key[t]] = t]
      BY <1>1, <2>2 DEF RegisterOrWait
    <3>2. \A j \in Keys : inflight[j] # t
      BY <1>1 DEF RegisterOrWait, OwnedInv, InflightOwned, Holds, Owning
    <3> QED
      BY <2>1, <2>2, <3>1, <3>2 DEF Lease!Next, Lease!Take
  <2>3. CASE inflight[key[t]] # Free
    BY <1>1, <2>3 DEF RegisterOrWait
  <2> QED
    BY <2>2, <2>3
<1>2. ASSUME NEW t \in Tasks, FinishInflight(t)
      PROVE  [Lease!Next]_inflight
  <2>1. /\ key[t] \in Keys
        /\ inflight[key[t]] = t
        /\ inflight' = [inflight EXCEPT ![key[t]] = Free]
    BY <1>2 DEF FinishInflight, TypeOK, OwnedInv, OwnerStages, InflightOwned, Holds, Owning
  <2> QED
    BY <2>1 DEF Lease!Next, Lease!GiveBack
<1>3. ASSUME NEW t \in Tasks, Cancel(t)
      PROVE  [Lease!Next]_inflight
  <2>1. inflight' = [k \in Keys |-> IF inflight[k] = t THEN Dropped ELSE inflight[k]]
    BY <1>3 DEF Cancel
  <2>2. CASE \E k \in Keys : inflight[k] = t
    <3>1. PICK k \in Keys : inflight[k] = t
      BY <2>2
    <3>2. \A j \in Keys : inflight[j] = t => j = k
      BY <3>1 DEF OwnedInv, InflightOwned, Holds
    <3>3. inflight' = [inflight EXCEPT ![k] = Dropped]
      BY <2>1, <3>1, <3>2 DEF TypeOK
    <3> QED
      BY <3>1, <3>3 DEF Lease!Next, Lease!LeaveBehind
  <2>3. CASE ~ \E k \in Keys : inflight[k] = t
    BY <2>1, <2>3 DEF TypeOK
  <2> QED
    BY <2>2, <2>3
<1>4. ASSUME NEW t \in Tasks, TaskStep(t),
             ~RegisterOrWait(t), ~FinishInflight(t), ~Cancel(t)
      PROVE  inflight' = inflight
  BY <1>4 DEF TaskStep, Receive, Gate, TryBad, TryHot, TryMain, Recheck, CacheHit,
     Subscribe, ResolveUncached, UpstreamAnswers, UpstreamsExhausted, Store,
     NotifyWaiters, SkipPrefetch, PrefetchRule, PrefetchAnswers, PrefetchStore, Reply
<1>5. CASE World \/ UNCHANGED vars
  BY <1>5 DEF World, ExpireMain, ExpireHot, ExpireBad, EvictHot,
     ClearCache, SetFreeze, PrefetchTarget, vars
<1> QED
  BY <1>1, <1>2, <1>3, <1>4, <1>5 DEF Next

\* The query path implements a lease per key, whatever is cancelled when.
THEOREM ImplementsLease == Spec => LeaseSpec
<1>1. Init => Lease!Init
  BY DEF Init, Lease!Init
<1>2. TypeOK /\ OwnedInv /\ [Next]_vars => [Lease!Next]_inflight
  BY LeaseStep
<1> QED
  BY <1>1, <1>2, OwnedInvariant, PTL DEF Spec, LeaseSpec, Lease!Spec
-----------------------------------------------------------------------------
(* Queries with the CD bit.                                                 *)

CdStages == {"resolve", "fetch", "store", "reply"}
CdInv == \A t \in Tasks : cd[t] /\ pc[t] # "idle" => pc[t] \in CdStages /\ ~owner[t]

\* A query with the CD bit visits no cache and no in-flight entry on its way.
LEMMA CdStep ==
  ASSUME TypeOK, OwnedInv, CdInv, NEW t \in Tasks, TaskStep(t)
  PROVE  CdInv'
<1>0. /\ pc \in [Tasks -> PCs] /\ cd \in [Tasks -> BOOLEAN] /\ owner \in [Tasks -> BOOLEAN]
      /\ cd[t] /\ pc[t] # "idle" => pc[t] \in CdStages /\ ~owner[t]
      /\ pc[t] = "idle" => ~owner[t]
  BY DEF TypeOK, CdInv, OwnedInv, OwnerStages, Owning
<1>1. ASSUME UNCHANGED <<cd, owner>>, NEW l \in PCs, Goto(t, l),
             cd[t] => l \in CdStages
      PROVE  CdInv'
  BY <1>0, <1>1 DEF Goto, CdInv
<1>2. CASE Receive(t)
  <2>1. PICK k \in Asked, r \in Requests :
          /\ cd' = [cd EXCEPT ![t] = r.cd] /\ owner' = owner /\ pc[t] = "idle"
          /\ pc' = [pc EXCEPT ![t] = IF r.cd THEN "resolve" ELSE "gate"]
    BY <1>2 DEF Receive, Goto
  <2> QED
    BY <1>0, <2>1 DEF CdInv, CdStages
<1>3. CASE Gate(t) \/ TryBad(t) \/ TryHot(t) \/ TryMain(t) \/ Recheck(t) \/ Subscribe(t)
           \/ SkipPrefetch(t) \/ PrefetchRule(t) \/ PrefetchAnswers(t) \/ PrefetchStore(t)
  <2>1. ~cd[t]
    BY <1>0, <1>3 DEF Gate, TryBad, TryHot, TryMain, Recheck, Subscribe, SkipPrefetch,
       PrefetchRule, PrefetchAnswers, PrefetchStore, CdStages
  <2>2. UNCHANGED <<cd, owner>> /\ \E l \in PCs : Goto(t, l)
    BY <1>3, Labels DEF Gate, TryBad, TryHot, TryMain, Recheck, CacheHit, Subscribe,
       SkipPrefetch, PrefetchRule, PrefetchAnswers, PrefetchStore, locals
  <2> QED
    BY <1>1, <2>1, <2>2
<1>4. CASE RegisterOrWait(t)
  <2>1. ~cd[t] /\ cd' = cd
    BY <1>0, <1>4 DEF RegisterOrWait, CdStages
  <2>2. \A u \in Tasks \ {t} : pc'[u] = pc[u] /\ owner'[u] = owner[u]
    BY <1>0, <1>4 DEF RegisterOrWait, Goto
  <2> QED
    BY <2>1, <2>2 DEF CdInv
<1>5. CASE ResolveUncached(t) \/ UpstreamAnswers(t) \/ UpstreamsExhausted(t) \/ Store(t)
  <2>1. UNCHANGED <<cd, owner>>
    BY <1>5 DEF ResolveUncached, UpstreamAnswers, UpstreamsExhausted, Store
  <2>2. \/ Goto(t, "fetch") \/ Goto(t, "store")
        \/ Goto(t, IF owner[t] THEN "finish" ELSE "reply")
    BY <1>5 DEF ResolveUncached, UpstreamAnswers, UpstreamsExhausted, Store, Conclude
  <2>3. cd[t] => ~owner[t]
    BY <1>0, <1>5 DEF ResolveUncached, UpstreamAnswers, UpstreamsExhausted, Store
  <2> QED
    BY <1>1, <2>1, <2>2, <2>3, Labels DEF CdStages
<1>6. CASE FinishInflight(t)
  <2>1. ~cd[t] /\ UNCHANGED <<cd, owner>> /\ Goto(t, "notify")
    BY <1>0, <1>6 DEF FinishInflight, CdStages, locals
  <2> QED
    BY <1>1, <2>1, Labels
<1>7. CASE NotifyWaiters(t)
  <2>1. ~cd[t] /\ cd' = cd
    BY <1>0, <1>7 DEF NotifyWaiters, CdStages
  <2>2. \A u \in Tasks \ {t} : owner'[u] = owner[u] /\ (pc'[u] = pc[u] \/ pc[u] = "waiting")
    BY <1>0, <1>7 DEF NotifyWaiters
  <2> QED
    BY <2>1, <2>2 DEF CdInv, CdStages
<1>8. CASE Reply(t) \/ Cancel(t)
  <2>1. Forget(t)
    BY <1>8 DEF Reply, Cancel
  <2> QED
    BY <1>0, <2>1 DEF Forget, Goto, CdInv
<1> QED
  BY <1>2, <1>3, <1>4, <1>5, <1>6, <1>7, <1>8 DEF TaskStep

\* A query with the CD bit stays off the caches in every reachable state.
LEMMA CdInvariant == Spec => []CdInv
<1>1. Init => CdInv
  BY DEF Init, CdInv
<1>2. TypeOK /\ OwnedInv /\ CdInv /\ [Next]_vars => CdInv'
  <2> SUFFICES ASSUME TypeOK, OwnedInv, CdInv, [Next]_vars PROVE CdInv'
    OBVIOUS
  <2>1. CASE World \/ UNCHANGED vars
    <3>1. UNCHANGED <<pc, cd, owner>>
      BY <2>1 DEF World, ExpireMain, ExpireHot, ExpireBad, EvictHot, ClearCache,
         SetFreeze, PrefetchTarget, locals, vars
    <3> QED
      BY <3>1 DEF CdInv
  <2> QED
    BY <2>1, CdStep DEF Next
<1> QED
  BY <1>1, <1>2, OwnedInvariant, PTL DEF Spec

\* A query with the CD bit leaves no trace but what the chain follower caches.
THEOREM CdTraceless == Spec => CdLeavesNoTrace
<1>1. TypeOK /\ OwnedInv /\ CdInv /\ [Next]_vars =>
        [\A t \in Tasks : cd[t] /\ pc[t] # "idle" /\ pc'[t] # pc[t]
           => /\ UNCHANGED <<hot, bad, inflight>>
              /\ main' # main => pc[t] = "fetch" /\ key[t] \in ChainCached]_vars
  <2> SUFFICES ASSUME TypeOK, OwnedInv, CdInv, Next, NEW t \in Tasks,
                      cd[t], pc[t] # "idle", pc'[t] # pc[t]
               PROVE  /\ UNCHANGED <<hot, bad, inflight>>
                      /\ main' # main => pc[t] = "fetch" /\ key[t] \in ChainCached
    OBVIOUS
  <2>0. pc[t] \in CdStages /\ ~owner[t] /\ pc \in [Tasks -> PCs]
    BY DEF CdInv, TypeOK
  <2>1. PICK u \in Tasks : TaskStep(u)
    BY DEF Next, World, ExpireMain, ExpireHot, ExpireBad, EvictHot, ClearCache,
       SetFreeze, PrefetchTarget
  <2>2. u = t
    <3>1. CASE NotifyWaiters(u)
      BY <2>0, <3>1 DEF NotifyWaiters, CdStages
    <3>2. CASE ~NotifyWaiters(u)
      <4>1. \E l : Goto(u, l)
        BY <2>1, <3>2 DEF TaskStep, Receive, Gate, TryBad, TryHot, TryMain, CacheHit,
           RegisterOrWait, Subscribe, Recheck, ResolveUncached, UpstreamAnswers,
           UpstreamsExhausted, Store, Conclude, FinishInflight, SkipPrefetch,
           PrefetchRule, PrefetchAnswers, PrefetchStore, Reply, Cancel, Forget
      <4> QED
        BY <2>0, <4>1 DEF Goto
    <3> QED
      BY <3>1, <3>2
  <2>3. ResolveUncached(t) \/ UpstreamAnswers(t) \/ UpstreamsExhausted(t) \/ Store(t)
          \/ Reply(t) \/ Cancel(t)
    BY <2>0, <2>1, <2>2 DEF TaskStep, Receive, Gate, TryBad, TryHot, TryMain,
       RegisterOrWait, Subscribe, Recheck, FinishInflight, NotifyWaiters, SkipPrefetch,
       PrefetchRule, PrefetchAnswers, PrefetchStore, CdStages
  <2>4. CASE ResolveUncached(t) \/ UpstreamsExhausted(t) \/ Reply(t)
    BY <2>4 DEF ResolveUncached, UpstreamsExhausted, Reply, caches
  <2>5. CASE UpstreamAnswers(t)
    BY <2>5 DEF UpstreamAnswers, AfterChain
  <2>6. CASE Store(t)
    BY <2>6 DEF Store
  <2>7. CASE Cancel(t)
    <3>1. \A k \in Keys : inflight[k] # t
      BY <2>0 DEF OwnedInv, InflightOwned, Holds
    <3> QED
      BY <2>7, <3>1 DEF Cancel, caches, TypeOK
  <2> QED
    BY <2>3, <2>4, <2>5, <2>6, <2>7
<1> QED
  BY <1>1, CdInvariant, OwnedInvariant, PTL DEF Spec, CdLeavesNoTrace
=============================================================================
