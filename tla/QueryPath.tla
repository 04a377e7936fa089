----------------------------- MODULE QueryPath -----------------------------
(***************************************************************************)
(* The cached tail of Resolver::resolve_with_view: the freshness gate, the *)
(* DNSSEC bad cache, the hot tier, the shared response cache, the in-flight*)
(* table with its owner and its waiters, the upstream resolution and the   *)
(* store that ends it, and the sibling prefetch a hit can trigger.         *)
(*                                                                         *)
(* A task is one query being served.  Every lock-protected operation of    *)
(* the code is one action, so tasks interleave between any two of them,    *)
(* and a task that waits on the network may be cancelled there (a DoH      *)
(* handler is dropped when its client goes away).                          *)
(*                                                                         *)
(* A packet is its kind: what the properties tell apart is whether DNSSEC  *)
(* validation would reject it (keys are those of queries with the DO bit,  *)
(* the only ones that are validated).  "live" says that the deadline of a  *)
(* cache entry lies ahead, so time is the actions that end it.             *)
(***************************************************************************)

CONSTANTS
  Keys,        \* cache keys: (qname, qtype, DO)
  Asked,       \* the keys clients ask for; the others are only prefetched
  NoKey,       \* no sibling
  Sibling,     \* the A key of an AAAA key and back, NoKey for other types
  Tasks,       \* queries being served
  Free,        \* no in-flight entry
  Dropped,     \* a Notify whose owner is gone: nobody will ever signal it
  NoEntry,     \* nothing cached
  Requests,    \* what a query asks for: its CD bit, its view's recursion
  ChainCached, \* keys of the types whose CNAME chains are followed and cached
  CanCancel,   \* whether a waiting task may be dropped
  CanFreeze    \* whether the operator toggles TTL freezing

ASSUME KeysAssumption ==
  /\ NoKey \notin Keys
  /\ Asked \subseteq Keys
  /\ Sibling \in [Keys -> Keys \cup {NoKey}]

ASSUME TasksAssumption ==
  /\ Free \notin Tasks
  /\ Dropped \notin Tasks
  /\ Free # Dropped

ASSUME RequestsAssumption ==
  Requests \subseteq [cd : BOOLEAN, allowed : BOOLEAN]

ASSUME SwitchesAssumption ==
  /\ ChainCached \subseteq Keys
  /\ CanCancel \in BOOLEAN
  /\ CanFreeze \in BOOLEAN

VARIABLES
  main,       \* Resolver.cache, shared by successive resolvers
  hot,        \* Resolver.hot_cache
  bad,        \* Resolver.bad_cache: keys with a live DNSSEC failure
  frozen,     \* is_cache_ttl_frozen_for_qname
  inflight,   \* InFlightQueries.map: key -> the task whose Notify it holds
  pc, key, cd, allowed, owner, handle, packet, fetched   \* one query each

caches == <<main, hot, bad>>
locals == <<key, cd, allowed, owner, handle, packet, fetched>>
vars == <<main, hot, bad, frozen, inflight, pc, key, cd, allowed, owner, handle,
          packet, fetched>>

\* What a query holds: an answer, an answer that is not cacheable, one that
\* DNSSEC validation rejects, such a one from a cache that got it before it was
\* validated, SERVFAIL, REFUSED, or an error (nothing yet).
Packet == {"answer", "uncacheable", "bogus", "unvalidated", "servfail", "refused", "error"}

\* What may sit in a cache.
Kinds == {"answer", "bogus", "unvalidated"}
Entry == [kind : Kinds, live : BOOLEAN]
Fresh(kind) == [kind |-> kind, live |-> TRUE]

\* What an upstream says that may be cached, and what it is when nobody looks.
Cacheable == {"answer", "bogus"}
Unchecked(kind) == IF kind = "bogus" THEN "unvalidated" ELSE kind

PCs == {"idle", "gate", "bad", "hot", "main", "register", "handle", "waiting",
        "woken", "resolve", "fetch", "store", "finish", "notify", "rule",
        "prefetch", "prestore", "reply"}

\* Where the code awaits and a dropped future therefore stops.
AwaitPoints == {"waiting", "fetch", "store", "prefetch", "prestore"}

\* ResponseCache::get: an expired entry is only served under a frozen TTL...
Servable(tier, k, freeze) ==
  tier[k] # NoEntry /\ (tier[k].live \/ freeze)

\* ... and is removed by the lookup that meets it otherwise.
AfterGet(tier, k, freeze) ==
  IF Servable(tier, k, freeze) THEN tier ELSE [tier EXCEPT ![k] = NoEntry]

\* promote_hot_cache_if_popular: the sketch estimate decides.
Promoted(k, kind) == {hot, [hot EXCEPT ![k] = Fresh(kind)]}

\* The cname follower caches the chain it has resolved, before validation and
\* whatever the CD bit.
AfterChain(k, kind) ==
  IF k \in ChainCached /\ kind \in Cacheable
  THEN [main EXCEPT ![k] = Fresh(Unchecked(kind))] ELSE main

Goto(t, l) == pc' = [pc EXCEPT ![t] = l]

\* resolve_uncached returns: an owner still has to give its entry back.
Conclude(t, p) ==
  /\ packet' = [packet EXCEPT ![t] = p]
  /\ Goto(t, IF owner[t] THEN "finish" ELSE "reply")
-----------------------------------------------------------------------------
Init ==
  /\ main \in [Keys -> {NoEntry, Fresh("answer")}]   \* a reload keeps the cache
  /\ hot = [k \in Keys |-> NoEntry]
  /\ bad = [k \in Keys |-> FALSE]
  /\ frozen = [k \in Keys |-> FALSE]
  /\ inflight = [k \in Keys |-> Free]
  /\ pc = [t \in Tasks |-> "idle"]
  /\ key \in [Tasks -> Asked]
  /\ cd = [t \in Tasks |-> FALSE]
  /\ allowed = [t \in Tasks |-> TRUE]
  /\ owner = [t \in Tasks |-> FALSE]
  /\ handle = [t \in Tasks |-> Free]
  /\ packet = [t \in Tasks |-> "error"]
  /\ fetched = [t \in Tasks |-> "error"]

\* A query reaches the cached tail.  One with the CD bit has no cache key.
Receive(t) ==
  /\ pc[t] = "idle"
  /\ \E k \in Asked, r \in Requests :
       /\ key' = [key EXCEPT ![t] = k]
       /\ cd' = [cd EXCEPT ![t] = r.cd]
       /\ allowed' = [allowed EXCEPT ![t] = r.allowed]
       /\ Goto(t, IF r.cd THEN "resolve" ELSE "gate")
  /\ UNCHANGED <<caches, frozen, inflight, owner, handle, packet, fetched>>

\* if self.cache.remaining_ttl(cache_key, false).is_some()
Gate(t) ==
  /\ pc[t] = "gate"
  /\ Goto(t, IF Servable(main, key[t], FALSE) THEN "bad" ELSE "resolve")
  /\ UNCHANGED <<caches, frozen, inflight, locals>>

TryBad(t) ==
  /\ pc[t] = "bad"
  /\ \/ /\ bad[key[t]]
        /\ packet' = [packet EXCEPT ![t] = "servfail"]
        /\ Goto(t, "reply")
     \/ /\ ~bad[key[t]]
        /\ Goto(t, "hot")
        /\ UNCHANGED packet
  /\ UNCHANGED <<caches, frozen, inflight, key, cd, allowed, owner, handle, fetched>>

TryHot(t) ==
  LET k == key[t] IN
  /\ pc[t] = "hot"
  /\ hot' = AfterGet(hot, k, frozen[k])
  /\ \/ /\ Servable(hot, k, frozen[k])
        /\ packet' = [packet EXCEPT ![t] = hot[k].kind]
        /\ Goto(t, "rule")
     \/ /\ ~Servable(hot, k, frozen[k])
        /\ Goto(t, "main")
        /\ UNCHANGED packet
  /\ UNCHANGED <<main, bad, frozen, inflight, key, cd, allowed, owner, handle, fetched>>

\* try_cache_hit, with the promotion it ends with; `hit` and `miss` are where
\* its two callers go on.
CacheHit(t, hit, miss) ==
  LET k == key[t] IN
  /\ main' = AfterGet(main, k, frozen[k])
  /\ \/ /\ Servable(main, k, frozen[k])
        /\ packet' = [packet EXCEPT ![t] = main[k].kind]
        /\ hot' \in Promoted(k, main[k].kind)
        /\ Goto(t, hit)
     \/ /\ ~Servable(main, k, frozen[k])
        /\ Goto(t, miss)
        /\ UNCHANGED <<hot, packet>>
  /\ UNCHANGED <<bad, frozen, inflight, key, cd, allowed, owner, handle, fetched>>

TryMain(t) == pc[t] = "main" /\ CacheHit(t, "rule", "register")

\* Mutant: a plain insert instead of the map's entry call.
RegisterOverwrites(t) ==
  /\ pc[t] = "register"
  /\ inflight' = [inflight EXCEPT ![key[t]] = t]
  /\ owner' = [owner EXCEPT ![t] = TRUE]
  /\ Goto(t, "resolve")
  /\ UNCHANGED <<caches, frozen, key, cd, allowed, handle, packet, fetched>>

\* register_or_wait: the map's get and its entry call decide the same way, so
\* the pair is one step.
RegisterOrWait(t) ==
  LET k == key[t] IN
  /\ pc[t] = "register"
  /\ \/ /\ inflight[k] = Free
        /\ inflight' = [inflight EXCEPT ![k] = t]
        /\ owner' = [owner EXCEPT ![t] = TRUE]
        /\ Goto(t, "resolve")
        /\ UNCHANGED handle
     \/ /\ inflight[k] # Free
        /\ handle' = [handle EXCEPT ![t] = inflight[k]]
        /\ Goto(t, "handle")
        /\ UNCHANGED <<inflight, owner>>
  /\ UNCHANGED <<caches, frozen, key, cd, allowed, packet, fetched>>

\* waiter.notified(): only from here on does notify_waiters reach the task.
Subscribe(t) ==
  /\ pc[t] = "handle"
  /\ Goto(t, "waiting")
  /\ UNCHANGED <<caches, frozen, inflight, locals>>

\* A woken waiter looks once more, and resolves by itself on a miss.
Recheck(t) == pc[t] = "woken" /\ CacheHit(t, "reply", "resolve")

\* Mutant: a view without recursion has no way out.
ResolveWithoutRefusal(t) ==
  /\ pc[t] = "resolve"
  /\ allowed[t] /\ Goto(t, "fetch") /\ UNCHANGED packet
  /\ UNCHANGED <<caches, frozen, inflight, key, cd, allowed, owner, handle, fetched>>

\* resolve_uncached begins: REFUSED without recursion, else to the upstreams.
ResolveUncached(t) ==
  /\ pc[t] = "resolve"
  /\ \/ allowed[t] /\ Goto(t, "fetch") /\ UNCHANGED packet
     \/ ~allowed[t] /\ Conclude(t, "refused")
  /\ UNCHANGED <<caches, frozen, inflight, key, cd, allowed, owner, handle, fetched>>

\* An upstream answers, and its CNAME chain is followed to the end.
UpstreamAnswers(t) ==
  /\ pc[t] = "fetch"
  /\ \E kind \in {"answer", "uncacheable", "bogus"} :
       /\ packet' = [packet EXCEPT ![t] = kind]
       /\ main' = AfterChain(key[t], kind)
  /\ Goto(t, "store")
  /\ UNCHANGED <<hot, bad, frozen, inflight, key, cd, allowed, owner, handle, fetched>>

\* Mutant: the error leaves through `?`, past finish_inflight.
ExhaustedReturnsEarly(t) ==
  /\ pc[t] = "fetch"
  /\ packet' = [packet EXCEPT ![t] = "error"]
  /\ Goto(t, "reply")
  /\ UNCHANGED <<caches, frozen, inflight, key, cd, allowed, owner, handle, fetched>>

\* Every upstream failed: serve-stale reads the entry whatever its age.  A
\* chain that loops or is too long ends the query without it.
UpstreamsExhausted(t) ==
  LET k == key[t]
      stale == IF ~cd[t] /\ main[k] # NoEntry THEN main[k].kind ELSE "error"
  IN
  /\ pc[t] = "fetch"
  /\ \E p \in {stale, "error"} : Conclude(t, p)
  /\ UNCHANGED <<caches, frozen, inflight, key, cd, allowed, owner, handle, fetched>>

\* Mutant: what a checking-disabled query fetched is cached like the rest.
StoreForgetsCd(t) ==
  LET k == key[t]
      p == packet[t]
      bogus == p = "bogus" /\ ~cd[t]
  IN
  /\ pc[t] = "store"
  /\ bad' = IF bogus THEN [bad EXCEPT ![k] = TRUE] ELSE bad
  /\ main' = IF p \in Cacheable /\ ~bogus THEN [main EXCEPT ![k] = Fresh(p)] ELSE main
  /\ Conclude(t, IF bogus THEN "servfail" ELSE p)
  /\ UNCHANGED <<hot, frozen, inflight, key, cd, allowed, owner, handle, fetched>>

\* validate_and_finalize_response, then the insert: a bogus answer becomes
\* SERVFAIL and enters the bad cache, unless CD asked for it as it is.
Store(t) ==
  LET k == key[t]
      p == packet[t]
      bogus == p = "bogus" /\ ~cd[t]
  IN
  /\ pc[t] = "store"
  /\ bad' = IF bogus THEN [bad EXCEPT ![k] = TRUE] ELSE bad
  /\ main' = IF p = "answer" /\ ~cd[t] THEN [main EXCEPT ![k] = Fresh(p)] ELSE main
  /\ Conclude(t, IF bogus THEN "servfail" ELSE p)
  /\ UNCHANGED <<hot, frozen, inflight, key, cd, allowed, owner, handle, fetched>>

\* finish_inflight, first half: self.inflight.map.remove(&cache_key)
FinishInflight(t) ==
  /\ pc[t] = "finish"
  /\ inflight' = [inflight EXCEPT ![key[t]] = Free]
  /\ Goto(t, "notify")
  /\ UNCHANGED <<caches, frozen, locals>>

\* Second half: notify.notify_waiters() reaches those that subscribed; a task
\* that only holds the handle has missed it.
NotifyWaiters(t) ==
  /\ pc[t] = "notify"
  /\ pc' = [u \in Tasks |->
              IF u = t THEN "reply"
              ELSE IF pc[u] = "waiting" /\ handle[u] = t THEN "woken"
              ELSE pc[u]]
  /\ handle' = [u \in Tasks |-> IF handle[u] = t THEN Dropped ELSE handle[u]]
  /\ owner' = [owner EXCEPT ![t] = FALSE]
  /\ UNCHANGED <<caches, frozen, inflight, key, cd, allowed, packet, fetched>>

\* maybe_prefetch_by_rule: TTL, popularity and budget may all say no; the
\* sibling is only fetched when neither tier has it.
SkipPrefetch(t) ==
  /\ pc[t] = "rule"
  /\ Goto(t, "reply")
  /\ UNCHANGED <<caches, frozen, inflight, locals>>

PrefetchRule(t) ==
  LET s == Sibling[key[t]] IN
  /\ pc[t] = "rule"
  /\ s # NoKey
  /\ main' = AfterGet(main, s, FALSE)
  /\ \/ /\ ~Servable(main, s, FALSE)
        /\ hot' = AfterGet(hot, s, FALSE)
        /\ Goto(t, IF Servable(hot, s, FALSE) THEN "reply" ELSE "prefetch")
     \/ /\ Servable(main, s, FALSE)
        /\ Goto(t, "reply")
        /\ UNCHANGED hot
  /\ UNCHANGED <<bad, frozen, inflight, locals>>

\* prefetch_once: the upstream of choice answers for the sibling, or fails,
\* which is ignored.
PrefetchAnswers(t) ==
  /\ pc[t] = "prefetch"
  /\ \/ /\ \E kind \in Cacheable :
            /\ fetched' = [fetched EXCEPT ![t] = kind]
            /\ main' = AfterChain(Sibling[key[t]], kind)
        /\ Goto(t, "prestore")
     \/ Goto(t, "reply") /\ UNCHANGED <<main, fetched>>
  /\ UNCHANGED <<hot, bad, frozen, inflight, key, cd, allowed, owner, handle, packet>>

\* Its second half: validate, insert, promote.
PrefetchStore(t) ==
  LET s == Sibling[key[t]] IN
  /\ pc[t] = "prestore"
  /\ \/ /\ fetched[t] = "answer"
        /\ main' = [main EXCEPT ![s] = Fresh("answer")]
        /\ hot' \in Promoted(s, "answer")
        /\ UNCHANGED bad
     \/ /\ fetched[t] = "bogus"
        /\ bad' = [bad EXCEPT ![s] = TRUE]
        /\ UNCHANGED <<main, hot>>
  /\ Goto(t, "reply")
  /\ fetched' = [fetched EXCEPT ![t] = "error"]
  /\ UNCHANGED <<frozen, inflight, key, cd, allowed, owner, handle, packet>>

\* The query's locals go with it.
Forget(t) ==
  /\ Goto(t, "idle")
  /\ packet' = [packet EXCEPT ![t] = "error"]
  /\ fetched' = [fetched EXCEPT ![t] = "error"]
  /\ cd' = [cd EXCEPT ![t] = FALSE]
  /\ allowed' = [allowed EXCEPT ![t] = TRUE]
  /\ owner' = [owner EXCEPT ![t] = FALSE]

Reply(t) ==
  /\ pc[t] = "reply"
  /\ Forget(t)
  /\ handle' = [handle EXCEPT ![t] = Free]
  /\ UNCHANGED <<caches, frozen, inflight, key>>

\* The future is dropped at an await: whatever it registered stays behind.
Cancel(t) ==
  /\ CanCancel
  /\ pc[t] \in AwaitPoints
  /\ Forget(t)
  /\ inflight' = [k \in Keys |-> IF inflight[k] = t THEN Dropped ELSE inflight[k]]
  /\ handle' = [u \in Tasks |->
                  IF u = t THEN Free
                  ELSE IF handle[u] = t THEN Dropped ELSE handle[u]]
  /\ UNCHANGED <<caches, frozen, key>>

TaskStep(t) ==
  \/ Receive(t) \/ Gate(t) \/ TryBad(t) \/ TryHot(t) \/ TryMain(t)
  \/ RegisterOrWait(t) \/ Subscribe(t) \/ Recheck(t) \/ ResolveUncached(t)
  \/ UpstreamAnswers(t) \/ UpstreamsExhausted(t) \/ Store(t)
  \/ FinishInflight(t) \/ NotifyWaiters(t)
  \/ SkipPrefetch(t) \/ PrefetchRule(t) \/ PrefetchAnswers(t) \/ PrefetchStore(t)
  \/ Reply(t) \/ Cancel(t)
-----------------------------------------------------------------------------
(* The world around the queries. *)

ExpireMain(k) ==
  /\ main[k] # NoEntry /\ main[k].live
  /\ main' = [main EXCEPT ![k].live = FALSE]
  /\ UNCHANGED <<hot, bad, frozen, inflight, pc, locals>>

ExpireHot(k) ==
  /\ hot[k] # NoEntry /\ hot[k].live
  /\ hot' = [hot EXCEPT ![k].live = FALSE]
  /\ UNCHANGED <<main, bad, frozen, inflight, pc, locals>>

ExpireBad(k) ==
  /\ bad[k]
  /\ bad' = [bad EXCEPT ![k] = FALSE]
  /\ UNCHANGED <<main, hot, frozen, inflight, pc, locals>>

\* POST /cache/clear/*: only the shared response cache is cleared.  Capacity
\* pressure of other keys removes an entry of it in the same way...
ClearCache(k) ==
  /\ main[k] # NoEntry
  /\ main' = [main EXCEPT ![k] = NoEntry]
  /\ UNCHANGED <<hot, bad, frozen, inflight, pc, locals>>

\* ... and one of the hot tier.
EvictHot(k) ==
  /\ hot[k] # NoEntry
  /\ hot' = [hot EXCEPT ![k] = NoEntry]
  /\ UNCHANGED <<main, bad, frozen, inflight, pc, locals>>

\* POST /cache/freeze/*: a name is frozen, and so the keys of all its types.
SetFreeze(k) ==
  /\ CanFreeze
  /\ frozen' = [j \in Keys |-> IF j \in {k, Sibling[k]} THEN ~frozen[k] ELSE frozen[j]]
  /\ UNCHANGED <<caches, inflight, pc, locals>>

\* spawn_prefetch_task: the chain of another name ended at this key, or passed
\* it.  The background task stores what its upstream says unvalidated, in the
\* hot tier too when that has the key.
PrefetchTarget(k) ==
  /\ k \in ChainCached
  /\ \E kind \in Cacheable :
       /\ main' = [main EXCEPT ![k] = Fresh(Unchecked(kind))]
       /\ hot' = IF Servable(hot, k, FALSE) THEN [hot EXCEPT ![k] = Fresh(Unchecked(kind))]
                 ELSE AfterGet(hot, k, FALSE)
  /\ UNCHANGED <<bad, frozen, inflight, pc, locals>>

World ==
  \E k \in Keys : ExpireMain(k) \/ ExpireHot(k) \/ ExpireBad(k) \/ ClearCache(k)
                  \/ EvictHot(k) \/ SetFreeze(k) \/ PrefetchTarget(k)

Next == (\E t \in Tasks : TaskStep(t)) \/ World

Spec == Init /\ [][Next]_vars

\* The runtime polls a ready task again, and the upstream client always comes
\* back: each attempt has a timeout.  Nothing forces a client to ask.
Progress(t) ==
  \/ Gate(t) \/ TryBad(t) \/ TryHot(t) \/ TryMain(t) \/ RegisterOrWait(t)
  \/ Subscribe(t) \/ Recheck(t) \/ ResolveUncached(t) \/ UpstreamAnswers(t)
  \/ UpstreamsExhausted(t) \/ Store(t) \/ FinishInflight(t) \/ NotifyWaiters(t)
  \/ SkipPrefetch(t) \/ PrefetchRule(t) \/ PrefetchAnswers(t)
  \/ PrefetchStore(t) \/ Reply(t)

FairSpec == Spec /\ \A t \in Tasks : WF_vars(Progress(t))
-----------------------------------------------------------------------------
\* The in-flight table keeps the promise of a lease per key.
Lease == INSTANCE KeyLease WITH lease <- inflight
LeaseSpec == Lease!Spec

\* Every variable of the query path keeps its type.
TypeOK ==
  /\ main \in [Keys -> Entry \cup {NoEntry}]
  /\ hot \in [Keys -> Entry \cup {NoEntry}]
  /\ bad \in [Keys -> BOOLEAN]
  /\ frozen \in [Keys -> BOOLEAN]
  /\ inflight \in [Keys -> Tasks \cup {Free, Dropped}]
  /\ pc \in [Tasks -> PCs]
  /\ key \in [Tasks -> Keys]
  /\ cd \in [Tasks -> BOOLEAN]
  /\ allowed \in [Tasks -> BOOLEAN]
  /\ owner \in [Tasks -> BOOLEAN]
  /\ handle \in [Tasks -> Tasks \cup {Free, Dropped}]
  /\ packet \in [Tasks -> Packet]
  /\ fetched \in [Tasks -> Packet]

\* The stages in which a task is registered as the owner of its key.
Owning == {"resolve", "fetch", "store", "finish"}
Holds(t, k) == owner[t] /\ pc[t] \in Owning /\ key[t] = k

\* The in-flight table and the tasks agree: an entry names the one task that
\* registered it and has yet to remove it, so no key ever has two owners, and
\* no owner's entry is taken away by another (register_or_wait against
\* finish_inflight, under every interleaving and cancellation).
InflightOwned ==
  \A k \in Keys, t \in Tasks : inflight[k] = t <=> Holds(t, k)

\* A task that waits on a Notify of a living owner is on the same key, and
\* that owner has its notify_waiters still ahead: only a handle whose owner is
\* gone can leave a waiter without a wake-up.
WaitersHaveNotifier ==
  \A w, t \in Tasks :
    handle[w] = t => /\ w # t
                     /\ key[w] = key[t]
                     /\ owner[t]
                     /\ pc[t] \in Owning \cup {"notify"}
                     /\ pc[w] \in {"handle", "waiting"}

\* A checking-disabled query never registers in the in-flight table, and what
\* it fetched unvalidated reaches no cache but through the chain follower,
\* however its steps interleave with others.
CdLeavesNoTrace ==
  [][\A t \in Tasks : cd[t] /\ pc[t] # "idle" /\ pc'[t] # pc[t]
       => /\ UNCHANGED <<hot, bad, inflight>>
          /\ main' # main => pc[t] = "fetch" /\ key[t] \in ChainCached]_vars

\* A query that wants validation is answered with what validation rejects only
\* out of a cache, of a key whose chains are cached, and from an entry that the
\* chain follower or a background prefetch made before any validation: never
\* with what it or another query asked for and stored itself, whether fresh,
\* stale, promoted, waited for or left by a query with the CD bit.
OnlyValidatedServed ==
  \A t \in Tasks : pc[t] = "reply" /\ ~cd[t] =>
    packet[t] # "bogus" /\ (packet[t] = "unvalidated" => key[t] \in ChainCached)

\* The same without that exception.
NothingRejectedServed ==
  \A t \in Tasks : pc[t] = "reply" /\ ~cd[t] => packet[t] \notin {"bogus", "unvalidated"}

\* Without cancellation an in-flight entry never outlives its query: every
\* path out of resolve_uncached, errors included, reaches finish_inflight.
InflightDrains ==
  \A k \in Keys : inflight[k] # Free ~> inflight[k] = Free

\* Every query that is not parked on a Notify is answered.
AnsweredUnlessParked ==
  \A t \in Tasks : pc[t] # "idle" ~> pc[t] \in {"idle", "waiting"}

\* Every query is answered, waiters included ("完成 in-flight 查询并通知等待者":
\* the owner's end reaches those who wait for it).
EveryQueryAnswered ==
  \A t \in Tasks : pc[t] # "idle" ~> pc[t] = "idle"

\* Two queries for one key never fetch it at the same time: the test
\* sharded_inflight_deduplicates_same_key_concurrent_queries counts one upstream
\* call for 24 concurrent queries of a cold name.
OneFetchPerKey ==
  \A t, u \in Tasks :
    /\ t # u /\ key[t] = key[u] /\ ~cd[t] /\ ~cd[u]
    /\ pc[t] = "fetch"
    => pc[u] # "fetch"
=============================================================================
