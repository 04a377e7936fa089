------------------------------ MODULE Service ------------------------------
(***************************************************************************)
(* The runtime state every ingress shares, AppState: the policy engine and *)
(* the resolver behind two independent pointers, the configuration file,   *)
(* the admin operations that edit the file and reload it, and the queries  *)
(* that are judged by the one pointer and resolved by the other.  Each     *)
(* policy engine has its own lock-free rate window for the client          *)
(* considered here; a reload puts a new engine with no window in its place.*)
(*                                                                         *)
(* No lock orders the admin operations: any number of them interleave at   *)
(* every access to the file and every swap.  Writing the file truncates it *)
(* first, and either step may fail.                                        *)
(*                                                                         *)
(* Left out: access lists, views and block lists, which read the engine    *)
(* and change nothing.                                                     *)
(***************************************************************************)
EXTENDS Integers, FiniteSets

CONSTANTS
  Queries, Editors,
  Good, Broken,    \* contents of the file that load, and that do not
  First,           \* what the service was started with
  Empty,           \* a truncated file: it loads, as the defaults
  Torn,            \* a text cut short, or two written over each other
  Nothing,
  Limit,           \* rate_limit_per_second
  LastSecond       \* bound of the clock

ASSUME FilesAssumption ==
  /\ First \in Good /\ Empty \in Good /\ Torn \subseteq Good \cup Broken
  /\ Good \cap Broken = {} /\ Nothing \notin Good \cup Broken
  /\ IsFiniteSet(Editors)
ASSUME RateAssumption ==
  Limit \in Nat \ {0} /\ LastSecond \in Nat /\ Nothing \notin 0..LastSecond

Files == Good \cup Broken
Engines == 0..Cardinality(Editors)   \* one per reload that succeeds
Seconds == 0..LastSecond

VARIABLES
  disk,        \* content of the configuration file
  policy,      \* the policy pointer: [cfg, engine]
  resolver,    \* the resolver pointer: its configuration
  editor,      \* per admin operation: [pc, want, old, loaded, failed, unwritten, alone]
  clock,       \* unix_now_secs
  start,       \* per engine: window_start, Nothing before the first query
  count,       \* per engine: the counter of the window
  grants,      \* per engine: queries let through in this second
  query,       \* per query: [pc, cfg, engine, now, seen, resolver, calm, mixed]
  \* History: never read by the operations.
  crossed,     \* the latest policy swap fell between the two swaps of another reload
  since,       \* per engine: of the grants, those since its counter was last zeroed
  forgets      \* per engine: times in this second the counter lost some of them

adminVars == <<disk, resolver, editor, crossed>>
rateVars == <<start, count, grants, since, forgets>>
serviceVars == <<adminVars, policy, clock, rateVars, query>>

ServiceInit ==
  /\ disk = First
  /\ policy = [cfg |-> First, engine |-> 0]
  /\ resolver = First
  /\ editor = [e \in Editors |->
       [pc |-> "idle", want |-> Nothing, old |-> Nothing, loaded |-> Nothing,
        failed |-> FALSE, unwritten |-> FALSE, alone |-> TRUE]]
  /\ crossed = FALSE
  /\ clock = 0
  /\ start = [g \in Engines |-> Nothing]
  /\ count = [g \in Engines |-> 0]
  /\ grants = [g \in Engines |-> 0]
  /\ since = [g \in Engines |-> 0]
  /\ forgets = [g \in Engines |-> 0]
  /\ query = [q \in Queries |->
       [pc |-> "idle", cfg |-> Nothing, engine |-> 0, now |-> 0, seen |-> 0,
        resolver |-> Nothing, calm |-> TRUE, mixed |-> FALSE]]
-----------------------------------------------------------------------------
(* Admin: reload_handler and apply_config_raw_and_reload *)

UnderWay(e) == editor[e].pc \notin {"idle", "done"}
Swapping == {e \in Editors : editor[e].pc = "swapResolver"}

\* An operation begins whatever else is under way; those it meets are not alone.
Begin(e, op) ==
  /\ editor[e].pc = "idle"
  /\ editor' = [f \in Editors |->
       IF f = e THEN [op EXCEPT !.alone = \A g \in Editors : ~UnderWay(g)]
       ELSE [editor[f] EXCEPT !.alone = @ /\ ~UnderWay(f)]]
  /\ UNCHANGED <<disk, policy, resolver, crossed, clock, rateVars, query>>

Reload(e) == Begin(e, [editor[e] EXCEPT !.pc = "load"])

\* The text has parsed and validated on its own; what it refers to may not load.
Edit(e) ==
  \E f \in Files \ {Empty} :
    Begin(e, [editor[e] EXCEPT !.pc = "truncate", !.want = f, !.old = disk])

Truncate(e) ==
  /\ editor[e].pc = "truncate"
  /\ disk' = Empty
  /\ editor' = [editor EXCEPT ![e].pc = "write"]
  /\ UNCHANGED <<policy, resolver, crossed, clock, rateVars, query>>

\* The new text, or on the way back the old one.
Text(e) == IF editor[e].failed THEN editor[e].old ELSE editor[e].want

\* Over what another operation has written meanwhile, the longer text shows.
Write(e) ==
  /\ editor[e].pc = "write"
  /\ disk' \in {Text(e)} \cup (IF disk = Empty THEN {} ELSE Torn)
  /\ editor' = [editor EXCEPT ![e].pc = "load"]
  /\ UNCHANGED <<policy, resolver, crossed, clock, rateVars, query>>

\* fs::write fails, at the open or after some of the text: the operation returns
\* at once and restores nothing.  On the way back the error is ignored.
WriteFails(e) ==
  /\ \/ editor[e].pc = "truncate" /\ disk' = disk
     \/ editor[e].pc = "write" /\ disk' \in {disk} \cup Torn
  /\ editor' = [editor EXCEPT ![e].pc = IF editor[e].failed THEN "load" ELSE "done",
                              ![e].failed = TRUE, ![e].unwritten = TRUE]
  /\ UNCHANGED <<policy, resolver, crossed, clock, rateVars, query>>

\* Mutant: the text that does not load stays in the file.
LoadFailsStays(e) ==
  /\ editor[e].pc = "load"
  /\ disk \in Broken
  /\ editor' = [editor EXCEPT ![e].pc = "done", ![e].failed = TRUE]
  /\ UNCHANGED <<disk, policy, resolver, crossed, clock, rateVars, query>>

\* reload_from_disk fails before anything is swapped; an edit then restores the
\* file and reloads, a plain reload is done.
LoadFails(e) ==
  /\ editor[e].pc = "load"
  /\ disk \in Broken
  /\ editor' = [editor EXCEPT
       ![e].pc = IF editor[e].want # Nothing /\ ~editor[e].failed THEN "truncate" ELSE "done",
       ![e].failed = TRUE]
  /\ UNCHANGED <<disk, policy, resolver, crossed, clock, rateVars, query>>

Load(e) ==
  /\ editor[e].pc = "load"
  /\ disk \in Good
  /\ editor' = [editor EXCEPT ![e].pc = "swapPolicy", ![e].loaded = disk]
  /\ UNCHANGED <<disk, policy, resolver, crossed, clock, rateVars, query>>

\* Queries under way during a swap are not calm.
Disturb == query' = [q \in Queries |-> [query[q] EXCEPT !.calm = @ /\ query[q].pc = "idle"]]

SwapPolicy(e) ==
  /\ editor[e].pc = "swapPolicy"
  /\ policy' = [cfg |-> editor[e].loaded, engine |-> policy.engine + 1]
  /\ editor' = [editor EXCEPT ![e].pc = "swapResolver"]
  /\ crossed' = (Swapping # {})
  /\ Disturb
  /\ UNCHANGED <<disk, resolver, clock, rateVars>>

\* Mutant: the new resolver is built and not published.
SwapResolverNot(e) ==
  /\ editor[e].pc = "swapResolver"
  /\ editor' = [editor EXCEPT ![e].pc = "done"]
  /\ Disturb
  /\ UNCHANGED <<disk, policy, resolver, crossed, clock, rateVars>>

\* Mutant: the resolver is built from the file as it is by now.
SwapResolverReread(e) ==
  /\ editor[e].pc = "swapResolver"
  /\ resolver' = IF disk \in Good THEN disk ELSE editor[e].loaded
  /\ editor' = [editor EXCEPT ![e].pc = "done"]
  /\ Disturb
  /\ UNCHANGED <<disk, policy, crossed, clock, rateVars>>

SwapResolver(e) ==
  /\ editor[e].pc = "swapResolver"
  /\ resolver' = editor[e].loaded
  /\ editor' = [editor EXCEPT ![e].pc = "done"]
  /\ Disturb
  /\ UNCHANGED <<disk, policy, crossed, clock, rateVars>>
-----------------------------------------------------------------------------
(* A query: policy_evaluate with consume_token, then resolve_with_view *)

\* The engine and the second are read once.
Evaluate(q) ==
  /\ query[q].pc = "idle"
  /\ query' = [query EXCEPT ![q].pc = "window", ![q].cfg = policy.cfg,
                            ![q].engine = policy.engine, ![q].now = clock,
                            ![q].calm = (Swapping = {}), ![q].mixed = crossed]
  /\ UNCHANGED <<adminVars, policy, clock, rateVars>>

\* The client's entry is made if missing; its window_start is read.
ReadWindow(q) ==
  /\ query[q].pc = "window"
  /\ LET g == query[q].engine
         begin == IF start[g] = Nothing THEN query[q].now ELSE start[g]
     IN /\ start' = [start EXCEPT ![g] = begin]
        /\ query' = [query EXCEPT ![q].seen = begin,
                       ![q].pc = IF query[q].now > begin THEN "rotate" ELSE "consume"]
  /\ UNCHANGED <<adminVars, policy, clock, count, grants, since, forgets>>

\* compare_exchange_weak
Rotate(q) ==
  /\ query[q].pc = "rotate"
  /\ start[query[q].engine] = query[q].seen
  /\ start' = [start EXCEPT ![query[q].engine] = query[q].now]
  /\ query' = [query EXCEPT ![q].pc = "reset"]
  /\ UNCHANGED <<adminVars, policy, clock, count, grants, since, forgets>>

\* Another query rotated, or the exchange failed spuriously.
RotateFails(q) ==
  /\ query[q].pc = "rotate"
  /\ query' = [query EXCEPT ![q].pc = "consume"]
  /\ UNCHANGED <<adminVars, policy, clock, rateVars>>

Reset(q) ==
  /\ query[q].pc = "reset"
  /\ LET g == query[q].engine
     IN /\ count' = [count EXCEPT ![g] = 0]
        /\ since' = [since EXCEPT ![g] = 0]
        /\ forgets' = [forgets EXCEPT ![g] = IF since[g] > 0 THEN @ + 1 ELSE @]
  /\ query' = [query EXCEPT ![q].pc = "consume"]
  /\ UNCHANGED <<adminVars, policy, clock, start, grants>>

\* Mutant: one token too many.
ConsumeOneMore(q) ==
  /\ query[q].pc = "consume"
  /\ LET g == query[q].engine
         granted == count[g] <= Limit
         more == IF granted THEN 1 ELSE 0
     IN /\ count' = [count EXCEPT ![g] = @ + 1]
        /\ grants' = [grants EXCEPT ![g] = @ + more]
        /\ since' = [since EXCEPT ![g] = @ + more]
        /\ query' = [query EXCEPT ![q].pc = IF granted THEN "resolve" ELSE "refused"]
  /\ UNCHANGED <<adminVars, policy, clock, start, forgets>>

\* fetch_add
Consume(q) ==
  /\ query[q].pc = "consume"
  /\ LET g == query[q].engine
         granted == count[g] < Limit
         more == IF granted THEN 1 ELSE 0
     IN /\ count' = [count EXCEPT ![g] = @ + 1]
        /\ grants' = [grants EXCEPT ![g] = @ + more]
        /\ since' = [since EXCEPT ![g] = @ + more]
        /\ query' = [query EXCEPT ![q].pc = IF granted THEN "resolve" ELSE "refused"]
  /\ UNCHANGED <<adminVars, policy, clock, start, forgets>>

Resolve(q) ==
  /\ query[q].pc = "resolve"
  /\ query' = [query EXCEPT ![q].pc = "resolved", ![q].resolver = resolver]
  /\ UNCHANGED <<adminVars, policy, clock, rateVars>>

Tick ==
  /\ clock < LastSecond
  /\ clock' = clock + 1
  /\ grants' = [g \in Engines |-> 0]
  /\ since' = [g \in Engines |-> 0]
  /\ forgets' = [g \in Engines |-> 0]
  /\ UNCHANGED <<adminVars, policy, start, count, query>>

Admin(e) ==
  \/ Reload(e) \/ Edit(e) \/ Truncate(e) \/ Write(e) \/ WriteFails(e)
  \/ LoadFails(e) \/ Load(e) \/ SwapPolicy(e) \/ SwapResolver(e)

Serve(q) ==
  \/ Evaluate(q) \/ ReadWindow(q) \/ Rotate(q) \/ RotateFails(q) \/ Reset(q)
  \/ Consume(q) \/ Resolve(q)

ServiceNext ==
  \/ \E e \in Editors : Admin(e)
  \/ \E q \in Queries : Serve(q)
  \/ Tick

ServiceSpec == ServiceInit /\ [][ServiceNext]_serviceVars
-----------------------------------------------------------------------------
(* Properties *)

EditorStates == {"idle", "truncate", "write", "load", "swapPolicy", "swapResolver", "done"}
QueryStates == {"idle", "window", "rotate", "reset", "consume", "resolve", "resolved", "refused"}

\* The variables keep their types: only what loads is ever published, and each
\* admin operation makes at most one engine.
ServiceTypeOK ==
  /\ disk \in Files
  /\ policy \in [cfg : Good, engine : Engines]
  /\ resolver \in Good
  /\ editor \in [Editors -> [pc : EditorStates, want : Files \cup {Nothing},
                             old : Files \cup {Nothing}, loaded : Good \cup {Nothing},
                             failed : BOOLEAN, unwritten : BOOLEAN, alone : BOOLEAN]]
  /\ crossed \in BOOLEAN
  /\ clock \in Seconds
  /\ start \in [Engines -> Seconds \cup {Nothing}]
  /\ count \in [Engines -> Nat]
  /\ grants \in [Engines -> Nat]
  /\ since \in [Engines -> Nat]
  /\ forgets \in [Engines -> Nat]
  /\ query \in [Queries -> [pc : QueryStates, cfg : Good \cup {Nothing}, engine : Engines,
                            now : Seconds, seen : Seconds, resolver : Good \cup {Nothing},
                            calm : BOOLEAN, mixed : BOOLEAN]]

\* What "atomically swaps policy/resolver runtime pointers" (reload_from_disk)
\* asks: once no admin operation is under way, the policy and the resolver come
\* from the same configuration, the one in the file.  The code does not keep it,
\* and no run checks it: two reloads may cross, or a write may fail.
Settled ==
  (\A e \in Editors : ~UnderWay(e)) => policy.cfg = disk /\ resolver = disk

\* Once both pointers are swapped, the policy of one configuration runs with the
\* resolver of another only if the latest reload swapped its policy between the
\* two swaps of another one: neither failed writes, rollbacks, broken files nor
\* edits that overlap in any other way leave the two apart.
MixNeedsCrossing == Swapping = {} /\ policy.cfg # resolver => crossed

\* A query that overlaps no swap and comes after reloads that did not cross is
\* judged and resolved under one configuration.
CalmQueriesAgree ==
  \A q \in Queries :
    query[q].pc = "resolved" /\ query[q].calm /\ ~query[q].mixed =>
      query[q].resolver = query[q].cfg

\* What an operation that nobody overlapped has done when it ends, whatever
\* crossed or failed before it: if it published anything, it published to both
\* pointers what the file now holds; if it succeeded, that is its own text; and
\* if it failed with every write done, the file holds the text from before.
LoneOperationsAreWhole ==
  [][\A e \in Editors :
       LET end == editor'[e]
       IN editor[e].pc # "done" /\ end.pc = "done" /\ end.alone =>
            /\ end.loaded # Nothing => policy'.cfg = disk' /\ resolver' = disk'
            /\ ~end.failed => end.loaded # Nothing /\ end.want \in {Nothing, disk'}
            /\ end.failed /\ ~end.unwritten => end.want = Nothing \/ disk' = end.old
    ]_serviceVars

\* What "the per-second cap is enforced across all concurrent tasks"
\* (consume_token) asks.  The code does not keep it, and no run checks it.
CapEnforced == \A g \in Engines : grants[g] <= Limit

\* What the rate window does guarantee in one second: the limit, and the limit
\* again only for each time a late reset threw away tokens granted within that
\* same second.  Resets on time, lost exchanges and stale seconds cost nothing.
GrantsBounded == \A g \in Engines : grants[g] <= Limit * (forgets[g] + 1)

\* Of the queries that read the same window and found it old, one rotates it.
OneRotates ==
  \A p, q \in Queries :
    query[p].pc = "reset" /\ query[q].pc = "reset" /\ query[p].engine = query[q].engine
      /\ query[p].seen = query[q].seen => p = q
=============================================================================
