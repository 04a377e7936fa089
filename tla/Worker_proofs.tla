---------------------------- MODULE Worker_proofs ----------------------------
(***************************************************************************)
(* Proofs about the worker.  Of the process, for any number of control     *)
(* connections and of workers: who holds a child, and when one can be      *)
(* lost.  Of the service state inside it, for any number of queries, of    *)
(* admin operations at the same time, of files, of failing writes and any  *)
(* limit: what the rate window lets through, when policy and resolver can  *)
(* come apart, and what an operation leaves that nobody overlapped.        *)
(***************************************************************************)
EXTENDS Agent, Service, FiniteSetTheorems, TLAPS

(* The process *)

ProcStates == {"none", "starting", "serving", "exited"}

\* Whoever holds a worker holds one that was spawned.
HeldWasSpawned == \A w \in Workers : Owned(w) => proc[w] # "none"

\* Two Starts between their two locks overlap; and one that is alone there has
\* found no live child in the slot, where nobody puts one meanwhile.
StartsOverlap ==
  \A a, b \in Actors : Between(a) /\ Between(b) /\ a # b => overlap
SlotStaysEmpty ==
  \A a \in Actors : Between(a) => overlap \/ slot = None \/ ~Live(slot)

AgentInv ==
  /\ TypeOK
  /\ ChildHeldOnce
  /\ HeldWasSpawned
  /\ StartsOverlap
  /\ SlotStaysEmpty
  /\ OrphanNeedsOverlap

\* An actor that finishes is between no locks, nor is any that the main task
\* takes down with it.
LEMMA FinishType ==
  ASSUME TypeOK, NEW a \in Actors, NEW answer, Finish(a, answer),
         answer \in {"alreadyRunning", "spawnFailed", "started", "notRunning", "stopped", "stopFailed"}
  PROVE  /\ pc' \in [Actors -> {"idle", "check", "spawn", "store", "take", "post", "wait",
                                "listening", "done", "dropped", "ended"}]
         /\ reply' \in [Actors -> {"none", "alreadyRunning", "spawnFailed", "started",
                                   "notRunning", "stopped", "stopFailed"}]
         /\ pc'[a] \in {"listening", "done", "dropped", "ended"}
         /\ \A b \in Actors \ {a} :
              \/ pc'[b] = pc[b]
              \/ pc'[b] \in {"dropped", "ended"} /\ pc[b] # "done"
  BY DEF TypeOK, Finish, MainEnds

\* The main task is one of the actors, and only its own steps end it.
LEMMA OthersDropped ==
  ASSUME TypeOK, NEW a \in Actors, NEW answer, Finish(a, answer), NEW b \in Actors \ {a}
  PROVE  pc'[b] = pc[b] \/ pc'[b] = "dropped"
  BY DEF TypeOK, Finish, MainEnds

\* What happens to a worker that is held, or to one that is not yet spawned.
LEMMA WorkerStep ==
  ASSUME AgentInv, NEW w \in Workers, Bind(w) \/ BindFails(w) \/ Exit(w)
  PROVE  AgentInv'
<1>1. /\ UNCHANGED <<slot, pc, kind, child, reply, shutdown, overlap, abandoned>>
      /\ proc[w] \in {"starting", "serving"}
      /\ \/ proc' = [proc EXCEPT ![w] = "serving"]
         \/ proc' = [proc EXCEPT ![w] = "exited"]
  BY DEF Bind, BindFails, Exit, Live
<1>2. TypeOK'
  BY <1>1 DEF AgentInv, TypeOK
<1>3. \A v \in Workers : /\ proc'[v] = "none" => proc[v] = "none"
                         /\ Live(v)' => Live(v)
  BY <1>1 DEF AgentInv, TypeOK, Live
<1>4. ChildHeldOnce' /\ StartsOverlap'
  BY <1>1 DEF AgentInv, ChildHeldOnce, StartsOverlap, Between
<1>5. HeldWasSpawned' /\ OrphanNeedsOverlap'
  BY <1>1, <1>3 DEF AgentInv, HeldWasSpawned, OrphanNeedsOverlap, Owned
<1>6. SlotStaysEmpty'
  BY <1>1, <1>3 DEF AgentInv, SlotStaysEmpty, Between, TypeOK
<1> QED
  BY <1>2, <1>4, <1>5, <1>6 DEF AgentInv

\* A step of one actor keeps who holds what.
LEMMA ActorStep ==
  ASSUME AgentInv, NEW a \in Actors, Act(a)
  PROVE  AgentInv'
<1>0. TypeOK
  BY DEF AgentInv
<1>1. ASSUME UNCHANGED <<proc, slot, child, overlap, abandoned>>, TypeOK',
             \A b \in Actors : Between(b)' => Between(b)
      PROVE  AgentInv'
  BY <1>1 DEF AgentInv, ChildHeldOnce, HeldWasSpawned, StartsOverlap, SlotStaysEmpty,
     OrphanNeedsOverlap, Owned, Live
<1>2. CASE Check(a)
  <2>1. CASE slot # None /\ Live(slot)
    <3>1. Finish(a, "alreadyRunning")
      BY <1>2, <2>1 DEF Check
    <3>2. UNCHANGED <<proc, slot, child, kind, shutdown, overlap, abandoned>> /\ pc[a] = "check"
      BY <1>2, <2>1 DEF Check
    <3>3. TypeOK'
      BY <1>0, <3>1, <3>2, FinishType, OthersDropped DEF TypeOK
    <3>4. \A b \in Actors : Between(b)' => Between(b)
      BY <1>0, <3>1, FinishType, OthersDropped DEF Between
    <3> QED
      BY <1>1, <3>2, <3>3, <3>4
  <2>2. CASE ~(slot # None /\ Live(slot))
    <3>1. /\ pc[a] = "check" /\ pc' = [pc EXCEPT ![a] = "spawn"] /\ slot' = None
          /\ overlap' = (overlap \/ \E b \in Actors \ {a} : Between(b))
          /\ UNCHANGED <<proc, kind, child, shutdown, reply, abandoned>>
      BY <1>2, <2>2 DEF Check, Go
    <3>2. TypeOK'
      BY <1>0, <3>1 DEF TypeOK
    <3>3. ChildHeldOnce' /\ HeldWasSpawned'
      BY <3>1, ActorsAssumption DEF AgentInv, ChildHeldOnce, HeldWasSpawned, Owned
    <3>4. \A b \in Actors \ {a} : Between(b)' => Between(b)
      BY <1>0, <3>1 DEF TypeOK, Between
    <3>5. StartsOverlap'
      BY <3>1, <3>4 DEF AgentInv, StartsOverlap
    <3>6. SlotStaysEmpty'
      BY <3>1 DEF SlotStaysEmpty
    <3>7. OrphanNeedsOverlap'
      BY <2>2, <3>1, ActorsAssumption DEF AgentInv, OrphanNeedsOverlap, Owned, Live
    <3> QED
      BY <3>2, <3>3, <3>5, <3>6, <3>7 DEF AgentInv
  <2> QED
    BY <2>1, <2>2
<1>3. CASE Spawn(a)
  <2>1. PICK w \in Workers :
          /\ proc[w] = "none"
          /\ proc' = [proc EXCEPT ![w] = "starting"]
          /\ child' = [child EXCEPT ![a] = w]
    BY <1>3 DEF Spawn, Fresh
  <2>2. /\ pc[a] = "spawn" /\ pc' = [pc EXCEPT ![a] = "store"]
        /\ UNCHANGED <<slot, kind, reply, shutdown, overlap, abandoned>>
    BY <1>3 DEF Spawn, Go
  <2>3. TypeOK'
    BY <1>0, <2>1, <2>2, ActorsAssumption DEF TypeOK
  <2>4. ~Owned(w)
    BY <2>1 DEF AgentInv, HeldWasSpawned
  <2>5. ChildHeldOnce'
    BY <1>0, <2>1, <2>2, <2>4 DEF AgentInv, ChildHeldOnce, Owned, TypeOK
  <2>6. \A v \in Workers : /\ v # w => proc'[v] = proc[v]
                           /\ Owned(v) => Owned(v)'
    BY <1>0, <2>1, <2>2, ActorsAssumption DEF Owned, TypeOK
  <2>7. Owned(w)' /\ proc'[w] = "starting"
    BY <1>0, <2>1 DEF Owned, TypeOK
  <2>8. \A v \in Workers : Owned(v)' /\ v # w => Owned(v)
    BY <1>0, <2>1, <2>2 DEF Owned, TypeOK
  <2>9. HeldWasSpawned' /\ OrphanNeedsOverlap'
    BY <2>2, <2>6, <2>7, <2>8 DEF AgentInv, HeldWasSpawned, OrphanNeedsOverlap, Live
  <2>10. \A b \in Actors : Between(b)' => Between(b)
    BY <1>0, <2>2 DEF TypeOK, Between
  <2>11. StartsOverlap' /\ SlotStaysEmpty'
    BY <1>0, <2>2, <2>4, <2>6, <2>10
       DEF AgentInv, StartsOverlap, SlotStaysEmpty, Live, Owned, TypeOK
  <2> QED
    BY <2>3, <2>5, <2>9, <2>11 DEF AgentInv
<1>4. CASE SpawnFails(a)
  <2>1. Finish(a, "spawnFailed")
    BY <1>4 DEF SpawnFails
  <2>2. UNCHANGED <<proc, slot, child, kind, shutdown, overlap, abandoned>> /\ pc[a] = "spawn"
    BY <1>4 DEF SpawnFails
  <2>3. TypeOK'
    BY <1>0, <2>1, <2>2, FinishType, OthersDropped DEF TypeOK
  <2>4. \A b \in Actors : Between(b)' => Between(b)
    BY <1>0, <2>1, FinishType, OthersDropped DEF Between
  <2> QED
    BY <1>1, <2>2, <2>3, <2>4
<1>5. CASE Store(a)
  <2>1. Finish(a, "started")
    BY <1>5 DEF Store
  <2>2. /\ pc[a] = "store" /\ slot' = child[a] /\ child' = [child EXCEPT ![a] = None]
        /\ UNCHANGED <<proc, kind, shutdown, overlap, abandoned>>
    BY <1>5 DEF Store
  <2>3. child[a] \in Workers
    BY <1>0, <2>2 DEF TypeOK
  <2>4. TypeOK'
    BY <1>0, <2>1, <2>2, <2>3, FinishType, OthersDropped DEF TypeOK
  <2>5. ChildHeldOnce'
    BY <1>0, <2>2, <2>3, ActorsAssumption DEF AgentInv, ChildHeldOnce, TypeOK
  <2>6. \A v \in Workers : Owned(v)' => Owned(v)
    BY <1>0, <2>2, ActorsAssumption DEF Owned, TypeOK
  <2>7. \A v \in Workers \ {slot} : Owned(v) => Owned(v)'
    BY <1>0, <2>2 DEF Owned, TypeOK
  <2>8. slot \in Workers => overlap \/ ~Live(slot)
    BY <2>2, ActorsAssumption DEF AgentInv, SlotStaysEmpty, Between
  <2>9. HeldWasSpawned' /\ OrphanNeedsOverlap'
    BY <2>2, <2>6, <2>7, <2>8 DEF AgentInv, HeldWasSpawned, OrphanNeedsOverlap, Live
  <2>10. \A b \in Actors : Between(b)' => Between(b) /\ b # a
    BY <1>0, <2>1, FinishType, OthersDropped DEF Between
  <2>11. StartsOverlap'
    BY <2>2, <2>10 DEF AgentInv, StartsOverlap
  <2>12. SlotStaysEmpty'
    BY <2>2, <2>10 DEF AgentInv, StartsOverlap, SlotStaysEmpty, Between
  <2> QED
    BY <2>4, <2>5, <2>9, <2>11, <2>12 DEF AgentInv
<1>6. CASE Take(a)
  <2>1. /\ pc[a] = "take" /\ slot # None /\ child' = [child EXCEPT ![a] = slot]
        /\ slot' = None /\ pc' = [pc EXCEPT ![a] = "post"]
        /\ UNCHANGED <<proc, kind, reply, shutdown, overlap, abandoned>>
    BY <1>6 DEF Take, Go
  <2>2. child[a] = None
    BY <1>0, <2>1 DEF TypeOK
  <2>3. TypeOK'
    BY <1>0, <2>1 DEF TypeOK
  <2>4. ChildHeldOnce'
    BY <1>0, <2>1, <2>2 DEF AgentInv, ChildHeldOnce, TypeOK
  <2>5. \A v \in Workers : Owned(v)' <=> Owned(v)
    BY <1>0, <2>1, <2>2, ActorsAssumption DEF Owned, TypeOK
  <2>6. HeldWasSpawned' /\ OrphanNeedsOverlap'
    BY <2>1, <2>5 DEF AgentInv, HeldWasSpawned, OrphanNeedsOverlap, Live
  <2>7. \A b \in Actors : Between(b)' => Between(b)
    BY <1>0, <2>1 DEF TypeOK, Between
  <2>8. StartsOverlap' /\ SlotStaysEmpty'
    BY <2>1, <2>7 DEF AgentInv, StartsOverlap, SlotStaysEmpty
  <2> QED
    BY <2>3, <2>4, <2>6, <2>8 DEF AgentInv
<1>7. CASE TakeNothing(a)
  <2>1. Finish(a, "notRunning")
    BY <1>7 DEF TakeNothing
  <2>2. /\ UNCHANGED <<proc, slot, child, kind, overlap, abandoned>> /\ pc[a] = "take"
        /\ shutdown' \in BOOLEAN
    BY <1>7, <1>0 DEF TakeNothing, Announce, TypeOK
  <2>3. TypeOK'
    BY <1>0, <2>1, <2>2, FinishType, OthersDropped DEF TypeOK
  <2>4. \A b \in Actors : Between(b)' => Between(b)
    BY <1>0, <2>1, FinishType, OthersDropped DEF Between
  <2> QED
    BY <1>1, <2>2, <2>3, <2>4
<1>8. CASE Post(a)
  <2>1. /\ pc[a] = "post" /\ pc' = [pc EXCEPT ![a] = "wait"]
        /\ UNCHANGED <<proc, slot, kind, child, reply, shutdown, overlap, abandoned>>
    BY <1>8 DEF Post, Go
  <2>2. TypeOK' /\ \A b \in Actors : Between(b)' => Between(b)
    BY <1>0, <2>1 DEF TypeOK, Between
  <2> QED
    BY <1>1, <2>1, <2>2
<1>9. CASE Reap(a) \/ KillAfterTimeout(a)
  <2>1. Finish(a, "stopped")
    BY <1>9 DEF Reap, KillAfterTimeout, Reaped
  <2>2. /\ pc[a] = "wait" /\ child' = [child EXCEPT ![a] = None]
        /\ UNCHANGED <<slot, kind, overlap, abandoned>> /\ shutdown' \in BOOLEAN
    BY <1>0, <1>9 DEF Reap, KillAfterTimeout, Reaped, Announce, TypeOK
  <2>3. child[a] \in Workers
    BY <1>0, <2>2 DEF TypeOK
  <2>4. /\ proc' \in [Workers -> ProcStates] /\ proc'[child[a]] = "exited"
        /\ \A v \in Workers \ {child[a]} : proc'[v] = proc[v]
    BY <1>0, <1>9, <2>3 DEF Reap, KillAfterTimeout, TypeOK, ProcStates
  <2>5. TypeOK'
    BY <1>0, <2>1, <2>2, <2>4, FinishType, OthersDropped DEF TypeOK, ProcStates
  <2>6. ChildHeldOnce'
    BY <1>0, <2>2 DEF AgentInv, ChildHeldOnce, TypeOK
  <2>7. \A v \in Workers : /\ Owned(v)' => Owned(v)
                           /\ v # child[a] /\ Owned(v) => Owned(v)'
    BY <1>0, <2>2, ActorsAssumption DEF Owned, TypeOK
  <2>8. HeldWasSpawned' /\ OrphanNeedsOverlap'
    BY <2>2, <2>4, <2>7 DEF AgentInv, HeldWasSpawned, OrphanNeedsOverlap, Live
  <2>9. \A b \in Actors : Between(b)' => Between(b)
    BY <1>0, <2>1, FinishType, OthersDropped DEF Between
  <2>10. slot # child[a]
    BY <2>3, ActorsAssumption DEF AgentInv, ChildHeldOnce
  <2>11. StartsOverlap' /\ SlotStaysEmpty'
    BY <1>0, <2>2, <2>4, <2>9, <2>10
       DEF AgentInv, StartsOverlap, SlotStaysEmpty, Live, TypeOK
  <2> QED
    BY <2>5, <2>6, <2>8, <2>11 DEF AgentInv
<1> QED
  BY <1>2, <1>3, <1>4, <1>5, <1>6, <1>7, <1>8, <1>9 DEF Act

\* A Stop that fails drops a child, and says so.
LEMMA StopFailsStep ==
  ASSUME AgentInv, NEW a \in Actors, StopFails(a)
  PROVE  AgentInv'
<1>0. TypeOK
  BY DEF AgentInv
<1>1. Finish(a, "stopFailed")
  BY DEF StopFails
<1>2. /\ pc[a] = "wait" /\ child' = [child EXCEPT ![a] = None]
      /\ abandoned' = abandoned \cup {child[a]}
      /\ UNCHANGED <<proc, slot, kind, overlap>> /\ shutdown' \in BOOLEAN
  BY <1>0 DEF StopFails, Announce, TypeOK
<1>3. child[a] \in Workers
  BY <1>0, <1>2 DEF TypeOK
<1>4. TypeOK'
  BY <1>0, <1>1, <1>2, <1>3, FinishType, OthersDropped DEF TypeOK
<1>5. ChildHeldOnce'
  BY <1>0, <1>2 DEF AgentInv, ChildHeldOnce, TypeOK
<1>6. \A v \in Workers : /\ Owned(v)' => Owned(v)
                         /\ v # child[a] /\ Owned(v) => Owned(v)'
  BY <1>0, <1>2, ActorsAssumption DEF Owned, TypeOK
<1>7. HeldWasSpawned' /\ OrphanNeedsOverlap'
  BY <1>2, <1>6 DEF AgentInv, HeldWasSpawned, OrphanNeedsOverlap, Live
<1>8. \A b \in Actors : Between(b)' => Between(b)
  BY <1>0, <1>1, FinishType, OthersDropped DEF Between
<1>9. StartsOverlap' /\ SlotStaysEmpty'
  BY <1>2, <1>8 DEF AgentInv, StartsOverlap, SlotStaysEmpty, Live
<1> QED
  BY <1>4, <1>5, <1>7, <1>9 DEF AgentInv

\* Who holds which child, in every reachable state.
THEOREM AgentInvariant == Spec => []AgentInv
<1>1. Init => AgentInv
  <2> SUFFICES ASSUME Init PROVE AgentInv
    OBVIOUS
  <2>1. Main \in Actors
    BY DEF Actors
  <2>2. TypeOK
    BY <2>1 DEF Init, TypeOK
  <2>3. \A a \in Actors : child[a] = None /\ ~Between(a)
    BY DEF Init, Between
  <2>4. \A w \in Workers : ~Owned(w) /\ ~Live(w)
    BY <2>3, ActorsAssumption DEF Init, Owned, Live
  <2> QED
    BY <2>2, <2>3, <2>4 DEF AgentInv, ChildHeldOnce, HeldWasSpawned, StartsOverlap,
       SlotStaysEmpty, OrphanNeedsOverlap
<1>2. AgentInv /\ [Next]_vars => AgentInv'
  <2> SUFFICES ASSUME AgentInv, [Next]_vars PROVE AgentInv'
    OBVIOUS
  <2>1. ASSUME NEW c \in Commands, Arrive(c) PROVE AgentInv'
    <3>1. /\ c \in Actors /\ pc[c] = "idle"
          /\ UNCHANGED <<proc, slot, child, reply, shutdown, overlap, abandoned>>
      BY <2>1 DEF Arrive, Actors
    <3>2. PICK k \in {"start", "stop", "stopAll"} :
            /\ kind' = [kind EXCEPT ![c] = k]
            /\ pc' = [pc EXCEPT ![c] = IF k = "start" THEN "check" ELSE "take"]
      BY <2>1 DEF Arrive, Go
    <3>3. TypeOK'
      BY <3>1, <3>2 DEF AgentInv, TypeOK
    <3>4. \A b \in Actors : Between(b)' => Between(b)
      BY <3>1, <3>2 DEF AgentInv, TypeOK, Between
    <3> QED
      BY <3>1, <3>3, <3>4 DEF AgentInv, ChildHeldOnce, HeldWasSpawned, StartsOverlap,
         SlotStaysEmpty, OrphanNeedsOverlap, Owned, Live
  <2>2. CASE LeaveLoop
    <3>1. /\ pc' = [pc EXCEPT ![Main] = "take"] /\ pc[Main] = "listening"
          /\ kind' = [kind EXCEPT ![Main] = "stop"]
          /\ UNCHANGED <<proc, slot, child, reply, shutdown, overlap, abandoned>>
      BY <2>2 DEF LeaveLoop, Go
    <3>2. TypeOK' /\ \A b \in Actors : Between(b)' => Between(b)
      BY <3>1 DEF AgentInv, TypeOK, Between, Actors
    <3> QED
      BY <3>1, <3>2 DEF AgentInv, ChildHeldOnce, HeldWasSpawned, StartsOverlap,
         SlotStaysEmpty, OrphanNeedsOverlap, Owned, Live
  <2>3. CASE UNCHANGED vars
    BY <2>3 DEF vars, AgentInv, TypeOK, ChildHeldOnce, HeldWasSpawned, StartsOverlap,
       SlotStaysEmpty, OrphanNeedsOverlap, Owned, Live, Between
  <2> QED
    BY <2>1, <2>2, <2>3, ActorStep, StopFailsStep, WorkerStep DEF Next
<1> QED
  BY <1>1, <1>2, PTL DEF Spec

\* An actor holds a child exactly while it is to store or to stop one.
THEOREM TypeCorrect == Spec => []TypeOK
<1>1. AgentInv => TypeOK
  BY DEF AgentInv
<1> QED
  BY <1>1, AgentInvariant, PTL

\* No child is held by two commands, or by a command and the slot.
THEOREM HeldOnce == Spec => []ChildHeldOnce
<1>1. AgentInv => ChildHeldOnce
  BY DEF AgentInv
<1> QED
  BY <1>1, AgentInvariant, PTL

\* A live worker that nobody holds takes two Starts that overlapped, or a Stop
\* that failed and said so.
THEOREM OrphansExplained == Spec => []OrphanNeedsOverlap
<1>1. AgentInv => OrphanNeedsOverlap
  BY DEF AgentInv
<1> QED
  BY <1>1, AgentInvariant, PTL

\* A command that lets go of the child it stops leaves it dead or says it failed.
THEOREM StopKills == Spec => StoppedIsDead
<1>1. AgentInv /\ [Next]_vars =>
        [\A a \in Actors :
           pc[a] = "wait" /\ child'[a] # child[a] =>
             proc'[child[a]] = "exited" \/ reply'[a] = "stopFailed"]_vars
  <2> SUFFICES ASSUME AgentInv, Next, NEW a \in Actors,
                      pc[a] = "wait", child'[a] # child[a]
               PROVE  proc'[child[a]] = "exited" \/ reply'[a] = "stopFailed"
    OBVIOUS
  <2>1. PICK b \in Actors : Act(b) \/ StopFails(b)
    BY DEF Next, Arrive, LeaveLoop, Bind, BindFails, Exit
  <2>2. CASE b # a
    BY <2>1, <2>2 DEF Act, Check, Spawn, SpawnFails, Store, Take, TakeNothing, Post,
       Reap, KillAfterTimeout, StopFails, Reaped, AgentInv, TypeOK
  <2>3. CASE b = a
    <3>1. Reap(a) \/ KillAfterTimeout(a) \/ StopFails(a)
      BY <2>1, <2>3 DEF Act, Check, Spawn, SpawnFails, Store, Take, TakeNothing, Post
    <3>2. child[a] \in Workers
      BY DEF AgentInv, TypeOK
    <3> QED
      BY <3>1, <3>2 DEF Reap, KillAfterTimeout, StopFails, Finish, AgentInv, TypeOK
  <2> QED
    BY <2>2, <2>3
<1> QED
  BY <1>1, AgentInvariant, PTL DEF Spec, StoppedIsDead
-----------------------------------------------------------------------------
(* The service state *)

Editor == [pc : EditorStates, want : Files \cup {Nothing}, old : Files \cup {Nothing},
           loaded : Good \cup {Nothing}, failed : BOOLEAN, unwritten : BOOLEAN,
           alone : BOOLEAN]
Query == [pc : QueryStates, cfg : Good \cup {Nothing}, engine : Engines, now : Seconds,
          seen : Seconds, resolver : Good \cup {Nothing}, calm : BOOLEAN, mixed : BOOLEAN]

\* Editors past their policy swap, which each of them does at most once.
Swapped == {e \in Editors : editor[e].pc \in {"swapResolver", "done"}}

\* What an editor is about to write or publish is there, and nothing is before.
Prepared(e) ==
  /\ editor[e].pc = "idle" => editor[e].want = Nothing /\ ~editor[e].failed /\ ~editor[e].unwritten
  /\ editor[e].pc \in {"truncate", "write"} => editor[e].want # Nothing
  /\ editor[e].want # Nothing => editor[e].old # Nothing
  /\ editor[e].pc \in {"idle", "truncate", "write", "load"} => editor[e].loaded = Nothing
  /\ editor[e].pc \in {"swapPolicy", "swapResolver"} => editor[e].loaded # Nothing

AdminInv ==
  /\ disk \in Files
  /\ policy \in [cfg : Good, engine : Nat]
  /\ policy.engine <= Cardinality(Swapped)
  /\ resolver \in Good
  /\ crossed \in BOOLEAN
  /\ editor \in [Editors -> Editor]
  /\ \A e \in Editors : Prepared(e)

\* The number of editors bounds the engines.
LEMMA EnginesBounded ==
  ASSUME AdminInv
  PROVE  policy.engine \in Engines
<1>1. IsFiniteSet(Editors) /\ Swapped \subseteq Editors
  BY FilesAssumption DEF Swapped
<1>2. Cardinality(Swapped) <= Cardinality(Editors)
  BY <1>1, FS_Subset
<1>3. Cardinality(Swapped) \in Nat /\ Cardinality(Editors) \in Nat
  BY <1>1, FS_Subset, FS_CardinalityType
<1> QED
  BY <1>2, <1>3 DEF AdminInv, Engines

\* One more editor past its policy swap.
LEMMA OneMoreSwapped ==
  ASSUME AdminInv, NEW e \in Editors, e \notin Swapped, Swapped' = Swapped \cup {e}
  PROVE  Cardinality(Swapped') = Cardinality(Swapped) + 1 /\ Cardinality(Swapped) \in Nat
<1>1. IsFiniteSet(Swapped)
  BY FilesAssumption, FS_Subset DEF Swapped
<1> QED
  BY <1>1, FS_AddElement, FS_CardinalityType

\* What a step of an operation under way does to the operation: Moves(e, E) says
\* that it becomes E and the others stay as they are.
Moves(e, E) == E \in Editor /\ editor' = [editor EXCEPT ![e] = E] /\ editor'[e] = E

\* Beginning an operation takes from the others that they are alone.
LEMMA BeginStep ==
  ASSUME AdminInv, NEW e \in Editors, Reload(e) \/ Edit(e)
  PROVE  /\ UNCHANGED <<disk, policy, resolver, crossed, clock, rateVars, query>>
         /\ editor[e].pc = "idle"
         /\ editor' \in [Editors -> Editor]
         /\ editor'[e].pc \in {"truncate", "load"} /\ editor'[e].loaded = Nothing
         /\ ~editor'[e].failed /\ ~editor'[e].unwritten
         /\ editor'[e].pc = "load" <=> editor'[e].want = Nothing
         /\ editor'[e].want # Nothing => editor'[e].old # Nothing
         /\ editor'[e].alone => \A f \in Editors : ~UnderWay(f)
         /\ \A f \in Editors \ {e} :
              /\ editor'[f] = [editor[f] EXCEPT !.alone = editor[f].alone /\ ~UnderWay(f)]
              /\ UNCHANGED <<editor[f].pc, editor[f].want, editor[f].old, editor[f].loaded,
                             editor[f].failed, editor[f].unwritten>>
              /\ editor'[f].alone => ~UnderWay(f)
<1>0. editor[e] \in Editor /\ Prepared(e) /\ disk \in Files /\ Nothing \notin Files
  BY FilesAssumption DEF AdminInv, Files
<1>1. ASSUME NEW op \in Editor, Begin(e, op), op.pc \in {"truncate", "load"},
             op.loaded = Nothing, ~op.failed, ~op.unwritten,
             op.pc = "load" <=> op.want = Nothing, op.want # Nothing => op.old # Nothing
      PROVE  /\ editor' \in [Editors -> Editor]
             /\ editor'[e].pc \in {"truncate", "load"} /\ editor'[e].loaded = Nothing
             /\ ~editor'[e].failed /\ ~editor'[e].unwritten
             /\ editor'[e].pc = "load" <=> editor'[e].want = Nothing
             /\ editor'[e].want # Nothing => editor'[e].old # Nothing
             /\ editor'[e].alone => \A f \in Editors : ~UnderWay(f)
             /\ \A f \in Editors \ {e} :
                  /\ editor'[f] = [editor[f] EXCEPT !.alone = editor[f].alone /\ ~UnderWay(f)]
                  /\ UNCHANGED <<editor[f].pc, editor[f].want, editor[f].old, editor[f].loaded,
                                 editor[f].failed, editor[f].unwritten>>
                  /\ editor'[f].alone => ~UnderWay(f)
  <2> DEFINE calm == \A g \in Editors : ~UnderWay(g)
  <2>1. editor'[e] = [op EXCEPT !.alone = calm]
    BY <1>1 DEF Begin
  <2>2. \A f \in Editors \ {e} :
          editor'[f] = [editor[f] EXCEPT !.alone = editor[f].alone /\ ~UnderWay(f)]
    BY <1>1 DEF Begin
  <2>3. editor' = [f \in Editors |-> editor'[f]]
    BY <1>1 DEF Begin
  <2>4. calm \in BOOLEAN /\ \A f \in Editors : UnderWay(f) \in BOOLEAN /\ editor[f] \in Editor
    BY DEF UnderWay, AdminInv
  <2>5. \A f \in Editors \ {e} :
          /\ [editor[f] EXCEPT !.alone = editor[f].alone /\ ~UnderWay(f)] \in Editor
          /\ UNCHANGED <<editor[f].pc, editor[f].want, editor[f].old, editor[f].loaded,
                         editor[f].failed, editor[f].unwritten>>
          /\ editor'[f].alone => ~UnderWay(f)
    <3> SUFFICES ASSUME NEW f \in Editors \ {e}
                 PROVE  /\ [editor[f] EXCEPT !.alone = editor[f].alone /\ ~UnderWay(f)] \in Editor
                        /\ UNCHANGED <<editor[f].pc, editor[f].want, editor[f].old, editor[f].loaded,
                                       editor[f].failed, editor[f].unwritten>>
                        /\ editor'[f].alone => ~UnderWay(f)
      OBVIOUS
    <3> DEFINE b == editor[f].alone /\ ~UnderWay(f)
    <3>1. editor[f] \in Editor /\ b \in BOOLEAN /\ (b => ~UnderWay(f))
      BY <2>4
    <3>2. editor'[f] = [editor[f] EXCEPT !.alone = b]
      BY <2>2
    <3> HIDE DEF b
    <3>3. /\ [editor[f] EXCEPT !.alone = b] \in Editor
          /\ UNCHANGED <<editor[f].pc, editor[f].want, editor[f].old, editor[f].loaded,
                         editor[f].failed, editor[f].unwritten>>
          /\ editor'[f].alone = b
      BY <3>1, <3>2 DEF Editor
    <3> QED
      BY <3>1, <3>3 DEF b
  <2>6. /\ [op EXCEPT !.alone = calm] \in Editor
        /\ editor'[e].pc = op.pc /\ editor'[e].loaded = op.loaded
        /\ editor'[e].want = op.want /\ editor'[e].old = op.old
        /\ editor'[e].failed = op.failed /\ editor'[e].unwritten = op.unwritten
        /\ editor'[e].alone = calm
    BY <1>1, <2>1, <2>4 DEF Editor
  <2>7. \A f \in Editors : editor'[f] \in Editor
    <3>1. editor'[e] \in Editor
      BY <2>1, <2>6
    <3>2. \A f \in Editors \ {e} : editor'[f] \in Editor
      BY <2>2, <2>5
    <3> QED
      BY <3>1, <3>2
  <2>8. editor' \in [Editors -> Editor]
    BY <2>3, <2>7
  <2> QED
    BY <1>1, <2>2, <2>5, <2>6, <2>8
<1>2. CASE Reload(e)
  <2> DEFINE op == [editor[e] EXCEPT !.pc = "load"]
  <2>1. Begin(e, op)
    BY <1>2 DEF Reload
  <2>2. /\ editor[e].pc = "idle"
        /\ UNCHANGED <<disk, policy, resolver, crossed, clock, rateVars, query>>
    BY <2>1 DEF Begin
  <2>3. /\ op \in Editor /\ op.pc = "load" /\ op.loaded = Nothing /\ ~op.failed
        /\ ~op.unwritten /\ op.want = Nothing
    BY <1>0, <2>2 DEF Editor, EditorStates, Prepared
  <2> HIDE DEF op
  <2> QED
    BY <1>1, <2>1, <2>2, <2>3
<1>3. CASE Edit(e)
  <2>1. PICK w \in Files \ {Empty} :
          Begin(e, [editor[e] EXCEPT !.pc = "truncate", !.want = w, !.old = disk])
    BY <1>3 DEF Edit
  <2> DEFINE op == [editor[e] EXCEPT !.pc = "truncate", !.want = w, !.old = disk]
  <2>2. /\ editor[e].pc = "idle"
        /\ UNCHANGED <<disk, policy, resolver, crossed, clock, rateVars, query>>
    BY <2>1 DEF Begin
  <2>3. /\ op \in Editor /\ op.pc = "truncate" /\ op.loaded = Nothing /\ ~op.failed
        /\ ~op.unwritten /\ op.want # Nothing /\ op.old # Nothing
    BY <1>0, <2>2 DEF Editor, EditorStates, Prepared
  <2>4. Begin(e, op)
    BY <2>1
  <2> HIDE DEF op
  <2> QED
    BY <1>1, <2>2, <2>3, <2>4
<1> QED
  BY <1>2, <1>3

\* What every later step of an operation does, one disjunct per step.
StepTo(e, E) ==
  /\ Moves(e, E)
  /\ E.want = editor[e].want /\ E.old = editor[e].old /\ E.alone = editor[e].alone
  /\ \/ /\ Truncate(e) /\ editor[e].pc = "truncate" /\ E.pc = "write"
        /\ E.loaded = editor[e].loaded /\ E.failed = editor[e].failed
        /\ E.unwritten = editor[e].unwritten
        /\ disk' = Empty /\ UNCHANGED <<policy, resolver, crossed>>
     \/ /\ Write(e) /\ editor[e].pc = "write" /\ E.pc = "load"
        /\ E.loaded = editor[e].loaded /\ E.failed = editor[e].failed
        /\ E.unwritten = editor[e].unwritten
        /\ disk' \in Files /\ (disk = Empty => disk' = Text(e))
        /\ UNCHANGED <<policy, resolver, crossed>>
     \/ /\ WriteFails(e) /\ editor[e].pc \in {"truncate", "write"}
        /\ E.pc = IF editor[e].failed THEN "load" ELSE "done"
        /\ E.loaded = editor[e].loaded /\ E.failed /\ E.unwritten
        /\ disk' \in Files /\ UNCHANGED <<policy, resolver, crossed>>
     \/ /\ LoadFails(e) /\ editor[e].pc = "load" /\ E.loaded = editor[e].loaded
        /\ E.pc = IF editor[e].want # Nothing /\ ~editor[e].failed THEN "truncate" ELSE "done"
        /\ E.failed /\ E.unwritten = editor[e].unwritten
        /\ UNCHANGED <<disk, policy, resolver, crossed>>
     \/ /\ Load(e) /\ editor[e].pc = "load" /\ E.pc = "swapPolicy"
        /\ disk \in Good /\ E.loaded = disk
        /\ E.failed = editor[e].failed /\ E.unwritten = editor[e].unwritten
        /\ UNCHANGED <<disk, policy, resolver, crossed>>
     \/ /\ SwapPolicy(e) /\ editor[e].pc = "swapPolicy" /\ E.pc = "swapResolver"
        /\ E.loaded = editor[e].loaded /\ E.failed = editor[e].failed
        /\ E.unwritten = editor[e].unwritten
        /\ policy' = [cfg |-> editor[e].loaded, engine |-> policy.engine + 1]
        /\ crossed' = (Swapping # {}) /\ UNCHANGED <<disk, resolver>>
     \/ /\ SwapResolver(e) /\ editor[e].pc = "swapResolver" /\ E.pc = "done"
        /\ E.loaded = editor[e].loaded /\ E.failed = editor[e].failed
        /\ E.unwritten = editor[e].unwritten
        /\ resolver' = editor[e].loaded /\ UNCHANGED <<disk, policy, crossed>>

LEMMA OperationStep ==
  ASSUME AdminInv, NEW e \in Editors,
         Truncate(e) \/ Write(e) \/ WriteFails(e) \/ LoadFails(e) \/ Load(e)
           \/ SwapPolicy(e) \/ SwapResolver(e)
  PROVE  \E E \in Editor : StepTo(e, E)
<1>0. /\ editor[e] \in Editor /\ Prepared(e) /\ disk \in Files /\ editor \in [Editors -> Editor]
      /\ Nothing \notin Files /\ Torn \subseteq Files /\ Empty \in Files
  BY FilesAssumption DEF AdminInv, Files
<1>1. CASE Truncate(e)
  <2> DEFINE E == [editor[e] EXCEPT !.pc = "write"]
  <2>1. Moves(e, E) /\ E.pc = "write" /\ E.want = editor[e].want /\ E.old = editor[e].old
        /\ E.alone = editor[e].alone /\ E.loaded = editor[e].loaded
        /\ E.failed = editor[e].failed /\ E.unwritten = editor[e].unwritten
    BY <1>0, <1>1 DEF Moves, Truncate, Editor, EditorStates
  <2>2. editor[e].pc = "truncate" /\ disk' = Empty /\ UNCHANGED <<policy, resolver, crossed>>
    BY <1>1 DEF Truncate
  <2> HIDE DEF E
  <2> QED
    BY <1>1, <2>1, <2>2 DEF StepTo, Moves
<1>2. CASE Write(e)
  <2> DEFINE E == [editor[e] EXCEPT !.pc = "load"]
  <2>1. Moves(e, E) /\ E.pc = "load" /\ E.want = editor[e].want /\ E.old = editor[e].old
        /\ E.alone = editor[e].alone /\ E.loaded = editor[e].loaded
        /\ E.failed = editor[e].failed /\ E.unwritten = editor[e].unwritten
    BY <1>0, <1>2 DEF Moves, Write, Editor, EditorStates
  <2>2. editor[e].pc = "write" /\ UNCHANGED <<policy, resolver, crossed>>
        /\ disk' \in {Text(e)} \cup (IF disk = Empty THEN {} ELSE Torn)
    BY <1>2 DEF Write
  <2>3. Text(e) \in Files
    BY <1>0, <2>2 DEF Text, Prepared, Editor
  <2>4. disk' \in Files /\ (disk = Empty => disk' = Text(e))
    BY <1>0, <2>2, <2>3
  <2> HIDE DEF E
  <2> QED
    BY <1>2, <2>1, <2>2, <2>4 DEF StepTo, Moves
<1>3. CASE WriteFails(e)
  <2> DEFINE E == [editor[e] EXCEPT !.pc = IF editor[e].failed THEN "load" ELSE "done",
                                    !.failed = TRUE, !.unwritten = TRUE]
  <2>1. Moves(e, E) /\ E.pc = (IF editor[e].failed THEN "load" ELSE "done")
        /\ E.want = editor[e].want /\ E.old = editor[e].old
        /\ E.alone = editor[e].alone /\ E.loaded = editor[e].loaded
        /\ E.failed /\ E.unwritten
    BY <1>0, <1>3 DEF Moves, WriteFails, Editor, EditorStates
  <2>2. editor[e].pc \in {"truncate", "write"} /\ disk' \in Files
        /\ UNCHANGED <<policy, resolver, crossed>>
    BY <1>0, <1>3 DEF WriteFails
  <2> HIDE DEF E
  <2> QED
    BY <1>3, <2>1, <2>2 DEF StepTo, Moves
<1>4. CASE LoadFails(e)
  <2> DEFINE next == IF editor[e].want # Nothing /\ ~editor[e].failed THEN "truncate" ELSE "done"
             E == [editor[e] EXCEPT !.pc = next, !.failed = TRUE]
  <2>1. next \in EditorStates
    BY DEF EditorStates
  <2>2. editor' = [editor EXCEPT ![e] = E] /\ editor[e].pc = "load"
        /\ UNCHANGED <<disk, policy, resolver, crossed>>
    BY <1>4 DEF LoadFails
  <2> HIDE DEF next
  <2>3. Moves(e, E) /\ E.pc = next
        /\ E.want = editor[e].want /\ E.old = editor[e].old
        /\ E.alone = editor[e].alone /\ E.loaded = editor[e].loaded
        /\ E.failed /\ E.unwritten = editor[e].unwritten
    BY <1>0, <2>1, <2>2 DEF Moves, Editor
  <2> HIDE DEF E
  <2> QED
    BY <1>4, <2>2, <2>3 DEF StepTo, Moves, next
<1>5. CASE Load(e)
  <2> DEFINE E == [editor[e] EXCEPT !.pc = "swapPolicy", !.loaded = disk]
  <2>1. disk \in Good /\ editor[e].pc = "load" /\ UNCHANGED <<disk, policy, resolver, crossed>>
    BY <1>5 DEF Load
  <2>2. Moves(e, E) /\ E.pc = "swapPolicy" /\ E.want = editor[e].want /\ E.old = editor[e].old
        /\ E.alone = editor[e].alone /\ E.loaded = disk
        /\ E.failed = editor[e].failed /\ E.unwritten = editor[e].unwritten
    BY <1>0, <1>5, <2>1 DEF Moves, Load, Editor, EditorStates
  <2> HIDE DEF E
  <2> QED
    BY <1>5, <2>1, <2>2 DEF StepTo, Moves
<1>6. CASE SwapPolicy(e)
  <2> DEFINE E == [editor[e] EXCEPT !.pc = "swapResolver"]
  <2>1. Moves(e, E) /\ E.pc = "swapResolver" /\ E.want = editor[e].want /\ E.old = editor[e].old
        /\ E.alone = editor[e].alone /\ E.loaded = editor[e].loaded
        /\ E.failed = editor[e].failed /\ E.unwritten = editor[e].unwritten
    BY <1>0, <1>6 DEF Moves, SwapPolicy, Editor, EditorStates
  <2>2. /\ editor[e].pc = "swapPolicy" /\ crossed' = (Swapping # {})
        /\ policy' = [cfg |-> editor[e].loaded, engine |-> policy.engine + 1]
        /\ UNCHANGED <<disk, resolver>>
    BY <1>6 DEF SwapPolicy
  <2> HIDE DEF E
  <2> QED
    BY <1>6, <2>1, <2>2 DEF StepTo, Moves
<1>7. CASE SwapResolver(e)
  <2> DEFINE E == [editor[e] EXCEPT !.pc = "done"]
  <2>1. Moves(e, E) /\ E.pc = "done" /\ E.want = editor[e].want /\ E.old = editor[e].old
        /\ E.alone = editor[e].alone /\ E.loaded = editor[e].loaded
        /\ E.failed = editor[e].failed /\ E.unwritten = editor[e].unwritten
    BY <1>0, <1>7 DEF Moves, SwapResolver, Editor, EditorStates
  <2>2. editor[e].pc = "swapResolver" /\ resolver' = editor[e].loaded
        /\ UNCHANGED <<disk, policy, crossed>>
    BY <1>7 DEF SwapResolver
  <2> HIDE DEF E
  <2> QED
    BY <1>7, <2>1, <2>2 DEF StepTo, Moves
<1> QED
  BY <1>1, <1>2, <1>3, <1>4, <1>5, <1>6, <1>7

\* An admin operation keeps what it is about to publish in order.
LEMMA AdminStep ==
  ASSUME AdminInv, NEW e \in Editors, Admin(e)
  PROVE  AdminInv'
<1>0. /\ editor[e] \in Editor /\ editor \in [Editors -> Editor]
      /\ Nothing \notin Files /\ Good \subseteq Files /\ Empty \in Files
      /\ disk \in Files /\ Prepared(e)
  BY FilesAssumption DEF AdminInv, Files
<1>1. CASE Reload(e) \/ Edit(e)
  <2>1. UNCHANGED <<disk, policy, resolver, crossed>> /\ editor' \in [Editors -> Editor]
    BY <1>1, BeginStep
  <2>2. Prepared(e)' /\ editor[e].pc = "idle" /\ editor'[e].pc \in {"truncate", "load"}
    BY <1>1, BeginStep DEF Prepared
  <2>3. ASSUME NEW f \in Editors \ {e} PROVE Prepared(f)' /\ UNCHANGED editor[f].pc
    <3>1. UNCHANGED <<editor[f].pc, editor[f].want, editor[f].old, editor[f].loaded,
                      editor[f].failed, editor[f].unwritten>>
      BY <1>1, BeginStep
    <3>2. Prepared(f)
      BY DEF AdminInv
    <3> QED
      BY <3>1, <3>2 DEF Prepared
  <2>4. Swapped' = Swapped
    BY <2>2, <2>3 DEF Swapped
  <2> QED
    BY <2>1, <2>2, <2>3, <2>4 DEF AdminInv
<1>2. CASE Truncate(e) \/ Write(e) \/ WriteFails(e) \/ LoadFails(e) \/ Load(e)
             \/ SwapPolicy(e) \/ SwapResolver(e)
  <2>1. PICK E \in Editor : StepTo(e, E)
    BY <1>2, OperationStep
  <2>2. /\ editor' = [editor EXCEPT ![e] = E] /\ editor'[e] = E
        /\ editor' \in [Editors -> Editor]
        /\ \A f \in Editors \ {e} : editor'[f] = editor[f]
    BY <1>0, <2>1 DEF StepTo, Moves
  <2>3. disk' \in Files /\ resolver' \in Good /\ crossed' \in BOOLEAN
    <3>1. editor[e].pc = "swapResolver" => editor[e].loaded \in Good
      BY <1>0 DEF Prepared, Editor
    <3> QED
      BY <1>0, <2>1, <3>1 DEF StepTo, AdminInv
  <2>4. Prepared(e)'
    BY <1>0, <2>1, <2>2 DEF StepTo, Prepared
  <2>5. \A f \in Editors : Prepared(f)'
    BY <2>2, <2>4 DEF AdminInv, Prepared
  <2>6. CASE E.pc \in {"swapResolver", "done"} /\ e \notin Swapped
    <3>1. Swapped' = Swapped \cup {e}
      BY <2>2, <2>6 DEF Swapped
    <3>2. Cardinality(Swapped') = Cardinality(Swapped) + 1 /\ Cardinality(Swapped) \in Nat
      BY <2>6, <3>1, OneMoreSwapped
    <3>3. editor[e].pc = "swapPolicy" => editor[e].loaded \in Good
      BY <1>0 DEF Prepared, Editor
    <3>4. /\ policy' \in [cfg : Good, engine : Nat]
          /\ policy'.engine \in {policy.engine, policy.engine + 1}
      BY <2>1, <3>3 DEF StepTo, AdminInv
    <3>5. policy'.engine <= Cardinality(Swapped')
      BY <3>2, <3>4 DEF AdminInv
    <3> QED
      BY <2>2, <2>3, <2>5, <3>4, <3>5 DEF AdminInv
  <2>7. CASE ~(E.pc \in {"swapResolver", "done"} /\ e \notin Swapped)
    <3>1. UNCHANGED policy /\ (E.pc \in {"swapResolver", "done"} <=> e \in Swapped)
      BY <2>1, <2>7 DEF StepTo, Swapped
    <3>2. Swapped' = Swapped
      BY <2>2, <3>1 DEF Swapped
    <3> QED
      BY <2>2, <2>3, <2>5, <3>1, <3>2 DEF AdminInv
  <2> QED
    BY <2>6, <2>7
<1> QED
  BY <1>1, <1>2 DEF Admin
-----------------------------------------------------------------------------
(* Queries and the clock.                                                   *)

QueryInv ==
  /\ clock \in Seconds
  /\ start \in [Engines -> Seconds \cup {Nothing}]
  /\ count \in [Engines -> Nat]
  /\ grants \in [Engines -> Nat]
  /\ since \in [Engines -> Nat]
  /\ forgets \in [Engines -> Nat]
  /\ query \in [Queries -> Query]

\* A step of a query or of the clock keeps their types.
LEMMA ServeTypes ==
  ASSUME AdminInv, QueryInv, Tick \/ (\E q \in Queries : Serve(q))
  PROVE  QueryInv'
<1>0. /\ policy.cfg \in Good /\ policy.engine \in Engines /\ resolver \in Good
      /\ LastSecond \in Nat /\ crossed \in BOOLEAN
  BY EnginesBounded, RateAssumption DEF AdminInv
<1>1. CASE Tick
  BY <1>0, <1>1 DEF Tick, QueryInv, Seconds
<1>2. ASSUME NEW q \in Queries, Serve(q) PROVE QueryInv'
  <2>0. query[q] \in Query
    BY DEF QueryInv
  <2>1. CASE Evaluate(q)
    <3> DEFINE calm == Swapping = {}
    <3>1. query' = [query EXCEPT ![q].pc = "window", ![q].cfg = policy.cfg,
                                 ![q].engine = policy.engine, ![q].now = clock,
                                 ![q].calm = calm, ![q].mixed = crossed]
      BY <2>1 DEF Evaluate
    <3>2. calm \in BOOLEAN
      OBVIOUS
    <3> HIDE DEF calm
    <3> DEFINE Q == [query[q] EXCEPT !.pc = "window", !.cfg = policy.cfg,
                                     !.engine = policy.engine, !.now = clock,
                                     !.calm = calm, !.mixed = crossed]
    <3>3. query' = [query EXCEPT ![q] = Q]
      BY <3>1
    <3>4. Q \in Query
      BY <1>0, <2>0, <3>2 DEF Query, QueryStates, QueryInv
    <3>5. query' \in [Queries -> Query]
      BY <3>3, <3>4 DEF QueryInv
    <3>6. UNCHANGED <<clock, start, count, grants, since, forgets>>
      BY <2>1 DEF Evaluate, rateVars
    <3> HIDE DEF Q
    <3> QED
      BY <3>5, <3>6 DEF QueryInv
  <2>2. CASE ReadWindow(q)
    <3> DEFINE g == query[q].engine
               begin == IF start[g] = Nothing THEN query[q].now ELSE start[g]
    <3>1. g \in Engines /\ begin \in Seconds
      BY <2>0 DEF QueryInv, Query
    <3>2. start' = [start EXCEPT ![g] = begin]
      BY <2>2 DEF ReadWindow
    <3>3. query' = [query EXCEPT ![q].seen = begin,
                      ![q].pc = IF query[q].now > begin THEN "rotate" ELSE "consume"]
      BY <2>2 DEF ReadWindow
    <3> HIDE DEF g, begin
    <3> QED
      BY <2>0, <2>2, <3>1, <3>2, <3>3 DEF ReadWindow, QueryInv, Query, QueryStates
  <2>3. CASE Rotate(q)
    BY <2>0, <2>3 DEF Rotate, QueryInv, Query, QueryStates
  <2>4. CASE RotateFails(q)
    BY <2>0, <2>4 DEF RotateFails, QueryInv, Query, QueryStates, rateVars
  <2>5. CASE Reset(q)
    <3>1. query[q].engine \in Engines
      BY <2>0 DEF Query
    <3> QED
      BY <2>0, <2>5, <3>1 DEF Reset, QueryInv, Query, QueryStates
  <2>6. CASE Consume(q)
    <3>1. query[q].engine \in Engines
      BY <2>0 DEF Query
    <3> QED
      BY <2>0, <2>6, <3>1 DEF Consume, QueryInv, Query, QueryStates
  <2>7. CASE Resolve(q)
    BY <1>0, <2>0, <2>7 DEF Resolve, QueryInv, Query, QueryStates, rateVars
  <2> QED
    BY <1>2, <2>1, <2>2, <2>3, <2>4, <2>5, <2>6, <2>7 DEF Serve
<1> QED
  BY <1>1, <1>2

\* An admin step changes at most the calm of queries.
LEMMA AdminTypes ==
  ASSUME QueryInv, NEW e \in Editors, Admin(e)
  PROVE  QueryInv'
<1>1. UNCHANGED <<clock, start, count, grants, since, forgets>>
  BY DEF Admin, Reload, Edit, Begin, Truncate, Write, WriteFails, LoadFails, Load, SwapPolicy,
     SwapResolver, rateVars
<1>2. CASE UNCHANGED query
  BY <1>1, <1>2 DEF QueryInv
<1>3. CASE Disturb
  <2>1. ASSUME NEW q \in Queries PROVE query'[q] \in Query
    BY <1>3 DEF Disturb, QueryInv, Query
  <2>2. DOMAIN query' = Queries /\ query' = [q \in Queries |-> query'[q]]
    BY <1>3 DEF Disturb
  <2> QED
    BY <1>1, <2>1, <2>2 DEF QueryInv
<1> QED
  BY <1>2, <1>3 DEF Admin, Reload, Edit, Begin, Truncate, Write, WriteFails, LoadFails, Load,
     SwapPolicy, SwapResolver

\* The types, with the number of engines tied to the editors past their swap.
THEOREM TypeInvariant == ServiceSpec => [](AdminInv /\ QueryInv)
<1>1. ServiceInit => AdminInv /\ QueryInv
  <2> SUFFICES ASSUME ServiceInit PROVE AdminInv /\ QueryInv
    OBVIOUS
  <2>1. Cardinality(Swapped) \in Nat /\ Swapped \subseteq Editors
    BY FilesAssumption, FS_Subset, FS_CardinalityType DEF Swapped
  <2>2. Cardinality(Editors) \in Nat
    BY FilesAssumption, FS_CardinalityType
  <2>3. AdminInv
    <3>1. editor \in [Editors -> Editor]
      <4> DEFINE E == [pc |-> "idle", want |-> Nothing, old |-> Nothing, loaded |-> Nothing,
                       failed |-> FALSE, unwritten |-> FALSE, alone |-> TRUE]
      <4>1. E \in Editor
        BY DEF Editor, EditorStates
      <4>2. \A e \in Editors : editor[e] = E
        BY DEF ServiceInit
      <4>3. editor = [e \in Editors |-> editor[e]]
        BY DEF ServiceInit
      <4> HIDE DEF E
      <4> QED
        BY <4>1, <4>2, <4>3
    <3>2. \A e \in Editors : Prepared(e)
      BY DEF ServiceInit, Prepared
    <3>3. /\ disk \in Files /\ resolver \in Good /\ crossed \in BOOLEAN
          /\ policy \in [cfg : Good, engine : Nat] /\ policy.engine = 0
      BY FilesAssumption DEF ServiceInit, Files
    <3>4. policy.engine <= Cardinality(Swapped)
      BY <2>1, <3>3
    <3> QED
      BY <3>1, <3>2, <3>3, <3>4 DEF AdminInv
  <2>4. QueryInv
    BY <2>2, RateAssumption DEF ServiceInit, QueryInv, Query, QueryStates, Seconds, Engines
  <2> QED
    BY <2>3, <2>4
<1>2. AdminInv /\ QueryInv /\ [ServiceNext]_serviceVars => AdminInv' /\ QueryInv'
  <2> SUFFICES ASSUME AdminInv, QueryInv, [ServiceNext]_serviceVars PROVE AdminInv' /\ QueryInv'
    OBVIOUS
  <2>1. CASE \E e \in Editors : Admin(e)
    BY <2>1, AdminStep, AdminTypes
  <2>2. CASE Tick \/ (\E q \in Queries : Serve(q))
    <3>1. UNCHANGED <<adminVars, policy>>
      BY <2>2 DEF Tick, Serve, Evaluate, ReadWindow, Rotate, RotateFails, Reset,
         Consume, Resolve
    <3>2. AdminInv'
      BY <3>1 DEF adminVars, AdminInv, Prepared, Swapped
    <3> QED
      BY <2>2, <3>2, ServeTypes
  <2>3. CASE UNCHANGED serviceVars
    BY <2>3 DEF serviceVars, adminVars, rateVars, AdminInv, Prepared, Swapped, QueryInv
  <2> QED
    BY <2>1, <2>2, <2>3 DEF ServiceNext
<1> QED
  BY <1>1, <1>2, PTL DEF ServiceSpec

\* Only what loads is published, and each admin operation makes at most one engine.
THEOREM ServiceTypeCorrect == ServiceSpec => []ServiceTypeOK
<1>1. AdminInv /\ QueryInv => ServiceTypeOK
  BY EnginesBounded DEF AdminInv, QueryInv, ServiceTypeOK, Editor, Query
<1> QED
  BY <1>1, TypeInvariant, PTL
-----------------------------------------------------------------------------
(* The rate window.                                                         *)

\* Tokens of this second are on the counter or were thrown away by a late reset.
RateInv ==
  \A g \in Engines :
    /\ since[g] <= count[g] /\ since[g] <= Limit
    /\ grants[g] <= Limit * forgets[g] + since[g]

\* A step of the window at engine g keeps the account.
LEMMA RateFrame ==
  ASSUME QueryInv, RateInv, NEW g \in Engines,
         \A h \in Engines \ {g} : UNCHANGED <<count[h], grants[h], since[h], forgets[h]>>,
         since'[g] <= count'[g] /\ since'[g] <= Limit,
         grants'[g] <= Limit * forgets'[g] + since'[g]
  PROVE  RateInv'
BY DEF RateInv

\* Each window lets through what its counter counted, up to the limit.
LEMMA RateStep ==
  ASSUME QueryInv, RateInv, [ServiceNext]_serviceVars
  PROVE  RateInv'
<1>0. Limit \in Nat
  BY RateAssumption
<1>1. CASE UNCHANGED <<count, grants, since, forgets>>
  BY <1>1 DEF RateInv
<1>2. CASE Tick
  <2> SUFFICES ASSUME NEW g \in Engines
               PROVE  /\ since'[g] <= count'[g] /\ since'[g] <= Limit
                      /\ grants'[g] <= Limit * forgets'[g] + since'[g]
    BY DEF RateInv
  <2>1. grants'[g] = 0 /\ since'[g] = 0 /\ forgets'[g] = 0 /\ count'[g] \in Nat
    BY <1>2 DEF Tick, QueryInv
  <2> QED
    BY <1>0, <2>1
<1>3. ASSUME NEW q \in Queries, Reset(q) PROVE RateInv'
  <2> DEFINE g == query[q].engine
  <2>0. g \in Engines
    BY DEF QueryInv, Query
  <2>1. /\ since[g] <= Limit /\ grants[g] <= Limit * forgets[g] + since[g]
        /\ grants[g] \in Nat /\ since[g] \in Nat /\ forgets[g] \in Nat
    BY <2>0 DEF RateInv, QueryInv
  <2>2. /\ count'[g] = 0 /\ since'[g] = 0 /\ grants'[g] = grants[g]
        /\ forgets'[g] = IF since[g] > 0 THEN forgets[g] + 1 ELSE forgets[g]
    BY <1>3, <2>0 DEF Reset, QueryInv
  <2>3. \A h \in Engines \ {g} : UNCHANGED <<count[h], grants[h], since[h], forgets[h]>>
    BY <1>3 DEF Reset, QueryInv
  <2>4. Limit * (forgets[g] + 1) = Limit * forgets[g] + Limit /\ Limit * forgets[g] \in Nat
    BY <1>0, <2>1
  <2>5. grants'[g] <= Limit * forgets'[g] + since'[g]
    BY <1>0, <2>1, <2>2, <2>4
  <2> HIDE DEF g
  <2> QED
    BY <1>0, <2>0, <2>2, <2>3, <2>5, RateFrame
<1>4. ASSUME NEW q \in Queries, Consume(q) PROVE RateInv'
  <2> DEFINE g == query[q].engine
             more == IF count[g] < Limit THEN 1 ELSE 0
  <2>0. g \in Engines
    BY DEF QueryInv, Query
  <2>1. /\ since[g] <= count[g] /\ since[g] <= Limit
        /\ grants[g] <= Limit * forgets[g] + since[g]
        /\ count[g] \in Nat /\ grants[g] \in Nat /\ since[g] \in Nat /\ forgets[g] \in Nat
    BY <2>0 DEF RateInv, QueryInv
  <2>2. /\ count'[g] = count[g] + 1 /\ since'[g] = since[g] + more
        /\ grants'[g] = grants[g] + more /\ forgets'[g] = forgets[g]
    BY <1>4, <2>0 DEF Consume, QueryInv
  <2>3. \A h \in Engines \ {g} : UNCHANGED <<count[h], grants[h], since[h], forgets[h]>>
    BY <1>4 DEF Consume, QueryInv
  <2>4. Limit * forgets[g] \in Nat
    BY <1>0, <2>1
  <2>5. more \in {0, 1} /\ (more = 1 => count[g] < Limit)
    OBVIOUS
  <2> HIDE DEF g, more
  <2>6. since'[g] <= count'[g] /\ since'[g] <= Limit
    BY <1>0, <2>1, <2>2, <2>5
  <2>7. grants'[g] <= Limit * forgets'[g] + since'[g]
    BY <1>0, <2>1, <2>2, <2>4, <2>5
  <2> QED
    BY <2>0, <2>3, <2>6, <2>7, RateFrame
<1>5. \/ UNCHANGED <<count, grants, since, forgets>> \/ Tick
      \/ \E q \in Queries : Reset(q) \/ Consume(q)
  BY DEF ServiceNext, Admin, Reload, Edit, Begin, Truncate, Write, WriteFails, LoadFails,
     Load, SwapPolicy, SwapResolver, Serve, Evaluate, ReadWindow, Rotate, RotateFails,
     Resolve, rateVars, serviceVars
<1> QED
  BY <1>1, <1>2, <1>3, <1>4, <1>5

\* In one second an engine lets through the limit, and the limit again for each
\* time a late reset threw away tokens of that second.
THEOREM RateLimit == ServiceSpec => []GrantsBounded
<1>0. Limit \in Nat \ {0}
  BY RateAssumption
<1>1. ServiceInit => RateInv
  BY <1>0 DEF ServiceInit, RateInv
<1>2. QueryInv /\ RateInv => GrantsBounded
  <2> SUFFICES ASSUME QueryInv, RateInv, NEW g \in Engines
               PROVE  grants[g] <= Limit * (forgets[g] + 1)
    BY DEF GrantsBounded
  <2>1. /\ since[g] <= Limit /\ grants[g] <= Limit * forgets[g] + since[g]
        /\ grants[g] \in Nat /\ since[g] \in Nat /\ forgets[g] \in Nat
    BY DEF RateInv, QueryInv
  <2>2. Limit * (forgets[g] + 1) = Limit * forgets[g] + Limit /\ Limit * forgets[g] \in Nat
    BY <1>0, <2>1
  <2> QED
    BY <1>0, <2>1, <2>2
<1> QED
  BY <1>1, <1>2, RateStep, TypeInvariant, PTL DEF ServiceSpec

\* The window only moves forward: a query that is to rotate found it behind its
\* own second, and one that has rotated left it there or later.
WindowInv ==
  \A q \in Queries :
    query[q].pc \in {"rotate", "reset"} =>
      /\ query[q].now > query[q].seen
      /\ start[query[q].engine] # Nothing
      /\ query[q].pc = "reset" => start[query[q].engine] >= query[q].now

\* Every step keeps the window moving forward, and lets one query rotate it.
LEMMA WindowStep ==
  ASSUME QueryInv, WindowInv, OneRotates, [ServiceNext]_serviceVars
  PROVE  WindowInv' /\ OneRotates'
<1>0. Nothing \notin Seconds /\ LastSecond \in Nat
  BY RateAssumption DEF Seconds
<1>1. ASSUME start' = start,
             \A p \in Queries :
               /\ query'[p].engine = query[p].engine /\ query'[p].now = query[p].now
               /\ query'[p].seen = query[p].seen /\ query'[p].pc = query[p].pc
               \/ query'[p].pc \notin {"rotate", "reset"}
      PROVE  WindowInv' /\ OneRotates'
  BY <1>1 DEF WindowInv, OneRotates
<1>2. ASSUME NEW q \in Queries, ReadWindow(q) PROVE WindowInv' /\ OneRotates'
  <2> DEFINE g == query[q].engine
             begin == IF start[g] = Nothing THEN query[q].now ELSE start[g]
  <2>1. query[q] \in Query /\ g \in Engines /\ begin \in Seconds
    BY DEF QueryInv, Query
  <2>2. start' = [start EXCEPT ![g] = begin] /\ start'[g] = begin
    BY <1>2, <2>1 DEF ReadWindow, QueryInv
  <2>3. query' = [query EXCEPT ![q].seen = begin,
                    ![q].pc = IF query[q].now > begin THEN "rotate" ELSE "consume"]
    BY <1>2 DEF ReadWindow
  <2>4. \A h \in Engines : start[h] # Nothing => start'[h] = start[h]
    BY <2>1, <2>2 DEF QueryInv
  <2>5. \A p \in Queries \ {q} : query'[p] = query[p] /\ query[p].engine \in Engines
    BY <2>3 DEF QueryInv, Query
  <2>6. /\ query'[q].pc # "reset" /\ query'[q].engine = g
        /\ query'[q].pc = "rotate" => query'[q].now > query'[q].seen
    BY <2>1, <2>3 DEF QueryInv, Query
  <2>7. start'[g] # Nothing
    BY <1>0, <2>1, <2>2
  <2> HIDE DEF g, begin
  <2> QED
    BY <2>4, <2>5, <2>6, <2>7 DEF WindowInv, OneRotates
<1>3. ASSUME NEW q \in Queries, Rotate(q) PROVE WindowInv' /\ OneRotates'
  <2> DEFINE g == query[q].engine
  <2>1. /\ query[q] \in Query /\ g \in Engines
        /\ query[q].now \in Nat /\ query[q].seen \in Nat
        /\ query[q].now > query[q].seen /\ start[g] = query[q].seen
    BY <1>3 DEF Rotate, QueryInv, Query, Seconds, WindowInv
  <2>2. start' = [start EXCEPT ![g] = query[q].now] /\ start'[g] = query[q].now
    BY <1>3, <2>1 DEF Rotate, QueryInv
  <2>3. query' = [query EXCEPT ![q].pc = "reset"]
    BY <1>3 DEF Rotate
  <2>4. \A p \in Queries \ {q} : query'[p] = query[p]
    BY <2>3 DEF QueryInv
  <2>5. /\ query'[q].pc = "reset" /\ query'[q].engine = g
        /\ query'[q].now = query[q].now /\ query'[q].seen = query[q].seen
    BY <2>1, <2>3 DEF QueryInv, Query
  <2>6. \A p \in Queries : query[p].pc = "reset" /\ query[p].engine = g =>
          query[p].seen # query[q].seen /\ query[p].now <= start'[g]
    BY <2>1, <2>2 DEF WindowInv, QueryInv, Query, Seconds
  <2>7. start'[g] # Nothing
    BY <1>0, <2>1, <2>2 DEF Query
  <2>8. \A p \in Queries : query[p].engine # g => start'[query[p].engine] = start[query[p].engine]
    BY <2>2 DEF QueryInv, Query
  <2>9. WindowInv'
    BY <2>1, <2>2, <2>4, <2>5, <2>6, <2>7, <2>8 DEF WindowInv
  <2>10. OneRotates'
    BY <2>4, <2>5, <2>6 DEF OneRotates
  <2> HIDE DEF g
  <2> QED
    BY <2>9, <2>10
<1>4. ASSUME NEW q \in Queries,
             Evaluate(q) \/ RotateFails(q) \/ Reset(q) \/ Consume(q) \/ Resolve(q)
      PROVE  WindowInv' /\ OneRotates'
  <2>1. start' = start
    BY <1>4 DEF Evaluate, RotateFails, Reset, Consume, Resolve, rateVars
  <2>2. \A p \in Queries \ {q} : query'[p] = query[p]
    BY <1>4 DEF Evaluate, RotateFails, Reset, Consume, Resolve, QueryInv
  <2>3. query'[q].pc \notin {"rotate", "reset"}
    <3>1. query[q] \in Query
      BY DEF QueryInv
    <3>2. CASE Evaluate(q)
      BY <3>1, <3>2 DEF Evaluate, QueryInv, Query
    <3>3. CASE RotateFails(q) \/ Reset(q) \/ Resolve(q)
      BY <3>1, <3>3 DEF RotateFails, Reset, Resolve, QueryInv, Query
    <3>4. CASE Consume(q)
      BY <3>1, <3>4 DEF Consume, QueryInv, Query
    <3> QED
      BY <1>4, <3>2, <3>3, <3>4
  <2> QED
    BY <1>1, <2>1, <2>2, <2>3
<1>5. ASSUME NEW e \in Editors, Admin(e) PROVE WindowInv' /\ OneRotates'
  <2>1. start' = start
    BY <1>5 DEF Admin, Reload, Edit, Begin, Truncate, Write, WriteFails, LoadFails, Load, SwapPolicy,
       SwapResolver, rateVars
  <2>2. query' = query \/ Disturb
    BY <1>5 DEF Admin, Reload, Edit, Begin, Truncate, Write, WriteFails, LoadFails, Load, SwapPolicy,
       SwapResolver
  <2>3. \A p \in Queries :
          /\ query'[p].engine = query[p].engine /\ query'[p].now = query[p].now
          /\ query'[p].seen = query[p].seen /\ query'[p].pc = query[p].pc
    BY <2>2 DEF Disturb, QueryInv, Query
  <2> QED
    BY <1>1, <2>1, <2>3
<1>6. CASE Tick \/ UNCHANGED serviceVars
  BY <1>1, <1>6 DEF Tick, serviceVars, rateVars
<1> QED
  BY <1>2, <1>3, <1>4, <1>5, <1>6 DEF ServiceNext, Serve

\* Of the queries that found the same window old, one rotates it.
THEOREM OneRotation == ServiceSpec => []OneRotates
<1>1. ServiceInit => WindowInv /\ OneRotates
  BY DEF ServiceInit, WindowInv, OneRotates
<1> QED
  BY <1>1, WindowStep, TypeInvariant, PTL DEF ServiceSpec
-----------------------------------------------------------------------------
(* Operations at the same time.                                             *)

\* As long as the latest policy swap crossed no other reload, whoever is between
\* its swaps is publishing what the policy was made from.
SwapInv ==
  ~crossed =>
    /\ \A e \in Swapping : editor[e].loaded = policy.cfg
    /\ Swapping = {} => policy.cfg = resolver

\* A calm query that is under way has seen no swap since it was judged.
CalmInv ==
  \A q \in Queries :
    /\ query[q].pc \notin {"idle", "resolved", "refused"} /\ query[q].calm =>
         Swapping = {} /\ query[q].mixed = crossed /\ query[q].cfg = policy.cfg
    /\ query[q].pc = "resolved" /\ query[q].calm /\ ~query[q].mixed =>
         query[q].resolver = query[q].cfg

\* An operation that nobody has overlapped so far finds in the file what it put
\* there itself, and between the swaps in the policy what it loaded.
LoneInv ==
  \A e \in Editors :
    UnderWay(e) /\ editor[e].alone =>
      /\ \A f \in Editors \ {e} : ~UnderWay(f)
      /\ editor[e].failed => editor[e].want # Nothing
      /\ editor[e].pc = "write" => disk = Empty
      /\ editor[e].pc \in {"load", "swapPolicy", "swapResolver"} /\ editor[e].want # Nothing =>
           /\ ~editor[e].failed => disk = editor[e].want
           /\ editor[e].failed /\ ~editor[e].unwritten => disk = editor[e].old
      /\ editor[e].pc \in {"swapPolicy", "swapResolver"} => editor[e].loaded = disk
      /\ editor[e].pc = "swapResolver" => policy.cfg = disk

\* An admin operation keeps the account of crossings.
LEMMA SwapStep ==
  ASSUME AdminInv, SwapInv, NEW e \in Editors, Admin(e)
  PROVE  SwapInv'
<1>1. CASE Reload(e) \/ Edit(e)
  <2>1. Swapping' = Swapping /\ \A f \in Swapping : editor'[f].loaded = editor[f].loaded
    BY <1>1, BeginStep DEF Swapping
  <2>2. UNCHANGED <<policy, resolver, crossed>>
    BY <1>1, BeginStep
  <2> QED
    BY <2>1, <2>2 DEF SwapInv
<1>2. CASE Truncate(e) \/ Write(e) \/ WriteFails(e) \/ LoadFails(e) \/ Load(e)
             \/ SwapPolicy(e) \/ SwapResolver(e)
  <2>1. PICK E \in Editor : StepTo(e, E)
    BY <1>2, OperationStep
  <2>2. editor'[e] = E /\ \A f \in Editors \ {e} : editor'[f] = editor[f]
    BY <2>1 DEF StepTo, Moves, AdminInv
  <2>3. CASE editor[e].pc = "swapPolicy"
    <3>1. /\ E.pc = "swapResolver" /\ E.loaded = policy'.cfg /\ crossed' = (Swapping # {})
      BY <2>1, <2>3 DEF StepTo
    <3>2. Swapping' = Swapping \cup {e}
      BY <2>2, <3>1 DEF Swapping
    <3> QED
      BY <2>2, <3>1, <3>2 DEF SwapInv
  <2>4. CASE editor[e].pc = "swapResolver"
    <3>1. E.pc = "done" /\ resolver' = editor[e].loaded /\ UNCHANGED <<policy, crossed>>
      BY <2>1, <2>4 DEF StepTo
    <3>2. Swapping' = Swapping \ {e} /\ e \in Swapping
      BY <2>2, <2>4, <3>1 DEF Swapping
    <3> QED
      BY <2>2, <3>1, <3>2 DEF SwapInv, Swapping
  <2>5. CASE editor[e].pc \notin {"swapPolicy", "swapResolver"}
    <3>1. E.pc # "swapResolver" /\ UNCHANGED <<policy, resolver, crossed>>
      BY <2>1, <2>5 DEF StepTo
    <3>2. Swapping' = Swapping /\ \A f \in Swapping : editor'[f] = editor[f]
      BY <2>2, <2>5, <3>1 DEF Swapping
    <3> QED
      BY <3>1, <3>2 DEF SwapInv
  <2> QED
    BY <2>3, <2>4, <2>5
<1> QED
  BY <1>1, <1>2 DEF Admin

\* An admin operation that is alone reaches its next phase; another one that
\* begins ends its being alone.
LEMMA LoneStep ==
  ASSUME AdminInv, LoneInv, NEW e \in Editors, Admin(e)
  PROVE  LoneInv'
<1>0. editor[e] \in Editor /\ Prepared(e)
  BY DEF AdminInv
<1>1. CASE Reload(e) \/ Edit(e)
  <2>1. \A f \in Editors \ {e} : UnderWay(f)' => ~editor'[f].alone
    BY <1>1, BeginStep DEF UnderWay
  <2>2. editor'[e].alone => \A f \in Editors \ {e} : ~UnderWay(f)'
    BY <1>1, BeginStep DEF UnderWay
  <2>3. editor'[e].pc \in {"truncate", "load"} /\ ~editor'[e].failed
        /\ (editor'[e].pc = "load" => editor'[e].want = Nothing)
    BY <1>1, BeginStep
  <2> QED
    BY <2>1, <2>2, <2>3 DEF LoneInv
<1>2. CASE Truncate(e) \/ Write(e) \/ WriteFails(e) \/ LoadFails(e) \/ Load(e)
             \/ SwapPolicy(e) \/ SwapResolver(e)
  <2>1. PICK E \in Editor : StepTo(e, E)
    BY <1>2, OperationStep
  <2>2. editor'[e] = E /\ \A f \in Editors \ {e} : editor'[f] = editor[f]
    BY <2>1 DEF StepTo, Moves, AdminInv
  <2>3. UnderWay(e) /\ E.alone = editor[e].alone
        /\ E.want = editor[e].want /\ E.old = editor[e].old
    BY <2>1 DEF StepTo, UnderWay
  <2>4. \A f \in Editors \ {e} : UnderWay(f)' => ~editor'[f].alone
    BY <2>2, <2>3 DEF LoneInv, UnderWay
  <2>5. ASSUME UnderWay(e)', E.alone
        PROVE  /\ E.failed => E.want # Nothing
               /\ E.pc = "write" => disk' = Empty
               /\ E.pc \in {"load", "swapPolicy", "swapResolver"} /\ E.want # Nothing =>
                    /\ ~E.failed => disk' = E.want
                    /\ E.failed /\ ~E.unwritten => disk' = E.old
               /\ E.pc \in {"swapPolicy", "swapResolver"} => E.loaded = disk'
               /\ E.pc = "swapResolver" => policy'.cfg = disk'
    <3>1. /\ editor[e].failed => editor[e].want # Nothing
          /\ editor[e].pc = "write" => disk = Empty
          /\ editor[e].pc \in {"load", "swapPolicy", "swapResolver"} /\ editor[e].want # Nothing =>
               /\ ~editor[e].failed => disk = editor[e].want
               /\ editor[e].failed /\ ~editor[e].unwritten => disk = editor[e].old
          /\ editor[e].pc \in {"swapPolicy", "swapResolver"} => editor[e].loaded = disk
          /\ editor[e].pc = "swapResolver" => policy.cfg = disk
      BY <2>3, <2>5 DEF LoneInv
    <3> QED
      BY <1>0, <2>1, <2>2, <2>3, <2>5, <3>1 DEF StepTo, Text, UnderWay, Prepared
  <2>6. E.alone => \A f \in Editors \ {e} : ~UnderWay(f)'
    BY <2>2, <2>3 DEF LoneInv, UnderWay
  <2> QED
    BY <2>2, <2>4, <2>5, <2>6 DEF LoneInv
<1> QED
  BY <1>1, <1>2 DEF Admin

\* Queries and swaps keep what a calm query has seen.
LEMMA CalmStep ==
  ASSUME AdminInv, QueryInv, SwapInv, CalmInv, ServiceNext
  PROVE  CalmInv'
<1>1. CASE Disturb
  <2>1. \A q \in Queries :
          /\ query'[q].calm => query[q].calm /\ query[q].pc = "idle"
          /\ query'[q].pc = query[q].pc
    BY <1>1 DEF Disturb, QueryInv, Query
  <2> QED
    BY <2>1 DEF CalmInv
<1>2. ASSUME NEW e \in Editors, Admin(e) PROVE CalmInv'
  <2>1. CASE SwapPolicy(e) \/ SwapResolver(e)
    BY <1>1, <2>1 DEF SwapPolicy, SwapResolver
  <2>2. CASE Reload(e) \/ Edit(e)
    <3>1. Swapping' = Swapping /\ UNCHANGED <<policy, crossed, query>>
      BY <2>2, BeginStep DEF Swapping
    <3> QED
      BY <3>1 DEF CalmInv
  <2>3. CASE Truncate(e) \/ Write(e) \/ WriteFails(e) \/ LoadFails(e) \/ Load(e)
    <3>1. PICK E \in Editor : StepTo(e, E)
      BY <2>3, OperationStep
    <3>2. editor'[e] = E /\ \A f \in Editors \ {e} : editor'[f] = editor[f]
      BY <3>1 DEF StepTo, Moves, AdminInv
    <3>3. editor[e].pc \notin {"swapPolicy", "swapResolver"} /\ UNCHANGED query
      BY <2>3 DEF Truncate, Write, WriteFails, LoadFails, Load
    <3>4. E.pc # "swapResolver" /\ UNCHANGED <<policy, crossed>>
      BY <3>1, <3>3 DEF StepTo
    <3>5. Swapping' = Swapping
      BY <3>2, <3>3, <3>4 DEF Swapping
    <3> QED
      BY <3>3, <3>4, <3>5 DEF CalmInv
  <2> QED
    BY <1>2, <2>1, <2>2, <2>3 DEF Admin
<1>3. CASE Tick
  BY <1>3 DEF Tick, adminVars, CalmInv, Swapping
<1>4. ASSUME NEW q \in Queries, Serve(q) PROVE CalmInv'
  <2>1. query[q] \in Query /\ UNCHANGED <<policy, crossed>> /\ Swapping' = Swapping
    BY <1>4 DEF QueryInv, Serve, Evaluate, ReadWindow, Rotate, RotateFails, Reset,
       Consume, Resolve, adminVars, Swapping
  <2>2. \A p \in Queries \ {q} : query'[p] = query[p]
    BY <1>4 DEF QueryInv, Serve, Evaluate, ReadWindow, Rotate, RotateFails, Reset,
       Consume, Resolve
  <2>3. CASE Evaluate(q)
    <3>1. /\ query'[q].calm = (Swapping = {}) /\ query'[q].cfg = policy.cfg
          /\ query'[q].pc = "window" /\ query'[q].mixed = crossed
      BY <2>1, <2>3 DEF Evaluate, QueryInv, Query
    <3> QED
      BY <2>1, <2>2, <3>1 DEF CalmInv
  <2>4. CASE Resolve(q)
    <3>1. /\ query'[q].calm = query[q].calm /\ query'[q].cfg = query[q].cfg
          /\ query'[q].pc = "resolved" /\ query'[q].resolver = resolver
          /\ query[q].pc = "resolve" /\ query'[q].mixed = query[q].mixed
      BY <2>1, <2>4 DEF Resolve, QueryInv, Query
    <3>2. query[q].calm /\ ~query[q].mixed => query[q].cfg = resolver
      BY <3>1 DEF CalmInv, SwapInv
    <3> QED
      BY <2>1, <2>2, <3>1, <3>2 DEF CalmInv
  <2>5. CASE ReadWindow(q) \/ Rotate(q) \/ RotateFails(q) \/ Reset(q) \/ Consume(q)
    <3>1. /\ query[q].pc \notin {"idle", "resolved", "refused"}
          /\ query'[q].pc \notin {"idle", "resolved"}
      BY <2>1, <2>5 DEF ReadWindow, Rotate, RotateFails, Reset, Consume, QueryInv, Query
    <3>2. /\ query'[q].calm = query[q].calm /\ query'[q].cfg = query[q].cfg
          /\ query'[q].mixed = query[q].mixed
      BY <2>1, <2>5 DEF ReadWindow, Rotate, RotateFails, Reset, Consume, QueryInv, Query
    <3> QED
      BY <2>1, <2>2, <3>1, <3>2 DEF CalmInv
  <2> QED
    BY <1>4, <2>3, <2>4, <2>5 DEF Serve
<1> QED
  BY <1>2, <1>3, <1>4 DEF ServiceNext

\* All of it holds in every reachable state.
THEOREM ConcurrencyInvariant ==
  ServiceSpec => [](AdminInv /\ QueryInv /\ SwapInv /\ LoneInv /\ CalmInv)
<1>1. ServiceInit => SwapInv /\ LoneInv /\ CalmInv
  BY DEF ServiceInit, SwapInv, LoneInv, CalmInv, Swapping, UnderWay
<1>2. AdminInv /\ QueryInv /\ SwapInv /\ LoneInv /\ CalmInv /\ [ServiceNext]_serviceVars =>
        SwapInv' /\ LoneInv' /\ CalmInv'
  <2> SUFFICES ASSUME AdminInv, QueryInv, SwapInv, LoneInv, CalmInv, [ServiceNext]_serviceVars
               PROVE  SwapInv' /\ LoneInv' /\ CalmInv'
    OBVIOUS
  <2>1. CASE \E e \in Editors : Admin(e)
    BY <2>1, SwapStep, LoneStep, CalmStep DEF ServiceNext
  <2>2. CASE Tick \/ (\E q \in Queries : Serve(q))
    <3>1. UNCHANGED <<disk, resolver, editor, crossed, policy>>
      BY <2>2 DEF Tick, Serve, Evaluate, ReadWindow, Rotate, RotateFails, Reset,
         Consume, Resolve, adminVars
    <3>2. SwapInv' /\ LoneInv'
      BY <3>1 DEF SwapInv, LoneInv, Swapping, UnderWay
    <3> QED
      BY <2>2, <3>2, CalmStep DEF ServiceNext
  <2>3. CASE UNCHANGED serviceVars
    BY <2>3 DEF serviceVars, adminVars, SwapInv, LoneInv, CalmInv, Swapping, UnderWay
  <2> QED
    BY <2>1, <2>2, <2>3 DEF ServiceNext
<1> QED
  BY <1>1, <1>2, TypeInvariant, PTL DEF ServiceSpec

\* However many admin operations interleave and whatever fails in them, policy
\* and resolver are of two configurations only after a crossing of two reloads.
THEOREM MixedOnlyByCrossing == ServiceSpec => []MixNeedsCrossing
<1>1. SwapInv => MixNeedsCrossing
  BY DEF SwapInv, MixNeedsCrossing
<1> QED
  BY <1>1, ConcurrencyInvariant, PTL

\* A query that overlaps no swap, after reloads that did not cross, is judged and
\* resolved under one configuration.
THEOREM QueriesAgree == ServiceSpec => []CalmQueriesAgree
<1>1. CalmInv => CalmQueriesAgree
  BY DEF CalmInv, CalmQueriesAgree
<1> QED
  BY <1>1, ConcurrencyInvariant, PTL

\* An operation that nobody overlapped ends with file, policy and resolver as it
\* made them, or with the file as it was if its text does not load.
THEOREM LoneOperations == ServiceSpec => LoneOperationsAreWhole
<1>1. AdminInv /\ LoneInv /\ [ServiceNext]_serviceVars =>
        [\A e \in Editors :
           LET end == editor'[e]
           IN editor[e].pc # "done" /\ end.pc = "done" /\ end.alone =>
                /\ end.loaded # Nothing => policy'.cfg = disk' /\ resolver' = disk'
                /\ ~end.failed => end.loaded # Nothing /\ end.want \in {Nothing, disk'}
                /\ end.failed /\ ~end.unwritten => end.want = Nothing \/ disk' = end.old
        ]_serviceVars
  <2> SUFFICES ASSUME AdminInv, LoneInv, ServiceNext, NEW e \in Editors,
                      editor[e].pc # "done", editor'[e].pc = "done", editor'[e].alone
               PROVE  /\ editor'[e].loaded # Nothing => policy'.cfg = disk' /\ resolver' = disk'
                      /\ ~editor'[e].failed =>
                           editor'[e].loaded # Nothing /\ editor'[e].want \in {Nothing, disk'}
                      /\ editor'[e].failed /\ ~editor'[e].unwritten =>
                           editor'[e].want = Nothing \/ disk' = editor'[e].old
    OBVIOUS
  <2>0. editor[e] \in Editor /\ Prepared(e)
    BY DEF AdminInv
  <2>1. PICK f \in Editors : Admin(f)
    BY DEF ServiceNext, Tick, Serve, Evaluate, ReadWindow, Rotate, RotateFails, Reset,
       Consume, Resolve, adminVars
  <2>2. ~(Reload(f) \/ Edit(f))
    BY BeginStep
  <2>3. PICK E \in Editor : StepTo(f, E)
    BY <2>1, <2>2, OperationStep DEF Admin
  <2>4. f = e
    BY <2>3 DEF StepTo, Moves, AdminInv
  <2>5. editor'[e] = E /\ UnderWay(e) /\ editor[e].alone
    BY <2>3, <2>4 DEF StepTo, Moves, UnderWay
  <2>6. /\ editor[e].pc \in {"load", "swapPolicy", "swapResolver"} /\ editor[e].want # Nothing =>
             /\ ~editor[e].failed => disk = editor[e].want
             /\ editor[e].failed /\ ~editor[e].unwritten => disk = editor[e].old
        /\ editor[e].pc = "swapResolver" => editor[e].loaded = disk /\ policy.cfg = disk
    BY <2>5 DEF LoneInv
  <2> QED
    BY <2>0, <2>3, <2>4, <2>5, <2>6 DEF StepTo, Prepared
<1> QED
  BY <1>1, ConcurrencyInvariant, PTL DEF ServiceSpec, LoneOperationsAreWhole
=============================================================================
