------------------------------- MODULE Agent -------------------------------
(***************************************************************************)
(* The control agent and the worker processes it spawns: the slot that     *)
(* holds the current child, guarded by a lock that Start and Stop release  *)
(* while they spawn, talk to the admin address and wait; the main task     *)
(* that starts a worker first and stops the one in the slot last; and the  *)
(* workers, of which one at a time can hold the listen addresses.          *)
(*                                                                         *)
(* Left out: framing, versions and tokens of the control protocol, and the *)
(* commands that only relay a request to the admin address, which do not   *)
(* touch the slot.  A worker that serves answers its admin address.        *)
(***************************************************************************)
EXTENDS FiniteSets

CONSTANTS
  Commands,     \* control connections
  Workers,      \* worker processes that may be spawned
  Main,         \* the main task of the agent
  None

ASSUME ActorsAssumption == Main \notin Commands /\ None \notin Workers

Actors == Commands \cup {Main}

VARIABLES
  proc,      \* state of each worker process
  slot,      \* AgentRuntime.worker
  pc,        \* where each actor is
  kind,      \* what it is doing: "start", "stop" or "stopAll"
  child,     \* the Child value it holds
  reply,     \* what a command answered
  shutdown,  \* the watch channel
  \* History: never read by the commands.
  overlap,   \* two Starts found no worker before either stored its own
  abandoned  \* workers whose Stop answered that it had failed

vars == <<proc, slot, pc, kind, child, reply, shutdown, overlap, abandoned>>

Live(w) == proc[w] \in {"starting", "serving"}
Down == pc[Main] = "ended"      \* the process is gone, and its tasks with it
Between(a) == pc[a] \in {"spawn", "store"}

Init ==
  /\ proc = [w \in Workers |-> "none"]
  /\ slot = None
  /\ pc = [a \in Actors |-> IF a = Main THEN "check" ELSE "idle"]
  /\ kind = [a \in Actors |-> "start"]
  /\ child = [a \in Actors |-> None]
  /\ reply = [a \in Actors |-> "none"]
  /\ shutdown = FALSE
  /\ overlap = FALSE
  /\ abandoned = {}

Go(a, label) == pc' = [pc EXCEPT ![a] = label]

\* A command is answered.  The main task goes on to listen, or ends, and with
\* the runtime every task that is not done; a Child they held lives on.
MainEnds(a, answer) == a = Main /\ (kind[a] = "stop" \/ answer = "spawnFailed")

Finish(a, answer) ==
  /\ pc' = IF MainEnds(a, answer)
           THEN [b \in Actors |-> IF b = Main THEN "ended"
                                  ELSE IF pc[b] = "done" THEN "done" ELSE "dropped"]
           ELSE [pc EXCEPT ![a] = IF a = Main THEN "listening" ELSE "done"]
  /\ reply' = [reply EXCEPT ![a] = answer]
-----------------------------------------------------------------------------
(* Commands arrive while the main task listens. *)
Arrive(c) ==
  /\ pc[c] = "idle"
  /\ pc[Main] = "listening"
  /\ \E k \in {"start", "stop", "stopAll"} :
       /\ kind' = [kind EXCEPT ![c] = k]
       /\ Go(c, IF k = "start" THEN "check" ELSE "take")
  /\ UNCHANGED <<proc, slot, child, reply, shutdown, overlap, abandoned>>

(* ensure_worker_started *)

\* Mutant: a child in the slot is never found running.
CheckBlind(a) ==
  /\ pc[a] = "check"
  /\ slot' = None
  /\ overlap' = (overlap \/ \E b \in Actors \ {a} : Between(b))
  /\ Go(a, "spawn")
  /\ UNCHANGED <<proc, kind, child, reply, shutdown, abandoned>>

\* Under the lock: worker_running, which empties the slot of a dead child.
Check(a) ==
  /\ pc[a] = "check"
  /\ IF slot # None /\ Live(slot)
     THEN Finish(a, "alreadyRunning") /\ UNCHANGED <<slot, overlap>>
     ELSE /\ slot' = None
          /\ overlap' = (overlap \/ \E b \in Actors \ {a} : Between(b))
          /\ Go(a, "spawn")
          /\ UNCHANGED reply
  /\ UNCHANGED <<proc, kind, child, shutdown, abandoned>>

Fresh == {w \in Workers : proc[w] = "none"}

Spawn(a) ==
  /\ pc[a] = "spawn"
  /\ Fresh # {}
  /\ LET w == CHOOSE v \in Fresh : TRUE
     IN /\ proc' = [proc EXCEPT ![w] = "starting"]
        /\ child' = [child EXCEPT ![a] = w]
  /\ Go(a, "store")
  /\ UNCHANGED <<slot, kind, reply, shutdown, overlap, abandoned>>

SpawnFails(a) ==
  /\ pc[a] = "spawn"
  /\ Finish(a, "spawnFailed")
  /\ UNCHANGED <<proc, slot, kind, child, shutdown, overlap, abandoned>>

\* Under the lock again: whatever child the slot holds is dropped, not killed.
Store(a) ==
  /\ pc[a] = "store"
  /\ slot' = child[a]
  /\ child' = [child EXCEPT ![a] = None]
  /\ Finish(a, "started")
  /\ UNCHANGED <<proc, kind, shutdown, overlap, abandoned>>

(* Stop, StopAll, shutdown_runtime_worker and stop_worker *)

\* Mutant: the child stays in the slot while it is stopped.
TakeLeaves(a) ==
  /\ pc[a] = "take"
  /\ slot # None
  /\ child' = [child EXCEPT ![a] = slot]
  /\ Go(a, "post")
  /\ UNCHANGED <<proc, slot, kind, reply, shutdown, overlap, abandoned>>

Take(a) ==
  /\ pc[a] = "take"
  /\ slot # None
  /\ child' = [child EXCEPT ![a] = slot]
  /\ slot' = None
  /\ Go(a, "post")
  /\ UNCHANGED <<proc, kind, reply, shutdown, overlap, abandoned>>

Announce(a) == shutdown' = (shutdown \/ kind[a] = "stopAll")

TakeNothing(a) ==
  /\ pc[a] = "take"
  /\ slot = None
  /\ Finish(a, "notRunning")
  /\ Announce(a)
  /\ UNCHANGED <<proc, slot, kind, child, overlap, abandoned>>

\* POST /shutdown goes to the admin address, so to whichever worker holds it:
\* the exit it brings about is Exit, which any live worker may take.
Post(a) ==
  /\ pc[a] = "post"
  /\ Go(a, "wait")
  /\ UNCHANGED <<proc, slot, kind, child, reply, shutdown, overlap, abandoned>>

Reaped(a) ==
  /\ child' = [child EXCEPT ![a] = None]
  /\ Finish(a, "stopped")
  /\ Announce(a)

\* It exited before it was looked at, or within the three seconds.
Reap(a) ==
  /\ pc[a] = "wait"
  /\ proc[child[a]] = "exited"
  /\ Reaped(a)
  /\ UNCHANGED <<proc, slot, kind, overlap, abandoned>>

\* Mutant: the wait has no end.
KillNever(a) ==
  /\ pc[a] = "wait"
  /\ proc[child[a]] = "exited"
  /\ Reaped(a)
  /\ UNCHANGED <<proc, slot, kind, overlap, abandoned>>

KillAfterTimeout(a) ==
  /\ pc[a] = "wait"
  /\ Live(child[a])
  /\ proc' = [proc EXCEPT ![child[a]] = "exited"]
  /\ Reaped(a)
  /\ UNCHANGED <<slot, kind, overlap, abandoned>>

\* try_wait, wait or kill fails: the Child is dropped, whatever it is doing.
StopFails(a) ==
  /\ pc[a] = "wait"
  /\ child' = [child EXCEPT ![a] = None]
  /\ abandoned' = abandoned \cup {child[a]}
  /\ Finish(a, "stopFailed")
  /\ Announce(a)
  /\ UNCHANGED <<proc, slot, kind, overlap>>

(* run_agent, after the loop *)

\* The watch channel changed, or Ctrl+C.
LeaveLoop ==
  /\ pc[Main] = "listening"
  /\ kind' = [kind EXCEPT ![Main] = "stop"]
  /\ Go(Main, "take")
  /\ UNCHANGED <<proc, slot, child, reply, shutdown, overlap, abandoned>>

(* The worker process *)

Bind(w) ==
  /\ proc[w] = "starting"
  /\ \A v \in Workers : proc[v] # "serving"
  /\ proc' = [proc EXCEPT ![w] = "serving"]
  /\ UNCHANGED <<slot, pc, kind, child, reply, shutdown, overlap, abandoned>>

\* One of the addresses is taken.
BindFails(w) ==
  /\ proc[w] = "starting"
  /\ \E v \in Workers \ {w} : Live(v)
  /\ proc' = [proc EXCEPT ![w] = "exited"]
  /\ UNCHANGED <<slot, pc, kind, child, reply, shutdown, overlap, abandoned>>

\* wait_shutdown, or a crash.
Exit(w) ==
  /\ Live(w)
  /\ proc' = [proc EXCEPT ![w] = "exited"]
  /\ UNCHANGED <<slot, pc, kind, child, reply, shutdown, overlap, abandoned>>

Act(a) ==
  \/ Check(a) \/ Spawn(a) \/ SpawnFails(a) \/ Store(a)
  \/ Take(a) \/ TakeNothing(a) \/ Post(a) \/ Reap(a) \/ KillAfterTimeout(a)

Next ==
  \/ \E c \in Commands : Arrive(c)
  \/ \E a \in Actors : Act(a) \/ StopFails(a)
  \/ LeaveLoop
  \/ \E w \in Workers : Bind(w) \/ BindFails(w) \/ Exit(w)

Spec == Init /\ [][Next]_vars

\* The runtime polls every task; the wait has a timeout; the main task leaves
\* its loop once the channel says so.
FairSpec ==
  /\ Spec
  /\ \A a \in Actors : WF_vars(Act(a))
  /\ WF_vars(shutdown /\ LeaveLoop)
-----------------------------------------------------------------------------
(* Properties *)

\* The variables keep their types, and an actor holds a child exactly while it
\* is about to store or to stop one.
TypeOK ==
  /\ proc \in [Workers -> {"none", "starting", "serving", "exited"}]
  /\ slot \in Workers \cup {None}
  /\ pc \in [Actors -> {"idle", "check", "spawn", "store", "take", "post", "wait",
                        "listening", "done", "dropped", "ended"}]
  /\ kind \in [Actors -> {"start", "stop", "stopAll"}]
  /\ child \in [Actors -> Workers \cup {None}]
  /\ \A a \in Actors : pc[a] # "dropped" =>
       (child[a] # None <=> pc[a] \in {"store", "post", "wait"})
  /\ reply \in [Actors -> {"none", "alreadyRunning", "spawnFailed", "started",
                           "notRunning", "stopped", "stopFailed"}]
  /\ shutdown \in BOOLEAN
  /\ overlap \in BOOLEAN
  /\ abandoned \subseteq Workers

\* Two owners never hold the same child: the slot and the commands that took
\* from it or are about to fill it are all different, so no child is stopped,
\* waited for or stored twice.
ChildHeldOnce ==
  /\ \A a, b \in Actors : child[a] = child[b] /\ child[a] # None => a = b
  /\ \A a \in Actors : child[a] # None => child[a] # slot

Owned(w) == slot = w \/ \E a \in Actors : child[a] = w

\* A live worker that neither the slot nor a command holds exists only if two
\* Starts overlapped, for ensure_worker_started releases the lock to spawn, or if
\* the Stop that had taken it answered that it failed.  It holds past the end of
\* the agent, whose cut-off commands still name theirs.
OrphanNeedsOverlap ==
  overlap \/ \A w \in Workers : Live(w) => Owned(w) \/ w \in abandoned

\* A command that lets go of the child it is stopping leaves it dead, whichever
\* worker the /shutdown call reached, or answers that it failed.
StoppedIsDead ==
  [][\A a \in Actors :
       pc[a] = "wait" /\ child'[a] # child[a] =>
         proc'[child[a]] = "exited" \/ reply'[a] = "stopFailed"]_vars

\* Every command is answered, unless the agent goes first.
CommandsAnswered ==
  \A c \in Commands : pc[c] \in {"check", "take"} ~> (pc[c] = "done" \/ Down)

\* A StopAll that was answered ends the agent.
ShutdownEndsAgent == shutdown ~> Down
=============================================================================
