---------------------------- MODULE UdpTransport ----------------------------
(***************************************************************************)
(* One shard of the upstream UDP transport: the callers of                 *)
(* UpstreamUdpTransport::query, the channel to the dispatcher task, its    *)
(* map of pending query ids, the socket, and the replies on their way.     *)
(*                                                                         *)
(* Ids come from one wrapping counter, so two queries a full turn apart    *)
(* share theirs; IdSpace is how many ids one turn gives this shard.        *)
(* Replies may be lost, late, duplicated or reordered.  Time is the action *)
(* by which a query's deadline passes.                                     *)
(***************************************************************************)
EXTENDS Integers, FiniteSets, Sequences

CONSTANTS
  Queries,
  None,
  IdSpace,      \* ids of this shard before the counter repeats
  ChannelCap    \* bound of the mpsc channel (4096 in the code)

ASSUME IdAssumption == IdSpace \in Nat \ {0}
ASSUME ChannelAssumption == ChannelCap \in Nat \ {0}
ASSUME NoneAssumption ==
  None \notin Queries /\ None \notin [ok : BOOLEAN, from : Queries \cup {None}]

VARIABLES
  nextId,    \* next_iterative_query_id
  id,        \* the id each query was given
  caller,    \* where the caller of each query is
  overdue,   \* its deadline has passed
  queue,     \* the mpsc channel
  pending,   \* id -> query waiting for a reply
  wire,      \* replies that may still arrive: [id, from]
  slot,      \* the oneshot of each query: what the dispatcher sent
  result,    \* what the caller returns
  mode       \* the dispatcher task: serving, draining after a failed bind, ended

udpVars == <<nextId, id, caller, overdue, queue, pending, wire, slot, result, mode>>

Ids == 0..(IdSpace - 1)
Failed == [ok |-> FALSE, from |-> None]
AnswerOf(q) == [ok |-> TRUE, from |-> q]
Outcome == [ok : BOOLEAN, from : Queries \cup {None}]
Reply == [id : Ids, from : Queries]

InQueue(q) == \E i \in DOMAIN queue : queue[i] = q
Idle == \A i \in Ids : pending[i] = None

Init ==
  /\ nextId = 0
  /\ id = [q \in Queries |-> 0]
  /\ caller = [q \in Queries |-> "idle"]
  /\ overdue = [q \in Queries |-> FALSE]
  /\ queue = <<>>
  /\ pending = [i \in Ids |-> None]
  /\ wire = {}
  /\ slot = [q \in Queries |-> None]
  /\ result = [q \in Queries |-> None]
  /\ mode \in {"serving", "bindFailed"}
-----------------------------------------------------------------------------
(* The caller: UpstreamUdpTransport::query *)

\* The id and the deadline are fixed before the channel has room.
Submit(q) ==
  /\ caller[q] = "idle"
  /\ id' = [id EXCEPT ![q] = nextId]
  /\ nextId' = (nextId + 1) % IdSpace
  /\ caller' = [caller EXCEPT ![q] = "sending"]
  /\ UNCHANGED <<overdue, queue, pending, wire, slot, result, mode>>

Enqueue(q) ==
  /\ caller[q] = "sending"
  /\ mode # "ended"
  /\ Len(queue) < ChannelCap
  /\ queue' = Append(queue, q)
  /\ caller' = [caller EXCEPT ![q] = "waiting"]
  /\ UNCHANGED <<nextId, id, overdue, pending, wire, slot, result, mode>>

\* Mutant: a closed channel is retried instead of reported.
EnqueueClosedRetries(q) ==
  /\ caller[q] = "sending"
  /\ mode = "ended"
  /\ UNCHANGED udpVars

Return(q, r) ==
  /\ caller' = [caller EXCEPT ![q] = "done"]
  /\ result' = [result EXCEPT ![q] = r]

\* "upstream udp transport channel closed"
EnqueueClosed(q) ==
  /\ caller[q] = "sending"
  /\ mode = "ended"
  /\ Return(q, Failed)
  /\ UNCHANGED <<nextId, id, overdue, queue, pending, wire, slot, mode>>

TakeReply(q) ==
  /\ caller[q] = "waiting"
  /\ slot[q] # None
  /\ Return(q, slot[q])
  /\ UNCHANGED <<nextId, id, overdue, queue, pending, wire, slot, mode>>

\* The caller's own timer: it starts after the send, the dispatcher's deadline
\* before, but the dispatcher only looks at deadlines when its tick comes.
TimeOut(q) ==
  /\ caller[q] = "waiting"
  /\ slot[q] = None
  /\ overdue[q]
  /\ Return(q, Failed)
  /\ UNCHANGED <<nextId, id, overdue, queue, pending, wire, slot, mode>>

DeadlinePasses(q) ==
  /\ caller[q] \in {"sending", "waiting"}
  /\ ~overdue[q]
  /\ overdue' = [overdue EXCEPT ![q] = TRUE]
  /\ UNCHANGED <<nextId, id, caller, queue, pending, wire, slot, result, mode>>
-----------------------------------------------------------------------------
(* The dispatcher: run_upstream_udp_dispatcher *)

\* A oneshot send; the caller may have left, which is ignored.
Tell(S, r) == slot' = [q \in Queries |-> IF q \in S THEN r ELSE slot[q]]

\* Mutant: the insert drops the replaced entry without failing its query.
DispatchForgets ==
  /\ mode = "serving"
  /\ queue # <<>>
  /\ LET q == Head(queue)
     IN \/ /\ pending' = [pending EXCEPT ![id[q]] = q]
           /\ wire' = wire \cup {[id |-> id[q], from |-> q]}
           /\ UNCHANGED slot
        \/ /\ pending' = [pending EXCEPT ![id[q]] = None]
           /\ Tell({q}, Failed)
           /\ UNCHANGED wire
  /\ queue' = Tail(queue)
  /\ UNCHANGED <<nextId, id, caller, overdue, result, mode>>

\* receiver.recv(): a pending query of the same id is failed and replaced.
Dispatch ==
  /\ mode = "serving"
  /\ queue # <<>>
  /\ LET q == Head(queue)
         replaced == {p \in Queries : pending[id[q]] = p}
     IN \/ /\ pending' = [pending EXCEPT ![id[q]] = q]
           /\ wire' = wire \cup {[id |-> id[q], from |-> q]}
           /\ Tell(replaced, Failed)
        \/ /\ pending' = [pending EXCEPT ![id[q]] = None]    \* send_to fails
           /\ Tell(replaced \cup {q}, Failed)
           /\ UNCHANGED wire
  /\ queue' = Tail(queue)
  /\ UNCHANGED <<nextId, id, caller, overdue, result, mode>>

\* Mutant: any pending query takes the reply.
ReceiveAnyone(m) ==
  /\ mode = "serving"
  /\ \E i \in Ids :
       /\ pending[i] # None
       /\ pending' = [pending EXCEPT ![i] = None]
       /\ Tell({pending[i]}, AnswerOf(m.from))
  /\ wire' \in {wire, wire \ {m}}
  /\ UNCHANGED <<nextId, id, caller, overdue, queue, result, mode>>

\* socket.recv_from: only the id says whose reply it is.
Receive(m) ==
  /\ mode = "serving"
  /\ ~Idle
  /\ pending' = [pending EXCEPT ![m.id] = None]
  /\ Tell({q \in Queries : pending[m.id] = q}, AnswerOf(m.from))
  /\ wire' \in {wire, wire \ {m}}
  /\ UNCHANGED <<nextId, id, caller, overdue, queue, result, mode>>

\* A receive error fails everything pending and ends the task; what is still
\* in the channel is dropped, and with it the oneshots.
ReceiveError ==
  /\ mode = "serving"
  /\ ~Idle
  /\ Tell({q \in Queries : pending[id[q]] = q \/ InQueue(q)}, Failed)
  /\ pending' = [i \in Ids |-> None]
  /\ queue' = <<>>
  /\ mode' = "ended"
  /\ UNCHANGED <<nextId, id, caller, overdue, wire, result>>

\* The cleanup tick.
Expired == {i \in Ids : pending[i] # None /\ overdue[pending[i]]}

Cleanup ==
  /\ mode = "serving"
  /\ Expired # {}
  /\ Tell({pending[i] : i \in Expired}, Failed)
  /\ pending' = [i \in Ids |-> IF i \in Expired THEN None ELSE pending[i]]
  /\ UNCHANGED <<nextId, id, caller, overdue, queue, wire, result, mode>>

\* Without a socket the task only fails what it is sent.
FailUnbound ==
  /\ mode = "bindFailed"
  /\ queue # <<>>
  /\ Tell({Head(queue)}, Failed)
  /\ queue' = Tail(queue)
  /\ UNCHANGED <<nextId, id, caller, overdue, pending, wire, result, mode>>

CallerStep(q) ==
  Submit(q) \/ Enqueue(q) \/ EnqueueClosed(q) \/ TakeReply(q) \/ TimeOut(q)

DispatcherStep ==
  \/ Dispatch \/ ReceiveError \/ Cleanup \/ FailUnbound
  \/ \E m \in wire : Receive(m)

Next ==
  \/ \E q \in Queries : CallerStep(q) \/ DeadlinePasses(q)
  \/ DispatcherStep

Spec == Init /\ [][Next]_udpVars

\* Clocks advance, the runtime polls ready tasks.  No fairness for replies.
Fairness ==
  /\ \A q \in Queries :
       /\ WF_udpVars(Enqueue(q) \/ EnqueueClosed(q) \/ TakeReply(q) \/ TimeOut(q))
       /\ WF_udpVars(DeadlinePasses(q))
  /\ WF_udpVars(Dispatch \/ FailUnbound)

FairSpec == Spec /\ Fairness
-----------------------------------------------------------------------------
\* Every variable of the UDP transport keeps its type.
TypeOK ==
  /\ nextId \in Ids
  /\ id \in [Queries -> Ids]
  /\ caller \in [Queries -> {"idle", "sending", "waiting", "done"}]
  /\ overdue \in [Queries -> BOOLEAN]
  /\ queue \in Seq(Queries)
  /\ pending \in [Ids -> Queries \cup {None}]
  /\ wire \subseteq Reply
  /\ slot \in [Queries -> Outcome \cup {None}]
  /\ result \in [Queries -> Outcome \cup {None}]
  /\ mode \in {"serving", "bindFailed", "ended"}

\* A pending entry sits under its own id.
PendingUnderOwnId ==
  \A i \in Ids : pending[i] # None => id[pending[i]] = i

\* No query is forgotten: whoever still waits for its oneshot is in the channel
\* or in the pending map, whatever collides, fails or dies in between.
NobodyForgotten ==
  \A q \in Queries :
    caller[q] = "waiting" /\ slot[q] = None =>
      InQueue(q) \/ pending[id[q]] = q

\* A reply reaches the wrong query only through a reused id: the question it
\* answers was sent under the same id, and its own caller no longer waits in
\* the pending map.
CrossTalkNeedsReuse ==
  \A q, p \in Queries :
    slot[q] = AnswerOf(p) /\ p # q => id[p] = id[q] /\ pending[id[p]] # p

Promise == INSTANCE Transport WITH
  status <- [q \in Queries |-> IF caller[q] \in {"sending", "waiting"}
                               THEN "open" ELSE caller[q]],
  replied <- {q \in Queries : result[q] # None /\ result[q].ok}

\* The UDP transport keeps the promise of a transport: every query submitted
\* returns once, over collisions, a full channel, a socket that cannot be bound
\* or dies, and replies that never come or come for another.
TransportSpec == Promise!Spec
=============================================================================
