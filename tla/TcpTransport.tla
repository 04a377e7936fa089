---------------------------- MODULE TcpTransport ----------------------------
(***************************************************************************)
(* One shard of the upstream TCP transport: the callers of                 *)
(* UpstreamTcpTransport::query, the channel, and the dispatcher task that  *)
(* serves one query at a time over a pool of kept-alive connections.       *)
(*                                                                         *)
(* Nothing on a connection says which query a reply answers: replies come  *)
(* in the order of the requests, so a connection owes the replies of the   *)
(* requests written to it and not yet read.                                *)
(***************************************************************************)
EXTENDS Integers, FiniteSets, Sequences

CONSTANTS
  Queries,
  None,
  Conns,        \* names for connections; a closed one may be named again
  MaxConns,     \* TCP_POOL_MAX_CONNS
  ChannelCap    \* bound of the mpsc channel (256 in the code)

ASSUME PoolAssumption == MaxConns \in Nat \ {0}
ASSUME ChannelAssumption == ChannelCap \in Nat \ {0}
ASSUME NoneAssumption == None \notin Queries /\ None \notin Conns

VARIABLES
  caller, overdue, slot, result,   \* per query, as in the UDP transport
  queue,     \* the mpsc channel
  serving,   \* the query being executed, or None
  stage,     \* where its execution is
  attempt,   \* turns of the connection loop already taken
  stream,    \* the connection in hand, or None
  pool,      \* idle connections, oldest first
  open,      \* the connections the peer has not closed
  owed       \* connection -> queries whose replies are still to be read

tcpVars == <<caller, overdue, slot, result, queue, serving, stage, attempt,
             stream, pool, open, owed>>

Failed == [ok |-> FALSE, from |-> None]
AnswerOf(q) == [ok |-> TRUE, from |-> q]
Outcome == [ok : BOOLEAN, from : Queries \cup {None}]

Pooled == {pool[i] : i \in DOMAIN pool}
InUse == Pooled \cup ({stream} \ {None})
InQueue(q) == \E i \in DOMAIN queue : queue[i] = q

Init ==
  /\ caller = [q \in Queries |-> "idle"]
  /\ overdue = [q \in Queries |-> FALSE]
  /\ slot = [q \in Queries |-> None]
  /\ result = [q \in Queries |-> None]
  /\ queue = <<>>
  /\ serving = None
  /\ stage = "receive"
  /\ attempt = 0
  /\ stream = None
  /\ pool = <<>>
  /\ open = {}
  /\ owed = [c \in Conns |-> <<>>]
-----------------------------------------------------------------------------
(* The caller: UpstreamTcpTransport::query *)

Submit(q) ==
  /\ caller[q] = "idle"
  /\ caller' = [caller EXCEPT ![q] = "sending"]
  /\ UNCHANGED <<overdue, slot, result, queue, serving, stage, attempt, stream,
                 pool, open, owed>>

Enqueue(q) ==
  /\ caller[q] = "sending"
  /\ Len(queue) < ChannelCap
  /\ queue' = Append(queue, q)
  /\ caller' = [caller EXCEPT ![q] = "waiting"]
  /\ UNCHANGED <<overdue, slot, result, serving, stage, attempt, stream, pool,
                 open, owed>>

Return(q, r) ==
  /\ caller[q] = "waiting"
  /\ caller' = [caller EXCEPT ![q] = "done"]
  /\ result' = [result EXCEPT ![q] = r]
  /\ UNCHANGED <<overdue, slot, queue, serving, stage, attempt, stream, pool,
                 open, owed>>

TakeReply(q) == slot[q] # None /\ Return(q, slot[q])

\* Mutant: the timer goes on after the reply and overrules it.
TimerStaysArmed(q) ==
  /\ caller[q] \in {"waiting", "done"}
  /\ overdue[q]
  /\ caller' = [caller EXCEPT ![q] = "done"]
  /\ result' = [result EXCEPT ![q] = Failed]
  /\ UNCHANGED <<overdue, slot, queue, serving, stage, attempt, stream, pool,
                 open, owed>>

TimeOut(q) == slot[q] = None /\ overdue[q] /\ Return(q, Failed)

DeadlinePasses(q) ==
  /\ caller[q] \in {"sending", "waiting"}
  /\ ~overdue[q]
  /\ overdue' = [overdue EXCEPT ![q] = TRUE]
  /\ UNCHANGED <<caller, slot, result, queue, serving, stage, attempt, stream,
                 pool, open, owed>>
-----------------------------------------------------------------------------
(* The dispatcher: run_upstream_tcp_dispatcher, execute_upstream_tcp_query *)

\* The next pooled connection, if there is any.
NextPooled ==
  /\ stream' = IF pool = <<>> THEN None ELSE Head(pool)
  /\ pool' = IF pool = <<>> THEN <<>> ELSE Tail(pool)

\* A dropped connection: what it owed is never read.
Close(c) ==
  /\ open' = open \ {c}
  /\ owed' = [owed EXCEPT ![c] = <<>>]

\* The query ends; its caller may have left already.
Finish(r) ==
  /\ slot' = [slot EXCEPT ![serving] = r]
  /\ serving' = None
  /\ stage' = "receive"
  /\ attempt' = 0

\* receiver.recv(), then the first pop of the pool.
Take ==
  /\ stage = "receive"
  /\ queue # <<>>
  /\ serving' = Head(queue)
  /\ queue' = Tail(queue)
  /\ attempt' = 0
  /\ NextPooled
  /\ stage' = "loop"
  /\ UNCHANGED <<caller, overdue, slot, result, open, owed>>

\* No connection in hand: connect within what is left of the deadline.
Connect ==
  /\ stage = "loop" /\ attempt <= MaxConns /\ stream = None
  /\ ~overdue[serving]
  /\ \E c \in Conns \ InUse :
       /\ stream' = c
       /\ open' = open \cup {c}
  /\ stage' = "write"
  /\ UNCHANGED <<caller, overdue, slot, result, queue, serving, attempt, pool, owed>>

ConnectFails ==
  /\ stage = "loop" /\ attempt <= MaxConns /\ stream = None
  /\ \/ /\ attempt = 0 /\ pool = <<>>
        /\ Finish(Failed)
        /\ UNCHANGED <<stream, pool>>
     \/ /\ ~(attempt = 0 /\ pool = <<>>)
        /\ NextPooled
        /\ attempt' = attempt + 1
        /\ UNCHANGED <<slot, serving, stage>>
  /\ UNCHANGED <<caller, overdue, result, queue, open, owed>>

UsePooled ==
  /\ stage = "loop" /\ attempt <= MaxConns /\ stream # None
  /\ stage' = "write"
  /\ UNCHANGED <<caller, overdue, slot, result, queue, serving, attempt, stream,
                 pool, open, owed>>

GiveUp ==
  /\ stage = "loop" /\ attempt = MaxConns + 1
  /\ Finish(Failed)
  /\ stream' = None
  /\ UNCHANGED <<caller, overdue, result, queue, pool, open, owed>>

\* perform_upstream_tcp_query, up to the end of the request.
Write ==
  /\ stage = "write"
  /\ ~overdue[serving] /\ stream \in open
  /\ owed' = [owed EXCEPT ![stream] = Append(@, serving)]
  /\ stage' = "read"
  /\ UNCHANGED <<caller, overdue, slot, result, queue, serving, attempt, stream,
                 pool, open>>

\* Its end: the first reply on the stream is taken for this query's, and the
\* connection returns to the pool.  The peer may have closed after replying.
Read ==
  /\ stage = "read"
  /\ ~overdue[serving]
  /\ Finish(AnswerOf(Head(owed[stream])))
  /\ owed' = [owed EXCEPT ![stream] = Tail(@)]
  /\ pool' = IF Len(pool) < MaxConns THEN Append(pool, stream) ELSE pool
  /\ stream' = None
  /\ UNCHANGED <<caller, overdue, result, queue, open>>

\* Mutant: an exchange that ran out of time keeps its connection.
ExchangeFailsKeeps ==
  /\ stage \in {"write", "read"}
  /\ overdue[serving]
  /\ Finish(Failed)
  /\ pool' = Append(pool, stream)
  /\ stream' = None
  /\ UNCHANGED <<caller, overdue, result, queue, open, owed>>

\* Any error on the way, a passed deadline included, discards the connection.
ExchangeFails ==
  /\ stage \in {"write", "read"}
  /\ overdue[serving] \/ stream \notin open
  /\ Close(stream)
  /\ NextPooled
  /\ attempt' = attempt + 1
  /\ stage' = "loop"
  /\ UNCHANGED <<caller, overdue, slot, result, queue, serving>>

PeerCloses(c) ==
  /\ c \in open \cap InUse
  /\ open' = open \ {c}
  /\ UNCHANGED <<caller, overdue, slot, result, queue, serving, stage, attempt,
                 stream, pool, owed>>

DispatcherStep ==
  \/ Take \/ Connect \/ ConnectFails \/ UsePooled \/ GiveUp
  \/ Write \/ Read \/ ExchangeFails

Next ==
  \/ \E q \in Queries : \/ Submit(q) \/ Enqueue(q) \/ TakeReply(q) \/ TimeOut(q)
                        \/ DeadlinePasses(q)
  \/ DispatcherStep
  \/ \E c \in Conns : PeerCloses(c)

Spec == Init /\ [][Next]_tcpVars

\* Clocks advance and the runtime polls ready tasks; an exchange that gets no
\* reply ends with its deadline.
Fairness ==
  /\ \A q \in Queries :
       WF_tcpVars(Enqueue(q) \/ TakeReply(q) \/ TimeOut(q)) /\ WF_tcpVars(DeadlinePasses(q))
  /\ WF_tcpVars(Take \/ ConnectFails \/ UsePooled \/ GiveUp \/ ExchangeFails)

FairSpec == Spec /\ Fairness
-----------------------------------------------------------------------------
\* Every variable of the TCP transport keeps its type.
TypeOK ==
  /\ caller \in [Queries -> {"idle", "sending", "waiting", "done"}]
  /\ overdue \in [Queries -> BOOLEAN]
  /\ slot \in [Queries -> Outcome \cup {None}]
  /\ result \in [Queries -> Outcome \cup {None}]
  /\ queue \in Seq(Queries)
  /\ serving \in Queries \cup {None}
  /\ stage \in {"receive", "loop", "write", "read"}
  /\ attempt \in 0..(MaxConns + 1)
  /\ stream \in Conns \cup {None}
  /\ pool \in Seq(Conns)
  /\ open \subseteq Conns
  /\ owed \in [Conns -> Seq(Queries)]

\* A pooled connection owes no reply: the next query on it reads its own
\* answer.  An exchange abandoned half-way must therefore never be pooled.
PooledOweNothing == \A c \in Pooled : owed[c] = <<>>

\* No caller gets the answer to another query.
NoCrossTalk == \A q \in Queries : slot[q] # None /\ slot[q].ok => slot[q].from = q

\* One query at a time and one connection in hand: the pool, sized for
\* MaxConns, never keeps more than one connection alive.
PoolOfOne == Len(pool) + (IF stream = None THEN 0 ELSE 1) <= 1

Promise == INSTANCE Transport WITH
  status <- [q \in Queries |-> IF caller[q] \in {"sending", "waiting"}
                               THEN "open" ELSE caller[q]],
  replied <- {q \in Queries : result[q] # None /\ result[q].ok}

\* The TCP transport keeps the promise of a transport: every query submitted
\* returns once, although it queues behind others and peers close connections.
TransportSpec == Promise!Spec
=============================================================================
