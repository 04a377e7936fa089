------------------------ MODULE TcpTransport_proofs ------------------------
(***************************************************************************)
(* Proofs about one shard of the TCP transport, for any number of queries  *)
(* and connections and any size of pool and channel: whoever gets a reply  *)
(* gets its own, and the pool never keeps more than one connection.        *)
(***************************************************************************)
EXTENDS TcpTransport, TLAPS

\* One connection at a time: none in hand while the dispatcher waits for a
\* query, none in the pool while it serves one.
OneConnection ==
  /\ stage = "receive" => serving = None /\ stream = None
  /\ stage # "receive" => serving \in Queries /\ pool = <<>>
  /\ stage \in {"write", "read"} => stream \in Conns /\ attempt <= MaxConns
  /\ Len(pool) <= 1

\* Replies in flight: only the connection being read owes one, to the query
\* being served.
OwesInOrder ==
  \A c \in Conns :
    owed[c] = IF stage = "read" /\ c = stream THEN <<serving>> ELSE <<>>

TcpInv == TypeOK /\ OneConnection /\ OwesInOrder /\ NoCrossTalk

\* The shard starts idle, with nothing owed.
LEMMA InitInv == Init => TcpInv
<1> SUFFICES ASSUME Init PROVE TcpInv
  OBVIOUS
<1>1. TypeOK
  BY PoolAssumption DEF Init, TypeOK
<1> QED
  BY <1>1 DEF Init, TcpInv, OneConnection, OwesInOrder, NoCrossTalk

\* What the callers do leaves the dispatcher's state alone.
LEMMA CallerInv ==
  ASSUME TcpInv, NEW q \in Queries,
         Submit(q) \/ Enqueue(q) \/ TakeReply(q) \/ TimeOut(q) \/ DeadlinePasses(q)
  PROVE  TcpInv'
<1>1. UNCHANGED <<slot, serving, stage, attempt, stream, pool, open, owed>>
  BY DEF Submit, Enqueue, TakeReply, TimeOut, Return, DeadlinePasses
<1>2. Failed \in Outcome
  BY DEF Failed, Outcome
<1>3. TypeOK'
  <2>1. CASE Submit(q)
    BY <2>1 DEF TcpInv, TypeOK, Submit
  <2>2. CASE Enqueue(q)
    BY <2>2 DEF TcpInv, TypeOK, Enqueue
  <2>3. CASE TakeReply(q)
    BY <2>3 DEF TcpInv, TypeOK, TakeReply, Return
  <2>4. CASE TimeOut(q)
    BY <2>4, <1>2 DEF TcpInv, TypeOK, TimeOut, Return
  <2>5. CASE DeadlinePasses(q)
    BY <2>5 DEF TcpInv, TypeOK, DeadlinePasses
  <2> QED
    BY <2>1, <2>2, <2>3, <2>4, <2>5
<1> QED
  BY <1>1, <1>3 DEF TcpInv, OneConnection, OwesInOrder, NoCrossTalk

\* What the dispatcher sends its callers is an outcome.
LEMMA Outcomes ==
  /\ Failed \in Outcome /\ Failed.ok = FALSE
  /\ \A q \in Queries : AnswerOf(q) \in Outcome /\ AnswerOf(q).from = q
  BY DEF Failed, AnswerOf, Outcome

\* A query that ends leaves the dispatcher waiting, with no connection in hand.
LEMMA FinishInv ==
  ASSUME TcpInv, NEW r \in {Failed, AnswerOf(serving)}, serving \in Queries, Finish(r),
         stream' = None, pool' \in Seq(Conns), Len(pool') <= 1,
         owed' = [c \in Conns |-> <<>>],
         UNCHANGED <<caller, overdue, result, queue, open>>
  PROVE  TcpInv'
<1>1. /\ r \in Outcome
      /\ r.ok => r.from = serving
  BY Outcomes
<1>2. slot' \in [Queries -> Outcome \cup {None}]
  BY <1>1 DEF Finish, TcpInv, TypeOK
<1>3. TypeOK'
  BY <1>2, PoolAssumption DEF Finish, TcpInv, TypeOK
<1>4. OneConnection' /\ OwesInOrder'
  BY DEF Finish, OneConnection, OwesInOrder
<1>5. NoCrossTalk'
  BY <1>1 DEF Finish, TcpInv, TypeOK, NoCrossTalk
<1> QED
  BY <1>3, <1>4, <1>5 DEF TcpInv

\* Every step of the dispatcher keeps the invariant.
LEMMA DispatcherInv ==
  ASSUME TcpInv, DispatcherStep
  PROVE  TcpInv'
<1>0. /\ pool \in Seq(Conns) /\ Len(pool) <= 1
      /\ owed \in [Conns -> Seq(Queries)]
      /\ attempt \in 0..(MaxConns + 1) /\ MaxConns \in Nat
      /\ None \notin Conns /\ None \notin Queries
  BY NoneAssumption, PoolAssumption DEF TcpInv, TypeOK, OneConnection
<1>1. CASE Take
  <2>1. pool' = <<>> /\ stream' \in Conns \cup {None}
    BY <1>0, <1>1 DEF Take, NextPooled
  <2>2. serving' \in Queries /\ queue' \in Seq(Queries)
    BY <1>1 DEF Take, TcpInv, TypeOK
  <2>3. TypeOK'
    BY <1>0, <1>1, <2>1, <2>2 DEF Take, TcpInv, TypeOK
  <2>4. OneConnection'
    BY <1>1, <2>1, <2>2 DEF Take, OneConnection
  <2> QED
    BY <1>1, <2>3, <2>4 DEF Take, TcpInv, OwesInOrder, NoCrossTalk
<1>2. CASE Connect
  <2>1. stream' \in Conns /\ open' \subseteq Conns
    BY <1>2 DEF Connect, TcpInv, TypeOK
  <2>2. TypeOK'
    BY <1>2, <2>1 DEF Connect, TcpInv, TypeOK
  <2>3. OneConnection'
    BY <1>2, <2>1 DEF Connect, TcpInv, OneConnection
  <2> QED
    BY <1>2, <2>2, <2>3 DEF Connect, TcpInv, OwesInOrder, NoCrossTalk
<1>3. CASE ConnectFails
  <2>1. stage = "loop" /\ stream = None /\ pool = <<>> /\ serving \in Queries
    BY <1>3 DEF ConnectFails, TcpInv, OneConnection
  <2>2. owed = [c \in Conns |-> <<>>]
    BY <1>0, <2>1 DEF TcpInv, OwesInOrder
  <2>3. CASE attempt = 0
    BY <1>0, <1>3, <2>1, <2>2, <2>3, FinishInv DEF ConnectFails
  <2>4. CASE attempt # 0
    <3>1. /\ attempt' = attempt + 1 /\ stream' = None /\ pool' = <<>>
          /\ UNCHANGED <<caller, overdue, slot, result, queue, serving, stage, open, owed>>
      BY <1>3, <2>1, <2>4 DEF ConnectFails, NextPooled
    <3>2. attempt' \in 0..(MaxConns + 1)
      BY <1>0, <1>3, <3>1 DEF ConnectFails
    <3>3. TypeOK'
      BY <3>1, <3>2 DEF TcpInv, TypeOK
    <3> QED
      BY <2>1, <3>1, <3>3 DEF TcpInv, OneConnection, OwesInOrder, NoCrossTalk
  <2> QED
    BY <2>3, <2>4
<1>4. CASE UsePooled
  <2>1. stream \in Conns
    BY <1>4 DEF UsePooled, TcpInv, TypeOK
  <2>2. TypeOK'
    BY <1>4 DEF UsePooled, TcpInv, TypeOK
  <2> QED
    BY <1>4, <2>1, <2>2 DEF UsePooled, TcpInv, OneConnection, OwesInOrder, NoCrossTalk
<1>5. CASE GiveUp
  <2>1. stage = "loop" /\ pool = <<>> /\ serving \in Queries
    BY <1>5 DEF GiveUp, TcpInv, OneConnection
  <2>2. owed = [c \in Conns |-> <<>>]
    BY <1>0, <2>1 DEF TcpInv, OwesInOrder
  <2> QED
    BY <1>0, <1>5, <2>1, <2>2, FinishInv DEF GiveUp
<1>6. CASE Write
  <2>1. /\ stage = "write" /\ stream \in Conns /\ serving \in Queries
        /\ owed[stream] = <<>>
    BY <1>6 DEF Write, TcpInv, OneConnection, OwesInOrder
  <2>2. owed' = [owed EXCEPT ![stream] = <<serving>>]
    BY <1>6, <2>1 DEF Write
  <2>3. TypeOK'
    BY <1>6, <2>1, <2>2 DEF Write, TcpInv, TypeOK
  <2>4. OwesInOrder'
    BY <1>0, <1>6, <2>1, <2>2 DEF Write, TcpInv, OwesInOrder
  <2> QED
    BY <1>6, <2>3, <2>4 DEF Write, TcpInv, OneConnection, NoCrossTalk
<1>7. CASE Read
  <2>1. /\ stage = "read" /\ stream \in Conns /\ serving \in Queries
        /\ pool = <<>> /\ owed[stream] = <<serving>>
    BY <1>7 DEF Read, TcpInv, OneConnection, OwesInOrder
  <2>2. Finish(AnswerOf(serving))
    BY <1>7, <2>1 DEF Read
  <2>3. owed' = [owed EXCEPT ![stream] = <<>>]
    BY <1>7, <2>1 DEF Read
  <2>4. owed' = [c \in Conns |-> <<>>]
    BY <1>0, <2>1, <2>3 DEF TcpInv, OwesInOrder
  <2>5. pool' \in Seq(Conns) /\ Len(pool') <= 1
    BY <1>0, <1>7, <2>1 DEF Read
  <2> QED
    BY <1>7, <2>1, <2>2, <2>4, <2>5, FinishInv DEF Read
<1>8. CASE ExchangeFails
  <2>1. stage \in {"write", "read"} /\ stream \in Conns /\ pool = <<>>
    BY <1>8 DEF ExchangeFails, TcpInv, OneConnection
  <2>2. /\ owed' = [owed EXCEPT ![stream] = <<>>]
        /\ open' = open \ {stream}
        /\ stream' = None /\ pool' = <<>>
        /\ stage' = "loop" /\ attempt' = attempt + 1
    BY <1>8, <2>1 DEF ExchangeFails, Close, NextPooled
  <2>3. attempt' \in 0..(MaxConns + 1)
    BY <1>0, <2>1, <2>2 DEF TcpInv, OneConnection
  <2> QED
    BY <1>8, <2>1, <2>2, <2>3
       DEF ExchangeFails, TcpInv, TypeOK, OneConnection, OwesInOrder, NoCrossTalk
<1> QED
  BY <1>1, <1>2, <1>3, <1>4, <1>5, <1>6, <1>7, <1>8 DEF DispatcherStep

\* A connection the peer closes keeps its place until the dispatcher meets it.
LEMMA PeerInv ==
  ASSUME TcpInv, NEW c \in Conns, PeerCloses(c)
  PROVE  TcpInv'
  BY DEF PeerCloses, TcpInv, TypeOK, OneConnection, OwesInOrder, NoCrossTalk

\* The inductive invariant of the TCP shard: types, one connection at a time,
\* and a reply owed only where one is being read.
THEOREM ShardInvariant == Spec => []TcpInv
<1>1. TcpInv /\ [Next]_tcpVars => TcpInv'
  <2> SUFFICES ASSUME TcpInv, [Next]_tcpVars PROVE TcpInv'
    OBVIOUS
  <2>1. CASE UNCHANGED tcpVars
    BY <2>1 DEF tcpVars, TcpInv, TypeOK, OneConnection, OwesInOrder, NoCrossTalk
  <2> QED
    BY <2>1, CallerInv, DispatcherInv, PeerInv DEF Next
<1> QED
  BY <1>1, InitInv, PTL DEF Spec

\* Every variable of the TCP shard keeps its type; the loop over connections
\* ends after MaxConns + 1 turns.
THEOREM TypeCorrect == Spec => []TypeOK
<1>1. TcpInv => TypeOK
  BY DEF TcpInv
<1> QED
  BY <1>1, ShardInvariant, PTL

\* A query over TCP never gets the reply to another query.
THEOREM OwnReply == Spec => []NoCrossTalk
<1>1. TcpInv => NoCrossTalk
  BY DEF TcpInv
<1> QED
  BY <1>1, ShardInvariant, PTL

\* A connection is pooled only when it owes nothing.
THEOREM CleanPool == Spec => []PooledOweNothing
<1>1. TcpInv => PooledOweNothing
  <2> SUFFICES ASSUME TcpInv, NEW c \in Pooled PROVE owed[c] = <<>>
    BY DEF PooledOweNothing
  <2>1. c \in Conns /\ pool # <<>>
    BY DEF Pooled, TcpInv, TypeOK
  <2> QED
    BY <2>1 DEF TcpInv, OneConnection, OwesInOrder
<1> QED
  BY <1>1, ShardInvariant, PTL

\* However large the pool may be, a shard keeps one connection at most.
THEOREM SingleConnection == Spec => []PoolOfOne
<1>1. TcpInv => PoolOfOne
  BY DEF TcpInv, TypeOK, OneConnection, PoolOfOne
<1> QED
  BY <1>1, ShardInvariant, PTL
-----------------------------------------------------------------------------
(* The safety of a transport's promise: each query returns at most once.    *)

\* A query has no result before it returns.
NoResultYet == \A q \in Queries : caller[q] # "done" => result[q] = None

\* A query that has not been submitted, or has not returned, has no result.
LEMMA NoResultYetStep ==
  ASSUME TypeOK, NoResultYet, [Next]_tcpVars
  PROVE  NoResultYet'
<1>1. CASE \E q \in Queries : TakeReply(q) \/ TimeOut(q)
  BY <1>1 DEF TakeReply, TimeOut, Return, NoResultYet, TypeOK
<1>2. CASE \E q \in Queries : Submit(q) \/ Enqueue(q)
  BY <1>2 DEF Submit, Enqueue, NoResultYet, TypeOK
<1>3. CASE UNCHANGED <<caller, result>>
  BY <1>3 DEF NoResultYet
<1>4. \/ \E q \in Queries : TakeReply(q) \/ TimeOut(q) \/ Submit(q) \/ Enqueue(q)
      \/ UNCHANGED <<caller, result>>
  BY DEF Next, DeadlinePasses, DispatcherStep, Take, Connect, ConnectFails,
     UsePooled, GiveUp, Write, Read, ExchangeFails, PeerCloses, tcpVars
<1> QED
  BY <1>1, <1>2, <1>3, <1>4

\* Every step of the shard submits or returns one query, or none.
LEMMA PromiseStep ==
  ASSUME TypeOK, NoResultYet, [Next]_tcpVars
  PROVE  [Promise!Next]_(Promise!vars)
<1> DEFINE status(c) == [q \in Queries |-> IF c[q] \in {"sending", "waiting"}
                                           THEN "open" ELSE c[q]]
           replied(r) == {q \in Queries : r[q] # None /\ r[q].ok}
<1>1. ASSUME NEW q \in Queries, NEW r \in Outcome, Return(q, r)
      PROVE  Promise!Return(q)
  <2>1. /\ caller[q] = "waiting" /\ result[q] = None
        /\ caller' = [caller EXCEPT ![q] = "done"]
        /\ result' = [result EXCEPT ![q] = r]
    BY <1>1 DEF Return, NoResultYet
  <2>2. status(caller)[q] = "open"
    BY <2>1
  <2>3. status(caller') = [status(caller) EXCEPT ![q] = "done"]
    BY <2>1 DEF TypeOK
  <2>4. replied(result') \in {replied(result), replied(result) \cup {q}}
    BY <2>1 DEF TypeOK
  <2> QED
    BY <2>2, <2>3, <2>4 DEF Promise!Return
<1>2. ASSUME NEW q \in Queries, Submit(q) PROVE Promise!Submit(q)
  BY <1>2 DEF Submit, Promise!Submit, TypeOK
<1>3. ASSUME NEW q \in Queries, Enqueue(q) PROVE UNCHANGED Promise!vars
  <2>1. status(caller') = status(caller) /\ result' = result
    BY <1>3 DEF Enqueue, TypeOK
  <2> QED
    BY <2>1 DEF Promise!vars
<1>4. CASE UNCHANGED <<caller, result>>
  BY <1>4 DEF Promise!vars
<1>5. ASSUME NEW q \in Queries, TakeReply(q) \/ TimeOut(q)
      PROVE  \E r \in Outcome : Return(q, r)
  BY <1>5, Outcomes DEF TakeReply, TimeOut, TypeOK
<1>6. \/ \E q \in Queries : TakeReply(q) \/ TimeOut(q) \/ Submit(q) \/ Enqueue(q)
      \/ UNCHANGED <<caller, result>>
  BY DEF Next, DeadlinePasses, DispatcherStep, Take, Connect, ConnectFails,
     UsePooled, GiveUp, Write, Read, ExchangeFails, PeerCloses, tcpVars
<1> QED
  BY <1>1, <1>2, <1>3, <1>4, <1>5, <1>6 DEF Promise!Next

\* The TCP shard implements the safety part of the transport's promise.
THEOREM KeepsPromise == Spec => Promise!Safety
<1>1. Init => NoResultYet /\ Promise!Init
  BY DEF Init, NoResultYet, Promise!Init
<1>2. Spec => []NoResultYet
  BY <1>1, NoResultYetStep, TypeCorrect, PTL DEF Spec
<1> QED
  BY <1>1, <1>2, PromiseStep, TypeCorrect, PTL DEF Spec, Promise!Safety
=============================================================================
