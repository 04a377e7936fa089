------------------------------ MODULE Udp_proofs ------------------------------
(***************************************************************************)
(* What goes over UDP, upstream and to the client.                         *)
(*                                                                         *)
(* First one shard of the upstream transport, for any number of queries    *)
(* and any size of the id space and of the channel: no query is forgotten, *)
(* a wrong reply takes a reused id, and each query returns at most once.   *)
(*                                                                         *)
(* Then the response a client is sent, for any request with one question,  *)
(* any response, any chain of CNAMEs before it, any age and any order of   *)
(* its addresses: it fits the client's buffer or is the question alone,    *)
(* its OPT record is the one the client asked with, and a response that    *)
(* came whole stays whole, whatever is cut out of it and put into it.      *)
(*                                                                         *)
(* The argument for the second part is about layout.  Cells hold records   *)
(* where a list of places says so (Spans, Holds), which depends on cells   *)
(* only up to Alike, so a block of records can be cut out, moved and put   *)
(* behind another one.  Every edit of a packet is such a cut and such a    *)
(* joint (Relaid), and a packet whose counts say how many records its      *)
(* cells hold can be read (LaidOut).  What has to be shown of an edit is   *)
(* then what it cuts and what it counts.                                   *)
(***************************************************************************)
EXTENDS UdpTransport, Serving, Chains, SequenceTheorems

-----------------------------------------------------------------------------
(* One shard of the upstream transport *)

\* A query is in the channel once, and only after its id was fixed.
Entered(q) == caller[q] \in {"waiting", "done"}
QueuedOnce ==
  /\ \A i, j \in DOMAIN queue : queue[i] = queue[j] => i = j
  /\ \A q \in Queries : InQueue(q) => Entered(q)

\* What the dispatcher has put on the wire.
Sent(p) == Entered(p) /\ ~InQueue(p)
WireOwnId == \A m \in wire : id[m.from] = m.id /\ Sent(m.from)

PendingEntered ==
  /\ PendingUnderOwnId
  /\ \A i \in Ids : pending[i] # None => Entered(pending[i])

\* The dispatcher tells those that entered, of those it sent.
Told ==
  /\ \A q \in Queries : slot[q] # None => Entered(q)
  /\ \A q, p \in Queries : slot[q] = AnswerOf(p) => Sent(p)

UdpInv ==
  /\ TypeOK
  /\ QueuedOnce
  /\ WireOwnId
  /\ PendingEntered
  /\ NobodyForgotten
  /\ Told
  /\ CrossTalkNeedsReuse

\* An answer is neither nothing nor a failure, and says whose it is.
LEMMA AnswersFit ==
  /\ Failed \in Outcome /\ Failed # None
  /\ \A p \in Queries : AnswerOf(p) \in Outcome /\ AnswerOf(p) # None /\ AnswerOf(p) # Failed
  /\ \A p, q \in Queries : AnswerOf(p) = AnswerOf(q) => p = q
<1>1. Failed \in Outcome /\ Failed # None
  <2>1. Failed \in Outcome
    BY DEF Failed, Outcome
  <2>2. None \notin Outcome
    BY NoneAssumption DEF Outcome
  <2> QED
    BY <2>1, <2>2
<1>2. \A p \in Queries : AnswerOf(p) \in Outcome /\ AnswerOf(p) # None
  <2>1. \A p \in Queries : AnswerOf(p) \in Outcome
    BY DEF AnswerOf, Outcome
  <2>2. None \notin Outcome
    BY NoneAssumption DEF Outcome
  <2> QED
    BY <2>1, <2>2
<1>3. /\ Failed.ok = FALSE
      /\ \A p : AnswerOf(p).ok = TRUE /\ AnswerOf(p).from = p
  BY DEF AnswerOf, Failed
<1> QED
  BY <1>1, <1>2, <1>3

\* Nothing is in the channel, on the wire or pending before a query is asked.
LEMMA InitInv == Init => UdpInv
<1> SUFFICES ASSUME Init PROVE UdpInv
  OBVIOUS
<1>1. TypeOK
  BY IdAssumption DEF Init, TypeOK, Ids
<1>2. \A q \in Queries : ~InQueue(q) /\ slot[q] = None /\ caller[q] = "idle"
  BY DEF Init, InQueue
<1> QED
  BY <1>1, <1>2, AnswersFit DEF Init, UdpInv, QueuedOnce, WireOwnId, PendingEntered,
     PendingUnderOwnId, NobodyForgotten, Told, CrossTalkNeedsReuse

\* A step of a caller: the dispatcher's map, the wire and the oneshots stay.
LEMMA CallerFrame ==
  ASSUME UdpInv, TypeOK', UNCHANGED <<pending, wire, slot>>,
         \A p \in Queries : Entered(p) => Entered(p)' /\ id'[p] = id[p],
         \A p \in Queries : Entered(p) /\ InQueue(p)' => InQueue(p),
         QueuedOnce', NobodyForgotten'
  PROVE  UdpInv'
<1>0. TypeOK
  BY DEF UdpInv
<1>1. \A p \in Queries : Sent(p) => Sent(p)'
  BY DEF Sent
<1>2. WireOwnId'
  BY <1>0, <1>1 DEF UdpInv, WireOwnId, Sent, TypeOK, Reply
<1>3. PendingEntered'
  BY <1>0 DEF UdpInv, PendingEntered, PendingUnderOwnId, TypeOK
<1>4. Told'
  BY <1>1 DEF UdpInv, Told
<1>5. CrossTalkNeedsReuse'
  BY AnswersFit DEF UdpInv, CrossTalkNeedsReuse, Told, Sent
<1> QED
  BY <1>2, <1>3, <1>4, <1>5 DEF UdpInv

\* The steps of a caller, and of the clock.
LEMMA CallerInv ==
  ASSUME UdpInv, NEW q \in Queries, CallerStep(q) \/ DeadlinePasses(q)
  PROVE  UdpInv'
<1>0. TypeOK
  BY DEF UdpInv
<1>1. UNCHANGED <<pending, wire, slot, mode>>
  BY DEF CallerStep, Submit, Enqueue, EnqueueClosed, TakeReply, TimeOut, DeadlinePasses,
     Return
<1>2. CASE Submit(q)
  <2>1. /\ caller[q] = "idle" /\ queue' = queue
        /\ id' = [id EXCEPT ![q] = nextId] /\ caller' = [caller EXCEPT ![q] = "sending"]
        /\ UNCHANGED <<overdue, result>>
    BY <1>2 DEF Submit
  <2>2. nextId' \in Ids
    BY <1>0, <1>2, IdAssumption DEF Submit, TypeOK, Ids
  <2>3. TypeOK'
    BY <1>0, <1>1, <2>1, <2>2 DEF TypeOK
  <2>4. /\ \A p \in Queries : Entered(p) => id'[p] = id[p]
        /\ \A p \in Queries : Entered(p)' <=> Entered(p)
    BY <1>0, <2>1 DEF Entered, TypeOK
  <2>5. \A p \in Queries : InQueue(p)' <=> InQueue(p)
    BY <2>1 DEF InQueue
  <2>6. QueuedOnce'
    BY <2>1, <2>4, <2>5 DEF UdpInv, QueuedOnce
  <2>7. \A p \in Queries : caller'[p] = "waiting" => caller[p] = "waiting" /\ Entered(p)
    BY <1>0, <2>1 DEF TypeOK, Entered
  <2>8. NobodyForgotten'
    BY <1>1, <2>4, <2>5, <2>7 DEF UdpInv, NobodyForgotten
  <2> QED
    BY <1>1, <2>3, <2>4, <2>5, <2>6, <2>8, CallerFrame
<1>3. CASE Enqueue(q)
  <2>1. /\ caller[q] = "sending" /\ queue' = Append(queue, q)
        /\ caller' = [caller EXCEPT ![q] = "waiting"]
        /\ UNCHANGED <<nextId, id, overdue, result>>
    BY <1>3 DEF Enqueue
  <2>2. TypeOK'
    BY <1>0, <1>1, <2>1 DEF TypeOK
  <2>3. ~Entered(q) /\ ~InQueue(q)
    BY <2>1 DEF Entered, UdpInv, QueuedOnce
  <2>4. \A p \in Queries : (Entered(p) => Entered(p)') /\ (Entered(p)' => Entered(p) \/ p = q)
    BY <1>0, <2>1 DEF Entered, TypeOK
  <2>5. /\ DOMAIN queue' = 1..(Len(queue) + 1) /\ queue'[Len(queue) + 1] = q
        /\ \A i \in DOMAIN queue : queue'[i] = queue[i]
        /\ DOMAIN queue = 1..Len(queue) /\ Len(queue) \in Nat
    BY <1>0, <2>1 DEF TypeOK
  <2>6. \A p \in Queries : InQueue(p)' <=> InQueue(p) \/ p = q
    BY <2>5 DEF InQueue
  <2>7. Entered(q)'
    BY <1>0, <2>1 DEF Entered, TypeOK
  <2>8. QueuedOnce'
    <3>1. \A i \in DOMAIN queue : queue[i] # q
      BY <2>3 DEF InQueue
    <3>2. \A i \in DOMAIN queue' : i \in DOMAIN queue \/ i = Len(queue) + 1
      BY <2>5
    <3>3. \A i, j \in DOMAIN queue' : queue'[i] = queue'[j] => i = j
      BY <2>5, <3>1, <3>2 DEF UdpInv, QueuedOnce
    <3> QED
      BY <2>4, <2>6, <2>7, <3>3 DEF UdpInv, QueuedOnce
  <2>9. NobodyForgotten'
    BY <1>0, <1>1, <2>1, <2>6 DEF UdpInv, NobodyForgotten, TypeOK
  <2> QED
    BY <1>1, <2>1, <2>2, <2>3, <2>4, <2>6, <2>8, <2>9, CallerFrame
<1>4. CASE EnqueueClosed(q) \/ TakeReply(q) \/ TimeOut(q) \/ DeadlinePasses(q)
  <2>1. UNCHANGED <<nextId, id, queue>>
    BY <1>4 DEF EnqueueClosed, TakeReply, TimeOut, DeadlinePasses
  <2>2. /\ caller' = caller \/ caller' = [caller EXCEPT ![q] = "done"]
        /\ result' = result \/ \E r \in Outcome : result' = [result EXCEPT ![q] = r]
        /\ overdue' = overdue \/ overdue' = [overdue EXCEPT ![q] = TRUE]
    BY <1>0, <1>4, AnswersFit DEF EnqueueClosed, TakeReply, TimeOut, DeadlinePasses, Return, TypeOK
  <2>3. TypeOK'
    BY <1>0, <1>1, <2>1, <2>2 DEF TypeOK
  <2>4. \A p \in Queries : (Entered(p) => Entered(p)') /\ (caller'[p] = "waiting" => caller[p] = "waiting")
    BY <1>0, <2>2 DEF Entered, TypeOK
  <2>5. \A p \in Queries : InQueue(p)' <=> InQueue(p)
    BY <2>1 DEF InQueue
  <2>6. QueuedOnce' /\ NobodyForgotten'
    BY <1>1, <2>1, <2>4, <2>5 DEF UdpInv, QueuedOnce, NobodyForgotten
  <2> QED
    BY <1>1, <2>1, <2>3, <2>4, <2>5, <2>6, CallerFrame
<1> QED
  BY <1>2, <1>3, <1>4 DEF CallerStep

\* A step of the dispatcher: what it may tell, and to whom.
LEMMA DispatcherFrame ==
  ASSUME UdpInv, TypeOK', UNCHANGED <<id, caller>>,
         \A p \in Queries : InQueue(p)' => InQueue(p),
         QueuedOnce', WireOwnId', PendingEntered', NobodyForgotten',
         \A q \in Queries :
           \/ slot'[q] = slot[q]
           \/ slot'[q] = Failed /\ Entered(q)
           \/ \E m \in wire : /\ slot'[q] = AnswerOf(m.from)
                              /\ pending[m.id] = q /\ pending'[m.id] = None,
         \A p \in Queries : Sent(p) /\ pending'[id[p]] = p => pending[id[p]] = p
  PROVE  UdpInv'
<1>0. TypeOK
  BY DEF UdpInv
<1>1. \A p \in Queries : Entered(p)' = Entered(p)
  BY DEF Entered
<1>2. \A p \in Queries : Sent(p) => Sent(p)'
  BY <1>1 DEF Sent
<1>3. \A m \in wire : m.from \in Queries /\ m.id \in Ids /\ id[m.from] = m.id /\ Sent(m.from)
  BY <1>0 DEF UdpInv, WireOwnId, TypeOK, Reply
<1>4. \A q \in Queries, p \in Queries : slot'[q] = AnswerOf(p) =>
        \/ slot[q] = AnswerOf(p)
        \/ /\ Sent(p) /\ pending[id[p]] = q /\ pending'[id[p]] = None /\ id[p] \in Ids
  BY <1>3, AnswersFit
<1>5. \A q \in Queries : slot'[q] # None => slot[q] # None \/ Entered(q)
  <2> SUFFICES ASSUME NEW q \in Queries, slot'[q] # None, slot[q] = None PROVE Entered(q)
    OBVIOUS
  <2>1. CASE \E m \in wire : pending[m.id] = q
    BY <1>3, <2>1, NoneAssumption DEF UdpInv, PendingEntered
  <2> QED
    BY <2>1
<1>6. Told'
  BY <1>1, <1>2, <1>4, <1>5 DEF UdpInv, Told
<1>7. CrossTalkNeedsReuse'
  <2> SUFFICES ASSUME NEW q \in Queries, NEW p \in Queries, slot'[q] = AnswerOf(p), p # q
               PROVE  id[p] = id[q] /\ pending'[id[p]] # p
    BY DEF CrossTalkNeedsReuse
  <2>1. CASE slot[q] = AnswerOf(p)
    BY <2>1 DEF UdpInv, CrossTalkNeedsReuse, Told
  <2>2. CASE Sent(p) /\ pending[id[p]] = q /\ pending'[id[p]] = None /\ id[p] \in Ids
    BY <2>2, NoneAssumption DEF UdpInv, PendingEntered, PendingUnderOwnId
  <2> QED
    BY <1>4, <2>1, <2>2
<1> QED
  BY <1>6, <1>7 DEF UdpInv

\* Taking from the channel.
LEMMA QueueTail ==
  ASSUME UdpInv, queue # <<>>, queue' = Tail(queue), UNCHANGED caller,
         NEW h, h = Head(queue)
  PROVE  /\ h \in Queries /\ InQueue(h) /\ ~InQueue(h)'
         /\ \A p \in Queries \ {h} : InQueue(p)' <=> InQueue(p)
         /\ queue' \in Seq(Queries)
         /\ QueuedOnce'
<1>1. /\ queue \in Seq(Queries) /\ Len(queue) \in Nat /\ Len(queue) > 0
      /\ DOMAIN queue = 1..Len(queue) /\ h = queue[1]
  BY DEF UdpInv, TypeOK
<1>2. /\ queue' \in Seq(Queries) /\ DOMAIN queue' = 1..(Len(queue) - 1)
      /\ \A i \in DOMAIN queue' : queue'[i] = queue[i + 1]
  BY <1>1
<1>3. h \in Queries /\ InQueue(h)
  BY <1>1 DEF InQueue
<1>4. \A i, j \in DOMAIN queue : queue[i] = queue[j] => i = j
  BY DEF UdpInv, QueuedOnce
<1>5. ~InQueue(h)'
  BY <1>1, <1>2, <1>4 DEF InQueue
<1>6. ASSUME NEW p \in Queries, p # h PROVE InQueue(p)' <=> InQueue(p)
  <2>1. ASSUME NEW i \in DOMAIN queue, queue[i] = p PROVE InQueue(p)'
    <3>1. i - 1 \in DOMAIN queue' /\ queue'[i - 1] = p
      BY <1>1, <1>2, <1>6, <2>1
    <3> QED
      BY <3>1 DEF InQueue
  <2>2. ASSUME NEW i \in DOMAIN queue', queue'[i] = p PROVE InQueue(p)
    BY <1>1, <1>2, <2>2 DEF InQueue
  <2> QED
    BY <2>1, <2>2 DEF InQueue
<1>7. \A i, j \in DOMAIN queue' : queue'[i] = queue'[j] => i = j
  <2> SUFFICES ASSUME NEW i \in DOMAIN queue', NEW j \in DOMAIN queue', queue'[i] = queue'[j]
               PROVE  i = j
    OBVIOUS
  <2>1. i + 1 \in DOMAIN queue /\ j + 1 \in DOMAIN queue /\ queue[i + 1] = queue[j + 1]
    BY <1>1, <1>2
  <2> QED
    BY <1>2, <1>4, <2>1
<1>8. \A p \in Queries : InQueue(p)' => Entered(p)'
  BY <1>3, <1>5, <1>6 DEF UdpInv, QueuedOnce, Entered
<1> QED
  BY <1>2, <1>3, <1>5, <1>6, <1>7, <1>8 DEF QueuedOnce

\* The steps of the dispatcher.
LEMMA DispatcherInv ==
  ASSUME UdpInv, DispatcherStep
  PROVE  UdpInv'
<1>0. TypeOK /\ PendingUnderOwnId
  BY DEF UdpInv, PendingEntered
<1>i. UNCHANGED <<nextId, id, caller, overdue, result>>
  BY DEF DispatcherStep, Dispatch, ReceiveError, Cleanup, FailUnbound, Receive
<1>e. \A p \in Queries : Entered(p)' = Entered(p)
  BY <1>i DEF Entered
<1>t. ASSUME NEW S \in SUBSET Queries, NEW r \in Outcome, Tell(S, r)
      PROVE  /\ slot' \in [Queries -> Outcome \cup {None}]
             /\ \A q \in S : slot'[q] = r
             /\ \A q \in Queries \ S : slot'[q] = slot[q]
  BY <1>0, <1>t DEF Tell, TypeOK
<1>1. CASE Dispatch
  <2>1. queue # <<>> /\ queue' = Tail(queue) /\ UNCHANGED mode
    BY <1>1 DEF Dispatch
  <2>0. PICK q : q = Head(queue)
    OBVIOUS
  <2> DEFINE replaced == {p \in Queries : pending[id[q]] = p}
  <2>2. /\ q \in Queries /\ InQueue(q) /\ ~InQueue(q)'
        /\ \A p \in Queries \ {q} : InQueue(p)' <=> InQueue(p)
        /\ queue' \in Seq(Queries) /\ QueuedOnce'
    BY <1>i, <2>0, <2>1, QueueTail
  <2>3. Entered(q) /\ id[q] \in Ids
    BY <1>0, <2>2 DEF UdpInv, QueuedOnce, TypeOK
  <2>4. \A p \in Queries : Sent(p) => p # q /\ Sent(p)'
    BY <1>e, <2>2 DEF Sent
  <2>5. Sent(q)'
    BY <1>e, <2>2, <2>3 DEF Sent
  <2>6. \A p \in replaced : Entered(p)
    BY <1>0, <2>3, NoneAssumption DEF UdpInv, PendingEntered
  <2>7. CASE /\ pending' = [pending EXCEPT ![id[q]] = q]
             /\ wire' = wire \cup {[id |-> id[q], from |-> q]}
             /\ Tell(replaced, Failed)
    <3>1. /\ slot' \in [Queries -> Outcome \cup {None}]
          /\ \A p \in replaced : slot'[p] = Failed
          /\ \A p \in Queries \ replaced : slot'[p] = slot[p]
      BY <2>7, <1>t, AnswersFit
    <3>2. pending' \in [Ids -> Queries \cup {None}] /\ pending'[id[q]] = q
          /\ \A i \in Ids \ {id[q]} : pending'[i] = pending[i]
      BY <1>0, <2>2, <2>3, <2>7 DEF TypeOK
    <3>3. wire' \subseteq Reply
      BY <1>0, <2>2, <2>3, <2>7 DEF TypeOK, Reply
    <3> HIDE DEF replaced
    <3>4. TypeOK'
      BY <1>0, <1>i, <2>1, <2>2, <3>1, <3>2, <3>3 DEF TypeOK
    <3>5. WireOwnId'
      BY <1>0, <1>i, <2>4, <2>5, <2>7 DEF UdpInv, WireOwnId, TypeOK, Reply
    <3>6. PendingEntered'
      BY <1>0, <1>i, <1>e, <2>2, <2>3, <3>2
         DEF UdpInv, PendingEntered, PendingUnderOwnId, TypeOK
    <3>7. NobodyForgotten'
      <4> SUFFICES ASSUME NEW p \in Queries, caller[p] = "waiting", slot'[p] = None
                   PROVE  InQueue(p)' \/ pending'[id[p]] = p
        BY <1>i DEF NobodyForgotten
      <4>1. p \notin replaced /\ slot[p] = None /\ id[p] \in Ids
        BY <1>0, <3>1, AnswersFit DEF TypeOK
      <4>2. InQueue(p) \/ pending[id[p]] = p
        BY <4>1 DEF UdpInv, NobodyForgotten
      <4>3. CASE p # q /\ pending[id[p]] = p
        BY <3>2, <4>1, <4>3 DEF replaced
      <4> QED
        BY <2>2, <3>2, <4>2, <4>3
    <3>8. \A p \in Queries : Sent(p) /\ pending'[id[p]] = p => pending[id[p]] = p
      BY <1>0, <2>4, <3>2 DEF TypeOK
    <3>9. \A p \in Queries : slot'[p] = slot[p] \/ (slot'[p] = Failed /\ Entered(p))
      <4>1. ASSUME NEW p \in replaced PROVE slot'[p] = Failed /\ Entered(p)
        BY <2>6, <3>1
      <4>2. ASSUME NEW p \in Queries \ replaced PROVE slot'[p] = slot[p]
        BY <3>1
      <4> QED
        BY <4>1, <4>2
    <3>10. \A p \in Queries : InQueue(p)' => InQueue(p)
      BY <2>2
    <3> QED
      BY <1>i, <2>2, <3>4, <3>5, <3>6, <3>7, <3>8, <3>9, <3>10, DispatcherFrame
  <2>8. CASE /\ pending' = [pending EXCEPT ![id[q]] = None]
             /\ Tell(replaced \cup {q}, Failed)
             /\ UNCHANGED wire
    <3>1. /\ slot' \in [Queries -> Outcome \cup {None}]
          /\ \A p \in replaced \cup {q} : slot'[p] = Failed
          /\ \A p \in Queries \ (replaced \cup {q}) : slot'[p] = slot[p]
      <4>1. replaced \cup {q} \in SUBSET Queries /\ Failed \in Outcome
        BY <2>2, AnswersFit
      <4>2. Tell(replaced \cup {q}, Failed)
        BY <2>8
      <4> QED
        BY <4>1, <4>2, <1>t
    <3>2. pending' \in [Ids -> Queries \cup {None}] /\ pending'[id[q]] = None
          /\ \A i \in Ids \ {id[q]} : pending'[i] = pending[i]
      BY <1>0, <2>2, <2>3, <2>8 DEF TypeOK
    <3> HIDE DEF replaced
    <3>4. TypeOK'
      BY <1>0, <1>i, <2>1, <2>2, <2>8, <3>1, <3>2 DEF TypeOK
    <3>5. WireOwnId'
      BY <1>0, <1>i, <2>4, <2>8 DEF UdpInv, WireOwnId, TypeOK, Reply
    <3>6. PendingEntered'
      BY <1>0, <1>i, <1>e, <2>3, <3>2
         DEF UdpInv, PendingEntered, PendingUnderOwnId, TypeOK
    <3>7. NobodyForgotten'
      <4> SUFFICES ASSUME NEW p \in Queries, caller[p] = "waiting", slot'[p] = None
                   PROVE  InQueue(p)' \/ pending'[id[p]] = p
        BY <1>i DEF NobodyForgotten
      <4>1. p \notin replaced /\ p # q /\ slot[p] = None /\ id[p] \in Ids
        BY <1>0, <3>1, AnswersFit DEF TypeOK
      <4>2. InQueue(p) \/ pending[id[p]] = p
        BY <4>1 DEF UdpInv, NobodyForgotten
      <4>3. CASE pending[id[p]] = p
        BY <3>2, <4>1, <4>3 DEF replaced
      <4> QED
        BY <2>2, <4>1, <4>2, <4>3
    <3>8. \A p \in Queries : Sent(p) /\ pending'[id[p]] = p => pending[id[p]] = p
      BY <1>0, <3>2, NoneAssumption DEF TypeOK
    <3>9. \A p \in Queries : slot'[p] = slot[p] \/ (slot'[p] = Failed /\ Entered(p))
      <4>1. ASSUME NEW p \in replaced \cup {q} PROVE slot'[p] = Failed /\ Entered(p)
        BY <2>3, <2>6, <3>1
      <4>2. ASSUME NEW p \in Queries \ (replaced \cup {q}) PROVE slot'[p] = slot[p]
        BY <3>1
      <4> QED
        BY <4>1, <4>2
    <3>10. \A p \in Queries : InQueue(p)' => InQueue(p)
      BY <2>2
    <3> QED
      BY <1>i, <2>2, <3>4, <3>5, <3>6, <3>7, <3>8, <3>9, <3>10, DispatcherFrame
  <2> QED
    BY <1>1, <2>0, <2>7, <2>8 DEF Dispatch
<1>2. CASE FailUnbound
  <2>0. PICK q : q = Head(queue)
    OBVIOUS
  <2>1. queue # <<>> /\ queue' = Tail(queue) /\ UNCHANGED <<mode, pending, wire>>
        /\ Tell({q}, Failed)
    BY <1>2, <2>0 DEF FailUnbound
  <2>2. /\ q \in Queries /\ InQueue(q) /\ ~InQueue(q)'
        /\ \A p \in Queries \ {q} : InQueue(p)' <=> InQueue(p)
        /\ queue' \in Seq(Queries) /\ QueuedOnce'
    BY <1>i, <2>0, <2>1, QueueTail
  <2>3. /\ slot' \in [Queries -> Outcome \cup {None}] /\ slot'[q] = Failed
        /\ \A p \in Queries \ {q} : slot'[p] = slot[p]
    BY <2>1, <2>2, <1>t, AnswersFit
  <2>4. Entered(q)
    BY <2>2 DEF UdpInv, QueuedOnce
  <2>5. TypeOK'
    BY <1>0, <1>i, <2>1, <2>2, <2>3 DEF TypeOK
  <2>6. WireOwnId' /\ PendingEntered'
    BY <1>i, <1>e, <1>0, <2>1, <2>2
       DEF UdpInv, WireOwnId, PendingEntered, PendingUnderOwnId, Sent, TypeOK, Reply
  <2>7. NobodyForgotten'
    BY <1>i, <2>1, <2>2, <2>3, AnswersFit DEF UdpInv, NobodyForgotten
  <2> QED
    BY <1>i, <2>1, <2>2, <2>3, <2>4, <2>5, <2>6, <2>7, DispatcherFrame
<1>3. ASSUME NEW m \in wire, Receive(m) PROVE UdpInv'
  <2>1. /\ pending' = [pending EXCEPT ![m.id] = None]
        /\ Tell({q \in Queries : pending[m.id] = q}, AnswerOf(m.from))
        /\ wire' \subseteq wire /\ UNCHANGED <<queue, mode>>
    BY <1>3 DEF Receive
  <2>2. m.id \in Ids /\ m.from \in Queries
    BY <1>0 DEF TypeOK, Reply
  <2>3. /\ slot' \in [Queries -> Outcome \cup {None}]
        /\ \A q \in Queries : pending[m.id] = q => slot'[q] = AnswerOf(m.from)
        /\ \A q \in Queries : pending[m.id] # q => slot'[q] = slot[q]
    <3> DEFINE S == {q \in Queries : pending[m.id] = q}
    <3>1. S \in SUBSET Queries /\ AnswerOf(m.from) \in Outcome
      BY <2>2, AnswersFit
    <3>2. /\ slot' \in [Queries -> Outcome \cup {None}]
          /\ \A q \in S : slot'[q] = AnswerOf(m.from)
          /\ \A q \in Queries \ S : slot'[q] = slot[q]
      BY <2>1, <3>1, <1>t
    <3> QED
      BY <3>2
  <2>4. pending' \in [Ids -> Queries \cup {None}] /\ pending'[m.id] = None
        /\ \A i \in Ids \ {m.id} : pending'[i] = pending[i]
    BY <1>0, <2>1, <2>2 DEF TypeOK
  <2>5. TypeOK'
    BY <1>0, <1>i, <2>1, <2>3, <2>4 DEF TypeOK
  <2>6. \A p \in Queries : InQueue(p)' <=> InQueue(p)
    BY <2>1 DEF InQueue
  <2>7. QueuedOnce' /\ WireOwnId'
    BY <1>0, <1>i, <1>e, <2>1, <2>6 DEF UdpInv, QueuedOnce, WireOwnId, Sent, TypeOK, Reply
  <2>8. PendingEntered'
    BY <1>0, <1>i, <1>e, <2>4 DEF UdpInv, PendingEntered, PendingUnderOwnId, TypeOK
  <2>9. NobodyForgotten'
    <3> SUFFICES ASSUME NEW p \in Queries, caller[p] = "waiting", slot'[p] = None
                 PROVE  InQueue(p)' \/ pending'[id[p]] = p
      BY <1>i DEF NobodyForgotten
    <3>1. pending[m.id] # p /\ slot[p] = None /\ id[p] \in Ids
      BY <1>0, <2>2, <2>3, AnswersFit DEF TypeOK
    <3> QED
      BY <2>4, <2>6, <3>1 DEF UdpInv, NobodyForgotten
  <2>10. \A p \in Queries : pending'[id[p]] = p => pending[id[p]] = p
    BY <1>0, <2>4, NoneAssumption DEF TypeOK
  <2>11. \A q \in Queries :
           \/ slot'[q] = slot[q]
           \/ \E n \in wire : /\ slot'[q] = AnswerOf(n.from)
                              /\ pending[n.id] = q /\ pending'[n.id] = None
    BY <2>3, <2>4
  <2> QED
    BY <1>i, <2>5, <2>6, <2>7, <2>8, <2>9, <2>10, <2>11, DispatcherFrame
<1>4. CASE ReceiveError
  <2> DEFINE S == {q \in Queries : pending[id[q]] = q \/ InQueue(q)}
  <2>1. /\ Tell(S, Failed) /\ pending' = [i \in Ids |-> None] /\ queue' = <<>>
        /\ mode' = "ended" /\ wire' = wire
    BY <1>4 DEF ReceiveError
  <2>2. /\ slot' \in [Queries -> Outcome \cup {None}] /\ \A q \in S : slot'[q] = Failed
        /\ \A q \in Queries \ S : slot'[q] = slot[q]
    BY <2>1, <1>t, AnswersFit
  <2>3. TypeOK'
    BY <1>0, <1>i, <2>1, <2>2 DEF TypeOK
  <2>4. \A p \in Queries : ~InQueue(p)'
    BY <2>1 DEF InQueue
  <2>5. QueuedOnce' /\ WireOwnId' /\ PendingEntered'
    BY <1>0, <1>i, <1>e, <2>1, <2>4
       DEF UdpInv, QueuedOnce, WireOwnId, PendingEntered, PendingUnderOwnId, Sent, TypeOK, Reply
  <2>6. NobodyForgotten'
    BY <1>i, <2>2, AnswersFit DEF UdpInv, NobodyForgotten
  <2>7. \A p \in S : Entered(p)
    BY <1>0, NoneAssumption DEF UdpInv, QueuedOnce, PendingEntered, TypeOK
  <2>8. \A p \in Queries : slot'[p] = slot[p] \/ (slot'[p] = Failed /\ Entered(p))
    <3>1. ASSUME NEW p \in S PROVE slot'[p] = Failed /\ Entered(p)
      BY <2>2, <2>7
    <3>2. ASSUME NEW p \in Queries \ S PROVE slot'[p] = slot[p]
      BY <2>2
    <3> HIDE DEF S
    <3> QED
      BY <3>1, <3>2
  <2>9. \A p \in Queries : pending'[id[p]] # p
    BY <1>0, <2>1, NoneAssumption DEF TypeOK
  <2> QED
    BY <1>i, <2>3, <2>4, <2>5, <2>6, <2>8, <2>9, DispatcherFrame
<1>5. CASE Cleanup
  <2> DEFINE S == {pending[i] : i \in Expired}
  <2>1. /\ Tell(S, Failed)
        /\ pending' = [i \in Ids |-> IF i \in Expired THEN None ELSE pending[i]]
        /\ UNCHANGED <<queue, wire, mode>>
    BY <1>5 DEF Cleanup
  <2>2. S \subseteq Queries
    BY <1>0 DEF Expired, TypeOK
  <2>3. /\ slot' \in [Queries -> Outcome \cup {None}] /\ \A q \in S : slot'[q] = Failed
        /\ \A q \in Queries \ S : slot'[q] = slot[q]
    BY <2>1, <2>2, <1>t, AnswersFit
  <2>4. TypeOK'
    BY <1>0, <1>i, <2>1, <2>3 DEF TypeOK
  <2>5. \A p \in Queries : InQueue(p)' <=> InQueue(p)
    BY <2>1 DEF InQueue
  <2>6. QueuedOnce' /\ WireOwnId' /\ PendingEntered'
    BY <1>0, <1>i, <1>e, <2>1, <2>5
       DEF UdpInv, QueuedOnce, WireOwnId, PendingEntered, PendingUnderOwnId, Sent, TypeOK, Reply
  <2>7. NobodyForgotten'
    <3> SUFFICES ASSUME NEW p \in Queries, caller[p] = "waiting", slot'[p] = None
                 PROVE  InQueue(p)' \/ pending'[id[p]] = p
      BY <1>i DEF NobodyForgotten
    <3>1. p \notin S /\ slot[p] = None /\ id[p] \in Ids
      BY <1>0, <2>3, AnswersFit DEF TypeOK
    <3>2. InQueue(p) \/ pending[id[p]] = p
      BY <3>1 DEF UdpInv, NobodyForgotten
    <3> QED
      BY <2>1, <2>5, <3>1, <3>2
  <2>8. \A p \in S : Entered(p)
    BY <1>0 DEF UdpInv, PendingEntered, Expired
  <2>9. \A p \in Queries : slot'[p] = slot[p] \/ (slot'[p] = Failed /\ Entered(p))
    <3>1. ASSUME NEW p \in S PROVE slot'[p] = Failed /\ Entered(p)
      BY <2>3, <2>8
    <3>2. ASSUME NEW p \in Queries \ S PROVE slot'[p] = slot[p]
      BY <2>3
    <3> HIDE DEF S
    <3> QED
      BY <3>1, <3>2
  <2>10. \A p \in Queries : pending'[id[p]] = p => pending[id[p]] = p
    BY <1>0, <2>1, NoneAssumption DEF TypeOK
  <2> QED
    BY <1>i, <2>4, <2>5, <2>6, <2>7, <2>9, <2>10, DispatcherFrame
<1> QED
  BY <1>1, <1>2, <1>3, <1>4, <1>5 DEF DispatcherStep

\* Ids, channel, map, wire and oneshots fit together in every reachable state.
THEOREM ShardInvariant == Spec => []UdpInv
<1>1. UdpInv /\ [Next]_udpVars => UdpInv'
  <2> SUFFICES ASSUME UdpInv, [Next]_udpVars PROVE UdpInv'
    OBVIOUS
  <2>1. CASE UNCHANGED udpVars
    <3>1. TypeOK' /\ UNCHANGED <<pending, wire, slot, caller, id, queue>>
      BY <2>1 DEF udpVars, UdpInv, TypeOK
    <3>2. \A p \in Queries : (InQueue(p)' <=> InQueue(p)) /\ (Entered(p)' <=> Entered(p))
      BY <3>1 DEF InQueue, Entered
    <3>3. QueuedOnce' /\ NobodyForgotten'
      BY <3>1, <3>2 DEF UdpInv, QueuedOnce, NobodyForgotten
    <3> QED
      BY <3>1, <3>2, <3>3, CallerFrame
  <2> QED
    BY <2>1, CallerInv, DispatcherInv DEF Next
<1> QED
  BY <1>1, InitInv, PTL DEF Spec

\* The counter wraps within the id space and every variable keeps its type.
THEOREM TypeCorrect == Spec => []TypeOK
<1>1. UdpInv => TypeOK
  BY DEF UdpInv
<1> QED
  BY <1>1, ShardInvariant, PTL

\* A pending query sits under its own id, however ids repeat.
THEOREM PendingOwnId == Spec => []PendingUnderOwnId
<1>1. UdpInv => PendingUnderOwnId
  BY DEF UdpInv, PendingEntered
<1> QED
  BY <1>1, ShardInvariant, PTL

\* Whoever still waits is in the channel or in the map.
THEOREM NoneForgotten == Spec => []NobodyForgotten
<1>1. UdpInv => NobodyForgotten
  BY DEF UdpInv
<1> QED
  BY <1>1, ShardInvariant, PTL

\* A reply to another query takes an id that both were given.
THEOREM WrongReplyTakesReuse == Spec => []CrossTalkNeedsReuse
<1>1. UdpInv => CrossTalkNeedsReuse
  BY DEF UdpInv
<1> QED
  BY <1>1, ShardInvariant, PTL
-----------------------------------------------------------------------------
(* The safety of a transport's promise: each query returns at most once.    *)

\* A query has no result before it returns.
NoResultYet == \A q \in Queries : caller[q] # "done" => result[q] = None

\* Where results come from.
LEMMA ResultSteps ==
  ASSUME TypeOK, [Next]_udpVars
  PROVE  \/ \E q \in Queries : \/ Submit(q) \/ Enqueue(q)
                               \/ \E r \in Outcome :
                                    caller[q] \in {"sending", "waiting"} /\ Return(q, r)
         \/ UNCHANGED <<caller, result>>
<1>1. ASSUME NEW q \in Queries, EnqueueClosed(q) \/ TakeReply(q) \/ TimeOut(q)
      PROVE  \E r \in Outcome : caller[q] \in {"sending", "waiting"} /\ Return(q, r)
  BY <1>1, AnswersFit DEF EnqueueClosed, TakeReply, TimeOut, TypeOK
<1> QED
  BY <1>1 DEF Next, CallerStep, DeadlinePasses, DispatcherStep, Dispatch, ReceiveError,
     Cleanup, FailUnbound, Receive, udpVars

\* A query that has not returned has no result.
LEMMA NoResultYetStep ==
  ASSUME TypeOK, NoResultYet, [Next]_udpVars
  PROVE  NoResultYet'
<1>1. ASSUME NEW q \in Queries, NEW r \in Outcome, Return(q, r) PROVE NoResultYet'
  BY <1>1 DEF Return, NoResultYet, TypeOK
<1>2. CASE \E q \in Queries : Submit(q) \/ Enqueue(q)
  BY <1>2 DEF Submit, Enqueue, NoResultYet, TypeOK
<1>3. CASE UNCHANGED <<caller, result>>
  BY <1>3 DEF NoResultYet
<1> QED
  BY <1>1, <1>2, <1>3, ResultSteps

\* Every step of the shard submits or returns one query, or none.
LEMMA PromiseStep ==
  ASSUME TypeOK, NoResultYet, [Next]_udpVars
  PROVE  [Promise!Next]_(Promise!vars)
<1> DEFINE status(c) == [q \in Queries |-> IF c[q] \in {"sending", "waiting"}
                                           THEN "open" ELSE c[q]]
           replied(r) == {q \in Queries : r[q] # None /\ r[q].ok}
<1>1. ASSUME NEW q \in Queries, NEW r \in Outcome,
             caller[q] \in {"sending", "waiting"}, Return(q, r)
      PROVE  Promise!Return(q)
  <2>1. /\ result[q] = None
        /\ caller' = [caller EXCEPT ![q] = "done"]
        /\ result' = [result EXCEPT ![q] = r]
    BY <1>1 DEF Return, NoResultYet
  <2>2. status(caller)[q] = "open"
    BY <1>1
  <2>3. status(caller') = [status(caller) EXCEPT ![q] = "done"]
    BY <2>1 DEF TypeOK
  <2>4. replied(result') \in {replied(result), replied(result) \cup {q}}
    BY <2>1 DEF TypeOK
  <2> QED
    BY <2>2, <2>3, <2>4 DEF Promise!Return
<1>2. ASSUME NEW q \in Queries, Submit(q) PROVE Promise!Submit(q)
  BY <1>2 DEF Submit, Promise!Submit, TypeOK
<1>3. ASSUME NEW q \in Queries, Enqueue(q) PROVE UNCHANGED Promise!vars
  <2>1. status(caller') = status(caller) /\ result' = result
    BY <1>3 DEF Enqueue, TypeOK
  <2> QED
    BY <2>1 DEF Promise!vars
<1>4. CASE UNCHANGED <<caller, result>>
  BY <1>4 DEF Promise!vars
<1> QED
  BY <1>1, <1>2, <1>3, <1>4, ResultSteps DEF Promise!Next

\* The UDP shard implements the safety part of the transport's promise.
THEOREM KeepsPromise == Spec => Promise!Safety
<1>1. Init => NoResultYet /\ Promise!Init
  BY DEF Init, NoResultYet, Promise!Init
<1>2. Spec => []NoResultYet
  BY <1>1, NoResultYetStep, TypeCorrect, PTL DEF Spec
<1> QED
  BY <1>1, <1>2, PromiseStep, TypeCorrect, PTL DEF Spec, Promise!Safety
-----------------------------------------------------------------------------
(* Sequences *)

\* A sequence, of whatever it holds.
IsSeq(c) == c \in Seq(ToSet(c))

\* A sequence has a length and an element at each place up to it.
LEMMA SeqBasics ==
  ASSUME NEW c, IsSeq(c)
  PROVE  /\ Len(c) \in Nat /\ DOMAIN c = 1..Len(c)
         /\ c = [i \in 1..Len(c) |-> c[i]]
BY SeqEqual DEF IsSeq

\* A sequence over a set is one over what it holds.
LEMMA SeqInOwn ==
  ASSUME NEW S, NEW c \in Seq(S)
  PROVE  IsSeq(c)
<1>1. Len(c) \in Nat /\ c \in [1..Len(c) -> S] /\ DOMAIN c = 1..Len(c)
  BY LenProperties
<1>2. c \in [1..Len(c) -> ToSet(c)]
  BY <1>1 DEF ToSet
<1> QED  BY <1>1, <1>2 DEF IsSeq

\* A function on 1..n is a sequence.
LEMMA SeqMap ==
  ASSUME NEW n \in Nat, NEW c, c = [i \in 1..n |-> c[i]]
  PROVE  IsSeq(c) /\ Len(c) = n /\ DOMAIN c = 1..n
<1>1. DOMAIN c = 1..n
  OBVIOUS
<1>2. c \in [1..n -> ToSet(c)]
  BY <1>1 DEF ToSet
<1> QED  BY <1>2 DEF IsSeq

\* What is where in two sequences put together.
LEMMA Joining ==
  ASSUME NEW a, IsSeq(a), NEW b, IsSeq(b)
  PROVE  /\ IsSeq(a \o b) /\ Len(a \o b) = Len(a) + Len(b)
         /\ \A i \in 1..Len(a) : (a \o b)[i] = a[i]
         /\ \A i \in 1..Len(b) : (a \o b)[Len(a) + i] = b[i]
<1> DEFINE S == ToSet(a) \cup ToSet(b)
<1>1. a \in Seq(S) /\ b \in Seq(S)
  <2>1. a \in [1..Len(a) -> S] /\ b \in [1..Len(b) -> S]
    BY SeqBasics DEF ToSet
  <2> QED  BY <2>1, SeqBasics
<1> HIDE DEF S
<1>2. a \o b \in Seq(S) /\ Len(a \o b) = Len(a) + Len(b)
  BY <1>1
<1>3. IsSeq(a \o b)
  BY <1>2, SeqInOwn, Zenon
<1> QED  BY <1>1, <1>2, <1>3, ConcatProperties

\* What is where in a part of a sequence.
LEMMA Cutting ==
  ASSUME NEW c, IsSeq(c), NEW m \in Nat, NEW n \in Int, 1 <= m, m <= n + 1, n <= Len(c)
  PROVE  /\ IsSeq(SubSeq(c, m, n)) /\ Len(SubSeq(c, m, n)) = n + 1 - m
         /\ \A i \in 1..(n + 1 - m) : SubSeq(c, m, n)[i] = c[m + i - 1]
<1>1. Len(c) \in Nat /\ c \in Seq(ToSet(c))
  BY SeqBasics DEF IsSeq
<1>2. m \in 1..(Len(c) + 1) /\ n \in (m - 1)..Len(c)
  BY <1>1
<1>3. SubSeq(c, m, n) \in Seq(ToSet(c))
  BY <1>1, <1>2, SubSeqProperties
<1>4. IsSeq(SubSeq(c, m, n))
  BY <1>3, SeqInOwn, Zenon
<1> QED  BY <1>1, <1>2, <1>4, SubSeqProperties

\* Sequences with the same elements are the same.
LEMMA SameSeq ==
  ASSUME NEW a, IsSeq(a), NEW b, IsSeq(b), Len(a) = Len(b), \A i \in 1..Len(a) : a[i] = b[i]
  PROVE  a = b
<1>1. a = [i \in 1..Len(a) |-> a[i]] /\ b = [i \in 1..Len(b) |-> b[i]]
  BY SeqBasics
<1> QED  BY <1>1
-----------------------------------------------------------------------------
(* Places in an order *)

\* A relation that orders S strictly.
Orders(R, S) ==
  /\ R \subseteq S \X S
  /\ \A x \in S : <<x, x>> \notin R
  /\ \A x, y \in S : x # y => <<x, y>> \in R \/ <<y, x>> \in R
  /\ \A x, y, z \in S : <<x, y>> \in R /\ <<y, z>> \in R => <<x, z>> \in R

\* Those before j.
Earlier(R, S, j) == {i \in S : <<i, j>> \in R}

\* As many as precede an element: every number of them, once.
LEMMA SomeonesPlace ==
  ASSUME NEW S, NEW R, IsFiniteSet(S), Orders(R, S), NEW k \in Nat, k < Cardinality(S)
  PROVE  \E j \in S : Cardinality(Earlier(R, S, j)) = k
<1> DEFINE before(j) == {i \in S : <<i, j>> \in R}
           n == Cardinality(S)
           T == (0..(n - 1)) \ {k}
           count == [j \in S |-> Cardinality(before(j))]
<1>1. n \in Nat
  BY FS_CardinalityType
<1>2. ASSUME NEW j \in S
      PROVE  IsFiniteSet(before(j)) /\ Cardinality(before(j)) \in 0..(n - 1)
  <2>1. before(j) \in SUBSET S /\ before(j) # S
    BY DEF Orders
  <2>2. IsFiniteSet(before(j)) /\ Cardinality(before(j)) <= n /\ Cardinality(before(j)) # n
    <3> HIDE DEF before
    <3> QED  BY <2>1, FS_Subset
  <2>3. Cardinality(before(j)) \in Nat
    BY <2>2, FS_CardinalityType
  <2> QED  BY <1>1, <2>2, <2>3
<1>3. ASSUME NEW x \in S, NEW y \in S, <<x, y>> \in R
      PROVE  Cardinality(before(x)) < Cardinality(before(y))
  <2>1. before(x) \in SUBSET before(y) /\ before(x) # before(y)
    BY <1>3 DEF Orders
  <2>2. IsFiniteSet(before(y)) /\ Cardinality(before(y)) \in Nat /\ Cardinality(before(x)) \in Nat
    BY <1>2
  <2> HIDE DEF before
  <2>3. Cardinality(before(x)) <= Cardinality(before(y)) /\ Cardinality(before(x)) # Cardinality(before(y))
    BY <2>1, <2>2, FS_Subset
  <2> QED  BY <2>2, <2>3
<1>4. ASSUME NEW x \in S, NEW y \in S, x # y
      PROVE  Cardinality(before(x)) # Cardinality(before(y))
  <2>1. <<x, y>> \in R \/ <<y, x>> \in R
    BY <1>4 DEF Orders
  <2> HIDE DEF before
  <2>2. Cardinality(before(x)) \in Nat /\ Cardinality(before(y)) \in Nat
    BY <1>1, <1>2
  <2>3. Cardinality(before(x)) < Cardinality(before(y)) \/ Cardinality(before(y)) < Cardinality(before(x))
    BY <1>3, <2>1
  <2> QED  BY <2>2, <2>3
<1>5. IsFiniteSet(T) /\ Cardinality(T) < n
  <2> HIDE DEF n
  <2>1. 0 \in Int /\ n - 1 \in Int /\ k \in 0..(n - 1)
    BY <1>1 DEF n
  <2>2. IsFiniteSet(0..(n - 1)) /\ Cardinality(0..(n - 1)) = n
    BY <1>1, <2>1, FS_Interval
  <2>3. IsFiniteSet(T) /\ Cardinality(T) = Cardinality(0..(n - 1)) - 1
    BY <2>1, <2>2, FS_RemoveElement, Zenon
  <2> QED  BY <1>1, <2>2, <2>3
<1>6. SUFFICES ASSUME \A j \in S : Cardinality(before(j)) # k
               PROVE  FALSE
  BY DEF Earlier
<1>7. count \in [S -> T]
  <2> HIDE DEF before
  <2> QED  BY <1>2, <1>6
<1>8. PICK x, y \in S : x # y /\ count[x] = count[y]
  <2> HIDE DEF T, count
  <2> QED  BY <1>5, <1>7, FS_PigeonHole
<1> QED
  <2> HIDE DEF before
  <2> QED  BY <1>4, <1>8

\* The n-th number of a set is one of its numbers.
LEMMA NthIsIn ==
  ASSUME NEW I \in SUBSET Nat, IsFiniteSet(I), NEW n \in 1..Cardinality(I)
  PROVE  Nth(I, n) \in I
<1>0. PICK R : R = {p \in I \X I : p[1] < p[2]}
  OBVIOUS
<1>1. Orders(R, I)
  BY <1>0 DEF Orders
<1>2. IsFiniteSet(I) /\ Cardinality(I) \in Nat /\ n - 1 \in Nat /\ n - 1 < Cardinality(I)
  BY FS_CardinalityType
<1>3. PICK j \in I : Cardinality(Earlier(R, I, j)) = n - 1
  <2>1. PICK k \in Nat : k = n - 1
    BY <1>2
  <2>2. PICK S : S = I
    OBVIOUS
  <2>3. IsFiniteSet(S) /\ Orders(R, S) /\ k \in Nat /\ k < Cardinality(S)
    BY <1>1, <1>2, <2>1, <2>2
  <2>4. \E j \in S : Cardinality(Earlier(R, S, j)) = k
    BY ONLY <2>3, SomeonesPlace
  <2> QED  BY <2>1, <2>2, <2>4
<1>4. Earlier(R, I, j) = {i \in I : i < j}
  BY <1>0 DEF Earlier
<1> QED  BY <1>3, <1>4 DEF Nth

\* What is picked out of a sequence is a sequence of elements of it.
LEMMA PickedOut ==
  ASSUME NEW s, IsSeq(s), NEW I \in SUBSET DOMAIN s
  PROVE  /\ IsSeq(Picked(s, I))
         /\ \A n \in 1..Len(Picked(s, I)) : Picked(s, I)[n] \in {s[i] : i \in I}
<1>1. I \in SUBSET (1..Len(s)) /\ Len(s) \in Nat /\ IsFiniteSet(1..Len(s))
  <2>1. I \in SUBSET (1..Len(s)) /\ Len(s) \in Nat
    BY SeqBasics
  <2> QED  BY <2>1, FS_Interval
<1>2. I \in SUBSET Nat /\ IsFiniteSet(I) /\ Cardinality(I) \in Nat
  BY <1>1, FS_Subset, FS_CardinalityType
<1>3. Picked(s, I) = [n \in 1..Cardinality(I) |-> s[Nth(I, n)]]
  BY DEF Picked
<1>4. IsSeq(Picked(s, I)) /\ Len(Picked(s, I)) = Cardinality(I)
  <2> DEFINE c == Picked(s, I)
  <2>1. c = [n \in 1..Cardinality(I) |-> c[n]]
    BY <1>3
  <2> QED  BY <1>2, <2>1, SeqMap, Zenon
<1>5. \A n \in 1..Cardinality(I) : Nth(I, n) \in I
  BY <1>2, NthIsIn
<1> QED  BY <1>3, <1>4, <1>5

\* A set of numbers has a least one.
LEMMA LeastNatural ==
  ASSUME NEW S \in SUBSET Nat, S # {}
  PROVE  Min(S) \in S /\ \A y \in S : Min(S) <= y
<1> DEFINE T == {k \in Nat : \A i \in 0..k : i \notin S}
<1>1. SUFFICES ASSUME ~ \E x \in S : \A y \in S : x <= y PROVE FALSE
  BY DEF Min
<1>2. 0 \in T
  <2>1. 0 \notin S
    BY <1>1
  <2> QED  BY <2>1
<1>3. ASSUME NEW k \in Nat, k \in T PROVE k + 1 \in T
  <2>1. k + 1 \notin S
    <3> SUFFICES ASSUME k + 1 \in S PROVE \A y \in S : k + 1 <= y
      BY <1>1
    <3> QED  BY <1>3
  <2> QED  BY <1>3, <2>1
<1>4. Nat \subseteq T
  <2> HIDE DEF T
  <2> QED  BY <1>2, <1>3, SetInduction
<1>5. PICK x \in S : x \in Nat
  OBVIOUS
<1> QED  BY <1>4, <1>5

\* The slot that comes to a slot is one.
LEMMA ComesToIsIn ==
  ASSUME NEW slots \in SUBSET Nat, IsFiniteSet(slots),
         NEW rank, \A i \in slots : rank[i] \in Nat, NEW i \in slots
  PROVE  ComesTo(slots, rank, i) \in slots
<1> DEFINE before == {l \in slots : l < i}
<1>0. PICK R : R = {p \in slots \X slots : Before(rank, p[1], p[2])}
  OBVIOUS
<1>1. Orders(R, slots)
  BY <1>0 DEF Orders, Before
<1>2. IsFiniteSet(slots) /\ Cardinality(before) \in Nat /\ Cardinality(before) < Cardinality(slots)
  <2>1. before \in SUBSET slots /\ before # slots /\ IsFiniteSet(slots)
    OBVIOUS
  <2> HIDE DEF before
  <2>2. IsFiniteSet(before) /\ Cardinality(before) <= Cardinality(slots)
        /\ Cardinality(before) # Cardinality(slots)
    BY <2>1, FS_Subset
  <2>3. Cardinality(before) \in Nat /\ Cardinality(slots) \in Nat
    BY <2>1, <2>2, FS_CardinalityType
  <2> QED  BY <2>1, <2>2, <2>3
<1>3. PICK j \in slots : Cardinality(Earlier(R, slots, j)) = Cardinality(before)
  <2> HIDE DEF before
  <2>1. PICK k \in Nat : k = Cardinality(before)
    BY <1>2
  <2>2. PICK S : S = slots
    OBVIOUS
  <2>3. IsFiniteSet(S) /\ Orders(R, S) /\ k \in Nat /\ k < Cardinality(S)
    BY <1>1, <1>2, <2>1, <2>2
  <2>4. \E j \in S : Cardinality(Earlier(R, S, j)) = k
    BY ONLY <2>3, SomeonesPlace
  <2> QED  BY <2>1, <2>2, <2>4
<1>4. Earlier(R, slots, j) = {l \in slots : Before(rank, l, j)}
  BY <1>0 DEF Earlier
<1> QED  BY <1>3, <1>4 DEF ComesTo
-----------------------------------------------------------------------------
(* Records in cells *)

\* A sequence of cells.
IsCells(c) == IsSeq(c) /\ \A i \in 1..Len(c) : IsCell(c[i])

\* A record of c from o on, the next one at x; n of them, at the places of m.
Span(c, o, x) == IsRecord(c, SkipName(c, o)) /\ x = SkipName(c, o) + c[SkipName(c, o)].len + 1
\* Record after record: the i-th stands between m[i - 1] and m[i].
Spans(c, m, n) == m \in [0..n -> Nat \ {0}] /\ \A i \in 1..n : Span(c, m[i - 1], m[i])

\* Cells that look alike to who skips records.
Alike(a, b) == a.k = b.k /\ (a.k = "rr" => a.len = b.len)

\* Cells are a sequence, and records have numbers for their lengths and lifetimes.
LEMMA CellsSeq ==
  ASSUME NEW c, IsCells(c)
  PROVE  /\ IsSeq(c) /\ Len(c) \in Nat /\ DOMAIN c = 1..Len(c)
         /\ \A i \in 1..Len(c) : c[i].k = "rr" => c[i].len \in Nat /\ c[i].ttl \in Nat
BY SeqBasics DEF IsCells, IsCell

\* The labels end at the first cell that is none.
LEMMA StopAt ==
  ASSUME NEW c, IsSeq(c), NEW o \in Nat \ {0}, NEW e \in o..Len(c), c[e].k # "label",
         \A i \in o..(e - 1) : c[i].k = "label"
  PROVE  Stop(c, o) = e
<1> DEFINE S == {i \in o..Len(c) : c[i].k # "label"}
<1>1. Len(c) \in Nat
  BY SeqBasics
<1>2. e \in S /\ S \in SUBSET Nat /\ \A i \in S : e <= i
  BY <1>1
<1>3. Min(S) \in S /\ Min(S) <= e
  <2> HIDE DEF S
  <2> QED  BY <1>2, LeastNatural
<1>4. Min(S) = e
  <2> HIDE DEF S
  <2>1. Min(S) \in Nat /\ e \in Nat /\ e <= Min(S) /\ Min(S) <= e
    BY <1>2, <1>3
  <2> QED  BY <2>1
<1> QED  BY <1>2, <1>4 DEF Stop, Least

\* ... and where Stop says they end, they do.
LEMMA StopFound ==
  ASSUME NEW c, IsSeq(c), NEW o \in Nat \ {0}, Stop(c, o) # Nowhere
  PROVE  /\ Stop(c, o) \in o..Len(c) /\ c[Stop(c, o)].k # "label"
         /\ \A i \in o..(Stop(c, o) - 1) : c[i].k = "label"
<1> DEFINE S == {i \in o..Len(c) : c[i].k # "label"}
<1>1. Len(c) \in Nat
  BY SeqBasics
<1>2. S # {} /\ Stop(c, o) = Min(S)
  BY DEF Stop, Least
<1>3. S \in SUBSET Nat
  BY <1>1
<1>4. Min(S) \in S /\ \A y \in S : Min(S) <= y
  <2> HIDE DEF S
  <2> QED  BY <1>2, <1>3, LeastNatural
<1>5. Stop(c, o) \in S /\ Stop(c, o) \in Nat /\ \A y \in S : Stop(c, o) <= y
  BY <1>2, <1>3, <1>4
<1> HIDE DEF S
<1>6. ASSUME NEW i \in o..(Stop(c, o) - 1) PROVE i \notin S /\ i \in o..Len(c)
  <2>1. Stop(c, o) \in o..Len(c)
    BY <1>5 DEF S
  <2> QED  BY <1>1, <1>5, <2>1
<1> QED  BY <1>5, <1>6 DEF S

\* A name is read up to its end or its pointer.
LEMMA SkipAt ==
  ASSUME NEW c, IsSeq(c), NEW o \in Nat \ {0}, NEW e \in o..Len(c), c[e].k \in {"end", "ptr"},
         \A i \in o..(e - 1) : c[i].k = "label"
  PROVE  SkipName(c, o) = e + 1
<1>1. Stop(c, o) = e
  BY StopAt
<1> QED  BY <1>1 DEF SkipName, Behind, Nowhere

\* ... and where SkipName says one was read, it stands.
LEMMA SkipFound ==
  ASSUME NEW c, IsSeq(c), NEW o \in Nat \ {0}, SkipName(c, o) # Nowhere
  PROVE  \E e \in o..Len(c) :
           /\ SkipName(c, o) = e + 1 /\ c[e].k \in {"end", "ptr"}
           /\ \A i \in o..(e - 1) : c[i].k = "label"
<1>1. Stop(c, o) # Nowhere /\ c[Stop(c, o)].k \in {"end", "ptr"} /\ SkipName(c, o) = Stop(c, o) + 1
  BY DEF SkipName, Behind
<1> QED  BY <1>1, StopFound

\* A record stands within the cells, and is not empty.
LEMMA SpanBounds ==
  ASSUME NEW c, IsCells(c), NEW o \in Nat \ {0}, NEW x, Span(c, o, x)
  PROVE  /\ SkipName(c, o) \in (o + 1)..Len(c) /\ SkipName(c, o) \in Nat
         /\ c[SkipName(c, o)].k = "rr" /\ c[SkipName(c, o)].len \in Nat
         /\ x = SkipName(c, o) + c[SkipName(c, o)].len + 1
         /\ x \in Nat /\ SkipName(c, o) < x /\ x <= Len(c) + 1
<1> DEFINE s == SkipName(c, o)
<1>1. IsSeq(c) /\ Len(c) \in Nat /\ DOMAIN c = 1..Len(c)
  BY CellsSeq
<1>2. s \in 1..Len(c) /\ c[s].k = "rr" /\ s + c[s].len <= Len(c) /\ x = s + c[s].len + 1
  BY <1>1 DEF Span, IsRecord
<1>3. c[s].len \in Nat
  BY <1>2, CellsSeq
<1>4. PICK e \in o..Len(c) : s = e + 1
  BY <1>1, <1>2, SkipFound DEF Nowhere
<1> HIDE DEF s
<1>5. s \in (o + 1)..Len(c) /\ s \in Nat /\ x \in Nat /\ s < x /\ x <= Len(c) + 1
  BY <1>1, <1>2, <1>3, <1>4
<1> QED  BY <1>2, <1>3, <1>5 DEF s

\* A record is read alike from any place whose cells are alike.
LEMMA SpanShift ==
  ASSUME NEW c, IsCells(c), NEW b, IsCells(b), NEW o \in Nat \ {0}, NEW x, Span(c, o, x),
         NEW d \in Int, o + d >= 1, x - 1 + d <= Len(b),
         \A i \in o..(x - 1) : Alike(b[i + d], c[i])
  PROVE  Span(b, o + d, x + d) /\ SkipName(b, o + d) = SkipName(c, o) + d
<1> DEFINE s == SkipName(c, o)
<1>1. IsSeq(c) /\ Len(c) \in Nat /\ IsSeq(b) /\ Len(b) \in Nat /\ DOMAIN b = 1..Len(b)
  BY CellsSeq
<1>2. /\ s \in (o + 1)..Len(c) /\ s \in Nat /\ c[s].k = "rr" /\ c[s].len \in Nat
      /\ x = s + c[s].len + 1 /\ x \in Nat /\ s < x /\ x <= Len(c) + 1
  BY SpanBounds
<1>3. PICK e \in o..Len(c) : /\ s = e + 1 /\ c[e].k \in {"end", "ptr"}
                             /\ \A i \in o..(e - 1) : c[i].k = "label"
  <2>1. s # Nowhere
    <3> HIDE DEF s
    <3> QED  BY <1>2 DEF Nowhere
  <2> QED  BY <1>1, <2>1, SkipFound
<1> HIDE DEF s
<1>4. e \in o..(x - 1) /\ s \in o..(x - 1) /\ e + d \in (o + d)..Len(b) /\ o + d \in Nat \ {0}
      /\ s + d \in 1..Len(b) /\ s + d = e + d + 1 /\ e \in Int /\ e \in Nat
  <2>1. o \in Nat /\ o >= 1 /\ e \in Nat /\ o <= e /\ s = e + 1 /\ s <= x - 1 /\ x \in Nat
    BY <1>1, <1>2, <1>3
  <2>2. d \in Int /\ o + d >= 1 /\ x - 1 + d <= Len(b) /\ Len(b) \in Nat
    BY <1>1
  <2> HIDE DEF Span
  <2> QED  BY <2>1, <2>2
<1>5. b[e + d].k \in {"end", "ptr"}
  BY <1>3, <1>4 DEF Alike
<1>6. ASSUME NEW i \in (o + d)..(e + d - 1) PROVE b[i].k = "label"
  <2>1. i - d \in o..(e - 1) /\ i - d \in o..(x - 1) /\ (i - d) + d = i
    BY <1>2, <1>4
  <2> QED  BY <1>3, <2>1 DEF Alike
<1>7. SkipName(b, o + d) = s + d
  <2> DEFINE q == o + d
             f == e + d
  <2>1. q \in Nat \ {0} /\ f \in q..Len(b) /\ b[f].k \in {"end", "ptr"} /\ \A i \in q..(f - 1) : b[i].k = "label"
    BY <1>4, <1>5, <1>6
  <2> HIDE DEF q, f
  <2>2. SkipName(b, q) = f + 1
    BY <1>1, <2>1, SkipAt
  <2> QED  BY <1>4, <2>2 DEF q, f
<1>8. b[s + d].k = "rr" /\ b[s + d].len = c[s].len
  BY <1>2, <1>4 DEF Alike
<1>9. s + d + b[s + d].len <= Len(b) /\ x + d = s + d + b[s + d].len + 1
  <2>1. s + d + c[s].len = x - 1 + d /\ x - 1 + d <= Len(b)
    <3> DEFINE y == c[s].len
    <3>1. s \in Nat /\ y \in Nat /\ x = s + y + 1 /\ d \in Int
      BY <1>2
    <3> HIDE DEF y
    <3>2. s + d + y = x - 1 + d
      BY ONLY <3>1
    <3> QED  BY <3>2 DEF y
  <2> QED  BY <1>1, <1>2, <1>8, <2>1
<1>10. IsRecord(b, s + d)
  BY <1>1, <1>4, <1>8, <1>9 DEF IsRecord
<1> QED  BY <1>7, <1>9, <1>10 DEF Span, s

\* A later record stands further behind.
LEMMA SpansMonotone ==
  ASSUME NEW c, IsCells(c), NEW n \in Nat, NEW m, Spans(c, m, n)
  PROVE  \A i, j \in 0..n : i <= j => m[i] <= m[j] /\ (i < j => m[i] < m[j])
<1>1. \A i \in 0..n : m[i] \in Nat \ {0}
  BY DEF Spans
<1>2. \A i \in 1..n : m[i - 1] < m[i] /\ m[i] <= Len(c) + 1
  <2> SUFFICES ASSUME NEW i \in 1..n PROVE m[i - 1] < m[i] /\ m[i] <= Len(c) + 1
    OBVIOUS
  <2>1. i - 1 \in 0..n /\ m[i - 1] \in Nat \ {0} /\ m[i] \in Nat \ {0} /\ Span(c, m[i - 1], m[i])
    BY <1>1 DEF Spans
  <2> QED  BY <2>1, SpanBounds, CellsSeq
<1> SUFFICES ASSUME NEW i \in 0..n PROVE \A j \in 0..n : i <= j => m[i] <= m[j] /\ (i < j => m[i] < m[j])
  OBVIOUS
<1> DEFINE T == {k \in Nat : i + k <= n => m[i] <= m[i + k] /\ (k > 0 => m[i] < m[i + k])}
<1>3. 0 \in T
  BY <1>1
<1>4. ASSUME NEW k \in Nat, k \in T PROVE k + 1 \in T
  <2> SUFFICES ASSUME i + (k + 1) <= n PROVE m[i] < m[i + (k + 1)]
    BY <1>1
  <2>1. i + k \in 0..n /\ i + (k + 1) \in 1..n /\ (i + (k + 1)) - 1 = i + k
    OBVIOUS
  <2>2. m[i] <= m[i + k] /\ m[i + k] < m[i + (k + 1)]
    BY <1>2, <1>4, <2>1
  <2>3. m[i] \in Nat /\ m[i + k] \in Nat /\ m[i + (k + 1)] \in Nat
    BY <1>1, <2>1
  <2> QED  BY <2>2, <2>3
<1>5. Nat \subseteq T
  <2> HIDE DEF T
  <2> QED  BY <1>3, <1>4, SetInduction
<1>6. ASSUME NEW j \in 0..n, i <= j PROVE m[i] <= m[j] /\ (i < j => m[i] < m[j])
  <2>1. j - i \in Nat /\ i + (j - i) = j /\ j - i \in T
    BY <1>5, <1>6
  <2> QED  BY <2>1
<1> QED  BY <1>6

\* All of them stand within the cells.
LEMMA SpansBounds ==
  ASSUME NEW c, IsCells(c), NEW n \in Nat, NEW m, Spans(c, m, n)
  PROVE  /\ \A i \in 0..n : m[i] \in Nat \ {0} /\ m[0] <= m[i] /\ m[i] <= m[n]
         /\ n > 0 => m[n] <= Len(c) + 1
         /\ m[0] <= Len(c) + 1 => m[n] <= Len(c) + 1
         /\ \A i \in 1..n : i - 1 \in 0..n /\ m[i - 1] < m[i] /\ Span(c, m[i - 1], m[i])
<1>1. \A i \in 0..n : m[i] \in Nat \ {0} /\ m[0] <= m[i] /\ m[i] <= m[n]
  <2>1. 0 \in 0..n /\ n \in 0..n
    OBVIOUS
  <2>2. \A i \in 0..n : m[i] \in Nat \ {0}
    BY DEF Spans
  <2> QED  BY <2>1, <2>2, SpansMonotone
<1>2. ASSUME NEW i \in 1..n
      PROVE  i - 1 \in 0..n /\ i \in 0..n /\ m[i - 1] < m[i] /\ Span(c, m[i - 1], m[i]) /\ m[i] <= Len(c) + 1
  <2>1. i - 1 \in 0..n /\ i \in 0..n /\ Span(c, m[i - 1], m[i])
    BY DEF Spans
  <2>2. m[i - 1] \in Nat \ {0} /\ m[i] \in Nat \ {0}
    BY <1>1, <2>1
  <2>3. SkipName(c, m[i - 1]) \in (m[i - 1] + 1)..Len(c) /\ SkipName(c, m[i - 1]) < m[i] /\ m[i] <= Len(c) + 1
    BY <2>1, <2>2, SpanBounds
  <2> QED  BY <2>1, <2>2, <2>3, CellsSeq
<1>3. n > 0 => m[n] <= Len(c) + 1
  BY <1>2
<1>4. n = 0 => m[n] = m[0]
  OBVIOUS
<1> QED  BY <1>1, <1>2, <1>3, <1>4

\* Records are read alike from any place whose cells are alike.
LEMMA SpansShift ==
  ASSUME NEW c, IsCells(c), NEW b, IsCells(b), NEW n \in Nat, NEW m, Spans(c, m, n),
         NEW d \in Int, m[0] + d >= 1, m[n] - 1 + d <= Len(b),
         \A i \in m[0]..(m[n] - 1) : Alike(b[i + d], c[i])
  PROVE  /\ Spans(b, [i \in 0..n |-> m[i] + d], n)
         /\ \A i \in 1..n : SkipName(b, m[i - 1] + d) = SkipName(c, m[i - 1]) + d
<1>1. \A i \in 0..n : m[i] \in Nat \ {0} /\ m[0] <= m[i] /\ m[i] <= m[n]
  BY SpansBounds
<1>2. ASSUME NEW i \in 1..n
      PROVE  Span(b, m[i - 1] + d, m[i] + d) /\ SkipName(b, m[i - 1] + d) = SkipName(c, m[i - 1]) + d
  <2> DEFINE o == m[i - 1]
             x == m[i]
  <2>1. i \in 0..n /\ i - 1 \in 0..n /\ o \in Nat \ {0} /\ x \in Nat /\ Span(c, o, x) /\ m[0] <= o /\ x <= m[n]
        /\ m[0] \in Nat /\ m[n] \in Nat
    BY <1>1, SpansBounds
  <2> HIDE DEF o, x
  <2>2. m[0] + d >= 1 /\ m[n] - 1 + d <= Len(b) /\ Len(b) \in Nat
    BY CellsSeq
  <2>3. o + d >= 1 /\ x - 1 + d <= Len(b) /\ \A j \in o..(x - 1) : j \in m[0]..(m[n] - 1)
    BY <2>1, <2>2
  <2>4. \A j \in o..(x - 1) : Alike(b[j + d], c[j])
    BY <2>3
  <2> QED  BY <2>1, <2>3, <2>4, SpanShift DEF o, x
<1>3. \A i \in 0..n : m[i] + d \in Nat \ {0}
  <2>1. m[0] \in Nat /\ m[0] + d >= 1
    BY <1>1
  <2> QED  BY <1>1, <2>1
<1>4. \A i \in 1..n : i \in 0..n /\ i - 1 \in 0..n
  OBVIOUS
<1> QED  BY <1>2, <1>3, <1>4 DEF Spans

\* Records behind records are records.
LEMMA SpansJoin ==
  ASSUME NEW c, NEW n \in Nat, NEW m, Spans(c, m, n), NEW k \in Nat, NEW l, Spans(c, l, k),
         l[0] = m[n]
  PROVE  Spans(c, [i \in 0..(n + k) |-> IF i <= n THEN m[i] ELSE l[i - n]], n + k)
<1> DEFINE j == [i \in 0..(n + k) |-> IF i <= n THEN m[i] ELSE l[i - n]]
<1>1. m \in [0..n -> Nat \ {0}] /\ l \in [0..k -> Nat \ {0}]
  BY DEF Spans
<1>2. \A i \in 0..(n + k) : i > n => i - n \in 0..k
  OBVIOUS
<1>3. j \in [0..(n + k) -> Nat \ {0}]
  BY <1>1, <1>2
<1>4. ASSUME NEW i \in 1..(n + k) PROVE Span(c, j[i - 1], j[i])
  <2>1. CASE i <= n
    <3>1. j[i] = m[i] /\ j[i - 1] = m[i - 1] /\ i \in 1..n
      BY <2>1
    <3> QED  BY <3>1 DEF Spans
  <2>2. CASE i = n + 1
    <3>1. j[i] = l[1] /\ j[i - 1] = l[0] /\ 1 \in 1..k /\ 1 - 1 = 0
      BY <2>2
    <3>2. Span(c, l[1 - 1], l[1])
      BY <3>1 DEF Spans
    <3> QED  BY <3>1, <3>2
  <2>3. CASE i > n + 1
    <3>1. j[i] = l[i - n] /\ j[i - 1] = l[i - 1 - n] /\ i - n \in 1..k /\ (i - n) - 1 = i - 1 - n
      BY <2>3
    <3>2. Span(c, l[(i - n) - 1], l[i - n])
      BY <3>1 DEF Spans
    <3> QED  BY <3>1, <3>2
  <2> QED  BY <2>1, <2>2, <2>3
<1> QED  BY <1>3, <1>4 DEF Spans

\* A part of the records are records.
LEMMA SpansCut ==
  ASSUME NEW c, NEW n \in Nat, NEW m, Spans(c, m, n), NEW a \in Nat, NEW k \in Nat, a + k <= n
  PROVE  Spans(c, [i \in 0..k |-> m[a + i]], k)
<1> DEFINE l == [i \in 0..k |-> m[a + i]]
<1>1. m \in [0..n -> Nat \ {0}]
  BY DEF Spans
<1>2. l \in [0..k -> Nat \ {0}]
  <2>1. \A i \in 0..k : a + i \in 0..n
    OBVIOUS
  <2> QED  BY <1>1, <2>1
<1>3. ASSUME NEW i \in 1..k PROVE Span(c, l[i - 1], l[i])
  <2>1. l[i] = m[a + i] /\ l[i - 1] = m[a + (i - 1)] /\ a + i \in 1..n /\ (a + i) - 1 = a + (i - 1)
    OBVIOUS
  <2>2. Span(c, m[(a + i) - 1], m[a + i])
    BY <2>1 DEF Spans
  <2> QED  BY <2>1, <2>2
<1> QED  BY <1>2, <1>3 DEF Spans

\* What is where in a sequence with one more element.
LEMMA Appending ==
  ASSUME NEW s, IsSeq(s), NEW e
  PROVE  /\ IsSeq(Append(s, e)) /\ Len(Append(s, e)) = Len(s) + 1
         /\ \A i \in 1..Len(s) : Append(s, e)[i] = s[i]
         /\ Append(s, e)[Len(s) + 1] = e
<1> DEFINE S == ToSet(s) \cup {e}
<1>1. s \in [1..Len(s) -> S] /\ e \in S
  BY SeqBasics DEF ToSet
<1>2. s \in Seq(S) /\ Len(s) \in Nat
  BY <1>1, SeqBasics
<1>3. e \in S
  OBVIOUS
<1> HIDE DEF S
<1>4. Append(s, e) \in Seq(S)
  BY <1>2, <1>3
<1>5. IsSeq(Append(s, e))
  BY <1>4, SeqInOwn, Zenon
<1> QED  BY <1>2, <1>3, <1>5

\* Nothing is a sequence.
LEMMA EmptyIsSeq ==
  /\ IsSeq(<<>>) /\ Len(<<>>) = 0
  /\ \A s : IsSeq(s) => (s = <<>> <=> Len(s) = 0)
<1>1. IsSeq(<<>>) /\ Len(<<>>) = 0
  BY DEF IsSeq, ToSet
<1>2. ASSUME NEW s, IsSeq(s), Len(s) = 0 PROVE s = <<>>
  BY <1>1, <1>2, SameSeq
<1> QED  BY <1>1, <1>2

\* The records rs read from c stand at the places of m.
Marked(c, rs, m) ==
  /\ IsSeq(rs) /\ Spans(c, m, Len(rs))
  /\ \A i \in 1..Len(rs) : rs[i] = RecordAt(c, m[i - 1], SkipName(c, m[i - 1]))

\* The records read so far end where the last of them does.
LEMMA MarkedEnd ==
  ASSUME NEW c, NEW rs, NEW m, Marked(c, rs, m)
  PROVE  EndOf(rs, m[0]) = m[Len(rs)]
<1>1. IsSeq(rs) /\ Len(rs) \in Nat
  BY SeqBasics DEF Marked
<1>2. CASE Len(rs) = 0
  BY <1>1, <1>2, EmptyIsSeq DEF EndOf
<1>3. CASE Len(rs) # 0
  <2>1. rs # <<>> /\ Len(rs) \in 1..Len(rs)
    BY <1>1, <1>3, EmptyIsSeq
  <2>2. rs[Len(rs)].next = SkipName(c, m[Len(rs) - 1]) + c[SkipName(c, m[Len(rs) - 1])].len + 1
    <3>1. rs[Len(rs)] = RecordAt(c, m[Len(rs) - 1], SkipName(c, m[Len(rs) - 1]))
      BY <2>1 DEF Marked
    <3> QED  BY <3>1 DEF RecordAt
  <2>3. Span(c, m[Len(rs) - 1], m[Len(rs)])
    BY <2>1 DEF Marked, Spans
  <2> QED  BY <2>1, <2>2, <2>3 DEF EndOf, Span
<1> QED  BY <1>2, <1>3

\* One record more, if there is one.
LEMMA NextIsMarked ==
  ASSUME NEW c, IsCells(c), NEW rs, NEW m, Marked(c, rs, m)
  PROVE  \E l : /\ Marked(c, WithNext(c, rs, EndOf(rs, m[0])), l) /\ l[0] = m[0]
                /\ Len(WithNext(c, rs, EndOf(rs, m[0]))) \in {Len(rs), Len(rs) + 1}
<1> DEFINE k == Len(rs)
           o == m[k]
           e == SkipName(c, o)
           r == RecordAt(c, o, e)
           l == [i \in 0..(k + 1) |-> IF i <= k THEN m[i] ELSE r.next]
<1>1. IsSeq(rs) /\ k \in Nat /\ Spans(c, m, k) /\ m \in [0..k -> Nat \ {0}]
  BY SeqBasics DEF Marked, Spans
<1>2. EndOf(rs, m[0]) = o
  BY MarkedEnd
<1>3. CASE ~IsRecord(c, e)
  <2>1. WithNext(c, rs, o) = rs
    BY <1>3 DEF WithNext, WithRecord
  <2> QED  BY <1>2, <2>1
<1>4. CASE IsRecord(c, e)
  <2>1. WithNext(c, rs, o) = Append(rs, r)
    BY <1>4 DEF WithNext, WithRecord
  <2>2. IsSeq(Append(rs, r)) /\ Len(Append(rs, r)) = k + 1 /\ Append(rs, r)[k + 1] = r
        /\ \A i \in 1..k : Append(rs, r)[i] = rs[i]
    <3> HIDE DEF r
    <3> QED  BY <1>1, Appending
  <2>3. o \in Nat \ {0} /\ Span(c, o, r.next)
    BY <1>1, <1>4 DEF Span, RecordAt
  <2>4. r.next \in Nat \ {0}
    <3>1. \A q \in Nat \ {0} : \A x : Span(c, q, x) => x \in Nat \ {0}
      BY SpanBounds
    <3> HIDE DEF r, o
    <3> QED  BY <2>3, <3>1
  <2>5. l \in [0..(k + 1) -> Nat \ {0}]
    <3> HIDE DEF r
    <3> QED  BY <1>1, <2>4
  <2>6. ASSUME NEW i \in 1..(k + 1) PROVE Span(c, l[i - 1], l[i])
    <3>1. CASE i <= k
      <4>1. l[i - 1] = m[i - 1] /\ l[i] = m[i] /\ i \in 1..k
        BY <1>1, <3>1
      <4> QED  BY <1>1, <4>1 DEF Spans
    <3>2. CASE i = k + 1
      <4>1. l[i - 1] = o /\ l[i] = r.next
        <5> HIDE DEF r
        <5> QED  BY <1>1, <3>2
      <4> QED  BY <2>3, <4>1
    <3> QED  BY <1>1, <3>1, <3>2
  <2>7. ASSUME NEW i \in 1..(k + 1)
        PROVE  Append(rs, r)[i] = RecordAt(c, l[i - 1], SkipName(c, l[i - 1]))
    <3>1. CASE i <= k
      <4>1. l[i - 1] = m[i - 1] /\ i \in 1..k
        BY <1>1, <3>1
      <4>2. rs[i] = RecordAt(c, m[i - 1], SkipName(c, m[i - 1]))
        BY <4>1 DEF Marked
      <4> HIDE DEF l, r
      <4> QED  BY <2>2, <4>1, <4>2
    <3>2. CASE i = k + 1
      <4>1. l[i - 1] = o
        <5> HIDE DEF r
        <5> QED  BY <1>1, <3>2
      <4>2. Append(rs, r)[i] = r
        BY <2>2, <3>2
      <4> HIDE DEF l
      <4> QED  BY <4>1, <4>2
    <3> QED  BY <1>1, <3>1, <3>2
  <2>8. l[0] = m[0]
    BY <1>1
  <2>9. Marked(c, Append(rs, r), l)
    <3> HIDE DEF l, r
    <3> QED  BY <1>1, <2>2, <2>5, <2>6, <2>7 DEF Marked, Spans
  <2> HIDE DEF l, r
  <2> QED  BY <1>2, <2>1, <2>2, <2>8, <2>9
<1> QED  BY <1>3, <1>4

\* The reading as a function of the number of records.
Reads(c, start, n, f) ==
  f = [i \in 0..n |-> IF i = 0 THEN <<>> ELSE ReadOn(c, start, i, f[i - 1])]

\* The records read step by step: there is such a function.
LEMMA ReadsExists ==
  ASSUME NEW c, NEW start, NEW n \in Nat
  PROVE  \E f : Reads(c, start, n, f) /\ RecordsFrom(c, start, n) = f[n]
<1> DEFINE R(f, k) == [i \in 0..k |-> IF i = 0 THEN <<>> ELSE ReadOn(c, start, i, f[i - 1])]
           H == {k \in Nat : \E f : f = R(f, k)}
<1>1. 0 \in H
  <2> DEFINE f == [i \in 0..0 |-> <<>>]
  <2>1. f = R(f, 0)
    OBVIOUS
  <2> QED  BY <2>1
<1>2. ASSUME NEW k \in Nat, k \in H PROVE k + 1 \in H
  <2>1. PICK f : f = R(f, k)
    BY <1>2
  <2> DEFINE g == [i \in 0..(k + 1) |-> IF i <= k THEN f[i] ELSE ReadOn(c, start, k + 1, f[k])]
  <2>2. ASSUME NEW i \in 0..(k + 1)
        PROVE  g[i] = IF i = 0 THEN <<>> ELSE ReadOn(c, start, i, g[i - 1])
    <3>1. CASE i = 0
      <4>1. f[0] = <<>>
        BY <2>1
      <4> QED  BY <3>1, <4>1
    <3>2. CASE i # 0 /\ i <= k
      <4>1. i \in 0..k /\ i - 1 \in 0..(k + 1) /\ i - 1 <= k
        BY <3>2
      <4>2. f[i] = ReadOn(c, start, i, f[i - 1])
        BY <2>1, <3>2, <4>1
      <4> QED  BY <3>2, <4>1, <4>2
    <3>3. CASE i = k + 1
      <4>1. i - 1 = k /\ k \in 0..(k + 1) /\ ~(i <= k) /\ i # 0
        BY <3>3
      <4> QED  BY <3>3, <4>1
    <3> QED  BY <3>1, <3>2, <3>3
  <2>3. g = R(g, k + 1)
    <3>1. g = [i \in 0..(k + 1) |-> g[i]]
      OBVIOUS
    <3> HIDE DEF g
    <3> QED  BY <2>2, <3>1
  <2> HIDE DEF g
  <2> QED  BY <2>3
<1>3. n \in H
  <2> HIDE DEF H
  <2> QED  BY <1>1, <1>2, SetInduction
<1> DEFINE F == CHOOSE f : f = R(f, n)
<1>4. F = R(F, n)
  <2> HIDE DEF R
  <2> QED  BY <1>3
<1>5. RecordsFrom(c, start, n) = F[n]
  BY DEF RecordsFrom
<1> HIDE DEF F
<1> QED  BY <1>4, <1>5 DEF Reads

\* What is read stands in spans of its own, and is what was asked for at most.
LEMMA ReadsAreMarked ==
  ASSUME NEW c, IsCells(c), NEW start \in Nat \ {0}, NEW n \in Nat
  PROVE  \E m : /\ Marked(c, RecordsFrom(c, start, n), m) /\ m[0] = start
                /\ Len(RecordsFrom(c, start, n)) <= n
<1>1. PICK f : Reads(c, start, n, f) /\ RecordsFrom(c, start, n) = f[n]
  BY ReadsExists
<1> DEFINE G(k, m) == Marked(c, f[k], m) /\ m[0] = start /\ Len(f[k]) <= k
           T == {k \in Nat : k <= n => \E m : G(k, m)}
<1>2. \A i \in 0..n : f[i] = IF i = 0 THEN <<>> ELSE ReadOn(c, start, i, f[i - 1])
  BY <1>1 DEF Reads
<1>3. 0 \in T
  <2> DEFINE m == [i \in 0..0 |-> start]
  <2>1. f[0] = <<>>
    BY <1>2
  <2>2. Spans(c, m, 0)
    BY DEF Spans
  <2>3. G(0, m)
    BY <2>1, <2>2, EmptyIsSeq DEF Marked
  <2> QED  BY <2>3
<1>4. ASSUME NEW k \in Nat, k \in T PROVE k + 1 \in T
  <2> SUFFICES ASSUME k + 1 <= n PROVE \E m : G(k + 1, m)
    OBVIOUS
  <2>1. PICK m : G(k, m)
    BY <1>4
  <2>2. f[k + 1] = ReadOn(c, start, k + 1, f[k])
    <3>1. k + 1 \in 0..n /\ (k + 1) - 1 = k /\ k + 1 # 0
      OBVIOUS
    <3> QED  BY <1>2, <3>1
  <2>3. Len(f[k]) \in Nat
    BY <2>1, SeqBasics DEF Marked
  <2>4. CASE Len(f[k]) < k
    <3>1. f[k + 1] = f[k]
      BY <2>2, <2>4 DEF ReadOn
    <3>2. G(k + 1, m)
      BY <2>1, <2>3, <3>1
    <3> QED  BY <3>2
  <2>5. CASE ~(Len(f[k]) < k)
    <3>1. f[k + 1] = WithNext(c, f[k], EndOf(f[k], m[0]))
      BY <2>1, <2>2, <2>5 DEF ReadOn
    <3>2. PICK l : /\ Marked(c, f[k + 1], l) /\ l[0] = m[0]
                   /\ Len(f[k + 1]) \in {Len(f[k]), Len(f[k]) + 1}
      BY <2>1, <3>1, NextIsMarked
    <3>3. G(k + 1, l)
      BY <2>1, <2>3, <3>2
    <3> QED  BY <3>3
  <2> QED  BY <2>4, <2>5
<1>5. n \in T
  <2> HIDE DEF T
  <2> QED  BY <1>3, <1>4, SetInduction
<1> QED  BY <1>1, <1>5

\* Where n records stand, n records are read.
LEMMA ReadsAll ==
  ASSUME NEW c, IsCells(c), NEW n \in Nat, NEW m, Spans(c, m, n)
  PROVE  Marked(c, RecordsFrom(c, m[0], n), m) /\ Len(RecordsFrom(c, m[0], n)) = n
<1>1. PICK f : Reads(c, m[0], n, f) /\ RecordsFrom(c, m[0], n) = f[n]
  BY ReadsExists
<1> DEFINE r(i) == RecordAt(c, m[i - 1], SkipName(c, m[i - 1]))
           G(k) == IsSeq(f[k]) /\ Len(f[k]) = k /\ \A i \in 1..k : f[k][i] = r(i)
           T == {k \in Nat : k <= n => G(k)}
<1>2. \A i \in 0..n : f[i] = IF i = 0 THEN <<>> ELSE ReadOn(c, m[0], i, f[i - 1])
  BY <1>1 DEF Reads
<1>3. 0 \in T
  <2>1. f[0] = <<>>
    BY <1>2
  <2>2. G(0)
    BY <2>1, EmptyIsSeq
  <2> QED  BY <2>2
<1>4. ASSUME NEW k \in Nat, k \in T PROVE k + 1 \in T
  <2> SUFFICES ASSUME k + 1 <= n PROVE G(k + 1)
    OBVIOUS
  <2>1. G(k) /\ IsSeq(f[k]) /\ Len(f[k]) = k
    BY <1>4
  <2>2. f[k + 1] = ReadOn(c, m[0], k + 1, f[k])
    <3>1. k + 1 \in 0..n /\ (k + 1) - 1 = k /\ k + 1 # 0
      OBVIOUS
    <3> QED  BY <1>2, <3>1
  <2>3. f[k + 1] = WithNext(c, f[k], EndOf(f[k], m[0]))
    BY <2>1, <2>2 DEF ReadOn
  <2> DEFINE l == [i \in 0..k |-> m[i]]
  <2>4. Marked(c, f[k], l) /\ l[0] = m[0] /\ l[k] = m[k]
    <3>1. Spans(c, [i \in 0..k |-> m[0 + i]], k)
      BY SpansCut
    <3>2. l = [i \in 0..k |-> m[0 + i]] /\ \A i \in 1..k : l[i - 1] = m[i - 1]
      OBVIOUS
    <3> HIDE DEF l
    <3> QED  BY <2>1, <3>1, <3>2 DEF Marked
  <2>5. EndOf(f[k], m[0]) = m[k]
    <3> HIDE DEF l
    <3> QED  BY <2>1, <2>4, MarkedEnd
  <2>6. IsRecord(c, SkipName(c, m[k]))
    <3>1. k + 1 \in 1..n /\ (k + 1) - 1 = k
      OBVIOUS
    <3>2. Span(c, m[(k + 1) - 1], m[k + 1])
      BY <3>1 DEF Spans
    <3> QED  BY <3>1, <3>2 DEF Span
  <2>7. f[k + 1] = Append(f[k], r(k + 1))
    <3>1. (k + 1) - 1 = k
      OBVIOUS
    <3> QED  BY <2>3, <2>5, <2>6, <3>1 DEF WithNext, WithRecord
  <2>8. /\ IsSeq(f[k + 1]) /\ Len(f[k + 1]) = k + 1 /\ f[k + 1][k + 1] = r(k + 1)
        /\ \A i \in 1..k : f[k + 1][i] = f[k][i]
    <3> HIDE DEF r
    <3> QED  BY <2>1, <2>7, Appending
  <2>9. \A i \in 1..(k + 1) : f[k + 1][i] = r(i)
    <3> HIDE DEF r
    <3>1. \A i \in 1..(k + 1) : i \in 1..k \/ i = k + 1
      OBVIOUS
    <3> QED  BY <2>1, <2>8, <3>1
  <2> QED  BY <2>8, <2>9
<1>5. n \in T
  <2> HIDE DEF T
  <2> QED  BY <1>3, <1>4, SetInduction
<1> QED  BY <1>1, <1>5 DEF Marked

\* Cells put together are cells.
LEMMA JoinCells ==
  ASSUME NEW a, IsCells(a), NEW b, IsCells(b)
  PROVE  /\ IsCells(a \o b) /\ Len(a \o b) = Len(a) + Len(b)
         /\ \A i \in 1..Len(a) : (a \o b)[i] = a[i]
         /\ \A i \in 1..Len(b) : (a \o b)[Len(a) + i] = b[i]
<1>1. IsSeq(a) /\ IsSeq(b) /\ Len(a) \in Nat /\ Len(b) \in Nat
  BY CellsSeq
<1>2. /\ IsSeq(a \o b) /\ Len(a \o b) = Len(a) + Len(b)
      /\ \A i \in 1..Len(a) : (a \o b)[i] = a[i]
      /\ \A i \in 1..Len(b) : (a \o b)[Len(a) + i] = b[i]
  BY <1>1, Joining
<1>3. ASSUME NEW i \in 1..(Len(a) + Len(b)) PROVE IsCell((a \o b)[i])
  <2>1. CASE i <= Len(a)
    BY <1>1, <1>2, <2>1 DEF IsCells
  <2>2. CASE i > Len(a)
    <3>1. i - Len(a) \in 1..Len(b) /\ Len(a) + (i - Len(a)) = i
      BY <1>1, <2>2
    <3>2. (a \o b)[i] = b[i - Len(a)]
      BY <1>2, <3>1
    <3> QED  BY <3>1, <3>2 DEF IsCells
  <2> QED  BY <1>1, <2>1, <2>2
<1> QED  BY <1>2, <1>3 DEF IsCells

\* A part of the cells are cells.
LEMMA CutCells ==
  ASSUME NEW c, IsCells(c), NEW m \in Nat, NEW n \in Int, 1 <= m, m <= n + 1, n <= Len(c)
  PROVE  /\ IsCells(SubSeq(c, m, n)) /\ Len(SubSeq(c, m, n)) = n + 1 - m
         /\ \A i \in 1..(n + 1 - m) : SubSeq(c, m, n)[i] = c[m + i - 1]
<1>1. IsSeq(c) /\ Len(c) \in Nat /\ \A i \in 1..Len(c) : IsCell(c[i])
  BY CellsSeq DEF IsCells
<1>2. /\ IsSeq(SubSeq(c, m, n)) /\ Len(SubSeq(c, m, n)) = n + 1 - m
      /\ \A i \in 1..(n + 1 - m) : SubSeq(c, m, n)[i] = c[m + i - 1]
  BY <1>1, Cutting
<1>3. \A i \in 1..(n + 1 - m) : m + i - 1 \in 1..Len(c)
  BY <1>1
<1> QED  BY <1>1, <1>2, <1>3 DEF IsCells

\* The cells of one record and no more; the fixed part of it.
IsRaw(x) == IsCells(x) /\ Span(x, 1, Len(x) + 1)
\* Its fixed part.
FixedOf(x) == x[SkipName(x, 1)]

\* The records of xs fill c, at the places of m.
Fills(c, n, xs, m) ==
  /\ Spans(c, m, n) /\ m[0] = 1 /\ m[n] = Len(c) + 1
  /\ \A i \in 1..n : c[SkipName(c, m[i - 1])] = FixedOf(xs[i])

\* Every cell is like itself.
LEMMA AlikeItself ==
  \A a : Alike(a, a)
BY DEF Alike

\* Cells filled with records are so with one more behind them.
LEMMA FillOneMore ==
  ASSUME NEW c, IsCells(c), NEW n \in Nat, NEW xs, NEW m, Fills(c, n, xs, m), IsRaw(xs[n + 1])
  PROVE  IsCells(c \o xs[n + 1]) /\ \E l : Fills(c \o xs[n + 1], n + 1, xs, l)
<1> DEFINE x == xs[n + 1]
           b == c \o x
           l == [i \in 0..(n + 1) |-> IF i <= n THEN m[i] ELSE Len(b) + 1]
<1>1. IsCells(x) /\ Span(x, 1, Len(x) + 1)
  BY DEF IsRaw
<1> HIDE DEF x
<1>2. /\ IsCells(b) /\ Len(b) = Len(c) + Len(x) /\ Len(c) \in Nat /\ Len(x) \in Nat
      /\ \A i \in 1..Len(c) : b[i] = c[i]
      /\ \A i \in 1..Len(x) : b[Len(c) + i] = x[i]
  BY <1>1, JoinCells, CellsSeq
<1>3. IsCells(c) /\ Spans(c, m, n) /\ m[0] = 1 /\ m[n] = Len(c) + 1 /\ m \in [0..n -> Nat \ {0}]
      /\ \A i \in 1..n : c[SkipName(c, m[i - 1])] = FixedOf(xs[i])
  BY DEF Fills, Spans
<1> HIDE DEF b
<1>4. /\ Spans(b, [i \in 0..n |-> m[i] + 0], n)
      /\ \A i \in 1..n : SkipName(b, m[i - 1] + 0) = SkipName(c, m[i - 1]) + 0
  <2>1. \A i \in m[0]..(m[n] - 1) : b[i + 0] = c[i]
    BY <1>2, <1>3
  <2>2. \A i \in m[0]..(m[n] - 1) : Alike(b[i + 0], c[i])
    BY <2>1, AlikeItself
  <2>3. m[0] + 0 >= 1 /\ m[n] - 1 + 0 <= Len(b) /\ 0 \in Int
    BY <1>2, <1>3
  <2> DEFINE d == 0
  <2>4. /\ IsCells(c) /\ IsCells(b) /\ Spans(c, m, n) /\ d \in Int /\ m[0] + d >= 1 /\ m[n] - 1 + d <= Len(b)
        /\ \A i \in m[0]..(m[n] - 1) : Alike(b[i + d], c[i])
    BY <1>2, <1>3, <2>2, <2>3
  <2> HIDE DEF d
  <2>5. /\ Spans(b, [i \in 0..n |-> m[i] + d], n)
        /\ \A i \in 1..n : SkipName(b, m[i - 1] + d) = SkipName(c, m[i - 1]) + d
    BY <2>4, SpansShift
  <2> QED  BY <2>5 DEF d
<1>5. ASSUME NEW i \in 1..n
      PROVE  SkipName(b, m[i - 1]) = SkipName(c, m[i - 1]) /\ SkipName(c, m[i - 1]) \in 1..Len(c)
             /\ Span(b, m[i - 1], m[i])
  <2>1. m[i - 1] \in Nat \ {0} /\ Span(c, m[i - 1], m[i]) /\ m[i] \in Nat
    BY <1>3 DEF Spans
  <2>2. SkipName(c, m[i - 1]) \in (m[i - 1] + 1)..Len(c) /\ SkipName(c, m[i - 1]) \in Nat
    BY <2>1, SpanBounds
  <2>3. i \in 0..n /\ i - 1 \in 0..n /\ m[i] + 0 = m[i] /\ m[i - 1] + 0 = m[i - 1]
    BY <2>1
  <2>4. Span(b, m[i - 1] + 0, m[i] + 0)
    BY <1>4, <2>3 DEF Spans
  <2> QED  BY <1>2, <1>4, <2>1, <2>2, <2>3, <2>4
<1>6. Span(b, Len(c) + 1, Len(b) + 1) /\ SkipName(b, Len(c) + 1) = Len(c) + SkipName(x, 1)
      /\ SkipName(x, 1) \in 1..Len(x)
  <2>1. Span(b, 1 + Len(c), Len(x) + 1 + Len(c)) /\ SkipName(b, 1 + Len(c)) = SkipName(x, 1) + Len(c)
    <3>1. \A i \in 1..(Len(x) + 1 - 1) : b[i + Len(c)] = x[i]
      BY <1>2
    <3>2. \A i \in 1..(Len(x) + 1 - 1) : Alike(b[i + Len(c)], x[i])
      BY <3>1, AlikeItself
    <3>3. 1 \in Nat \ {0} /\ Len(c) \in Int /\ 1 + Len(c) >= 1 /\ Len(x) + 1 - 1 + Len(c) <= Len(b)
      BY <1>2
    <3> DEFINE y == Len(x) + 1
               d == Len(c)
    <3>4. IsCells(x) /\ IsCells(b) /\ Span(x, 1, y) /\ d \in Int /\ 1 \in Nat \ {0} /\ 1 + d >= 1
          /\ y - 1 + d <= Len(b) /\ \A i \in 1..(y - 1) : Alike(b[i + d], x[i])
      BY <1>1, <1>2, <3>2, <3>3
    <3> HIDE DEF y, d
    <3>5. Span(b, 1 + d, y + d) /\ SkipName(b, 1 + d) = SkipName(x, 1) + d
      BY <3>4, SpanShift
    <3> QED  BY <3>5 DEF y, d
  <2>2. SkipName(x, 1) \in (1 + 1)..Len(x) /\ SkipName(x, 1) \in Nat
    BY <1>1, SpanBounds
  <2> QED  BY <1>2, <2>1, <2>2
<1>7. l \in [0..(n + 1) -> Nat \ {0}]
  BY <1>2, <1>3
<1>8. ASSUME NEW i \in 1..(n + 1)
      PROVE  Span(b, l[i - 1], l[i]) /\ b[SkipName(b, l[i - 1])] = FixedOf(xs[i])
  <2>1. CASE i <= n
    <3>1. i \in 1..n /\ l[i - 1] = m[i - 1] /\ l[i] = m[i]
      BY <2>1
    <3> HIDE DEF l
    <3> QED  BY <1>2, <1>3, <1>5, <3>1
  <2>2. CASE i = n + 1
    <3>1. l[i - 1] = Len(c) + 1 /\ l[i] = Len(b) + 1
      BY <1>3, <2>2
    <3> HIDE DEF l
    <3>2. b[SkipName(b, l[i - 1])] = x[SkipName(x, 1)]
      BY <1>2, <1>6, <3>1
    <3> QED  BY <1>6, <2>2, <3>1, <3>2 DEF FixedOf, x
  <2> QED  BY <2>1, <2>2
<1>9. l[0] = 1 /\ l[n + 1] = Len(b) + 1
  BY <1>3
<1> HIDE DEF l
<1>10. Fills(b, n + 1, xs, l)
  BY <1>7, <1>8, <1>9 DEF Fills, Spans
<1> QED  BY <1>2, <1>10 DEF b, x

\* Flattening puts one sequence behind the other: there is such a function.
LEMMA FlatExists ==
  ASSUME NEW xs, IsSeq(xs), Len(xs) # 0
  PROVE  \E f : /\ FlattenSeq(xs) = f[Len(xs)] /\ f[1] = xs[1]
                /\ \A i \in 2..Len(xs) : f[i] = f[i - 1] \o xs[i]
<1> DEFINE n == Len(xs)
           R(f, k) == [i \in 1..k |-> IF i = 1 THEN xs[i] ELSE f[i - 1] \o xs[i]]
           H == {k \in Nat : \E f : f = R(f, k)}
<1>1. 0 \in H
  <2> DEFINE f == [i \in 1..0 |-> <<>>]
  <2>1. f = R(f, 0)
    OBVIOUS
  <2> QED  BY <2>1
<1>2. ASSUME NEW k \in Nat, k \in H PROVE k + 1 \in H
  <2>1. PICK f : f = R(f, k)
    BY <1>2
  <2> DEFINE g == [i \in 1..(k + 1) |-> IF i <= k THEN f[i] ELSE IF i = 1 THEN xs[i] ELSE f[i - 1] \o xs[i]]
  <2>2. ASSUME NEW i \in 1..(k + 1)
        PROVE  g[i] = IF i = 1 THEN xs[i] ELSE g[i - 1] \o xs[i]
    <3>1. CASE i <= k
      <4>1. i \in 1..k /\ (i # 1 => i - 1 \in 1..(k + 1) /\ i - 1 <= k)
        BY <3>1
      <4>2. f[i] = IF i = 1 THEN xs[i] ELSE f[i - 1] \o xs[i]
        BY <2>1, <4>1
      <4> QED  BY <3>1, <4>1, <4>2
    <3>2. CASE i = k + 1
      <4>1. ~(i <= k) /\ (i # 1 => i - 1 \in 1..(k + 1) /\ i - 1 <= k)
        BY <3>2
      <4> QED  BY <4>1
    <3> QED  BY <3>1, <3>2
  <2>3. g = R(g, k + 1)
    <3>1. g = [i \in 1..(k + 1) |-> g[i]]
      OBVIOUS
    <3> HIDE DEF g
    <3> QED  BY <2>2, <3>1
  <2>4. \E h : h = R(h, k + 1)
    <3> HIDE DEF g, R
    <3> QED  BY <2>3
  <2> HIDE DEF g, R
  <2> QED  BY <2>4
<1>3. n \in Nat
  BY SeqBasics
<1>4. n \in H
  <2> HIDE DEF H
  <2> QED  BY <1>1, <1>2, <1>3, SetInduction
<1> DEFINE F == CHOOSE f : f = R(f, n)
<1>5. F = R(F, n)
  <2> HIDE DEF R
  <2> QED  BY <1>4
<1>6. FlattenSeq(xs) = F[n]
  BY DEF FlattenSeq
<1> HIDE DEF F
<1>7. F[1] = xs[1]
  BY <1>3, <1>5
<1>8. \A i \in 2..n : F[i] = F[i - 1] \o xs[i]
  <2>1. \A i \in 2..n : i \in 1..n /\ i # 1
    OBVIOUS
  <2> QED  BY <1>5, <2>1
<1> QED  BY <1>6, <1>7, <1>8

\* Records one after the other are cells full of records.
LEMMA FlatFills ==
  ASSUME NEW xs, IsSeq(xs), \A i \in 1..Len(xs) : IsRaw(xs[i])
  PROVE  IsCells(FlattenSeq(xs)) /\ \E m : Fills(FlattenSeq(xs), Len(xs), xs, m)
<1> DEFINE n == Len(xs)
<1>1. n \in Nat
  BY SeqBasics
<1>2. CASE n = 0
  <2>1. FlattenSeq(xs) = xs
    BY <1>2 DEF FlattenSeq
  <2>2. IsCells(xs) /\ Fills(xs, 0, xs, [i \in 0..0 |-> 1])
    BY <1>2 DEF IsCells, Fills, Spans
  <2> QED  BY <1>2, <2>1, <2>2
<1>3. CASE n # 0
  <2>1. PICK f : /\ FlattenSeq(xs) = f[n] /\ f[1] = xs[1]
                 /\ \A i \in 2..n : f[i] = f[i - 1] \o xs[i]
    BY <1>3, FlatExists
  <2> DEFINE T == {k \in Nat : k + 1 <= n => IsCells(f[k + 1]) /\ \E m : Fills(f[k + 1], k + 1, xs, m)}
  <2>2. 0 \in T
    <3>1. 1 \in 1..n
      BY <1>1, <1>3
    <3>2. IsCells(f[1]) /\ Span(f[1], 1, Len(f[1]) + 1) /\ FixedOf(xs[1]) = f[1][SkipName(f[1], 1)]
      BY <2>1, <3>1 DEF IsRaw, FixedOf
    <3> DEFINE m == [i \in 0..1 |-> IF i = 0 THEN 1 ELSE Len(f[1]) + 1]
    <3>3. m \in [0..1 -> Nat \ {0}] /\ m[0] = 1 /\ m[1] = Len(f[1]) + 1
      BY <3>2, CellsSeq
    <3>4. Fills(f[1], 1, xs, m)
      <4> HIDE DEF m
      <4>1. \A i \in 1..1 : i = 1 /\ i - 1 = 0
        OBVIOUS
      <4> QED  BY <3>2, <3>3, <4>1 DEF Fills, Spans
    <3> HIDE DEF m
    <3> QED  BY <3>2, <3>4
  <2>3. ASSUME NEW k \in Nat, k \in T PROVE k + 1 \in T
    <3> SUFFICES ASSUME (k + 1) + 1 <= n
                 PROVE  IsCells(f[(k + 1) + 1]) /\ \E m : Fills(f[(k + 1) + 1], (k + 1) + 1, xs, m)
      OBVIOUS
    <3>1. k + 1 <= n /\ (k + 1) + 1 \in 2..n /\ (k + 1) + 1 \in 1..n /\ ((k + 1) + 1) - 1 = k + 1 /\ k + 1 \in Nat
      BY <1>1
    <3>2. IsCells(f[k + 1]) /\ \E m : Fills(f[k + 1], k + 1, xs, m)
      BY <2>3, <3>1
    <3>3. f[(k + 1) + 1] = f[k + 1] \o xs[(k + 1) + 1] /\ IsRaw(xs[(k + 1) + 1])
      BY <2>1, <3>1
    <3> QED  BY <3>1, <3>2, <3>3, FillOneMore
  <2>4. n - 1 \in T /\ (n - 1) + 1 = n
    <3>1. Nat \subseteq T
      <4> HIDE DEF T
      <4> QED  BY <2>2, <2>3, SetInduction
    <3>2. n - 1 \in Nat /\ (n - 1) + 1 = n
      BY <1>1, <1>3
    <3> HIDE DEF T
    <3> QED  BY <3>1, <3>2
  <2> QED  BY <1>1, <2>1, <2>4
<1> QED  BY <1>2, <1>3
-----------------------------------------------------------------------------
(* Packets *)

\* The counts and the cells of a packet.
LEMMA PacketCells ==
  ASSUME NEW p, IsPacket(p)
  PROVE  /\ IsCells(p.cells) /\ p.qd \in {0, 1} /\ p.an \in Nat /\ p.ns \in Nat /\ p.ar \in Nat
         /\ IsSeq(p.cells) /\ Len(p.cells) \in Nat /\ DOMAIN p.cells = 1..Len(p.cells)
         /\ p = [flags |-> p.flags, rcode |-> p.rcode, qd |-> p.qd, an |-> p.an, ns |-> p.ns, ar |-> p.ar,
                 cells |-> p.cells]
<1>1. IsSeq(p.cells)
  BY DEF IsPacket, IsSeq
<1> QED  BY <1>1, SeqBasics DEF IsPacket, IsCells

\* Any counts and cells make a packet.
LEMMA PacketOf ==
  ASSUME NEW flags, NEW rcode, NEW qd \in {0, 1}, NEW an \in Nat, NEW ns \in Nat, NEW ar \in Nat,
         NEW c, IsCells(c)
  PROVE  IsPacket([flags |-> flags, rcode |-> rcode, qd |-> qd, an |-> an, ns |-> ns, ar |-> ar, cells |-> c])
<1>1. c \in Seq(ToSet(c)) /\ DOMAIN c = 1..Len(c) /\ \A i \in DOMAIN c : IsCell(c[i])
  BY CellsSeq DEF IsCells, IsSeq
<1> QED  BY <1>1 DEF IsPacket

\* Where no question and where one question ends.
LEMMA QuestionEndIs ==
  ASSUME NEW c
  PROVE  /\ QuestionEnd(c, 0) = 1
         /\ QuestionEnd(c, 1) = AfterQuestion(c, SkipName(c, 1))
<1> DEFINE R(f, k) == [i \in 0..k |-> IF i = 0 THEN 1 ELSE NextQuestion(c, f[i - 1])]
           F(k) == CHOOSE f : f = R(f, k)
           f0 == [i \in 0..0 |-> 1]
           f1 == [i \in 0..1 |-> IF i = 0 THEN 1 ELSE NextQuestion(c, 1)]
<1>1. f0 = R(f0, 0)
  OBVIOUS
<1>2. f1 = R(f1, 1)
  OBVIOUS
<1>3. F(0) = R(F(0), 0) /\ F(1) = R(F(1), 1)
  <2>1. (\E f : f = R(f, 0)) /\ (\E f : f = R(f, 1))
    <3> HIDE DEF R, f0, f1
    <3> QED  BY <1>1, <1>2
  <2> HIDE DEF R
  <2> QED  BY <2>1
<1>4. QuestionEnd(c, 0) = F(0)[0] /\ QuestionEnd(c, 1) = F(1)[1]
  BY DEF QuestionEnd
<1> HIDE DEF F
<1>5. F(0)[0] = 1 /\ F(1)[0] = 1 /\ F(1)[1] = NextQuestion(c, F(1)[0])
  BY <1>3
<1> QED  BY <1>4, <1>5 DEF NextQuestion, Nowhere

\* It ends within the cells.
LEMMA QuestionBounds ==
  ASSUME NEW c, IsCells(c), NEW k \in {0, 1}, QuestionEnd(c, k) # Nowhere
  PROVE  QuestionEnd(c, k) \in 1..(Len(c) + 1) /\ QuestionEnd(c, k) \in Nat \ {0}
<1>1. IsSeq(c) /\ Len(c) \in Nat /\ DOMAIN c = 1..Len(c)
  BY CellsSeq
<1> QED  BY <1>1, QuestionEndIs DEF AfterQuestion

\* A question is read the same wherever its cells are at the start.
LEMMA QuestionSame ==
  ASSUME NEW c, IsCells(c), NEW b, IsCells(b), NEW k \in {0, 1}, QuestionEnd(c, k) # Nowhere,
         QuestionEnd(c, k) - 1 <= Len(b), \A i \in 1..(QuestionEnd(c, k) - 1) : b[i].k = c[i].k
  PROVE  QuestionEnd(b, k) = QuestionEnd(c, k)
<1>1. IsSeq(c) /\ Len(c) \in Nat /\ DOMAIN c = 1..Len(c) /\ IsSeq(b) /\ Len(b) \in Nat /\ DOMAIN b = 1..Len(b)
  BY CellsSeq
<1>2. CASE k = 0
  BY <1>2, QuestionEndIs
<1>3. CASE k = 1
  <2> DEFINE s == SkipName(c, 1)
  <2>1. s \in 1..Len(c) /\ QuestionEnd(c, k) = s + 1
    BY <1>1, <1>3, QuestionEndIs DEF AfterQuestion
  <2>2. PICK e \in 1..Len(c) : /\ s = e + 1 /\ c[e].k \in {"end", "ptr"}
                               /\ \A i \in 1..(e - 1) : c[i].k = "label"
    <3>1. s # Nowhere
      BY <2>1 DEF Nowhere
    <3> QED  BY <1>1, <3>1, SkipFound
  <2> HIDE DEF s
  <2>3. s <= Len(b) /\ \A i \in 1..s : b[i].k = c[i].k
    BY <2>1
  <2>4. e \in 1..Len(b) /\ b[e].k \in {"end", "ptr"} /\ \A i \in 1..(e - 1) : b[i].k = "label"
    BY <1>1, <2>1, <2>2, <2>3
  <2>5. SkipName(b, 1) = s
    BY <1>1, <2>2, <2>4, SkipAt
  <2>6. AfterQuestion(b, s) = s + 1
    BY <1>1, <2>1, <2>3 DEF AfterQuestion
  <2> QED  BY <1>3, <2>1, <2>5, <2>6, QuestionEndIs
<1> QED  BY <1>2, <1>3

\* What the first question looks like.
LEMMA HasQuestionIs ==
  ASSUME NEW p, IsPacket(p)
  PROVE  HasQuestion(p) <=>
           /\ p.qd = 1
           /\ \E e \in 1..Len(p.cells) : /\ p.cells[e].k = "end" /\ e + 1 <= Len(p.cells)
                                         /\ \A i \in 1..(e - 1) : p.cells[i].k = "label"
                                         /\ AnswersFrom(p) = e + 2
<1> DEFINE c == p.cells
           s == Stop(c, 1)
<1>1. IsSeq(c) /\ Len(c) \in Nat /\ DOMAIN c = 1..Len(c) /\ p.qd \in {0, 1} /\ AnswersFrom(p) = QuestionEnd(c, p.qd)
  BY PacketCells DEF AnswersFrom
<1> HIDE DEF c
<1>2. HasQuestion(p) <=> p.qd # 0 /\ Behind(c, s, {"end"}) \in DOMAIN c
  BY DEF HasQuestion, c
<1>3. ASSUME HasQuestion(p)
      PROVE  /\ p.qd = 1 /\ s \in 1..Len(c) /\ c[s].k = "end" /\ s + 1 <= Len(c)
             /\ \A i \in 1..(s - 1) : c[i].k = "label"
             /\ AnswersFrom(p) = s + 2
  <2>1. p.qd = 1 /\ s # Nowhere /\ c[s].k = "end" /\ s + 1 \in DOMAIN c
    <3> HIDE DEF s
    <3> QED  BY <1>1, <1>2, <1>3 DEF Behind, Nowhere
  <2>2. s \in 1..Len(c) /\ \A i \in 1..(s - 1) : c[i].k = "label"
    BY <1>1, <2>1, StopFound
  <2>3. SkipName(c, 1) = s + 1
    <3> HIDE DEF s
    <3> QED  BY <1>1, <2>1, <2>2, SkipAt
  <2>4. QuestionEnd(c, 1) = (s + 1) + 1
    <3> HIDE DEF s
    <3> QED  BY <2>1, <2>3, QuestionEndIs DEF AfterQuestion
  <2> HIDE DEF s
  <2> QED  BY <1>1, <2>1, <2>2, <2>4
<1>4. ASSUME p.qd = 1, NEW e \in 1..Len(c), c[e].k = "end", e + 1 <= Len(c),
             \A i \in 1..(e - 1) : c[i].k = "label"
      PROVE  HasQuestion(p)
  <2>1. s = e
    BY <1>1, <1>4, StopAt
  <2> HIDE DEF s
  <2>2. Behind(c, s, {"end"}) = e + 1 /\ e + 1 \in DOMAIN c
    BY <1>1, <1>4, <2>1 DEF Behind, Nowhere
  <2> QED  BY <1>2, <1>4, <2>2
<1> HIDE DEF s
<1> QED  BY <1>3, <1>4 DEF c

\* A packet whose first cells are alike has the question.
LEMMA QuestionKept ==
  ASSUME NEW p, IsPacket(p), NEW q, IsPacket(q), HasQuestion(p), q.qd = 1,
         AnswersFrom(p) - 1 <= Len(q.cells),
         \A i \in 1..(AnswersFrom(p) - 1) : q.cells[i].k = p.cells[i].k
  PROVE  HasQuestion(q) /\ AnswersFrom(q) = AnswersFrom(p)
<1>1. PICK e \in 1..Len(p.cells) : /\ p.cells[e].k = "end" /\ e + 1 <= Len(p.cells)
                                   /\ \A i \in 1..(e - 1) : p.cells[i].k = "label"
                                   /\ AnswersFrom(p) = e + 2
  BY HasQuestionIs
<1>2. IsCells(p.cells) /\ IsCells(q.cells) /\ Len(p.cells) \in Nat /\ Len(q.cells) \in Nat /\ p.qd = 1
  BY PacketCells, HasQuestionIs
<1>3. e \in 1..Len(q.cells) /\ e + 1 <= Len(q.cells) /\ e + 2 - 1 = e + 1
      /\ \A i \in 1..(e + 1) : q.cells[i].k = p.cells[i].k
  BY <1>1, <1>2
<1>4. q.cells[e].k = "end" /\ \A i \in 1..(e - 1) : q.cells[i].k = "label"
  BY <1>1, <1>2, <1>3
<1>5. AnswersFrom(q) = AnswersFrom(p)
  <2> DEFINE c == p.cells
             b == q.cells
  <2>1. QuestionEnd(c, 1) = e + 2 /\ AnswersFrom(q) = QuestionEnd(b, 1)
    BY <1>1, <1>2 DEF AnswersFrom
  <2>2. IsCells(c) /\ IsCells(b) /\ 1 \in {0, 1} /\ QuestionEnd(c, 1) # Nowhere
        /\ QuestionEnd(c, 1) - 1 <= Len(b) /\ \A i \in 1..(QuestionEnd(c, 1) - 1) : b[i].k = c[i].k
    BY <1>2, <1>3, <2>1 DEF Nowhere
  <2> HIDE DEF b, c
  <2>3. QuestionEnd(b, 1) = QuestionEnd(c, 1)
    BY <2>2, QuestionSame
  <2> QED  BY <1>1, <2>1, <2>3
<1> QED  BY <1>1, <1>3, <1>4, <1>5, HasQuestionIs
-----------------------------------------------------------------------------
(* The layout of a packet *)

\* The records a packet should hold.
Total(p) == p.an + p.ns + p.ar

\* The places of the records of p.
Laid(p, m) == AnswersFrom(p) # Nowhere /\ m[0] = AnswersFrom(p) /\ Marked(p.cells, Records(p), m)

\* However many records a packet has, they are somewhere.
LEMMA SomehowLaid ==
  ASSUME NEW p, IsPacket(p), AnswersFrom(p) # Nowhere
  PROVE  /\ AnswersFrom(p) \in 1..(Len(p.cells) + 1) /\ AnswersFrom(p) \in Nat
         /\ \E m : Laid(p, m)
         /\ IsSeq(Records(p)) /\ Len(Records(p)) \in Nat /\ Len(Records(p)) <= Total(p) /\ Total(p) \in Nat
<1>1. IsCells(p.cells) /\ p.qd \in {0, 1} /\ Total(p) \in Nat
  BY PacketCells DEF Total
<1>2. AnswersFrom(p) \in 1..(Len(p.cells) + 1) /\ AnswersFrom(p) \in Nat \ {0}
  BY <1>1, QuestionBounds DEF AnswersFrom
<1>3. Records(p) = RecordsFrom(p.cells, AnswersFrom(p), Total(p))
  BY DEF Records, Total
<1>4. PICK m : /\ Marked(p.cells, Records(p), m) /\ m[0] = AnswersFrom(p)
               /\ Len(Records(p)) <= Total(p)
  <2> DEFINE c == p.cells
             s == AnswersFrom(p)
             n == Total(p)
  <2>1. IsCells(c) /\ s \in Nat \ {0} /\ n \in Nat
    BY <1>1, <1>2
  <2> HIDE DEF c, s, n
  <2>2. \E m : /\ Marked(c, RecordsFrom(c, s, n), m) /\ m[0] = s /\ Len(RecordsFrom(c, s, n)) <= n
    BY <2>1, ReadsAreMarked
  <2> QED  BY <1>3, <2>2 DEF c, s, n
<1>5. IsSeq(Records(p)) /\ Len(Records(p)) \in Nat
  BY <1>4, SeqBasics DEF Marked
<1> QED  BY <1>1, <1>2, <1>4, <1>5 DEF Laid

\* Who finds all its records at some places reads them there.
LEMMA LaidOut ==
  ASSUME NEW p, IsPacket(p), AnswersFrom(p) # Nowhere, NEW m, m[0] = AnswersFrom(p),
         Spans(p.cells, m, Total(p))
  PROVE  Readable(p) /\ Laid(p, m)
<1> DEFINE c == p.cells
           n == Total(p)
<1>1. IsCells(c) /\ n \in Nat /\ Spans(c, m, n)
  BY PacketCells DEF Total
<1>2. Records(p) = RecordsFrom(c, m[0], n)
  BY DEF Records, Total
<1> HIDE DEF c, n
<1>3. Marked(c, Records(p), m) /\ Len(Records(p)) = n
  BY <1>1, <1>2, ReadsAll
<1> QED  BY <1>3 DEF Laid, Readable, Total, c, n

\* The records of a packet stand within its cells, one behind the other.
LEMMA LaidBounds ==
  ASSUME NEW p, IsPacket(p), NEW m, Laid(p, m)
  PROVE  /\ Spans(p.cells, m, Len(Records(p))) /\ m[0] = AnswersFrom(p)
         /\ \A i \in 0..Len(Records(p)) :
              m[i] \in Nat \ {0} /\ m[0] <= m[i] /\ m[i] <= Len(p.cells) + 1
         /\ \A i, j \in 0..Len(Records(p)) : i <= j => m[i] <= m[j]
<1> DEFINE c == p.cells
           n == Len(Records(p))
<1>1. IsCells(c) /\ n \in Nat /\ Spans(c, m, n) /\ m[0] <= Len(c) + 1 /\ Len(c) \in Nat
  BY PacketCells, SomehowLaid DEF Laid, Marked
<1>2. m[0] = AnswersFrom(p)
  BY DEF Laid
<1> HIDE DEF c, n
<1>3. \A i \in 0..n : m[i] \in Nat \ {0} /\ m[0] <= m[i] /\ m[i] <= m[n]
  BY <1>1, SpansBounds
<1>4. m[n] <= Len(c) + 1
  BY <1>1, SpansBounds
<1>5. \A i, j \in 0..n : i <= j => m[i] <= m[j]
  BY <1>1, SpansMonotone
<1>6. \A i \in 0..n : m[i] <= Len(c) + 1
  <2>1. n \in 0..n
    BY <1>1
  <2> QED  BY <1>1, <1>3, <1>4, <2>1
<1> QED  BY <1>1, <1>2, <1>3, <1>5, <1>6 DEF c, n
-----------------------------------------------------------------------------
(* Records one by one *)

\* r is a record of c, read where it is.
IsRead(c, r) == \E o \in Nat \ {0} : Span(c, o, r.next) /\ r = RecordAt(c, o, SkipName(c, o))

\* Each record was read from its place.
LEMMA MarkedRead ==
  ASSUME NEW c, IsCells(c), NEW rs, NEW m, Marked(c, rs, m)
  PROVE  \A i \in 1..Len(rs) : IsRead(c, rs[i]) /\ rs[i].at = m[i - 1] /\ rs[i].next = m[i]
<1> SUFFICES ASSUME NEW i \in 1..Len(rs)
             PROVE  IsRead(c, rs[i]) /\ rs[i].at = m[i - 1] /\ rs[i].next = m[i]
  OBVIOUS
<1>1. Len(rs) \in Nat /\ Spans(c, m, Len(rs))
  BY SeqBasics DEF Marked
<1>2. i - 1 \in 0..Len(rs) /\ m[i - 1] \in Nat \ {0} /\ Span(c, m[i - 1], m[i])
  BY <1>1, SpansBounds
<1>3. rs[i] = RecordAt(c, m[i - 1], SkipName(c, m[i - 1]))
  BY DEF Marked
<1>4. rs[i].next = m[i] /\ rs[i].at = m[i - 1]
  BY <1>2, <1>3 DEF RecordAt, Span
<1> QED  BY <1>2, <1>3, <1>4 DEF IsRead

\* A record cut out is a record, with the same fixed part.
LEMMA ReadRecord ==
  ASSUME NEW c, IsCells(c), NEW r, IsRead(c, r)
  PROVE  /\ IsRaw(SubSeq(c, r.at, r.next - 1))
         /\ FixedOf(SubSeq(c, r.at, r.next - 1)) = c[r.fixed]
         /\ c[r.fixed].k = "rr"
         /\ c[r.fixed].type = r.type /\ c[r.fixed].class = r.class /\ c[r.fixed].ttl = r.ttl
         /\ r.ttl \in Nat
         /\ IsCells(SubSeq(c, r.fixed + 1, r.next - 1))
<1>1. PICK o \in Nat \ {0} : Span(c, o, r.next) /\ r = RecordAt(c, o, SkipName(c, o))
  BY DEF IsRead
<1> DEFINE e == SkipName(c, o)
           x == r.next
<1>2. /\ e \in (o + 1)..Len(c) /\ e \in Nat /\ c[e].k = "rr" /\ c[e].len \in Nat
      /\ x = e + c[e].len + 1 /\ x \in Nat /\ e < x /\ x <= Len(c) + 1
  BY <1>1, SpanBounds
<1>3. /\ r.at = o /\ r.fixed = e /\ r.type = c[e].type /\ r.class = c[e].class /\ r.ttl = c[e].ttl
  BY <1>1 DEF RecordAt
<1>4. IsCells(c) /\ Len(c) \in Nat /\ Span(c, o, x)
  BY <1>1, CellsSeq
<1>5. c[e].ttl \in Nat
  BY <1>2, <1>4, CellsSeq
<1> HIDE DEF e, x
<1>6. IsCells(SubSeq(c, e + 1, x - 1))
  <2>1. e + 1 \in Nat /\ x - 1 \in Int /\ 1 <= e + 1 /\ e + 1 <= (x - 1) + 1 /\ x - 1 <= Len(c)
    BY <1>2, <1>4
  <2> QED  BY <1>4, <2>1, CutCells
<1> DEFINE b == SubSeq(c, o, x - 1)
<1>7. IsCells(b) /\ Len(b) = x - o /\ \A i \in 1..(x - o) : b[i] = c[o + i - 1]
  <2>1. o \in Nat /\ x - 1 \in Int /\ 1 <= o /\ o <= (x - 1) + 1 /\ x - 1 <= Len(c) /\ (x - 1) + 1 - o = x - o
    BY <1>2, <1>4
  <2> HIDE DEF x
  <2>2. IsCells(b) /\ Len(b) = (x - 1) + 1 - o /\ \A i \in 1..((x - 1) + 1 - o) : b[i] = c[o + i - 1]
    BY <1>4, <2>1, CutCells
  <2> QED  BY <2>1, <2>2
<1> HIDE DEF b
<1>8. Span(b, 1, Len(b) + 1) /\ SkipName(b, 1) = e - o + 1
  <2> DEFINE d == 1 - o
  <2>1. /\ d \in Int /\ o + d >= 1 /\ x - 1 + d <= Len(b)
        /\ \A i \in o..(x - 1) : Alike(b[i + d], c[i])
    <3>1. ASSUME NEW i \in o..(x - 1) PROVE b[i + d] = c[i]
      <4>1. i + d \in 1..(x - o) /\ o + (i + d) - 1 = i
        BY <1>2
      <4> QED  BY <1>7, <4>1
    <3> QED  BY <1>2, <1>7, <3>1, AlikeItself
  <2>2. o + d = 1 /\ x + d = Len(b) + 1 /\ e + d = e - o + 1
    BY <1>2, <1>7
  <2> HIDE DEF d
  <2>3. Span(b, o + d, x + d) /\ SkipName(b, o + d) = SkipName(c, o) + d
    BY <1>4, <1>7, <2>1, SpanShift
  <2> QED  BY <2>2, <2>3 DEF e
<1>9. b[e - o + 1] = c[e]
  <2>1. e - o + 1 \in 1..(x - o) /\ o + (e - o + 1) - 1 = e
    BY <1>2
  <2> QED  BY <1>7, <2>1
<1> QED  BY <1>2, <1>3, <1>5, <1>6, <1>7, <1>8, <1>9 DEF b, x, IsRaw, FixedOf
-----------------------------------------------------------------------------
(* Cells put together *)

\* n records at the places of m, with the fixed parts g.
Holds(c, m, n, g) == Spans(c, m, n) /\ \A i \in 1..n : c[SkipName(c, m[i - 1])] = g[i]

\* n records from s on; up to the end.
Has(c, s, n, g) == IsCells(c) /\ n \in Nat /\ s \in 1..(Len(c) + 1) /\ \E m : Holds(c, m, n, g) /\ m[0] = s
\* ... and nothing behind them.
Full(c, s, n, g) ==
  /\ IsCells(c) /\ n \in Nat /\ s \in 1..(Len(c) + 1)
  /\ \E m : Holds(c, m, n, g) /\ m[0] = s /\ m[n] = Len(c) + 1

\* The first n of g, then the first k of h.
After(n, g, k, h) == [i \in 1..(n + k) |-> IF i <= n THEN g[i] ELSE h[i - n]]

\* Cells full of records have them.
LEMMA FullHas ==
  ASSUME NEW c, NEW s, NEW n, NEW g, Full(c, s, n, g)
  PROVE  Has(c, s, n, g)
BY DEF Full, Has

\* Nothing stands at the end.
LEMMA FullNothing ==
  ASSUME NEW c, IsCells(c), NEW g
  PROVE  Full(c, Len(c) + 1, 0, g)
<1> DEFINE m == [i \in 0..0 |-> Len(c) + 1]
<1>1. Len(c) \in Nat
  BY CellsSeq
<1>2. m \in [0..0 -> Nat \ {0}] /\ m[0] = Len(c) + 1
  BY <1>1
<1> HIDE DEF m
<1>3. Holds(c, m, 0, g)
  BY <1>2 DEF Holds, Spans
<1> QED  BY <1>1, <1>2, <1>3 DEF Full

\* Records put together are nothing but these records.
LEMMA FullFlat ==
  ASSUME NEW xs, IsSeq(xs), \A i \in 1..Len(xs) : IsRaw(xs[i])
  PROVE  Full(FlattenSeq(xs), 1, Len(xs), [i \in 1..Len(xs) |-> FixedOf(xs[i])])
<1> DEFINE c == FlattenSeq(xs)
           n == Len(xs)
           g == [i \in 1..n |-> FixedOf(xs[i])]
<1>1. n \in Nat
  BY SeqBasics
<1>2. IsCells(c) /\ \E m : Fills(c, n, xs, m)
  BY FlatFills
<1>3. Len(c) \in Nat
  BY <1>2, CellsSeq
<1> HIDE DEF c
<1>4. PICK m : Fills(c, n, xs, m)
  BY <1>2
<1>5. Spans(c, m, n) /\ m[0] = 1 /\ m[n] = Len(c) + 1 /\ \A i \in 1..n : c[SkipName(c, m[i - 1])] = FixedOf(xs[i])
  BY <1>4 DEF Fills
<1>6. Holds(c, m, n, g)
  BY <1>5 DEF Holds
<1>7. IsCells(c) /\ 1 \in 1..(Len(c) + 1)
  BY <1>2, <1>3
<1> HIDE DEF g
<1>8. Full(c, 1, n, g)
  BY <1>1, <1>5, <1>6, <1>7 DEF Full
<1> QED  BY <1>8 DEF c, g

\* A record alone.
LEMMA FullOne ==
  ASSUME NEW x, IsRaw(x)
  PROVE  Full(x, 1, 1, [i \in 1..1 |-> FixedOf(x)])
<1> DEFINE m == [i \in 0..1 |-> IF i = 0 THEN 1 ELSE Len(x) + 1]
           g == [i \in 1..1 |-> FixedOf(x)]
<1>1. IsCells(x) /\ Span(x, 1, Len(x) + 1) /\ Len(x) \in Nat
  BY CellsSeq DEF IsRaw
<1>2. m \in [0..1 -> Nat \ {0}] /\ m[0] = 1 /\ m[1] = Len(x) + 1
  BY <1>1
<1> HIDE DEF m
<1>3. Spans(x, m, 1)
  <2>1. ASSUME NEW i \in 1..1 PROVE Span(x, m[i - 1], m[i])
    <3>1. i = 1 /\ i - 1 = 0
      OBVIOUS
    <3> QED  BY <1>1, <1>2, <3>1
  <2> QED  BY <1>2, <2>1 DEF Spans
<1>4. \A i \in 1..1 : x[SkipName(x, m[i - 1])] = g[i]
  <2> SUFFICES ASSUME NEW i \in 1..1 PROVE x[SkipName(x, m[i - 1])] = g[i]
    OBVIOUS
  <2>1. i = 1 /\ i - 1 = 0
    OBVIOUS
  <2> QED  BY <1>2, <2>1 DEF FixedOf
<1> HIDE DEF g
<1>5. Holds(x, m, 1, g)
  BY <1>3, <1>4 DEF Holds
<1> QED  BY <1>1, <1>2, <1>5 DEF Full, g

\* The records of a, then those of b.
LEMMA HoldsAfter ==
  ASSUME NEW a, IsCells(a), NEW n \in Nat, NEW m, NEW g, Holds(a, m, n, g), m[n] = Len(a) + 1,
         NEW b, IsCells(b), NEW k \in Nat, NEW l, NEW h, Holds(b, l, k, h), l[0] = 1
  PROVE  \E j : /\ Holds(a \o b, j, n + k, After(n, g, k, h))
                /\ j[0] = m[0] /\ j[n + k] = Len(a) + l[k]
<1> DEFINE q == a \o b
           d == Len(a)
           f == After(n, g, k, h)
           m0 == [i \in 0..n |-> m[i] + 0]
           l1 == [i \in 0..k |-> l[i] + d]
           j == [i \in 0..(n + k) |-> IF i <= n THEN m0[i] ELSE l1[i - n]]
<1>1. /\ IsCells(q) /\ Len(q) = Len(a) + Len(b) /\ Len(a) \in Nat /\ Len(b) \in Nat
      /\ \A i \in 1..Len(a) : q[i] = a[i]
      /\ \A i \in 1..Len(b) : q[d + i] = b[i]
  BY JoinCells, CellsSeq
<1>2. Spans(a, m, n) /\ Spans(b, l, k)
  BY DEF Holds
<1>3. /\ \A i \in 0..n : m[i] \in Nat \ {0} /\ m[0] <= m[i] /\ m[i] <= m[n]
      /\ \A i \in 1..n : i - 1 \in 0..n /\ m[i - 1] < m[i] /\ Span(a, m[i - 1], m[i])
  BY <1>2, SpansBounds
<1>4. /\ \A i \in 0..k : l[i] \in Nat \ {0} /\ l[0] <= l[i] /\ l[i] <= l[k]
      /\ l[0] <= Len(b) + 1 => l[k] <= Len(b) + 1
      /\ \A i \in 1..k : i - 1 \in 0..k /\ l[i - 1] < l[i] /\ Span(b, l[i - 1], l[i])
  BY <1>2, SpansBounds
<1>5. 0 \in 0..n /\ n \in 0..n /\ 0 \in 0..k /\ k \in 0..k /\ d \in Int /\ l[k] <= Len(b) + 1
  BY <1>1, <1>4
<1> HIDE DEF q
<1>6. /\ Spans(q, m0, n)
      /\ \A i \in 1..n : SkipName(q, m[i - 1]) = SkipName(a, m[i - 1])
  <2> DEFINE z == 0
  <2>1. /\ z \in Int /\ m[0] + z >= 1 /\ m[n] - 1 + z <= Len(q)
        /\ \A i \in m[0]..(m[n] - 1) : Alike(q[i + z], a[i])
    <3>1. ASSUME NEW i \in m[0]..(m[n] - 1) PROVE q[i + z] = a[i]
      <4>1. i + z = i /\ i \in 1..Len(a)
        BY <1>1, <1>3, <1>5
      <4> QED  BY <1>1, <4>1
    <3> QED  BY <1>1, <1>3, <1>5, <3>1, AlikeItself
  <2>2. z = 0
    OBVIOUS
  <2> HIDE DEF z
  <2>3. /\ Spans(q, [i \in 0..n |-> m[i] + z], n)
        /\ \A i \in 1..n : SkipName(q, m[i - 1] + z) = SkipName(a, m[i - 1]) + z
    <3>1. /\ IsCells(a) /\ IsCells(q) /\ n \in Nat /\ Spans(a, m, n)
          /\ z \in Int /\ m[0] + z >= 1 /\ m[n] - 1 + z <= Len(q)
          /\ \A i \in m[0]..(m[n] - 1) : Alike(q[i + z], a[i])
      BY <1>1, <1>2, <2>1
    <3> QED  BY ONLY <3>1, SpansShift, SMTT(30)
  <2>4. \A i \in 1..n : m[i - 1] + z = m[i - 1] /\ SkipName(a, m[i - 1]) + z = SkipName(a, m[i - 1])
    <3> SUFFICES ASSUME NEW i \in 1..n
                 PROVE  m[i - 1] + z = m[i - 1] /\ SkipName(a, m[i - 1]) + z = SkipName(a, m[i - 1])
      OBVIOUS
    <3>1. m[i - 1] \in Nat \ {0} /\ Span(a, m[i - 1], m[i])
      BY <1>3
    <3>2. SkipName(a, m[i - 1]) \in Nat
      BY <3>1, SpanBounds
    <3> QED  BY <2>2, <3>1, <3>2
  <2> QED  BY <2>2, <2>3, <2>4
<1>7. /\ Spans(q, l1, k)
      /\ \A i \in 1..k : SkipName(q, l[i - 1] + d) = SkipName(b, l[i - 1]) + d
  <2>1. /\ d \in Int /\ l[0] + d >= 1 /\ l[k] - 1 + d <= Len(q)
        /\ \A i \in l[0]..(l[k] - 1) : Alike(q[i + d], b[i])
    <3>1. ASSUME NEW i \in l[0]..(l[k] - 1) PROVE q[i + d] = b[i]
      <4>1. i + d = d + i /\ i \in 1..Len(b)
        BY <1>1, <1>4, <1>5
      <4> QED  BY <1>1, <4>1
    <3> QED  BY <1>1, <1>4, <1>5, <3>1, AlikeItself
  <2>2. IsCells(b) /\ IsCells(q) /\ k \in Nat /\ Spans(b, l, k)
    BY <1>1, <1>2
  <2> HIDE DEF d, m0, l1, j, f
  <2>3. /\ d \in Int /\ l[0] + d >= 1 /\ l[k] - 1 + d <= Len(q)
        /\ \A i \in l[0]..(l[k] - 1) : Alike(q[i + d], b[i])
        /\ IsCells(b) /\ IsCells(q) /\ k \in Nat /\ Spans(b, l, k)
    BY <2>1, <2>2
  <2>4. /\ Spans(q, [i \in 0..k |-> l[i] + d], k)
        /\ \A i \in 1..k : SkipName(q, l[i - 1] + d) = SkipName(b, l[i - 1]) + d
    BY ONLY <2>3, SpansShift
  <2> QED  BY <2>4 DEF l1
<1>8. m0[n] = d + 1 /\ l1[0] = d + 1 /\ m0[0] = m[0] /\ l1[k] = d + l[k]
  BY <1>1, <1>3, <1>4, <1>5
<1>9. Spans(q, j, n + k)
  <2>1. l1[0] = m0[n]
    BY <1>8
  <2> HIDE DEF m0, l1
  <2> QED  BY <1>6, <1>7, <2>1, SpansJoin
<1>10. \A i \in 1..(n + k) : q[SkipName(q, j[i - 1])] = f[i]
  <2> SUFFICES ASSUME NEW i \in 1..(n + k) PROVE q[SkipName(q, j[i - 1])] = f[i]
    OBVIOUS
  <2>0. /\ \A w \in 1..n : a[SkipName(a, m[w - 1])] = g[w]
        /\ \A w \in 1..k : b[SkipName(b, l[w - 1])] = h[w]
    BY DEF Holds
  <2>1. CASE i <= n
    <3>1. i \in 1..n /\ j[i - 1] = m[i - 1] /\ f[i] = g[i]
      BY <1>3, <2>1 DEF After
    <3>2. m[i - 1] \in Nat \ {0} /\ Span(a, m[i - 1], m[i])
      BY <1>3, <3>1
    <3>3. SkipName(a, m[i - 1]) \in 1..Len(a)
      <4>1. SkipName(a, m[i - 1]) \in (m[i - 1] + 1)..Len(a)
        BY <3>2, SpanBounds
      <4> QED  BY <3>2, <4>1
    <3> HIDE DEF j, f
    <3> QED  BY <1>1, <1>6, <2>0, <3>1, <3>3
  <2>2. CASE i > n
    <3> DEFINE w == i - n
    <3>1. w \in 1..k /\ w - 1 \in 0..k /\ f[i] = h[w]
      BY <2>2 DEF After
    <3>2. j[i - 1] = l[w - 1] + d
      <4>1. CASE i - 1 = n
        BY <1>8, <4>1
      <4>2. CASE i - 1 # n
        <5>1. i - 1 \in 0..(n + k) /\ ~(i - 1 <= n) /\ (i - 1) - n = w - 1
          BY <2>2, <4>2
        <5>2. j[i - 1] = l1[w - 1]
          <6> HIDE DEF l1, m0, w
          <6> QED  BY <5>1
        <5> QED  BY <3>1, <5>2
      <4> QED  BY <4>1, <4>2
    <3> HIDE DEF j, f, w
    <3>3. l[w - 1] \in Nat \ {0} /\ Span(b, l[w - 1], l[w])
      BY <1>4, <3>1
    <3>4. SkipName(b, l[w - 1]) \in 1..Len(b) /\ SkipName(b, l[w - 1]) + d = d + SkipName(b, l[w - 1])
      <4>1. SkipName(b, l[w - 1]) \in (l[w - 1] + 1)..Len(b)
        BY <3>3, SpanBounds
      <4> QED  BY <1>1, <3>3, <4>1
    <3>5. q[d + SkipName(b, l[w - 1])] = b[SkipName(b, l[w - 1])]
      BY <1>1, <3>4
    <3>6. SkipName(q, l[w - 1] + d) = SkipName(b, l[w - 1]) + d
      BY <1>7, <3>1
    <3>7. b[SkipName(b, l[w - 1])] = h[w]
      BY <2>0, <3>1
    <3> HIDE DEF d
    <3> QED  BY <3>1, <3>2, <3>4, <3>5, <3>6, <3>7
  <2> QED  BY <2>1, <2>2
<1>11. j[0] = m[0] /\ j[n + k] = d + l[k]
  <2>1. j[0] = m[0]
    BY <1>8
  <2>2. CASE k = 0
    BY <1>8, <2>2
  <2>3. CASE k # 0
    <3>1. n + k \in 0..(n + k) /\ ~(n + k <= n) /\ (n + k) - n = k
      BY <2>3
    <3>2. j[n + k] = l1[k]
      <4> HIDE DEF l1, m0
      <4> QED  BY <3>1
    <3> QED  BY <1>8, <3>2
  <2> QED  BY <2>1, <2>2, <2>3
<1> HIDE DEF j, f
<1>12. Holds(q, j, n + k, f)
  BY <1>9, <1>10 DEF Holds
<1> QED  BY <1>11, <1>12 DEF q, f

\* Records put behind cells full of records.
LEMMA HasAfter ==
  ASSUME NEW a, NEW s, NEW n, NEW g, Full(a, s, n, g), NEW b, NEW k, NEW h, Has(b, 1, k, h)
  PROVE  /\ Has(a \o b, s, n + k, After(n, g, k, h))
         /\ Full(b, 1, k, h) => Full(a \o b, s, n + k, After(n, g, k, h))
         /\ \A i \in 1..Len(a) : (a \o b)[i] = a[i]
         /\ Len(a \o b) = Len(a) + Len(b)
<1> DEFINE q == a \o b
           f == After(n, g, k, h)
<1>1. IsCells(a) /\ IsCells(b) /\ n \in Nat /\ k \in Nat /\ s \in 1..(Len(a) + 1)
  BY DEF Full, Has
<1>2. /\ IsCells(q) /\ Len(q) = Len(a) + Len(b) /\ Len(a) \in Nat /\ Len(b) \in Nat
      /\ \A i \in 1..Len(a) : q[i] = a[i]
  BY <1>1, JoinCells, CellsSeq
<1>3. PICK m : Holds(a, m, n, g) /\ m[0] = s /\ m[n] = Len(a) + 1
  BY DEF Full
<1>4. ASSUME NEW l, Holds(b, l, k, h), l[0] = 1
      PROVE  \E j : Holds(q, j, n + k, f) /\ j[0] = s /\ j[n + k] = Len(a) + l[k]
  BY <1>1, <1>3, <1>4, HoldsAfter
<1> HIDE DEF q, f
<1>5. n + k \in Nat /\ s \in 1..(Len(q) + 1)
  BY <1>1, <1>2
<1>6. Has(q, s, n + k, f)
  <2>1. PICK l : Holds(b, l, k, h) /\ l[0] = 1
    BY DEF Has
  <2>2. \E j : Holds(q, j, n + k, f) /\ j[0] = s
    BY <1>4, <2>1
  <2> QED  BY <1>2, <1>5, <2>2 DEF Has
<1>7. ASSUME Full(b, 1, k, h) PROVE Full(q, s, n + k, f)
  <2>1. PICK l : Holds(b, l, k, h) /\ l[0] = 1 /\ l[k] = Len(b) + 1
    BY <1>7 DEF Full
  <2>2. PICK j : Holds(q, j, n + k, f) /\ j[0] = s /\ j[n + k] = Len(a) + l[k]
    BY <1>4, <2>1
  <2>3. j[n + k] = Len(q) + 1
    BY <1>2, <2>1, <2>2
  <2> QED  BY <1>2, <1>5, <2>2, <2>3 DEF Full
<1> QED  BY <1>2, <1>6, <1>7 DEF q, f

\* What is before the a-th record has the records before it.
LEMMA CutFront ==
  ASSUME NEW c, IsCells(c), NEW n \in Nat, NEW m, NEW g, Holds(c, m, n, g), m[0] <= Len(c) + 1, NEW a \in 0..n
  PROVE  /\ Full(SubSeq(c, 1, m[a] - 1), m[0], a, g)
         /\ m[a] \in m[0]..(Len(c) + 1) /\ m[0] \in Nat \ {0}
         /\ Len(SubSeq(c, 1, m[a] - 1)) = m[a] - 1
         /\ \A i \in 1..(m[a] - 1) : SubSeq(c, 1, m[a] - 1)[i] = c[i]
<1>1. Spans(c, m, n) /\ Len(c) \in Nat
  BY CellsSeq DEF Holds
<1>2. /\ \A i \in 0..n : m[i] \in Nat \ {0} /\ m[0] <= m[i] /\ m[i] <= m[n]
      /\ m[n] <= Len(c) + 1
      /\ \A i \in 1..n : i - 1 \in 0..n /\ m[i - 1] < m[i] /\ Span(c, m[i - 1], m[i])
  BY <1>1, SpansBounds
<1>3. 0 \in 0..n /\ m[a] \in Nat \ {0} /\ m[0] \in Nat \ {0} /\ m[0] <= m[a] /\ m[a] <= Len(c) + 1
  <2>1. 0 \in 0..n /\ n \in 0..n
    OBVIOUS
  <2> QED  BY <1>1, <1>2, <2>1
<1> DEFINE b == SubSeq(c, 1, m[a] - 1)
           x == m[a] - 1
<1>4. IsCells(b) /\ Len(b) = x /\ \A i \in 1..x : b[i] = c[i]
  <2>1. 1 \in Nat /\ x \in Int /\ 1 <= 1 /\ 1 <= x + 1 /\ x <= Len(c) /\ x + 1 - 1 = x /\ x \in Nat
    BY <1>1, <1>3
  <2> HIDE DEF x
  <2>2. IsCells(SubSeq(c, 1, x)) /\ Len(SubSeq(c, 1, x)) = x + 1 - 1
        /\ \A i \in 1..(x + 1 - 1) : SubSeq(c, 1, x)[i] = c[1 + i - 1]
    BY <2>1, CutCells
  <2>3. \A i \in 1..x : 1 + i - 1 = i
    BY <2>1
  <2> QED  BY <2>1, <2>2, <2>3 DEF x
<1> HIDE DEF b
<1> DEFINE l == [i \in 0..a |-> m[0 + i]]
<1>5. Spans(c, l, a)
  <2>1. 0 \in Nat /\ a \in Nat /\ 0 + a <= n
    OBVIOUS
  <2>2. Spans(c, [i \in 0..a |-> m[0 + i]], a)
    BY <1>1, <2>1, SpansCut
  <2> QED  BY <2>2
<1>6. l = [i \in 0..a |-> m[i]]
  OBVIOUS
<1>7. \A i \in 0..a : l[i] = m[i] /\ m[i] \in Nat \ {0} /\ m[i] <= m[a]
  <2>1. \A i \in 0..n : i <= a => m[i] <= m[a]
    BY <1>1, SpansMonotone
  <2> QED  BY <1>2, <1>6, <2>1
<1>8. /\ Spans(b, l, a)
      /\ \A i \in 1..a : SkipName(b, l[i - 1]) = SkipName(c, l[i - 1])
  <2> DEFINE z == 0
  <2>1. /\ z \in Int /\ l[0] + z >= 1 /\ l[a] - 1 + z <= Len(b)
        /\ \A i \in l[0]..(l[a] - 1) : Alike(b[i + z], c[i])
    <3>1. ASSUME NEW i \in l[0]..(l[a] - 1) PROVE b[i + z] = c[i]
      <4>1. i + z = i /\ i \in 1..x
        BY <1>3, <1>7
      <4> QED  BY <1>4, <4>1
    <3> QED  BY <1>3, <1>4, <1>7, <3>1, AlikeItself
  <2>2. z = 0
    OBVIOUS
  <2> HIDE DEF z, l
  <2>3. /\ z \in Int /\ l[0] + z >= 1 /\ l[a] - 1 + z <= Len(b)
        /\ \A i \in l[0]..(l[a] - 1) : Alike(b[i + z], c[i])
        /\ IsCells(b) /\ IsCells(c) /\ a \in Nat /\ Spans(c, l, a)
    BY <1>4, <1>5, <2>1
  <2>4. /\ Spans(b, [i \in 0..a |-> l[i] + z], a)
        /\ \A i \in 1..a : SkipName(b, l[i - 1] + z) = SkipName(c, l[i - 1]) + z
    BY ONLY <2>3, SpansShift
  <2>5. [i \in 0..a |-> l[i] + z] = l
    <3>1. \A i \in 0..a : l[i] + z = l[i]
      BY <1>7, <2>2
    <3>2. l = [i \in 0..a |-> l[i]]
      BY DEF l
    <3> QED  BY <3>1, <3>2
  <2>6. \A i \in 1..a : l[i - 1] + z = l[i - 1] /\ SkipName(c, l[i - 1]) + z = SkipName(c, l[i - 1])
    <3> SUFFICES ASSUME NEW i \in 1..a
                 PROVE  l[i - 1] + z = l[i - 1] /\ SkipName(c, l[i - 1]) + z = SkipName(c, l[i - 1])
      OBVIOUS
    <3>1. i \in 1..n /\ i - 1 \in 0..a
      OBVIOUS
    <3>2. m[i - 1] \in Nat \ {0} /\ Span(c, m[i - 1], m[i]) /\ l[i - 1] = m[i - 1]
      BY <1>2, <1>7, <3>1
    <3>3. SkipName(c, m[i - 1]) \in Nat
      BY <3>2, SpanBounds
    <3> QED  BY <2>2, <3>2, <3>3
  <2> QED  BY <2>4, <2>5, <2>6
<1>9. \A i \in 1..a : b[SkipName(b, l[i - 1])] = g[i]
  <2> SUFFICES ASSUME NEW i \in 1..a PROVE b[SkipName(b, l[i - 1])] = g[i]
    OBVIOUS
  <2>1. i \in 1..n /\ i - 1 \in 0..a /\ i \in 0..a
    OBVIOUS
  <2>2. m[i - 1] \in Nat \ {0} /\ Span(c, m[i - 1], m[i]) /\ l[i - 1] = m[i - 1] /\ m[i] \in Nat /\ m[i] <= m[a]
    BY <1>2, <1>7, <2>1
  <2>3. SkipName(c, m[i - 1]) \in Nat /\ SkipName(c, m[i - 1]) < m[i] /\ SkipName(c, m[i - 1]) >= 1
    <3>1. SkipName(c, m[i - 1]) \in (m[i - 1] + 1)..Len(c) /\ SkipName(c, m[i - 1]) < m[i]
      BY <2>2, SpanBounds
    <3> QED  BY <2>2, <3>1
  <2>4. b[SkipName(c, m[i - 1])] = c[SkipName(c, m[i - 1])]
    BY <1>3, <1>4, <2>2, <2>3
  <2>5. c[SkipName(c, m[i - 1])] = g[i]
    BY <2>1 DEF Holds
  <2> HIDE DEF l
  <2> QED  BY <1>8, <2>2, <2>4, <2>5
<1>10. l[0] = m[0] /\ l[a] = Len(b) + 1
  <2>1. 0 \in 0..a /\ a \in 0..a
    OBVIOUS
  <2> QED  BY <1>3, <1>4, <1>7, <2>1
<1> HIDE DEF l
<1>11. Holds(b, l, a, g)
  BY <1>8, <1>9 DEF Holds
<1>12. m[0] \in 1..(Len(b) + 1) /\ a \in Nat
  BY <1>3, <1>4
<1>13. Full(b, m[0], a, g)
  BY <1>4, <1>10, <1>11, <1>12 DEF Full
<1> QED  BY <1>1, <1>3, <1>4, <1>13 DEF b

\* k of g, from behind the a-th.
From(g, a, k) == [i \in 1..k |-> g[a + i]]

\* What is from the a-th record on has the others.
LEMMA CutBack ==
  ASSUME NEW c, IsCells(c), NEW n \in Nat, NEW m, NEW g, Holds(c, m, n, g), m[0] <= Len(c) + 1, NEW a \in 0..n
  PROVE  /\ Has(SubSeq(c, m[a], Len(c)), 1, n - a, From(g, a, n - a))
         /\ Len(SubSeq(c, m[a], Len(c))) = Len(c) + 1 - m[a]
<1>1. Spans(c, m, n) /\ Len(c) \in Nat
  BY CellsSeq DEF Holds
<1>2. /\ \A i \in 0..n : m[i] \in Nat \ {0} /\ m[0] <= m[i] /\ m[i] <= m[n]
      /\ m[n] <= Len(c) + 1
      /\ \A i \in 1..n : i - 1 \in 0..n /\ m[i - 1] < m[i] /\ Span(c, m[i - 1], m[i])
  BY <1>1, SpansBounds
<1>3. m[a] \in Nat \ {0} /\ m[a] <= Len(c) + 1
  <2>1. n \in 0..n
    OBVIOUS
  <2> QED  BY <1>1, <1>2, <2>1
<1> DEFINE b == SubSeq(c, m[a], Len(c))
           k == n - a
           d == 1 - m[a]
<1>4. IsCells(b) /\ Len(b) = Len(c) + 1 - m[a] /\ \A i \in 1..(Len(c) + 1 - m[a]) : b[i] = c[m[a] + i - 1]
  <2>1. m[a] \in Nat /\ Len(c) \in Int /\ 1 <= m[a] /\ m[a] <= Len(c) + 1 /\ Len(c) <= Len(c) /\ IsCells(c)
    BY <1>1, <1>3
  <2> QED  BY <2>1, CutCells
<1> HIDE DEF b
<1> DEFINE l == [i \in 0..k |-> m[a + i]]
           w == [i \in 0..k |-> l[i] + d]
<1>5. Spans(c, l, k) /\ k \in Nat
  <2>1. a \in Nat /\ k \in Nat /\ a + k <= n
    OBVIOUS
  <2> HIDE DEF k
  <2> QED  BY <1>1, <2>1, SpansCut
<1>6. /\ \A i \in 0..k : l[i] \in Nat \ {0} /\ l[0] <= l[i] /\ l[i] <= l[k]
      /\ \A i \in 1..k : i - 1 \in 0..k /\ l[i - 1] < l[i] /\ Span(c, l[i - 1], l[i])
  <2> HIDE DEF l, k
  <2> QED  BY <1>5, SpansBounds
<1>7. l[0] = m[a] /\ l[k] = m[n] /\ 0 \in 0..k /\ k \in 0..k
  <2>1. a + 0 = a /\ a + k = n /\ 0 \in 0..k /\ k \in 0..k
    OBVIOUS
  <2> QED  BY <2>1
<1>8. /\ Spans(b, w, k)
      /\ \A i \in 1..k : SkipName(b, w[i - 1]) = SkipName(c, l[i - 1]) + d
  <2>1. /\ d \in Int /\ l[0] + d >= 1 /\ l[k] - 1 + d <= Len(b)
        /\ \A i \in l[0]..(l[k] - 1) : Alike(b[i + d], c[i])
    <3>1. ASSUME NEW i \in l[0]..(l[k] - 1) PROVE b[i + d] = c[i]
      <4>1. i + d \in 1..(Len(c) + 1 - m[a]) /\ m[a] + (i + d) - 1 = i
        <5>1. n \in 0..n /\ i \in m[a]..(m[n] - 1)
          BY <1>7
        <5>2. m[n] \in Nat /\ m[n] <= Len(c) + 1 /\ i \in Int /\ m[a] <= i /\ i <= m[n] - 1
          BY <1>2, <1>3, <5>1
        <5>3. m[a] \in Int /\ Len(c) \in Int /\ m[n] \in Int
          BY <1>1, <1>3, <5>2
        <5>4. \A from, till, len, x \in Int : from <= x /\ x <= till - 1 /\ till <= len + 1 =>
                x + (1 - from) \in 1..(len + 1 - from) /\ from + (x + (1 - from)) - 1 = x
          OBVIOUS
        <5> QED  BY <5>2, <5>3, <5>4
      <4> HIDE DEF d
      <4> QED  BY <1>4, <4>1
    <3>2. d \in Int /\ l[0] + d >= 1 /\ l[k] - 1 + d <= Len(b)
      BY <1>1, <1>2, <1>3, <1>4, <1>7
    <3> QED  BY <3>1, <3>2, AlikeItself
  <2>2. IsCells(b) /\ IsCells(c) /\ k \in Nat /\ Spans(c, l, k)
    BY <1>4, <1>5
  <2> HIDE DEF d, l, k
  <2>3. /\ d \in Int /\ l[0] + d >= 1 /\ l[k] - 1 + d <= Len(b)
        /\ \A i \in l[0]..(l[k] - 1) : Alike(b[i + d], c[i])
        /\ IsCells(b) /\ IsCells(c) /\ k \in Nat /\ Spans(c, l, k)
    BY <2>1, <2>2
  <2>4. /\ Spans(b, [i \in 0..k |-> l[i] + d], k)
        /\ \A i \in 1..k : SkipName(b, l[i - 1] + d) = SkipName(c, l[i - 1]) + d
    BY ONLY <2>3, SpansShift
  <2>5. \A i \in 1..k : w[i - 1] = l[i - 1] + d
    BY <1>5, <1>6
  <2> QED  BY <2>4, <2>5
<1>9. \A i \in 1..k : b[SkipName(b, w[i - 1])] = g[a + i]
  <2> SUFFICES ASSUME NEW i \in 1..k PROVE b[SkipName(b, w[i - 1])] = g[a + i]
    OBVIOUS
  <2>1. l[i - 1] = m[a + i - 1] /\ a + i \in 1..n /\ a + i - 1 = (a + i) - 1
    <3>1. i - 1 \in 0..k /\ a + (i - 1) = a + i - 1
      OBVIOUS
    <3> QED  BY <3>1
  <2>2. l[i - 1] \in Nat \ {0} /\ Span(c, l[i - 1], l[i]) /\ m[a] <= l[i - 1]
    BY <1>6, <1>7
  <2> DEFINE e == SkipName(c, l[i - 1])
  <2>3. e \in (l[i - 1] + 1)..Len(c)
    BY <2>2, SpanBounds
  <2>4. c[e] = g[a + i]
    BY <2>1 DEF Holds
  <2> HIDE DEF e, l
  <2>5. e + d \in 1..(Len(c) + 1 - m[a]) /\ m[a] + (e + d) - 1 = e
    BY <1>1, <1>3, <2>2, <2>3
  <2> HIDE DEF d, w, k
  <2> QED  BY <1>4, <1>8, <2>4, <2>5 DEF e
<1>10. w[0] = 1
  <2>1. w[0] = l[0] + d
    BY <1>7
  <2> QED  BY <1>3, <1>7, <2>1
<1> HIDE DEF w
<1>11. Holds(b, w, k, From(g, a, k))
  <2>1. \A i \in 1..k : From(g, a, k)[i] = g[a + i]
    BY DEF From
  <2> QED  BY <1>8, <1>9, <2>1 DEF Holds
<1>12. 1 \in 1..(Len(b) + 1)
  BY <1>1, <1>3, <1>4
<1> HIDE DEF k
<1>13. Has(b, 1, k, From(g, a, k))
  BY <1>4, <1>5, <1>10, <1>11, <1>12 DEF Has
<1> QED  BY <1>4, <1>13 DEF b, k
-----------------------------------------------------------------------------
(* What a packet's records are *)

\* The fixed parts of its records.
Parts(p) == [i \in 1..Len(Records(p)) |-> p.cells[Records(p)[i].fixed]]

\* A record reads what its fixed part says.
Says(r, part) == r.type = part.type /\ r.class = part.class /\ r.ttl = part.ttl

\* Where a packet is laid out, its cells hold the fixed parts of its records.
LEMMA LaidHolds ==
  ASSUME NEW p, IsPacket(p), NEW m, Laid(p, m)
  PROVE  /\ Holds(p.cells, m, Len(Records(p)), Parts(p))
         /\ m[0] = AnswersFrom(p) /\ m[0] <= Len(p.cells) + 1
         /\ \A i \in 1..Len(Records(p)) : Records(p)[i].next = m[i]
         /\ EndOf(Records(p), AnswersFrom(p)) = m[Len(Records(p))]
<1> DEFINE c == p.cells
           rs == Records(p)
<1>1. IsCells(c) /\ Marked(c, rs, m) /\ m[0] = AnswersFrom(p) /\ m[0] <= Len(c) + 1
  <2>1. AnswersFrom(p) \in 1..(Len(p.cells) + 1)
    BY SomehowLaid DEF Laid
  <2> QED  BY <2>1, PacketCells DEF Laid
<1>2. Parts(p) = [i \in 1..Len(rs) |-> c[rs[i].fixed]]
  BY DEF Parts
<1> HIDE DEF c, rs
<1>3. \A i \in 1..Len(rs) : rs[i].next = m[i]
  BY <1>1, MarkedRead
<1>4. EndOf(rs, m[0]) = m[Len(rs)]
  BY <1>1, MarkedEnd
<1>5. \A i \in 1..Len(rs) : rs[i].fixed = SkipName(c, m[i - 1])
  <2> SUFFICES ASSUME NEW i \in 1..Len(rs) PROVE rs[i].fixed = SkipName(c, m[i - 1])
    OBVIOUS
  <2>1. rs[i] = RecordAt(c, m[i - 1], SkipName(c, m[i - 1]))
    BY <1>1 DEF Marked
  <2> QED  BY <2>1 DEF RecordAt
<1>6. Holds(c, m, Len(rs), Parts(p))
  BY <1>1, <1>2, <1>5 DEF Holds, Marked
<1> QED  BY <1>1, <1>3, <1>4, <1>6 DEF c, rs

\* Each record says what its fixed part says.
LEMMA RecordsRead ==
  ASSUME NEW p, IsPacket(p), AnswersFrom(p) # Nowhere
  PROVE  \A i \in 1..Len(Records(p)) :
           /\ IsRead(p.cells, Records(p)[i])
           /\ Says(Records(p)[i], Parts(p)[i])
<1> SUFFICES ASSUME NEW i \in 1..Len(Records(p))
             PROVE  IsRead(p.cells, Records(p)[i]) /\ Says(Records(p)[i], Parts(p)[i])
  OBVIOUS
<1>1. PICK m : Laid(p, m)
  BY SomehowLaid
<1>2. IsCells(p.cells)
  BY PacketCells
<1>3. IsRead(p.cells, Records(p)[i])
  BY <1>1, <1>2, MarkedRead DEF Laid
<1>4. Says(Records(p)[i], p.cells[Records(p)[i].fixed])
  BY <1>2, <1>3, ReadRecord DEF Says
<1> QED  BY <1>3, <1>4 DEF Parts

\* Who has all its records from its answers on is readable.
LEMMA HasReadable ==
  ASSUME NEW p, IsPacket(p), AnswersFrom(p) # Nowhere, NEW g, Has(p.cells, AnswersFrom(p), Total(p), g)
  PROVE  /\ Readable(p) /\ Len(Records(p)) = Total(p)
         /\ \A i \in 1..Total(p) : Parts(p)[i] = g[i] /\ Says(Records(p)[i], g[i])
<1>1. PICK m : Holds(p.cells, m, Total(p), g) /\ m[0] = AnswersFrom(p)
  BY DEF Has
<1>2. Readable(p) /\ Laid(p, m)
  BY <1>1, LaidOut DEF Holds
<1>3. Len(Records(p)) = Total(p)
  BY <1>2 DEF Readable, Total
<1>4. Holds(p.cells, m, Total(p), Parts(p))
  BY <1>2, <1>3, LaidHolds
<1>5. \A i \in 1..Total(p) : Parts(p)[i] = g[i]
  BY <1>1, <1>4 DEF Holds
<1>6. \A i \in 1..Total(p) : Says(Records(p)[i], Parts(p)[i])
  BY <1>3, RecordsRead
<1> QED  BY <1>2, <1>3, <1>5, <1>6

\* A question in the same cells is the same question.
LEMMA QuestionStays ==
  ASSUME NEW p, IsPacket(p), NEW q, IsPacket(q), q.qd = p.qd, AnswersFrom(p) # Nowhere,
         AnswersFrom(p) - 1 <= Len(q.cells),
         \A i \in 1..(AnswersFrom(p) - 1) : q.cells[i].k = p.cells[i].k
  PROVE  AnswersFrom(q) = AnswersFrom(p) /\ (HasQuestion(p) => HasQuestion(q))
<1>1. AnswersFrom(q) = AnswersFrom(p)
  <2> DEFINE c == p.cells
             b == q.cells
             k == p.qd
  <2>1. IsCells(c) /\ IsCells(b) /\ k \in {0, 1} /\ AnswersFrom(p) = QuestionEnd(c, k) /\ AnswersFrom(q) = QuestionEnd(b, k)
    BY PacketCells DEF AnswersFrom
  <2>2. QuestionEnd(c, k) # Nowhere /\ QuestionEnd(c, k) - 1 <= Len(b)
        /\ \A i \in 1..(QuestionEnd(c, k) - 1) : b[i].k = c[i].k
    BY <2>1
  <2> HIDE DEF b, c, k
  <2> QED  BY <2>1, <2>2, QuestionSame
<1>2. ASSUME HasQuestion(p) PROVE HasQuestion(q)
  <2>1. q.qd = 1
    BY <1>2, HasQuestionIs
  <2> QED  BY <1>2, <2>1, QuestionKept
<1> QED  BY <1>1, <1>2

\* A packet with a question has one question, and it ends.
LEMMA QuestionSomewhere ==
  ASSUME NEW p, IsPacket(p), HasQuestion(p)
  PROVE  AnswersFrom(p) # Nowhere /\ p.qd = 1
BY HasQuestionIs DEF Nowhere
-----------------------------------------------------------------------------
(* Its sections *)

\* The answers, if they can be read, are the first records.
LEMMA AnswersAre ==
  ASSUME NEW p, IsPacket(p), AnswersRead(p)
  PROVE  /\ AnswersFrom(p) # Nowhere /\ p.an \in 0..Len(Records(p))
         /\ IsSeq(Answers(p)) /\ Len(Answers(p)) = p.an
         /\ \A i \in 1..p.an : Answers(p)[i] = Records(p)[i] /\ IsRead(p.cells, Answers(p)[i])
         /\ \A m : Laid(p, m) => AnswersEnd(p) = m[p.an]
<1>1. AnswersFrom(p) # Nowhere /\ p.an <= Len(Records(p)) /\ p.an \in Nat
  BY PacketCells DEF AnswersRead
<1>2. IsSeq(Records(p)) /\ Len(Records(p)) \in Nat
  BY <1>1, SomehowLaid
<1> DEFINE rs == Records(p)
           n == p.an
           as == SubSeq(rs, 1, n)
<1>3. Answers(p) = as
  <2>1. (IF n < Len(rs) THEN n ELSE Len(rs)) = n
    BY <1>1, <1>2
  <2> HIDE DEF n, rs
  <2> QED  BY <2>1 DEF Answers, Section, n, rs
<1>4. IsSeq(as) /\ Len(as) = n /\ \A i \in 1..n : as[i] = rs[i]
  <2>1. 1 \in Nat /\ n \in Int /\ 1 <= 1 /\ 1 <= n + 1 /\ n <= Len(rs) /\ n + 1 - 1 = n /\ IsSeq(rs)
    BY <1>1, <1>2
  <2> HIDE DEF n, rs
  <2>2. IsSeq(as) /\ Len(as) = n + 1 - 1 /\ \A i \in 1..(n + 1 - 1) : as[i] = rs[1 + i - 1]
    BY <2>1, Cutting
  <2>3. \A i \in 1..n : 1 + i - 1 = i
    BY <2>1
  <2> HIDE DEF as
  <2> QED  BY <2>1, <2>2, <2>3
<1>5. \A i \in 1..n : IsRead(p.cells, rs[i])
  BY <1>1, <1>2, RecordsRead
<1>6. ASSUME NEW m, Laid(p, m) PROVE EndOf(as, m[0]) = m[n] /\ m[0] = AnswersFrom(p)
  <2>1. m[0] = AnswersFrom(p) /\ \A i \in 1..Len(rs) : rs[i].next = m[i]
    BY <1>6, LaidHolds
  <2> HIDE DEF as, n, rs
  <2>2. CASE n = 0
    <3>1. as = <<>>
      BY <1>4, <2>2, EmptyIsSeq
    <3> QED  BY <2>1, <2>2, <3>1 DEF EndOf
  <2>3. CASE n # 0
    <3>1. n \in 1..Len(rs) /\ n \in 1..n
      BY <1>1, <2>3 DEF n, rs
    <3>2. as # <<>>
      BY <1>4, <2>3, EmptyIsSeq
    <3>3. as[Len(as)].next = m[n]
      BY <1>4, <2>1, <3>1
    <3> QED  BY <2>1, <3>2, <3>3 DEF EndOf
  <2> QED  BY <2>2, <2>3
<1>7. AnswersEnd(p) = EndOf(as, AnswersFrom(p)) /\ n \in 0..Len(Records(p))
  BY <1>1, <1>2, <1>3 DEF AnswersEnd
<1> HIDE DEF as
<1>8. \A i \in 1..n : as[i] = Records(p)[i] /\ IsRead(p.cells, as[i])
  BY <1>4, <1>5 DEF rs
<1>9. \A m : Laid(p, m) => AnswersEnd(p) = m[n]
  BY <1>6, <1>7
<1> QED  BY <1>1, <1>3, <1>4, <1>7, <1>8, <1>9 DEF n

\* The additional section is the last records.
LEMMA AdditionalIs ==
  ASSUME NEW p, IsPacket(p), AnswersFrom(p) # Nowhere
  PROVE  /\ IsSeq(Additional(p))
         /\ \A i \in 1..Len(Additional(p)) : IsRead(p.cells, Additional(p)[i])
         /\ Readable(p) => /\ Len(Additional(p)) = p.ar
                           /\ \A i \in 1..p.ar : Additional(p)[i] = Records(p)[p.an + p.ns + i]
<1> DEFINE rs == Records(p)
           a == p.an + p.ns
           x == IF a + p.ar < Len(rs) THEN a + p.ar ELSE Len(rs)
           bs == SubSeq(rs, a + 1, x)
<1>1. IsSeq(rs) /\ Len(rs) \in Nat /\ p.an \in Nat /\ p.ns \in Nat /\ p.ar \in Nat
  BY SomehowLaid, PacketCells
<1>2. Additional(p) = bs
  BY <1>1 DEF Additional, Section
<1>3. \A i \in 1..Len(rs) : IsRead(p.cells, rs[i])
  BY RecordsRead
<1>4. Readable(p) => Len(rs) = a + p.ar
  BY <1>1 DEF Readable
<1>5. a \in Nat /\ x \in Nat /\ x <= Len(rs) /\ a + 1 \in Nat /\ x \in Int /\ 1 <= a + 1
      /\ (Readable(p) => x = a + p.ar)
  <2>1. a \in Nat
    BY <1>1
  <2> HIDE DEF a, rs
  <2>2. x \in Nat /\ x <= Len(rs) /\ a + 1 \in Nat /\ x \in Int /\ 1 <= a + 1
    BY <1>1, <2>1
  <2>3. ASSUME Readable(p) PROVE x = a + p.ar
    BY <1>1, <1>4, <2>1, <2>3
  <2> QED  BY <2>1, <2>2, <2>3
<1> HIDE DEF a, rs, x
<1>6. CASE a + 1 <= x + 1
  <2>1. /\ IsSeq(bs) /\ Len(bs) = x + 1 - (a + 1)
        /\ \A i \in 1..(x + 1 - (a + 1)) : bs[i] = rs[(a + 1) + i - 1]
    <3> DEFINE w == a + 1
    <3>1. IsSeq(rs) /\ w \in Nat /\ x \in Int /\ 1 <= w /\ w <= x + 1 /\ x <= Len(rs)
      BY <1>1, <1>5, <1>6
    <3> HIDE DEF w
    <3>2. /\ IsSeq(SubSeq(rs, w, x)) /\ Len(SubSeq(rs, w, x)) = x + 1 - w
          /\ \A i \in 1..(x + 1 - w) : SubSeq(rs, w, x)[i] = rs[w + i - 1]
      BY <3>1, Cutting
    <3> QED  BY <3>2 DEF w
  <2> HIDE DEF bs
  <2>2. Len(bs) \in Nat /\ \A i \in 1..Len(bs) : a + i \in 1..Len(rs) /\ bs[i] = rs[a + i]
    <3>1. Len(bs) = x - a /\ x - a \in Nat
      BY <1>5, <1>6, <2>1
    <3>2. ASSUME NEW i \in 1..Len(bs) PROVE a + i \in 1..Len(rs) /\ bs[i] = rs[a + i]
      <4>1. i \in 1..(x + 1 - (a + 1)) /\ (a + 1) + i - 1 = a + i /\ a + i \in 1..Len(rs)
        BY <1>1, <1>5, <1>6, <3>1
      <4> QED  BY <2>1, <4>1
    <3> QED  BY <3>1, <3>2
  <2>3. \A i \in 1..Len(bs) : IsRead(p.cells, bs[i])
    BY <1>3, <2>2
  <2>4. Readable(p) => Len(bs) = p.ar
    BY <1>1, <1>5, <2>1
  <2> QED  BY <1>2, <2>1, <2>2, <2>3, <2>4 DEF rs, a
<1>7. CASE ~(a + 1 <= x + 1)
  <2>1. ~Readable(p)
    BY <1>1, <1>5, <1>7
  <2>2. bs = <<>>
    BY <1>5, <1>7, SubSeqEmpty
  <2>3. IsSeq(bs) /\ Len(bs) = 0
    BY <2>2, EmptyIsSeq
  <2> HIDE DEF bs
  <2> QED  BY <1>2, <2>1, <2>3
<1> QED  BY <1>6, <1>7

\* In a readable packet every section can be read.
LEMMA AnswersWithRest ==
  ASSUME NEW p, IsPacket(p), Readable(p)
  PROVE  /\ AnswersRead(p) /\ AnswersFrom(p) # Nowhere
         /\ Len(Records(p)) = Total(p) /\ p.an + p.ns \in 0..Len(Records(p))
         /\ \A m : Laid(p, m) => EndOf(SubSeq(Records(p), 1, p.an + p.ns), AnswersFrom(p)) = m[p.an + p.ns]
<1>1. p.an \in Nat /\ p.ns \in Nat /\ p.ar \in Nat
  BY PacketCells
<1>2. AnswersFrom(p) # Nowhere /\ Len(Records(p)) = Total(p) /\ p.an + p.ns \in 0..Len(Records(p))
  BY <1>1 DEF Readable, Total
<1>3. AnswersRead(p)
  BY <1>1, <1>2 DEF AnswersRead, Total
<1> DEFINE rs == Records(p)
           n == p.an + p.ns
           as == SubSeq(rs, 1, n)
<1>4. IsSeq(rs) /\ Len(rs) \in Nat
  BY <1>2, SomehowLaid
<1>5. IsSeq(as) /\ Len(as) = n /\ \A i \in 1..n : as[i] = rs[i]
  <2>1. 1 \in Nat /\ n \in Int /\ 1 <= 1 /\ 1 <= n + 1 /\ n <= Len(rs) /\ n + 1 - 1 = n /\ IsSeq(rs)
    BY <1>1, <1>2, <1>4
  <2> HIDE DEF n, rs
  <2>2. IsSeq(as) /\ Len(as) = n + 1 - 1 /\ \A i \in 1..(n + 1 - 1) : as[i] = rs[1 + i - 1]
    BY <2>1, Cutting
  <2>3. \A i \in 1..n : 1 + i - 1 = i
    BY <2>1
  <2> HIDE DEF as
  <2> QED  BY <2>1, <2>2, <2>3
<1>6. ASSUME NEW m, Laid(p, m) PROVE EndOf(as, AnswersFrom(p)) = m[n]
  <2>1. m[0] = AnswersFrom(p) /\ \A i \in 1..Len(rs) : rs[i].next = m[i]
    BY <1>6, LaidHolds
  <2>2. n \in Nat /\ n <= Len(rs)
    BY <1>1, <1>2
  <2> HIDE DEF as, n, rs
  <2>3. CASE n = 0
    <3>1. as = <<>>
      BY <1>5, <2>3, EmptyIsSeq
    <3> QED  BY <2>1, <2>3, <3>1 DEF EndOf
  <2>4. CASE n # 0
    <3>1. n \in 1..Len(rs) /\ n \in 1..n
      BY <1>4, <2>2, <2>4
    <3>2. as # <<>>
      BY <1>5, <2>4, EmptyIsSeq
    <3>3. as[Len(as)].next = m[n]
      BY <1>5, <2>1, <3>1
    <3> QED  BY <2>1, <3>2, <3>3 DEF EndOf
  <2> QED  BY <2>3, <2>4
<1> HIDE DEF as
<1> QED  BY <1>2, <1>3, <1>6 DEF rs, n, as
-----------------------------------------------------------------------------
(* Records written *)

\* The cells that are written.
LEMMA CellsHere ==
  /\ \A v : IsCell(Label(v)) /\ Label(v).k = "label"
  /\ IsCell(End) /\ End.k = "end"
  /\ \A t, class : \A ttl, len \in Nat :
       /\ IsCell(Fixed(t, class, ttl, len)) /\ Fixed(t, class, ttl, len).k = "rr"
       /\ Fixed(t, class, ttl, len).len = len /\ Fixed(t, class, ttl, len).type = t
       /\ Fixed(t, class, ttl, len).class = class /\ Fixed(t, class, ttl, len).ttl = ttl
BY DEF IsCell, Label, End, Fixed

\* One cell alone.
LEMMA OneCell ==
  ASSUME NEW e, IsCell(e)
  PROVE  IsCells(<<e>>) /\ Len(<<e>>) = 1 /\ <<e>>[1] = e
<1>1. <<e>> \in Seq({e}) /\ Len(<<e>>) = 1 /\ <<e>>[1] = e
  OBVIOUS
<1>2. IsSeq(<<e>>)
  BY <1>1, SeqInOwn
<1> QED  BY <1>1, <1>2 DEF IsCells

\* A name written out.
LEMMA NameCells ==
  ASSUME NEW n, IsSeq(n)
  PROVE  /\ IsCells(EncodeName(n)) /\ Len(EncodeName(n)) = Len(n) + 1
         /\ EncodeName(n)[Len(n) + 1].k = "end"
         /\ \A i \in 1..Len(n) : EncodeName(n)[i].k = "label"
<1> DEFINE a == [i \in 1..Len(n) |-> Label(n[i])]
<1>1. Len(n) \in Nat
  BY SeqBasics
<1>2. a = [i \in 1..Len(n) |-> a[i]] /\ \A i \in 1..Len(n) : a[i] = Label(n[i])
  OBVIOUS
<1>3. EncodeName(n) = a \o <<End>>
  BY DEF EncodeName
<1> HIDE DEF a
<1>4. IsSeq(a) /\ Len(a) = Len(n)
  BY <1>1, <1>2, SeqMap
<1>5. IsCells(a)
  BY <1>2, <1>4, CellsHere DEF IsCells
<1>6. IsCells(<<End>>) /\ Len(<<End>>) = 1 /\ <<End>>[1] = End
  BY CellsHere, OneCell
<1>7. /\ IsCells(a \o <<End>>) /\ Len(a \o <<End>>) = Len(n) + 1
      /\ \A i \in 1..Len(n) : (a \o <<End>>)[i] = a[i]
      /\ (a \o <<End>>)[Len(n) + 1] = End
  <2>1. /\ IsCells(a \o <<End>>) /\ Len(a \o <<End>>) = Len(a) + Len(<<End>>)
        /\ \A i \in 1..Len(a) : (a \o <<End>>)[i] = a[i]
        /\ \A i \in 1..Len(<<End>>) : (a \o <<End>>)[Len(a) + i] = <<End>>[i]
    BY <1>5, <1>6, JoinCells
  <2>2. 1 \in 1..Len(<<End>>)
    BY <1>6
  <2>3. (a \o <<End>>)[Len(a) + 1] = <<End>>[1]
    BY <2>1, <2>2
  <2> QED  BY <1>4, <1>6, <2>1, <2>3
<1> QED  BY <1>2, <1>3, <1>7, CellsHere

\* A name in full and a fixed part, and as many cells as it says.
LEMMA HeadRaw ==
  ASSUME NEW h, IsCells(h), NEW e \in Nat \ {0}, Len(h) = e + 1, h[e].k = "end",
         \A i \in 1..(e - 1) : h[i].k = "label",
         NEW d, IsCells(d), h[e + 1].k = "rr", h[e + 1].len = Len(d)
  PROVE  IsRaw(h \o d) /\ FixedOf(h \o d) = h[e + 1]
<1> DEFINE b == h \o d
<1>1. /\ IsCells(b) /\ Len(b) = Len(h) + Len(d) /\ Len(h) \in Nat /\ Len(d) \in Nat
      /\ \A i \in 1..Len(h) : b[i] = h[i]
  BY JoinCells, CellsSeq
<1> HIDE DEF b
<1>2. IsSeq(b) /\ DOMAIN b = 1..Len(b) /\ Len(b) \in Nat
  BY <1>1, CellsSeq
<1>3. e \in 1..Len(b) /\ e \in 1..Len(h) /\ e + 1 \in 1..Len(h) /\ e + 1 \in 1..Len(b)
  BY <1>1
<1>4. b[e].k = "end" /\ b[e + 1] = h[e + 1] /\ \A i \in 1..(e - 1) : b[i].k = "label"
  <2>1. \A i \in 1..(e - 1) : i \in 1..Len(h)
    BY <1>3
  <2> QED  BY <1>1, <1>3, <2>1
<1>5. SkipName(b, 1) = e + 1
  <2>1. 1 \in Nat \ {0} /\ b[e].k \in {"end", "ptr"}
    BY <1>4
  <2> QED  BY <1>2, <1>3, <1>4, <2>1, SkipAt
<1>6. Span(b, 1, Len(b) + 1)
  <2>1. (e + 1) + Len(d) = Len(b)
    BY <1>1
  <2>2. IsRecord(b, e + 1)
    BY <1>1, <1>2, <1>3, <1>4, <2>1 DEF IsRecord
  <2> QED  BY <1>4, <1>5, <2>1, <2>2 DEF Span
<1> QED  BY <1>1, <1>4, <1>5, <1>6 DEF IsRaw, FixedOf, b

\* A record with its owner written out.
LEMMA NamedRaw ==
  ASSUME NEW n, IsSeq(n), NEW t, NEW class, NEW ttl \in Nat, NEW d, IsCells(d)
  PROVE  /\ IsRaw(EncodeName(n) \o <<Fixed(t, class, ttl, Len(d))>> \o d)
         /\ FixedOf(EncodeName(n) \o <<Fixed(t, class, ttl, Len(d))>> \o d) = Fixed(t, class, ttl, Len(d))
<1> DEFINE f == Fixed(t, class, ttl, Len(d))
           a == EncodeName(n)
           h == a \o <<f>>
           e == Len(n) + 1
<1>1. Len(d) \in Nat /\ Len(n) \in Nat
  BY CellsSeq, SeqBasics
<1>2. IsCell(f) /\ f.k = "rr" /\ f.len = Len(d)
  BY <1>1, CellsHere
<1>3. IsCells(a) /\ Len(a) = e /\ a[e].k = "end" /\ \A i \in 1..Len(n) : a[i].k = "label"
  BY NameCells
<1> HIDE DEF f, a
<1>4. IsCells(<<f>>) /\ Len(<<f>>) = 1 /\ <<f>>[1] = f
  BY <1>2, OneCell
<1>5. /\ IsCells(h) /\ Len(h) = e + 1 /\ h[e].k = "end" /\ h[e + 1] = f
      /\ \A i \in 1..(e - 1) : h[i].k = "label"
  <2>1. /\ IsCells(h) /\ Len(h) = Len(a) + Len(<<f>>)
        /\ \A i \in 1..Len(a) : h[i] = a[i]
        /\ \A i \in 1..Len(<<f>>) : h[Len(a) + i] = <<f>>[i]
    BY <1>3, <1>4, JoinCells
  <2>2. e \in 1..Len(a) /\ 1 \in 1..Len(<<f>>) /\ \A i \in 1..(e - 1) : i \in 1..Len(a) /\ i \in 1..Len(n)
    BY <1>1, <1>3, <1>4
  <2>3. h[Len(a) + 1] = <<f>>[1]
    BY <2>1, <2>2
  <2> HIDE DEF h
  <2> QED  BY <1>3, <1>4, <2>1, <2>2, <2>3
<1>6. e \in Nat \ {0} /\ IsCells(d)
  BY <1>1
<1> HIDE DEF h, e
<1>7. IsRaw(h \o d) /\ FixedOf(h \o d) = h[e + 1]
  BY <1>2, <1>5, <1>6, HeadRaw
<1> QED  BY <1>5, <1>7 DEF h, a, f

\* A CNAME written out.
LEMMA CnameRaw ==
  ASSUME NEW owner, IsSeq(owner), NEW target, IsSeq(target), NEW ttl \in Nat
  PROVE  IsRaw(EncodedCname(owner, target, ttl))
<1> DEFINE d == EncodeName(target)
<1>1. IsCells(d) /\ Len(d) = Len(target) + 1
  BY NameCells
<1>2. EncodedCname(owner, target, ttl) = EncodeName(owner) \o <<Fixed("CNAME", 1, ttl, Len(d))>> \o d
  BY <1>1 DEF EncodedCname
<1> HIDE DEF d
<1> QED  BY <1>1, <1>2, NamedRaw

\* The flags of an OPT record can be read back.
LEMMA PackIs ==
  ASSUME NEW x \in Nat, NEW do \in {0, 1}
  PROVE  /\ Pack(x, 0, do) \in Nat /\ Pack(x, 0, do) % 2 = do
         /\ (Pack(x, 0, do) \div 2) % 2 = 0
<1>1. Pack(x, 0, do) = 4 * x + do
  BY DEF Pack
<1>2. (4 * x + do) % 2 = do /\ (4 * x + do) \div 2 = 2 * x
  OBVIOUS
<1>3. (2 * x) % 2 = 0
  OBVIOUS
<1> QED  BY <1>1, <1>2, <1>3

\* An OPT record written out.
LEMMA OptRaw ==
  ASSUME NEW size, NEW x \in Nat, NEW do \in {0, 1}, NEW options, IsCells(options)
  PROVE  /\ IsRaw(OptRecord(size, x, 0, do, options))
         /\ FixedOf(OptRecord(size, x, 0, do, options)) = Fixed("OPT", size, Pack(x, 0, do), Len(options))
<1> DEFINE f == Fixed("OPT", size, Pack(x, 0, do), Len(options))
           h == <<End, f>>
<1>1. Len(options) \in Nat /\ Pack(x, 0, do) \in Nat
  BY CellsSeq, PackIs
<1>2. IsCell(f) /\ f.k = "rr" /\ f.len = Len(options)
  BY <1>1, CellsHere
<1>3. OptRecord(size, x, 0, do, options) = h \o options
  BY DEF OptRecord
<1> HIDE DEF f
<1>4. h \in Seq({End, f}) /\ Len(h) = 2 /\ h[1] = End /\ h[2] = f
  OBVIOUS
<1> HIDE DEF h
<1>5. IsCells(h)
  <2>1. IsSeq(h)
    BY <1>4, SeqInOwn
  <2>2. \A i \in 1..Len(h) : i = 1 \/ i = 2
    BY <1>4
  <2> QED  BY <1>2, <1>4, <2>1, <2>2, CellsHere DEF IsCells
<1>6. IsRaw(h \o options) /\ FixedOf(h \o options) = h[1 + 1]
  <2>1. /\ 1 \in Nat \ {0} /\ Len(h) = 1 + 1 /\ h[1].k = "end" /\ h[1 + 1].k = "rr" /\ h[1 + 1].len = Len(options)
        /\ \A i \in 1..(1 - 1) : h[i].k = "label"
    BY <1>2, <1>4, CellsHere
  <2> QED  BY <1>5, <2>1, HeadRaw
<1>7. h[1 + 1] = f
  BY <1>4
<1>8. IsRaw(OptRecord(size, x, 0, do, options)) /\ FixedOf(OptRecord(size, x, 0, do, options)) = f
  BY <1>3, <1>6, <1>7
<1> QED  BY <1>8 DEF f
-----------------------------------------------------------------------------
(* Names read *)

\* Names are read pointer by pointer: there is such a function.
LEMMA NamesExist ==
  ASSUME NEW c
  PROVE  \E f : /\ \A d \in 0..MaxPointers : \A i \in DOMAIN c :
                     f[d][i] = NameAt(c, i, Stop(c, i), IF d = 0 THEN <<>> ELSE f[d - 1])
                /\ \A d \in 0..MaxPointers : DOMAIN f[d] = DOMAIN c
                /\ \A o : ParseName(c, o) = IF o \in DOMAIN c THEN f[MaxPointers][o] ELSE Nil
<1> DEFINE R(f, k) == [d \in 0..k |->
                         [i \in DOMAIN c |-> NameAt(c, i, Stop(c, i), IF d = 0 THEN <<>> ELSE f[d - 1])]]
           H == {k \in Nat : \E f : f = R(f, k)}
<1>1. 0 \in H
  <2> DEFINE f == [d \in 0..0 |-> [i \in DOMAIN c |-> NameAt(c, i, Stop(c, i), <<>>)]]
  <2>1. f = R(f, 0)
    OBVIOUS
  <2> HIDE DEF f, R
  <2>2. \E g : g = R(g, 0)
    BY <2>1
  <2> QED  BY <2>2
<1>2. ASSUME NEW k \in H PROVE k + 1 \in H
  <2>1. k \in Nat /\ \E f : f = R(f, k)
    OBVIOUS
  <2>2. PICK f : f = R(f, k)
    BY <2>1
  <2> DEFINE g == [d \in 0..(k + 1) |->
                     IF d <= k THEN f[d] ELSE [i \in DOMAIN c |-> NameAt(c, i, Stop(c, i), f[k])]]
  <2>3. g = R(g, k + 1)
    <3> SUFFICES ASSUME NEW d \in 0..(k + 1)
                 PROVE  g[d] = [i \in DOMAIN c |-> NameAt(c, i, Stop(c, i), IF d = 0 THEN <<>> ELSE g[d - 1])]
      OBVIOUS
    <3>1. CASE d <= k
      <4>1. d \in 0..k /\ g[d] = f[d]
        BY <2>1, <3>1
      <4>2. f[d] = [i \in DOMAIN c |-> NameAt(c, i, Stop(c, i), IF d = 0 THEN <<>> ELSE f[d - 1])]
        BY <2>2, <4>1
      <4>3. d # 0 => g[d - 1] = f[d - 1]
        BY <2>1, <3>1
      <4> HIDE DEF g
      <4> QED  BY <4>1, <4>2, <4>3
    <3>2. CASE ~(d <= k)
      <4>1. d = k + 1 /\ d # 0 /\ d - 1 = k /\ k \in 0..(k + 1) /\ k <= k
        BY <2>1, <3>2
      <4>2. g[k] = f[k] /\ g[d] = [i \in DOMAIN c |-> NameAt(c, i, Stop(c, i), f[k])]
        BY <3>2, <4>1
      <4> HIDE DEF g
      <4> QED  BY <4>1, <4>2
    <3> QED  BY <3>1, <3>2
  <2> HIDE DEF g, R
  <2>4. \E f1 : f1 = R(f1, k + 1)
    BY <2>3
  <2> QED  BY <2>1, <2>4
<1>3. MaxPointers \in H
  <2> HIDE DEF H
  <2>1. MaxPointers \in Nat /\ \A k \in Nat : k \in H => k + 1 \in H
    BY <1>2, BoundsAssumption
  <2> QED  BY <1>1, <2>1, SetInduction
<1> DEFINE F == CHOOSE f : f = R(f, MaxPointers)
<1>4. F = R(F, MaxPointers)
  <2>1. \E f : f = R(f, MaxPointers)
    BY <1>3
  <2> HIDE DEF R
  <2> QED  BY <2>1
<1>5. \A o : ParseName(c, o) = IF o \in DOMAIN c THEN F[MaxPointers][o] ELSE Nil
  BY DEF ParseName
<1> HIDE DEF F
<1>6. \A d \in 0..MaxPointers :
        F[d] = [i \in DOMAIN c |-> NameAt(c, i, Stop(c, i), IF d = 0 THEN <<>> ELSE F[d - 1])]
  BY <1>4
<1> HIDE DEF R
<1>7. \A d \in 0..MaxPointers : DOMAIN F[d] = DOMAIN c
  BY <1>6
<1>8. \A d \in 0..MaxPointers : \A i \in DOMAIN c :
        F[d][i] = NameAt(c, i, Stop(c, i), IF d = 0 THEN <<>> ELSE F[d - 1])
  BY <1>6
<1> QED  BY <1>5, <1>7, <1>8

\* What is read as a name is a sequence of labels.
LEMMA NameIsSeq ==
  ASSUME NEW c, IsSeq(c), NEW o, ParseName(c, o) # Nil
  PROVE  IsSeq(ParseName(c, o))
<1>1. PICK f : /\ \A d \in 0..MaxPointers : \A i \in DOMAIN c :
                    f[d][i] = NameAt(c, i, Stop(c, i), IF d = 0 THEN <<>> ELSE f[d - 1])
               /\ \A d \in 0..MaxPointers : DOMAIN f[d] = DOMAIN c
               /\ ParseName(c, o) = IF o \in DOMAIN c THEN f[MaxPointers][o] ELSE Nil
  BY NamesExist
<1>2. IsSeq(c) /\ Len(c) \in Nat /\ DOMAIN c = 1..Len(c) /\ MaxPointers \in Nat
  BY SeqBasics, BoundsAssumption
<1>3. ASSUME NEW i \in DOMAIN c, NEW names, NameAt(c, i, Stop(c, i), names) # Nil,
             \A k \in DOMAIN names : names[k] # Nil => IsSeq(names[k])
      PROVE  IsSeq(NameAt(c, i, Stop(c, i), names))
  <2> DEFINE e == Stop(c, i)
             rest == Rest(c, e, names)
             own == [k \in 1..(e - i) |-> c[i + k - 1].v]
  <2>1. NameAt(c, i, e, names) = Joined(c, i, e, rest)
    BY DEF NameAt
  <2>2. rest # Nil /\ NameAt(c, i, e, names) = own \o rest
    BY <1>3, <2>1 DEF Joined
  <2>3. e # Nowhere /\ IsSeq(rest)
    BY <1>3, <2>2, EmptyIsSeq DEF Rest
  <2>4. e - i \in Nat
    <3>1. i \in Nat \ {0}
      BY <1>2
    <3>2. e \in i..Len(c)
      BY <1>2, <2>3, <3>1, StopFound
    <3> HIDE DEF e
    <3> QED  BY <1>2, <3>1, <3>2
  <2>5. IsSeq(own)
    <3>1. own = [k \in 1..(e - i) |-> own[k]]
      OBVIOUS
    <3> HIDE DEF own
    <3> QED  BY <2>4, <3>1, SeqMap
  <2> HIDE DEF own, rest, e
  <2>6. IsSeq(own \o rest)
    BY <2>3, <2>5, Joining
  <2> QED  BY <2>2, <2>6 DEF e
<1> DEFINE G(d) == \A i \in DOMAIN c : f[d][i] # Nil => IsSeq(f[d][i])
           H == {d \in Nat : d \in 0..MaxPointers => G(d)}
<1>4. 0 \in H
  <2> SUFFICES ASSUME NEW i \in DOMAIN c, f[0][i] # Nil PROVE IsSeq(f[0][i])
    OBVIOUS
  <2>1. f[0][i] = NameAt(c, i, Stop(c, i), <<>>)
    BY <1>1, <1>2
  <2>2. \A k \in DOMAIN <<>> : <<>>[k] # Nil => IsSeq(<<>>[k])
    OBVIOUS
  <2> QED  BY <1>3, <2>1, <2>2
<1>5. ASSUME NEW d \in Nat, d \in H PROVE d + 1 \in H
  <2> SUFFICES ASSUME d + 1 \in 0..MaxPointers, NEW i \in DOMAIN c, f[d + 1][i] # Nil
               PROVE  IsSeq(f[d + 1][i])
    OBVIOUS
  <2>1. d \in 0..MaxPointers /\ d + 1 # 0 /\ (d + 1) - 1 = d
    BY <1>2
  <2>2. f[d + 1][i] = NameAt(c, i, Stop(c, i), f[d])
    BY <1>1, <2>1
  <2>3. \A k \in DOMAIN f[d] : f[d][k] # Nil => IsSeq(f[d][k])
    BY <1>1, <1>5, <2>1
  <2> QED  BY <1>3, <2>2, <2>3
<1>6. MaxPointers \in H
  <2> HIDE DEF H
  <2> QED  BY <1>2, <1>4, <1>5, SetInduction
<1>7. G(MaxPointers)
  BY <1>2, <1>6
<1> QED  BY <1>1, <1>7

\* What is read can be written out again.
Rewritable(p, r) ==
  /\ IsRead(p.cells, r) /\ Owner(p, r) # Nil
  /\ r.type = "CNAME" => DataName(p, r) # Nil

\* A record written again is a record.
LEMMA ReencodedRaw ==
  ASSUME NEW p, IsPacket(p), NEW r, Rewritable(p, r)
  PROVE  IsRaw(Reencoded(p, r))
<1>1. IsCells(p.cells) /\ IsSeq(p.cells)
  BY PacketCells
<1>2. r.ttl \in Nat /\ IsCells(RawData(p, r))
  BY <1>1, ReadRecord DEF Rewritable, RawData
<1>3. IsSeq(Owner(p, r))
  BY <1>1, NameIsSeq DEF Rewritable, Owner
<1>4. CASE r.type = "CNAME"
  <2>1. IsSeq(DataName(p, r))
    BY <1>1, <1>4, NameIsSeq DEF Rewritable, DataName
  <2> QED  BY <1>2, <1>3, <1>4, <2>1, CnameRaw DEF Reencoded
<1>5. CASE r.type # "CNAME"
  <2> DEFINE n == Owner(p, r)
             d == RawData(p, r)
  <2>1. Reencoded(p, r) = EncodeName(n) \o <<Fixed(r.type, r.class, r.ttl, Len(d))>> \o d
    BY <1>5 DEF Reencoded, Encoded
  <2> HIDE DEF n, d
  <2> QED  BY <1>2, <1>3, <2>1, NamedRaw DEF n, d
<1> QED  BY <1>4, <1>5
-----------------------------------------------------------------------------
(* What the operations on packets keep *)

\* q is a packet, with a question if p has one, and readable if p is.
Keeps(p, q) ==
  /\ IsPacket(q)
  /\ HasQuestion(p) => HasQuestion(q)
  /\ Readable(p) => Readable(q)

\* Every packet keeps itself, and what keeps what was kept keeps it.
LEMMA KeepsAll ==
  /\ \A p : IsPacket(p) => Keeps(p, p)
  /\ \A p, q, r : Keeps(p, q) /\ Keeps(q, r) => Keeps(p, r)
BY DEF Keeps

\* xs in the place of the records from a + 1 to b.
PartsWith(p, a, xs, b) ==
  After(a + Len(xs), After(a, Parts(p), Len(xs), [i \in 1..Len(xs) |-> FixedOf(xs[i])]),
        Len(Records(p)) - b, From(Parts(p), b, Len(Records(p)) - b))

\* The records behind a up to b, replaced by xs.
Replaced(p, m, a, xs, b) ==
  SubSeq(p.cells, 1, m[a] - 1) \o FlattenSeq(xs) \o SubSeq(p.cells, m[b], Len(p.cells))

\* A header as it should be.
IsHeader(q) ==
  /\ q = [flags |-> q.flags, rcode |-> q.rcode, qd |-> q.qd, an |-> q.an, ns |-> q.ns, ar |-> q.ar,
          cells |-> q.cells]
  /\ q.qd \in {0, 1} /\ q.an \in Nat /\ q.ns \in Nat /\ q.ar \in Nat

\* A header and cells are a packet.
LEMMA HeaderAndCells ==
  ASSUME NEW q, IsHeader(q), IsCells(q.cells)
  PROVE  IsPacket(q)
<1> DEFINE c == q.cells
           qd == q.qd
           an == q.an
           ns == q.ns
           ar == q.ar
           fl == q.flags
           rc == q.rcode
<1>1. /\ IsCells(c) /\ qd \in {0, 1} /\ an \in Nat /\ ns \in Nat /\ ar \in Nat
      /\ q = [flags |-> fl, rcode |-> rc, qd |-> qd, an |-> an, ns |-> ns, ar |-> ar, cells |-> c]
  BY DEF IsHeader
<1> HIDE DEF c, qd, an, ns, ar, fl, rc
<1> QED  BY <1>1, PacketOf

\* With records replaced the packet holds the others and the new ones.
LEMMA Relaid ==
  ASSUME NEW p, IsPacket(p), NEW m, Laid(p, m),
         NEW a \in 0..Len(Records(p)), NEW b \in 0..Len(Records(p)), a <= b,
         NEW xs, IsSeq(xs), \A i \in 1..Len(xs) : IsRaw(xs[i]),
         NEW q, IsHeader(q), q.qd = p.qd, q.cells = Replaced(p, m, a, xs, b)
  PROVE  /\ IsPacket(q) /\ AnswersFrom(q) = AnswersFrom(p) /\ AnswersFrom(q) # Nowhere
         /\ HasQuestion(p) => HasQuestion(q)
         /\ Has(q.cells, AnswersFrom(q), a + Len(xs) + (Len(Records(p)) - b), PartsWith(p, a, xs, b))
<1> DEFINE c == p.cells
           n == Len(Records(p))
           g == Parts(p)
           k == Len(xs)
           h == [i \in 1..k |-> FixedOf(xs[i])]
           pre == SubSeq(c, 1, m[a] - 1)
           new == FlattenSeq(xs)
           suf == SubSeq(c, m[b], Len(c))
           s == AnswersFrom(p)
<1>1. IsCells(c) /\ Len(c) \in Nat /\ s # Nowhere /\ p.qd \in {0, 1}
  BY PacketCells DEF Laid
<1>2. Holds(c, m, n, g) /\ m[0] = s /\ m[0] <= Len(c) + 1 /\ n \in Nat
  BY LaidHolds, SomehowLaid DEF Laid
<1>3. Full(new, 1, k, h) /\ k \in Nat
  BY FullFlat, SeqBasics
<1>4. /\ Full(pre, s, a, g) /\ m[a] \in s..(Len(c) + 1) /\ s \in Nat \ {0} /\ Len(pre) = m[a] - 1
      /\ \A i \in 1..(m[a] - 1) : pre[i] = c[i]
  <2> HIDE DEF c, n, g, s
  <2>1. a \in 0..n /\ IsCells(c) /\ n \in Nat /\ Holds(c, m, n, g) /\ m[0] <= Len(c) + 1
    BY <1>1, <1>2 DEF n
  <2>2. /\ Full(SubSeq(c, 1, m[a] - 1), m[0], a, g)
        /\ m[a] \in m[0]..(Len(c) + 1) /\ m[0] \in Nat \ {0}
        /\ Len(SubSeq(c, 1, m[a] - 1)) = m[a] - 1
        /\ \A i \in 1..(m[a] - 1) : SubSeq(c, 1, m[a] - 1)[i] = c[i]
    BY ONLY <2>1, CutFront
  <2> QED  BY <1>2, <2>2 DEF pre
<1>5. Has(suf, 1, n - b, From(g, b, n - b))
  <2> HIDE DEF c, n, g, s
  <2>1. b \in 0..n
    BY DEF n
  <2> QED  BY <1>1, <1>2, <2>1, CutBack
<1> HIDE DEF pre, new, suf
<1>6. q.cells = (pre \o new) \o suf
  BY DEF Replaced, pre, new, suf, c
<1>7. /\ Full(pre \o new, s, a + k, After(a, g, k, h))
      /\ \A i \in 1..Len(pre) : (pre \o new)[i] = pre[i]
      /\ Len(pre \o new) = Len(pre) + Len(new)
  <2> HIDE DEF s, g, k, h
  <2>1. Full(pre, s, a, g) /\ Full(new, 1, k, h) /\ Has(new, 1, k, h)
    BY <1>3, <1>4, FullHas
  <2>2. /\ Full(pre \o new, s, a + k, After(a, g, k, h))
        /\ \A i \in 1..Len(pre) : (pre \o new)[i] = pre[i]
        /\ Len(pre \o new) = Len(pre) + Len(new)
    BY ONLY <2>1, HasAfter
  <2> QED  BY <2>2
<1>8. /\ Has(q.cells, s, (a + k) + (n - b), After(a + k, After(a, g, k, h), n - b, From(g, b, n - b)))
      /\ \A i \in 1..Len(pre \o new) : q.cells[i] = (pre \o new)[i]
      /\ Len(q.cells) = Len(pre \o new) + Len(suf)
  <2> DEFINE y == pre \o new
             f == After(a, g, k, h)
             z == n - b
             w == From(g, b, n - b)
             j == a + k
  <2>1. Full(y, s, j, f) /\ Has(suf, 1, z, w)
    BY <1>5, <1>7
  <2> HIDE DEF y, f, z, w, s, j
  <2>2. /\ Has(y \o suf, s, j + z, After(j, f, z, w))
        /\ \A i \in 1..Len(y) : (y \o suf)[i] = y[i]
        /\ Len(y \o suf) = Len(y) + Len(suf)
    BY <2>1, HasAfter
  <2> QED  BY <1>6, <2>2 DEF y, f, z, w, j
<1>9. IsCells(q.cells) /\ Len(new) \in Nat /\ Len(suf) \in Nat
  <2>1. IsCells(q.cells) /\ IsCells(new) /\ IsCells(suf)
    BY <1>3, <1>5, <1>8 DEF Has, Full
  <2> QED  BY <2>1, CellsSeq
<1>10. IsPacket(q)
  BY <1>9, HeaderAndCells
<1>11. s - 1 <= Len(q.cells) /\ \A i \in 1..(s - 1) : q.cells[i].k = c[i].k
  <2> DEFINE y == pre \o new
             x == m[a]
             u == Len(pre)
             v == Len(new)
  <2>a. x \in s..(Len(c) + 1) /\ Len(c) \in Nat /\ s \in Nat \ {0} /\ u = x - 1 /\ v \in Nat
    BY <1>1, <1>4, <1>9
  <2>0. /\ \A i \in 1..Len(pre) : y[i] = pre[i]
        /\ Len(y) = Len(pre) + Len(new)
        /\ \A i \in 1..Len(y) : q.cells[i] = y[i]
        /\ Len(q.cells) = Len(y) + Len(suf)
    BY <1>7, <1>8
  <2>b. Len(y) = u + v
    BY <2>0
  <2> HIDE DEF y, s, c, x, u, v
  <2>1. s - 1 <= u /\ u \in Nat /\ Len(y) \in Nat /\ u <= Len(y) /\ s - 1 <= x - 1
    BY ONLY <2>a, <2>b
  <2>2. ASSUME NEW i \in 1..(s - 1) PROVE q.cells[i] = c[i]
    <3>1. i \in 1..Len(pre) /\ i \in 1..Len(y) /\ i \in 1..(m[a] - 1)
      BY ONLY <2>a, <2>1, i \in 1..(s - 1) DEF x, u
    <3> QED  BY <1>4, <2>0, <3>1
  <2>3. Len(q.cells) = Len(y) + Len(suf) /\ Len(suf) \in Nat
    BY <1>9, <2>0
  <2>4. s - 1 <= Len(q.cells)
    BY ONLY <2>a, <2>1, <2>3
  <2> QED  BY <2>2, <2>4
<1>12. AnswersFrom(q) = s /\ (HasQuestion(p) => HasQuestion(q))
  <2> HIDE DEF pre, new, suf
  <2>1. /\ IsPacket(p) /\ IsPacket(q) /\ q.qd = p.qd /\ AnswersFrom(p) # Nowhere
        /\ AnswersFrom(p) - 1 <= Len(q.cells)
        /\ \A i \in 1..(AnswersFrom(p) - 1) : q.cells[i].k = p.cells[i].k
    BY <1>1, <1>10, <1>11
  <2> QED  BY ONLY <2>1, QuestionStays
<1>13. Has(q.cells, s, a + k + (n - b), PartsWith(p, a, xs, b))
  BY <1>8 DEF PartsWith
<1> QED  BY <1>1, <1>10, <1>12, <1>13

\* ... and it is readable when its counts say so.
LEMMA RelaidReadable ==
  ASSUME NEW p, IsPacket(p), Readable(p), NEW q, IsPacket(q), AnswersFrom(q) # Nowhere,
         NEW a \in 0..Len(Records(p)), NEW b \in 0..Len(Records(p)), NEW xs, Len(xs) \in Nat,
         Has(q.cells, AnswersFrom(q), a + Len(xs) + (Len(Records(p)) - b), PartsWith(p, a, xs, b)),
         Total(q) = a + Len(xs) + (Total(p) - b)
  PROVE  /\ Readable(q) /\ Len(Records(q)) = Total(q)
         /\ \A i \in 1..Total(q) : Says(Records(q)[i], PartsWith(p, a, xs, b)[i])
<1>1. Total(q) = a + Len(xs) + (Len(Records(p)) - b)
  BY AnswersWithRest
<1> DEFINE g == PartsWith(p, a, xs, b)
<1>2. Has(q.cells, AnswersFrom(q), Total(q), g)
  BY <1>1
<1> HIDE DEF g
<1>3. Readable(q) /\ Len(Records(q)) = Total(q) /\ \A i \in 1..Total(q) : Says(Records(q)[i], g[i])
  BY <1>2, HasReadable
<1> QED  BY <1>3 DEF g

\* A packet by its parts.
Packet(fl, rc, qd, an, ns, ar, c) ==
  [flags |-> fl, rcode |-> rc, qd |-> qd, an |-> an, ns |-> ns, ar |-> ar, cells |-> c]

\* A packet's fields.
LEMMA PacketFields ==
  ASSUME NEW fl, NEW rc, NEW qd, NEW an, NEW ns, NEW ar, NEW c, NEW q, q = Packet(fl, rc, qd, an, ns, ar, c)
  PROVE  /\ q.flags = fl /\ q.rcode = rc /\ q.qd = qd /\ q.an = an /\ q.ns = ns /\ q.ar = ar /\ q.cells = c
         /\ qd \in {0, 1} /\ an \in Nat /\ ns \in Nat /\ ar \in Nat => IsHeader(q)
BY DEF Packet, IsHeader

\* The edits of a packet.
LEMMA AnswersEdit ==
  ASSUME NEW p, IsPacket(p), NEW an, NEW c, NEW q, q = [p EXCEPT !.an = an, !.cells = c]
  PROVE  q = Packet(p.flags, p.rcode, p.qd, an, p.ns, p.ar, c)
<1>1. p = Packet(p.flags, p.rcode, p.qd, p.an, p.ns, p.ar, p.cells)
  BY DEF IsPacket, Packet
<1> DEFINE q1 == [p EXCEPT !.an = an]
<1>2. q1 = Packet(p.flags, p.rcode, p.qd, an, p.ns, p.ar, p.cells)
  BY <1>1 DEF Packet
<1> HIDE DEF q1
<1> DEFINE q2 == [q1 EXCEPT !.cells = c]
<1>3. q2 = Packet(p.flags, p.rcode, p.qd, an, p.ns, p.ar, c)
  BY <1>2 DEF Packet
<1> HIDE DEF q2
<1>4. q = q2
  BY DEF q1, q2
<1> QED  BY ONLY <1>3, <1>4

LEMMA AdditionalEdit ==
  ASSUME NEW p, IsPacket(p), NEW ar, NEW c, NEW q, q = [p EXCEPT !.ar = ar, !.cells = c]
  PROVE  q = Packet(p.flags, p.rcode, p.qd, p.an, p.ns, ar, c)
<1>1. p = Packet(p.flags, p.rcode, p.qd, p.an, p.ns, p.ar, p.cells)
  BY DEF IsPacket, Packet
<1> DEFINE q1 == [p EXCEPT !.ar = ar]
<1>2. q1 = Packet(p.flags, p.rcode, p.qd, p.an, p.ns, ar, p.cells)
  BY <1>1 DEF Packet
<1> HIDE DEF q1
<1> DEFINE q2 == [q1 EXCEPT !.cells = c]
<1>3. q2 = Packet(p.flags, p.rcode, p.qd, p.an, p.ns, ar, c)
  BY <1>2 DEF Packet
<1> HIDE DEF q2
<1>4. q = q2
  BY DEF q1, q2
<1> QED  BY ONLY <1>3, <1>4

LEMMA CellsEdit ==
  ASSUME NEW p, IsPacket(p), NEW c, NEW q, q = [p EXCEPT !.cells = c]
  PROVE  q = Packet(p.flags, p.rcode, p.qd, p.an, p.ns, p.ar, c)
<1>1. p = Packet(p.flags, p.rcode, p.qd, p.an, p.ns, p.ar, p.cells)
  BY DEF IsPacket, Packet
<1> DEFINE q1 == [p EXCEPT !.cells = c]
<1>2. q1 = Packet(p.flags, p.rcode, p.qd, p.an, p.ns, p.ar, c)
  BY <1>1 DEF Packet
<1> HIDE DEF q1
<1>3. q = q1
  BY DEF q1
<1> QED  BY ONLY <1>2, <1>3

LEMMA QuestionEdit ==
  ASSUME NEW p, IsPacket(p), NEW qd, NEW c, NEW q, q = [p EXCEPT !.qd = qd, !.cells = c]
  PROVE  q = Packet(p.flags, p.rcode, qd, p.an, p.ns, p.ar, c)
<1>1. p = Packet(p.flags, p.rcode, p.qd, p.an, p.ns, p.ar, p.cells)
  BY DEF IsPacket, Packet
<1> DEFINE q1 == [p EXCEPT !.qd = qd]
<1>2. q1 = Packet(p.flags, p.rcode, qd, p.an, p.ns, p.ar, p.cells)
  BY <1>1 DEF Packet
<1> HIDE DEF q1
<1> DEFINE q2 == [q1 EXCEPT !.cells = c]
<1>3. q2 = Packet(p.flags, p.rcode, qd, p.an, p.ns, p.ar, c)
  BY <1>2 DEF Packet
<1> HIDE DEF q2
<1>4. q = q2
  BY DEF q1, q2
<1> QED  BY ONLY <1>3, <1>4

LEMMA FlagsEdit ==
  ASSUME NEW p, IsPacket(p), NEW fl, NEW q, q = [p EXCEPT !.flags = fl]
  PROVE  q = Packet(fl, p.rcode, p.qd, p.an, p.ns, p.ar, p.cells)
<1>1. p = Packet(p.flags, p.rcode, p.qd, p.an, p.ns, p.ar, p.cells)
  BY DEF IsPacket, Packet
<1> DEFINE q1 == [p EXCEPT !.flags = fl]
<1>2. q1 = Packet(fl, p.rcode, p.qd, p.an, p.ns, p.ar, p.cells)
  BY <1>1 DEF Packet
<1> HIDE DEF q1
<1>3. q = q1
  BY DEF q1
<1> QED  BY ONLY <1>2, <1>3
-----------------------------------------------------------------------------
(* More answers *)

\* CNAMEs put behind the answers leave the rest readable.
LEMMA InsertKeeps ==
  ASSUME NEW p, IsPacket(p), AnswersRead(p), NEW new, IsSeq(new), \A i \in 1..Len(new) : IsLink(new[i])
  PROVE  Keeps(p, InsertAnswers(p, new))
<1> DEFINE q == InsertAnswers(p, new)
           xs == [i \in DOMAIN new |-> EncodedCname(new[i][1], new[i][2], new[i][3])]
           k == Len(new)
           n == p.an
<1>1. k \in Nat /\ DOMAIN new = 1..k
  BY SeqBasics
<1>2. IsSeq(xs) /\ Len(xs) = k /\ \A i \in 1..k : xs[i] = EncodedCname(new[i][1], new[i][2], new[i][3])
  <2>1. xs = [i \in 1..k |-> xs[i]] /\ \A i \in 1..k : xs[i] = EncodedCname(new[i][1], new[i][2], new[i][3])
    BY <1>1
  <2> HIDE DEF xs, k
  <2> QED  BY <1>1, <2>1, SeqMap
<1>3. \A i \in 1..Len(xs) : IsRaw(xs[i])
  <2> SUFFICES ASSUME NEW i \in 1..k PROVE IsRaw(xs[i])
    BY <1>2
  <2>1. IsLink(new[i])
    OBVIOUS
  <2>2. IsSeq(new[i][1]) /\ IsSeq(new[i][2]) /\ new[i][3] \in Nat
    BY <2>1 DEF IsLink, IsSeq
  <2> HIDE DEF xs
  <2> QED  BY <1>2, <2>2, CnameRaw
<1>4. AnswersFrom(p) # Nowhere /\ n \in 0..Len(Records(p)) /\ \A m : Laid(p, m) => AnswersEnd(p) = m[n]
  BY AnswersAre
<1>5. PICK m : Laid(p, m)
  BY <1>4, SomehowLaid
<1>6. AnswersEnd(p) = m[n]
  BY <1>4, <1>5
<1>7. p.an \in Nat /\ p.ns \in Nat /\ p.ar \in Nat /\ p.qd \in {0, 1}
  BY PacketCells
<1> DEFINE x == p.an + k
           b == Replaced(p, m, n, xs, n)
<1>8. q = [p EXCEPT !.an = x, !.cells = b]
  BY <1>6 DEF InsertAnswers, Replaced
<1>9. x \in Nat /\ x = p.an + k
  BY <1>1, <1>7
<1> HIDE DEF q, xs, x, b
<1>10. /\ IsHeader(q) /\ q.qd = p.qd /\ q.an = x /\ q.ns = p.ns /\ q.ar = p.ar /\ q.cells = b
  <2>1. q = Packet(p.flags, p.rcode, p.qd, x, p.ns, p.ar, b)
    BY <1>8, AnswersEdit, Zenon
  <2> QED  BY <1>7, <1>9, <2>1, PacketFields
<1>11. /\ IsPacket(q) /\ AnswersFrom(q) # Nowhere
       /\ HasQuestion(p) => HasQuestion(q)
       /\ Has(q.cells, AnswersFrom(q), n + Len(xs) + (Len(Records(p)) - n), PartsWith(p, n, xs, n))
  <2>0. n <= n
    BY <1>7
  <2> HIDE DEF n
  <2>1. /\ IsPacket(p) /\ Laid(p, m) /\ n \in 0..Len(Records(p)) /\ n <= n /\ IsSeq(xs)
        /\ \A i \in 1..Len(xs) : IsRaw(xs[i])
        /\ IsHeader(q) /\ q.qd = p.qd /\ q.cells = Replaced(p, m, n, xs, n)
    BY <1>2, <1>3, <1>4, <1>5, <1>10, <2>0 DEF b
  <2> QED  BY ONLY <2>1, Relaid
<1>12. ASSUME Readable(p) PROVE Readable(q)
  <2>1. Total(q) = n + Len(xs) + (Total(p) - n)
    <3>1. n + Len(xs) + (Total(p) - n) = p.an + k + p.ns + p.ar
      BY <1>1, <1>2, <1>7 DEF Total
    <3> QED  BY <1>9, <1>10, <3>1 DEF Total
  <2>2. Len(xs) \in Nat
    BY <1>1, <1>2
  <2> HIDE DEF n
  <2>3. /\ IsPacket(p) /\ Readable(p) /\ IsPacket(q) /\ AnswersFrom(q) # Nowhere
        /\ n \in 0..Len(Records(p)) /\ Len(xs) \in Nat
        /\ Has(q.cells, AnswersFrom(q), n + Len(xs) + (Len(Records(p)) - n), PartsWith(p, n, xs, n))
        /\ Total(q) = n + Len(xs) + (Total(p) - n)
    BY <1>4, <1>11, <1>12, <2>1, <2>2
  <2> QED  BY ONLY <2>3, RelaidReadable
<1> QED  BY <1>11, <1>12 DEF Keeps, q

\* Merging the chain keeps what a response is good for.
LEMMA AppendCnamesKeeps ==
  ASSUME NEW p, IsPacket(p), NEW chain, IsSeq(chain), \A i \in 1..Len(chain) : IsLink(chain[i])
  PROVE  Keeps(p, AppendCnames(p, chain))
<1>1. CASE ~AnswersRead(p)
  BY <1>1, KeepsAll DEF AppendCnames
<1>2. CASE AnswersRead(p)
  <2> DEFINE I == Missing(chain, Cnames(p))
             new == Picked(chain, I)
  <2>1. I \in SUBSET DOMAIN chain /\ DOMAIN chain = 1..Len(chain)
    BY SeqBasics DEF Missing
  <2>2. AppendCnames(p, chain) = InsertAnswers(p, new)
    BY <1>2 DEF AppendCnames
  <2> HIDE DEF I
  <2>3. IsSeq(new) /\ \A n \in 1..Len(new) : new[n] \in {chain[i] : i \in I}
    BY <2>1, PickedOut
  <2>4. \A i \in 1..Len(new) : IsLink(new[i])
    BY <2>1, <2>3
  <2> HIDE DEF new
  <2> QED  BY <1>2, <2>2, <2>3, <2>4, InsertKeeps
<1> QED  BY <1>1, <1>2
-----------------------------------------------------------------------------
(* Age *)

\* Aging does, though it goes through every record.
LEMMA DecayKeeps ==
  ASSUME NEW p, IsPacket(p), NEW seconds \in Nat
  PROVE  Keeps(p, Decay(p, seconds))
<1> DEFINE c == p.cells
           F == {r.fixed : r \in ToSet(Records(p))}
           b == Aged(c, F, seconds)
           q == Decay(p, seconds)
<1>1. IsCells(c) /\ IsSeq(c) /\ Len(c) \in Nat /\ DOMAIN c = 1..Len(c) /\ p.qd \in {0, 1}
      /\ p.an \in Nat /\ p.ns \in Nat /\ p.ar \in Nat
  BY PacketCells
<1>2. \A i \in F : i \in 1..Len(c) => c[i].k = "rr"
  <2>1. CASE AnswersFrom(p) = Nowhere
    <3>1. Records(p) = <<>>
      BY <2>1 DEF Records
    <3> QED  BY <3>1 DEF ToSet
  <2>2. CASE AnswersFrom(p) # Nowhere
    <3> SUFFICES ASSUME NEW r \in ToSet(Records(p)) PROVE c[r.fixed].k = "rr"
      OBVIOUS
    <3>1. PICK j \in 1..Len(Records(p)) : r = Records(p)[j]
      BY <2>2, SomehowLaid, SeqBasics DEF ToSet
    <3>2. IsRead(c, r)
      BY <2>2, <3>1, RecordsRead
    <3> QED  BY <1>1, <3>2, ReadRecord
  <2> QED  BY <2>1, <2>2
<1> HIDE DEF F, c
<1>3. b = [i \in 1..Len(c) |-> b[i]]
  BY <1>1 DEF Aged
<1>4. \A i \in 1..Len(c) :
        b[i] = IF i \in F THEN [c[i] EXCEPT !.ttl = Minus(c[i].ttl, seconds)] ELSE c[i]
  BY <1>1 DEF Aged
<1> HIDE DEF b
<1>5. IsSeq(b) /\ Len(b) = Len(c)
  BY <1>1, <1>3, SeqMap
<1>6. \A i \in 1..Len(c) : IsCell(b[i]) /\ Alike(b[i], c[i])
  <2> SUFFICES ASSUME NEW i \in 1..Len(c) PROVE IsCell(b[i]) /\ Alike(b[i], c[i])
    OBVIOUS
  <2>1. IsCell(c[i])
    BY <1>1 DEF IsCells
  <2>2. CASE i \notin F
    BY <1>4, <2>1, <2>2, AlikeItself
  <2>3. CASE i \in F
    <3> DEFINE e == c[i]
               t == Minus(e.ttl, seconds)
    <3>1. e.k = "rr" /\ e = Fixed(e.type, e.class, e.ttl, e.len) /\ e.ttl \in Nat /\ e.len \in Nat
      BY <1>2, <2>1, <2>3 DEF IsCell
    <3>2. b[i] = [e EXCEPT !.ttl = t]
      BY <1>4, <2>3
    <3>5. t \in Nat
      <4> DEFINE y == e.ttl
      <4>1. y \in Nat
        BY <3>1
      <4> HIDE DEF y
      <4>2. Minus(y, seconds) \in Nat
        BY <4>1 DEF Minus
      <4> QED  BY <4>2 DEF y
    <3> HIDE DEF t, e
    <3>3. b[i] = Fixed(e.type, e.class, t, e.len)
      BY <3>1, <3>2, <3>5 DEF Fixed
    <3>4. IsCell(b[i]) /\ b[i].k = "rr" /\ b[i].len = e.len
      BY <3>1, <3>3, <3>5, CellsHere
    <3> QED  BY <3>1, <3>4 DEF Alike, e
  <2> QED  BY <2>2, <2>3
<1>7. IsCells(b)
  BY <1>5, <1>6 DEF IsCells
<1>8. q = [p EXCEPT !.cells = b]
  BY DEF Decay, b, c, F
<1> HIDE DEF q
<1>9. /\ IsPacket(q) /\ q.qd = p.qd /\ q.cells = b
      /\ Total(q) = Total(p)
  <2>1. q = Packet(p.flags, p.rcode, p.qd, p.an, p.ns, p.ar, b)
    BY <1>8, CellsEdit, Zenon
  <2>2. q.qd = p.qd /\ q.cells = b /\ q.an = p.an /\ q.ns = p.ns /\ q.ar = p.ar /\ IsHeader(q)
    BY <1>1, <2>1, PacketFields
  <2> QED  BY <1>7, <2>2, HeaderAndCells DEF Total
<1>10. CASE AnswersFrom(p) = Nowhere
  <2>1. ~HasQuestion(p) /\ ~Readable(p)
    BY <1>10, QuestionSomewhere DEF Readable
  <2> QED  BY <1>9, <2>1 DEF Keeps, q
<1>11. CASE AnswersFrom(p) # Nowhere
  <2>1. AnswersFrom(p) \in 1..(Len(c) + 1) /\ AnswersFrom(p) \in Nat
    BY <1>11, SomehowLaid DEF c
  <2>2. /\ AnswersFrom(p) - 1 <= Len(q.cells)
        /\ \A i \in 1..(AnswersFrom(p) - 1) : q.cells[i].k = p.cells[i].k
    <3>1. \A i \in 1..(AnswersFrom(p) - 1) : i \in 1..Len(c)
      BY <1>1, <2>1
    <3> QED  BY <1>1, <1>5, <1>6, <1>9, <2>1, <3>1 DEF Alike, c
  <2>3. AnswersFrom(q) = AnswersFrom(p) /\ (HasQuestion(p) => HasQuestion(q))
    BY <1>9, <1>11, <2>2, QuestionStays
  <2>4. ASSUME Readable(p) PROVE Readable(q)
    <3>1. PICK m : Laid(p, m)
      BY <1>11, SomehowLaid
    <3> DEFINE n == Total(p)
               z == 0
    <3>2. Spans(c, m, n) /\ m[0] = AnswersFrom(p) /\ n \in Nat
      BY <1>1, <2>4, <3>1, LaidBounds, AnswersWithRest DEF c, Total
    <3>3. \A i \in 0..n : m[i] \in Nat \ {0} /\ m[i] <= Len(c) + 1
      <4>1. Len(Records(p)) = n
        BY <2>4, AnswersWithRest
      <4> QED  BY <3>1, <4>1, LaidBounds DEF c
    <3>4. 0 \in 0..n /\ n \in 0..n /\ z = 0
      BY <3>2
    <3>5. /\ z \in Int /\ m[0] + z >= 1 /\ m[n] - 1 + z <= Len(b)
          /\ \A i \in m[0]..(m[n] - 1) : Alike(b[i + z], c[i])
      <4>1. m[0] \in Nat \ {0} /\ m[n] \in Nat \ {0} /\ m[n] <= Len(c) + 1
        BY <3>3, <3>4
      <4>2. ASSUME NEW i \in m[0]..(m[n] - 1) PROVE i + z = i /\ i \in 1..Len(c)
        BY <1>1, <4>1
      <4> QED  BY <1>1, <1>5, <1>6, <4>1, <4>2
    <3> HIDE DEF z, n
    <3>6. IsCells(b) /\ IsCells(c) /\ n \in Nat /\ Spans(c, m, n)
      BY <1>1, <1>7, <3>2
    <3>7. Spans(b, [i \in 0..n |-> m[i] + z], n)
      BY ONLY <3>5, <3>6, SpansShift
    <3>8. [i \in 0..n |-> m[i] + z] = m
      <4>1. \A i \in 0..n : m[i] + z = m[i]
        BY <3>3, <3>4
      <4>2. m = [i \in 0..n |-> m[i]]
        BY <3>2 DEF Spans
      <4> QED  BY <4>1, <4>2
    <3>9. Spans(q.cells, m, Total(q)) /\ m[0] = AnswersFrom(q) /\ AnswersFrom(q) # Nowhere /\ IsPacket(q)
      BY <1>9, <1>11, <2>3, <3>2, <3>7, <3>8 DEF n
    <3> QED  BY <3>9, LaidOut
  <2> QED  BY <1>9, <2>3, <2>4 DEF Keeps, q
<1> QED  BY <1>10, <1>11
-----------------------------------------------------------------------------
(* Answers written out again *)

\* Records written again are records.
LEMMA ReencodedRaws ==
  ASSUME NEW p, IsPacket(p), NEW rs, IsSeq(rs), \A i \in 1..Len(rs) : Rewritable(p, rs[i])
  PROVE  \E xs : /\ IsSeq(xs) /\ Len(xs) = Len(rs) /\ \A i \in 1..Len(xs) : IsRaw(xs[i])
                 /\ ReencodedAll(p, rs) = FlattenSeq(xs)
<1> DEFINE xs == [i \in DOMAIN rs |-> Reencoded(p, rs[i])]
           k == Len(rs)
<1>1. k \in Nat /\ DOMAIN rs = 1..k
  BY SeqBasics
<1>2. ReencodedAll(p, rs) = FlattenSeq(xs)
  BY DEF ReencodedAll
<1>3. xs = [i \in 1..k |-> xs[i]] /\ \A i \in 1..k : xs[i] = Reencoded(p, rs[i])
  BY <1>1
<1> HIDE DEF xs, k
<1>4. IsSeq(xs) /\ Len(xs) = k
  BY <1>1, <1>3, SeqMap
<1>5. \A i \in 1..Len(xs) : IsRaw(xs[i])
  BY <1>3, <1>4, ReencodedRaw DEF k
<1> QED  BY <1>2, <1>4, <1>5 DEF k

\* Answers whose names can be read can be written again.
LEMMA AnswersRewritable ==
  ASSUME NEW p, IsPacket(p), AnswersReadable(p)
  PROVE  /\ AnswersRead(p) /\ IsSeq(Answers(p)) /\ Len(Answers(p)) = p.an /\ DOMAIN Answers(p) = 1..p.an
         /\ \A i \in 1..p.an : Rewritable(p, Answers(p)[i])
<1>1. AnswersRead(p) /\ Owned(p, Answers(p))
      /\ \A i \in OfType(Answers(p), "CNAME") : DataName(p, Answers(p)[i]) # Nil
  BY DEF AnswersReadable
<1>2. IsSeq(Answers(p)) /\ Len(Answers(p)) = p.an /\ \A i \in 1..p.an : IsRead(p.cells, Answers(p)[i])
  BY <1>1, AnswersAre
<1>3. DOMAIN Answers(p) = 1..p.an
  BY <1>2, SeqBasics
<1> QED  BY <1>1, <1>2, <1>3 DEF Owned, OfType, Rewritable

\* Other records for the answers leave the rest readable.
LEMMA ReplaceKeeps ==
  ASSUME NEW p, IsPacket(p), AnswersRead(p), NEW new, IsSeq(new), \A i \in 1..Len(new) : Rewritable(p, new[i])
  PROVE  Keeps(p, ReplaceAnswers(p, new))
<1> DEFINE q == ReplaceAnswers(p, new)
           k == Len(new)
           n == p.an
<1>1. k \in Nat /\ p.an \in Nat /\ p.ns \in Nat /\ p.ar \in Nat /\ p.qd \in {0, 1}
  BY SeqBasics, PacketCells
<1>2. PICK xs : /\ IsSeq(xs) /\ Len(xs) = k /\ \A i \in 1..Len(xs) : IsRaw(xs[i])
                /\ ReencodedAll(p, new) = FlattenSeq(xs)
  BY ReencodedRaws
<1>3. AnswersFrom(p) # Nowhere /\ n \in 0..Len(Records(p)) /\ \A m : Laid(p, m) => AnswersEnd(p) = m[n]
  BY AnswersAre
<1>4. PICK m : Laid(p, m)
  BY <1>3, SomehowLaid
<1>5. AnswersEnd(p) = m[n] /\ m[0] = AnswersFrom(p) /\ 0 \in 0..Len(Records(p)) /\ 0 <= n
  BY <1>1, <1>3, <1>4 DEF Laid
<1> DEFINE b == Replaced(p, m, 0, xs, n)
<1>6. q = [p EXCEPT !.an = k, !.cells = b]
  BY <1>2, <1>5 DEF ReplaceAnswers, QuestionCells, Replaced
<1> HIDE DEF q, b
<1>7. IsHeader(q) /\ q.qd = p.qd /\ q.an = k /\ q.ns = p.ns /\ q.ar = p.ar /\ q.cells = b
  <2>1. q = Packet(p.flags, p.rcode, p.qd, k, p.ns, p.ar, b)
    BY <1>6, AnswersEdit, Zenon
  <2> QED  BY <1>1, <2>1, PacketFields
<1>8. /\ IsPacket(q) /\ AnswersFrom(q) # Nowhere
      /\ HasQuestion(p) => HasQuestion(q)
      /\ Has(q.cells, AnswersFrom(q), 0 + Len(xs) + (Len(Records(p)) - n), PartsWith(p, 0, xs, n))
  <2> HIDE DEF n
  <2>1. /\ IsPacket(p) /\ Laid(p, m) /\ 0 \in 0..Len(Records(p)) /\ n \in 0..Len(Records(p)) /\ 0 <= n /\ IsSeq(xs)
        /\ \A i \in 1..Len(xs) : IsRaw(xs[i])
        /\ IsHeader(q) /\ q.qd = p.qd /\ q.cells = Replaced(p, m, 0, xs, n)
    BY <1>2, <1>3, <1>4, <1>5, <1>7 DEF b
  <2> QED  BY ONLY <2>1, Relaid
<1>9. ASSUME Readable(p) PROVE Readable(q)
  <2>1. Total(q) = 0 + Len(xs) + (Total(p) - n)
    <3>1. 0 + Len(xs) + (Total(p) - n) = k + p.ns + p.ar
      BY <1>1, <1>2 DEF Total
    <3> QED  BY <1>7, <3>1 DEF Total
  <2>2. Len(xs) \in Nat
    BY <1>1, <1>2
  <2> HIDE DEF n
  <2>3. /\ IsPacket(p) /\ Readable(p) /\ IsPacket(q) /\ AnswersFrom(q) # Nowhere
        /\ 0 \in 0..Len(Records(p)) /\ n \in 0..Len(Records(p)) /\ Len(xs) \in Nat
        /\ Has(q.cells, AnswersFrom(q), 0 + Len(xs) + (Len(Records(p)) - n), PartsWith(p, 0, xs, n))
        /\ Total(q) = 0 + Len(xs) + (Total(p) - n)
    BY <1>3, <1>5, <1>8, <1>9, <2>1, <2>2
  <2> QED  BY ONLY <2>3, RelaidReadable
<1> QED  BY <1>8, <1>9 DEF Keeps, q

\* Some of them can be written again too.
LEMMA PickedRewritable ==
  ASSUME NEW p, NEW rs, IsSeq(rs), NEW I \in SUBSET DOMAIN rs, \A i \in I : Rewritable(p, rs[i])
  PROVE  IsSeq(Picked(rs, I)) /\ \A n \in 1..Len(Picked(rs, I)) : Rewritable(p, Picked(rs, I)[n])
<1> DEFINE s == Picked(rs, I)
<1>1. IsSeq(s) /\ \A n \in 1..Len(s) : s[n] \in {rs[i] : i \in I}
  BY PickedOut
<1> HIDE DEF s
<1>2. \A n \in 1..Len(s) : Rewritable(p, s[n])
  BY <1>1
<1> QED  BY <1>1, <1>2 DEF s

\* ... and these behind those.
LEMMA BothRewritable ==
  ASSUME NEW p, NEW a, IsSeq(a), \A i \in 1..Len(a) : Rewritable(p, a[i]),
         NEW b, IsSeq(b), \A i \in 1..Len(b) : Rewritable(p, b[i])
  PROVE  IsSeq(a \o b) /\ \A i \in 1..Len(a \o b) : Rewritable(p, (a \o b)[i])
<1> DEFINE s == a \o b
<1>1. /\ IsSeq(s) /\ Len(s) = Len(a) + Len(b) /\ Len(a) \in Nat /\ Len(b) \in Nat
      /\ \A i \in 1..Len(a) : s[i] = a[i]
      /\ \A i \in 1..Len(b) : s[Len(a) + i] = b[i]
  <2>1. IsSeq(a) /\ IsSeq(b) /\ Len(a) \in Nat /\ Len(b) \in Nat
    BY SeqBasics
  <2> QED  BY ONLY <2>1, Joining
<1> HIDE DEF s
<1>2. ASSUME NEW i \in 1..Len(s) PROVE Rewritable(p, s[i])
  <2>1. CASE i <= Len(a)
    <3>1. i \in 1..Len(a)
      BY <1>1, <2>1
    <3> QED  BY <1>1, <3>1
  <2>2. CASE ~(i <= Len(a))
    <3> DEFINE j == i - Len(a)
    <3>1. j \in 1..Len(b) /\ Len(a) + j = i
      BY <1>1, <2>2
    <3> HIDE DEF j
    <3>2. s[i] = b[j]
      BY <1>1, <3>1
    <3> QED  BY <3>1, <3>2
  <2> QED  BY <2>1, <2>2
<1> QED  BY <1>1, <1>2 DEF s

\* Ordering the answers along the chain keeps what a response is good for.
LEMMA NormalizeKeeps ==
  ASSUME NEW p, IsPacket(p), NEW type, type # "CNAME"
  PROVE  Keeps(p, NormalizeChain(p, type))
<1>1. Keeps(p, p)
  BY KeepsAll
<1>2. CASE ~AnswersReadable(p) \/ OfType(Answers(p), "CNAME") = {}
  BY <1>1, <1>2 DEF NormalizeChain
<1>3. CASE AnswersReadable(p) /\ OfType(Answers(p), "CNAME") # {}
  <2> DEFINE rs == Answers(p)
             finals == Finals(p, Target(p), type)
             new == ChainRecords(rs) \o finals
  <2>1. NormalizeChain(p, type) = EndingIn(p, finals)
    BY <1>3 DEF NormalizeChain
  <2>2. AnswersRead(p) /\ IsSeq(rs) /\ DOMAIN rs = 1..Len(rs) /\ \A i \in DOMAIN rs : Rewritable(p, rs[i])
    BY <1>3, AnswersRewritable
  <2>3. IsSeq(finals) /\ \A i \in 1..Len(finals) : Rewritable(p, finals[i])
    <3> DEFINE name == Target(p)
               I == OwnedBy(p, rs, name, type)
               bs == Additional(p)
               J == OwnedBy(p, bs, name, type)
    <3>1. CASE I # {}
      <4>1. finals = Picked(rs, I)
        BY <3>1 DEF Finals
      <4>2. I \in SUBSET DOMAIN rs
        BY DEF OwnedBy, OfType
      <4> HIDE DEF finals, I, rs
      <4> QED  BY <2>2, <4>1, <4>2, PickedRewritable
    <3>2. CASE I = {} /\ Readable(p) /\ Owned(p, bs)
      <4>1. finals = Picked(bs, J)
        BY <3>2 DEF Finals
      <4>2. J \in SUBSET DOMAIN bs /\ \A i \in J : bs[i].type = type
        BY DEF OwnedBy, OfType
      <4>3. IsSeq(bs) /\ \A i \in 1..Len(bs) : IsRead(p.cells, bs[i])
        <5>1. AnswersFrom(p) # Nowhere
          BY <3>2 DEF Readable
        <5> QED  BY <5>1, AdditionalIs
      <4>4. \A i \in J : Rewritable(p, bs[i])
        <5>1. DOMAIN bs = 1..Len(bs)
          BY <4>3, SeqBasics
        <5>2. \A i \in DOMAIN bs : Owner(p, bs[i]) # Nil
          BY <3>2 DEF Owned
        <5> HIDE DEF J, bs
        <5> QED  BY <4>2, <4>3, <5>1, <5>2 DEF Rewritable
      <4> HIDE DEF finals, J, bs
      <4> QED  BY <4>1, <4>2, <4>3, <4>4, PickedRewritable
    <3>3. CASE I = {} /\ ~(Readable(p) /\ Owned(p, bs))
      <4>1. finals = <<>>
        BY <3>3 DEF Finals
      <4> HIDE DEF finals
      <4> QED  BY <4>1, EmptyIsSeq
    <3> QED  BY <3>1, <3>2, <3>3
  <2>4. IsSeq(ChainRecords(rs)) /\ \A i \in 1..Len(ChainRecords(rs)) : Rewritable(p, ChainRecords(rs)[i])
    <3> DEFINE a == Picked(rs, OfType(rs, "DNAME"))
               b == Picked(rs, OfType(rs, "CNAME"))
    <3>1. \A t : OfType(rs, t) \in SUBSET DOMAIN rs
      BY DEF OfType
    <3> HIDE DEF rs
    <3>2. /\ IsSeq(a) /\ \A i \in 1..Len(a) : Rewritable(p, a[i])
          /\ IsSeq(b) /\ \A i \in 1..Len(b) : Rewritable(p, b[i])
      BY <2>2, <3>1, PickedRewritable
    <3>3. ChainRecords(rs) = a \o b
      BY DEF ChainRecords
    <3> HIDE DEF a, b
    <3> QED  BY <3>2, <3>3, BothRewritable
  <2>5. IsSeq(new) /\ \A i \in 1..Len(new) : Rewritable(p, new[i])
    <3> HIDE DEF finals, rs
    <3> QED  BY <2>3, <2>4, BothRewritable
  <2>6. EndingIn(p, finals) = p \/ EndingIn(p, finals) = ReplaceAnswers(p, new)
    BY DEF EndingIn
  <2>7. Keeps(p, ReplaceAnswers(p, new))
    <3> HIDE DEF new
    <3> QED  BY <2>2, <2>5, ReplaceKeeps
  <2> HIDE DEF new, finals
  <2> QED  BY <1>1, <2>1, <2>6, <2>7
<1> QED  BY <1>2, <1>3
-----------------------------------------------------------------------------
(* The client's question *)

\* A packet with the client's question and records behind it.
LEMMA AnotherQuestion ==
  ASSUME NEW r, IsPacket(r), HasQuestion(r), NEW k, NEW g, NEW b, Has(b, 1, k, g),
         NEW q, IsHeader(q), q.qd = r.qd, q.cells = QuestionCells(r) \o b
  PROVE  /\ IsPacket(q) /\ HasQuestion(q) /\ AnswersFrom(q) = AnswersFrom(r) /\ AnswersFrom(q) # Nowhere
         /\ Has(q.cells, AnswersFrom(q), k, After(0, <<>>, k, g))
<1> DEFINE c == r.cells
           s == AnswersFrom(r)
           a == SubSeq(c, 1, s - 1)
<1>1. s # Nowhere /\ r.qd = 1 /\ s \in 1..(Len(c) + 1) /\ s \in Nat /\ IsCells(c) /\ Len(c) \in Nat
  BY QuestionSomewhere, SomehowLaid, PacketCells
<1>2. a = QuestionCells(r)
  BY DEF QuestionCells
<1> HIDE DEF c, s
<1>3. IsCells(a) /\ Len(a) = s - 1 /\ \A i \in 1..(s - 1) : a[i] = c[i]
  <2> DEFINE x == s - 1
  <2>1. 1 \in Nat /\ x \in Int /\ 1 <= 1 /\ 1 <= x + 1 /\ x <= Len(c) /\ x + 1 - 1 = x /\ x \in Nat
    BY <1>1
  <2> HIDE DEF x
  <2>2. IsCells(SubSeq(c, 1, x)) /\ Len(SubSeq(c, 1, x)) = x + 1 - 1
        /\ \A i \in 1..(x + 1 - 1) : SubSeq(c, 1, x)[i] = c[1 + i - 1]
    BY <1>1, <2>1, CutCells
  <2>3. \A i \in 1..x : 1 + i - 1 = i
    BY <2>1
  <2> QED  BY <2>1, <2>2, <2>3 DEF x
<1> HIDE DEF a
<1>4. Full(a, s, 0, <<>>)
  <2>1. Full(a, Len(a) + 1, 0, <<>>)
    BY <1>3, FullNothing
  <2>2. Len(a) + 1 = s
    BY <1>1, <1>3
  <2> QED  BY <2>1, <2>2
<1>5. /\ Has(a \o b, s, 0 + k, After(0, <<>>, k, g))
      /\ \A i \in 1..Len(a) : (a \o b)[i] = a[i]
      /\ Len(a \o b) = Len(a) + Len(b)
  BY <1>4, HasAfter
<1>6. q.cells = a \o b /\ k \in Nat /\ IsCells(b) /\ Len(b) \in Nat
  BY <1>2, CellsSeq DEF Has
<1>7. Has(q.cells, s, k, After(0, <<>>, k, g)) /\ IsCells(q.cells)
  <2>1. 0 + k = k
    BY <1>6
  <2> QED  BY <1>5, <1>6, <2>1 DEF Has
<1>8. IsPacket(q)
  BY <1>7, HeaderAndCells
<1>9. s - 1 <= Len(q.cells) /\ \A i \in 1..(s - 1) : q.cells[i].k = c[i].k
  BY <1>1, <1>3, <1>5, <1>6
<1>10. HasQuestion(q) /\ AnswersFrom(q) = s
  <2>1. /\ IsPacket(r) /\ IsPacket(q) /\ HasQuestion(r) /\ q.qd = 1 /\ AnswersFrom(r) - 1 <= Len(q.cells)
        /\ \A i \in 1..(AnswersFrom(r) - 1) : q.cells[i].k = r.cells[i].k
    BY <1>1, <1>8, <1>9 DEF c, s
  <2> QED  BY ONLY <2>1, QuestionKept DEF s
<1> QED  BY <1>1, <1>7, <1>8, <1>10 DEF s

\* Writing the client's question over the response's does, whatever its length.
LEMMA RewriteKeeps ==
  ASSUME NEW p, IsPacket(p), NEW request, IsPacket(request), HasQuestion(request)
  PROVE  Keeps(p, RewriteQuestion(p, request))
<1> DEFINE q == RewriteQuestion(p, request)
           b == SubSeq(p.cells, AnswersFrom(p), Len(p.cells))
           c == QuestionCells(request) \o b
<1>1. CASE AnswersFrom(p) = Nowhere \/ QuestionCells(p) = QuestionCells(request)
  BY <1>1, KeepsAll DEF RewriteQuestion
<1>2. CASE ~(AnswersFrom(p) = Nowhere \/ QuestionCells(p) = QuestionCells(request))
  <2> DEFINE n == Len(Records(p))
             g == From(Parts(p), 0, n)
             x == request.qd
  <2>1. AnswersFrom(p) # Nowhere /\ n \in Nat /\ IsCells(p.cells) /\ p.an \in Nat /\ p.ns \in Nat /\ p.ar \in Nat
        /\ x \in {0, 1} /\ Len(Records(p)) \in Nat
    BY <1>2, SomehowLaid, PacketCells
  <2>2. PICK m : Laid(p, m)
    BY <2>1, SomehowLaid
  <2>3. Has(b, 1, n, g)
    <3> DEFINE cells == p.cells
               h == Parts(p)
    <3>1. Holds(cells, m, n, h) /\ m[0] <= Len(cells) + 1 /\ 0 \in 0..n /\ m[0] = AnswersFrom(p) /\ IsCells(cells)
          /\ n \in Nat
      BY <2>1, <2>2, LaidHolds
    <3> HIDE DEF cells, h, n
    <3>2. Has(SubSeq(cells, m[0], Len(cells)), 1, n - 0, From(h, 0, n - 0))
      BY ONLY <3>1, CutBack
    <3>3. n - 0 = n
      BY <3>1
    <3> QED  BY <3>1, <3>2, <3>3 DEF cells, h
  <2>4. q = [p EXCEPT !.qd = x, !.cells = c]
    BY <1>2 DEF RewriteQuestion
  <2> HIDE DEF q, b, n, g, c, x
  <2>5. IsHeader(q) /\ q.qd = x /\ q.an = p.an /\ q.ns = p.ns /\ q.ar = p.ar /\ q.cells = c
    <3>1. q = Packet(p.flags, p.rcode, x, p.an, p.ns, p.ar, c)
      BY <2>4, QuestionEdit, Zenon
    <3> QED  BY <2>1, <3>1, PacketFields
  <2>6. /\ IsPacket(q) /\ HasQuestion(q) /\ AnswersFrom(q) # Nowhere
        /\ Has(q.cells, AnswersFrom(q), n, After(0, <<>>, n, g))
    <3>1. IsPacket(request) /\ HasQuestion(request) /\ Has(b, 1, n, g) /\ IsHeader(q) /\ q.qd = request.qd
          /\ q.cells = QuestionCells(request) \o b
      BY <2>3, <2>5 DEF x, c
    <3> QED  BY ONLY <3>1, AnotherQuestion
  <2>7. ASSUME Readable(p) PROVE Readable(q)
    <3>1. Total(q) = n
      BY <2>5, <2>7, AnswersWithRest DEF Total, n
    <3> DEFINE h == After(0, <<>>, n, g)
    <3>2. Has(q.cells, AnswersFrom(q), Total(q), h)
      BY <2>6, <3>1
    <3> HIDE DEF h
    <3> QED  BY <2>6, <3>2, HasReadable
  <2> QED  BY <2>6, <2>7 DEF Keeps, q
<1> QED  BY <1>1, <1>2

\* Writing the answers again behind it does.
LEMMA ReencodeKeeps ==
  ASSUME NEW p, IsPacket(p), NEW request, IsPacket(request), HasQuestion(request)
  PROVE  Keeps(p, Reencode(p, request))
<1> DEFINE q == Reencode(p, request)
           b == ReencodedAll(p, Answers(p))
           c == QuestionCells(request) \o b
<1>1. CASE ~AnswersReadable(p)
  BY <1>1, KeepsAll DEF Reencode
<1>2. CASE AnswersReadable(p)
  <2> DEFINE n == p.an
             x == request.qd
             rs == Answers(p)
  <2>1. n \in Nat /\ x \in {0, 1} /\ IsSeq(rs) /\ Len(rs) = n /\ \A i \in 1..Len(rs) : Rewritable(p, rs[i])
    BY <1>2, PacketCells, AnswersRewritable
  <2>2. PICK xs : /\ IsSeq(xs) /\ Len(xs) = n /\ \A i \in 1..Len(xs) : IsRaw(xs[i])
                  /\ b = FlattenSeq(xs)
    <3> HIDE DEF rs
    <3>1. \E xs : /\ IsSeq(xs) /\ Len(xs) = Len(rs) /\ \A i \in 1..Len(xs) : IsRaw(xs[i])
                  /\ ReencodedAll(p, rs) = FlattenSeq(xs)
      BY <2>1, ReencodedRaws
    <3> QED  BY <2>1, <3>1 DEF rs
  <2> DEFINE g == [i \in 1..n |-> FixedOf(xs[i])]
  <2>3. Has(b, 1, n, g)
    <3>1. Full(FlattenSeq(xs), 1, Len(xs), [i \in 1..Len(xs) |-> FixedOf(xs[i])])
      BY <2>2, FullFlat
    <3>2. b = FlattenSeq(xs)
      BY <2>2
    <3> HIDE DEF b
    <3> QED  BY <2>2, <3>1, <3>2, FullHas
  <2> DEFINE z == 0
  <2>4. q = [p EXCEPT !.qd = x, !.ns = z, !.ar = z, !.cells = c]
    BY <1>2 DEF Reencode
  <2> HIDE DEF q, b, g, c, x, z
  <2>5. IsHeader(q) /\ q.qd = x /\ q.an = p.an /\ q.ns = 0 /\ q.ar = 0 /\ q.cells = c
    <3>1. q = Packet(p.flags, p.rcode, x, p.an, z, z, c)
      <4>1. p = Packet(p.flags, p.rcode, p.qd, p.an, p.ns, p.ar, p.cells)
        BY DEF IsPacket, Packet
      <4> DEFINE q1 == [p EXCEPT !.qd = x]
      <4>2. q1 = Packet(p.flags, p.rcode, x, p.an, p.ns, p.ar, p.cells)
        BY <4>1 DEF Packet
      <4> HIDE DEF q1
      <4> DEFINE q2 == [q1 EXCEPT !.ns = z]
      <4>3. q2 = Packet(p.flags, p.rcode, x, p.an, z, p.ar, p.cells)
        BY <4>2 DEF Packet
      <4> HIDE DEF q2
      <4> DEFINE q3 == [q2 EXCEPT !.ar = z]
      <4>4. q3 = Packet(p.flags, p.rcode, x, p.an, z, z, p.cells)
        BY <4>3 DEF Packet
      <4> HIDE DEF q3
      <4> DEFINE q4 == [q3 EXCEPT !.cells = c]
      <4>5. q4 = Packet(p.flags, p.rcode, x, p.an, z, z, c)
        BY <4>4 DEF Packet
      <4> HIDE DEF q4
      <4>6. q = q4
        BY <2>4 DEF q1, q2, q3, q4
      <4> QED  BY ONLY <4>5, <4>6
    <3>2. p.an \in Nat /\ z \in Nat /\ z = 0
      BY <2>1 DEF z
    <3> QED  BY <2>1, <3>1, <3>2, PacketFields
  <2>6. Total(q) = n
    BY <2>1, <2>5 DEF Total
  <2> HIDE DEF n
  <2>7. /\ IsPacket(q) /\ HasQuestion(q) /\ AnswersFrom(q) # Nowhere
        /\ Has(q.cells, AnswersFrom(q), n, After(0, <<>>, n, g))
    <3>1. IsPacket(request) /\ HasQuestion(request) /\ Has(b, 1, n, g) /\ IsHeader(q) /\ q.qd = request.qd
          /\ q.cells = QuestionCells(request) \o b
      BY <2>3, <2>5 DEF x, c
    <3> QED  BY ONLY <3>1, AnotherQuestion
  <2>8. Readable(q)
    <3> DEFINE h == After(0, <<>>, n, g)
    <3>1. Has(q.cells, AnswersFrom(q), Total(q), h)
      BY <2>6, <2>7
    <3> HIDE DEF h
    <3> QED  BY <2>7, <3>1, HasReadable
  <2> QED  BY <2>7, <2>8 DEF Keeps, q
<1> QED  BY <1>1, <1>2

\* So does what is done for the client before EDNS is looked at.
LEMMA OrderedKeeps ==
  ASSUME NEW p, IsPacket(p), NEW request, IsPacket(request), HasQuestion(request)
  PROVE  Keeps(p, Ordered(p, request))
<1>1. Keeps(p, RewriteQuestion(p, request))
  BY RewriteKeeps
<1>2. ASSUME FirstType(request) \in Address
      PROVE  Keeps(p, Requestioned(NormalizeChain(p, FirstType(request)), request))
  <2> DEFINE n == NormalizeChain(p, FirstType(request))
  <2>1. FirstType(request) # "CNAME"
    BY <1>2 DEF Address
  <2>2. Keeps(p, n) /\ IsPacket(n)
    BY <2>1, NormalizeKeeps DEF Keeps
  <2> HIDE DEF n
  <2>3. Keeps(n, Reencode(n, request)) /\ Keeps(n, RewriteQuestion(n, request))
    BY <2>2, ReencodeKeeps, RewriteKeeps
  <2>4. Requestioned(n, request) \in {Reencode(n, request), RewriteQuestion(n, request)}
    BY DEF Requestioned
  <2>5. Keeps(n, Requestioned(n, request))
    BY <2>3, <2>4
  <2> QED  BY <2>2, <2>5, KeepsAll DEF n
<1> QED  BY <1>1, <1>2 DEF Ordered
-----------------------------------------------------------------------------
(* EDNS *)

\* The first OPT record is one.
LEMMA FirstOptIs ==
  ASSUME NEW rs, IsSeq(rs), OfType(rs, "OPT") # {}
  PROVE  \E i \in 1..Len(rs) : FirstOpt(rs) = rs[i] /\ rs[i].type = "OPT"
<1> DEFINE S == OfType(rs, "OPT")
<1>1. Len(rs) \in Nat /\ DOMAIN rs = 1..Len(rs)
  BY SeqBasics
<1>2. S \in SUBSET (1..Len(rs)) /\ \A i \in S : rs[i].type = "OPT"
  BY <1>1 DEF OfType
<1>3. FirstOpt(rs) = rs[Min(S)]
  BY DEF FirstOpt
<1> HIDE DEF S
<1>4. S \in SUBSET Nat /\ S # {}
  BY <1>1, <1>2 DEF S
<1>5. Min(S) \in S
  BY <1>4, LeastNatural
<1> QED  BY <1>2, <1>3, <1>5

\* The OPT record of a packet, and what it says.
LEMMA OptIs ==
  ASSUME NEW p, IsPacket(p), AnswersFrom(p) # Nowhere, HasOpt(p)
  PROVE  /\ \E i \in 1..Len(Additional(p)) :
              /\ Additional(p)[i].type = "OPT"
              /\ Opt(p).size = Additional(p)[i].class /\ Opt(p).do = Additional(p)[i].ttl % 2
              /\ Opt(p).version = (Additional(p)[i].ttl \div 2) % 2
         /\ Opt(p).xrcode \in Nat /\ Opt(p).do \in {0, 1} /\ IsCells(Opt(p).options)
         /\ IsRaw(RawOpt(p)) /\ FixedOf(RawOpt(p)).type = "OPT"
         /\ FixedOf(RawOpt(p)).class = Opt(p).size
         /\ FixedOf(RawOpt(p)).ttl % 2 = Opt(p).do
         /\ (FixedOf(RawOpt(p)).ttl \div 2) % 2 = Opt(p).version
<1> DEFINE rs == Additional(p)
<1>1. IsSeq(rs) /\ (\A i \in 1..Len(rs) : IsRead(p.cells, rs[i])) /\ IsCells(p.cells)
  BY AdditionalIs, PacketCells
<1>2. OfType(rs, "OPT") # {}
  BY DEF HasOpt
<1> HIDE DEF rs
<1>3. PICK i \in 1..Len(rs) : FirstOpt(rs) = rs[i] /\ rs[i].type = "OPT"
  BY <1>1, <1>2, FirstOptIs
<1> DEFINE r == rs[i]
           x == Raw(p, r)
<1>4. Opt(p) = OptFields(p, r) /\ RawOpt(p) = x
  BY <1>3 DEF Opt, RawOpt, rs
<1>5. IsRead(p.cells, r)
  BY <1>1
<1> HIDE DEF r
<1>6. /\ IsRaw(x) /\ FixedOf(x).type = r.type /\ FixedOf(x).class = r.class /\ FixedOf(x).ttl = r.ttl
      /\ r.ttl \in Nat /\ IsCells(RawData(p, r))
  BY <1>1, <1>5, ReadRecord DEF Raw, RawData
<1> HIDE DEF x
<1>7. /\ Opt(p).size = r.class /\ Opt(p).xrcode = r.ttl \div 4 /\ Opt(p).version = (r.ttl \div 2) % 2
      /\ Opt(p).do = r.ttl % 2 /\ Opt(p).options = RawData(p, r)
  BY <1>4 DEF OptFields
<1>8. r.ttl \div 4 \in Nat /\ r.ttl % 2 \in {0, 1}
  <2> DEFINE t == r.ttl
  <2>1. t \in Nat
    BY <1>6
  <2> HIDE DEF t
  <2>2. t \div 4 \in Nat /\ t % 2 \in {0, 1}
    BY <2>1
  <2> QED  BY <2>2 DEF t
<1>9. r.type = "OPT"
  BY <1>3 DEF r
<1>10. /\ \E j \in 1..Len(rs) :
            /\ rs[j].type = "OPT" /\ Opt(p).size = rs[j].class /\ Opt(p).do = rs[j].ttl % 2
            /\ Opt(p).version = (rs[j].ttl \div 2) % 2
  BY <1>7, <1>9 DEF r
<1> QED  BY <1>4, <1>6, <1>7, <1>8, <1>9, <1>10 DEF rs

\* Records taken out of a packet are records, and say what they said.
LEMMA RawsOf ==
  ASSUME NEW p, IsPacket(p), NEW rs, IsSeq(rs), \A i \in 1..Len(rs) : IsRead(p.cells, rs[i])
  PROVE  \E xs : /\ IsSeq(xs) /\ Len(xs) = Len(rs) /\ RawAll(p, rs) = FlattenSeq(xs)
                 /\ \A i \in 1..Len(xs) : IsRaw(xs[i]) /\ Says(rs[i], FixedOf(xs[i]))
<1> DEFINE xs == [i \in DOMAIN rs |-> Raw(p, rs[i])]
           k == Len(rs)
<1>1. k \in Nat /\ DOMAIN rs = 1..k /\ IsCells(p.cells)
  BY SeqBasics, PacketCells
<1>2. RawAll(p, rs) = FlattenSeq(xs)
  BY DEF RawAll
<1>3. xs = [i \in 1..k |-> xs[i]] /\ \A i \in 1..k : xs[i] = Raw(p, rs[i])
  BY <1>1
<1> HIDE DEF xs, k
<1>4. IsSeq(xs) /\ Len(xs) = k
  BY <1>1, <1>3, SeqMap
<1>5. ASSUME NEW i \in 1..k PROVE IsRaw(xs[i]) /\ Says(rs[i], FixedOf(xs[i]))
  <2>1. IsRead(p.cells, rs[i]) /\ xs[i] = Raw(p, rs[i])
    BY <1>3 DEF k
  <2> QED  BY <1>1, <2>1, ReadRecord DEF Raw, Says
<1> QED  BY <1>2, <1>4, <1>5 DEF k

\* All OPT records of the additional section are taken away, nothing else.
LEMMA WithoutOptIs ==
  ASSUME NEW p, IsPacket(p), Readable(p)
  PROVE  /\ IsPacket(WithoutOpt(p))
         /\ HasQuestion(p) => HasQuestion(WithoutOpt(p))
         /\ AnswersFrom(WithoutOpt(p)) # Nowhere
         /\ WithoutOpt(p).an = p.an /\ WithoutOpt(p).ns = p.ns
         /\ \E g : /\ Full(WithoutOpt(p).cells, AnswersFrom(WithoutOpt(p)), Total(WithoutOpt(p)), g)
                   /\ \A i \in 1..WithoutOpt(p).ar : g[p.an + p.ns + i].type # "OPT"
<1> DEFINE q == WithoutOpt(p)
           bs == Additional(p)
           I == DOMAIN bs \ OfType(bs, "OPT")
           kept == Picked(bs, I)
           c == p.cells
           n == Len(Records(p))
           a == p.an + p.ns
           s == AnswersFrom(p)
           h == Parts(p)
<1>1. /\ AnswersFrom(p) # Nowhere /\ a \in 0..n
      /\ \A m : Laid(p, m) => EndOf(SubSeq(Records(p), 1, a), s) = m[a]
  BY AnswersWithRest
<1>2. p.an \in Nat /\ p.ns \in Nat /\ p.ar \in Nat /\ IsCells(c) /\ p.qd \in {0, 1} /\ Len(c) \in Nat
  BY PacketCells
<1>3. IsSeq(bs) /\ (\A i \in 1..Len(bs) : IsRead(c, bs[i])) /\ DOMAIN bs = 1..Len(bs)
  BY <1>1, AdditionalIs, SeqBasics
<1>4. PICK m : Laid(p, m)
  BY <1>1, SomehowLaid
<1>5. EndOf(SubSeq(Records(p), 1, a), s) = m[a]
  BY <1>1, <1>4
<1>6. IsSeq(kept) /\ \A i \in 1..Len(kept) : IsRead(c, kept[i]) /\ kept[i].type # "OPT"
  <2>1. I \in SUBSET DOMAIN bs /\ \A i \in I : bs[i].type # "OPT"
    BY DEF OfType
  <2> HIDE DEF I, bs
  <2>2. IsSeq(kept) /\ \A i \in 1..Len(kept) : kept[i] \in {bs[j] : j \in I}
    BY <1>3, <2>1, PickedOut
  <2> HIDE DEF kept
  <2> QED  BY <1>3, <2>1, <2>2
<1> HIDE DEF bs, I, kept
<1>7. PICK xs : /\ IsSeq(xs) /\ Len(xs) = Len(kept) /\ RawAll(p, kept) = FlattenSeq(xs)
                /\ \A i \in 1..Len(xs) : IsRaw(xs[i]) /\ Says(kept[i], FixedOf(xs[i]))
  BY <1>6, RawsOf
<1> DEFINE k == Len(xs)
           f == [i \in 1..k |-> FixedOf(xs[i])]
           pre == SubSeq(c, 1, m[a] - 1)
           new == FlattenSeq(xs)
           b == pre \o new
<1>8. Full(new, 1, k, f) /\ k \in Nat /\ IsCells(new)
  <2>1. Full(new, 1, k, f) /\ k \in Nat
    BY <1>7, FullFlat, SeqBasics
  <2> QED  BY <2>1 DEF Full
<1>9. /\ Full(pre, s, a, h) /\ Len(pre) = m[a] - 1 /\ m[a] \in s..(Len(c) + 1) /\ s \in Nat \ {0}
      /\ \A i \in 1..(m[a] - 1) : pre[i] = c[i]
  <2>0. Holds(c, m, n, h) /\ m[0] = s /\ m[0] <= Len(c) + 1 /\ n \in Nat
    BY <1>1, <1>4, LaidHolds, SomehowLaid
  <2> HIDE DEF c, n, h, s, a
  <2>1. PICK d, l, t, u : d = c /\ l = n /\ t = a /\ u = h
    OBVIOUS
  <2>2. t \in 0..l /\ IsCells(d) /\ l \in Nat /\ Holds(d, m, l, u) /\ m[0] <= Len(d) + 1
    BY <1>1, <1>2, <2>0, <2>1
  <2>3. /\ Full(SubSeq(d, 1, m[t] - 1), m[0], t, u)
        /\ m[t] \in m[0]..(Len(d) + 1) /\ m[0] \in Nat \ {0}
        /\ Len(SubSeq(d, 1, m[t] - 1)) = m[t] - 1
        /\ \A i \in 1..(m[t] - 1) : SubSeq(d, 1, m[t] - 1)[i] = d[i]
    BY ONLY <2>2, CutFront
  <2>4. /\ Full(SubSeq(c, 1, m[a] - 1), m[0], a, h)
        /\ m[a] \in m[0]..(Len(c) + 1) /\ m[0] \in Nat \ {0}
        /\ Len(SubSeq(c, 1, m[a] - 1)) = m[a] - 1
        /\ \A i \in 1..(m[a] - 1) : SubSeq(c, 1, m[a] - 1)[i] = c[i]
    BY <2>1, <2>3
  <2> QED  BY <2>0, <2>4
<1> DEFINE x == Len(kept)
<1>10. q = [p EXCEPT !.ar = x, !.cells = b]
  BY <1>5, <1>7 DEF WithoutOpt, Stripped, bs, I, kept
<1>11. x \in Nat /\ x = k
  BY <1>7, <1>8
<1> HIDE DEF q, b, x
<1>12. IsHeader(q) /\ q.qd = p.qd /\ q.an = p.an /\ q.ns = p.ns /\ q.ar = x /\ q.cells = b
  <2>1. q = Packet(p.flags, p.rcode, p.qd, p.an, p.ns, x, b)
    BY <1>10, AdditionalEdit, Zenon
  <2> QED  BY <1>2, <1>11, <2>1, PacketFields
<1> DEFINE g == After(a, h, k, f)
<1> HIDE DEF pre, new, k, f, h, s
<1>13. /\ Full(b, s, a + k, g)
       /\ \A i \in 1..Len(pre) : b[i] = pre[i]
       /\ Len(b) = Len(pre) + Len(new)
  <2> HIDE DEF a, g
  <2>1. Full(pre, s, a, h) /\ Has(new, 1, k, f) /\ Full(new, 1, k, f)
    BY <1>8, <1>9, FullHas
  <2>2. /\ Full(pre \o new, s, a + k, After(a, h, k, f))
        /\ \A i \in 1..Len(pre) : (pre \o new)[i] = pre[i]
        /\ Len(pre \o new) = Len(pre) + Len(new)
    BY ONLY <2>1, HasAfter
  <2> QED  BY <2>2 DEF b, g
<1>14. IsPacket(q)
  BY <1>12, <1>13, HeaderAndCells DEF Full
<1>15. AnswersFrom(q) = s /\ (HasQuestion(p) => HasQuestion(q))
  <2> DEFINE y == m[a]
             u == Len(c)
  <2>1. y \in s..(u + 1) /\ u \in Nat /\ s \in Nat \ {0} /\ Len(pre) = y - 1 /\ Len(b) = Len(pre) + Len(new) /\ Len(new) \in Nat
    BY <1>2, <1>8, <1>9, <1>13, CellsSeq
  <2> HIDE DEF y, u
  <2>2. s - 1 <= Len(b) /\ \A i \in 1..(s - 1) : i \in 1..Len(pre) /\ i \in 1..(y - 1)
    BY ONLY <2>1
  <2>3. \A i \in 1..(s - 1) : b[i] = c[i]
    BY <1>9, <1>13, <2>2 DEF y
  <2>4. /\ IsPacket(p) /\ IsPacket(q) /\ q.qd = p.qd /\ AnswersFrom(p) # Nowhere
        /\ AnswersFrom(p) - 1 <= Len(q.cells)
        /\ \A i \in 1..(AnswersFrom(p) - 1) : q.cells[i].k = p.cells[i].k
    BY <1>1, <1>12, <1>14, <2>2, <2>3 DEF s
  <2> QED  BY ONLY <2>4, QuestionStays DEF s
<1>16. Full(q.cells, AnswersFrom(q), Total(q), g)
  <2>1. Total(q) = a + k
    BY <1>11, <1>12 DEF Total
  <2> QED  BY <1>12, <1>13, <1>15, <2>1
<1>17. \A i \in 1..q.ar : g[a + i].type # "OPT"
  <2> SUFFICES ASSUME NEW i \in 1..k PROVE g[a + i].type # "OPT"
    BY <1>11, <1>12
  <2>1. a \in Nat
    BY <1>2
  <2> HIDE DEF a
  <2>2. a + i \in 1..(a + k) /\ ~(a + i <= a) /\ (a + i) - a = i
    BY <1>8, <2>1
  <2>3. g[a + i] = f[i]
    BY <2>2 DEF After
  <2>4. f[i] = FixedOf(xs[i]) /\ i \in 1..Len(xs) /\ i \in 1..Len(kept)
    BY <1>7 DEF f, k
  <2>5. Says(kept[i], FixedOf(xs[i])) /\ kept[i].type # "OPT"
    BY <1>6, <1>7, <2>4
  <2> QED  BY <2>3, <2>4, <2>5 DEF Says
<1> HIDE DEF g
<1> QED  BY <1>1, <1>12, <1>14, <1>15, <1>16, <1>17 DEF q, s

\* A record at the end of a packet that ends with its records.
LEMMA AppendOptIs ==
  ASSUME NEW p, IsPacket(p), AnswersFrom(p) # Nowhere, NEW g, Full(p.cells, AnswersFrom(p), Total(p), g),
         NEW x, IsRaw(x)
  PROVE  /\ IsPacket(AppendOpt(p, x))
         /\ HasQuestion(p) => HasQuestion(AppendOpt(p, x))
         /\ AnswersFrom(AppendOpt(p, x)) # Nowhere
         /\ AppendOpt(p, x).an = p.an /\ AppendOpt(p, x).ns = p.ns /\ AppendOpt(p, x).ar = p.ar + 1
         /\ AppendOpt(p, x).flags = p.flags
         /\ Full(AppendOpt(p, x).cells, AnswersFrom(AppendOpt(p, x)), Total(AppendOpt(p, x)),
                 After(Total(p), g, 1, [i \in 1..1 |-> FixedOf(x)]))
<1> DEFINE q == AppendOpt(p, x)
           c == p.cells
           s == AnswersFrom(p)
           n == Total(p)
           b == c \o x
           f == [i \in 1..1 |-> FixedOf(x)]
           y == p.ar + 1
<1>1. p.an \in Nat /\ p.ns \in Nat /\ p.ar \in Nat /\ IsCells(c) /\ p.qd \in {0, 1} /\ Len(c) \in Nat
      /\ s \in 1..(Len(c) + 1) /\ y \in Nat
  BY PacketCells, SomehowLaid
<1>2. q = [p EXCEPT !.ar = y, !.cells = b]
  BY DEF AppendOpt
<1>3. Full(x, 1, 1, f) /\ IsCells(x) /\ Len(x) \in Nat
  BY FullOne, CellsSeq DEF IsRaw
<1> HIDE DEF q, b, f
<1>4. IsHeader(q) /\ q.qd = p.qd /\ q.an = p.an /\ q.ns = p.ns /\ q.ar = y /\ q.cells = b /\ q.flags = p.flags
  <2> HIDE DEF y
  <2>1. q = Packet(p.flags, p.rcode, p.qd, p.an, p.ns, y, b)
    BY <1>2, AdditionalEdit, Zenon
  <2> QED  BY <1>1, <2>1, PacketFields
<1>5. /\ Full(b, s, n + 1, After(n, g, 1, f))
      /\ \A i \in 1..Len(c) : b[i] = c[i]
      /\ Len(b) = Len(c) + Len(x)
  <2>1. Full(c, s, n, g) /\ Has(x, 1, 1, f)
    BY <1>3, FullHas
  <2> HIDE DEF c, s, n
  <2> QED  BY <1>3, <2>1, HasAfter DEF b
<1>6. IsPacket(q)
  BY <1>4, <1>5, HeaderAndCells DEF Full
<1>7. AnswersFrom(q) = s /\ (HasQuestion(p) => HasQuestion(q))
  <2>1. AnswersFrom(p) - 1 <= Len(q.cells) /\ \A i \in 1..(AnswersFrom(p) - 1) : i \in 1..Len(c)
    BY <1>1, <1>3, <1>4, <1>5
  <2>2. /\ IsPacket(p) /\ IsPacket(q) /\ q.qd = p.qd /\ AnswersFrom(p) # Nowhere
        /\ AnswersFrom(p) - 1 <= Len(q.cells)
        /\ \A i \in 1..(AnswersFrom(p) - 1) : q.cells[i].k = p.cells[i].k
    BY <1>4, <1>5, <1>6, <2>1
  <2> QED  BY ONLY <2>2, QuestionStays
<1>8. Full(q.cells, AnswersFrom(q), Total(q), After(n, g, 1, f))
  <2>1. Total(q) = n + 1
    BY <1>1, <1>4 DEF Total
  <2> QED  BY <1>4, <1>5, <1>7, <2>1
<1> QED  BY <1>4, <1>6, <1>7, <1>8 DEF q, f
-----------------------------------------------------------------------------
(* The OPT record of a response *)

\* A record that is an OPT record says what the request's says, in version 0.
LikeRequest(part, request) ==
  part.type = "OPT" =>
    /\ HasOpt(request) /\ part.class = Opt(request).size
    /\ part.ttl % 2 = Opt(request).do /\ (part.ttl \div 2) % 2 = 0

\* The additional section has OPT records like the request's, and has one if the request has.
Mirrored(p, request) ==
  /\ \A i \in 1..Len(Additional(p)) : LikeRequest(Additional(p)[i], request)
  /\ HasOpt(request) => \E i \in 1..Len(Additional(p)) : Additional(p)[i].type = "OPT"

\* Packets with the same counts and cells read alike.
LEMMA SameBody ==
  ASSUME NEW p, NEW q, q.qd = p.qd, q.an = p.an, q.ns = p.ns, q.ar = p.ar, q.cells = p.cells
  PROVE  /\ AnswersFrom(q) = AnswersFrom(p) /\ Records(q) = Records(p) /\ Additional(q) = Additional(p)
         /\ (Readable(q) <=> Readable(p)) /\ (HasQuestion(q) <=> HasQuestion(p))
<1>1. AnswersFrom(q) = AnswersFrom(p)
  BY DEF AnswersFrom
<1>2. Records(q) = Records(p)
  BY <1>1 DEF Records
<1>3. Additional(q) = Additional(p)
  BY <1>2 DEF Additional
<1> QED  BY <1>1, <1>2, <1>3 DEF Readable, HasQuestion

\* A packet has an OPT record if one of its additional records is one.
LEMMA HasOptIs ==
  ASSUME NEW p, IsPacket(p), AnswersFrom(p) # Nowhere
  PROVE  HasOpt(p) <=> \E i \in 1..Len(Additional(p)) : Additional(p)[i].type = "OPT"
<1>1. DOMAIN Additional(p) = 1..Len(Additional(p))
  BY AdditionalIs, SeqBasics
<1> QED  BY <1>1 DEF HasOpt, OfType

\* A record is like the request's if its fixed part is.
LEMMA LikeThePart ==
  ASSUME NEW r, NEW part, Says(r, part), NEW request
  PROVE  /\ LikeRequest(r, request) <=> LikeRequest(part, request)
         /\ r.type = part.type
BY DEF Says, LikeRequest

\* What is laid out in a packet tells whether its OPT record is like the request's.
LEMMA LaidMirrored ==
  ASSUME NEW q, IsPacket(q), AnswersFrom(q) # Nowhere, NEW g,
         Has(q.cells, AnswersFrom(q), Total(q), g), NEW request,
         \A i \in 1..q.ar : LikeRequest(g[q.an + q.ns + i], request),
         HasOpt(request) => \E i \in 1..q.ar : g[q.an + q.ns + i].type = "OPT"
  PROVE  Readable(q) /\ Mirrored(q, request)
<1> DEFINE a == q.an + q.ns
           k == q.ar
           rs == Additional(q)
<1>1. Readable(q) /\ \A i \in 1..Total(q) : Says(Records(q)[i], g[i])
  BY HasReadable
<1>2. a \in Nat /\ k \in Nat /\ Total(q) = a + k
  BY PacketCells DEF Total
<1>3. Len(rs) = k /\ \A i \in 1..k : rs[i] = Records(q)[a + i]
  BY <1>1, AdditionalIs
<1> HIDE DEF a, k, rs
<1>4. ASSUME NEW i \in 1..k PROVE Says(rs[i], g[a + i])
  <2>1. a + i \in 1..Total(q)
    BY <1>2
  <2> QED  BY <1>1, <1>3, <2>1
<1>5. ASSUME NEW i \in 1..k PROVE LikeRequest(rs[i], request)
  <2>1. LikeRequest(g[a + i], request)
    BY DEF a, k
  <2> QED  BY <1>4, <2>1, LikeThePart
<1>6. ASSUME HasOpt(request) PROVE \E i \in 1..k : rs[i].type = "OPT"
  <2>1. PICK i \in 1..k : g[a + i].type = "OPT"
    BY <1>6 DEF a, k
  <2> QED  BY <1>4, <2>1, LikeThePart
<1> QED  BY <1>1, <1>3, <1>5, <1>6 DEF Mirrored, rs

\* An OPT record written with the request's size and flags.
LEMMA WrittenLikeRequest ==
  ASSUME NEW request, IsPacket(request), AnswersFrom(request) # Nowhere, HasOpt(request),
         NEW x \in Nat, NEW options, IsCells(options),
         NEW o, o = OptRecord(Opt(request).size, x, 0, Opt(request).do, options)
  PROVE  IsRaw(o) /\ FixedOf(o).type = "OPT" /\ LikeRequest(FixedOf(o), request)
<1> DEFINE size == Opt(request).size
           do == Opt(request).do
           ttl == Pack(x, 0, do)
<1>1. do \in {0, 1}
  BY OptIs
<1>2. o = OptRecord(size, x, 0, do, options)
  OBVIOUS
<1> HIDE DEF size, do
<1>3. IsRaw(o) /\ FixedOf(o) = Fixed("OPT", size, ttl, Len(options))
  BY <1>1, <1>2, OptRaw
<1>4. ttl \in Nat /\ ttl % 2 = do /\ (ttl \div 2) % 2 = 0
  BY <1>1, PackIs
<1> HIDE DEF ttl
<1>5. FixedOf(o).type = "OPT" /\ FixedOf(o).class = size /\ FixedOf(o).ttl = ttl
  BY <1>3 DEF Fixed
<1> QED  BY <1>3, <1>4, <1>5 DEF LikeRequest, size, do

\* The OPT record a response is given.
LEMMA AlignedRaw ==
  ASSUME NEW p, IsPacket(p), AnswersFrom(p) # Nowhere,
         NEW request, IsPacket(request), AnswersFrom(request) # Nowhere, HasOpt(request)
  PROVE  /\ IsRaw(AlignedOpt(p, Opt(request)))
         /\ FixedOf(AlignedOpt(p, Opt(request))).type = "OPT"
         /\ LikeRequest(FixedOf(AlignedOpt(p, Opt(request))), request)
<1>1. CASE HasOpt(p)
  <2>1. Opt(p).xrcode \in Nat /\ IsCells(Opt(p).options)
    BY <1>1, OptIs
  <2>2. AlignedOpt(p, Opt(request)) = OptRecord(Opt(request).size, Opt(p).xrcode, 0, Opt(request).do, Opt(p).options)
    BY <1>1 DEF AlignedOpt
  <2> QED  BY <2>1, <2>2, WrittenLikeRequest
<1>2. CASE ~HasOpt(p)
  <2>1. IsCells(<<>>) /\ 0 \in Nat
    BY EmptyIsSeq DEF IsCells
  <2>2. AlignedOpt(p, Opt(request)) = OptRecord(Opt(request).size, 0, 0, Opt(request).do, <<>>)
    BY <1>2 DEF AlignedOpt
  <2> QED  BY <2>1, <2>2, WrittenLikeRequest
<1> QED  BY <1>1, <1>2

\* Aligning EDNS gives a response that can be read the request's OPT record.
LEMMA AlignIs ==
  ASSUME NEW p, IsPacket(p), NEW request, IsPacket(request), HasQuestion(request)
  PROVE  /\ Keeps(p, Align(p, request))
         /\ Readable(p) => Mirrored(Align(p, request), request)
<1>0. AnswersFrom(request) # Nowhere
  BY QuestionSomewhere
<1>1. CASE ~Readable(p)
  BY <1>1, KeepsAll DEF Align
<1>2. CASE Readable(p) /\ ~(HasOpt(request) \/ HasOpt(p))
  <2>1. Align(p, request) = p /\ AnswersFrom(p) # Nowhere
    BY <1>2, AnswersWithRest DEF Align
  <2>2. \A i \in 1..Len(Additional(p)) : Additional(p)[i].type # "OPT"
    BY <1>2, <2>1, HasOptIs
  <2> QED  BY <1>2, <2>1, <2>2, KeepsAll DEF Mirrored, LikeRequest
<1>3. CASE Readable(p) /\ (HasOpt(request) \/ HasOpt(p))
  <2> DEFINE w == WithoutOpt(p)
  <2>1. /\ IsPacket(w) /\ AnswersFrom(w) # Nowhere
        /\ HasQuestion(p) => HasQuestion(w)
        /\ w.an = p.an /\ w.ns = p.ns
    BY <1>3, WithoutOptIs
  <2>2. PICK g : /\ Full(w.cells, AnswersFrom(w), Total(w), g)
                 /\ \A i \in 1..w.ar : g[p.an + p.ns + i].type # "OPT"
    BY <1>3, WithoutOptIs
  <2>3. Align(p, request) = IF ~HasOpt(request) THEN w ELSE AppendOpt(w, AlignedOpt(p, Opt(request)))
    BY <1>3 DEF Align
  <2>4. AnswersFrom(p) # Nowhere
    BY <1>3, AnswersWithRest
  <2> HIDE DEF w
  <2>5. \A i \in 1..w.ar : LikeRequest(g[w.an + w.ns + i], request)
    BY <2>1, <2>2 DEF LikeRequest
  <2>6. CASE ~HasOpt(request)
    <3>1. Has(w.cells, AnswersFrom(w), Total(w), g)
      BY <2>2, FullHas
    <3>2. Readable(w) /\ Mirrored(w, request)
      BY <2>1, <2>5, <2>6, <3>1, LaidMirrored
    <3> QED  BY <2>1, <2>3, <2>6, <3>2 DEF Keeps
  <2>7. CASE HasOpt(request)
    <3> DEFINE x == AlignedOpt(p, Opt(request))
               q == AppendOpt(w, x)
               f == [i \in 1..1 |-> FixedOf(x)]
               h == After(Total(w), g, 1, f)
    <3>1. IsRaw(x) /\ FixedOf(x).type = "OPT" /\ LikeRequest(FixedOf(x), request)
      BY <1>0, <2>4, <2>7, AlignedRaw
    <3> HIDE DEF x
    <3>2. /\ IsPacket(q) /\ AnswersFrom(q) # Nowhere
          /\ HasQuestion(w) => HasQuestion(q)
          /\ q.an = w.an /\ q.ns = w.ns /\ q.ar = w.ar + 1
          /\ Full(q.cells, AnswersFrom(q), Total(q), h)
      <4>1. IsPacket(w) /\ AnswersFrom(w) # Nowhere /\ IsRaw(x) /\ Full(w.cells, AnswersFrom(w), Total(w), g)
        BY <2>1, <2>2, <3>1
      <4>2. /\ IsPacket(AppendOpt(w, x)) /\ AnswersFrom(AppendOpt(w, x)) # Nowhere
            /\ HasQuestion(w) => HasQuestion(AppendOpt(w, x))
            /\ AppendOpt(w, x).an = w.an /\ AppendOpt(w, x).ns = w.ns /\ AppendOpt(w, x).ar = w.ar + 1
            /\ Full(AppendOpt(w, x).cells, AnswersFrom(AppendOpt(w, x)), Total(AppendOpt(w, x)),
                    After(Total(w), g, 1, [i \in 1..1 |-> FixedOf(x)]))
        BY ONLY <4>1, AppendOptIs
      <4> QED  BY <4>2
    <3>3. w.an \in Nat /\ w.ns \in Nat /\ w.ar \in Nat
      BY <2>1, PacketCells
    <3> HIDE DEF q
    <3> DEFINE a == w.an + w.ns
               k == w.ar
    <3>4. a \in Nat /\ k \in Nat /\ Total(w) = a + k /\ q.ar = k + 1 /\ q.an + q.ns = a
      BY <3>2, <3>3 DEF Total
    <3>5. \A i \in 1..k : LikeRequest(g[a + i], request)
      BY <2>5
    <3> HIDE DEF a, k
    <3>6. ASSUME NEW i \in 1..k PROVE h[a + i] = g[a + i]
      <4>1. a + i \in 1..(a + k + 1) /\ a + i <= a + k
        BY <3>4
      <4> QED  BY <3>4, <4>1 DEF After
    <3>7. h[a + (k + 1)] = FixedOf(x)
      <4>1. a + (k + 1) \in 1..(a + k + 1) /\ ~(a + (k + 1) <= a + k) /\ a + (k + 1) - (a + k) = 1
        BY <3>4
      <4> QED  BY <3>4, <4>1 DEF After
    <3> HIDE DEF h
    <3>8. \A i \in 1..q.ar : LikeRequest(h[q.an + q.ns + i], request)
      <4>1. ASSUME NEW i \in 1..(k + 1) PROVE LikeRequest(h[a + i], request)
        <5>1. i \in 1..k \/ i = k + 1
          BY <3>4
        <5> QED  BY <3>1, <3>5, <3>6, <3>7, <5>1
      <4> QED  BY <3>4, <4>1
    <3>9. \E i \in 1..q.ar : h[q.an + q.ns + i].type = "OPT"
      <4>1. k + 1 \in 1..q.ar
        BY <3>4
      <4> QED  BY <3>1, <3>4, <3>7, <4>1
    <3>10. Has(q.cells, AnswersFrom(q), Total(q), h)
      BY <3>2, FullHas
    <3>11. Readable(q) /\ Mirrored(q, request)
      BY <3>2, <3>8, <3>9, <3>10, LaidMirrored
    <3>12. Align(p, request) = q
      BY <2>3, <2>7 DEF q, x
    <3> QED  BY <2>1, <3>2, <3>11, <3>12 DEF Keeps
  <2> QED  BY <2>6, <2>7
<1> QED  BY <1>1, <1>2, <1>3

\* The flags change nothing of it.
LEMMA ForClientKeeps ==
  ASSUME NEW p, IsPacket(p), NEW request
  PROVE  /\ Keeps(p, ForClient(p, request))
         /\ Mirrored(p, request) => Mirrored(ForClient(p, request), request)
<1> DEFINE q == ForClient(p, request)
           fl == (p.flags \ {"rd", "aa"}) \cup {"qr", "ra"} \cup (request.flags \cap {"rd"})
<1>1. q = [p EXCEPT !.flags = fl]
  BY DEF ForClient
<1> HIDE DEF q, fl
<1>2. /\ IsHeader(q) /\ q.qd = p.qd /\ q.an = p.an /\ q.ns = p.ns /\ q.ar = p.ar /\ q.cells = p.cells
  <2>1. q = Packet(fl, p.rcode, p.qd, p.an, p.ns, p.ar, p.cells)
    BY <1>1, FlagsEdit, Zenon
  <2> QED  BY <2>1, PacketFields, PacketCells
<1>3. IsPacket(q)
  BY <1>2, HeaderAndCells, PacketCells
<1>4. /\ Additional(q) = Additional(p)
      /\ (Readable(q) <=> Readable(p)) /\ (HasQuestion(q) <=> HasQuestion(p))
  BY <1>2, SameBody
<1> QED  BY <1>3, <1>4 DEF Keeps, Mirrored, q

\* A finalized response is as readable as it was, and has the request's OPT record.
LEMMA FinalizeIs ==
  ASSUME NEW p, IsPacket(p), NEW request, IsPacket(request), HasQuestion(request)
  PROVE  /\ Keeps(p, Finalize(p, request))
         /\ Readable(p) => Mirrored(Finalize(p, request), request)
<1> DEFINE o == Ordered(p, request)
           a == Align(o, request)
<1>1. Keeps(p, o) /\ IsPacket(o)
  BY OrderedKeeps DEF Keeps
<1>2. Readable(p) => Readable(o)
  BY <1>1 DEF Keeps
<1> HIDE DEF o
<1>3. Keeps(o, a) /\ IsPacket(a) /\ (Readable(o) => Mirrored(a, request))
  BY <1>1, AlignIs DEF Keeps
<1> HIDE DEF a
<1>4. Keeps(a, ForClient(a, request)) /\ (Mirrored(a, request) => Mirrored(ForClient(a, request), request))
  BY <1>3, ForClientKeeps
<1>5. Finalize(p, request) = ForClient(a, request)
  BY DEF Finalize, o, a
<1> QED  BY <1>1, <1>2, <1>3, <1>4, <1>5, KeepsAll
-----------------------------------------------------------------------------
(* Addresses in another order *)

\* Every address has a rank.
LEMMA RankIs ==
  ASSUME NEW preferred, IsSeq(preferred), NEW ip, NEW i \in Nat
  PROVE  RankOf(preferred, ip, i) \in Nat
<1> DEFINE S == {n \in DOMAIN preferred : preferred[n] = ip}
<1>1. Len(preferred) \in Nat /\ S \in SUBSET Nat
  BY SeqBasics
<1>2. RankOf(preferred, ip, i) = IF S = {} THEN Len(preferred) + i ELSE Min(S)
  BY DEF RankOf, FirstOf
<1> HIDE DEF S
<1>3. S # {} => Min(S) \in Nat
  BY <1>1, LeastNatural
<1> QED  BY <1>1, <1>2, <1>3

\* Records in another order are the same records.
LEMMA SortedIs ==
  ASSUME NEW rs, IsSeq(rs), NEW slots \in SUBSET (1..Len(rs)), NEW rank, \A i \in slots : rank[i] \in Nat
  PROVE  /\ IsSeq(Sorted(rs, slots, rank)) /\ Len(Sorted(rs, slots, rank)) = Len(rs)
         /\ \A i \in 1..Len(rs) : \E j \in 1..Len(rs) : Sorted(rs, slots, rank)[i] = rs[j]
<1> DEFINE s == Sorted(rs, slots, rank)
           n == Len(rs)
<1>1. n \in Nat /\ DOMAIN rs = 1..n
  BY SeqBasics
<1>2. s = [i \in 1..n |-> s[i]]
      /\ \A i \in 1..n : s[i] = IF i \in slots THEN rs[ComesTo(slots, rank, i)] ELSE rs[i]
  BY <1>1 DEF Sorted
<1>3. slots \in SUBSET Nat /\ IsFiniteSet(slots)
  <2> HIDE DEF n
  <2>1. slots \in SUBSET (1..n) /\ IsFiniteSet(1..n)
    BY <1>1, FS_Interval DEF n
  <2>2. IsFiniteSet(slots)
    BY ONLY <2>1, FS_Subset
  <2> QED  BY <1>1, <2>1, <2>2
<1>4. \A i \in slots : ComesTo(slots, rank, i) \in slots
  BY <1>3, ComesToIsIn
<1> HIDE DEF s, n
<1>5. IsSeq(s) /\ Len(s) = n
  BY <1>1, <1>2, SeqMap
<1>6. ASSUME NEW i \in 1..n PROVE \E j \in 1..n : s[i] = rs[j]
  <2>1. CASE i \in slots
    <3>1. ComesTo(slots, rank, i) \in 1..n /\ s[i] = rs[ComesTo(slots, rank, i)]
      BY <1>2, <1>4, <2>1 DEF n
    <3> QED  BY <3>1
  <2>2. CASE i \notin slots
    BY <1>2, <2>2
  <2> QED  BY <2>1, <2>2
<1> QED  BY <1>5, <1>6 DEF s, n

\* With the first records replaced by as many, those behind keep their places.
LEMMA PartsBehind ==
  ASSUME NEW p, NEW n \in Nat, n <= Len(Records(p)), Len(Records(p)) \in Nat, NEW xs, Len(xs) = n
  PROVE  \A j \in 1..(Len(Records(p)) - n) : PartsWith(p, 0, xs, n)[0 + Len(xs) + j] = Parts(p)[n + j]
<1> DEFINE k == Len(xs)
           z == Len(Records(p)) - n
           h == [i \in 1..k |-> FixedOf(xs[i])]
           g == Parts(p)
           w == From(g, n, z)
           f == After(0, g, k, h)
           v == After(0 + k, f, z, w)
<1>1. k \in Nat /\ z \in Nat /\ PartsWith(p, 0, xs, n) = v
  BY DEF PartsWith
<1>2. \A i \in 1..z : w[i] = g[n + i]
  BY DEF From
<1> HIDE DEF k, z, f, w, g
<1>3. v = [i \in 1..(0 + k + z) |-> IF i <= 0 + k THEN f[i] ELSE w[i - (0 + k)]]
  BY DEF After
<1> HIDE DEF v
<1>4. \A i \in 1..z : v[0 + k + i] = w[i]
  <2> SUFFICES ASSUME NEW i \in 1..z PROVE v[0 + k + i] = w[i]
    OBVIOUS
  <2>1. 0 + k + i \in 1..(0 + k + z) /\ ~(0 + k + i <= 0 + k) /\ (0 + k + i) - (0 + k) = i
    BY <1>1
  <2> QED  BY <1>3, <2>1
<1> QED  BY <1>1, <1>2, <1>4 DEF k, z, g

\* Addresses in another order leave the rest as it is.
LEMMA ReorderIs ==
  ASSUME NEW p, IsPacket(p), NEW preferred, AnswersRead(p) => IsSeq(preferred), NEW request
  PROVE  /\ Keeps(p, Reorder(p, preferred))
         /\ Readable(p) /\ Mirrored(p, request) => Mirrored(Reorder(p, preferred), request)
<1> DEFINE q == Reorder(p, preferred)
           rs == Answers(p)
           slots == AddressSlots(rs)
           rank == Ranks(p, rs, slots, preferred)
           new == Sorted(rs, slots, rank)
           n == p.an
           c == p.cells
<1>1. CASE ~AnswersRead(p) \/ Cardinality(slots) <= 1
  BY <1>1, KeepsAll DEF Reorder
<1>2. CASE AnswersRead(p) /\ ~(Cardinality(slots) <= 1)
  <2>1. n \in Nat /\ p.ns \in Nat /\ p.ar \in Nat /\ IsCells(c) /\ p.qd \in {0, 1}
    BY PacketCells
  <2>2. /\ AnswersFrom(p) # Nowhere /\ n \in 0..Len(Records(p)) /\ IsSeq(rs) /\ Len(rs) = n
        /\ \A i \in 1..n : IsRead(c, rs[i])
        /\ \A m : Laid(p, m) => AnswersEnd(p) = m[n]
    BY <1>2, AnswersAre
  <2>3. PICK m : Laid(p, m)
    BY <2>2, SomehowLaid
  <2>4. m[0] = AnswersFrom(p) /\ AnswersEnd(p) = m[n]
    BY <2>2, <2>3 DEF Laid
  <2>5. slots \in SUBSET (1..Len(rs))
    BY <2>2, SeqBasics DEF AddressSlots
  <2>6. \A i \in slots : rank[i] \in Nat
    <3>1. \A i \in slots : rank[i] = RankOf(preferred, RawData(p, rs[i])[1].v, i) /\ i \in Nat
      BY <2>1, <2>2, <2>5 DEF Ranks
    <3> HIDE DEF rank
    <3> QED  BY <1>2, <3>1, RankIs
  <2> HIDE DEF rs, slots, rank
  <2>7. /\ IsSeq(new) /\ Len(new) = n
        /\ \A i \in 1..n : \E j \in 1..n : new[i] = rs[j]
    BY <2>2, <2>5, <2>6, SortedIs
  <2> HIDE DEF new
  <2>8. \A i \in 1..Len(new) : IsRead(c, new[i])
    BY <2>2, <2>7
  <2>9. PICK xs : /\ IsSeq(xs) /\ Len(xs) = n /\ RawAll(p, new) = FlattenSeq(xs)
                  /\ \A i \in 1..Len(xs) : IsRaw(xs[i])
    <3>1. IsPacket(p) /\ IsSeq(new) /\ \A i \in 1..Len(new) : IsRead(p.cells, new[i])
      BY <2>7, <2>8
    <3>2. \E xs : /\ IsSeq(xs) /\ Len(xs) = Len(new) /\ RawAll(p, new) = FlattenSeq(xs)
                  /\ \A i \in 1..Len(xs) : IsRaw(xs[i]) /\ Says(new[i], FixedOf(xs[i]))
      BY ONLY <3>1, RawsOf
    <3> QED  BY <2>7, <3>2
  <2> DEFINE b == Replaced(p, m, 0, xs, n)
  <2>10. q = [p EXCEPT !.cells = b]
    BY <1>2, <2>4, <2>9 DEF Reorder, InOrder, Replaced, rs, slots, rank, new
  <2> HIDE DEF q, b
  <2>11. IsHeader(q) /\ q.qd = p.qd /\ q.an = p.an /\ q.ns = p.ns /\ q.ar = p.ar /\ q.cells = b
    <3>1. q = Packet(p.flags, p.rcode, p.qd, p.an, p.ns, p.ar, b)
      BY <2>10, CellsEdit, Zenon
    <3> QED  BY <2>1, <3>1, PacketFields
  <2>12. 0 \in 0..Len(Records(p)) /\ Len(Records(p)) \in Nat /\ Len(xs) \in Nat
    BY <2>1, <2>2, <2>9, SomehowLaid
  <2>13. /\ IsPacket(q) /\ AnswersFrom(q) # Nowhere
         /\ HasQuestion(p) => HasQuestion(q)
         /\ Has(q.cells, AnswersFrom(q), 0 + Len(xs) + (Len(Records(p)) - n), PartsWith(p, 0, xs, n))
    <3> HIDE DEF n
    <3>1. /\ IsPacket(p) /\ Laid(p, m) /\ 0 \in 0..Len(Records(p)) /\ n \in 0..Len(Records(p)) /\ 0 <= n /\ IsSeq(xs)
          /\ \A i \in 1..Len(xs) : IsRaw(xs[i])
          /\ IsHeader(q) /\ q.qd = p.qd /\ q.cells = Replaced(p, m, 0, xs, n)
      BY <2>1, <2>2, <2>3, <2>9, <2>11, <2>12 DEF b
    <3> QED  BY ONLY <3>1, Relaid
  <2>14. ASSUME Readable(p)
         PROVE  Readable(q) /\ (Mirrored(p, request) => Mirrored(q, request))
    <3> DEFINE g == PartsWith(p, 0, xs, n)
               k == p.ar
               a == p.an + p.ns
    <3>1. Len(Records(p)) = Total(p) /\ AnswersFrom(p) # Nowhere
      BY <2>14, AnswersWithRest
    <3>2. 0 + Len(xs) + (Len(Records(p)) - n) = Total(q)
      BY <2>1, <2>9, <2>11, <3>1 DEF Total
    <3>3. Has(q.cells, AnswersFrom(q), Total(q), g)
      BY <2>13, <3>2
    <3>4. k \in Nat /\ a \in Nat /\ Total(p) = a + k /\ q.ar = k /\ q.an + q.ns = a
      BY <2>1, <2>11 DEF Total
    <3>5. \A i \in 1..k : g[a + i] = Parts(p)[a + i]
      <4> SUFFICES ASSUME NEW i \in 1..k PROVE g[a + i] = Parts(p)[a + i]
        OBVIOUS
      <4> DEFINE j == p.ns + i
      <4>1. j \in 1..(Len(Records(p)) - n) /\ 0 + Len(xs) + j = a + i /\ n + j = a + i
        <5> DEFINE l == Len(Records(p))
        <5>1. l = n + p.ns + k /\ a = n + p.ns /\ Len(xs) = n /\ k \in Nat
          BY <2>1, <2>9, <3>1 DEF Total
        <5> HIDE DEF l, a, k
        <5>2. n \in Nat /\ p.ns \in Nat
          BY <2>1
        <5> HIDE DEF n
        <5> QED  BY <5>1, <5>2 DEF l
      <4> HIDE DEF j, a
      <4>2. 0 \in Nat /\ n \in Nat /\ n <= Len(Records(p))
        BY <2>1, <2>2
      <4> HIDE DEF n
      <4>3. g[0 + Len(xs) + j] = Parts(p)[n + j]
        <5>1. /\ 0 \in Nat /\ n \in Nat /\ n <= Len(Records(p)) /\ Len(Records(p)) \in Nat /\ Len(xs) \in Nat
              /\ j \in 1..(Len(Records(p)) - n)
          BY <2>12, <4>1, <4>2
        <5>2. Len(xs) = n
          BY <2>9
        <5> QED  BY <5>1, <5>2, PartsBehind
      <4> QED  BY <4>1, <4>3
    <3>6. \A i \in 1..k : Says(Additional(p)[i], Parts(p)[a + i])
      <4> SUFFICES ASSUME NEW i \in 1..k PROVE Says(Additional(p)[i], Parts(p)[a + i])
        OBVIOUS
      <4>1. a + i \in 1..Len(Records(p))
        BY <3>1, <3>4
      <4>2. Additional(p)[i] = Records(p)[a + i]
        BY <2>14, <3>1, AdditionalIs
      <4> QED  BY <3>1, <4>1, <4>2, RecordsRead
    <3>7. Len(Additional(p)) = k
      BY <2>14, <3>1, AdditionalIs
    <3>8. Readable(q)
      <4> HIDE DEF g
      <4> QED  BY <2>13, <3>3, HasReadable
    <3>9. ASSUME Mirrored(p, request) PROVE Mirrored(q, request)
      <4> HIDE DEF g, k, a
      <4>1. \A i \in 1..k : LikeRequest(g[a + i], request)
        <5> SUFFICES ASSUME NEW i \in 1..k PROVE LikeRequest(g[a + i], request)
          OBVIOUS
        <5>1. LikeRequest(Additional(p)[i], request)
          BY <3>7, <3>9 DEF Mirrored
        <5> QED  BY <3>5, <3>6, <5>1, LikeThePart
      <4>2. HasOpt(request) => \E i \in 1..k : g[a + i].type = "OPT"
        <5> SUFFICES ASSUME HasOpt(request) PROVE \E i \in 1..k : g[a + i].type = "OPT"
          OBVIOUS
        <5>1. PICK i \in 1..k : Additional(p)[i].type = "OPT"
          BY <3>7, <3>9 DEF Mirrored
        <5>2. g[a + i].type = "OPT"
          BY <3>5, <3>6, <5>1, LikeThePart
        <5> QED  BY <5>2
      <4>3. /\ IsPacket(q) /\ AnswersFrom(q) # Nowhere /\ Has(q.cells, AnswersFrom(q), Total(q), g)
            /\ \A i \in 1..q.ar : LikeRequest(g[q.an + q.ns + i], request)
            /\ HasOpt(request) => \E i \in 1..q.ar : g[q.an + q.ns + i].type = "OPT"
        BY <2>13, <3>3, <3>4, <4>1, <4>2
      <4> QED  BY ONLY <4>3, LaidMirrored
    <3> QED  BY <3>8, <3>9
  <2> QED  BY <2>13, <2>14 DEF Keeps, q
<1> QED  BY <1>1, <1>2

\* The order the health manager gives is one of the addresses it was asked about.
LEMMA RankingIsSeq ==
  ASSUME NEW p, IsPacket(p), AnswersRead(p)
  PROVE  IsSeq(ManagersRanking(p))
<1> DEFINE rs == Answers(p)
           I == AddressSlots(rs)
           picked == Picked(rs, I)
           ips == AnswerIps(p)
           r == ManagersRanking(p)
           n == Len(picked)
<1>1. IsSeq(rs)
  BY AnswersAre
<1>2. I \in SUBSET DOMAIN rs
  BY DEF AddressSlots
<1>3. ips = [i \in DOMAIN picked |-> RawData(p, picked[i])[1].v]
  BY DEF AnswerIps
<1> HIDE DEF rs, I
<1>4. IsSeq(picked)
  BY <1>1, <1>2, PickedOut
<1> HIDE DEF picked
<1>5. n \in Nat /\ DOMAIN picked = 1..n
  BY <1>4, SeqBasics
<1> HIDE DEF ips, n
<1>6. ips = [i \in 1..n |-> ips[i]]
  BY <1>3, <1>5
<1>7. IsSeq(ips) /\ Len(ips) = n /\ DOMAIN ips = 1..n
  BY <1>5, <1>6, SeqMap
<1>8. r = ips \/ r = [i \in 1..n |-> r[i]]
  <2>1. ASSUME NEW l, NEW scores, l.ips = ips, NEW x, x = Preferred(l, scores)
        PROVE  x = ips \/ x = [i \in 1..n |-> x[i]]
    <3> DEFINE before(j) == {i \in DOMAIN l.ips : scores[i] > scores[j] \/ (scores[i] = scores[j] /\ i < j)}
               e(m) == l.ips[CHOOSE j \in DOMAIN l.ips : Cardinality(before(j)) = m - 1]
    <3>1. DOMAIN l.ips = 1..n
      BY <1>7, <2>1
    <3>2. x = IF Len(l.ips) <= 1 THEN l.ips ELSE [m \in DOMAIN l.ips |-> e(m)]
      BY <2>1 DEF Preferred
    <3> HIDE DEF e
    <3>3. x = l.ips \/ x = [m \in 1..n |-> e(m)]
      BY <3>1, <3>2
    <3> QED  BY <2>1, <3>3
  <2> DEFINE l == [domain |-> WatchedName, ips |-> AnswerIps(p)]
             scores == [i \in DOMAIN l.ips |-> Score(Health(l.domain, l.ips[i]))]
  <2>2. l.ips = ips
    BY DEF ips
  <2>3. r = Preferred(l, scores)
    BY DEF ManagersRanking
  <2> HIDE DEF r, l, scores
  <2> QED  BY <2>1, <2>2, <2>3
<1> HIDE DEF r
<1> QED  BY <1>5, <1>7, <1>8, SeqMap DEF r
-----------------------------------------------------------------------------
(* A question alone, and an OPT record behind it *)

\* A packet of the question of r and nothing else.
Bare(q, r) ==
  /\ IsHeader(q) /\ q.qd = 1 /\ q.an = 0 /\ q.ns = 0 /\ q.ar = 0
  /\ q.cells = SubSeq(r.cells, 1, QuestionEnd(r.cells, 1) - 1)

\* The question alone is a packet without an OPT record.
LEMMA BareIs ==
  ASSUME NEW r, IsPacket(r), HasQuestion(r), NEW q, Bare(q, r)
  PROVE  /\ IsPacket(q) /\ AnswersFrom(q) # Nowhere /\ Total(q) = 0 /\ ~HasOpt(q)
         /\ Full(q.cells, AnswersFrom(q), 0, <<>>)
<1> DEFINE c == r.cells
           s == AnswersFrom(r)
           x == s - 1
           b == q.cells
<1>1. r.qd = 1 /\ s # Nowhere /\ s \in 1..(Len(c) + 1) /\ s \in Nat /\ IsCells(c) /\ Len(c) \in Nat
  BY QuestionSomewhere, SomehowLaid, PacketCells
<1>2. b = SubSeq(c, 1, x)
  BY <1>1 DEF Bare, AnswersFrom
<1>3. 1 \in Nat /\ x \in Int /\ 1 <= 1 /\ 1 <= x + 1 /\ x <= Len(c) /\ x + 1 - 1 = x /\ x \in Nat /\ x + 1 = s
  BY <1>1
<1> HIDE DEF x, c, b
<1>4. IsCells(b) /\ Len(b) = x /\ \A i \in 1..x : b[i] = c[i]
  <2>1. /\ IsCells(SubSeq(c, 1, x)) /\ Len(SubSeq(c, 1, x)) = x + 1 - 1
        /\ \A i \in 1..(x + 1 - 1) : SubSeq(c, 1, x)[i] = c[1 + i - 1]
    BY <1>1, <1>3, CutCells
  <2>2. \A i \in 1..x : 1 + i - 1 = i
    BY <1>3
  <2> QED  BY <1>2, <1>3, <2>1, <2>2
<1>5. IsPacket(q)
  BY <1>4, HeaderAndCells DEF Bare, b
<1>6. AnswersFrom(q) = s
  <2>1. /\ IsPacket(r) /\ IsPacket(q) /\ HasQuestion(r) /\ q.qd = 1
        /\ AnswersFrom(r) - 1 <= Len(q.cells)
        /\ \A i \in 1..(AnswersFrom(r) - 1) : q.cells[i].k = r.cells[i].k
    <3>1. q.qd = 1
      BY DEF Bare
    <3>2. x <= Len(b) /\ \A i \in 1..x : b[i].k = c[i].k
      BY <1>3, <1>4
    <3>3. Len(b) = Len(q.cells) /\ x = AnswersFrom(r) - 1
      BY DEF b, x
    <3>4. \A i \in 1..(AnswersFrom(r) - 1) : q.cells[i].k = r.cells[i].k
      BY <3>2 DEF b, x, c
    <3> QED  BY <1>1, <1>5, <3>1, <3>2, <3>3, <3>4
  <2> QED  BY ONLY <2>1, QuestionKept DEF s
<1>7. Full(b, s, 0, <<>>)
  <2>1. Full(b, Len(b) + 1, 0, <<>>)
    BY <1>4, FullNothing
  <2> QED  BY <1>3, <1>4, <2>1
<1>8. Total(q) = 0
  BY DEF Total, Bare
<1>9. ~HasOpt(q)
  <2>1. Has(q.cells, AnswersFrom(q), Total(q), <<>>) /\ AnswersFrom(q) # Nowhere
    BY <1>1, <1>6, <1>7, <1>8, FullHas DEF b
  <2>2. Readable(q)
    BY <1>5, <2>1, HasReadable
  <2>3. Len(Additional(q)) = 0
    BY <1>5, <2>1, <2>2, AdditionalIs DEF Bare
  <2> QED  BY <1>5, <2>1, <2>3, HasOptIs
<1> QED  BY <1>1, <1>5, <1>6, <1>7, <1>8, <1>9 DEF b

\* ... and one with the OPT record that is put behind it.
LEMMA BareWithOpt ==
  ASSUME NEW r, IsPacket(r), HasQuestion(r), NEW q, Bare(q, r), NEW request, HasOpt(request),
         NEW x, IsRaw(x), FixedOf(x).type = "OPT", LikeRequest(FixedOf(x), request)
  PROVE  /\ IsPacket(AppendOpt(q, x)) /\ Readable(AppendOpt(q, x)) /\ Mirrored(AppendOpt(q, x), request)
         /\ Len(AppendOpt(q, x).cells) = Len(q.cells) + Len(x)
<1> DEFINE w == AppendOpt(q, x)
           f == [i \in 1..1 |-> FixedOf(x)]
           g == After(0, <<>>, 1, f)
<1>1. /\ IsPacket(q) /\ AnswersFrom(q) # Nowhere /\ Total(q) = 0
      /\ Full(q.cells, AnswersFrom(q), 0, <<>>)
      /\ q.an = 0 /\ q.ns = 0 /\ q.ar = 0
  BY BareIs DEF Bare
<1>2. /\ IsPacket(w) /\ AnswersFrom(w) # Nowhere
      /\ w.an = 0 /\ w.ns = 0 /\ w.ar = 0 + 1
      /\ Full(w.cells, AnswersFrom(w), Total(w), g)
  <2>1. IsPacket(q) /\ AnswersFrom(q) # Nowhere /\ IsRaw(x) /\ Full(q.cells, AnswersFrom(q), Total(q), <<>>)
    BY <1>1
  <2>2. /\ IsPacket(AppendOpt(q, x)) /\ AnswersFrom(AppendOpt(q, x)) # Nowhere
        /\ AppendOpt(q, x).an = q.an /\ AppendOpt(q, x).ns = q.ns /\ AppendOpt(q, x).ar = q.ar + 1
        /\ Full(AppendOpt(q, x).cells, AnswersFrom(AppendOpt(q, x)), Total(AppendOpt(q, x)),
                After(Total(q), <<>>, 1, [i \in 1..1 |-> FixedOf(x)]))
    BY ONLY <2>1, AppendOptIs
  <2> QED  BY <1>1, <2>2
<1>3. Len(w.cells) = Len(q.cells) + Len(x)
  <2> DEFINE y == q.ar + 1
             b == q.cells \o x
  <2>1. w = [q EXCEPT !.ar = y, !.cells = b]
    BY DEF AppendOpt
  <2>2. Len(b) = Len(q.cells) + Len(x)
    <3>1. IsCells(q.cells) /\ IsCells(x)
      BY <1>1, PacketCells DEF IsRaw
    <3> QED  BY ONLY <3>1, JoinCells
  <2> HIDE DEF w, y, b
  <2>3. w = Packet(q.flags, q.rcode, q.qd, q.an, q.ns, y, b)
    BY <1>1, <2>1, AdditionalEdit, Zenon
  <2>4. w.cells = b
    BY <2>3 DEF Packet
  <2> QED  BY <2>2, <2>4
<1>4. g[1] = FixedOf(x)
  BY DEF After
<1> HIDE DEF w, g, f
<1>5. \A i \in 1..w.ar : i = 1 /\ w.an + w.ns + i = 1
  BY <1>2
<1>6. /\ IsPacket(w) /\ AnswersFrom(w) # Nowhere /\ Has(w.cells, AnswersFrom(w), Total(w), g)
      /\ \A i \in 1..w.ar : LikeRequest(g[w.an + w.ns + i], request)
      /\ HasOpt(request) => \E i \in 1..w.ar : g[w.an + w.ns + i].type = "OPT"
  <2>1. Has(w.cells, AnswersFrom(w), Total(w), g)
    BY <1>2, FullHas
  <2>2. 1 \in 1..w.ar
    BY <1>2
  <2> QED  BY <1>2, <1>4, <1>5, <2>1, <2>2
<1>7. Readable(w) /\ Mirrored(w, request)
  BY ONLY <1>6, LaidMirrored
<1> QED  BY <1>2, <1>3, <1>7 DEF w

\* A response whose OPT records are like the request's tells the client what it asked for.
Tells(p, request) ==
  IF HasOpt(p)
  THEN /\ HasOpt(request) /\ Opt(p).version = 0
       /\ Opt(p).size = Opt(request).size /\ Opt(p).do = Opt(request).do
  ELSE HasOpt(request) => "tc" \in p.flags /\ p.an + p.ns + p.ar = 0

LEMMA MirroredTells ==
  ASSUME NEW p, IsPacket(p), Readable(p), NEW request, Mirrored(p, request)
  PROVE  Tells(p, request)
<1>1. AnswersFrom(p) # Nowhere
  BY AnswersWithRest
<1>2. CASE HasOpt(p)
  <2>1. PICK i \in 1..Len(Additional(p)) :
          /\ Additional(p)[i].type = "OPT"
          /\ Opt(p).size = Additional(p)[i].class /\ Opt(p).do = Additional(p)[i].ttl % 2
          /\ Opt(p).version = (Additional(p)[i].ttl \div 2) % 2
    BY <1>1, <1>2, OptIs
  <2>2. LikeRequest(Additional(p)[i], request)
    BY DEF Mirrored
  <2> QED  BY <1>2, <2>1, <2>2 DEF LikeRequest, Tells
<1>3. CASE ~HasOpt(p)
  <2>1. ~HasOpt(request)
    BY <1>1, <1>3, HasOptIs DEF Mirrored
  <2> QED  BY <1>3, <2>1 DEF Tells
<1> QED  BY <1>2, <1>3

\* The refusal of an EDNS version has an OPT record like the request's.
LEMMA RefusalTells ==
  ASSUME NEW request, IsPacket(request), HasQuestion(request), ~VersionSupported(request)
  PROVE  Tells(ResponseWithRcode(request, 16), request)
<1> DEFINE q == QuestionOnly(request, 16, 1)
           x == ClonedOpt(Opt(request), 16)
           c == SubSeq(request.cells, 1, QuestionEnd(request.cells, 1) - 1)
           fl == {"qr", "ra"} \cup (request.flags \cap {"rd"})
<1>1. HasOpt(request) /\ request.qd = 1 /\ AnswersFrom(request) # Nowhere
  BY QuestionSomewhere DEF VersionSupported
<1>2. ResponseWithRcode(request, 16) = AppendOpt(q, x)
  BY <1>1 DEF ResponseWithRcode, CloneOpt
<1>3. Bare(q, request)
  <2>1. q = Packet(fl, 16 % 16, 1, 0, 0, 0, c)
    BY DEF QuestionOnly, Packet
  <2> HIDE DEF q, c, fl
  <2>2. q.qd = 1 /\ q.an = 0 /\ q.ns = 0 /\ q.ar = 0 /\ q.cells = c /\ IsHeader(q)
    BY <2>1, PacketFields
  <2> QED  BY <2>2 DEF Bare, c
<1>4. IsRaw(x) /\ FixedOf(x).type = "OPT" /\ LikeRequest(FixedOf(x), request)
  <2>1. 16 \div 16 \in Nat /\ IsCells(Opt(request).options)
    BY <1>1, OptIs
  <2>2. x = OptRecord(Opt(request).size, 16 \div 16, 0, Opt(request).do, Opt(request).options)
    BY DEF ClonedOpt
  <2> HIDE DEF x
  <2> QED  BY <1>1, <2>1, <2>2, WrittenLikeRequest
<1> HIDE DEF q, x
<1>5. IsPacket(AppendOpt(q, x)) /\ Readable(AppendOpt(q, x)) /\ Mirrored(AppendOpt(q, x), request)
  BY <1>1, <1>3, <1>4, BareWithOpt
<1> QED  BY <1>2, <1>5, MirroredTells

\* What is cut down to its question, with and without the request's OPT record.
LEMMA CutIs ==
  ASSUME NEW p, IsPacket(p), HasQuestion(p)
  PROVE  Bare(CutToQuestion(p), p) /\ "tc" \in CutToQuestion(p).flags
<1> DEFINE q == CutToQuestion(p)
           fl == p.flags \cup {"tc"}
           c == SubSeq(p.cells, 1, QuestionEnd(p.cells, 1) - 1)
           z == 0
<1>1. q = [p EXCEPT !.flags = fl, !.an = z, !.ns = z, !.ar = z, !.cells = c]
  BY DEF CutToQuestion
<1>2. p.qd = 1 /\ z = 0
  BY QuestionSomewhere
<1> HIDE DEF q, fl, c, z
<1>3. q = Packet(fl, p.rcode, p.qd, z, z, z, c)
  <2>1. p = Packet(p.flags, p.rcode, p.qd, p.an, p.ns, p.ar, p.cells)
    BY DEF IsPacket, Packet
  <2> DEFINE q1 == [p EXCEPT !.flags = fl]
  <2>2. q1 = Packet(fl, p.rcode, p.qd, p.an, p.ns, p.ar, p.cells)
    BY <2>1 DEF Packet
  <2> HIDE DEF q1
  <2> DEFINE q2 == [q1 EXCEPT !.an = z]
  <2>3. q2 = Packet(fl, p.rcode, p.qd, z, p.ns, p.ar, p.cells)
    BY <2>2 DEF Packet
  <2> HIDE DEF q2
  <2> DEFINE q3 == [q2 EXCEPT !.ns = z]
  <2>4. q3 = Packet(fl, p.rcode, p.qd, z, z, p.ar, p.cells)
    BY <2>3 DEF Packet
  <2> HIDE DEF q3
  <2> DEFINE q4 == [q3 EXCEPT !.ar = z]
  <2>5. q4 = Packet(fl, p.rcode, p.qd, z, z, z, p.cells)
    BY <2>4 DEF Packet
  <2> HIDE DEF q4
  <2> DEFINE q5 == [q4 EXCEPT !.cells = c]
  <2>6. q5 = Packet(fl, p.rcode, p.qd, z, z, z, c)
    BY <2>5 DEF Packet
  <2> HIDE DEF q5
  <2>7. q = q5
    BY <1>1 DEF q1, q2, q3, q4, q5
  <2> QED  BY ONLY <2>6, <2>7
<1>4. q.qd = 1 /\ q.an = 0 /\ q.ns = 0 /\ q.ar = 0 /\ q.cells = c /\ IsHeader(q) /\ q.flags = fl
  BY <1>2, <1>3, PacketFields
<1> QED  BY <1>4 DEF Bare, q, c, fl

\* What is sent for a packet that tells the client what it asked for does so too.
LEMMA TruncatedTells ==
  ASSUME NEW p, IsPacket(p), Readable(p),
         NEW request, IsPacket(request), HasQuestion(request), VersionSupported(request), Mirrored(p, request)
  PROVE  Tells(TruncateForUdp(request, p), request)
<1> DEFINE q == CutToQuestion(p)
           x == RawOpt(request)
<1>1. CASE Len(p.cells) <= UdpSize(request) \/ ~HasQuestion(p)
  BY <1>1, MirroredTells DEF TruncateForUdp
<1>2. CASE ~(Len(p.cells) <= UdpSize(request)) /\ HasQuestion(p)
  <2>1. TruncateForUdp(request, p) = WithOpt(request, q)
    BY <1>2 DEF TruncateForUdp
  <2>2. Bare(q, p) /\ "tc" \in q.flags
    BY <1>2, CutIs
  <2> HIDE DEF q
  <2>3. CASE HasOpt(request) /\ Len(q.cells) + Len(x) <= UdpSize(request)
    <3>1. WithOpt(request, q) = AppendOpt(q, x)
      BY <2>3 DEF WithOpt
    <3>2. AnswersFrom(request) # Nowhere
      BY QuestionSomewhere
    <3>3. IsRaw(x) /\ FixedOf(x).type = "OPT" /\ LikeRequest(FixedOf(x), request)
      BY <2>3, <3>2, OptIs DEF VersionSupported, LikeRequest
    <3> HIDE DEF x
    <3>4. IsPacket(AppendOpt(q, x)) /\ Readable(AppendOpt(q, x)) /\ Mirrored(AppendOpt(q, x), request)
      BY <1>2, <2>2, <2>3, <3>3, BareWithOpt
    <3>5. Tells(AppendOpt(q, x), request)
      BY <3>4, MirroredTells
    <3> QED  BY <2>1, <3>1, <3>5
  <2>4. CASE ~(HasOpt(request) /\ Len(q.cells) + Len(x) <= UdpSize(request))
    <3>1. WithOpt(request, q) = q
      BY <2>4 DEF WithOpt
    <3>2. ~HasOpt(q) /\ q.an + q.ns + q.ar = 0
      BY <1>2, <2>2, BareIs DEF Total
    <3> QED  BY <2>1, <2>2, <3>1, <3>2 DEF Tells
  <2> QED  BY <2>3, <2>4
<1> QED  BY <1>1, <1>2

\* What is sent fits, or is the question alone.
LEMMA TruncatedFits ==
  ASSUME NEW p, IsPacket(p), HasQuestion(p),
         NEW request, IsPacket(request), HasQuestion(request), VersionSupported(request)
  PROVE  LET q == TruncateForUdp(request, p)
         IN  Len(q.cells) <= UdpSize(request) \/ q.an + q.ns + q.ar = 0
<1> DEFINE q == CutToQuestion(p)
           x == RawOpt(request)
<1>1. CASE Len(p.cells) <= UdpSize(request)
  BY <1>1 DEF TruncateForUdp
<1>2. CASE ~(Len(p.cells) <= UdpSize(request))
  <2>1. TruncateForUdp(request, p) = WithOpt(request, q)
    BY <1>2 DEF TruncateForUdp
  <2>2. Bare(q, p)
    BY CutIs
  <2> HIDE DEF q
  <2>3. CASE HasOpt(request) /\ Len(q.cells) + Len(x) <= UdpSize(request)
    <3>1. WithOpt(request, q) = AppendOpt(q, x)
      BY <2>3 DEF WithOpt
    <3>2. AnswersFrom(request) # Nowhere
      BY QuestionSomewhere
    <3>3. IsRaw(x) /\ FixedOf(x).type = "OPT" /\ LikeRequest(FixedOf(x), request)
      BY <2>3, <3>2, OptIs DEF VersionSupported, LikeRequest
    <3> HIDE DEF x
    <3>4. Len(AppendOpt(q, x).cells) = Len(q.cells) + Len(x)
      BY <2>2, <2>3, <3>3, BareWithOpt
    <3>5. Len(TruncateForUdp(request, p).cells) <= UdpSize(request)
      BY <2>1, <2>3, <3>1, <3>4 DEF x
    <3> QED  BY <3>5
  <2>4. CASE ~(HasOpt(request) /\ Len(q.cells) + Len(x) <= UdpSize(request))
    <3>1. WithOpt(request, q) = q
      BY <2>4 DEF WithOpt
    <3>2. q.an + q.ns + q.ar = 0
      BY <2>2 DEF Bare
    <3> QED  BY <2>1, <3>1, <3>2
  <2> QED  BY <2>3, <2>4
<1> QED  BY <1>1, <1>2
-----------------------------------------------------------------------------
(* The way of an exchange *)

\* What holds of an exchange all the way.  A response that can be read stays
\* so, and keeps its question; from its finalization on its OPT record is like
\* the request's; nobody asks upstream for a request of an unknown version.
WireInv ==
  /\ exchange \in Exchanges
  /\ stage \in {"asked", "queried", "merged", "final", "ready", "sent"}
  /\ stage \in {"queried", "merged", "final", "ready"} => VersionSupported(exchange.request)
  /\ stage \in {"merged", "final", "ready"} => Keeps(exchange.response, packet)
  /\ stage \in {"final", "ready"} /\ Readable(exchange.response) => Mirrored(packet, exchange.request)
  /\ stage = "sent" /\ Readable(exchange.response) => Tells(packet, exchange.request)
  /\ SentFits

\* What an exchange consists of can be worked with.
LEMMA ExchangePackets ==
  ASSUME exchange \in Exchanges
  PROVE  /\ IsPacket(exchange.request) /\ HasQuestion(exchange.request) /\ IsPacket(exchange.response)
         /\ IsSeq(exchange.chain) /\ \A i \in 1..Len(exchange.chain) : IsLink(exchange.chain[i])
<1>1. /\ IsPacket(exchange.request) /\ HasQuestion(exchange.request) /\ IsPacket(exchange.response)
      /\ IsSeq(exchange.chain) /\ \A l \in ToSet(exchange.chain) : IsLink(l)
  BY ExchangesAssumption DEF IsSeq
<1>2. DOMAIN exchange.chain = 1..Len(exchange.chain)
  BY <1>1, SeqBasics
<1> QED  BY <1>1, <1>2 DEF ToSet

\* A request that has just arrived.
LEMMA WireInit_WireInv ==
  WireInit => WireInv
BY DEF WireInit, WireInv, SentFits

\* The refusal of a version has the request's OPT record.
LEMMA BadVersionKeeps ==
  ASSUME WireInv, BadVersion
  PROVE  WireInv'
<1>1. /\ exchange \in Exchanges /\ exchange' = exchange /\ stage' = "sent"
      /\ ~VersionSupported(exchange.request)
      /\ packet' = ResponseWithRcode(exchange.request, 16)
  BY DEF BadVersion, WireInv
<1>2. Tells(packet', exchange.request)
  BY <1>1, ExchangePackets, RefusalTells
<1> QED  BY <1>1, <1>2 DEF WireInv, SentFits

\* Only a request of a known version is asked on.
LEMMA QueryKeeps ==
  ASSUME WireInv, NEW name, NEW dnssec, Query(name, dnssec)
  PROVE  WireInv'
<1>1. exchange \in Exchanges /\ exchange' = exchange /\ stage' = "queried" /\ VersionSupported(exchange.request)
  BY DEF Query, WireInv
<1> QED  BY <1>1 DEF WireInv, SentFits

LEMMA MergeKeeps ==
  ASSUME WireInv, Merge
  PROVE  WireInv'
<1>1. /\ exchange \in Exchanges /\ exchange' = exchange /\ stage' = "merged" /\ VersionSupported(exchange.request)
      /\ packet' = AppendCnames(exchange.response, exchange.chain)
  BY DEF Merge, WireInv
<1>2. Keeps(exchange.response, packet')
  BY <1>1, ExchangePackets, AppendCnamesKeeps
<1> QED  BY <1>1, <1>2 DEF WireInv, SentFits

LEMMA HitKeeps ==
  ASSUME WireInv, NEW seconds \in 1..MaxAge, Hit(seconds)
  PROVE  WireInv'
<1>1. /\ exchange \in Exchanges /\ exchange' = exchange /\ stage = "merged" /\ stage' = stage
      /\ packet' = Decay(packet, seconds) /\ VersionSupported(exchange.request) /\ Keeps(exchange.response, packet)
  BY DEF Hit, WireInv
<1>2. seconds \in Nat
  BY BoundsAssumption
<1>3. Keeps(packet, packet')
  BY <1>1, <1>2, DecayKeeps DEF Keeps
<1>4. Keeps(exchange.response, packet')
  BY <1>1, <1>3, KeepsAll
<1> QED  BY <1>1, <1>4 DEF WireInv, SentFits

LEMMA FinalizeResponseKeeps ==
  ASSUME WireInv, FinalizeResponse
  PROVE  WireInv'
<1>1. /\ exchange \in Exchanges /\ exchange' = exchange /\ stage' = "final" /\ VersionSupported(exchange.request)
      /\ packet' = Finalize(packet, exchange.request) /\ Keeps(exchange.response, packet)
  BY DEF FinalizeResponse, WireInv
<1>2. /\ Keeps(packet, packet')
      /\ Readable(packet) => Mirrored(packet', exchange.request)
  BY <1>1, ExchangePackets, FinalizeIs DEF Keeps
<1>3. Keeps(exchange.response, packet')
  BY <1>1, <1>2, KeepsAll
<1>4. Readable(exchange.response) => Mirrored(packet', exchange.request)
  BY <1>1, <1>2 DEF Keeps
<1> QED  BY <1>1, <1>3, <1>4 DEF WireInv, SentFits

LEMMA PreferKeeps ==
  ASSUME WireInv, NEW ranking, AnswersRead(packet) => IsSeq(ranking), Prefer(ranking)
  PROVE  WireInv'
<1>1. /\ exchange \in Exchanges /\ exchange' = exchange /\ stage' = "ready" /\ VersionSupported(exchange.request)
      /\ packet' = Reorder(packet, ranking) /\ Keeps(exchange.response, packet)
      /\ Readable(exchange.response) => Mirrored(packet, exchange.request)
  BY DEF Prefer, WireInv
<1>2. /\ Keeps(packet, packet')
      /\ Readable(packet) /\ Mirrored(packet, exchange.request) => Mirrored(packet', exchange.request)
  BY <1>1, ReorderIs DEF Keeps
<1>3. Keeps(exchange.response, packet')
  BY <1>1, <1>2, KeepsAll
<1>4. Readable(exchange.response) => Mirrored(packet', exchange.request)
  BY <1>1, <1>2 DEF Keeps
<1> QED  BY <1>1, <1>3, <1>4 DEF WireInv, SentFits

LEMMA SendUdpKeeps ==
  ASSUME WireInv, SendUdp
  PROVE  WireInv'
<1>1. /\ exchange \in Exchanges /\ exchange' = exchange /\ stage' = "sent" /\ VersionSupported(exchange.request)
      /\ packet' = TruncateForUdp(exchange.request, packet) /\ Keeps(exchange.response, packet)
      /\ Readable(exchange.response) => Mirrored(packet, exchange.request)
  BY DEF SendUdp, WireInv
<1>2. IsPacket(packet) /\ (HasQuestion(exchange.response) => HasQuestion(packet))
      /\ (Readable(exchange.response) => Readable(packet))
  BY <1>1 DEF Keeps
<1>3. Readable(exchange.response) => Tells(packet', exchange.request)
  BY <1>1, <1>2, ExchangePackets, TruncatedTells
<1>4. HasQuestion(exchange.response) =>
        Len(packet'.cells) <= UdpSize(exchange.request) \/ packet'.an + packet'.ns + packet'.ar = 0
  BY <1>1, <1>2, ExchangePackets, TruncatedFits
<1> QED  BY <1>1, <1>3, <1>4 DEF WireInv, SentFits

\* The codec alone keeps the invariant.
LEMMA WireNext_WireInv ==
  WireInv /\ WireNext => WireInv'
<1> SUFFICES ASSUME WireInv, WireNext PROVE WireInv'
  OBVIOUS
<1>1. CASE BadVersion
  BY <1>1, BadVersionKeeps
<1>2. CASE \E dnssec \in BOOLEAN : Query(ParseName(exchange.request.cells, 1), dnssec)
  BY <1>2, QueryKeeps
<1>3. CASE Merge
  BY <1>3, MergeKeeps
<1>4. CASE \E s \in 1..MaxAge : Hit(s)
  BY <1>4, HitKeeps
<1>5. CASE FinalizeResponse
  BY <1>5, FinalizeResponseKeeps
<1>6. CASE \E ranking \in Rankings : Prefer(ranking)
  BY <1>6, RankingsAssumption, PreferKeeps DEF IsSeq
<1>7. CASE SendUdp
  BY <1>7, SendUdpKeeps
<1> QED  BY <1>1, <1>2, <1>3, <1>4, <1>5, <1>6, <1>7 DEF WireNext

\* ... and so it does with the health manager beside it.
LEMMA ServingNext_WireInv ==
  WireInv /\ [ServingNext]_allVars => WireInv'
<1> SUFFICES ASSUME WireInv, [ServingNext]_allVars PROVE WireInv'
  OBVIOUS
<1>1. CASE WireNext
  BY <1>1, WireNext_WireInv
<1>2. CASE Prefer(ManagersRanking(packet))
  <2>1. stage = "final" /\ IsPacket(packet)
    BY <1>2 DEF Prefer, WireInv, Keeps
  <2>2. AnswersRead(packet) => IsSeq(ManagersRanking(packet))
    BY <2>1, RankingIsSeq
  <2> QED  BY <1>2, <2>2, PreferKeeps
<1>3. CASE UNCHANGED wireVars
  BY <1>3 DEF wireVars, WireInv, SentFits
<1> QED  BY <1>1, <1>2, <1>3 DEF ServingNext, allVars

\* OPT records like the request's tell the client what it asked for.
LEMMA WireInvTells ==
  WireInv => OptMirrorsRequest
<1> SUFFICES ASSUME WireInv, stage \in {"final", "ready", "sent"}, Readable(exchange.response)
             PROVE  Tells(packet, exchange.request)
  BY DEF OptMirrorsRequest, Tells
<1>1. CASE stage = "sent"
  BY <1>1 DEF WireInv
<1>2. CASE stage \in {"final", "ready"}
  <2>1. IsPacket(packet) /\ Readable(packet) /\ Mirrored(packet, exchange.request)
    BY <1>2 DEF WireInv, Keeps
  <2> QED  BY <2>1, MirroredTells
<1> QED  BY <1>1, <1>2

\* The invariant holds of every exchange, whatever is asked and answered.
THEOREM ServingWireInv ==
  ServingSpec => []WireInv
<1>1. ServingInit => WireInv
  BY WireInit_WireInv DEF ServingInit
<1>2. WireInv /\ [ServingNext]_allVars => WireInv'
  BY ServingNext_WireInv
<1> QED  BY <1>1, <1>2, PTL DEF ServingSpec

\* A client that asked with EDNS is answered with EDNS, with its size and DO bit and
\* version 0, and no other is, for every request, every readable response, every chain
\* merged, every age and every order of addresses.
THEOREM OptAlwaysMirrorsRequest ==
  ServingSpec => []OptMirrorsRequest
BY ServingWireInv, WireInvTells, PTL

\* What is sent over UDP fits the size the client announced, or is the question alone.
THEOREM WhatIsSentFits ==
  ServingSpec => []SentFits
<1>1. WireInv => SentFits
  BY DEF WireInv
<1> QED  BY <1>1, ServingWireInv, PTL

\* A response the upstream sent whole, all its records where its counts say.
ResponsesStayReadable ==
  stage \in {"merged", "final", "ready"} /\ Readable(exchange.response) => Readable(packet)

\* ... can be read whole however it is edited: merging the chain, aging, rewriting the
\* question, re-encoding, aligning EDNS and reordering leave counts and cells in step.
THEOREM ReadableStaysReadable ==
  ServingSpec => []ResponsesStayReadable
<1>1. WireInv => ResponsesStayReadable
  BY DEF WireInv, Keeps, ResponsesStayReadable
<1> QED  BY <1>1, ServingWireInv, PTL
=============================================================================
