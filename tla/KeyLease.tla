------------------------------ MODULE KeyLease ------------------------------
(***************************************************************************)
(* What the in-flight table promises: a lease per cache key.  A task that  *)
(* holds no lease takes a free one, and its holder alone gives it back or, *)
(* dying, leaves it behind for good.  No lease passes from one holder to   *)
(* the next without having been free in between.                           *)
(***************************************************************************)
CONSTANTS Keys, Tasks, Free, Dropped

VARIABLE lease

Init == lease = [k \in Keys |-> Free]

Take(t, k) ==
  /\ lease[k] = Free
  /\ \A j \in Keys : lease[j] # t
  /\ lease' = [lease EXCEPT ![k] = t]

GiveBack(k) ==
  /\ lease[k] \in Tasks
  /\ lease' = [lease EXCEPT ![k] = Free]

LeaveBehind(k) ==
  /\ lease[k] \in Tasks
  /\ lease' = [lease EXCEPT ![k] = Dropped]

Next == \E k \in Keys : (\E t \in Tasks : Take(t, k)) \/ GiveBack(k) \/ LeaveBehind(k)

Spec == Init /\ [][Next]_lease
=============================================================================
