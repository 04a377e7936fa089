----------------------------- MODULE Transport -----------------------------
(***************************************************************************)
(* What resolver code expects of an upstream transport (the trait          *)
(* UpstreamTransport of traits.rs): a query that was submitted comes back, *)
(* once, with a reply or with an error.                                    *)
(***************************************************************************)
CONSTANT Queries

VARIABLES
  status,   \* query -> not yet asked, asked, or returned
  replied   \* queries that returned with a reply

vars == <<status, replied>>

Init ==
  /\ status = [q \in Queries |-> "idle"]
  /\ replied = {}

Submit(q) ==
  /\ status[q] = "idle"
  /\ status' = [status EXCEPT ![q] = "open"]
  /\ UNCHANGED replied

Return(q) ==
  /\ status[q] = "open"
  /\ status' = [status EXCEPT ![q] = "done"]
  /\ replied' \in {replied, replied \cup {q}}

Next == \E q \in Queries : Submit(q) \/ Return(q)

Safety == Init /\ [][Next]_vars

Spec == Safety /\ \A q \in Queries : status[q] = "open" ~> status[q] = "done"
=============================================================================
