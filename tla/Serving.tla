------------------------------ MODULE Serving ------------------------------
(***************************************************************************)
(* DnsWire with the health manager: the exchanges in Watched are ordered   *)
(* by what IpHealth knows of their name when they are, while queries,      *)
(* probes and alarms of the manager go on.  The other exchanges take any   *)
(* ranking.  The manager works while such a response waits to be ordered:  *)
(* the steps before share nothing with it, nor does what is sent after.    *)
(***************************************************************************)
EXTENDS DnsWire, IpHealth

CONSTANTS
  Watched,     \* exchanges that share the manager
  WatchedName  \* the domain they ask for

allVars == <<wireVars, healthVars>>

\* extract_answer_ips
AnswerIps(p) ==
  LET rs == Picked(Answers(p), AddressSlots(Answers(p)))
  IN [i \in DOMAIN rs |-> RawData(p, rs[i])[1].v]

\* The ranking an answer gets from the manager as it is now.
ManagersRanking(p) ==
  LET l == [domain |-> WatchedName, ips |-> AnswerIps(p)]
  IN Preferred(l, [i \in DOMAIN l.ips |-> Score(Health(l.domain, l.ips[i]))])

ServingInit == WireInit /\ HealthInit

ServingNext ==
  \/ (exchange \in Watched => stage # "final") /\ WireNext /\ UNCHANGED healthVars
  \/ exchange \in Watched /\ Prefer(ManagersRanking(packet)) /\ UNCHANGED healthVars
  \/ exchange \in Watched /\ stage = "final" /\ HealthNext /\ UNCHANGED wireVars

ServingSpec ==
  /\ ServingInit
  /\ [][ServingNext]_allVars
  /\ \A x \in Watched : exchange = x => ProbesGoOn
=============================================================================
