------------------------------ MODULE IpHealth ------------------------------
(***************************************************************************)
(* The health manager: queries register the addresses of their answers     *)
(* under the name asked, a loop probes whatever is registered, and an      *)
(* answer lists the healthy addresses first.  An answer whose addresses    *)
(* are all unhealthy raises an alarm, at most one per name and minute,     *)
(* which is posted to a webhook with retries.                              *)
(*                                                                         *)
(* Each step of a query takes the manager's lock anew.  Streaks are capped *)
(* at their thresholds, beyond which they do not matter.                   *)
(***************************************************************************)
EXTENDS Naturals, Sequences, FiniteSets, SequencesExt, FiniteSetsExt

CONSTANTS
  Unknown,            \* health not established
  Lookups,            \* [domain, ips]: answers to be ordered
  Askers,             \* tasks that apply_ip_health_policy runs in
  Dead,               \* addresses whose probes always fail
  FailureThreshold, SuccessThreshold,
  WebhookRetries,
  MaxMinutes,         \* bound on the minutes that pass
  MaxAlarms           \* bound on the alarms in a behaviour

ASSUME ThresholdAssumption ==
  FailureThreshold \in Nat \ {0} /\ SuccessThreshold \in Nat \ {0} /\ WebhookRetries \in Nat
ASSUME LookupsAssumption == IsFiniteSet(Lookups) /\ Lookups # {}

VARIABLES
  tracked,    \* domain -> address -> [healthy, failures, successes]
  recent,     \* domains whose last alarm is less than a minute old
  round,      \* probes of this round that are out: <<domain, ip>>
  asking,     \* asker -> [at, lookup, scores]
  minutes, alarms,
  posts       \* webhook tasks: attempts each has made

healthVars == <<tracked, recent, round, asking, minutes, alarms, posts>>

Domains == {l.domain : l \in Lookups}
NoLookup == [at |-> "idle", lookup |-> CHOOSE l \in Lookups : TRUE, scores |-> <<>>]
Fresh == [healthy |-> Unknown, failures |-> 0, successes |-> 0]

HealthInit ==
  /\ tracked = [d \in {} |-> <<>>]
  /\ recent = {} /\ round = {}
  /\ asking = [a \in Askers |-> NoLookup]
  /\ minutes = 0 /\ alarms = 0 /\ posts = <<>>

Ips(d) == IF d \in DOMAIN tracked THEN DOMAIN tracked[d] ELSE {}
Health(d, ip) == IF ip \in Ips(d) THEN tracked[d][ip].healthy ELSE Unknown
With(d, states) == [e \in DOMAIN tracked \cup {d} |-> IF e = d THEN states ELSE tracked[e]]
-----------------------------------------------------------------------------
(* A query *)

\* Mutant: an address registered again starts afresh.
RegisterAfresh(a, l) ==
  /\ asking[a].at = "idle"
  /\ tracked' = With(l.domain, [ip \in ToSet(l.ips) |-> Fresh])
  /\ asking' = [asking EXCEPT ![a] = [at |-> "rank", lookup |-> l, scores |-> <<>>]]
  /\ UNCHANGED <<recent, round, minutes, alarms, posts>>

\* register_domain_ips: the list is replaced, what is known of those kept stays.
Register(a, l) ==
  /\ asking[a].at = "idle"
  /\ tracked' = With(l.domain, [ip \in ToSet(l.ips) |->
                  IF ip \in Ips(l.domain) THEN tracked[l.domain][ip] ELSE Fresh])
  /\ asking' = [asking EXCEPT ![a] = [at |-> "rank", lookup |-> l, scores |-> <<>>]]
  /\ UNCHANGED <<recent, round, minutes, alarms, posts>>

Score(h) == IF h = Unknown THEN 1 ELSE IF h THEN 2 ELSE 0

\* prefer_healthy_ips reads one address after the other.
Rank(a) ==
  LET l == asking[a].lookup
      n == Len(asking[a].scores) + 1
  IN
  /\ asking[a].at = "rank"
  /\ IF Len(l.ips) > 1 /\ n <= Len(l.ips)
     THEN asking' = [asking EXCEPT ![a].scores = Append(@, Score(Health(l.domain, l.ips[n])))]
     ELSE asking' = [asking EXCEPT ![a].at = "check"]
  /\ UNCHANGED <<tracked, recent, round, minutes, alarms, posts>>

\* The order it arrives at: by score, then as given.
Preferred(l, scores) ==
  IF Len(l.ips) <= 1 THEN l.ips
  ELSE LET before(j) == {i \in DOMAIN l.ips : scores[i] > scores[j] \/ (scores[i] = scores[j] /\ i < j)}
       IN [n \in DOMAIN l.ips |-> l.ips[CHOOSE j \in DOMAIN l.ips : Cardinality(before(j)) = n - 1]]

\* all_unhealthy_for_domain
Check(a) ==
  LET l == asking[a].lookup
      lost == \A ip \in ToSet(l.ips) : Health(l.domain, ip) = FALSE
  IN
  /\ asking[a].at = "check"
  /\ asking' = [asking EXCEPT ![a] = IF lost THEN [@ EXCEPT !.at = "alarm"] ELSE NoLookup]
  /\ UNCHANGED <<tracked, recent, round, minutes, alarms, posts>>

\* Mutant: the time of the alarm is not kept.
AlarmUnmarked(a) ==
  LET d == asking[a].lookup.domain IN
  /\ asking[a].at = "alarm" /\ alarms < MaxAlarms
  /\ asking' = [asking EXCEPT ![a] = NoLookup]
  /\ IF d \in recent THEN UNCHANGED <<recent, alarms, posts>>
     ELSE recent' = recent /\ alarms' = alarms + 1 /\ posts' = Append(posts, 0)
  /\ UNCHANGED <<tracked, round, minutes>>

\* record_all_unhealthy_event
Alarm(a) ==
  LET d == asking[a].lookup.domain IN
  /\ asking[a].at = "alarm" /\ alarms < MaxAlarms
  /\ asking' = [asking EXCEPT ![a] = NoLookup]
  /\ IF d \in recent THEN UNCHANGED <<recent, alarms, posts>>
     ELSE recent' = recent \cup {d} /\ alarms' = alarms + 1 /\ posts' = Append(posts, 0)
  /\ UNCHANGED <<tracked, round, minutes>>

MinutePasses ==
  /\ minutes < MaxMinutes
  /\ minutes' = minutes + 1 /\ recent' = {}
  /\ UNCHANGED <<tracked, round, asking, alarms, posts>>
-----------------------------------------------------------------------------
(* The probe loop and the webhook *)

\* A round takes what is registered; the next waits for all its results.
Tick ==
  /\ round = {}
  /\ round' = UNION {{<<d, ip>> : ip \in Ips(d)} : d \in DOMAIN tracked}
  /\ round' # {}
  /\ UNCHANGED <<tracked, recent, asking, minutes, alarms, posts>>

Capped(n, top) == IF n < top THEN n + 1 ELSE top

\* update_probe_result
Updated(s, ok) ==
  LET n == Capped(IF ok THEN s.successes ELSE s.failures, IF ok THEN SuccessThreshold ELSE FailureThreshold)
  IN IF ok THEN [healthy |-> IF n = SuccessThreshold THEN TRUE ELSE s.healthy, failures |-> 0, successes |-> n]
     ELSE [healthy |-> IF n = FailureThreshold THEN FALSE ELSE s.healthy, failures |-> n, successes |-> 0]

\* A result counts for whatever is registered under its address by now.
Probe(d, ip, ok) ==
  /\ <<d, ip>> \in round
  /\ ok => ip \notin Dead
  /\ round' = round \ {<<d, ip>>}
  /\ tracked' = IF ip \in Ips(d) THEN [tracked EXCEPT ![d][ip] = Updated(@, ok)] ELSE tracked
  /\ UNCHANGED <<recent, asking, minutes, alarms, posts>>

\* post_all_unhealthy_webhook: one attempt of task i; success or the last ends it.
Post(i, ok) ==
  /\ i \in DOMAIN posts /\ posts[i] <= WebhookRetries
  /\ posts' = [posts EXCEPT ![i] = IF ok THEN WebhookRetries + 1 ELSE @ + 1]
  /\ UNCHANGED <<tracked, recent, round, asking, minutes, alarms>>

HealthNext ==
  \/ \E a \in Askers, l \in Lookups : Register(a, l)
  \/ \E a \in Askers : Rank(a) \/ Check(a) \/ Alarm(a)
  \/ MinutePasses
  \/ Tick
  \/ \E p \in round, ok \in BOOLEAN : Probe(p[1], p[2], ok)
  \/ \E i \in DOMAIN posts, ok \in BOOLEAN : Post(i, ok)

HealthSpec == HealthInit /\ [][HealthNext]_healthVars

\* The loop runs on, and every probe ends, by its timeout at the latest.
ProbesGoOn ==
  /\ WF_healthVars(Tick)
  /\ \A l \in Lookups : \A ip \in ToSet(l.ips) :
       WF_healthVars(\E ok \in BOOLEAN : Probe(l.domain, ip, ok))
-----------------------------------------------------------------------------
\* One name raises at most one alarm a minute, however many answers find its
\* addresses unhealthy in it.
AlarmsSpaced == alarms <= Cardinality(Domains) * (1 + minutes)

\* An address that answers no probe and stays in its name's list is found
\* unhealthy for good, however often answers register it again meanwhile.
DeadIsFound ==
  \A l \in Lookups : \A ip \in ToSet(l.ips) \cap Dead :
    <>[](ip \in Ips(l.domain)) => <>[](Health(l.domain, ip) = FALSE)
=============================================================================
