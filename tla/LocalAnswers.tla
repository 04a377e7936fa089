---------------------------- MODULE LocalAnswers ----------------------------
(***************************************************************************)
(* What the service answers from its own configuration before it asks      *)
(* anyone: a query passes the ingress checks and the policy, then the data *)
(* of its view, the global zones and records, the cache and the upstreams, *)
(* each layer only if the ones before had nothing.                         *)
(*                                                                         *)
(* A CNAME met on the way to an address is expanded: the chain is chased   *)
(* through local data and its end, if it is not local, is resolved by      *)
(* starting over with the target.  The calls that wait for such a result   *)
(* are the stack.                                                          *)
(*                                                                         *)
(* Names are sequences of labels from the top; a record's data is a name   *)
(* (CNAME, NS, MX), an address, or Junk, which no validation refuses and   *)
(* which cannot be encoded.                                                *)
(***************************************************************************)
EXTENDS Policy

CONSTANTS
  Clients, Questions,  \* who asks, and <<name, type>>
  Zones, Static,       \* the global zones and static records, in order
  Sources,             \* the authoritative sources
  Expand,              \* static_cname_expand_for_address_queries
  EnableRecursion, Iterative, Dns64, MinimalResponse,
  MaxDepth,            \* cname_chain_max_depth
  MaxCalls,            \* bound of the model: calls that wait
  World,               \* <<name, type>> -> what upstreams may answer
  Junk

ASSUME LocalAssumption ==
  /\ {Expand, EnableRecursion, Iterative, Dns64, MinimalResponse} \subseteq BOOLEAN
  /\ MaxDepth \in Nat /\ MaxCalls \in Nat

VARIABLES
  at,      \* the layer a query is in
  query,   \* the question of the client, and its view
  cur,     \* the name being resolved and the view it is resolved in
  stack,   \* the expansions that wait for cur
  asked,   \* whether this query made an upstream be asked
  reply    \* the result of the call that has just ended

localVars == <<at, query, cur, stack, asked, reply>>

LocalInit ==
  /\ at = "idle" /\ query = None /\ cur = None /\ stack = <<>>
  /\ asked = FALSE /\ reply = None
-----------------------------------------------------------------------------
(* Records, indexes and packets *)

Record(owner, t, data) == [owner |-> owner, type |-> t, data |-> data]
Address == {"A", "AAAA"}

\* Types build_static_answer can encode, and those a zone may hold.
Encodable == {"A", "AAAA", "CNAME", "NS", "MX", "TXT", "PTR"}

First(s) == IF s = <<>> THEN None ELSE s[1]

\* build_static_record_index: the first record of a name and type.
InIndex(records, n, t) == First(SelectSeq(records, LAMBDA r : r.owner = n /\ r.type = t))

\* build_zone_record_index: all of them.
InZone(z, n, t) ==
  SelectSeq(z.records, LAMBDA r : r.owner = n /\ r.type = t /\ t \in Encodable)

NamesOf(z) == {z.name} \cup {z.records[i].owner : i \in {j \in DOMAIN z.records : z.records[j].type \in Encodable}}

\* find_authoritative_zone: the longest; the root zone holds only the root.
Holds(z, n) == n = z.name \/ (z.name # <<>> /\ Encloses(z.name, n))
ZoneFor(zones, n) ==
  LET Z == {i \in DOMAIN zones : Holds(zones[i], n)}
  IN IF Z = {} THEN None
     ELSE zones[CHOOSE i \in Z : \A j \in Z :
            Len(zones[j].name) < Len(zones[i].name) \/ (zones[j].name = zones[i].name /\ i <= j)]

Packet(rcode, answers) ==
  [rcode |-> rcode, aa |-> FALSE, ra |-> TRUE, tc |-> FALSE, answers |-> answers, soa |-> FALSE, more |-> <<>>]
Authoritative(rcode, answers, soa) ==
  [Packet(rcode, answers) EXCEPT !.aa = TRUE, !.soa = soa]

Error == [Packet("error", <<>>) EXCEPT !.ra = FALSE]

Cnames(p) == SelectSeq(p.answers, LAMBDA r : r.type = "CNAME")

\* Mutant: only the link that led to the target is added.
AppendLast(p, links) ==
  [p EXCEPT !.answers = @ \o SelectSeq(<<Last(links)>>, LAMBDA r : ~Contains(Cnames(p), r))]

\* append_cname_answers
AppendCnames(p, links) ==
  [p EXCEPT !.answers = @ \o SelectSeq(links, LAMBDA r : ~Contains(Cnames(p), r))]

\* normalize_cname_chain_answers: the CNAMEs as they come, then the records of
\* the last one's target, if there are any.
InChainOrder(p, t) ==
  LET end == Last(Cnames(p)).data
      Of(s) == SelectSeq(s, LAMBDA r : r.owner = end /\ r.type = t)
      records == IF Of(p.answers) # <<>> THEN Of(p.answers) ELSE Of(p.more)
  IN IF records = <<>> THEN p ELSE [p EXCEPT !.answers = Cnames(p) \o records]

\* finalize_response_for_client: with a CNAME the other sections are dropped.
Finalize(p, t) ==
  LET ordered == IF t \in Address /\ Cnames(p) # <<>>
                 THEN [InChainOrder(p, t) EXCEPT !.soa = FALSE, !.more = <<>>] ELSE p
  IN [ordered EXCEPT !.aa = FALSE, !.ra = TRUE]

Hosts(answers) == {answers[i].data : i \in {j \in DOMAIN answers : answers[j].type \in {"NS", "MX"}}}

\* append_additional_for_zone_answers, append_additional_for_static_answers;
\* found: what the zone or index has of a host and type
Additional(p, found) ==
  IF MinimalResponse THEN p
  ELSE LET hosts == [i \in DOMAIN p.answers |->
              IF p.answers[i].type \in {"NS", "MX"} THEN p.answers[i].data ELSE None]
           For(h) == IF h = None THEN <<>> ELSE found[h, "A"] \o found[h, "AAAA"]
       IN [p EXCEPT !.more = FoldLeft(LAMBDA acc, h :
              acc \o SelectSeq(For(h), LAMBDA r : r.data # Junk /\ ~Contains(acc, r)), <<>>, hosts)]
-----------------------------------------------------------------------------
(* Chasing a CNAME through local data *)

\* From n, whose CNAME is first: the links, and whether the end is local.
\* resolve_zone_cname_for_address_query, resolve_static_cname_for_address_query
Chase(n, first, Ends(_), NextOf(_)) ==
  LET Visit(depth, owner, target, links) ==
        [owner |-> owner, target |-> target,
         links |-> Append(links, Record(owner, "CNAME", target)),
         end |-> IF owner \in {links[i].owner : i \in DOMAIN links} THEN "failed"
                 ELSE IF depth >= MaxDepth THEN "failed"
                 ELSE IF Ends(target) THEN "local"
                 ELSE IF NextOf(target) # None THEN "on" ELSE "outside"]
      hop[d \in 0..MaxDepth] ==
        IF d = 0 THEN Visit(0, n, first, <<>>)
        ELSE IF hop[d - 1].end # "on" THEN hop[d - 1]
        ELSE LET h == hop[d - 1] IN Visit(d, h.target, NextOf(h.target).data, h.links)
  IN hop[MaxDepth]

\* The zone of the name, else any zone that has it.
InZones(zones, n, t) ==
  LET own == IF ZoneFor(zones, n) = None THEN <<>> ELSE InZone(ZoneFor(zones, n), n, t)
      all == SelectSeq([i \in DOMAIN zones |-> InZone(zones[i], n, t)], LAMBDA s : s # <<>>)
  IN IF own # <<>> THEN own ELSE IF all = <<>> THEN <<>> ELSE all[1]

ChaseZones(zones, n, first, t) ==
  Chase(n, first, LAMBDA m : InZones(zones, m, t) # <<>>,
        LAMBDA m : First(InZones(zones, m, "CNAME")))

\* The index of the view, then the global one.
InEither(primary, n, t) ==
  LET r == InIndex(primary, n, t) IN IF r # None THEN r ELSE InIndex(Static, n, t)

ChaseStatic(primary, n, first) ==
  Chase(n, first, LAMBDA m : FALSE, LAMBDA m : InEither(primary, m, "CNAME"))
-----------------------------------------------------------------------------
(* Calls and returns *)

Goto(layer) ==
  at' = layer /\ UNCHANGED <<query, cur, stack, asked, reply>>

MayRecurse(v) == EnableRecursion /\ (v = None \/ views[v].recursion)

\* normalize_ra_for_recursion_policy
ForView(p, v) == IF MayRecurse(v) THEN p ELSE [p EXCEPT !.ra = FALSE]

Return(p) ==
  /\ at' = "return" /\ reply' = ForView(p, cur.view)
  /\ UNCHANGED <<query, cur, stack, asked>>

\* Start over with the target; otherwise is the answer if that fails.  Nothing
\* counts these calls: a loop through two layers goes on until the stack of the
\* thread is exhausted, here after MaxCalls.
Call(target, view, links, otherwise) ==
  /\ at' = IF Len(stack) < MaxCalls THEN "view zones" ELSE "lost"
  /\ stack' = Append(stack, [name |-> cur.name, view |-> cur.view, links |-> links, otherwise |-> otherwise])
  /\ cur' = [name |-> target, view |-> view]
  /\ UNCHANGED <<query, asked, reply>>

\* The result of the target, with the chain that led to it.
Resume ==
  /\ at = "return" /\ stack # <<>>
  /\ LET f == Last(stack)
         p == IF reply = Error THEN f.otherwise ELSE Finalize(AppendCnames(reply, f.links), query.type)
     IN /\ reply' = ForView(p, f.view)
        /\ cur' = [name |-> f.name, view |-> f.view]
  /\ stack' = Front(stack)
  /\ UNCHANGED <<at, query, asked>>

\* An error is answered SERVFAIL.
Answered(via) ==
  /\ at = "return" /\ stack = <<>> /\ query.via \in via
  /\ at' = "done" /\ cur' = None
  /\ UNCHANGED <<query, stack, asked>>

Served == IF reply = Error THEN Packet("servfail", <<>>) ELSE reply

\* truncate_response_for_udp: what does not fit is left out altogether.
DeliverUdp ==
  /\ Answered({"udp"})
  /\ reply' \in {Served, [Served EXCEPT !.tc = TRUE, !.answers = <<>>, !.soa = FALSE, !.more = <<>>]}

DeliverStream == Answered({"tcp", "dot"}) /\ reply' = Served

DeliverHttp == Answered({"doh"}) /\ reply' = Served

\* A message that can be read is resolved if the policy allows it.
Ask(via, c, q) ==
  \E d \in Evaluate(c, q[1], q[2]) :
    /\ query' = [via |-> via, client |-> c, name |-> q[1], type |-> q[2], view |-> d.view]
    /\ IF d.rcode = "allow"
       THEN at' = "view zones" /\ reply' = None /\ cur' = [name |-> q[1], view |-> d.view]
       ELSE at' = "done" /\ reply' = Packet(d.rcode, <<>>) /\ cur' = None

\* One that cannot, or has an EDNS version other than 0, is not.
Reject(via, ways) ==
  /\ query' = [via |-> via, client |-> None, name |-> None, type |-> None, view |-> None]
  /\ at' = "done" /\ cur' = None
  /\ \E w \in ways \cup {"badvers"} : reply' = Packet(w, <<>>)

Ready == at = "idle" /\ UNCHANGED <<asked, stack>>

\* Malformed datagrams are dropped.
ReceiveUdp ==
  Ready /\ (Reject("udp", {"dropped"}) \/ \E c \in Clients, q \in Questions : Ask("udp", c, q))

\* So are malformed messages; a frame of no or too great length ends the connection.
ReceiveStream ==
  /\ Ready
  /\ \E via \in {"tcp", "dot"} :
       Reject(via, {"dropped", "closed"}) \/ \E c \in Clients, q \in Questions : Ask(via, c, q)

\* Bad parameters, bodies and content types are refused in HTTP.
ReceiveHttp ==
  /\ Ready
  /\ \/ Reject("doh", {"bad request", "unsupported media type"})
     \/ \E c \in Clients, q \in Questions : Ask("doh", c, q)
-----------------------------------------------------------------------------
(* Layers *)

\* NODATA if the zone has records of the name, else NXDOMAIN.
Denial(z, n) == Authoritative(IF n \in NamesOf(z) THEN "noerror" ELSE "nxdomain", <<>>, TRUE)

Good(records) == SelectSeq(records, LAMBDA r : r.data # Junk)

\* What the zone has of the hosts of these records.
AddressesIn(z, records) ==
  [h \in Hosts(records), u \in Address |-> IF Holds(z, h) THEN InZone(z, h, u) ELSE <<>>]

\* try_resolve_from_zone_entries
TryZones(zones, view, expand, next) ==
  LET n == cur.name
      t == query.type
      z == ZoneFor(zones, n)
      direct == InZone(z, n, t)
      cname == InZone(z, n, "CNAME")
      good == Good(direct)
      w == ChaseZones(zones, n, cname[1].data, t)
      end == Good(InZones(zones, w.target, t))
      cnameOnly == Authoritative("noerror", cname, FALSE)
  IN IF z = None THEN Goto(next)
     ELSE IF t = "SOA" /\ z.soa THEN Return(Authoritative("noerror", <<Record(z.name, "SOA", z.name)>>, FALSE))
     ELSE IF direct # <<>> THEN
          IF good = <<>> THEN Goto(next)
          ELSE Return(Additional(Authoritative("noerror", good, FALSE), AddressesIn(z, good)))
     ELSE IF t \in Address /\ cname # <<>> THEN
          IF expand /\ w.end = "local" /\ end # <<>> THEN
             Return(Finalize(AppendCnames(Authoritative("noerror", end, FALSE), w.links), t))
          ELSE IF expand /\ w.end = "outside" THEN Call(w.target, view, w.links, cnameOnly)
          ELSE Return(cnameOnly)
     ELSE IF z.soa THEN Return(Denial(z, n)) ELSE Goto(next)

CanAnswer(r) == r # None /\ r.type \in Encodable /\ r.data # Junk

\* And what the index has.
AddressesOf(index, records) ==
  [h \in Hosts(records), u \in Address |->
     IF InIndex(index, h, u) = None THEN <<>> ELSE <<InIndex(index, h, u)>>]

\* try_resolve_from_record_index, and the same for the global records: there a
\* record that cannot be encoded does not hide a CNAME.
TryRecords(index, primary, expand, next) ==
  LET n == cur.name
      t == query.type
      direct == InIndex(index, n, t)
      cname == InIndex(index, n, "CNAME")
      w == ChaseStatic(primary, n, cname.data)
      end == InEither(primary, w.target, t)
      cnameOnly == Packet("noerror", <<cname>>)
  IN IF CanAnswer(direct) THEN Return(Additional(Packet("noerror", <<direct>>), AddressesOf(index, <<direct>>)))
     ELSE IF direct # None /\ primary # <<>> THEN Goto(next)
     ELSE IF t \in Address /\ cname # None THEN
          IF ~expand \/ w.end = "failed" THEN Return(cnameOnly)
          ELSE IF end = None THEN Call(w.target, cur.view, w.links, cnameOnly)
          ELSE IF CanAnswer(end)
               THEN Return(Finalize(AppendCnames(Packet("noerror", <<end>>), w.links), t))
          ELSE Return(cnameOnly)
     ELSE Goto(next)

Own(setting) == IF setting = None THEN Expand ELSE setting
View == views[cur.view]

\* Mutant: the zones of a view resolve what lies outside like the global ones.
ViewZonesForget ==
  /\ at = "view zones"
  /\ IF cur.view = None THEN Goto("zones")
     ELSE TryZones(View.zones, None, Own(View.expandRecords), "view static")

ViewZones ==
  /\ at = "view zones"
  /\ IF cur.view = None THEN Goto("zones")
     ELSE TryZones(View.zones, cur.view, Own(View.expandRecords), "view static")

\* effective_static_records
Effective(v) == v.static \o v.legacy

\* Mutant: the global zones go before the records of a view.
ViewStaticLate ==
  /\ at = "view static"
  /\ IF ZoneFor(Zones, cur.name) # None THEN Goto("zones")
     ELSE TryRecords(Effective(View), Effective(View), Own(View.expandStatic), "view records")

ViewStatic ==
  /\ at = "view static"
  /\ TryRecords(Effective(View), Effective(View), Own(View.expandStatic), "view records")

\* effective_authoritative_records: a configuration that has any is not valid.
ViewRecords ==
  /\ at = "view records"
  /\ TryRecords(<<>>, <<>>, Own(View.expandRecords), "view only")

ViewOnly ==
  /\ at = "view only"
  /\ IF View.mode = "view_only" THEN Return(Packet("nxdomain", <<>>)) ELSE Goto("zones")

\* The view is not handed on.
GlobalZones ==
  /\ at = "zones"
  /\ TryZones(Zones, None, Expand, "static")

GlobalStatic ==
  /\ at = "static"
  /\ TryRecords(Static, <<>>, Expand, "source")

\* fetch_authoritative_answer gives every source the same fixed address.
AuthoritativeSource ==
  /\ at = "source"
  /\ LET r == InIndex(Sources, cur.name, query.type)
     IN IF r # None /\ r.type \in Encodable \ {"AAAA", "MX"} THEN Return(Packet("noerror", <<r>>)) ELSE Goto("cache")

\* dns64_fallback_for_aaaa_query: whether there are AAAA records is asked of the
\* request, which has none.
Synthesized(n, p) ==
  IF ~(Iterative /\ Dns64 /\ query.type = "AAAA") THEN {p}
  ELSE {IF \E i \in DOMAIN a.answers : a.answers[i].owner = n /\ a.answers[i].type = "A"
        THEN Packet("noerror", <<Record(n, "AAAA", "synthesized")>>) ELSE p
        : a \in World[<<n, "A">>]}

Upstream(q) == UNION {IF p = Error THEN {p} ELSE Synthesized(q[1], p) : p \in World[q]}

\* What earlier queries may have left in the cache is served to everyone; to
\* ask needs recursion.
CacheOrUpstream ==
  /\ at = "cache"
  /\ LET q == <<cur.name, query.type>>
         cached == {p \in Upstream(q) : p.rcode \in {"noerror", "nxdomain"}}
     IN \/ \E p \in cached : Return(p)
        \/ ~MayRecurse(cur.view) /\ Return(Packet("refused", <<>>))
        \/ /\ MayRecurse(cur.view)
           /\ asked' = TRUE /\ at' = "return"
           /\ reply' \in Upstream(q)
           /\ UNCHANGED <<query, cur, stack>>

\* One query after the other.
Forget ==
  /\ at = "done"
  /\ at' = "idle" /\ query' = None /\ asked' = FALSE /\ reply' = None
  /\ UNCHANGED <<cur, stack>>

LocalNext ==
  \/ Forget \/ ReceiveUdp \/ ReceiveStream \/ ReceiveHttp
  \/ ViewZones \/ ViewStatic \/ ViewRecords \/ ViewOnly \/ GlobalZones
  \/ GlobalStatic \/ AuthoritativeSource \/ CacheOrUpstream \/ Resume
  \/ DeliverUdp \/ DeliverStream \/ DeliverHttp
-----------------------------------------------------------------------------
(* Properties *)

Done == at = "done" /\ query.name # None

Links(p) == {p.answers[i] : i \in {j \in DOMAIN p.answers : p.answers[j].type = "CNAME"}}
Ends(p, t) == {p.answers[i].owner : i \in {j \in DOMAIN p.answers : p.answers[j].type = t}}

Follow(p, n) ==
  LET end[k \in 0..Cardinality(Links(p))] ==
        IF k = 0 THEN n
        ELSE LET next == {r \in Links(p) : r.owner = end[k - 1]}
             IN IF next = {} THEN end[k - 1] ELSE (CHOOSE r \in next : TRUE).data
  IN end[Cardinality(Links(p))]

\* However many layers an address answer was put together from, its addresses
\* belong to the name its CNAMEs lead to from the question.
ChainWhole ==
  Done /\ query.type \in Address => Ends(reply, query.type) \subseteq {Follow(reply, query.name)}

\* A query of a view_only view is answered without the global zones, the sources,
\* the cache and the upstreams, whatever the names in the view are aliases of.
\* (Its CNAMEs are followed through the global static records.)
ViewOnlyStaysLocal ==
  at # "idle" /\ query.view # None /\ views[query.view].mode = "view_only" =>
    ~asked /\ at \notin {"zones", "static", "source", "cache"}

\* What a view says of the name asked for is what its clients are told:
\* nothing the global data say of the same name is mixed in.
InView(v, r) ==
  \/ Contains(Effective(v), r)
  \/ \E i \in DOMAIN v.zones : Contains(v.zones[i].records, r)
ViewSpeaks(v, n, t) ==
  \/ ZoneFor(v.zones, n) # None /\ ZoneFor(v.zones, n).soa
  \/ CanAnswer(InIndex(Effective(v), n, t))
  \/ InIndex(Effective(v), n, t) = None /\ t \in Address /\ InIndex(Effective(v), n, "CNAME") # None
ViewDataWins ==
  Done /\ query.view # None /\ query.type # "SOA" /\ ViewSpeaks(views[query.view], query.name, query.type) =>
    \A i \in DOMAIN reply.answers :
      reply.answers[i].owner = query.name => InView(views[query.view], reply.answers[i])
=============================================================================
