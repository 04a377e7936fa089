------------------------------ MODULE DnsWire ------------------------------
(***************************************************************************)
(* The wire codec, and the way of one exchange through it: a request is    *)
(* turned into an upstream query; the response is merged with the CNAMEs   *)
(* of the chain that led to it, cached, aged, finalized for the client,    *)
(* reordered by address health and cut to the client's UDP size.           *)
(*                                                                         *)
(* A packet is a header and a sequence of cells: a label, the end of a     *)
(* name, a pointer (an offset into the cells), the type of a question, the *)
(* fixed part of a resource record, or a piece of other data.  A cell is   *)
(* the unit of size.  The TTL of an OPT record is its extended rcode,      *)
(* version and DO bit packed into a number, its class the payload size.    *)
(* A packet may hold less than its counts say; it is read as far as it     *)
(* goes.  The options of an OPT record are taken to be whole: one whose    *)
(* options do not parse is no OPT record to the code, and out of the model.*)
(***************************************************************************)
EXTENDS Naturals, Sequences, FiniteSets, SequencesExt, FiniteSetsExt

CONSTANTS
  Nil,           \* no name, no lifetime
  Exchanges,     \* [request, response, chain: CNAMEs <<owner, target, ttl>>]
  MaxPointers,   \* 16: pointers followed for one name
  PlainUdpSize,  \* 4096: the size without EDNS
  LeastUdpSize,  \* 512
  DefaultTtl,    \* cache_ttl
  Rankings,      \* orders of preference over addresses
  MaxAge         \* bound: seconds an answer ages

Address == {"A", "AAAA"}
Label(v) == [k |-> "label", v |-> v]
End == [k |-> "end"]
Pointer(o) == [k |-> "ptr", to |-> o]
Question(t) == [k |-> "question", type |-> t]
Fixed(t, class, ttl, len) == [k |-> "rr", type |-> t, class |-> class, ttl |-> ttl, len |-> len]

\* The elements of s at the places in I.
Nth(I, n) == CHOOSE i \in I : Cardinality({j \in I : j < i}) = n - 1
Picked(s, I) == [n \in 1..Cardinality(I) |-> s[Nth(I, n)]]
-----------------------------------------------------------------------------
(* Names.  A place is a position in the cells. *)

Nowhere == 0
Least(S) == IF S = {} THEN Nowhere ELSE Min(S)

\* Where the labels from o on end.
Stop(c, o) == Least({i \in o..Len(c) : c[i].k # "label"})

Behind(c, e, kinds) == IF e # Nowhere /\ c[e].k \in kinds THEN e + 1 ELSE Nowhere
SkipName(c, o) == Behind(c, Stop(c, o), {"end", "ptr"})

\* What follows the labels: nothing, or one of the names pointers may lead to.
Rest(c, e, names) ==
  IF e = Nowhere THEN Nil
  ELSE IF c[e].k = "end" THEN <<>>
  ELSE IF c[e].k = "ptr" /\ c[e].to \in DOMAIN names THEN names[c[e].to]
  ELSE Nil

Joined(c, o, e, rest) == IF rest = Nil THEN Nil ELSE [i \in 1..(e - o) |-> c[o + i - 1].v] \o rest
NameAt(c, o, e, names) == Joined(c, o, e, Rest(c, e, names))

\* parse_name_with_depth: the labels, after at most MaxPointers pointers.
ParseName(c, o) ==
  LET names[d \in 0..MaxPointers] ==
        [i \in DOMAIN c |-> NameAt(c, i, Stop(c, i), IF d = 0 THEN <<>> ELSE names[d - 1])]
  IN IF o \in DOMAIN c THEN names[MaxPointers][o] ELSE Nil

EncodeName(n) == [i \in 1..Len(n) |-> Label(n[i])] \o <<End>>
-----------------------------------------------------------------------------
(* Sections and records *)

AfterQuestion(c, e) == IF e \in DOMAIN c THEN e + 1 ELSE Nowhere
NextQuestion(c, o) == IF o = Nowhere THEN Nowhere ELSE AfterQuestion(c, SkipName(c, o))

\* skip_question_section: where what follows the first k questions starts.
QuestionEnd(c, k) ==
  LET end[i \in 0..k] == IF i = 0 THEN 1 ELSE NextQuestion(c, end[i - 1])
  IN end[k]

AnswersFrom(p) == QuestionEnd(p.cells, p.qd)
QuestionCells(p) == SubSeq(p.cells, 1, AnswersFrom(p) - 1)

\* parse_first_question, which follows no pointer.
HasQuestion(p) == p.qd # 0 /\ Behind(p.cells, Stop(p.cells, 1), {"end"}) \in DOMAIN p.cells
FirstType(p) == p.cells[SkipName(p.cells, 1)].type

\* skip_rr: the fixed part is at e.
IsRecord(c, e) == e \in DOMAIN c /\ c[e].k = "rr" /\ e + c[e].len <= Len(c)

\* Where a record, its fixed part and the next one start, and what it says.
RecordAt(c, o, e) ==
  [at |-> o, type |-> c[e].type, class |-> c[e].class, ttl |-> c[e].ttl,
   fixed |-> e, next |-> e + c[e].len + 1]

EndOf(rs, start) == IF rs = <<>> THEN start ELSE rs[Len(rs)].next
WithRecord(c, rs, o, e) == IF IsRecord(c, e) THEN Append(rs, RecordAt(c, o, e)) ELSE rs
WithNext(c, rs, o) == WithRecord(c, rs, o, SkipName(c, o))
ReadOn(c, start, i, rs) == IF Len(rs) < i - 1 THEN rs ELSE WithNext(c, rs, EndOf(rs, start))

\* Up to n records, as far as there are any.
RecordsFrom(c, start, n) ==
  LET read[i \in 0..n] == IF i = 0 THEN <<>> ELSE ReadOn(c, start, i, read[i - 1])
  IN read[n]

Records(p) ==
  IF AnswersFrom(p) = Nowhere THEN <<>>
  ELSE RecordsFrom(p.cells, AnswersFrom(p), p.an + p.ns + p.ar)
AnswersRead(p) == AnswersFrom(p) # Nowhere /\ p.an <= Len(Records(p))
Readable(p) == AnswersFrom(p) # Nowhere /\ Len(Records(p)) = p.an + p.ns + p.ar

Section(rs, first, last) == SubSeq(rs, first, IF last < Len(rs) THEN last ELSE Len(rs))
Answers(p) == Section(Records(p), 1, p.an)
Authority(p) == Section(Records(p), p.an + 1, p.an + p.ns)
Additional(p) == Section(Records(p), p.an + p.ns + 1, p.an + p.ns + p.ar)
AnswersEnd(p) == EndOf(Answers(p), AnswersFrom(p))

Owner(p, r) == ParseName(p.cells, r.at)
RawData(p, r) == SubSeq(p.cells, r.fixed + 1, r.next - 1)
DataName(p, r) == ParseName(p.cells, r.fixed + 1)
Raw(p, r) == SubSeq(p.cells, r.at, r.next - 1)
RawAll(p, rs) == FlattenSeq([i \in DOMAIN rs |-> Raw(p, rs[i])])

OfType(rs, t) == {i \in DOMAIN rs : rs[i].type = t}
IsCname(p, r) == r.type = "CNAME" /\ DataName(p, r) # Nil

\* scan_resource_records reads every owner; a bad one ends the scan.
Owned(p, rs) == \A i \in DOMAIN rs : Owner(p, rs[i]) # Nil
Scannable(p) == Readable(p) /\ Owned(p, Records(p))

\* Whoever writes the answers out again needs their owners and targets.
AnswersReadable(p) ==
  /\ AnswersRead(p) /\ Owned(p, Answers(p))
  /\ \A i \in OfType(Answers(p), "CNAME") : DataName(p, Answers(p)[i]) # Nil

\* extract_answer_cname_records, without lifetimes
Cnames(p) ==
  IF ~Scannable(p) THEN {}
  ELSE {<<Owner(p, r), DataName(p, r)>> : r \in {r \in ToSet(Answers(p)) : IsCname(p, r)}}

\* extract_first_answer_cname reads up to the first.
HasCname(p) ==
  \E i \in DOMAIN Answers(p) :
    IsCname(p, Answers(p)[i]) /\ Owned(p, SubSeq(Answers(p), 1, i))
-----------------------------------------------------------------------------
(* EDNS *)

Pack(xrcode, version, do) == 4 * xrcode + 2 * version + do

\* build_edns_opt_record
OptRecord(size, xrcode, version, do, options) ==
  <<End, Fixed("OPT", size, Pack(xrcode, version, do), Len(options))>> \o options

\* extract_opt_record_bytes: the first one (options that do not parse, for which
\* extract_edns_opt has none, are not in the model).
HasOpt(p) == OfType(Additional(p), "OPT") # {}
FirstOpt(rs) == rs[Min(OfType(rs, "OPT"))]
RawOpt(p) == Raw(p, FirstOpt(Additional(p)))

\* extract_edns_opt
OptFields(p, r) ==
  [size |-> r.class, xrcode |-> r.ttl \div 4, version |-> (r.ttl \div 2) % 2, do |-> r.ttl % 2,
   options |-> RawData(p, r)]
Opt(p) == OptFields(p, FirstOpt(Additional(p)))

\* append_edns_opt_with_options
AppendOpt(p, record) == [p EXCEPT !.ar = p.ar + 1, !.cells = p.cells \o record]

\* maybe_append_request_edns_opt_with_rcode
ClonedOpt(o, rcode) == OptRecord(o.size, rcode \div 16, 0, o.do, o.options)
CloneOpt(request, p, rcode) ==
  IF HasOpt(request) THEN AppendOpt(p, ClonedOpt(Opt(request), rcode)) ELSE p

\* strip_edns_opt_from_request; what precedes the additional section stays.
Stripped(p, kept, end) ==
  [p EXCEPT !.ar = Len(kept), !.cells = SubSeq(p.cells, 1, end - 1) \o RawAll(p, kept)]
WithoutOpt(p) ==
  Stripped(p, Picked(Additional(p), DOMAIN Additional(p) \ OfType(Additional(p), "OPT")),
           EndOf(SubSeq(Records(p), 1, p.an + p.ns), AnswersFrom(p)))

\* Mutant: the response's own flags are served.
AlignedOptOwnFlags(response, q) ==
  IF HasOpt(response)
  THEN OptRecord(q.size, Opt(response).xrcode, 0, Opt(response).do, Opt(response).options)
  ELSE OptRecord(q.size, 0, 0, q.do, <<>>)

\* The OPT record of a response: size and flags are the request's.
AlignedOpt(response, q) ==
  IF HasOpt(response) THEN OptRecord(q.size, Opt(response).xrcode, 0, q.do, Opt(response).options)
  ELSE OptRecord(q.size, 0, 0, q.do, <<>>)

\* align_response_edns_to_request
Align(response, request) ==
  IF ~Readable(response) \/ ~(HasOpt(request) \/ HasOpt(response)) THEN response
  ELSE IF ~HasOpt(request) THEN WithoutOpt(response)
  ELSE AppendOpt(WithoutOpt(response), AlignedOpt(response, Opt(request)))
-----------------------------------------------------------------------------
(* Lifetimes *)

OrElse(a, b) == IF a # Nil THEN a ELSE b
LeastOf(ttls) == IF ttls = {} THEN Nil ELSE Min(ttls)

\* extract_cache_ttl: the least TTL; OPT has none.
CacheTtl(p) ==
  IF ~Readable(p) THEN Nil
  ELSE LeastOf({r.ttl : r \in {r \in ToSet(Records(p)) : r.type # "OPT"}})

\* extract_negative_cache_ttl: the first SOA of the authority section.
SoaTtl(p, soa) == Min({soa.ttl, Last(RawData(p, soa)).minimum})
NegativeTtl(p) ==
  IF ~Scannable(p) \/ OfType(Authority(p), "SOA") = {} THEN Nil
  ELSE SoaTtl(p, Authority(p)[Min(OfType(Authority(p), "SOA"))])

\* response_code
ResponseCode(p) == p.rcode + (IF HasOpt(p) THEN 16 * Opt(p).xrcode ELSE 0)

\* cache_ttl_if_cacheable
Terminal(p) ==
  Scannable(p) /\ OfType(Authority(p), "SOA") # {} /\ OfType(Authority(p), "NS") = {}
Lifetime(p) ==
  IF ResponseCode(p) = 3 \/ (ResponseCode(p) = 0 /\ p.an = 0 /\ Terminal(p))
  THEN Max({1, OrElse(NegativeTtl(p), OrElse(CacheTtl(p), DefaultTtl))})
  ELSE IF ResponseCode(p) = 0 /\ p.an > 0 THEN Max({1, OrElse(CacheTtl(p), DefaultTtl)})
  ELSE Nil

\* decay_response_ttl_in_place: also what is no TTL, in an OPT record.
Minus(a, b) == IF a > b THEN a - b ELSE 0
Aged(c, fixed, seconds) ==
  [i \in DOMAIN c |-> IF i \in fixed THEN [c[i] EXCEPT !.ttl = Minus(c[i].ttl, seconds)] ELSE c[i]]
Decay(p, seconds) ==
  [p EXCEPT !.cells = Aged(p.cells, {r.fixed : r \in ToSet(Records(p))}, seconds)]
-----------------------------------------------------------------------------
(* Queries and answers of one's own *)

\* build_query, build_query_like_request
BuildQuery(name, type, rd) ==
  [flags |-> IF rd THEN {"rd"} ELSE {}, rcode |-> 0, qd |-> 1, an |-> 0, ns |-> 0, ar |-> 0,
   cells |-> EncodeName(name) \o <<Question(type)>>]
QueryLike(request, name, type, rd) == CloneOpt(request, BuildQuery(name, type, rd), 0)

\* build_dnssec_query_like_request
WithDnssecOk(q) ==
  AppendOpt(WithoutOpt(q), IF HasOpt(q) THEN OptRecord(Opt(q).size, 0, 0, 1, Opt(q).options)
                           ELSE OptRecord(LeastUdpSize, 0, 0, 1, <<>>))
DnssecQuery(request, name, type) == WithDnssecOk(QueryLike(request, name, type, TRUE))

\* build_response_with_rcode: the first question, if there is one.
QuestionOnly(request, rcode, qd) ==
  [flags |-> {"qr", "ra"} \cup (request.flags \cap {"rd"}), rcode |-> rcode % 16,
   qd |-> qd, an |-> 0, ns |-> 0, ar |-> 0,
   cells |-> SubSeq(request.cells, 1, QuestionEnd(request.cells, qd) - 1)]
ResponseWithRcode(request, rcode) ==
  CloneOpt(request, QuestionOnly(request, rcode, IF request.qd = 0 THEN 0 ELSE 1), rcode)

\* edns_version_supported
VersionSupported(request) == HasOpt(request) => Opt(request).version = 0
-----------------------------------------------------------------------------
(* Merging a chain *)

EncodedCname(owner, target, ttl) ==
  EncodeName(owner) \o <<Fixed("CNAME", 1, ttl, Len(target) + 1)>> \o EncodeName(target)

\* After the last answer.
InsertAnswers(p, new) ==
  [p EXCEPT !.an = p.an + Len(new),
            !.cells = SubSeq(p.cells, 1, AnswersEnd(p) - 1)
                      \o FlattenSeq([i \in DOMAIN new |-> EncodedCname(new[i][1], new[i][2], new[i][3])])
                      \o SubSeq(p.cells, AnswersEnd(p), Len(p.cells))]

\* append_cname_answers: those the packet does not have.
Missing(chain, known) ==
  {i \in DOMAIN chain :
     /\ <<chain[i][1], chain[i][2]>> \notin known
     /\ \A j \in 1..(i - 1) : <<chain[j][1], chain[j][2]>> # <<chain[i][1], chain[i][2]>>}
AppendCnames(p, chain) ==
  IF ~AnswersRead(p) THEN p ELSE InsertAnswers(p, Picked(chain, Missing(chain, Cnames(p))))
-----------------------------------------------------------------------------
(* Finalizing a response for the client *)

\* A record written out again: owners in full, CNAMEs too, other data as it is.
Encoded(owner, r, data) == EncodeName(owner) \o <<Fixed(r.type, r.class, r.ttl, Len(data))>> \o data
Reencoded(p, r) ==
  IF r.type = "CNAME" THEN EncodedCname(Owner(p, r), DataName(p, r), r.ttl)
  ELSE Encoded(Owner(p, r), r, RawData(p, r))
ReencodedAll(p, rs) == FlattenSeq([i \in DOMAIN rs |-> Reencoded(p, rs[i])])

\* The records of the chain's last target, if need be out of the additional section.
OwnedBy(p, rs, name, type) == {i \in OfType(rs, type) : Owner(p, rs[i]) = name}
Finals(p, name, type) ==
  IF OwnedBy(p, Answers(p), name, type) # {}
  THEN Picked(Answers(p), OwnedBy(p, Answers(p), name, type))
  ELSE IF Readable(p) /\ Owned(p, Additional(p))
  THEN Picked(Additional(p), OwnedBy(p, Additional(p), name, type))
  ELSE <<>>

ReplaceAnswers(p, new) ==
  [p EXCEPT !.an = Len(new),
            !.cells = QuestionCells(p) \o ReencodedAll(p, new)
                      \o SubSeq(p.cells, AnswersEnd(p), Len(p.cells))]

\* normalize_cname_chain_answers: DNAMEs, the CNAMEs, then the final records.
Target(p) == DataName(p, Answers(p)[Max(OfType(Answers(p), "CNAME"))])
ChainRecords(rs) == Picked(rs, OfType(rs, "DNAME")) \o Picked(rs, OfType(rs, "CNAME"))
EndingIn(p, finals) == IF finals = <<>> THEN p ELSE ReplaceAnswers(p, ChainRecords(Answers(p)) \o finals)
NormalizeChain(p, type) ==
  IF ~AnswersReadable(p) \/ OfType(Answers(p), "CNAME") = {} THEN p
  ELSE EndingIn(p, Finals(p, Target(p), type))

\* rewrite_question_from_request: what follows the question stays as it is.
RewriteQuestion(p, request) ==
  IF AnswersFrom(p) = Nowhere \/ QuestionCells(p) = QuestionCells(request) THEN p
  ELSE [p EXCEPT !.qd = request.qd,
                 !.cells = QuestionCells(request) \o SubSeq(p.cells, AnswersFrom(p), Len(p.cells))]

\* rewrite_question_and_reencode_answers: authority and additional are dropped.
Reencode(p, request) ==
  IF ~AnswersReadable(p) THEN p
  ELSE [p EXCEPT !.qd = request.qd, !.ns = 0, !.ar = 0,
                 !.cells = QuestionCells(request) \o ReencodedAll(p, Answers(p))]

\* normalize_response_for_client_in_place
ForClient(p, request) ==
  [p EXCEPT !.flags = (p.flags \ {"rd", "aa"}) \cup {"qr", "ra"} \cup (request.flags \cap {"rd"})]

\* finalize_response_for_client
Requestioned(p, request) == IF HasCname(p) THEN Reencode(p, request) ELSE RewriteQuestion(p, request)
Ordered(p, request) ==
  IF FirstType(request) \in Address /\ HasCname(p)
  THEN Requestioned(NormalizeChain(p, FirstType(request)), request)
  ELSE RewriteQuestion(p, request)
Finalize(p, request) == ForClient(Align(Ordered(p, request), request), request)
-----------------------------------------------------------------------------
(* Sending *)

\* Rank of an address in an order of preference; the others follow.
FirstOf(S, otherwise) == IF S = {} THEN otherwise ELSE Min(S)
RankOf(preferred, ip, i) ==
  FirstOf({n \in DOMAIN preferred : preferred[n] = ip}, Len(preferred) + i)
Ranks(p, rs, slots, preferred) == [i \in slots |-> RankOf(preferred, RawData(p, rs[i])[1].v, i)]

\* The slot whose record comes to slot i: as many rank before it as are before i.
Before(rank, i, j) == rank[i] < rank[j] \/ (rank[i] = rank[j] /\ i < j)
ComesTo(slots, rank, i) ==
  CHOOSE j \in slots :
    Cardinality({l \in slots : Before(rank, l, j)}) = Cardinality({l \in slots : l < i})
Sorted(rs, slots, rank) ==
  [i \in DOMAIN rs |-> IF i \in slots THEN rs[ComesTo(slots, rank, i)] ELSE rs[i]]

\* reorder_answer_address_records: addresses trade places by preference,
\* everything else keeps its own.
AddressSlots(rs) == {i \in DOMAIN rs : rs[i].type \in Address}
InOrder(p, rs) ==
  [p EXCEPT !.cells = SubSeq(p.cells, 1, AnswersFrom(p) - 1) \o RawAll(p, rs)
                      \o SubSeq(p.cells, AnswersEnd(p), Len(p.cells))]
Reorder(p, preferred) ==
  IF ~AnswersRead(p) \/ Cardinality(AddressSlots(Answers(p))) <= 1 THEN p
  ELSE InOrder(p, Sorted(Answers(p), AddressSlots(Answers(p)),
                         Ranks(p, Answers(p), AddressSlots(Answers(p)), preferred)))

\* udp_payload_size_for_request
UdpSize(request) == IF HasOpt(request) THEN Max({LeastUdpSize, Opt(request).size}) ELSE PlainUdpSize

CutToQuestion(p) ==
  [p EXCEPT !.flags = p.flags \cup {"tc"}, !.an = 0, !.ns = 0, !.ar = 0,
            !.cells = SubSeq(p.cells, 1, QuestionEnd(p.cells, 1) - 1)]

\* Mutant: what the EDNS record of a truncated response needs is not counted.
WithOptUnmeasured(request, p) == IF HasOpt(request) THEN AppendOpt(p, RawOpt(request)) ELSE p

\* The request's own OPT record, if it fits.
WithOpt(request, p) ==
  IF HasOpt(request) /\ Len(p.cells) + Len(RawOpt(request)) <= UdpSize(request)
  THEN AppendOpt(p, RawOpt(request)) ELSE p

\* truncate_response_for_udp
TruncateForUdp(request, response) ==
  IF Len(response.cells) <= UdpSize(request) \/ ~HasQuestion(response) THEN response
  ELSE WithOpt(request, CutToQuestion(response))
-----------------------------------------------------------------------------
(* The way of an exchange *)

\* A header and cells; the length of a record is a number of cells.
IsCell(c) ==
  c.k = "rr" => c = Fixed(c.type, c.class, c.ttl, c.len) /\ c.ttl \in Nat /\ c.len \in Nat
IsPacket(p) ==
  /\ p = [flags |-> p.flags, rcode |-> p.rcode, qd |-> p.qd, an |-> p.an, ns |-> p.ns, ar |-> p.ar,
          cells |-> p.cells]
  /\ p.qd \in {0, 1} /\ p.an \in Nat /\ p.ns \in Nat /\ p.ar \in Nat
  /\ p.cells \in Seq(ToSet(p.cells)) /\ \A i \in DOMAIN p.cells : IsCell(p.cells[i])
IsLink(l) ==
  /\ l[1] \in Seq(ToSet(l[1])) /\ l[2] \in Seq(ToSet(l[2])) /\ l[3] \in Nat

ASSUME BoundsAssumption ==
  /\ MaxPointers \in Nat /\ PlainUdpSize \in Nat /\ LeastUdpSize \in Nat
  /\ DefaultTtl \in Nat /\ MaxAge \in Nat
ASSUME ExchangesAssumption ==
  \A x \in Exchanges :
    /\ IsPacket(x.request) /\ HasQuestion(x.request)
    /\ IsPacket(x.response)
    /\ x.chain \in Seq(ToSet(x.chain)) /\ \A l \in ToSet(x.chain) : IsLink(l)
ASSUME RankingsAssumption == \A r \in Rankings : r \in Seq(ToSet(r))

VARIABLES
  exchange,   \* the request, the response it gets and the chain before it
  stage,
  packet,     \* as it is now
  age         \* seconds since it was cached

wireVars == <<exchange, stage, packet, age>>

WireInit ==
  /\ exchange \in Exchanges
  /\ stage = "asked" /\ packet = exchange.request /\ age = 0

\* The ingress refuses an EDNS version it does not know, and sends the refusal as it is.
BadVersion ==
  /\ stage = "asked" /\ ~VersionSupported(exchange.request)
  /\ packet' = ResponseWithRcode(exchange.request, 16)
  /\ stage' = "sent"
  /\ UNCHANGED <<exchange, age>>

Query(name, dnssec) ==
  /\ stage = "asked" /\ VersionSupported(exchange.request)
  /\ packet' = IF dnssec THEN DnssecQuery(exchange.request, name, "DNSKEY")
               ELSE QueryLike(exchange.request, name, FirstType(exchange.request), FALSE)
  /\ stage' = "queried"
  /\ UNCHANGED <<exchange, age>>

\* The response arrives and the chain that led to it is put in.
Merge ==
  /\ stage = "queried"
  /\ packet' = AppendCnames(exchange.response, exchange.chain)
  /\ stage' = "merged"
  /\ UNCHANGED <<exchange, age>>

\* A hit finds the response as old as it is; past its lifetime there is none.
Hit(seconds) ==
  /\ stage = "merged" /\ age = 0
  /\ Lifetime(packet) # Nil
  /\ seconds \in 1..MaxAge /\ seconds <= Lifetime(packet)
  /\ age' = seconds
  /\ packet' = Decay(packet, seconds)
  /\ UNCHANGED <<exchange, stage>>

FinalizeResponse ==
  /\ stage = "merged"
  /\ packet' = Finalize(packet, exchange.request)
  /\ stage' = "final"
  /\ UNCHANGED <<exchange, age>>

\* apply_ip_health_policy
Prefer(ranking) ==
  /\ stage = "final"
  /\ packet' = Reorder(packet, ranking)
  /\ stage' = "ready"
  /\ UNCHANGED <<exchange, age>>

SendUdp ==
  /\ stage = "ready"
  /\ packet' = TruncateForUdp(exchange.request, packet)
  /\ stage' = "sent"
  /\ UNCHANGED <<exchange, age>>

WireNext ==
  \/ BadVersion
  \/ \E dnssec \in BOOLEAN : Query(ParseName(exchange.request.cells, 1), dnssec)
  \/ Merge
  \/ \E s \in 1..MaxAge : Hit(s)
  \/ FinalizeResponse
  \/ \E ranking \in Rankings : Prefer(ranking)
  \/ SendUdp
-----------------------------------------------------------------------------
\* A client whose request has an OPT record gets one, with the request's size
\* and DO bit and version 0, and no other client does, whatever readable
\* response the upstream sent, for whose OPT, and however long it was cached.
\* Only a response that was cut down to its question goes without.
OptMirrorsRequest ==
  stage \in {"final", "ready", "sent"} /\ Readable(exchange.response) =>
    IF HasOpt(packet)
    THEN /\ HasOpt(exchange.request) /\ Opt(packet).version = 0
         /\ Opt(packet).size = Opt(exchange.request).size /\ Opt(packet).do = Opt(exchange.request).do
    ELSE HasOpt(exchange.request) => "tc" \in packet.flags /\ packet.an + packet.ns + packet.ar = 0

\* An answer that goes out over UDP fits the size the client announced, unless
\* the question alone does not.
SentFits ==
  stage = "sent" /\ VersionSupported(exchange.request) /\ HasQuestion(exchange.response) =>
    \/ Len(packet.cells) <= UdpSize(exchange.request)
    \/ packet.an + packet.ns + packet.ar = 0

\* A record as a reader of the packet sees it, names resolved.
Names(p, r) ==
  {ParseName(p.cells, i) : i \in {i \in (r.fixed + 1)..(r.next - 1) :
     /\ p.cells[i].k \in {"label", "end", "ptr"}
     /\ i = r.fixed + 1 \/ p.cells[i - 1].k # "label"}}
Meaning(p, rs) ==
  {[owner |-> Owner(p, r), type |-> r.type, names |-> Names(p, r),
    rest |-> {c \in ToSet(RawData(p, r)) : c.k = "data"}] : r \in ToSet(rs)}

\* What a client may be told: the records received and the chain before them.
Known ==
  Meaning(exchange.response, Answers(exchange.response) \o Additional(exchange.response)) \cup
  {[owner |-> c[1], type |-> "CNAME", names |-> {c[2]}, rest |-> {}] : c \in ToSet(exchange.chain)}

\* The records of the answer a client gets are records that were received or
\* collected on the way, their names unchanged.
NamesSurvive ==
  stage \in {"final", "ready", "sent"} =>
    AnswersReadable(packet) /\ Meaning(packet, Answers(packet)) \subseteq Known

\* ... whenever the response's answers can be read and it has the request's
\* question, or is re-encoded as the end of a chain to an address.
NamesSurviveOwnQuestion ==
  /\ AnswersReadable(exchange.response)
  /\ \/ QuestionCells(exchange.response) = QuestionCells(exchange.request)
     \/ FirstType(exchange.request) \in Address /\ HasCname(AppendCnames(exchange.response, exchange.chain))
  => NamesSurvive
=============================================================================
