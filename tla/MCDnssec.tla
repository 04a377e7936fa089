------------------------------ MODULE MCDnssec ------------------------------
(* Three signed zones below a signed root: 1 denies with NSEC and has a wildcard
   below an empty non-terminal, 2 denies with opt-out NSEC3 and has a wildcard
   at its apex and an empty non-terminal, 3 denies with NSEC and has a wildcard
   at its apex; 1 and 2 have unsigned delegations.  The denials of 1 and 2 are
   put together from any of the zone's records, those of 3 only as RFC 4035
   composes them. *)
EXTENDS Dnssec

Key(z, id) == [zone |-> z, id |-> id]
Current(z) == Key(z, "current")
Incoming(z) == Key(z, "incoming")  \* published ahead of a roll
Foreign(z) == Key(z, "foreign")    \* never published by z

MCAnchors == {Current(<<>>)}

\* name -> types, per zone; delegations are the names with NS but no SOA.
ZoneData ==
  << (<<1>> :> {"SOA", "NS", "A"} @@ <<1, 2>> :> {"A"} @@ <<1, 2, 0>> :> {"A"} @@ <<1, 4, 0>> :> {"A"} @@ <<1, 5>> :> {"NS"}),
     (<<2>> :> {"SOA", "NS"} @@ <<2, 0>> :> {"TXT"} @@ <<2, 1, 1>> :> {"A"} @@ <<2, 1, 5>> :> {"NS"}
        @@ <<2, 5>> :> {"NS"}),
     (<<3>> :> {"SOA", "NS"} @@ <<3, 0>> :> {"TXT"} @@ <<3, 2>> :> {"A"} @@ <<3, 2, 4>> :> {"A"}
        @@ <<3, 6>> :> {"CNAME"}) >>

Owners(z) == DOMAIN ZoneData[z]
Exists(z, n) == \E o \in Owners(z) : Len(n) <= Len(o) /\ TrimTo(o, Len(n)) = n
TypesAt(z, n) == IF n \in Owners(z) THEN ZoneData[z][n] ELSE {}
Encloser(z, n) == TrimTo(n, Max({k \in 0..Len(n) : Exists(z, TrimTo(n, k))}))
SourceOf(z, n) == IF Exists(z, n) THEN n ELSE Wildcard(Encloser(z, n))

IsCut(z, n) == "NS" \in TypesAt(z, n) /\ "SOA" \notin TypesAt(z, n)

\* What the zone says of a question, unless it leaves that to another zone.
Delegated(z, q) ==
  \E k \in 0..Len(q.name) : IsCut(z, TrimTo(q.name, k)) /\ (k < Len(q.name) \/ q.type # "DS")
SaysNxdomain(z, q) == ~Delegated(z, q) /\ ~Exists(z, SourceOf(z, q.name))
SaysData(z, q) ==
  ~Delegated(z, q) /\ TypesAt(z, SourceOf(z, q.name)) \cap {q.type, "CNAME"} # {}
SaysNodata(z, q) == ~Delegated(z, q) /\ ~SaysNxdomain(z, q) /\ ~SaysData(z, q)

\* The data of a record that the zone has.
Own(t) == IF t = "CNAME" THEN <<2, 1, 1>> ELSE "own"

Code(n) == LET at(i) == IF i \in DOMAIN n THEN n[i] + 1 ELSE 0 IN 81 * at(1) + 9 * at(2) + at(3)
MCHash == [s \in {1} |-> [n \in {<<>>} \cup {<<2>>} \cup ({2} \X (0..7)) \cup ({2} \X (0..7) \X (0..7)) |->
             (307 * Code(n)) % 1009]]

\* The successor of an element of a cyclic order given by "before".
NextOf(x, S, before(_, _)) ==
  LET least(T) == CHOOSE y \in T : \A w \in T \ {y} : before(y, w)
      later == {y \in S : before(x, y)}
  IN IF later # {} THEN least(later) ELSE least(S)

Nsec(z, n) == [name |-> n, type |-> "NSEC",
               data |-> [next |-> NextOf(n, Owners(z), Less), types |-> TypesAt(z, n)]]

\* NSEC3 has empty non-terminals too and leaves unsigned delegations out, in
\* spans that say so.
Hashed == {<<2>>, <<2, 0>>, <<2, 1>>, <<2, 1, 1>>}
Nsec3(n) ==
  LET h == MCHash[1][n]
      r(o) == [name |-> <<2, h>>, type |-> "NSEC3",
               data |-> [next |-> NextOf(h, {MCHash[1][x] : x \in Hashed}, LAMBDA a, b : a < b),
                         types |-> TypesAt(2, n), optOut |-> o, salt |-> 1]]
  IN r(\E d \in Owners(2) : IsCut(2, d) /\ Nsec3Covers(r(FALSE), MCHash[1][d]))

Signed(r, k) ==
  [name |-> r.name, covers |-> r.type, by |-> k, source |-> r.name, over |-> {r.data}, current |-> TRUE]
Message(q, rcode, answer, authority, sigs) ==
  [question |-> q, rcode |-> rcode, answer |-> answer, authority |-> authority, additional |-> {},
   sigs |-> sigs]
Q(n, t) == [name |-> n, type |-> t]

Denial(z, q, rcode, records) ==
  Message(q, rcode, {}, SetToSeq(records), {Signed(r, Current(<<z>>)) : r \in records})
Refer(z, q, delegation, records) ==
  Message(q, "noerror", {}, << [name |-> delegation, type |-> "NS", data |-> "ns"] >> \o SetToSeq(records),
          {Signed(r, Current(<<z>>)) : r \in records})

\* What RFC 4035 and RFC 5155 have a server compose.
NsecDenial(z, q) ==
  LET covers(n) == {Nsec(z, o) : o \in {o \in Owners(z) : NsecCovers(Nsec(z, o), n)}}
      s == SourceOf(z, q.name)
  IN IF SaysNxdomain(z, q) THEN Denial(z, q, "nxdomain", covers(q.name) \cup covers(s))
     ELSE Denial(z, q, "noerror", {Nsec(z, s)} \cup (IF s = q.name THEN {} ELSE covers(q.name)))
Nsec3Denial(q) ==
  LET covers(n) == {Nsec3(o) : o \in {o \in Hashed : Nsec3Covers(Nsec3(o), MCHash[1][n])}}
      e == Encloser(2, q.name)
      s == SourceOf(2, q.name)
      encloser == {Nsec3(e)} \cup covers(NextCloser(q.name, e))
  IN IF s \in Hashed /\ s = q.name THEN Denial(2, q, "noerror", {Nsec3(s)})
     ELSE IF s \in Hashed THEN Denial(2, q, "noerror", encloser \cup {Nsec3(s)})
     ELSE IF q.type = "DS" THEN
       Denial(2, q, "noerror", {Nsec3(<<2>>)} \cup covers(q.name))
     ELSE Denial(2, q, "nxdomain", encloser \cup covers(s))

Asked1 == {Q(<<1, 3>>, "A"), Q(<<1, 2>>, "A"), Q(<<1, 2>>, "TXT"), Q(<<1, 2, 1>>, "A"), Q(<<1, 3>>, "TXT"), Q(<<1, 4>>, "A"),
           Q(<<1, 4, 1>>, "A"), Q(<<1, 4, 1>>, "TXT"), Q(<<1, 5>>, "DS"), Q(<<1, 5>>, "A"), Q(<<1, 5, 1>>, "A")}
Asked2 == {Q(<<2, 3>>, "A"), Q(<<2, 3>>, "TXT"), Q(<<2, 1>>, "A"), Q(<<2, 1, 7>>, "A"), Q(<<2, 5>>, "DS"),
           Q(<<2, 1, 5>>, "A")}
Asked3 == {Q(<<3, 5>>, "A"), Q(<<3, 2, 3>>, "A"), Q(<<3, 2>>, "TXT")}

Partial ==
  {Denial(1, q, rcode, {Nsec(1, n) : n \in S}) :
     q \in Asked1, rcode \in {"noerror", "nxdomain"}, S \in SUBSET Owners(1)} \cup
  {Denial(2, q, rcode, {Nsec3(n) : n \in S}) :
     q \in Asked2, rcode \in {"noerror", "nxdomain"}, S \in SUBSET Hashed}

RR(n, t, data) == [name |-> n, type |-> t, data |-> data]
Www == RR(<<1, 2>>, "A", "own")
Positive(data, k, current) ==
  Message(Q(<<1, 2>>, "A"), "noerror", {[Www EXCEPT !.data = data]}, <<>>,
          {[Signed(Www, k) EXCEPT !.current = current, !.over = {IF k = Foreign(<<1>>) THEN data ELSE "own"}]})

\* Signed by two zones: an alias in zone 3 and what it leads to in zone 2.
Crossing == LET a == RR(<<3, 6>>, "CNAME", <<2, 1, 1>>)
                b == RR(<<2, 1, 1>>, "A", "own")
            IN Message(Q(<<3, 6>>, "A"), "noerror", {a, b}, <<>>,
                       {Signed(a, Current(<<3>>)), Signed(b, Current(<<2>>))})

\* An answer expanded from a wildcard, with records that deny the name itself.
Expanded(z, n, t, source, records) ==
  LET sigs == {[Signed(RR(n, t, "own"), Current(<<z>>)) EXCEPT !.source = source]}
  IN Message(Q(n, t), "noerror", {RR(n, t, "own")}, SetToSeq(records),
             sigs \cup {Signed(r, Current(<<z>>)) : r \in records})

\* The empty non-terminal of zone 1 is left out: what honestly denies data at it
\* is refused.
MCHonest ==
  {Positive("own", Current(<<1>>), TRUE), Expanded(1, <<1, 4, 1>>, "A", <<1, 4, 0>>, {Nsec(1, <<1, 4, 0>>)})} \cup
  {NsecDenial(1, q) : q \in {q \in Asked1 : q.name # <<1, 4>> /\ (SaysNxdomain(1, q) \/ SaysNodata(1, q))}} \cup
  {Nsec3Denial(q) : q \in {q \in Asked2 : SaysNxdomain(2, q) \/ SaysNodata(2, q)}} \cup
  {NsecDenial(3, q) : q \in {q \in Asked3 : SaysNxdomain(3, q) \/ SaysNodata(3, q)}} \cup
  {Refer(1, Q(<<1, 5, 1>>, "A"), <<1, 5>>, {Nsec(1, <<1, 5>>)}),
   Refer(2, Q(<<2, 5, 1>>, "A"), <<2, 5>>, Range(Nsec3Denial(Q(<<2, 5>>, "DS")).authority))}

MCResponses == MCHonest \cup Partial \cup
  {Positive("other", Current(<<1>>), TRUE), Positive("own", Current(<<1>>), FALSE),
   Positive("other", Foreign(<<1>>), TRUE), Crossing,
   [Positive("own", Current(<<1>>), TRUE) EXCEPT !.answer = @ \cup {RR(<<1, 3>>, "A", "other")}],
   [Positive("own", Current(<<1>>), TRUE) EXCEPT !.additional = {[Www EXCEPT !.data = "other"]}],
   Expanded(3, <<3, 2>>, "TXT", <<3, 0>>, {}), Expanded(1, <<1, 2>>, "A", <<1, 4, 0>>, {}),
   Message(Q(<<1, 2>>, "A"), "noerror", {Www}, <<>>, {})}

\* All records of the answer are the zone's, or it rightly has none.
MCAgreeing ==
  {m \in MCResponses :
     LET z == m.question.name[1]
     IN IF m.answer # {}
        THEN \A r \in m.answer :
               LET o == r.name[1]
               IN r.type \in TypesAt(o, SourceOf(o, r.name)) /\ r.data = Own(r.type)
        ELSE IF m.rcode = "nxdomain" THEN SaysNxdomain(z, m.question)
        ELSE SaysNodata(z, m.question) \/ (Delegated(z, m.question) /\ DelegationName(m) # Absent)}

\* What each zone signs and a response may hold.
MCContents ==
  [z \in {<<>>, <<1>>, <<2>>, <<3>>} |->
    IF z = <<>> THEN {}
    ELSE UNION {{RR(n, t, {Own(t)}) : t \in TypesAt(z[1], n)} : n \in Owners(z[1])} \cup
         {[r EXCEPT !.data = {@}] : r \in IF z = <<2>> THEN {Nsec3(n) : n \in Hashed}
                                           ELSE {Nsec(z[1], n) : n \in Owners(z[1])}}]

Reply(published, z, type, data, sigs) ==
  [published |-> published, answer |-> {[name |-> z, type |-> type, data |-> d] : d \in data},
   authority |-> <<>>, additional |-> {},
   sigs |-> {[name |-> z, covers |-> type, by |-> k, source |-> z, over |-> data, current |-> TRUE] :
             k \in sigs}]

MCKeyReplies ==
  [z \in {<<>>, <<1>>, <<2>>, <<3>>} |->
    {Reply(TRUE, z, "DNSKEY", {Current(z)}, {Current(z)})} \cup
    IF z # <<1>> THEN {Absent}
    ELSE {Reply(TRUE, z, "DNSKEY", {Current(z), Incoming(z)}, {Current(z)}),
          Reply(FALSE, z, "DNSKEY", {Current(z)}, {}), Reply(FALSE, z, "DNSKEY", {Foreign(z)}, {Foreign(z)})}]
MCDsReplies ==
  [z \in {<<1>>, <<2>>, <<3>>} |->
    {Reply(TRUE, z, "DS", {Current(z)}, {Current(<<>>)})} \cup
    IF z # <<1>> THEN {Absent}
    ELSE {Reply(FALSE, z, "DS", {Foreign(z)}, {Foreign(z)}), Reply(FALSE, z, "DS", {}, {})}]
=============================================================================
