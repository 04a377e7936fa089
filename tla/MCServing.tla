----------------------------- MODULE MCServing ------------------------------
(* Requests with and without EDNS, and responses that compress their names the
   ways servers do: to the question, to an earlier owner, into a target. *)
EXTENDS Serving

www == <<"www", "corp">>
cdn == <<"edge", "cdn", "net">>
Data(v) == [k |-> "data", v |-> v]
Minimum(n) == [k |-> "data", v |-> "soa", minimum |-> n]

Packet(qname, type, flags, rcode, an, ns, ar, cells) ==
  [flags |-> flags, rcode |-> rcode, qd |-> 1, an |-> an, ns |-> ns, ar |-> ar,
   cells |-> EncodeName(qname) \o <<Question(type)>> \o cells]
Ask(type, ar, opt) == Packet(www, type, {"rd"}, 0, 0, 0, ar, opt)
Record(owner, type, ttl, data) == owner \o <<Fixed(type, 1, ttl, Len(data))>> \o data
ToQuestion == <<Pointer(1)>>

Opts == { <<>>, OptRecord(5, 0, 0, 1, <<>>), OptRecord(12, 0, 0, 0, <<Data("cookie")>>),
          OptRecord(40, 0, 0, 1, <<>>) }
Requests == {Ask(t, IF o = <<>> THEN 0 ELSE 1, o) : t \in {"A", "TXT"}, o \in Opts}

Reply(qname, type, an, ns, ar, cells) == Packet(qname, type, {"qr", "aa"}, 0, an, ns, ar, cells)
Upstream == OptRecord(30, 0, 0, 1, <<Data("nsid")>>)
BadCookie == OptRecord(30, 1, 0, 1, <<Data("nsid")>>)

\* To the question itself.
Direct(t) ==
  { Reply(www, t, 2, 0, 0, Record(ToQuestion, t, 3, <<Data("one")>>) \o Record(ToQuestion, t, 1, <<Data("two")>>)),
    Reply(www, t, 1, 0, 1, Record(EncodeName(www), t, 0, <<Data("one")>>) \o Upstream),
    Reply(www, t, 2, 0, 1, Record(ToQuestion, "CNAME", 3, EncodeName(cdn))
                           \o Record(<<Pointer(7)>>, t, 2, <<Data("two")>>) \o Upstream),
    Reply(www, t, 2, 0, 1, Record(ToQuestion, "CNAME", 3, <<Label("edge"), Pointer(2)>>)
                           \o Record(ToQuestion, "DNAME", 2, <<Data("d")>>)
                           \o Record(<<Pointer(7)>>, t, 2, <<Data("glue")>>)),
    Reply(www, t, 0, 1, 1, Record(<<Pointer(2)>>, "SOA", 3, <<Label("ns"), Pointer(2), Pointer(1), Minimum(2)>>)
                           \o Upstream),
    [Reply(www, t, 0, 1, 0, Record(<<End>>, "SOA", 1, <<End, End, Minimum(4)>>)) EXCEPT !.rcode = 3],
    [Reply(www, t, 0, 0, 1, BadCookie) EXCEPT !.rcode = 2],
    \* Fewer records than it counts, an owner that is none, and a response without a question.
    Reply(www, t, 2, 0, 1, Record(ToQuestion, t, 3, <<Data("one")>>) \o Upstream),
    Reply(www, t, 1, 0, 1, Record(<<Pointer(40)>>, t, 3, <<Data("one")>>) \o Upstream),
    [Reply(www, t, 0, 0, 0, <<>>) EXCEPT !.qd = 0, !.cells = <<>>] }

\* To the last target of a chain.
Chained(t) ==
  { Reply(cdn, t, 1, 0, 0, Record(ToQuestion, t, 3, <<Data("one")>>)),
    Reply(cdn, t, 1, 1, 0, Record(ToQuestion, "CNAME", 3, <<Label("far"), Pointer(2)>>)
                           \o Record(<<Pointer(2)>>, "SOA", 3, <<Label("ns"), Pointer(2), Pointer(1), Minimum(2)>>)),
    Reply(cdn, t, 2, 0, 1, Record(ToQuestion, t, 3, <<Data("one")>>) \o Record(ToQuestion, t, 3, <<Data("two")>>)
                           \o Upstream),
    Reply(cdn, t, 1, 1, 1, Record(ToQuestion, t, 2, <<Data("one")>>)
                           \o Record(<<Pointer(2)>>, "NS", 2, <<Label("ns"), Pointer(2)>>)
                           \o Record(<<Pointer(11)>>, t, 2, <<Data("glue")>>)) }

MCExchanges ==
  UNION {{[request |-> r, response |-> m, chain |-> <<>>] : m \in Direct(FirstType(r))} \cup
         {[request |-> r, response |-> m, chain |-> << <<www, cdn, 2>>, <<www, cdn, 2>> >>] :
            m \in Chained(FirstType(r))} : r \in Requests} \cup
  {[request |-> Ask("A", 1, OptRecord(8, 0, 1, 1, <<>>)), response |-> m, chain |-> <<>>] : m \in Direct("A")}
\* One client's lookup, over and over, while the manager works.
MCWatched == {x \in MCExchanges : x.request = Ask("A", 0, <<>>) /\ x.response.an = 2 /\ x.response.ar = 0
                                    /\ x.chain = <<>>}
MCLookups == {[domain |-> www, ips |-> <<"one", "two">>], [domain |-> www, ips |-> <<"two">>]}
MCRankings == {<<>>, <<"two", "one">>, <<"glue">>}
=============================================================================
