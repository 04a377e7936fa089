---------------------------- MODULE MCLocalAnswers ----------------------------
(* A split-horizon configuration: an inside view with a zone and records of its
   own, a view-only one with its zones in a file, a default one with its records
   in a file, and global data for the same names.  A view whose name has a colon
   where that of the inside one has a line gets the same directory. *)
EXTENDS LocalViews

corp == <<"corp">>
www == <<"corp", "www">>
al == <<"corp", "alias">>      \* leads out of its zone
lo == <<"corp", "loop">>
mid == <<"corp", "mid">>
app == <<"app">>               \* an alias in the static records
cdn == <<"cdn">>               \* an alias in the world
edge == <<"edge">>

Rs(s) == [i \in DOMAIN s |-> Record(s[i][1], s[i][2], s[i][3])]

MCConfig == <<
  [name |-> "in_side", dir |-> "in_side", clients |-> << <<0, 0>> >>, mode |-> "global_fallback", recursion |-> TRUE, refs |-> {},
   blocked |-> {}, expandStatic |-> None, expandRecords |-> TRUE,
   zones |-> << [name |-> corp, soa |-> TRUE, records |-> Rs(<< <<www, "A", "in1">>,
                    <<al, "CNAME", app>>, <<lo, "CNAME", lo>>, <<corp, "MX", www>>, <<corp, "MX", Junk>> >>)] >>,
   static |-> Rs(<< <<cdn, "CNAME", edge>> >>), legacy |-> Rs(<< <<edge, "A", "in2">> >>)],
  [name |-> "only", dir |-> "only", clients |-> << <<0>>, <<0, 1>> >>, mode |-> "view_only", recursion |-> FALSE, refs |-> {"zones"},
   blocked |-> {[name |-> edge, below |-> TRUE]}, expandStatic |-> TRUE, expandRecords |-> TRUE,
   zones |-> <<>>,
   static |-> Rs(<< <<corp, "MX", Junk>>, <<app, "CNAME", cdn>> >>), legacy |-> Rs(<< <<www, "A", "only">> >>)],
  [name |-> "default", dir |-> "default", clients |-> <<>>, mode |-> "global_fallback", recursion |-> FALSE, refs |-> {"static"},
   blocked |-> {}, expandStatic |-> FALSE, expandRecords |-> FALSE, zones |-> <<>>,
   static |-> <<>>, legacy |-> <<>>] >>

MCDirOf(view) == IF view = "in:side" THEN "in_side" ELSE view

MCFiles ==
  <<"only", ZonesStem>> :>
    [Blank EXCEPT !.zones = << [name |-> corp, soa |-> TRUE, records |-> Rs(<< <<al, "CNAME", cdn>> >>)] >>] @@
  <<"default", StaticStem>> :> StaticFile(Rs(<< <<lo, "CNAME", al>>, <<www, "A", "in3">> >>))

Bad == Rs(<< <<www, "A", Invalid>> >>)
NoData == [static |-> None, blocked |-> None, records |-> None, zone |-> corp]
Moved == Rs(<< <<al, "CNAME", edge>> >>)
MCDataRequests == {
  <<"in_side", [NoData EXCEPT !.static = Rs(<< <<app, "CNAME", al>> >>), !.blocked = {[name |-> www, below |-> FALSE]}]>>,
  <<"in_side", [NoData EXCEPT !.static = Rs(<< <<edge, "A", "in4">> >>), !.records = Bad]>>,
  <<"in:side", [NoData EXCEPT !.records = Moved]>>}
MCSectionRequests == {
  [static |-> Rs(<< <<edge, "A", "out2">> >>), blocked |-> {}, valid |-> TRUE],
  [static |-> Bad, blocked |-> {}, valid |-> FALSE]}
MCZoneRequests == {
  <<"in_side", [name |-> corp, soa |-> TRUE, records |-> Moved]>>,
  <<"in_side", [name |-> corp, soa |-> TRUE, records |-> Bad]>>}
Like(previous) == [name |-> "in:side", previous |-> previous, mode |-> "global_fallback", clients |-> << <<0, 0>> >>,
                  recursion |-> TRUE, static |-> <<>>, blocked |-> {}]
MCViewRequests == {Like(None), Like("in_side")}
MCViewNames == {"in:side"}
MCZoneNames == {<<"in_side", corp>>, <<"only", corp>>}

MCZones == << [name |-> corp, soa |-> TRUE, records |-> Rs(<< <<www, "A", "out1">>, <<www, "AAAA", Junk>>,
                 <<al, "CNAME", mid>>, <<mid, "CNAME", www>>, <<lo, "SRV", "x">> >>)],
              [name |-> <<>>, soa |-> FALSE, records |-> <<>>] >>
MCStatic == Rs(<< <<app, "CNAME", cdn>>, <<app, "CNAME", edge>>, <<edge, "A", "out2">>, <<edge, "A", "never">> >>)
MCSources == Rs(<< <<cdn, "TXT", "6.6.6.6">> >>)

MCQuestions == ({www, al, lo, app, cdn, edge} \X {"A"}) \cup ({al, app} \X {"AAAA"}) \cup
               {<<corp, "SOA">>, <<corp, "MX">>, <<cdn, "TXT">>, <<app, "ANY">>}

Answer(s) == Packet("noerror", Rs(s))
MCWorld ==
  [q \in ({corp, www, al, mid, lo, app, cdn, edge} \X {"A", "AAAA", "SOA", "MX", "TXT", "ANY"}) |->
    {Error} \cup
    IF q[2] \notin Address THEN {Packet("nxdomain", <<>>)}
    ELSE IF q[1] = cdn THEN {Answer(<< <<cdn, "CNAME", edge>>, <<edge, q[2], "world">> >>)}
    ELSE IF q = <<edge, "AAAA">> THEN {Packet("noerror", <<>>), Answer(<< <<edge, "AAAA", "world6">> >>)}
    ELSE {Answer(<< <<q[1], q[2], "world">> >>)}]
MCBlocked == {[name |-> app, below |-> FALSE]}
MCAllow == << <<0>>, <<1, 0>> >>
MCClients == {<<0, 0>>, <<0, 1>>, <<1, 0>>, <<1, 1>>}
=============================================================================
