----------------------------- MODULE MCIterative -----------------------------
(* A small world for Iterative: com, with a server that refers to itself, and
   the zone ex below it, with and without glue. *)
EXTENDS Iterative

CONSTANTS r, c1, c2, e4, e6, hc, he

com == <<"c">>
ex == <<"c", "e">>
www == <<"c", "e", "w">>
al == <<"c", "a">>
lg == <<"c", "g">>      \* an alias of that
lp == <<"c", "l">>      \* an alias of itself

MCNames == {<<>>, com, ex, www, al, lg, lp}
MCAlias == [n \in MCNames |-> CASE n = al -> www [] n = lg -> al [] n = lp -> lp [] OTHER -> None]
MCAddresses == [h \in {hc, he} |-> CASE h = hc -> {c1, c2} [] h = he -> {e4, e6}]
MCFound == [h \in {hc, he} |-> {{}, IF h = hc THEN {c1, c2} ELSE {e4}}]
MCNsOf == [z \in MCNames |-> CASE z = com -> {hc} [] z = ex -> {he} [] OTHER -> {}]

Bare(n) == [about |-> n, rcode |-> "noerror", links |-> {}, leaf |-> None, soa |-> FALSE,
            zones |-> {}, nss |-> {}, glue |-> {}]
Record(n) == [Bare(n) EXCEPT !.leaf = n]
Cname(n) == [Bare(n) EXCEPT !.links = {n}]
NoData(n) == [Bare(n) EXCEPT !.soa = TRUE]
Refused(n) == [Bare(n) EXCEPT !.rcode = "refused"]
Refer(n, z, h, glue) == [Bare(n) EXCEPT !.zones = {z}, !.nss = {h}, !.glue = glue]

Below(z, n) == Encloses(z, n)

MCSays ==
  [s \in {r, c1, c2, e4, e6} |->
    [n \in MCNames |->
      CASE s = r -> IF Below(com, n) THEN {Refer(n, com, hc, {<<hc, c1>>, <<hc, c2>>})} ELSE {NoData(n)}
        [] s = c1 -> CASE Below(ex, n) -> {Refer(n, ex, he, {}), Refer(n, ex, he, {<<he, e4>>, <<he, e6>>})}
                       [] n \in {al, lg, lp} -> {Cname(n)}
                       [] OTHER -> {NoData(n)}
        [] s = c2 -> {Refer(n, com, hc, {})}
        [] OTHER -> CASE n = www -> {Record(n)} [] n = ex -> {Refer(n, com, hc, {})} [] OTHER -> {Refused(n)}]]

MCRecursive ==
  [n \in MCNames |-> IF n = www THEN {Record(n)} ELSE IF n = al THEN {[Cname(n) EXCEPT !.leaf = www]}
                   ELSE IF n = lg THEN {} ELSE {NoData(n)}]

MCAsked == {[name |-> www, kind |-> "address"], [name |-> al, kind |-> "address"], [name |-> lg, kind |-> "address"],
            [name |-> lp, kind |-> "address"], [name |-> www, kind |-> "other"], [name |-> ex, kind |-> "cname"]}
=============================================================================
