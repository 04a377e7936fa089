---------------------------- MODULE MCForwarding ----------------------------
(* Small instances of Forwarding for TLC. *)
EXTENDS Forwarding

CONSTANTS a, b, c

MCNames == {a, b, c}
MCAsked == {a, b}

\* a is an alias: of an address, of a chain of two CNAMEs to an address or to
\* nothing, or of a loop further on.
Zone(x, y) == [n \in {a, b, c} |-> CASE n = a -> b [] n = b -> x [] n = c -> y]
MCZones == {Zone("address", "negative"), Zone(c, "address"), Zone(c, "negative"), Zone(c, b)}
=============================================================================
