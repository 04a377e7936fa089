-------------------------- MODULE MCUdpTransport --------------------------
(* Small instances of UdpTransport for TLC. *)
EXTENDS UdpTransport
=============================================================================
