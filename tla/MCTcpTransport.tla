-------------------------- MODULE MCTcpTransport --------------------------
(* Small instances of TcpTransport for TLC. *)
EXTENDS TcpTransport
=============================================================================
