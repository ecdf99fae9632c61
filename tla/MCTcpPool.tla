----------------------------- MODULE MCTcpPool -----------------------------
(* A small instance of TcpPool. *)
EXTENDS TcpPool
=============================================================================
