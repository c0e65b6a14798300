---------------------------- MODULE MCTcpClient ----------------------------
(***************************************************************************)
(* TcpClient with small constants for TLC, given in the configuration.     *)
(***************************************************************************)
EXTENDS TcpClient
=============================================================================
