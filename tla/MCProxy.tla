------------------------------ MODULE MCProxy ------------------------------
(***************************************************************************)
(* Proxy with small constants for TLC.                                     *)
(***************************************************************************)
EXTENDS Proxy
=============================================================================
