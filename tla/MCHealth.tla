------------------------------ MODULE MCHealth ------------------------------
(***************************************************************************)
(* Health with small constants for TLC.                                    *)
(***************************************************************************)
EXTENDS Health
=============================================================================
