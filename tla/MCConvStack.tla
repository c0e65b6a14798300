---------------------------- MODULE MCConvStack ----------------------------
(***************************************************************************)
(* ConvStack with small constants for TLC: one of two topics is configured *)
(* to be converted to the other, and the other to both.                    *)
(***************************************************************************)
EXTENDS ConvStack

CONSTANTS a, b

MCTopic       == {a, b}
MCSubTopics   == {a}
MCNoTopics    == {}
MCConversions == [t \in MCTopic |-> IF t = a THEN {b} ELSE {}]
MCTargets     == {{a, b}}
=============================================================================
