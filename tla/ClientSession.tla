--------------------------- MODULE ClientSession ---------------------------
(***************************************************************************)
(* What a NetStack promises about each TCP connection, seen from the       *)
(* application: its session is opened once, delivers a prefix of what the  *)
(* peer wrote, each unit at most once, and is closed, if at all, once and  *)
(* only after everything the peer wrote has been delivered. (The callbacks *)
(* onClientConnect, onReceiveClientData and onClientDisconnect, and what   *)
(* they publish, in net-stack/NetStack.cpp.)                               *)
(***************************************************************************)
EXTENDS Naturals

CONSTANT Conn       \* the connections

VARIABLES
  session,          \* "none", "up" or "down", for each connection
  written,          \* units the peer has written
  delivered         \* units published for it

sessionVars == <<session, written, delivered>>

Init ==
  /\ session = [c \in Conn |-> "none"]
  /\ written = [c \in Conn |-> 0]
  /\ delivered = [c \in Conn |-> 0]

(* The peer may write before its session is opened, never after its end. *)
Write(c) ==
  /\ session[c] # "down"
  /\ written' = [written EXCEPT ![c] = @ + 1]
  /\ UNCHANGED <<session, delivered>>

Open(c) ==
  /\ session[c] = "none"
  /\ session' = [session EXCEPT ![c] = "up"]
  /\ UNCHANGED <<written, delivered>>

Deliver(c) ==
  /\ session[c] = "up"
  /\ \E n \in 1 .. written[c] - delivered[c] :
       delivered' = [delivered EXCEPT ![c] = @ + n]
  /\ UNCHANGED <<session, written>>

Close(c) ==
  /\ session[c] = "up" /\ delivered[c] = written[c]
  /\ session' = [session EXCEPT ![c] = "down"]
  /\ UNCHANGED <<written, delivered>>

Next == \E c \in Conn : Write(c) \/ Open(c) \/ Deliver(c) \/ Close(c)

Spec == Init /\ [][Next]_sessionVars
=============================================================================
