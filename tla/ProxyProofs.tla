----------------------------- MODULE ProxyProofs -----------------------------
(***************************************************************************)
(* Proofs about Proxy, for any number of messages and rounds.              *)
(***************************************************************************)
EXTENDS Proxy, TLAPS

USE ProxyAssumption DEF ProxyAssumption, NoReply

(* While main waits in Stats(), its request is on its way, or the reply to *)
(* it is, not both; only main's last request is a TERMINATE, so that the   *)
(* proxy thread ends only after it.                                        *)
WaitInv ==
  /\ main = "statsRecv" => request # "TERMINATE" /\ (reply # NoReply => request = "none")
  /\ request = "TERMINATE" \/ thread = "ended" => main \in {"join", "context", "done", "terminated"}

(* The inductive invariant. *)
IInv == TypeOK /\ RequestsAlternate /\ WaitInv

(* IInv holds in every state the proxy can reach. *)
LEMMA Invariance == Spec => []IInv
<1>1. Init => IInv
  BY DEF Init, IInv, TypeOK, RequestsAlternate, WaitInv, MainPC
<1>2. IInv /\ [Next]_vars => IInv'
  <2> SUFFICES ASSUME IInv, [Next]_vars PROVE IInv'
    OBVIOUS
  <2> USE DEF IInv, TypeOK, RequestsAlternate, WaitInv, MainPC, statsVars
  <2>1. CASE ThreadSetup
    BY <2>1 DEF ThreadSetup
  <2>2. CASE Relay
    BY <2>2 DEF Relay
  <2>3. CASE Statistics
    BY <2>3 DEF Statistics
  <2>4. CASE Terminate
    BY <2>4 DEF Terminate
  <2>5. CASE Test
    BY <2>5 DEF Test
  <2>6. CASE StatsSend
    BY <2>6 DEF StatsSend, Sends
  <2>7. CASE StatsRecv
    BY <2>7 DEF StatsRecv, LastStats
  <2>8. CASE Stop
    BY <2>8 DEF Stop, Sends
  <2>9. CASE Join
    BY <2>9 DEF Join
  <2>10. CASE Signal
    BY <2>10 DEF Signal, Interrupted
  <2>11. CASE Deliver
    BY <2>11 DEF Deliver
  <2>12. CASE Listen
    BY <2>12 DEF Listen
  <2>13. CASE StopHealth
    BY <2>13 DEF StopHealth
  <2>14. CASE JoinHealth
    BY <2>14 DEF JoinHealth
  <2>15. CASE CloseContext
    BY <2>15 DEF CloseContext
  <2>16. CASE UNCHANGED vars
    BY <2>16 DEF vars
  <2>17. QED
    BY <2>1, <2>2, <2>3, <2>4, <2>5, <2>6, <2>7, <2>8, <2>9, <2>10, <2>11, <2>12,
       <2>13, <2>14, <2>15, <2>16
    DEF Next, Thread, Main, Done
<1>3. QED
  BY <1>1, <1>2, PTL DEF Spec

(* Every variable of the proxy keeps its type; the gauge, which is         *)
(* incremented by a difference, never becomes negative.                    *)
THEOREM TypeCorrect == Spec => []TypeOK
<1>1. IInv => TypeOK
  BY DEF IInv
<1>2. QED
  BY <1>1, Invariance, PTL

(* Stats() and Stop() never send on the REQ socket while the reply to what *)
(* it sent before is outstanding, whichever call a signal interrupts.      *)
THEOREM RequestsDoAlternate == Spec => []RequestsAlternate
<1>1. IInv => RequestsAlternate
  BY DEF IInv
<1>2. QED
  BY <1>1, Invariance, PTL
=============================================================================
