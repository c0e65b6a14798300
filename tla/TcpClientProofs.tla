-------------------------- MODULE TcpClientProofs --------------------------
(***************************************************************************)
(* Proofs about TcpClient, for every value of its constants.               *)
(***************************************************************************)
EXTENDS TcpClient, TLAPS

USE SizeAssumption DEF SizeAssumption

(* The connection is over for the receive thread: it has ended, and all    *)
(* that was received is delivered.                                         *)
Drained == rcvq = 0 /\ tcp \in {"fin", "dead"}

(***************************************************************************)
(* DisconnectIsLast holds because recv() reports the end of the stream     *)
(* only when the queue is empty, nothing can arrive after that, and the    *)
(* thread that calls onDisconnect does nothing else any more.              *)
(***************************************************************************)
IInv ==
  /\ TypeOK
  /\ main = "connect" => receiver = "none"
  /\ receiver = "none" => disconnects = 0
  /\ written = delivered + rcvq + (IF receiver = "deliver" THEN received ELSE 0)
  /\ receiver = "recv" => Readable
  /\ receiver = "notify" => Drained
  /\ disconnects > 0 => disconnects = 1 /\ receiver = "ended" /\ Drained

(* Every step of main keeps IInv.                                          *)
LEMMA MainStep == IInv /\ Main => IInv'
<1> SUFFICES ASSUME IInv, Main PROVE IInv'
  OBVIOUS
<1> USE DEF IInv, Drained, TypeOK, TcpState, MainPC, ReceiverPC, Readable,
            clientVars, recvVars, serverVars, sendVars
<1>1. CASE Connects
  BY <1>1 DEF Connects, ConnectReturns
<1>2. CASE ConnectFails
  BY <1>2 DEF ConnectFails, ConnectReturns
<1>3. CASE Sends
  BY <1>3 DEF Sends, Types
<1>4. CASE SendFails
  BY <1>4 DEF SendFails, Types
<1>5. CASE SendKills
  BY <1>5 DEF SendKills, Types
<1>6. CASE Quit
  BY <1>6 DEF Quit
<1>7. CASE Deleting
  <2>1. CASE FinishStop
    BY <2>1 DEF FinishStop
  <2>2. CASE FinishJoin
    BY <2>2 DEF FinishJoin
  <2>3. CASE FinishClose
    BY <2>3 DEF FinishClose
  <2>4. QED
    BY <1>7, <2>1, <2>2, <2>3 DEF Deleting
<1>8. QED
  BY <1>1, <1>2, <1>3, <1>4, <1>5, <1>6, <1>7 DEF Main

(* Every step of the receive thread keeps IInv.                            *)
LEMMA ReceiveStep == IInv /\ (ReceiveTask \/ CallbackCrashes) => IInv'
<1> SUFFICES ASSUME IInv, ReceiveTask \/ CallbackCrashes PROVE IInv'
  OBVIOUS
<1> USE DEF IInv, Drained, TypeOK, TcpState, MainPC, ReceiverPC, Readable,
            clientVars, recvVars, serverVars, sendVars
<1>1. CASE RecvTest
  BY <1>1 DEF RecvTest
<1>2. CASE RecvSelect
  BY <1>2 DEF RecvSelect
<1>3. CASE RecvData
  BY <1>3 DEF RecvData
<1>4. CASE RecvEnds
  BY <1>4 DEF RecvEnds
<1>5. CASE Deliver
  BY <1>5 DEF Deliver
<1>6. CASE Notify
  BY <1>6 DEF Notify
<1>7. CASE CallbackCrashes
  BY <1>7 DEF CallbackCrashes
<1>8. QED
  BY <1>1, <1>2, <1>3, <1>4, <1>5, <1>6, <1>7 DEF ReceiveTask

(* Every step of the server keeps IInv.                                    *)
LEMMA ServerStep == IInv /\ Server => IInv'
<1> SUFFICES ASSUME IInv, Server PROVE IInv'
  OBVIOUS
<1> USE DEF IInv, Drained, TypeOK, TcpState, MainPC, ReceiverPC, Readable,
            clientVars, recvVars, serverVars, sendVars
<1>1. CASE ServerWrite
  BY <1>1 DEF ServerWrite
<1>2. CASE ServerRead
  BY <1>2 DEF ServerRead
<1>3. CASE ServerClose
  BY <1>3 DEF ServerClose
<1>4. CASE ServerReset
  BY <1>4 DEF ServerReset
<1>5. QED
  BY <1>1, <1>2, <1>3, <1>4 DEF Server

(* IInv is an invariant.                                                   *)
THEOREM Invariance == Spec => []IInv
<1>1. Init => IInv
  <2> SUFFICES ASSUME Init PROVE IInv
    OBVIOUS
  <2> USE DEF Init
  <2>1. TypeOK
    <3>1. m_stop \in BOOLEAN
      BY Zenon
    <3>2. received \in 0 .. MAX_PACKET_SIZE
      OBVIOUS
    <3>3. tcp \in TcpState /\ main \in MainPC /\ receiver \in ReceiverPC
      BY DEF TcpState, MainPC, ReceiverPC
    <3>4. rcvq \in Nat /\ unread \in Nat /\ lines \in Nat
          /\ written \in Nat /\ delivered \in Nat /\ disconnects \in Nat
      OBVIOUS
    <3>5. QED
      BY <3>1, <3>2, <3>3, <3>4, Zenon DEF TypeOK
  <2>2. written = delivered + rcvq + (IF receiver = "deliver" THEN received ELSE 0)
    OBVIOUS
  <2>3. QED
    BY <2>1, <2>2 DEF IInv
<1>2. IInv /\ UNCHANGED vars => IInv'
  BY DEF IInv, Drained, TypeOK, Readable, vars, clientVars, recvVars, serverVars,
         sendVars
<1>3. IInv /\ [Next]_vars => IInv'
  BY <1>2, MainStep, ReceiveStep, ServerStep DEF Next, Done
<1>4. QED
  BY <1>1, <1>3, PTL DEF Spec

(* Every variable keeps its type, and what recv() returns fits the buffer. *)
THEOREM TypeCorrect == Spec => []TypeOK
<1>1. IInv => TypeOK
  BY DEF IInv
<1>2. QED
  BY <1>1, Invariance, PTL

(* The callbacks deliver exactly what the server wrote, and onDisconnect   *)
(* comes once and last, whatever main sends or finishes meanwhile.         *)
THEOREM DisconnectCorrect == Spec => []DisconnectIsLast
<1>1. IInv => DisconnectIsLast
  BY DEF IInv, Drained, TypeOK, DisconnectIsLast
<1>2. QED
  BY <1>1, Invariance, PTL
=============================================================================
