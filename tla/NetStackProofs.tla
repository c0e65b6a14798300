--------------------------- MODULE NetStackProofs ---------------------------
(***************************************************************************)
(* Proofs about NetStack, for every value of its constants. The invariant  *)
(* of TcpServer carries over, because every step of a NetStack is a step   *)
(* of the TcpServer in it or leaves that alone; the rest relates the       *)
(* server to the life of the object, to its second client table, and to    *)
(* what its callbacks publish.                                             *)
(***************************************************************************)
EXTENDS NetStack, TcpServerProofs

USE FdAssumption, ConnAssumption, SizeAssumption
USE DEF FdAssumption, ConnAssumption, SizeAssumption, INVALID_SOCKET, GetClientInfo, Clients

(* A NetStack implements the TcpServer it contains: each of its steps is   *)
(* one of the server, of the thread that broadcasts, of the owner or of a  *)
(* peer, or leaves all of them as they are.                                *)
LEMMA ServerStep == [NetNext]_netVars => [Next]_vars
<1> SUFFICES ASSUME [NetNext]_netVars PROVE [Next]_vars
  OBVIOUS
<1>1. CASE Main
  BY <1>1 DEF Main, Constructed, ServerOwner, ClearClients, DestroyMembers,
              StopSubscriber, JoinSubscriber, Leave, Next
<1>2. CASE Subscriber
  <2>1. CASE SubTest \/ SubTimeout \/ SubBreaks \/ SubDeadMember \/ SubDeadCall
    BY <2>1 DEF SubTest, SubTimeout, SubBreaks, SubDeadMember, SubDeadCall
  <2>2. CASE SubMessage \/ SubReturn
    BY <2>2 DEF SubMessage, SubReturn, Bcaster, BcastStep, Next
  <2>3. CASE SubBcast
    BY <2>3 DEF SubBcast, Bcaster, BcastStep, Next
  <2>4. CASE SubInterrupted
    BY <2>4 DEF SubInterrupted, Bcaster, Next
  <2>5. QED
    BY <1>2, <2>1, <2>2, <2>3, <2>4 DEF Subscriber, SubRun
<1>3. CASE StackServerTask
  BY <1>3 DEF StackServerTask, Next
<1>4. CASE StackCallback
  BY <1>4 DEF StackCallback, OnClientConnect, OnReceiveClientData,
              PublishThrows, OnClientDisconnect, Callback, Next
<1>5. CASE Peers
  BY <1>5 DEF Peers, Next
<1>6. CASE UNCHANGED netVars
  BY <1>6 DEF netVars
<1>7. QED
  BY <1>1, <1>2, <1>3, <1>4, <1>5, <1>6 DEF NetNext, NetDone

(* A NetStack behaves, seen from its server, as TcpServer specifies, so    *)
(* that everything proved of the server holds of the server in a NetStack. *)
THEOREM ServerImplemented == NetSpec => Spec
<1>1. NetInit => Init
  BY DEF NetInit
<1>2. QED
  BY <1>1, ServerStep, PTL DEF NetSpec, Spec

-----------------------------------------------------------------------------
(***************************************************************************)
(* Types.                                                                  *)
(***************************************************************************)

(* The variables NetStack adds to TcpServer's have their types.            *)
StackTypeOK ==
  /\ phase \in Phase /\ crashed \in BOOLEAN
  /\ m_shutdown \in BOOLEAN /\ sub \in SubState
  /\ publisher \in {"open", "closed"}
  /\ netClients \in [ClientFd -> Conn \cup {NoConn}]
  /\ published \in [Conn -> Nat]
  /\ session \in [Conn -> {"none", "up", "down"}]

(* Every step keeps StackTypeOK.                                            *)
LEMMA StackTypeStep ==
  TypeInv /\ StackTypeOK /\ [NetNext]_netVars => StackTypeOK'
<1> SUFFICES ASSUME TypeInv, StackTypeOK, [NetNext]_netVars
             PROVE  StackTypeOK'
  OBVIOUS
<1> USE DEF StackTypeOK, TypeInv, TypeOK, Phase, SubState, Clients,
            memberVars, serverVars, bcastVars, kernelVars, peerVars, vars,
            stackVars, clientVars
<1>1. CASE Main
  <2>1. CASE Constructed
    BY <1>1, <2>1 DEF Constructed
  <2>2. CASE ServerOwner
    BY <1>1, <2>2 DEF ServerOwner, Owner, StartSucceeds, StartFails, FinishStop, FinishJoin, FinishClose
  <2>3. CASE ClearClients
    BY <1>1, <2>3 DEF ClearClients
  <2>4. CASE DestroyMembers
    BY <1>1, <2>4 DEF DestroyMembers
  <2>5. CASE StopSubscriber
    BY <1>1, <2>5 DEF StopSubscriber
  <2>6. CASE JoinSubscriber
    BY <1>1, <2>6 DEF JoinSubscriber
  <2>7. CASE Leave
    BY <1>1, <2>7 DEF Leave
  <2>8. QED
    BY <1>1, <2>1, <2>2, <2>3, <2>4, <2>5, <2>6, <2>7 DEF Main
<1>2. CASE Subscriber
  <2>1. CASE SubTest
    BY <1>2, <2>1 DEF SubTest
  <2>2. CASE SubTimeout
    BY <1>2, <2>2 DEF SubTimeout
  <2>3. CASE SubMessage
    BY <1>2, <2>3 DEF SubMessage, BcastBegin
  <2>4. CASE SubBreaks \/ SubDeadMember \/ SubDeadCall
    BY <1>2, <2>4 DEF SubBreaks, SubDeadMember, SubDeadCall
  <2>5. CASE SubBcast
    BY <1>2, <2>5 DEF SubBcast, BcastSend, BcastSendFails
  <2>6. CASE SubInterrupted
    BY <1>2, <2>6 DEF SubInterrupted, BcastInterrupted
  <2>7. CASE SubReturn
    BY <1>2, <2>7 DEF SubReturn, BcastEnd
  <2>8. QED
    BY <1>2, <2>1, <2>2, <2>3, <2>4, <2>5, <2>6, <2>7 DEF Subscriber, SubRun
<1>3. CASE StackServerTask
  <2>1. CASE SrvLoop
    BY <1>3, <2>1 DEF SrvLoop, StackServerTask
  <2>2. CASE SrvSelect
    BY <1>3, <2>2 DEF SrvSelect, StackServerTask
  <2>3. CASE SrvScanDone
    BY <1>3, <2>3 DEF SrvScanDone, StackServerTask
  <2>4. ASSUME NEW f \in AllFd, SrvLookup(f)
        PROVE  StackTypeOK'
    BY <1>3, <2>4 DEF SrvLookup, StackServerTask
  <2>5. CASE SrvRecvData
    BY <1>3, <2>5 DEF SrvRecvData, StackServerTask
  <2>6. CASE SrvRecvError
    BY <1>3, <2>6 DEF SrvRecvError, StackServerTask
  <2>7. CASE SrvRecvEof
    BY <1>3, <2>7 DEF SrvRecvEof, StackServerTask
  <2>8. CASE SrvDelete
    BY <1>3, <2>8 DEF SrvDelete, StackServerTask
  <2>9. ASSUME NEW c \in Conn, NEW f \in ClientFd, SrvAccept(c, f)
        PROVE  StackTypeOK'
    BY <1>3, <2>9 DEF SrvAccept, StackServerTask
  <2>10. CASE SrvAcceptFails
    BY <1>3, <2>10 DEF SrvAcceptFails, StackServerTask
  <2>11. CASE SrvRegister
    BY <1>3, <2>11 DEF SrvRegister, StackServerTask
  <2>12. QED
    BY <1>3, <2>1, <2>2, <2>3, <2>4, <2>5, <2>6, <2>7, <2>8, <2>9, <2>10, <2>11 DEF StackServerTask, ServerTask
<1>4. CASE StackCallback
  <2>1. CASE OnClientConnect
    BY <1>4, <2>1 DEF OnClientConnect, PublishClientConnect
  <2>2. CASE OnReceiveClientData
    BY <1>4, <2>2 DEF OnReceiveClientData, PublishClientMsg
  <2>3. CASE PublishThrows
    BY <1>4, <2>3 DEF PublishThrows
  <2>4. CASE OnClientDisconnect
    BY <1>4, <2>4 DEF OnClientDisconnect, PublishDisconnected
  <2>5. QED
    BY <1>4, <2>1, <2>2, <2>3, <2>4 DEF StackCallback
<1>5. CASE Peers
  <2>1. ASSUME NEW c \in Conn, PeerConnect(c)
        PROVE  StackTypeOK'
    BY <1>5, <2>1 DEF PeerConnect, Peers
  <2>2. ASSUME NEW c \in Conn, PeerWrite(c)
        PROVE  StackTypeOK'
    BY <1>5, <2>2 DEF PeerWrite, Peers
  <2>3. ASSUME NEW c \in Conn, PeerRead(c)
        PROVE  StackTypeOK'
    BY <1>5, <2>3 DEF PeerRead, Peers
  <2>4. ASSUME NEW c \in Conn, PeerClose(c)
        PROVE  StackTypeOK'
    BY <1>5, <2>4 DEF PeerClose, Peers
  <2>5. ASSUME NEW c \in Conn, PeerReset(c)
        PROVE  StackTypeOK'
    BY <1>5, <2>5 DEF PeerReset, Peers
  <2>6. QED
    BY <1>5, <2>1, <2>2, <2>3, <2>4, <2>5 DEF Peers, Peer
<1>6. CASE UNCHANGED netVars
  BY <1>6 DEF netVars, vars
<1>7. QED
  BY <1>1, <1>2, <1>3, <1>4, <1>5, <1>6 DEF NetNext, NetDone

(***************************************************************************)
(* The life of the object: the server is started and finished in the phase *)
(* "alive", the subscriber thread handles a message exactly when it        *)
(* broadcasts, a broadcast begun while m_server lived is over when it is   *)
(* destroyed, and the thread is joined before the publisher is closed.     *)
(***************************************************************************)
PhaseInv ==
  /\ phase = "ctor" => owner = "constructed"
  /\ phase \in {"cleared", "dying"} => owner = "finished"
  /\ phase \in {"stopping", "stopped", "gone"} => owner \in {"started", "finished"}
  /\ phase \in {"dying", "stopping", "stopped", "gone"} /\ owner = "finished"
       => bcaster = "idle"
  /\ sub = "handling" <=> bcaster = "sending"
  /\ publisher = "closed" => /\ phase \in {"stopped", "gone"}
                             /\ sub = "ended"

(* Every step keeps PhaseInv.                                               *)
LEMMA PhaseStep ==
  TypeInv /\ StackTypeOK /\ PhaseInv /\ [NetNext]_netVars => PhaseInv'
<1> SUFFICES ASSUME TypeInv, StackTypeOK, PhaseInv, [NetNext]_netVars
             PROVE  PhaseInv'
  OBVIOUS
<1> USE DEF PhaseInv, StackTypeOK, TypeInv, TypeOK, Phase, SubState,
            Quitting, MutexFree, memberVars, serverVars, bcastVars, kernelVars, peerVars, vars,
            stackVars, clientVars
<1>1. CASE Main
  <2>1. CASE Constructed
    BY <1>1, <2>1 DEF Constructed
  <2>2. CASE ServerOwner
    BY <1>1, <2>2 DEF ServerOwner, Owner, StartSucceeds, StartFails, FinishStop, FinishJoin, FinishClose
  <2>3. CASE ClearClients
    BY <1>1, <2>3 DEF ClearClients
  <2>4. CASE DestroyMembers
    BY <1>1, <2>4 DEF DestroyMembers
  <2>5. CASE StopSubscriber
    BY <1>1, <2>5 DEF StopSubscriber
  <2>6. CASE JoinSubscriber
    BY <1>1, <2>6 DEF JoinSubscriber
  <2>7. CASE Leave
    BY <1>1, <2>7 DEF Leave
  <2>8. QED
    BY <1>1, <2>1, <2>2, <2>3, <2>4, <2>5, <2>6, <2>7 DEF Main
<1>2. CASE Subscriber
  <2>1. CASE SubTest
    BY <1>2, <2>1 DEF SubTest
  <2>2. CASE SubTimeout
    BY <1>2, <2>2 DEF SubTimeout
  <2>3. CASE SubMessage
    BY <1>2, <2>3 DEF SubMessage, BcastBegin
  <2>4. CASE SubBreaks \/ SubDeadMember \/ SubDeadCall
    BY <1>2, <2>4 DEF SubBreaks, SubDeadMember, SubDeadCall
  <2>5. CASE SubBcast
    BY <1>2, <2>5 DEF SubBcast, BcastSend, BcastSendFails
  <2>6. CASE SubInterrupted
    BY <1>2, <2>6 DEF SubInterrupted, BcastInterrupted
  <2>7. CASE SubReturn
    BY <1>2, <2>7 DEF SubReturn, BcastEnd
  <2>8. QED
    BY <1>2, <2>1, <2>2, <2>3, <2>4, <2>5, <2>6, <2>7 DEF Subscriber, SubRun
<1>3. CASE StackServerTask
  <2>1. CASE SrvLoop
    BY <1>3, <2>1 DEF SrvLoop, StackServerTask
  <2>2. CASE SrvSelect
    BY <1>3, <2>2 DEF SrvSelect, StackServerTask
  <2>3. CASE SrvScanDone
    BY <1>3, <2>3 DEF SrvScanDone, StackServerTask
  <2>4. ASSUME NEW f \in AllFd, SrvLookup(f)
        PROVE  PhaseInv'
    BY <1>3, <2>4 DEF SrvLookup, StackServerTask
  <2>5. CASE SrvRecvData
    BY <1>3, <2>5 DEF SrvRecvData, StackServerTask
  <2>6. CASE SrvRecvError
    BY <1>3, <2>6 DEF SrvRecvError, StackServerTask
  <2>7. CASE SrvRecvEof
    BY <1>3, <2>7 DEF SrvRecvEof, StackServerTask
  <2>8. CASE SrvDelete
    BY <1>3, <2>8 DEF SrvDelete, StackServerTask
  <2>9. ASSUME NEW c \in Conn, NEW f \in ClientFd, SrvAccept(c, f)
        PROVE  PhaseInv'
    BY <1>3, <2>9 DEF SrvAccept, StackServerTask
  <2>10. CASE SrvAcceptFails
    BY <1>3, <2>10 DEF SrvAcceptFails, StackServerTask
  <2>11. CASE SrvRegister
    BY <1>3, <2>11 DEF SrvRegister, StackServerTask
  <2>12. QED
    BY <1>3, <2>1, <2>2, <2>3, <2>4, <2>5, <2>6, <2>7, <2>8, <2>9, <2>10, <2>11 DEF StackServerTask, ServerTask
<1>4. CASE StackCallback
  <2>1. CASE OnClientConnect
    BY <1>4, <2>1 DEF OnClientConnect, PublishClientConnect
  <2>2. CASE OnReceiveClientData
    BY <1>4, <2>2 DEF OnReceiveClientData, PublishClientMsg
  <2>3. CASE PublishThrows
    BY <1>4, <2>3 DEF PublishThrows
  <2>4. CASE OnClientDisconnect
    BY <1>4, <2>4 DEF OnClientDisconnect, PublishDisconnected
  <2>5. QED
    BY <1>4, <2>1, <2>2, <2>3, <2>4 DEF StackCallback
<1>5. CASE Peers
  <2>1. ASSUME NEW c \in Conn, PeerConnect(c)
        PROVE  PhaseInv'
    BY <1>5, <2>1 DEF PeerConnect, Peers
  <2>2. ASSUME NEW c \in Conn, PeerWrite(c)
        PROVE  PhaseInv'
    BY <1>5, <2>2 DEF PeerWrite, Peers
  <2>3. ASSUME NEW c \in Conn, PeerRead(c)
        PROVE  PhaseInv'
    BY <1>5, <2>3 DEF PeerRead, Peers
  <2>4. ASSUME NEW c \in Conn, PeerClose(c)
        PROVE  PhaseInv'
    BY <1>5, <2>4 DEF PeerClose, Peers
  <2>5. ASSUME NEW c \in Conn, PeerReset(c)
        PROVE  PhaseInv'
    BY <1>5, <2>5 DEF PeerReset, Peers
  <2>6. QED
    BY <1>5, <2>1, <2>2, <2>3, <2>4, <2>5 DEF Peers, Peer
<1>6. CASE UNCHANGED netVars
  BY <1>6 DEF netVars, vars
<1>7. QED
  BY <1>1, <1>2, <1>3, <1>4, <1>5, <1>6 DEF NetNext, NetDone

(***************************************************************************)
(* The two client tables: m_clients of the server and m_clients of the     *)
(* NetStack differ only for the client in hand, whose connect or           *)
(* disconnect callback is due, until the server is finished.               *)
(***************************************************************************)
CallbackDue ==
  /\ server = "connect" => cur \in Clients
  /\ server = "disconnect" => cur \notin Clients

ClientsAgree ==
  owner # "finished" =>
    \A f \in ClientFd :
      \/ netClients[f] = m_clients[f]
      \/ server = "connect" /\ f = cur /\ netClients[f] = NoConn
      \/ server = "disconnect" /\ f = cur

ClientInv == CallbackDue /\ ClientsAgree

(* Every step keeps ClientInv.                                              *)
LEMMA ClientStep ==
  TypeInv /\ LifeInv /\ TableInv /\ StackTypeOK /\ PhaseInv /\ ClientInv /\ [NetNext]_netVars => ClientInv'
<1> SUFFICES ASSUME TypeInv, LifeInv, TableInv, StackTypeOK, PhaseInv, ClientInv, [NetNext]_netVars
             PROVE  ClientInv'
  OBVIOUS
<1> USE DEF ClientInv, CallbackDue, ClientsAgree, Clients, LifeInv,
            PhaseInv, StackTypeOK, TypeInv, TypeOK, CurIsClientFd, AllFd,
            MutexFree, memberVars, serverVars, bcastVars, kernelVars, peerVars, vars,
            stackVars, clientVars
<1>1. CASE Main
  <2>1. CASE Constructed
    BY <1>1, <2>1 DEF Constructed
  <2>2. CASE ServerOwner
    BY <1>1, <2>2 DEF ServerOwner, Owner, StartSucceeds, StartFails, FinishStop, FinishJoin, FinishClose
  <2>3. CASE ClearClients
    BY <1>1, <2>3 DEF ClearClients
  <2>4. CASE DestroyMembers
    BY <1>1, <2>4 DEF DestroyMembers
  <2>5. CASE StopSubscriber
    BY <1>1, <2>5 DEF StopSubscriber
  <2>6. CASE JoinSubscriber
    BY <1>1, <2>6 DEF JoinSubscriber
  <2>7. CASE Leave
    BY <1>1, <2>7 DEF Leave
  <2>8. QED
    BY <1>1, <2>1, <2>2, <2>3, <2>4, <2>5, <2>6, <2>7 DEF Main
<1>2. CASE Subscriber
  <2>1. CASE SubTest
    BY <1>2, <2>1 DEF SubTest
  <2>2. CASE SubTimeout
    BY <1>2, <2>2 DEF SubTimeout
  <2>3. CASE SubMessage
    BY <1>2, <2>3 DEF SubMessage, BcastBegin
  <2>4. CASE SubBreaks \/ SubDeadMember \/ SubDeadCall
    BY <1>2, <2>4 DEF SubBreaks, SubDeadMember, SubDeadCall
  <2>5. CASE SubBcast
    BY <1>2, <2>5 DEF SubBcast, BcastSend, BcastSendFails
  <2>6. CASE SubInterrupted
    BY <1>2, <2>6 DEF SubInterrupted, BcastInterrupted
  <2>7. CASE SubReturn
    BY <1>2, <2>7 DEF SubReturn, BcastEnd
  <2>8. QED
    BY <1>2, <2>1, <2>2, <2>3, <2>4, <2>5, <2>6, <2>7 DEF Subscriber, SubRun
<1>3. CASE StackServerTask
  <2>1. CASE SrvLoop
    BY <1>3, <2>1 DEF SrvLoop, StackServerTask
  <2>2. CASE SrvSelect
    BY <1>3, <2>2 DEF SrvSelect, StackServerTask
  <2>3. CASE SrvScanDone
    BY <1>3, <2>3 DEF SrvScanDone, StackServerTask
  <2>4. ASSUME NEW f \in AllFd, SrvLookup(f)
        PROVE  ClientInv'
    BY <1>3, <2>4 DEF SrvLookup, StackServerTask
  <2>5. CASE SrvRecvData
    BY <1>3, <2>5 DEF SrvRecvData, StackServerTask
  <2>6. CASE SrvRecvError
    BY <1>3, <2>6 DEF SrvRecvError, StackServerTask
  <2>7. CASE SrvRecvEof
    BY <1>3, <2>7 DEF SrvRecvEof, StackServerTask
  <2>8. CASE SrvDelete
    BY <1>3, <2>8 DEF SrvDelete, StackServerTask
  <2>9. ASSUME NEW c \in Conn, NEW f \in ClientFd, SrvAccept(c, f)
        PROVE  ClientInv'
    BY <1>3, <2>9 DEF SrvAccept, StackServerTask
  <2>10. CASE SrvAcceptFails
    BY <1>3, <2>10 DEF SrvAcceptFails, StackServerTask
  <2>11. CASE SrvRegister
    BY <1>3, <2>11 DEF SrvRegister, StackServerTask, TableInv
  <2>12. QED
    BY <1>3, <2>1, <2>2, <2>3, <2>4, <2>5, <2>6, <2>7, <2>8, <2>9, <2>10, <2>11 DEF StackServerTask, ServerTask
<1>4. CASE StackCallback
  <2>1. CASE OnClientConnect
    BY <1>4, <2>1 DEF OnClientConnect, PublishClientConnect
  <2>2. CASE OnReceiveClientData
    BY <1>4, <2>2 DEF OnReceiveClientData, PublishClientMsg
  <2>3. CASE PublishThrows
    BY <1>4, <2>3 DEF PublishThrows
  <2>4. CASE OnClientDisconnect
    BY <1>4, <2>4 DEF OnClientDisconnect, PublishDisconnected
  <2>5. QED
    BY <1>4, <2>1, <2>2, <2>3, <2>4 DEF StackCallback
<1>5. CASE Peers
  <2>1. ASSUME NEW c \in Conn, PeerConnect(c)
        PROVE  ClientInv'
    BY <1>5, <2>1 DEF PeerConnect, Peers
  <2>2. ASSUME NEW c \in Conn, PeerWrite(c)
        PROVE  ClientInv'
    BY <1>5, <2>2 DEF PeerWrite, Peers
  <2>3. ASSUME NEW c \in Conn, PeerRead(c)
        PROVE  ClientInv'
    BY <1>5, <2>3 DEF PeerRead, Peers
  <2>4. ASSUME NEW c \in Conn, PeerClose(c)
        PROVE  ClientInv'
    BY <1>5, <2>4 DEF PeerClose, Peers
  <2>5. ASSUME NEW c \in Conn, PeerReset(c)
        PROVE  ClientInv'
    BY <1>5, <2>5 DEF PeerReset, Peers
  <2>6. QED
    BY <1>5, <2>1, <2>2, <2>3, <2>4, <2>5 DEF Peers, Peer
<1>6. CASE UNCHANGED netVars
  BY <1>6 DEF netVars, vars
<1>7. QED
  BY <1>1, <1>2, <1>3, <1>4, <1>5, <1>6 DEF NetNext, NetDone

(***************************************************************************)
(* The data.                                                               *)
(***************************************************************************)

(* The client whose data are in the buffer is the one NetStack knows under *)
(* its handle, so that they are published for the right connection.        *)
LEMMA RightClient ==
  IInv /\ ClientInv /\ server = "publish"
    => /\ open[cur] \in Conn /\ cur \in ClientFd
       /\ netClients[cur] = open[cur]
  BY DEF IInv, ClientInv, ClientsAgree, ScanInv, CurInHand, TableInv,
         TableMatchesKernel, Clients, LifeInv, TypeInv, TypeOK, CurIsClientFd

(* Every step keeps Conservation.                                           *)
LEMMA ConservationStep ==
  IInv /\ StackTypeOK /\ ClientInv /\ Conservation /\ [NetNext]_netVars => Conservation'
<1> SUFFICES ASSUME IInv, StackTypeOK, ClientInv, Conservation, [NetNext]_netVars
             PROVE  Conservation'
  OBVIOUS
<1> USE DEF Conservation, InHand, IInv, LifeInv, StackTypeOK, TypeInv, TypeOK,
            CurIsClientFd, AllFd, memberVars, serverVars, bcastVars, kernelVars, peerVars, vars,
            stackVars, clientVars
<1>1. CASE Main
  <2>1. CASE Constructed
    BY <1>1, <2>1 DEF Constructed
  <2>2. CASE ServerOwner
    BY <1>1, <2>2 DEF ServerOwner, Owner, StartSucceeds, StartFails, FinishStop, FinishJoin, FinishClose
  <2>3. CASE ClearClients
    BY <1>1, <2>3 DEF ClearClients
  <2>4. CASE DestroyMembers
    BY <1>1, <2>4 DEF DestroyMembers
  <2>5. CASE StopSubscriber
    BY <1>1, <2>5 DEF StopSubscriber
  <2>6. CASE JoinSubscriber
    BY <1>1, <2>6 DEF JoinSubscriber
  <2>7. CASE Leave
    BY <1>1, <2>7 DEF Leave
  <2>8. QED
    BY <1>1, <2>1, <2>2, <2>3, <2>4, <2>5, <2>6, <2>7 DEF Main
<1>2. CASE Subscriber
  <2>1. CASE SubTest
    BY <1>2, <2>1 DEF SubTest
  <2>2. CASE SubTimeout
    BY <1>2, <2>2 DEF SubTimeout
  <2>3. CASE SubMessage
    BY <1>2, <2>3 DEF SubMessage, BcastBegin
  <2>4. CASE SubBreaks \/ SubDeadMember \/ SubDeadCall
    BY <1>2, <2>4 DEF SubBreaks, SubDeadMember, SubDeadCall
  <2>5. CASE SubBcast
    BY <1>2, <2>5 DEF SubBcast, BcastSend, BcastSendFails
  <2>6. CASE SubInterrupted
    BY <1>2, <2>6 DEF SubInterrupted, BcastInterrupted
  <2>7. CASE SubReturn
    BY <1>2, <2>7 DEF SubReturn, BcastEnd
  <2>8. QED
    BY <1>2, <2>1, <2>2, <2>3, <2>4, <2>5, <2>6, <2>7 DEF Subscriber, SubRun
<1>3. CASE StackServerTask
  <2>1. CASE SrvLoop
    BY <1>3, <2>1 DEF SrvLoop, StackServerTask
  <2>2. CASE SrvSelect
    BY <1>3, <2>2 DEF SrvSelect, StackServerTask
  <2>3. CASE SrvScanDone
    BY <1>3, <2>3 DEF SrvScanDone, StackServerTask
  <2>4. ASSUME NEW f \in AllFd, SrvLookup(f)
        PROVE  Conservation'
    BY <1>3, <2>4 DEF SrvLookup, StackServerTask
  <2>5. CASE SrvRecvData
    BY <1>3, <2>5 DEF SrvRecvData, StackServerTask
  <2>6. CASE SrvRecvError
    BY <1>3, <2>6 DEF SrvRecvError, StackServerTask
  <2>7. CASE SrvRecvEof
    BY <1>3, <2>7 DEF SrvRecvEof, StackServerTask
  <2>8. CASE SrvDelete
    BY <1>3, <2>8 DEF SrvDelete, StackServerTask
  <2>9. ASSUME NEW c \in Conn, NEW f \in ClientFd, SrvAccept(c, f)
        PROVE  Conservation'
    BY <1>3, <2>9 DEF SrvAccept, StackServerTask
  <2>10. CASE SrvAcceptFails
    BY <1>3, <2>10 DEF SrvAcceptFails, StackServerTask
  <2>11. CASE SrvRegister
    BY <1>3, <2>11 DEF SrvRegister, StackServerTask
  <2>12. QED
    BY <1>3, <2>1, <2>2, <2>3, <2>4, <2>5, <2>6, <2>7, <2>8, <2>9, <2>10, <2>11 DEF StackServerTask, ServerTask
<1>4. CASE StackCallback
  <2>1. CASE OnClientConnect
    BY <1>4, <2>1 DEF OnClientConnect, PublishClientConnect
  <2>2. CASE OnReceiveClientData
    BY <1>4, <2>2, RightClient DEF OnReceiveClientData, PublishClientMsg
  <2>3. CASE PublishThrows
    BY <1>4, <2>3 DEF PublishThrows
  <2>4. CASE OnClientDisconnect
    BY <1>4, <2>4 DEF OnClientDisconnect, PublishDisconnected
  <2>5. QED
    BY <1>4, <2>1, <2>2, <2>3, <2>4 DEF StackCallback
<1>5. CASE Peers
  <2>1. ASSUME NEW c \in Conn, PeerConnect(c)
        PROVE  Conservation'
    BY <1>5, <2>1 DEF PeerConnect, Peers
  <2>2. ASSUME NEW c \in Conn, PeerWrite(c)
        PROVE  Conservation'
    BY <1>5, <2>2 DEF PeerWrite, Peers
  <2>3. ASSUME NEW c \in Conn, PeerRead(c)
        PROVE  Conservation'
    BY <1>5, <2>3 DEF PeerRead, Peers
  <2>4. ASSUME NEW c \in Conn, PeerClose(c)
        PROVE  Conservation'
    BY <1>5, <2>4 DEF PeerClose, Peers
  <2>5. ASSUME NEW c \in Conn, PeerReset(c)
        PROVE  Conservation'
    BY <1>5, <2>5 DEF PeerReset, Peers
  <2>6. QED
    BY <1>5, <2>1, <2>2, <2>3, <2>4, <2>5 DEF Peers, Peer
<1>6. CASE UNCHANGED netVars
  BY <1>6 DEF netVars, vars
<1>7. QED
  BY <1>1, <1>2, <1>3, <1>4, <1>5, <1>6 DEF NetNext, NetDone

(***************************************************************************)
(* The session of each connection follows the connection: it is not begun  *)
(* before the connect callback, is up exactly while NetStack knows the     *)
(* connection's handle, and down only when the connection is gone.         *)
(***************************************************************************)
NotBegun(c) ==
  \/ tcp[c] = "unborn"
  \/ c \in backlog
  \/ server \in {"register", "connect"} /\ open[cur] = c

SessionInv ==
  /\ \A c \in Conn : NotBegun(c) => session[c] = "none"
  /\ \A c \in Conn : session[c] = "down" => tcp[c] = "gone"
  /\ \A f \in ClientFd : netClients[f] # NoConn => session[netClients[f]] = "up"
  /\ server = "disconnect" /\ netClients[cur] # NoConn
       => tcp[netClients[cur]] = "gone"
  /\ server = "publish" => received > 0

(* Every step keeps SessionInv.                                             *)
LEMMA SessionStep ==
  IInv /\ StackTypeOK /\ PhaseInv /\ ClientInv /\ SessionInv /\ [NetNext]_netVars => SessionInv'
<1> SUFFICES ASSUME IInv, StackTypeOK, PhaseInv, ClientInv, SessionInv, [NetNext]_netVars
             PROVE  SessionInv'
  OBVIOUS
<1> USE DEF SessionInv, NotBegun, ClientInv, CallbackDue, ClientsAgree, PhaseInv,
            IInv, LifeInv, TableInv, TableMatchesKernel, KernelInv, Clients,
            StackTypeOK, TypeInv, TypeOK, CurIsClientFd, AllFd, TcpState,
            memberVars, serverVars, bcastVars, kernelVars, peerVars, vars,
            stackVars, clientVars
<1>1. CASE Main
  <2>1. CASE Constructed
    BY <1>1, <2>1 DEF Constructed
  <2>2. CASE ServerOwner
    BY <1>1, <2>2 DEF ServerOwner, Owner, StartSucceeds, StartFails, FinishStop, FinishJoin, FinishClose
  <2>3. CASE ClearClients
    BY <1>1, <2>3 DEF ClearClients
  <2>4. CASE DestroyMembers
    BY <1>1, <2>4 DEF DestroyMembers
  <2>5. CASE StopSubscriber
    BY <1>1, <2>5 DEF StopSubscriber
  <2>6. CASE JoinSubscriber
    BY <1>1, <2>6 DEF JoinSubscriber
  <2>7. CASE Leave
    BY <1>1, <2>7 DEF Leave
  <2>8. QED
    BY <1>1, <2>1, <2>2, <2>3, <2>4, <2>5, <2>6, <2>7 DEF Main
<1>2. CASE Subscriber
  <2>1. CASE SubTest
    BY <1>2, <2>1 DEF SubTest
  <2>2. CASE SubTimeout
    BY <1>2, <2>2 DEF SubTimeout
  <2>3. CASE SubMessage
    BY <1>2, <2>3 DEF SubMessage, BcastBegin
  <2>4. CASE SubBreaks \/ SubDeadMember \/ SubDeadCall
    BY <1>2, <2>4 DEF SubBreaks, SubDeadMember, SubDeadCall
  <2>5. CASE SubBcast
    BY <1>2, <2>5 DEF SubBcast, BcastSend, BcastSendFails
  <2>6. CASE SubInterrupted
    BY <1>2, <2>6 DEF SubInterrupted, BcastInterrupted
  <2>7. CASE SubReturn
    BY <1>2, <2>7 DEF SubReturn, BcastEnd
  <2>8. QED
    BY <1>2, <2>1, <2>2, <2>3, <2>4, <2>5, <2>6, <2>7 DEF Subscriber, SubRun
<1>3. CASE StackServerTask
  <2>1. CASE SrvLoop
    BY <1>3, <2>1 DEF SrvLoop, StackServerTask
  <2>2. CASE SrvSelect
    BY <1>3, <2>2 DEF SrvSelect, StackServerTask
  <2>3. CASE SrvScanDone
    BY <1>3, <2>3 DEF SrvScanDone, StackServerTask
  <2>4. ASSUME NEW f \in AllFd, SrvLookup(f)
        PROVE  SessionInv'
    BY <1>3, <2>4 DEF SrvLookup, StackServerTask
  <2>5. CASE SrvRecvData
    BY <1>3, <2>5 DEF SrvRecvData, StackServerTask
  <2>6. CASE SrvRecvError
    BY <1>3, <2>6 DEF SrvRecvError, StackServerTask
  <2>7. CASE SrvRecvEof
    BY <1>3, <2>7 DEF SrvRecvEof, StackServerTask
  <2>8. CASE SrvDelete
    BY <1>3, <2>8 DEF SrvDelete, StackServerTask
  <2>9. ASSUME NEW c \in Conn, NEW f \in ClientFd, SrvAccept(c, f)
        PROVE  SessionInv'
    BY <1>3, <2>9 DEF SrvAccept, StackServerTask
  <2>10. CASE SrvAcceptFails
    BY <1>3, <2>10 DEF SrvAcceptFails, StackServerTask
  <2>11. CASE SrvRegister
    BY <1>3, <2>11 DEF SrvRegister, StackServerTask
  <2>12. QED
    BY <1>3, <2>1, <2>2, <2>3, <2>4, <2>5, <2>6, <2>7, <2>8, <2>9, <2>10, <2>11 DEF StackServerTask, ServerTask
<1>4. CASE StackCallback
  <2>1. CASE OnClientConnect
    BY <1>4, <2>1 DEF OnClientConnect, PublishClientConnect
  <2>2. CASE OnReceiveClientData
    BY <1>4, <2>2 DEF OnReceiveClientData, PublishClientMsg
  <2>3. CASE PublishThrows
    BY <1>4, <2>3 DEF PublishThrows
  <2>4. CASE OnClientDisconnect
    BY <1>4, <2>4 DEF OnClientDisconnect, PublishDisconnected
  <2>5. QED
    BY <1>4, <2>1, <2>2, <2>3, <2>4 DEF StackCallback
<1>5. CASE Peers
  <2>1. ASSUME NEW c \in Conn, PeerConnect(c)
        PROVE  SessionInv'
    BY <1>5, <2>1 DEF PeerConnect, Peers
  <2>2. ASSUME NEW c \in Conn, PeerWrite(c)
        PROVE  SessionInv'
    BY <1>5, <2>2 DEF PeerWrite, Peers
  <2>3. ASSUME NEW c \in Conn, PeerRead(c)
        PROVE  SessionInv'
    BY <1>5, <2>3 DEF PeerRead, Peers
  <2>4. ASSUME NEW c \in Conn, PeerClose(c)
        PROVE  SessionInv'
    BY <1>5, <2>4 DEF PeerClose, Peers
  <2>5. ASSUME NEW c \in Conn, PeerReset(c)
        PROVE  SessionInv'
    BY <1>5, <2>5 DEF PeerReset, Peers
  <2>6. QED
    BY <1>5, <2>1, <2>2, <2>3, <2>4, <2>5 DEF Peers, Peer
<1>6. CASE UNCHANGED netVars
  BY <1>6 DEF netVars, vars
<1>7. QED
  BY <1>1, <1>2, <1>3, <1>4, <1>5, <1>6 DEF NetNext, NetDone

-----------------------------------------------------------------------------
(***************************************************************************)
(* The inductive invariant, and what follows from it.                      *)
(***************************************************************************)
NetIInv == /\ IInv /\ StackTypeOK /\ PhaseInv /\ ClientInv
           /\ Conservation /\ SessionInv

(* NetIInv holds of a NetStack under construction.                         *)
LEMMA NetInvInit == NetInit => NetIInv
<1> SUFFICES ASSUME NetInit PROVE NetIInv
  OBVIOUS
<1>1. IInv
  BY IInvInit DEF NetInit
<1>2. StackTypeOK /\ PhaseInv /\ ClientInv /\ SessionInv
  BY DEF NetInit, Init, StackTypeOK, Phase, SubState, PhaseInv, ClientInv,
         CallbackDue, ClientsAgree, SessionInv, NotBegun
<1>3. Conservation
  BY DEF NetInit, Init, Conservation, InHand
<1>4. QED
  BY <1>1, <1>2, <1>3 DEF NetIInv

(* NetIInv is an invariant of NetStack.                                    *)
THEOREM NetInvariance == NetSpec => []NetIInv
<1>1. NetIInv /\ [NetNext]_netVars => NetIInv'
  <2> SUFFICES ASSUME NetIInv, [NetNext]_netVars PROVE NetIInv'
    OBVIOUS
  <2>1. IInv'
    BY IInvStep, ServerStep DEF NetIInv
  <2>2. StackTypeOK' /\ PhaseInv' /\ ClientInv'
    BY StackTypeStep, PhaseStep, ClientStep DEF NetIInv, IInv
  <2>3. Conservation' /\ SessionInv'
    BY ConservationStep, SessionStep DEF NetIInv
  <2>4. QED
    BY <2>1, <2>2, <2>3 DEF NetIInv
<1>2. QED
  BY NetInvInit, <1>1, PTL DEF NetSpec

(* Every variable of the composition keeps its type.                       *)
THEOREM NetTypeCorrect == NetSpec => []NetTypeOK
<1>1. NetIInv => NetTypeOK
  BY DEF NetIInv, IInv, TypeInv, StackTypeOK, NetTypeOK
<1>2. QED
  BY <1>1, NetInvariance, PTL

(* The server's and the NetStack's client tables, under their two mutexes, *)
(* agree but for the client whose callback is due.                         *)
THEOREM ClientTablesAgree == NetSpec => []ClientSetsAgree
<1>1. NetIInv => ClientSetsAgree
  BY DEF NetIInv, ClientInv, ClientsAgree, ClientSetsAgree
<1>2. QED
  BY <1>1, NetInvariance, PTL

(* No unit that a TCP client sends is lost, duplicated or published for    *)
(* another client.                                                         *)
THEOREM NothingLost == NetSpec => []Conservation
<1>1. NetIInv => Conservation
  BY DEF NetIInv
<1>2. QED
  BY <1>1, NetInvariance, PTL

(* The destructor closes the publisher only when the server thread is      *)
(* joined, so that its callbacks never publish on a closed socket.         *)
THEOREM PublisherSafe == NetSpec => []PublisherOutlivesServer
<1>1. NetIInv => PublisherOutlivesServer
  BY DEF NetIInv, IInv, LifeInv, PhaseInv, PublisherOutlivesServer, Quitting
<1>2. QED
  BY <1>1, NetInvariance, PTL

-----------------------------------------------------------------------------
(***************************************************************************)
(* NetStack implements ClientSession.                                      *)
(***************************************************************************)

(* The connect callback opens the session, once.                           *)
LEMMA OpensSession ==
  NetIInv /\ OnClientConnect => [Session!Next]_(Session!sessionVars)
<1> SUFFICES ASSUME NetIInv, OnClientConnect
             PROVE  [Session!Next]_(Session!sessionVars)
  OBVIOUS
<1> USE DEF OnClientConnect, PublishClientConnect, peerVars, Session!sessionVars
<1>1. CASE cur \notin Clients
  BY <1>1
<1>2. CASE cur \in Clients
  <2>1. m_clients[cur] \in Conn /\ session[m_clients[cur]] = "none"
    BY <1>2 DEF NetIInv, IInv, TypeInv, TypeOK, TableInv, TableMatchesKernel,
                Clients, SessionInv, NotBegun
  <2>2. Session!Open(m_clients[cur])
    BY <1>2, <2>1 DEF Session!Open
  <2>3. QED
    BY <2>1, <2>2 DEF Session!Next
<1>3. QED
  BY <1>1, <1>2

(* The data callback publishes at least one unit, at most as many as the   *)
(* peer wrote, for a session that is open.                                 *)
LEMMA DeliversInSession ==
  NetIInv /\ OnReceiveClientData => [Session!Next]_(Session!sessionVars)
<1> SUFFICES ASSUME NetIInv, OnReceiveClientData
             PROVE  [Session!Next]_(Session!sessionVars)
  OBVIOUS
<1> DEFINE k == netClients[cur]
<1>1. /\ server = "publish" /\ k \in Conn /\ session[k] = "up"
      /\ open[cur] = k
  BY RightClient DEF NetIInv, OnReceiveClientData, PublishClientMsg, SessionInv
<1>2. received \in 1 .. sent[k] - published[k]
  BY <1>1 DEF NetIInv, IInv, TypeInv, TypeOK, StackTypeOK, Conservation, InHand,
              SessionInv
<1>3. published' = [published EXCEPT ![k] = @ + received]
  BY <1>1 DEF NetIInv, StackTypeOK, OnReceiveClientData
<1>4. UNCHANGED <<session, sent>>
  BY DEF OnReceiveClientData, PublishClientMsg, peerVars
<1>5. Session!Deliver(k)
  BY <1>1, <1>2, <1>3, <1>4 DEF Session!Deliver
<1>6. QED
  BY <1>1, <1>5 DEF Session!Next

(* The disconnect callback closes a session that is open and whose data    *)
(* are all published.                                                      *)
LEMMA ClosesSession ==
  NetIInv /\ OnClientDisconnect => [Session!Next]_(Session!sessionVars)
<1> SUFFICES ASSUME NetIInv, OnClientDisconnect
             PROVE  [Session!Next]_(Session!sessionVars)
  OBVIOUS
<1> DEFINE k == netClients[cur]
<1>1. server = "disconnect" /\ cur \in ClientFd /\ k \in Conn \cup {NoConn}
  BY DEF NetIInv, IInv, TypeInv, CurIsClientFd, StackTypeOK,
         OnClientDisconnect, PublishDisconnected
<1>2. UNCHANGED <<sent, published>>
  BY DEF OnClientDisconnect, PublishDisconnected, peerVars
<1>3. CASE k = NoConn
  <2>1. session' = session
    BY <1>3 DEF NetIInv, StackTypeOK, OnClientDisconnect
  <2>2. QED
    BY <1>2, <2>1 DEF Session!sessionVars
<1>4. CASE k \in Conn
  <2>1. session[k] = "up" /\ tcp[k] = "gone"
    BY <1>1, <1>4 DEF NetIInv, SessionInv
  <2>2. rcvq[k] = 0
    BY <1>1, <1>4, <2>1 DEF NetIInv, IInv, LifeInv, DiscardInv, NothingDiscarded
  <2>3. published[k] = sent[k]
    BY <1>1, <1>4, <2>2 DEF NetIInv, IInv, TypeInv, TypeOK, StackTypeOK,
                            Conservation, InHand
  <2>4. session' = [session EXCEPT ![k] = "down"]
    BY <1>4 DEF NetIInv, StackTypeOK, OnClientDisconnect
  <2>5. Session!Close(k)
    BY <1>2, <2>1, <2>3, <2>4 DEF Session!Close
  <2>6. QED
    BY <1>4, <2>5 DEF Session!Next
<1>5. QED
  BY <1>1, <1>3, <1>4

(* A peer that writes has no closed session.                               *)
LEMMA WritesInSession ==
  ASSUME NEW c \in Conn, NetIInv, PeerWrite(c), UNCHANGED clientVars
  PROVE  Session!Next
<1>1. session[c] # "down"
  BY DEF NetIInv, SessionInv, PeerWrite
<1>2. Session!Write(c)
  BY <1>1 DEF Session!Write, PeerWrite, clientVars
<1>3. QED
  BY <1>2 DEF Session!Next

(* Every other step leaves the sessions alone.                             *)
LEMMA SessionStutters ==
  /\ [NetNext]_netVars
  /\ ~OnClientConnect /\ ~OnReceiveClientData /\ ~OnClientDisconnect
  => \/ UNCHANGED Session!sessionVars
     \/ UNCHANGED clientVars /\ \E c \in Conn : PeerWrite(c)
<1> SUFFICES ASSUME [NetNext]_netVars, ~OnClientConnect,
                    ~OnReceiveClientData, ~OnClientDisconnect
             PROVE  \/ UNCHANGED Session!sessionVars
                    \/ UNCHANGED clientVars /\ \E c \in Conn : PeerWrite(c)
  OBVIOUS
<1> USE DEF Session!sessionVars, clientVars, peerVars
<1>1. CASE Main
  BY <1>1 DEF Main, Constructed, ServerOwner, ClearClients, DestroyMembers,
              StopSubscriber, JoinSubscriber, Leave, vars, Owner,
              StartSucceeds, StartFails, FinishStop, FinishJoin, FinishClose
<1>2. CASE Subscriber
  BY <1>2 DEF Subscriber, SubRun, SubTest, SubTimeout, SubMessage, SubBcast,
              SubBreaks, SubDeadMember, SubDeadCall, SubInterrupted, SubReturn,
              vars, BcastBegin,
              BcastSend, BcastSendFails, BcastInterrupted, BcastEnd
<1>3. CASE StackServerTask
  BY <1>3 DEF StackServerTask, ServerTask, SrvLoop, SrvSelect, SrvScanDone,
              SrvLookup, SrvRecvData, SrvRecvError, SrvRecvEof, SrvDelete,
              SrvAccept, SrvAcceptFails, SrvRegister
<1>4. CASE StackCallback
  BY <1>4 DEF StackCallback, PublishThrows, vars
<1>5. CASE Peers
  BY <1>5 DEF Peers, Peer, PeerConnect, PeerRead, PeerClose, PeerReset
<1>6. CASE UNCHANGED netVars
  BY <1>6 DEF netVars, vars
<1>7. QED
  BY <1>1, <1>2, <1>3, <1>4, <1>5, <1>6 DEF NetNext, NetDone

(* A NetStack implements ClientSession: each TCP connection has one        *)
(* session, in which a prefix of what the peer wrote is published, all of  *)
(* it when the session is closed.                                          *)
THEOREM SessionImplemented == NetSpec => SessionSpec
<1>1. NetInit => Session!Init
  BY DEF NetInit, Init, Session!Init
<1>2. NetIInv /\ [NetNext]_netVars => [Session!Next]_(Session!sessionVars)
  BY OpensSession, DeliversInSession, ClosesSession, WritesInSession,
     SessionStutters
<1>3. QED
  BY <1>1, <1>2, NetInvariance, PTL DEF NetSpec, SessionSpec, Session!Spec
=============================================================================
