-------------------------- MODULE TcpServerProofs --------------------------
(***************************************************************************)
(* Proofs about TcpServer, for every value of its constants.               *)
(***************************************************************************)
EXTENDS TcpServer, TLAPS

USE FdAssumption, ConnAssumption, SizeAssumption
USE DEF FdAssumption, ConnAssumption, SizeAssumption, INVALID_SOCKET

(* While the server thread handles a client, cur is a descriptor accept()  *)
(* returned, never the accept socket: recv() and the callbacks are only    *)
(* ever called with those.                                                 *)
CurIsClientFd ==
  server \in {"recv", "publish", "delete", "disconnect", "register", "connect"}
    => cur \in ClientFd

TypeInv == TypeOK /\ CurIsClientFd

(* TypeInv holds initially. *)
LEMMA TypeInit == Init => TypeInv
<1> SUFFICES ASSUME Init PROVE TypeInv
  OBVIOUS
<1>1. handed \in [Conn -> SUBSET Nat]
  BY DEF Init
<1>2. QED
  BY <1>1 DEF Init, TypeInv, TypeOK, CurIsClientFd, AllFd, TcpState, ServerState

(* Every step of every thread, of the peers and of the kernel keeps        *)
(* TypeInv.                                                                *)
LEMMA TypeStep == TypeInv /\ [Next]_vars => TypeInv'
<1> SUFFICES ASSUME TypeInv, [Next]_vars PROVE TypeInv'
  OBVIOUS
<1> USE DEF TypeInv, TypeOK, CurIsClientFd, AllFd, memberVars, serverVars, bcastVars, peerVars,
            kernelVars
<1>1. CASE ServerTask
  <2> USE DEF ServerState
  <2>1. CASE SrvLoop
    BY <2>1 DEF SrvLoop
  <2>2. CASE SrvSelect
    BY <2>2 DEF SrvSelect
  <2>3. CASE SrvScanDone
    BY <2>3 DEF SrvScanDone
  <2>4. ASSUME NEW f \in AllFd, SrvLookup(f) PROVE TypeInv'
    BY <2>4 DEF SrvLookup, Clients
  <2>5. CASE SrvRecvData
    BY <2>5 DEF SrvRecvData
  <2>6. CASE SrvRecvError
    BY <2>6 DEF SrvRecvError, TcpState
  <2>7. CASE SrvRecvEof
    BY <2>7 DEF SrvRecvEof
  <2>8. CASE SrvDelete
    BY <2>8 DEF SrvDelete, TcpState
  <2>9. ASSUME NEW c \in Conn, NEW f \in ClientFd, SrvAccept(c, f)
        PROVE  TypeInv'
    BY <2>9 DEF SrvAccept
  <2>10. CASE SrvAcceptFails
    BY <2>10 DEF SrvAcceptFails
  <2>11. CASE SrvRegister
    BY <2>11 DEF SrvRegister
  <2>12. QED
    BY <1>1, <2>1, <2>2, <2>3, <2>4, <2>5, <2>6, <2>7, <2>8, <2>9, <2>10,
       <2>11 DEF ServerTask
<1>2. CASE Callback
  <2> USE DEF ServerState
  <2>1. CASE PublishClientMsg
    BY <2>1 DEF PublishClientMsg
  <2>2. CASE PublishDisconnected
    BY <2>2 DEF PublishDisconnected
  <2>3. CASE PublishClientConnect
    BY <2>3 DEF PublishClientConnect
  <2>4. QED
    BY <1>2, <2>1, <2>2, <2>3 DEF Callback
<1>3. CASE Bcaster
  <2>1. CASE BcastBegin
    BY <2>1 DEF BcastBegin, Clients
  <2>2. ASSUME NEW f \in ClientFd, BcastSend(f) PROVE TypeInv'
    BY <2>2 DEF BcastSend
  <2>3. ASSUME NEW f \in ClientFd, BcastSendFails(f) PROVE TypeInv'
    BY <2>3 DEF BcastSendFails, TcpState
  <2>4. ASSUME NEW f \in ClientFd, BcastInterrupted(f) PROVE TypeInv'
    BY <2>4 DEF BcastInterrupted
  <2>5. CASE BcastEnd
    BY <2>5 DEF BcastEnd
  <2>6. QED
    BY <1>3, <2>1, <2>2, <2>3, <2>4, <2>5 DEF Bcaster, BcastStep
<1>4. CASE Owner
  <2>1. CASE StartSucceeds
    BY <2>1 DEF StartSucceeds, ServerState
  <2>2. CASE StartFails
    BY <2>2 DEF StartFails
  <2>3. CASE FinishStop
    BY <2>3 DEF FinishStop
  <2>4. CASE FinishJoin
    BY <2>4 DEF FinishJoin
  <2>5. CASE FinishClose
    BY <2>5 DEF FinishClose, TcpState
  <2>6. QED
    BY <1>4, <2>1, <2>2, <2>3, <2>4, <2>5 DEF Owner
<1>5. ASSUME NEW c \in Conn, Peer(c) PROVE TypeInv'
  <2>1. CASE PeerConnect(c)
    BY <2>1 DEF PeerConnect, TcpState
  <2>2. CASE PeerWrite(c)
    BY <2>2 DEF PeerWrite
  <2>3. CASE PeerRead(c)
    BY <2>3 DEF PeerRead
  <2>4. CASE PeerClose(c)
    BY <2>4 DEF PeerClose, TcpState
  <2>5. CASE PeerReset(c)
    BY <2>5 DEF PeerReset, TcpState
  <2>6. QED
    BY <1>5, <2>1, <2>2, <2>3, <2>4, <2>5 DEF Peer
<1>6. CASE UNCHANGED vars
  BY <1>6 DEF vars
<1>7. QED
  BY <1>1, <1>2, <1>3, <1>4, <1>5, <1>6 DEF Next, Done

(* The server, its callers and the peers keep every variable in its type,  *)
(* whatever the connections, the descriptors and the bounds.               *)
THEOREM TypeCorrect == Spec => []TypeOK
<1>1. TypeInv => TypeOK
  BY DEF TypeInv
<1>2. QED
  BY <1>1, TypeInit, TypeStep, PTL DEF Spec

-----------------------------------------------------------------------------
(***************************************************************************)
(* The life of the server: its thread does not run before start() nor once *)
(* finish() has joined it, and while it runs the accept socket is open.    *)
(***************************************************************************)
LifeInv ==
  /\ owner = "constructed" => server = "off"
  /\ owner \in {"closing", "finished"} => server \in {"off", "exit"}
  /\ server \notin {"off", "exit"} => m_sockfd = ListenFd

(* LifeInv holds of a server that has just been constructed.                *)
LEMMA LifeInit == Init => LifeInv
  BY DEF Init, LifeInv

(* Every step keeps LifeInv. *)
LEMMA LifeInvStep ==
  TypeInv /\ LifeInv /\ [Next]_vars => LifeInv'
<1> SUFFICES ASSUME TypeInv, LifeInv, [Next]_vars
             PROVE  LifeInv'
  OBVIOUS
<1> USE DEF LifeInv, TypeInv, TypeOK, memberVars, serverVars, bcastVars, peerVars,
            kernelVars
<1>1. CASE ServerTask
  <2>1. CASE SrvLoop
    BY <2>1 DEF SrvLoop
  <2>2. CASE SrvSelect
    BY <2>2 DEF SrvSelect
  <2>3. CASE SrvScanDone
    BY <2>3 DEF SrvScanDone
  <2>4. ASSUME NEW f \in AllFd, SrvLookup(f)
        PROVE  LifeInv'
    BY <2>4 DEF SrvLookup
  <2>5. CASE SrvRecvData
    BY <2>5 DEF SrvRecvData
  <2>6. CASE SrvRecvError
    BY <2>6 DEF SrvRecvError
  <2>7. CASE SrvRecvEof
    BY <2>7 DEF SrvRecvEof
  <2>8. CASE SrvDelete
    BY <2>8 DEF SrvDelete
  <2>9. ASSUME NEW c \in Conn, NEW f \in ClientFd, SrvAccept(c, f)
        PROVE  LifeInv'
    BY <2>9 DEF SrvAccept
  <2>10. CASE SrvAcceptFails
    BY <2>10 DEF SrvAcceptFails
  <2>11. CASE SrvRegister
    BY <2>11 DEF SrvRegister
  <2>12. QED
    BY <1>1, <2>1, <2>2, <2>3, <2>4, <2>5, <2>6, <2>7, <2>8, <2>9, <2>10, <2>11 DEF ServerTask
<1>2. CASE Callback
  <2>1. CASE PublishClientMsg
    BY <2>1 DEF PublishClientMsg
  <2>2. CASE PublishDisconnected
    BY <2>2 DEF PublishDisconnected
  <2>3. CASE PublishClientConnect
    BY <2>3 DEF PublishClientConnect
  <2>4. QED
    BY <1>2, <2>1, <2>2, <2>3 DEF Callback
<1>3. CASE Bcaster
  <2>1. CASE BcastBegin
    BY <2>1 DEF BcastBegin
  <2>2. ASSUME NEW f \in ClientFd, BcastSend(f)
        PROVE  LifeInv'
    BY <2>2 DEF BcastSend
  <2>3. ASSUME NEW f \in ClientFd, BcastSendFails(f)
        PROVE  LifeInv'
    BY <2>3 DEF BcastSendFails
  <2>4. ASSUME NEW f \in ClientFd, BcastInterrupted(f)
        PROVE  LifeInv'
    BY <2>4 DEF BcastInterrupted
  <2>5. CASE BcastEnd
    BY <2>5 DEF BcastEnd
  <2>6. QED
    BY <1>3, <2>1, <2>2, <2>3, <2>4, <2>5 DEF Bcaster, BcastStep
<1>4. CASE Owner
  <2>1. CASE StartSucceeds
    BY <2>1 DEF StartSucceeds
  <2>2. CASE StartFails
    BY <2>2 DEF StartFails
  <2>3. CASE FinishStop
    BY <2>3 DEF FinishStop
  <2>4. CASE FinishJoin
    BY <2>4 DEF FinishJoin
  <2>5. CASE FinishClose
    BY <2>5 DEF FinishClose
  <2>6. QED
    BY <1>4, <2>1, <2>2, <2>3, <2>4, <2>5 DEF Owner
<1>5. ASSUME NEW c \in Conn, Peer(c) PROVE LifeInv'
  <2>1. CASE PeerConnect(c)
    BY <2>1 DEF PeerConnect
  <2>2. CASE PeerWrite(c)
    BY <2>2 DEF PeerWrite
  <2>3. CASE PeerRead(c)
    BY <2>3 DEF PeerRead
  <2>4. CASE PeerClose(c)
    BY <2>4 DEF PeerClose
  <2>5. CASE PeerReset(c)
    BY <2>5 DEF PeerReset
  <2>6. QED
    BY <1>5, <2>1, <2>2, <2>3, <2>4, <2>5 DEF Peer
<1>6. CASE UNCHANGED vars
  BY <1>6 DEF vars
<1>7. QED
  BY <1>1, <1>2, <1>3, <1>4, <1>5, <1>6 DEF Next, Done

(***************************************************************************)
(* The tables: m_clients, m_fds and the kernel's descriptors speak of the  *)
(* same connections.                                                       *)
(***************************************************************************)
OpenIsRegistered ==
  \A f \in ClientFd :
    open[f] # NoConn => f \in Clients \/ (server = "register" /\ cur = f)

WatchedAreClients ==
  owner # "finished" =>
    \A f \in ClientFd : f \in m_fds <=> f \in Clients

TableInv ==
  /\ TableMatchesKernel
  /\ OpenIsRegistered
  /\ WatchedAreClients
  /\ server = "register" => open[cur] # NoConn
  /\ server = "off" \/ owner = "finished" => Clients = {}

(* TableInv holds of a server that has just been constructed.               *)
LEMMA TableInit == Init => TableInv
  BY DEF Init, TableInv, TableMatchesKernel, OpenIsRegistered,
         WatchedAreClients, Clients

(* Every step keeps TableInv. *)
LEMMA TableInvStep ==
  TypeInv /\ LifeInv /\ TableInv /\ [Next]_vars => TableInv'
<1> SUFFICES ASSUME TypeInv, LifeInv, TableInv, [Next]_vars
             PROVE  TableInv'
  OBVIOUS
<1> USE DEF TableInv, TableMatchesKernel, OpenIsRegistered, WatchedAreClients,
            Clients, LifeInv, TypeInv, TypeOK, CurIsClientFd, AllFd,
            memberVars, serverVars, bcastVars, peerVars,
            kernelVars
<1>1. CASE ServerTask
  <2>1. CASE SrvLoop
    BY <2>1 DEF SrvLoop
  <2>2. CASE SrvSelect
    BY <2>2 DEF SrvSelect
  <2>3. CASE SrvScanDone
    BY <2>3 DEF SrvScanDone
  <2>4. ASSUME NEW f \in AllFd, SrvLookup(f)
        PROVE  TableInv'
    BY <2>4 DEF SrvLookup
  <2>5. CASE SrvRecvData
    BY <2>5 DEF SrvRecvData
  <2>6. CASE SrvRecvError
    BY <2>6 DEF SrvRecvError
  <2>7. CASE SrvRecvEof
    BY <2>7 DEF SrvRecvEof
  <2>8. CASE SrvDelete
    BY <2>8 DEF SrvDelete
  <2>9. ASSUME NEW c \in Conn, NEW f \in ClientFd, SrvAccept(c, f)
        PROVE  TableInv'
    BY <2>9 DEF SrvAccept
  <2>10. CASE SrvAcceptFails
    BY <2>10 DEF SrvAcceptFails
  <2>11. CASE SrvRegister
    BY <2>11 DEF SrvRegister
  <2>12. QED
    BY <1>1, <2>1, <2>2, <2>3, <2>4, <2>5, <2>6, <2>7, <2>8, <2>9, <2>10, <2>11 DEF ServerTask
<1>2. CASE Callback
  <2>1. CASE PublishClientMsg
    BY <2>1 DEF PublishClientMsg
  <2>2. CASE PublishDisconnected
    BY <2>2 DEF PublishDisconnected
  <2>3. CASE PublishClientConnect
    BY <2>3 DEF PublishClientConnect
  <2>4. QED
    BY <1>2, <2>1, <2>2, <2>3 DEF Callback
<1>3. CASE Bcaster
  <2>1. CASE BcastBegin
    BY <2>1 DEF BcastBegin
  <2>2. ASSUME NEW f \in ClientFd, BcastSend(f)
        PROVE  TableInv'
    BY <2>2 DEF BcastSend
  <2>3. ASSUME NEW f \in ClientFd, BcastSendFails(f)
        PROVE  TableInv'
    BY <2>3 DEF BcastSendFails
  <2>4. ASSUME NEW f \in ClientFd, BcastInterrupted(f)
        PROVE  TableInv'
    BY <2>4 DEF BcastInterrupted
  <2>5. CASE BcastEnd
    BY <2>5 DEF BcastEnd
  <2>6. QED
    BY <1>3, <2>1, <2>2, <2>3, <2>4, <2>5 DEF Bcaster, BcastStep
<1>4. CASE Owner
  <2>1. CASE StartSucceeds
    BY <2>1 DEF StartSucceeds
  <2>2. CASE StartFails
    BY <2>2 DEF StartFails
  <2>3. CASE FinishStop
    BY <2>3 DEF FinishStop
  <2>4. CASE FinishJoin
    BY <2>4 DEF FinishJoin
  <2>5. CASE FinishClose
    BY <2>5 DEF FinishClose
  <2>6. QED
    BY <1>4, <2>1, <2>2, <2>3, <2>4, <2>5 DEF Owner
<1>5. ASSUME NEW c \in Conn, Peer(c) PROVE TableInv'
  <2>1. CASE PeerConnect(c)
    BY <2>1 DEF PeerConnect
  <2>2. CASE PeerWrite(c)
    BY <2>2 DEF PeerWrite
  <2>3. CASE PeerRead(c)
    BY <2>3 DEF PeerRead
  <2>4. CASE PeerClose(c)
    BY <2>4 DEF PeerClose
  <2>5. CASE PeerReset(c)
    BY <2>5 DEF PeerReset
  <2>6. QED
    BY <1>5, <2>1, <2>2, <2>3, <2>4, <2>5 DEF Peer
<1>6. CASE UNCHANGED vars
  BY <1>6 DEF vars
<1>7. QED
  BY <1>1, <1>2, <1>3, <1>4, <1>5, <1>6 DEF Next, Done

-----------------------------------------------------------------------------
(***************************************************************************)
(* The kernel: a connection is behind one descriptor at most, and not at   *)
(* the same time in the accept queue; those that are have not been closed. *)
(***************************************************************************)
KernelInv ==
  /\ \A f, g \in ClientFd : open[f] = open[g] /\ open[f] # NoConn => f = g
  /\ \A f \in ClientFd :
       open[f] # NoConn => /\ open[f] \notin backlog
                           /\ tcp[open[f]] \notin {"unborn", "gone"}
  /\ \A c \in backlog : tcp[c] \notin {"unborn", "gone"}

(* KernelInv holds of a server that has just been constructed.              *)
LEMMA KernelInit == Init => KernelInv
  BY DEF Init, KernelInv

(* Every step keeps KernelInv. *)
LEMMA KernelInvStep ==
  TypeInv /\ LifeInv /\ TableInv /\ KernelInv /\ [Next]_vars => KernelInv'
<1> SUFFICES ASSUME TypeInv, LifeInv, TableInv, KernelInv, [Next]_vars
             PROVE  KernelInv'
  OBVIOUS
<1> USE DEF KernelInv, TableInv, TableMatchesKernel, OpenIsRegistered, Clients,
            LifeInv, TypeInv, TypeOK, CurIsClientFd, AllFd, TcpState,
            memberVars, serverVars, bcastVars,
            peerVars, kernelVars
<1>1. CASE ServerTask
  <2>1. CASE SrvLoop
    BY <2>1 DEF SrvLoop
  <2>2. CASE SrvSelect
    BY <2>2 DEF SrvSelect
  <2>3. CASE SrvScanDone
    BY <2>3 DEF SrvScanDone
  <2>4. ASSUME NEW f \in AllFd, SrvLookup(f)
        PROVE  KernelInv'
    BY <2>4 DEF SrvLookup
  <2>5. CASE SrvRecvData
    BY <2>5 DEF SrvRecvData
  <2>6. CASE SrvRecvError
    BY <2>6 DEF SrvRecvError
  <2>7. CASE SrvRecvEof
    BY <2>7 DEF SrvRecvEof
  <2>8. CASE SrvDelete
    BY <2>8 DEF SrvDelete
  <2>9. ASSUME NEW c \in Conn, NEW f \in ClientFd, SrvAccept(c, f)
        PROVE  KernelInv'
    BY <2>9 DEF SrvAccept
  <2>10. CASE SrvAcceptFails
    BY <2>10 DEF SrvAcceptFails
  <2>11. CASE SrvRegister
    BY <2>11 DEF SrvRegister
  <2>12. QED
    BY <1>1, <2>1, <2>2, <2>3, <2>4, <2>5, <2>6, <2>7, <2>8, <2>9, <2>10, <2>11 DEF ServerTask
<1>2. CASE Callback
  <2>1. CASE PublishClientMsg
    BY <2>1 DEF PublishClientMsg
  <2>2. CASE PublishDisconnected
    BY <2>2 DEF PublishDisconnected
  <2>3. CASE PublishClientConnect
    BY <2>3 DEF PublishClientConnect
  <2>4. QED
    BY <1>2, <2>1, <2>2, <2>3 DEF Callback
<1>3. CASE Bcaster
  <2>1. CASE BcastBegin
    BY <2>1 DEF BcastBegin
  <2>2. ASSUME NEW f \in ClientFd, BcastSend(f)
        PROVE  KernelInv'
    BY <2>2 DEF BcastSend
  <2>3. ASSUME NEW f \in ClientFd, BcastSendFails(f)
        PROVE  KernelInv'
    BY <2>3 DEF BcastSendFails
  <2>4. ASSUME NEW f \in ClientFd, BcastInterrupted(f)
        PROVE  KernelInv'
    BY <2>4 DEF BcastInterrupted
  <2>5. CASE BcastEnd
    BY <2>5 DEF BcastEnd
  <2>6. QED
    BY <1>3, <2>1, <2>2, <2>3, <2>4, <2>5 DEF Bcaster, BcastStep
<1>4. CASE Owner
  <2>1. CASE StartSucceeds
    BY <2>1 DEF StartSucceeds
  <2>2. CASE StartFails
    BY <2>2 DEF StartFails
  <2>3. CASE FinishStop
    BY <2>3 DEF FinishStop
  <2>4. CASE FinishJoin
    BY <2>4 DEF FinishJoin
  <2>5. CASE FinishClose
    BY <2>5 DEF FinishClose
  <2>6. QED
    BY <1>4, <2>1, <2>2, <2>3, <2>4, <2>5 DEF Owner
<1>5. ASSUME NEW c \in Conn, Peer(c) PROVE KernelInv'
  <2>1. CASE PeerConnect(c)
    BY <2>1 DEF PeerConnect
  <2>2. CASE PeerWrite(c)
    BY <2>2 DEF PeerWrite
  <2>3. CASE PeerRead(c)
    BY <2>3 DEF PeerRead
  <2>4. CASE PeerClose(c)
    BY <2>4 DEF PeerClose
  <2>5. CASE PeerReset(c)
    BY <2>5 DEF PeerReset
  <2>6. QED
    BY <1>5, <2>1, <2>2, <2>3, <2>4, <2>5 DEF Peer
<1>6. CASE UNCHANGED vars
  BY <1>6 DEF vars
<1>7. QED
  BY <1>1, <1>2, <1>3, <1>4, <1>5, <1>6 DEF Next, Done

(***************************************************************************)
(* One pass over what select() returned: what is still to be visited       *)
(* stays ready, and is a client or the accept socket.                      *)
(***************************************************************************)
Scanning == {"scan", "recv", "publish", "delete", "disconnect", "accept",
             "register", "connect"}

ReadSetReady ==
  server \in Scanning =>
    \A f \in read_set : (f = ListenFd \/ f \in Clients) /\ Readable(f)

CurVisited ==
  server \in {"recv", "publish", "delete", "disconnect", "accept"}
    => cur \notin read_set

CurInHand ==
  /\ server \in {"recv", "publish", "delete"} => cur \in Clients
  /\ server = "recv" => Readable(cur)
  /\ server = "accept" => cur = ListenFd /\ backlog # {}

ScanInv == ReadSetReady /\ CurVisited /\ CurInHand

(* ScanInv holds of a server that has just been constructed.                *)
LEMMA ScanInit == Init => ScanInv
  BY DEF Init, ScanInv, ReadSetReady, CurVisited, CurInHand, Scanning

(* Every step keeps ScanInv. *)
LEMMA ScanInvStep ==
  TypeInv /\ LifeInv /\ TableInv /\ KernelInv /\ ScanInv /\ [Next]_vars => ScanInv'
<1> SUFFICES ASSUME TypeInv, LifeInv, TableInv, KernelInv, ScanInv, [Next]_vars
             PROVE  ScanInv'
  OBVIOUS
<1> USE DEF ScanInv, ReadSetReady, CurVisited, CurInHand, Scanning, Readable,
            KernelInv, TableInv, TableMatchesKernel, OpenIsRegistered,
            WatchedAreClients, Clients, LifeInv, TypeInv, TypeOK,
            CurIsClientFd, AllFd, TcpState, memberVars, serverVars, bcastVars,
            peerVars, kernelVars
<1>1. CASE ServerTask
  <2>1. CASE SrvLoop
    BY <2>1 DEF SrvLoop
  <2>2. CASE SrvSelect
    BY <2>2 DEF SrvSelect, FindMaxFd, BadFd
  <2>3. CASE SrvScanDone
    BY <2>3 DEF SrvScanDone
  <2>4. ASSUME NEW f \in AllFd, SrvLookup(f)
        PROVE  ScanInv'
    BY <2>4 DEF SrvLookup
  <2>5. CASE SrvRecvData
    BY <2>5 DEF SrvRecvData
  <2>6. CASE SrvRecvError
    BY <2>6 DEF SrvRecvError
  <2>7. CASE SrvRecvEof
    BY <2>7 DEF SrvRecvEof
  <2>8. CASE SrvDelete
    BY <2>8 DEF SrvDelete
  <2>9. ASSUME NEW c \in Conn, NEW f \in ClientFd, SrvAccept(c, f)
        PROVE  ScanInv'
    BY <2>9 DEF SrvAccept
  <2>10. CASE SrvAcceptFails
    BY <2>10 DEF SrvAcceptFails
  <2>11. CASE SrvRegister
    BY <2>11 DEF SrvRegister
  <2>12. QED
    BY <1>1, <2>1, <2>2, <2>3, <2>4, <2>5, <2>6, <2>7, <2>8, <2>9, <2>10, <2>11 DEF ServerTask
<1>2. CASE Callback
  <2>1. CASE PublishClientMsg
    BY <2>1 DEF PublishClientMsg
  <2>2. CASE PublishDisconnected
    BY <2>2 DEF PublishDisconnected
  <2>3. CASE PublishClientConnect
    BY <2>3 DEF PublishClientConnect
  <2>4. QED
    BY <1>2, <2>1, <2>2, <2>3 DEF Callback
<1>3. CASE Bcaster
  <2>1. CASE BcastBegin
    BY <2>1 DEF BcastBegin
  <2>2. ASSUME NEW f \in ClientFd, BcastSend(f)
        PROVE  ScanInv'
    BY <2>2 DEF BcastSend
  <2>3. ASSUME NEW f \in ClientFd, BcastSendFails(f)
        PROVE  ScanInv'
    BY <2>3 DEF BcastSendFails
  <2>4. ASSUME NEW f \in ClientFd, BcastInterrupted(f)
        PROVE  ScanInv'
    BY <2>4 DEF BcastInterrupted
  <2>5. CASE BcastEnd
    BY <2>5 DEF BcastEnd
  <2>6. QED
    BY <1>3, <2>1, <2>2, <2>3, <2>4, <2>5 DEF Bcaster, BcastStep
<1>4. CASE Owner
  <2>1. CASE StartSucceeds
    BY <2>1 DEF StartSucceeds
  <2>2. CASE StartFails
    BY <2>2 DEF StartFails
  <2>3. CASE FinishStop
    BY <2>3 DEF FinishStop
  <2>4. CASE FinishJoin
    BY <2>4 DEF FinishJoin
  <2>5. CASE FinishClose
    BY <2>5 DEF FinishClose
  <2>6. QED
    BY <1>4, <2>1, <2>2, <2>3, <2>4, <2>5 DEF Owner
<1>5. ASSUME NEW c \in Conn, Peer(c) PROVE ScanInv'
  <2>1. CASE PeerConnect(c)
    BY <2>1 DEF PeerConnect
  <2>2. CASE PeerWrite(c)
    BY <2>2 DEF PeerWrite
  <2>3. CASE PeerRead(c)
    BY <2>3 DEF PeerRead
  <2>4. CASE PeerClose(c)
    BY <2>4 DEF PeerClose
  <2>5. CASE PeerReset(c)
    BY <2>5 DEF PeerReset
  <2>6. QED
    BY <1>5, <2>1, <2>2, <2>3, <2>4, <2>5 DEF Peer
<1>6. CASE UNCHANGED vars
  BY <1>6 DEF vars
<1>7. QED
  BY <1>1, <1>2, <1>3, <1>4, <1>5, <1>6 DEF Next, Done

(***************************************************************************)
(* A running sendBcast: the clients it still has to visit are in the       *)
(* table, and unless a send failed the others have the message.            *)
(***************************************************************************)
BcastInv ==
  bcaster = "sending" =>
    /\ todo \subseteq Clients
    /\ success => \A f \in Clients \ todo : bcast \in handed[open[f]]

(* BcastInv holds of a server that has just been constructed.               *)
LEMMA BcastInit == Init => BcastInv
  BY DEF Init, BcastInv

(* Every step keeps BcastInv. *)
LEMMA BcastInvStep ==
  TypeInv /\ LifeInv /\ TableInv /\ BcastInv /\ [Next]_vars => BcastInv'
<1> SUFFICES ASSUME TypeInv, LifeInv, TableInv, BcastInv, [Next]_vars
             PROVE  BcastInv'
  OBVIOUS
<1> USE DEF BcastInv, TableInv, TableMatchesKernel, OpenIsRegistered, Clients,
            MutexFree, LifeInv, TypeInv, TypeOK, CurIsClientFd, AllFd,
            memberVars, serverVars, bcastVars,
            peerVars, kernelVars
<1>1. CASE ServerTask
  <2>1. CASE SrvLoop
    BY <2>1 DEF SrvLoop
  <2>2. CASE SrvSelect
    BY <2>2 DEF SrvSelect
  <2>3. CASE SrvScanDone
    BY <2>3 DEF SrvScanDone
  <2>4. ASSUME NEW f \in AllFd, SrvLookup(f)
        PROVE  BcastInv'
    BY <2>4 DEF SrvLookup
  <2>5. CASE SrvRecvData
    BY <2>5 DEF SrvRecvData
  <2>6. CASE SrvRecvError
    BY <2>6 DEF SrvRecvError
  <2>7. CASE SrvRecvEof
    BY <2>7 DEF SrvRecvEof
  <2>8. CASE SrvDelete
    BY <2>8 DEF SrvDelete
  <2>9. ASSUME NEW c \in Conn, NEW f \in ClientFd, SrvAccept(c, f)
        PROVE  BcastInv'
    BY <2>9 DEF SrvAccept
  <2>10. CASE SrvAcceptFails
    BY <2>10 DEF SrvAcceptFails
  <2>11. CASE SrvRegister
    BY <2>11 DEF SrvRegister
  <2>12. QED
    BY <1>1, <2>1, <2>2, <2>3, <2>4, <2>5, <2>6, <2>7, <2>8, <2>9, <2>10, <2>11 DEF ServerTask
<1>2. CASE Callback
  <2>1. CASE PublishClientMsg
    BY <2>1 DEF PublishClientMsg
  <2>2. CASE PublishDisconnected
    BY <2>2 DEF PublishDisconnected
  <2>3. CASE PublishClientConnect
    BY <2>3 DEF PublishClientConnect
  <2>4. QED
    BY <1>2, <2>1, <2>2, <2>3 DEF Callback
<1>3. CASE Bcaster
  <2>1. CASE BcastBegin
    BY <2>1 DEF BcastBegin
  <2>2. ASSUME NEW f \in ClientFd, BcastSend(f)
        PROVE  BcastInv'
    BY <2>2 DEF BcastSend
  <2>3. ASSUME NEW f \in ClientFd, BcastSendFails(f)
        PROVE  BcastInv'
    BY <2>3 DEF BcastSendFails
  <2>4. ASSUME NEW f \in ClientFd, BcastInterrupted(f)
        PROVE  BcastInv'
    BY <2>4 DEF BcastInterrupted
  <2>5. CASE BcastEnd
    BY <2>5 DEF BcastEnd
  <2>6. QED
    BY <1>3, <2>1, <2>2, <2>3, <2>4, <2>5 DEF Bcaster, BcastStep
<1>4. CASE Owner
  <2>1. CASE StartSucceeds
    BY <2>1 DEF StartSucceeds
  <2>2. CASE StartFails
    BY <2>2 DEF StartFails
  <2>3. CASE FinishStop
    BY <2>3 DEF FinishStop
  <2>4. CASE FinishJoin
    BY <2>4 DEF FinishJoin
  <2>5. CASE FinishClose
    BY <2>5 DEF FinishClose
  <2>6. QED
    BY <1>4, <2>1, <2>2, <2>3, <2>4, <2>5 DEF Owner
<1>5. ASSUME NEW c \in Conn, Peer(c) PROVE BcastInv'
  <2>1. CASE PeerConnect(c)
    BY <2>1 DEF PeerConnect
  <2>2. CASE PeerWrite(c)
    BY <2>2 DEF PeerWrite
  <2>3. CASE PeerRead(c)
    BY <2>3 DEF PeerRead
  <2>4. CASE PeerClose(c)
    BY <2>4 DEF PeerClose
  <2>5. CASE PeerReset(c)
    BY <2>5 DEF PeerReset
  <2>6. QED
    BY <1>5, <2>1, <2>2, <2>3, <2>4, <2>5 DEF Peer
<1>6. CASE UNCHANGED vars
  BY <1>6 DEF vars
<1>7. QED
  BY <1>1, <1>2, <1>3, <1>4, <1>5, <1>6 DEF Next, Done

(***************************************************************************)
(* Nothing is discarded: when a connection is closed its end-of-file was   *)
(* read, and nothing can follow that.                                      *)
(***************************************************************************)
DiscardInv ==
  /\ NothingDiscarded
  /\ server = "delete" => /\ rcvq[open[cur]] = 0
                          /\ tcp[open[cur]] \in {"fin", "dead"}

(* DiscardInv holds of a server that has just been constructed.             *)
LEMMA DiscardInit == Init => DiscardInv
  BY DEF Init, DiscardInv, NothingDiscarded

(* Every step keeps DiscardInv. *)
LEMMA DiscardInvStep ==
  TypeInv /\ LifeInv /\ TableInv /\ KernelInv /\ ScanInv /\ DiscardInv /\ [Next]_vars => DiscardInv'
<1> SUFFICES ASSUME TypeInv, LifeInv, TableInv, KernelInv, ScanInv, DiscardInv, [Next]_vars
             PROVE  DiscardInv'
  OBVIOUS
<1> USE DEF DiscardInv, NothingDiscarded, ScanInv, CurInHand, KernelInv, TableInv,
            TableMatchesKernel, OpenIsRegistered, Clients, LifeInv, TypeInv,
            TypeOK, CurIsClientFd, AllFd, TcpState, memberVars, serverVars, bcastVars,
            peerVars, kernelVars
<1>1. CASE ServerTask
  <2>1. CASE SrvLoop
    BY <2>1 DEF SrvLoop
  <2>2. CASE SrvSelect
    BY <2>2 DEF SrvSelect
  <2>3. CASE SrvScanDone
    BY <2>3 DEF SrvScanDone
  <2>4. ASSUME NEW f \in AllFd, SrvLookup(f)
        PROVE  DiscardInv'
    BY <2>4 DEF SrvLookup
  <2>5. CASE SrvRecvData
    BY <2>5 DEF SrvRecvData
  <2>6. CASE SrvRecvError
    BY <2>6 DEF SrvRecvError
  <2>7. CASE SrvRecvEof
    BY <2>7 DEF SrvRecvEof
  <2>8. CASE SrvDelete
    BY <2>8 DEF SrvDelete
  <2>9. ASSUME NEW c \in Conn, NEW f \in ClientFd, SrvAccept(c, f)
        PROVE  DiscardInv'
    BY <2>9 DEF SrvAccept
  <2>10. CASE SrvAcceptFails
    BY <2>10 DEF SrvAcceptFails
  <2>11. CASE SrvRegister
    BY <2>11 DEF SrvRegister
  <2>12. QED
    BY <1>1, <2>1, <2>2, <2>3, <2>4, <2>5, <2>6, <2>7, <2>8, <2>9, <2>10, <2>11 DEF ServerTask
<1>2. CASE Callback
  <2>1. CASE PublishClientMsg
    BY <2>1 DEF PublishClientMsg
  <2>2. CASE PublishDisconnected
    BY <2>2 DEF PublishDisconnected
  <2>3. CASE PublishClientConnect
    BY <2>3 DEF PublishClientConnect
  <2>4. QED
    BY <1>2, <2>1, <2>2, <2>3 DEF Callback
<1>3. CASE Bcaster
  <2>1. CASE BcastBegin
    BY <2>1 DEF BcastBegin
  <2>2. ASSUME NEW f \in ClientFd, BcastSend(f)
        PROVE  DiscardInv'
    BY <2>2 DEF BcastSend
  <2>3. ASSUME NEW f \in ClientFd, BcastSendFails(f)
        PROVE  DiscardInv'
    BY <2>3 DEF BcastSendFails
  <2>4. ASSUME NEW f \in ClientFd, BcastInterrupted(f)
        PROVE  DiscardInv'
    BY <2>4 DEF BcastInterrupted
  <2>5. CASE BcastEnd
    BY <2>5 DEF BcastEnd
  <2>6. QED
    BY <1>3, <2>1, <2>2, <2>3, <2>4, <2>5 DEF Bcaster, BcastStep
<1>4. CASE Owner
  <2>1. CASE StartSucceeds
    BY <2>1 DEF StartSucceeds
  <2>2. CASE StartFails
    BY <2>2 DEF StartFails
  <2>3. CASE FinishStop
    BY <2>3 DEF FinishStop
  <2>4. CASE FinishJoin
    BY <2>4 DEF FinishJoin
  <2>5. CASE FinishClose
    BY <2>5 DEF FinishClose
  <2>6. QED
    BY <1>4, <2>1, <2>2, <2>3, <2>4, <2>5 DEF Owner
<1>5. ASSUME NEW c \in Conn, Peer(c) PROVE DiscardInv'
  <2>1. CASE PeerConnect(c)
    BY <2>1 DEF PeerConnect
  <2>2. CASE PeerWrite(c)
    BY <2>2 DEF PeerWrite
  <2>3. CASE PeerRead(c)
    BY <2>3 DEF PeerRead
  <2>4. CASE PeerClose(c)
    BY <2>4 DEF PeerClose
  <2>5. CASE PeerReset(c)
    BY <2>5 DEF PeerReset
  <2>6. QED
    BY <1>5, <2>1, <2>2, <2>3, <2>4, <2>5 DEF Peer
<1>6. CASE UNCHANGED vars
  BY <1>6 DEF vars
<1>7. QED
  BY <1>1, <1>2, <1>3, <1>4, <1>5, <1>6 DEF Next, Done

-----------------------------------------------------------------------------
(***************************************************************************)
(* The inductive invariant, and what follows from it.                      *)
(***************************************************************************)
IInv == /\ TypeInv /\ LifeInv /\ TableInv /\ KernelInv
        /\ ScanInv /\ BcastInv /\ DiscardInv

(* IInv is inductive: it holds initially, and every step keeps it.         *)
LEMMA IInvInit == Init => IInv
  BY TypeInit, LifeInit, TableInit, KernelInit, ScanInit, BcastInit,
     DiscardInit DEF IInv

(* Every step of the server, its callers, the peers and the kernel keeps   *)
(* IInv.                                                                   *)
LEMMA IInvStep == IInv /\ [Next]_vars => IInv'
  BY TypeStep, LifeInvStep, TableInvStep, KernelInvStep, ScanInvStep,
     BcastInvStep, DiscardInvStep DEF IInv

(* The inductive invariant of TcpServer holds throughout. *)
THEOREM Invariance == Spec => []IInv
  BY IInvInit, IInvStep, PTL DEF Spec

(* An entry of m_clients always stands for the connection that is now      *)
(* behind its descriptor (deleteClient, finish and the registration in     *)
(* serverTask never let the two part, however descriptors are reused).     *)
THEOREM TableCorrect == Spec => []TableMatchesKernel
<1>1. IInv => TableMatchesKernel
  BY DEF IInv, TableInv
<1>2. QED
  BY <1>1, Invariance, PTL

(* No descriptor that accept() returned is lost track of, and finish()     *)
(* leaves none open.                                                       *)
THEOREM NoLeak == Spec => []NoDescriptorLeak
<1>1. IInv => NoDescriptorLeak
  <2> SUFFICES ASSUME IInv PROVE NoDescriptorLeak
    OBVIOUS
  <2> USE DEF IInv, TableInv, OpenIsRegistered, WatchedAreClients, LifeInv
  <2>1. ASSUME NEW f \in ClientFd, open[f] # NoConn
        PROVE  \/ f \in Clients /\ (f \in m_fds \/ owner = "finished")
               \/ server = "register" /\ cur = f
    BY <2>1
  <2>2. ASSUME owner = "finished", NEW f \in ClientFd PROVE open[f] = NoConn
    BY <2>2
  <2>3. QED
    BY <2>1, <2>2 DEF NoDescriptorLeak
<1>2. QED
  BY <1>1, Invariance, PTL

(* select() is never given a descriptor that is closed. *)
THEOREM SelectCorrect == Spec => []WatchedDescriptorsOpen
<1>1. IInv => WatchedDescriptorsOpen
  BY DEF IInv, WatchedDescriptorsOpen, TypeInv, TypeOK, AllFd, LifeInv,
         TableInv, WatchedAreClients, TableMatchesKernel, Clients, BadFd
<1>2. QED
  BY <1>1, Invariance, PTL

(* The server thread never waits in recv() or accept(), and calls accept() *)
(* on nothing but the accept socket: what select() saw is still there,     *)
(* whatever peers and the broadcasting thread did since.                   *)
THEOREM ServerNeverBlocks == Spec => []NeverBlocksInServerTask
<1>1. IInv => NeverBlocksInServerTask
  BY DEF IInv, NeverBlocksInServerTask, LifeInv, ScanInv, CurInHand, TableInv,
         TableMatchesKernel, Clients
<1>2. QED
  BY <1>1, Invariance, PTL

(* No client that the loop of sendBcast has yet to visit is removed or     *)
(* closed under it.                                                        *)
THEOREM IterationSafe == Spec => []IteratorValid
<1>1. IInv => IteratorValid
  BY DEF IInv, IteratorValid, BcastInv, TableInv, TableMatchesKernel, Clients
<1>2. QED
  BY <1>1, Invariance, PTL

(* A sendBcast that reports success has handed its message to every client *)
(* that is registered.                                                     *)
THEOREM BroadcastCorrect == Spec => []SuccessMeansAll
<1>1. IInv => SuccessMeansAll
  BY DEF IInv, SuccessMeansAll, BcastInv
<1>2. QED
  BY <1>1, Invariance, PTL

(* The running server closes a connection only when all that its peer      *)
(* wrote has been read.                                                    *)
THEOREM ReadsAll == Spec => []NothingDiscarded
<1>1. IInv => NothingDiscarded
  BY DEF IInv, DiscardInv
<1>2. QED
  BY <1>1, Invariance, PTL
=============================================================================
