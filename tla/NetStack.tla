------------------------------ MODULE NetStack ------------------------------
(***************************************************************************)
(* A NetStack (net-stack/NetStack.cpp): a ZmqStack that owns a TcpServer   *)
(* and is the object its callbacks go to. What TCP clients send is         *)
(* published by the server thread (onReceiveClientData); what the          *)
(* subscriber thread receives is broadcast to the TCP clients              *)
(* (onReceivedMessage, the caller of sendBcast).                           *)
(*                                                                         *)
(* This module composes TcpServer with:                                    *)
(*   - the callbacks, each one an action of TcpServer with its effect      *)
(*     conjoined;                                                          *)
(*   - the subscriber thread (Subscriber::Run of common/Subscriber.h): a   *)
(*     message from the proxy makes it call sendBcast, so it is TcpServer's*)
(*     broadcasting thread;                                                *)
(*   - the life of the object: it is constructed, then destroyed           *)
(*     (net-stack/NetStackMain.cpp), or in the inproc-stack process only   *)
(*     stopped before the program ends (inproc-stack/InprocStackMain.cpp). *)
(***************************************************************************)
EXTENDS TcpServer

VARIABLES
  phase,            \* the life of the object, below
  crashed,          \* the process has terminated abnormally
  m_shutdown,       \* Subscriber::m_shutdown
  sub,              \* the subscriber thread's program counter
  publisher,        \* Publisher::m_socket, "open" or "closed"
  netClients,       \* NetStack::m_clients: handle -> who connected as it
  published,        \* units published for each connection
  session           \* what the callbacks said of each connection

stackVars  == <<phase, m_shutdown, publisher>>
clientVars == <<netClients, published, session>>
netVars    == <<vars, stackVars, sub, clientVars, crashed>>

(***************************************************************************)
(* The phases of the object:                                               *)
(*   "ctor"      the base class is being constructed, which starts the     *)
(*               subscriber thread; m_server does not exist yet            *)
(*   "alive"     m_server exists and is being started, or is started       *)
(*   "cleared"   ~NetStack has finished m_server and cleared m_clients     *)
(*   "dying"     the members of NetStack, m_server among them, are gone    *)
(*   "stopping"  Stop() has begun, in ~ZmqStack or at quit                 *)
(*   "stopped"   the subscriber thread is joined, the publisher closed     *)
(*   "gone"      the object is destroyed; at quit, main() has returned     *)
(***************************************************************************)
Phase == {"ctor", "alive", "cleared", "dying", "stopping", "stopped", "gone"}

(* The subscriber thread is "dead" inside a sendBcast of a m_server that is *)
(* not constructed yet, or destroyed; "hung" if that call never returns.    *)
SubState == {"test", "poll", "handling", "dead", "hung", "ended"}

(* Stop() was called on a NetStack that nobody destroys. *)
Quitting == phase \in {"stopping", "stopped", "gone"} /\ owner = "started"

NetInit ==
  /\ Init
  /\ phase = "ctor" /\ crashed = FALSE
  /\ m_shutdown = FALSE /\ sub = "test" /\ publisher = "open"
  /\ netClients = [f \in ClientFd |-> NoConn]
  /\ published = [c \in Conn |-> 0]
  /\ session = [c \in Conn |-> "none"]

-----------------------------------------------------------------------------
(***************************************************************************)
(* The thread that owns the object.                                        *)
(***************************************************************************)

(* The base class and the members are constructed. *)
Constructed ==
  /\ phase = "ctor"
  /\ phase' = "alive"
  /\ UNCHANGED <<vars, m_shutdown, publisher, sub, clientVars, crashed>>

(* m_server.start() in the constructor, whose failure is only logged, and  *)
(* m_server.finish() in the destructor.                                    *)
ServerOwner ==
  /\ phase = "alive" /\ Owner
  /\ UNCHANGED <<stackVars, sub, clientVars, crashed>>

(* The end of ~NetStack: m_clients is cleared. *)
ClearClients ==
  /\ phase = "alive" /\ owner = "finished"
  /\ phase' = "cleared"
  /\ netClients' = [f \in ClientFd |-> NoConn]
  /\ UNCHANGED <<vars, m_shutdown, publisher, sub, published, session, crashed>>

(* The members are destroyed. ~TcpServer calls finish() again, which finds *)
(* nothing to do but waits for the mutex.                                  *)
DestroyMembers ==
  /\ phase = "cleared" /\ MutexFree
  /\ phase' = "dying"
  /\ UNCHANGED <<vars, m_shutdown, publisher, sub, clientVars, crashed>>

(* Stop(): first the subscriber is told to stop. It is called by ~ZmqStack, *)
(* or on "quit" with the server still running.                              *)
StopSubscriber ==
  /\ phase = "dying" \/ (phase = "alive" /\ owner = "started")
  /\ phase' = "stopping"
  /\ m_shutdown' = TRUE
  /\ UNCHANGED <<vars, publisher, sub, clientVars, crashed>>

(* Then its thread is joined and the publisher's socket closed. A NetStack *)
(* has no receiver.                                                        *)
JoinSubscriber ==
  /\ phase = "stopping" /\ sub = "ended"
  /\ publisher' = "closed"
  /\ phase' = "stopped"
  /\ UNCHANGED <<vars, m_shutdown, sub, clientVars, crashed>>

Leave ==
  /\ phase = "stopped"
  /\ phase' = "gone"
  /\ UNCHANGED <<vars, m_shutdown, publisher, sub, clientVars, crashed>>

Main == Constructed \/ ServerOwner \/ ClearClients \/ DestroyMembers
          \/ StopSubscriber \/ JoinSubscriber \/ Leave

-----------------------------------------------------------------------------
(***************************************************************************)
(* The subscriber thread.                                                  *)
(***************************************************************************)

(* Mutant: the loop of Run() does not look at m_shutdown. *)
SubTest_Forever ==
  /\ sub = "test"
  /\ sub' = "poll"
  /\ UNCHANGED <<vars, stackVars, clientVars, crashed>>

SubTest ==
  /\ sub = "test"
  /\ sub' = IF m_shutdown THEN "ended" ELSE "poll"
  /\ UNCHANGED <<vars, stackVars, clientVars, crashed>>

(* A round of the loop that does not reach onReceivedMessage of NetStack:  *)
(* zmq::poll() times out after 100 ms; a welcome or control message is     *)
(* handled; or ZmqStack's constructor or destructor runs, so that the call *)
(* goes to ZmqStack's own onReceivedMessage, which only logs.              *)
SubTimeout ==
  /\ sub = "poll"
  /\ sub' = "test"
  /\ UNCHANGED <<vars, stackVars, clientVars, crashed>>

(* A message arrives and onReceivedMessage broadcasts it. *)
SubMessage ==
  /\ sub = "poll" /\ (phase \in {"alive", "cleared"} \/ Quitting)
  /\ BcastBegin
  /\ sub' = "handling"
  /\ UNCHANGED <<stackVars, clientVars, crashed>>

(* zmq::poll() or the receiving throws, for a signal this thread handles:   *)
(* the loop is left, and the thread ends.                                  *)
SubBreaks ==
  /\ sub = "poll"
  /\ sub' = "ended"
  /\ UNCHANGED <<vars, stackVars, clientVars, crashed>>

(* A message arrives before m_server exists, or after it is destroyed, and *)
(* onReceivedMessage calls its sendBcast none the less.                    *)
SubDeadMember ==
  /\ sub = "poll" /\ phase \in {"ctor", "dying"}
  /\ sub' = "dead"
  /\ UNCHANGED <<vars, stackVars, clientVars, crashed>>

(* The behaviour is undefined: the call finds memory in which it does      *)
(* nothing, or waits for ever for what it takes for a locked mutex, or     *)
(* crashes, by then perhaps in a later phase.                              *)
SubDeadCall ==
  /\ sub = "dead"
  /\ \/ sub' \in {"test", "hung"} /\ UNCHANGED crashed
     \/ crashed' = TRUE /\ UNCHANGED sub
  /\ UNCHANGED <<vars, stackVars, clientVars>>

SubBcast ==
  /\ \E f \in ClientFd : BcastSend(f) \/ BcastSendFails(f)
  /\ UNCHANGED <<stackVars, sub, clientVars, crashed>>

SubInterrupted ==
  /\ \E f \in ClientFd : BcastInterrupted(f)
  /\ UNCHANGED <<stackVars, sub, clientVars, crashed>>

(* sendBcast returns; its result is not looked at. *)
SubReturn ==
  /\ BcastEnd
  /\ sub' = "test"
  /\ UNCHANGED <<stackVars, clientVars, crashed>>

SubRun == SubTest \/ SubTimeout \/ SubBcast \/ SubReturn \/ SubDeadCall
Subscriber == SubRun \/ SubMessage \/ SubBreaks \/ SubDeadMember \/ SubInterrupted

-----------------------------------------------------------------------------
(***************************************************************************)
(* The server thread and its callbacks.                                    *)
(***************************************************************************)
StackServerTask ==
  /\ ServerTask
  /\ UNCHANGED <<stackVars, sub, clientVars, crashed>>

(* TcpServer::getClientInfo: who has handle f, or NoConn. *)
GetClientInfo(f) == IF f \in Clients THEN m_clients[f] ELSE NoConn

(* onClientConnect: getClientInfo (which takes the server's mutex) finds   *)
(* who has the handle, and the handle is entered in m_clients.             *)
OnClientConnect ==
  /\ PublishClientConnect /\ MutexFree
  /\ IF GetClientInfo(cur) # NoConn
     THEN /\ netClients' = [netClients EXCEPT ![cur] = GetClientInfo(cur)]
          /\ session' = [session EXCEPT ![GetClientInfo(cur)] = "up"]
     ELSE UNCHANGED <<netClients, session>>
  /\ UNCHANGED <<stackVars, sub, published, crashed>>

(* Mutant: the buffer is published instead of what was received in it. *)
OnReceiveClientData_WholeBuffer ==
  /\ PublishClientMsg /\ publisher = "open"
  /\ published' = [c \in Conn |-> IF c = netClients[cur]
                                  THEN published[c] + MAX_PACKET_SIZE
                                  ELSE published[c]]
  /\ UNCHANGED <<stackVars, sub, netClients, session, crashed>>

(* onReceiveClientData: the data is published. *)
OnReceiveClientData ==
  /\ PublishClientMsg /\ publisher = "open"
  /\ published' = [c \in Conn |-> IF c = netClients[cur]
                                  THEN published[c] + received
                                  ELSE published[c]]
  /\ UNCHANGED <<stackVars, sub, netClients, session, crashed>>

(* Publishing on the closed socket throws zmq::error_t, which nothing in   *)
(* the server thread catches: the process is terminated.                   *)
PublishThrows ==
  /\ server = "publish" /\ publisher = "closed"
  /\ crashed' = TRUE
  /\ UNCHANGED <<vars, stackVars, sub, clientVars>>

(* Mutant: the handle stays in NetStack::m_clients. *)
OnClientDisconnect_Keeps ==
  /\ PublishDisconnected
  /\ session' = [c \in Conn |-> IF c = netClients[cur] THEN "down" ELSE session[c]]
  /\ UNCHANGED <<stackVars, sub, netClients, published, crashed>>

(* onClientDisconnect: the handle is taken out of m_clients. *)
OnClientDisconnect ==
  /\ PublishDisconnected
  /\ session' = [c \in Conn |-> IF c = netClients[cur] THEN "down" ELSE session[c]]
  /\ netClients' = [netClients EXCEPT ![cur] = NoConn]
  /\ UNCHANGED <<stackVars, sub, published, crashed>>

StackCallback == OnClientConnect \/ OnReceiveClientData \/ PublishThrows
                   \/ OnClientDisconnect

Peers ==
  /\ \E c \in Conn : Peer(c)
  /\ UNCHANGED <<stackVars, sub, clientVars, crashed>>

-----------------------------------------------------------------------------
(* The process has ended, or its main thread waits for a hung subscriber   *)
(* thread and everything else has come to rest.                            *)
NetDone ==
  /\ \/ crashed
     \/ phase = "gone"
     \/ sub = "hung" /\ phase = "stopping" /\ server \in {"off", "exit"}
  /\ UNCHANGED netVars

NetNext ==
  \/ /\ ~crashed /\ phase # "gone"
     /\ Main \/ Subscriber \/ StackServerTask \/ StackCallback \/ Peers
  \/ NetDone

NetSpec == NetInit /\ [][NetNext]_netVars

(***************************************************************************)
(* Fairness: the three threads are scheduled; the destructor, once called, *)
(* goes on. Nothing is assumed of peers, of signals, nor that messages     *)
(* arrive or that the object is ever destroyed. Weak fairness of a step    *)
(* that waits for the mutex is enough: the broadcasts are bounded.         *)
(***************************************************************************)
Alive(A) == ~crashed /\ phase # "gone" /\ A

Destructor ==
  \/ (FinishJoin \/ FinishClose) /\ ServerOwner
  \/ ClearClients \/ DestroyMembers
  \/ phase = "dying" /\ StopSubscriber
  \/ JoinSubscriber \/ Leave

NetFairness ==
  /\ WF_netVars(Alive(StackServerTask \/ StackCallback))
  /\ WF_netVars(Alive(SubRun))
  /\ WF_netVars(Alive(Destructor))

NetFairSpec == NetSpec /\ NetFairness

-----------------------------------------------------------------------------
(***************************************************************************)
(* Properties.                                                             *)
(***************************************************************************)

(* Every variable of the composition has its type. *)
NetTypeOK ==
  /\ TypeOK
  /\ phase \in Phase /\ crashed \in BOOLEAN
  /\ m_shutdown \in BOOLEAN /\ sub \in SubState
  /\ publisher \in {"open", "closed"}
  /\ netClients \in [ClientFd -> Conn \cup {NoConn}]
  /\ published \in [Conn -> Nat]
  /\ session \in [Conn -> {"none", "up", "down"}]

(* TcpServer::m_clients and NetStack::m_clients, kept under two mutexes,   *)
(* agree on who has which handle: they differ only for the handle whose    *)
(* connect or disconnect callback is due, and while the destructor is      *)
(* between clearing the one and the other.                                 *)
ClientSetsAgree ==
  owner # "finished" =>
    \A f \in ClientFd : \/ netClients[f] = m_clients[f]
                        \/ server \in {"connect", "disconnect"} /\ f = cur

(* Units recv() has taken from connection c and serverTask has yet to      *)
(* publish.                                                                *)
InHand(c) == IF server = "publish" /\ open[cur] = c THEN received ELSE 0

(* No unit a client sends is lost, duplicated or credited to another       *)
(* client, also when its descriptor is reused: each is published for the   *)
(* connection it came from, is in the server thread's hands, or is still   *)
(* in the connection's receive queue.                                      *)
Conservation ==
  \A c \in Conn : sent[c] = published[c] + InHand(c) + rcvq[c]

(* ~NetStack finishes the server before ~ZmqStack closes the publisher, so *)
(* that no callback can publish on a closed socket, unless the program was *)
(* told to quit.                                                           *)
PublisherOutlivesServer ==
  (publisher = "closed" /\ ~Quitting) => server \in {"off", "exit"}

(* Each connection sees a session as ClientSession specifies it. *)
Session == INSTANCE ClientSession WITH written <- sent, delivered <- published
SessionSpec == Session!Spec

(* The subscriber thread hung, or crashed the process, in a m_server that  *)
(* was not constructed yet or was destroyed.                               *)
LostInDeadServer == sub = "hung" \/ (crashed /\ sub = "dead")

(* Once its destructor runs, the object is destroyed, unless a broadcast is *)
(* stalled for ever by a peer that does not read, or the subscriber thread  *)
(* is lost in a call of sendBcast that began before m_server existed or     *)
(* after it did. Nothing else hangs it or ends the process before it is    *)
(* through; no callback does, on a publisher already closed.               *)
DestructorReturns ==
  (owner = "joining") ~> (phase = "gone" \/ LostInDeadServer \/ []Stalled)

(* A TCP client whose connection ended, in either way, is removed from the *)
(* table and its handle closed, unless the server stops or is stalled:     *)
(* also after a recv() that returned -1, which serverTask does not act on, *)
(* or a failed send() that consumed the error.                             *)
EndedClientRemoved ==
  \A f \in ClientFd :
    (f \in Clients /\ tcp[m_clients[f]] \in {"fin", "rst", "dead"})
      ~> (f \notin Clients \/ m_stop \/ phase = "gone" \/ crashed \/ []Stalled)
=============================================================================
