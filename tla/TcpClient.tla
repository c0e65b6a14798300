----------------------------- MODULE TcpClient -----------------------------
(***************************************************************************)
(* The TCP client of common/TcpClient.h in the program that uses it,       *)
(* net-driver/NetDriver.cpp: class ClientApp owns the client, is the       *)
(* object its callbacks go to, and is deleted when the user quits.         *)
(*                                                                         *)
(* Two threads act: main, which connects, sends a line at a time and       *)
(* deletes the ClientApp, and the receive thread of the client             *)
(* (ReceiveTask). The server and the kernel's side of the one connection   *)
(* are the outside world, modelled as in TcpServer, from the other end.    *)
(***************************************************************************)
EXTENDS Integers

CONSTANTS
  MAX_PACKET_SIZE,  \* the most units one recv() returns
  SendCap,          \* lines the server can leave unread before send() blocks
  MaxUnits,         \* bound: units the server writes
  MaxLines          \* bound: lines the user types

ASSUME SizeAssumption ==
  /\ MAX_PACKET_SIZE \in Nat \ {0} /\ SendCap \in Nat \ {0}
  /\ MaxUnits \in Nat /\ MaxLines \in Nat

VARIABLES
  m_sockfd,         \* "invalid", or "open" until finish() closes it
  m_stop,           \* the receive thread is asked to stop
  main,             \* main's program counter
  receiver,         \* the receive thread's program counter
  received,         \* units the last recv() put in the buffer
  m_logger,         \* ClientApp::m_logger, "ok" or "destroyed"
  process,          \* "running", "killed" by SIGPIPE, or "crashed"
  tcp,              \* state of the connection as the client's socket sees it
  rcvq,             \* units in the receive queue
  unread,           \* lines sent that the server has not read
  lines,            \* lines the user has typed
  written,          \* units the server has written
  delivered,        \* units passed to onReceiveData
  disconnects       \* calls of onDisconnect

clientVars == <<m_sockfd, m_stop, m_logger>>
recvVars   == <<receiver, received, delivered, disconnects>>
serverVars == <<rcvq, written>>
sendVars   == <<unread, lines>>
vars == <<clientVars, main, recvVars, process, tcp, serverVars, sendVars>>

(* As in TcpServer; "none" while there is no connection. *)
TcpState == {"none", "est", "fin", "rst", "dead"}

MainPC == {"connect", "prompt", "quit", "joining", "closing", "done"}

ReceiverPC == {"none", "test", "select", "recv", "deliver", "notify", "ended"}

Init ==
  /\ m_sockfd = "invalid" /\ m_stop = FALSE /\ m_logger = "ok"
  /\ main = "connect" /\ process = "running"
  /\ receiver = "none" /\ received = 0 /\ delivered = 0 /\ disconnects = 0
  /\ tcp = "none" /\ rcvq = 0 /\ written = 0
  /\ unread = 0 /\ lines = 0

-----------------------------------------------------------------------------
(***************************************************************************)
(* Main.                                                                   *)
(***************************************************************************)

(* ClientApp's constructor calls connectTo(); whatever that returns, main  *)
(* goes on to ask for lines.                                               *)
ConnectReturns == main = "connect" /\ main' = "prompt"

(* connectTo() succeeds and starts the receive thread. *)
Connects ==
  /\ ConnectReturns
  /\ m_sockfd' = "open" /\ tcp' = "est" /\ receiver' = "test"
  /\ UNCHANGED <<m_stop, m_logger, received, delivered, disconnects, process,
                 serverVars, sendVars>>

(* It fails: in socket(), or in a later call, which leaves the socket open *)
(* but not connected. The ClientApp only logs it.                          *)
ConnectFails ==
  /\ ConnectReturns
  /\ m_sockfd' \in {"invalid", "open"}
  /\ UNCHANGED <<m_stop, m_logger, recvVars, process, tcp, serverVars, sendVars>>

Types == main = "prompt" /\ lines < MaxLines /\ lines' = lines + 1

(* sendMsg(): the kernel takes the line, for which it may have to wait. *)
Sends ==
  /\ Types
  /\ tcp \in {"est", "fin"} /\ unread < SendCap
  /\ unread' = unread + 1
  /\ UNCHANGED <<clientVars, main, recvVars, process, tcp, serverVars>>

(* Mutant: a failed send() also stops the client. *)
SendFails_Stops ==
  /\ Types
  /\ m_sockfd = "invalid" \/ tcp = "rst"
  /\ tcp' = IF tcp = "rst" THEN "dead" ELSE tcp
  /\ m_stop' = TRUE
  /\ UNCHANGED <<m_sockfd, m_logger, main, recvVars, process, serverVars, unread>>

(* send() returns -1, without a socket or, which consumes the error, after *)
(* a reset. The failure is only logged.                                    *)
SendFails ==
  /\ Types
  /\ m_sockfd = "invalid" \/ tcp = "rst"
  /\ tcp' = IF tcp = "rst" THEN "dead" ELSE tcp
  /\ UNCHANGED <<clientVars, main, recvVars, process, serverVars, unread>>

(* send() on a socket that is not connected, or not any more, raises       *)
(* SIGPIPE, which this program does not ignore.                            *)
SendKills ==
  /\ Types
  /\ m_sockfd = "open" /\ tcp \in {"none", "dead"}
  /\ process' = "killed"
  /\ UNCHANGED <<clientVars, main, recvVars, tcp, serverVars, unread>>

(* "quit": the ClientApp is deleted. Its members are destroyed in reverse  *)
(* order, m_logger before m_client, whose destructor calls finish().       *)
Quit ==
  /\ main = "prompt" /\ main' = "quit"
  /\ m_logger' = "destroyed"
  /\ UNCHANGED <<m_sockfd, m_stop, recvVars, process, tcp, serverVars, sendVars>>

FinishStop ==
  /\ main = "quit" /\ main' = "joining"
  /\ m_stop' = TRUE
  /\ UNCHANGED <<m_sockfd, m_logger, recvVars, process, tcp, serverVars, sendVars>>

FinishJoin ==
  /\ main = "joining" /\ receiver \in {"none", "ended"}
  /\ main' = "closing"
  /\ UNCHANGED <<clientVars, recvVars, process, tcp, serverVars, sendVars>>

FinishClose ==
  /\ main = "closing" /\ main' = "done"
  /\ m_sockfd' = "invalid"
  /\ UNCHANGED <<m_stop, m_logger, recvVars, process, tcp, serverVars, sendVars>>

Deleting == FinishStop \/ FinishJoin \/ FinishClose
Main == Connects \/ ConnectFails \/ Sends \/ SendFails \/ SendKills \/ Quit \/ Deleting

-----------------------------------------------------------------------------
(***************************************************************************)
(* The receive thread.                                                     *)
(***************************************************************************)
Readable == rcvq > 0 \/ tcp \in {"fin", "rst", "dead"}

RecvTest ==
  /\ receiver = "test"
  /\ receiver' = IF m_stop THEN "ended" ELSE "select"
  /\ UNCHANGED <<clientVars, main, received, delivered, disconnects, process, tcp,
                 serverVars, sendVars>>

(* Mutant: m_stop is only looked at when there is nothing to read, and not *)
(* after a timeout.                                                        *)
RecvSelect_NoTest ==
  /\ receiver = "select"
  /\ receiver' = IF Readable THEN "recv" ELSE "select"
  /\ UNCHANGED <<clientVars, main, received, delivered, disconnects, process, tcp,
                 serverVars, sendVars>>

(* select() waits for half a second at most. *)
RecvSelect ==
  /\ receiver = "select"
  /\ receiver' = IF Readable THEN "recv" ELSE IF m_stop THEN "ended" ELSE "test"
  /\ UNCHANGED <<clientVars, main, received, delivered, disconnects, process, tcp,
                 serverVars, sendVars>>

(* Mutant: recv() is given more room than the buffer has. *)
RecvData_NoLimit ==
  /\ receiver = "recv" /\ rcvq > 0
  /\ received' = rcvq /\ rcvq' = 0
  /\ receiver' = "deliver"
  /\ UNCHANGED <<clientVars, main, delivered, disconnects, process, tcp, written,
                 sendVars>>

RecvData ==
  /\ receiver = "recv" /\ rcvq > 0
  /\ received' = IF rcvq < MAX_PACKET_SIZE THEN rcvq ELSE MAX_PACKET_SIZE
  /\ rcvq' = rcvq - received'
  /\ receiver' = "deliver"
  /\ UNCHANGED <<clientVars, main, delivered, disconnects, process, tcp, written,
                 sendVars>>

(* recv() returns 0 at the end of the stream, or -1 after a reset. *)
RecvEnds ==
  /\ receiver = "recv" /\ rcvq = 0
  /\ tcp' = IF tcp = "rst" THEN "dead" ELSE tcp
  /\ m_stop' = TRUE
  /\ receiver' = "notify"
  /\ UNCHANGED <<m_sockfd, m_logger, main, received, delivered, disconnects, process,
                 serverVars, sendVars>>

(* Mutant: the size of the buffer is passed on, not what was received. *)
Deliver_WholeBuffer ==
  /\ receiver = "deliver" /\ receiver' = "test"
  /\ delivered' = delivered + MAX_PACKET_SIZE
  /\ UNCHANGED <<clientVars, main, received, disconnects, process, tcp, serverVars,
                 sendVars>>

(* onReceiveData. *)
Deliver ==
  /\ receiver = "deliver" /\ receiver' = "test"
  /\ delivered' = delivered + received /\ received' = 0
  /\ UNCHANGED <<clientVars, main, disconnects, process, tcp, serverVars, sendVars>>

(* onDisconnect, after which the thread ends. *)
Notify ==
  /\ receiver = "notify" /\ receiver' = "ended"
  /\ disconnects' = disconnects + 1
  /\ UNCHANGED <<clientVars, main, received, delivered, process, tcp, serverVars,
                 sendVars>>

(* Both callbacks use m_logger. Once it is destroyed that is undefined: as *)
(* the actions above, or a crash.                                          *)
CallbackCrashes ==
  /\ receiver \in {"deliver", "notify"} /\ m_logger = "destroyed"
  /\ process' = "crashed"
  /\ UNCHANGED <<clientVars, main, recvVars, tcp, serverVars, sendVars>>

ReceiveTask == RecvTest \/ RecvSelect \/ RecvData \/ RecvEnds \/ Deliver \/ Notify

-----------------------------------------------------------------------------
(***************************************************************************)
(* The server.                                                             *)
(***************************************************************************)
ServerWrite ==
  /\ tcp = "est" /\ written < MaxUnits
  /\ written' = written + 1 /\ rcvq' = rcvq + 1
  /\ UNCHANGED <<clientVars, main, recvVars, process, tcp, sendVars>>

ServerRead ==
  /\ tcp \in {"est", "fin"} /\ unread > 0
  /\ unread' = unread - 1
  /\ UNCHANGED <<clientVars, main, recvVars, process, tcp, serverVars, lines>>

ServerClose ==
  /\ tcp = "est" /\ tcp' = "fin"
  /\ UNCHANGED <<clientVars, main, recvVars, process, serverVars, sendVars>>

ServerReset ==
  /\ tcp \in {"est", "fin"}
  /\ tcp' = IF tcp = "est" THEN "rst" ELSE "dead"
  /\ UNCHANGED <<clientVars, main, recvVars, process, serverVars, sendVars>>

Server == ServerWrite \/ ServerRead \/ ServerClose \/ ServerReset

-----------------------------------------------------------------------------
Running == process = "running" /\ main # "done"

Done == ~Running /\ UNCHANGED vars

Next ==
  \/ Running /\ (Main \/ ReceiveTask \/ CallbackCrashes \/ Server)
  \/ Done

Spec == Init /\ [][Next]_vars

(***************************************************************************)
(* Fairness: the receive thread and, once it deletes the ClientApp, main   *)
(* are scheduled. Nothing is assumed of the user or the server.            *)
(***************************************************************************)
FairSpec ==
  /\ Spec
  /\ WF_vars(Running /\ ReceiveTask)
  /\ WF_vars(Running /\ Deleting)

-----------------------------------------------------------------------------
(***************************************************************************)
(* Properties.                                                             *)
(***************************************************************************)

(* Every variable has its type; what recv() returns fits the buffer. *)
TypeOK ==
  /\ m_sockfd \in {"invalid", "open"} /\ m_stop \in BOOLEAN
  /\ m_logger \in {"ok", "destroyed"}
  /\ main \in MainPC /\ receiver \in ReceiverPC
  /\ process \in {"running", "killed", "crashed"}
  /\ tcp \in TcpState
  /\ received \in 0 .. MAX_PACKET_SIZE
  /\ rcvq \in Nat /\ unread \in Nat /\ lines \in Nat
  /\ written \in Nat /\ delivered \in Nat /\ disconnects \in Nat

(* The callbacks tell the application a consistent story: never more than  *)
(* the server wrote, nothing lost on the way, and onDisconnect at most     *)
(* once, after everything the server wrote before it closed or reset the   *)
(* connection, with the receive thread then over.                          *)
DisconnectIsLast ==
  /\ written = delivered + rcvq + (IF receiver = "deliver" THEN received ELSE 0)
  /\ disconnects > 0 => /\ disconnects = 1 /\ receiver = "ended"
                        /\ delivered = written

(* A lost connection is reported by onDisconnect, also when a failed       *)
(* send() of main was the first to learn of it, unless the user quits or   *)
(* the process ends.                                                       *)
LossReported ==
  tcp \in {"fin", "rst", "dead"}
    ~> (disconnects = 1 \/ main \notin {"connect", "prompt"} \/ ~Running)

(* "quit" ends the program: finish() waits for a receive thread that ends, *)
(* whatever the connection is doing.                                       *)
QuitEndsProcess == (main = "quit") ~> ~Running
=============================================================================
