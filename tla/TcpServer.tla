----------------------------- MODULE TcpServer -----------------------------
(***************************************************************************)
(* The TCP server of common/TcpServer.h: class TcpServer, which accepts    *)
(* connections and receives on them in one thread (serverTask), lets       *)
(* another thread broadcast to every client (sendBcast), and is started    *)
(* and finished by a third.                                                *)
(*                                                                         *)
(* Three threads of the program act here:                                  *)
(*   - the server thread, program counter `server';                        *)
(*   - the broadcasting thread (the ZMQ subscriber thread of a NetStack),  *)
(*     which is inside sendBcast exactly when `bcaster' = "sending";       *)
(*   - the owner (the thread that constructs and destroys the server),     *)
(*     program counter `owner'.                                            *)
(* The other actor is the outside world: the peers of the connections and  *)
(* the kernel's side of each socket, modelled from the socket calls of     *)
(* common/SocketCore.h.                                                    *)
(*                                                                         *)
(* Every critical section on m_mutex but the one of sendBcast makes no     *)
(* blocking call, so it is a single action whose guard is MutexFree; the   *)
(* mutex is therefore held exactly while bcaster = "sending".              *)
(*                                                                         *)
(* Data are abstracted: what a peer writes is a number of units (a unit is *)
(* any run of bytes), a broadcast message is its number.                   *)
(***************************************************************************)
EXTENDS Integers, FiniteSets

CONSTANTS
  Conn,             \* the connections peers can open
  NoConn,           \* "no connection": a free descriptor, an absent map key
  ClientFd,         \* the descriptors accept() can return
  ListenFd,         \* the descriptor socket() returns for the accept socket
  MAX_PACKET_SIZE,  \* the most units one recv() returns
  SendCap,          \* units a peer can leave unread before send() blocks
  MaxUnits,         \* bound: units one peer writes
  MaxBcast          \* bound: broadcasts attempted

INVALID_SOCKET == -1

ASSUME FdAssumption ==
  /\ ClientFd \subseteq Nat
  /\ ListenFd \in Nat \ ClientFd
ASSUME ConnAssumption == NoConn \notin Conn
ASSUME SizeAssumption ==
  /\ MAX_PACKET_SIZE \in Nat \ {0}
  /\ SendCap \in Nat \ {0}
  /\ MaxUnits \in Nat
  /\ MaxBcast \in Nat

VARIABLES
  \* members of TcpServer
  m_sockfd,       \* the accept socket, or INVALID_SOCKET
  m_fds,          \* descriptors select() watches
  m_stop,         \* the server thread is asked to stop
  m_clients,      \* handle -> the connection its Client object was made for
  m_isConnected,  \* handle -> Client::m_isConnected
  \* the server thread
  server,         \* its program counter
  read_set,       \* what select() returned and the for loop has yet to visit
  cur,            \* the descriptor in hand (fd, or clientfd after accept)
  received,       \* units the last recv() put in the buffer
  \* the broadcasting thread
  bcaster,        \* "idle" or "sending" (inside sendBcast, mutex held)
  bcast,          \* number of the current or last broadcast
  todo,           \* clients the loop of sendBcast has yet to visit
  success,        \* ret.m_success of sendBcast
  \* the owner
  owner,          \* its program counter
  \* the kernel and the peers
  open,           \* descriptor -> the connection behind it
  backlog,        \* connections established but not yet accepted
  tcp,            \* state of each connection as the server's socket sees it
  sent,           \* units the peer has written
  rcvq,           \* units in the receive queue, not yet read by recv()
  unread,         \* units sent to the peer that it has not read
  handed          \* broadcasts the kernel took for the peer

memberVars == <<m_sockfd, m_fds, m_stop, m_clients, m_isConnected>>
serverVars == <<server, read_set, cur, received>>
bcastVars  == <<bcaster, bcast, todo, success>>
peerVars   == <<sent, unread, handed>>
kernelVars == <<open, backlog, tcp, rcvq>>
vars == <<memberVars, serverVars, bcastVars, owner, kernelVars, peerVars>>

(***************************************************************************)
(* A connection is "unborn" until its peer connects, then established      *)
(* ("est"); "fin" when the peer closed it in an orderly way; "rst" when it *)
(* was reset and the error has not been reported by a call yet; "dead"     *)
(* when no call can succeed on it any more but the end-of-file has not     *)
(* been read; "gone" when the server closed its end.                       *)
(***************************************************************************)
TcpState == {"unborn", "est", "fin", "rst", "dead", "gone"}

ServerState == {"off", "loop", "select", "scan", "recv", "publish", "delete",
                "disconnect", "accept", "register", "connect", "exit"}

AllFd == ClientFd \cup {ListenFd}

(* The keys of m_clients. *)
Clients == {f \in ClientFd : m_clients[f] # NoConn}

(* Mutant: the critical sections of the server thread take no lock. *)
MutexFree_Unlocked == TRUE

(* No thread is inside a critical section that outlasts a step. *)
MutexFree == bcaster = "idle"

(* The accept socket is bound and listening. *)
Listening == m_sockfd = ListenFd /\ ListenFd \in m_fds

Init ==
  /\ m_sockfd = INVALID_SOCKET
  /\ m_fds = {}
  /\ m_stop = FALSE
  /\ m_clients = [f \in ClientFd |-> NoConn]
  /\ m_isConnected = [f \in ClientFd |-> FALSE]
  /\ server = "off" /\ read_set = {} /\ cur = INVALID_SOCKET /\ received = 0
  /\ bcaster = "idle" /\ bcast = 0 /\ todo = {} /\ success = TRUE
  /\ owner = "constructed"
  /\ open = [f \in ClientFd |-> NoConn]
  /\ backlog = {}
  /\ tcp = [c \in Conn |-> "unborn"]
  /\ sent = [c \in Conn |-> 0]
  /\ rcvq = [c \in Conn |-> 0]
  /\ unread = [c \in Conn |-> 0]
  /\ handed = [c \in Conn |-> {}]

-----------------------------------------------------------------------------
(***************************************************************************)
(* The peers.                                                              *)
(***************************************************************************)

(* connect(): the kernel completes the handshake and queues the connection *)
(* until accept() takes it. The backlog of 5 given to listen() is never    *)
(* reached with the numbers of connections checked here.                   *)
PeerConnect(c) ==
  /\ tcp[c] = "unborn" /\ Listening
  /\ tcp' = [tcp EXCEPT ![c] = "est"]
  /\ backlog' = backlog \cup {c}
  /\ UNCHANGED <<memberVars, serverVars, bcastVars, owner, open, rcvq, peerVars>>

(* The peer writes one unit; it may do so before it is accepted. *)
PeerWrite(c) ==
  /\ tcp[c] = "est" /\ sent[c] < MaxUnits
  /\ sent' = [sent EXCEPT ![c] = @ + 1]
  /\ rcvq' = [rcvq EXCEPT ![c] = @ + 1]
  /\ UNCHANGED <<memberVars, serverVars, bcastVars, owner, open, backlog, tcp,
                 unread, handed>>

(* The peer reads one unit, making room in the send path; it may go on     *)
(* reading after it closed its own direction.                              *)
PeerRead(c) ==
  /\ tcp[c] \in {"est", "fin"} /\ unread[c] > 0
  /\ unread' = [unread EXCEPT ![c] = @ - 1]
  /\ UNCHANGED <<memberVars, serverVars, bcastVars, owner, kernelVars, sent,
                 handed>>

(* The peer closes its direction of the connection in an orderly way. *)
PeerClose(c) ==
  /\ tcp[c] = "est"
  /\ tcp' = [tcp EXCEPT ![c] = "fin"]
  /\ UNCHANGED <<memberVars, serverVars, bcastVars, owner, open, backlog, rcvq,
                 peerVars>>

(* A reset arrives. After a FIN the socket still reads as end-of-file, so  *)
(* only sends can tell.                                                    *)
PeerReset(c) ==
  /\ tcp[c] \in {"est", "fin"}
  /\ tcp' = [tcp EXCEPT ![c] = IF @ = "est" THEN "rst" ELSE "dead"]
  /\ UNCHANGED <<memberVars, serverVars, bcastVars, owner, open, backlog, rcvq,
                 peerVars>>

Peer(c) == PeerConnect(c) \/ PeerWrite(c) \/ PeerRead(c) \/ PeerClose(c)
             \/ PeerReset(c)

-----------------------------------------------------------------------------
(***************************************************************************)
(* start(): on success the thread runs; when a call after socket() fails,  *)
(* m_sockfd keeps the descriptor and no thread is started; when socket()   *)
(* fails, m_sockfd stays invalid.                                          *)
(***************************************************************************)
StartSucceeds ==
  /\ owner = "constructed"
  /\ m_sockfd' = ListenFd
  /\ m_fds' = {ListenFd}
  /\ server' = "loop"
  /\ owner' = "started"
  /\ UNCHANGED <<m_stop, m_clients, m_isConnected, read_set, cur, received,
                 bcastVars, kernelVars, peerVars>>

(* Mutant: m_fds is set before the calls that can fail. *)
StartFails_FdSetFirst ==
  /\ owner = "constructed"
  /\ m_sockfd' \in {ListenFd, INVALID_SOCKET}
  /\ m_fds' = {m_sockfd'}
  /\ owner' = "started"
  /\ UNCHANGED <<m_stop, m_clients, m_isConnected, serverVars, bcastVars,
                 kernelVars, peerVars>>

StartFails ==
  /\ owner = "constructed"
  /\ m_sockfd' \in {ListenFd, INVALID_SOCKET}
  /\ owner' = "started"
  /\ UNCHANGED <<m_fds, m_stop, m_clients, m_isConnected, serverVars,
                 bcastVars, kernelVars, peerVars>>

(***************************************************************************)
(* finish(): ask the thread to stop, join it if there is one, then close   *)
(* every socket and clear the table under the mutex.                       *)
(***************************************************************************)
FinishStop ==
  /\ owner = "started"
  /\ m_stop' = TRUE
  /\ owner' = "joining"
  /\ UNCHANGED <<m_sockfd, m_fds, m_clients, m_isConnected, serverVars,
                 bcastVars, kernelVars, peerVars>>

(* Mutant: the thread is detached, not joined. *)
FinishJoin_Detaches ==
  /\ owner = "joining"
  /\ owner' = "closing"
  /\ UNCHANGED <<memberVars, serverVars, bcastVars, kernelVars, peerVars>>

FinishJoin ==
  /\ owner = "joining" /\ server \in {"off", "exit"}
  /\ owner' = "closing"
  /\ UNCHANGED <<memberVars, serverVars, bcastVars, kernelVars, peerVars>>

(* Mutant: the table is cleared before the loop that closes its sockets. *)
FinishClose_ClearsFirst ==
  /\ owner = "closing" /\ MutexFree
  /\ m_sockfd' = INVALID_SOCKET
  /\ m_clients' = [f \in ClientFd |-> NoConn]
  /\ owner' = "finished"
  /\ UNCHANGED <<m_fds, m_stop, m_isConnected, serverVars, bcastVars,
                 kernelVars, peerVars>>

(* Closing a client ends its connection; closing the accept socket ends    *)
(* the ones still queued on it.                                            *)
FinishClose ==
  /\ owner = "closing" /\ MutexFree
  /\ open' = [f \in ClientFd |-> IF f \in Clients THEN NoConn ELSE open[f]]
  /\ tcp' = [c \in Conn |->
               IF (\E f \in Clients : open[f] = c) \/ c \in backlog
               THEN "gone" ELSE tcp[c]]
  /\ backlog' = {}
  /\ m_sockfd' = INVALID_SOCKET
  /\ m_clients' = [f \in ClientFd |-> NoConn]
  /\ owner' = "finished"
  /\ UNCHANGED <<m_fds, m_stop, m_isConnected, serverVars, bcastVars, rcvq,
                 peerVars>>

Owner == StartSucceeds \/ StartFails \/ FinishStop \/ FinishJoin \/ FinishClose

-----------------------------------------------------------------------------
(***************************************************************************)
(* The server thread: serverTask().                                        *)
(***************************************************************************)

(* Mutant: only the accept socket is looked at. *)
FindMaxFd_ListenerOnly == 1 + m_sockfd

(* findMaxFd(): one more than the highest descriptor select() looks at. *)
FindMaxFd == 1 + CHOOSE m \in Clients \cup {m_sockfd} :
                   \A f \in Clients \cup {m_sockfd} : f <= m

(* What select() reports: a queued connection, unread data, an end-of-file *)
(* or a pending error.                                                     *)
Readable(f) ==
  IF f = ListenFd THEN backlog # {}
  ELSE /\ open[f] # NoConn
       /\ rcvq[open[f]] > 0 \/ tcp[open[f]] \in {"fin", "rst", "dead"}

SrvLoop ==
  /\ server = "loop"
  /\ server' = IF m_stop THEN "exit" ELSE "select"
  /\ UNCHANGED <<memberVars, read_set, cur, received, bcastVars, owner,
                 kernelVars, peerVars>>

(* A descriptor select() is asked to watch after it was closed. *)
BadFd(f) == f # m_sockfd /\ open[f] = NoConn

(* select() returns: with ready descriptors; by timeout or interruption    *)
(* when there are none; or with EBADF, and nothing reported, when one of   *)
(* the descriptors it looks at is closed.                                  *)
SrvSelect ==
  /\ server = "select"
  /\ LET watched == {f \in m_fds : f < FindMaxFd}
     IN  read_set' = IF \E f \in watched : BadFd(f) THEN {}
                     ELSE {f \in watched : Readable(f)}
  /\ server' = IF read_set' = {} THEN "loop" ELSE "scan"
  /\ UNCHANGED <<memberVars, cur, received, bcastVars, owner, kernelVars,
                 peerVars>>

(* The for loop has visited every ready descriptor. *)
SrvScanDone ==
  /\ server = "scan" /\ read_set = {}
  /\ server' = "loop"
  /\ UNCHANGED <<memberVars, read_set, cur, received, bcastVars, owner,
                 kernelVars, peerVars>>

(* The next ready descriptor, in increasing order, is looked up in the     *)
(* table under the mutex; one that is no client is taken for the accept    *)
(* socket.                                                                 *)
SrvLookup(f) ==
  /\ server = "scan" /\ MutexFree
  /\ f \in read_set /\ \A g \in read_set : f <= g
  /\ cur' = f
  /\ read_set' = read_set \ {f}
  /\ server' = IF f \in Clients THEN "recv" ELSE "accept"
  /\ UNCHANGED <<memberVars, received, bcastVars, owner, kernelVars, peerVars>>

(* recv() on cur returns data. *)
SrvRecvData ==
  /\ server = "recv" /\ open[cur] # NoConn /\ rcvq[open[cur]] > 0
  /\ received' = IF rcvq[open[cur]] < MAX_PACKET_SIZE
                 THEN rcvq[open[cur]] ELSE MAX_PACKET_SIZE
  /\ rcvq' = [rcvq EXCEPT ![open[cur]] = @ - received']
  /\ server' = "publish"
  /\ UNCHANGED <<memberVars, read_set, cur, bcastVars, owner, open, backlog,
                 tcp, peerVars>>

(* recv() on cur returns -1. The client stays in the table, only marked. *)
SrvRecvError ==
  /\ server = "recv"
  /\ open[cur] # NoConn => rcvq[open[cur]] = 0 /\ tcp[open[cur]] = "rst"
  /\ m_isConnected' = [m_isConnected EXCEPT ![cur] = FALSE]
  /\ tcp' = [c \in Conn |-> IF c = open[cur] THEN "dead" ELSE tcp[c]]
  /\ server' = "scan"
  /\ UNCHANGED <<m_sockfd, m_fds, m_stop, m_clients, read_set, cur, received,
                 bcastVars, owner, open, backlog, rcvq, peerVars>>

(* recv() on cur returns 0, the end of the stream. *)
SrvRecvEof ==
  /\ server = "recv" /\ open[cur] # NoConn /\ rcvq[open[cur]] = 0
  /\ tcp[open[cur]] \in {"fin", "dead"}
  /\ m_isConnected' = [m_isConnected EXCEPT ![cur] = FALSE]
  /\ server' = "delete"
  /\ UNCHANGED <<m_sockfd, m_fds, m_stop, m_clients, read_set, cur, received,
                 bcastVars, owner, kernelVars, peerVars>>

(* Mutants: the table entry stays; the descriptor stays watched. *)
SrvDelete_KeepsEntry ==
  /\ server = "delete" /\ MutexFree
  /\ open' = [open EXCEPT ![cur] = NoConn]
  /\ tcp' = [c \in Conn |-> IF c = open[cur] THEN "gone" ELSE tcp[c]]
  /\ m_fds' = m_fds \ {cur}
  /\ server' = "disconnect"
  /\ UNCHANGED <<m_sockfd, m_stop, m_clients, m_isConnected, read_set, cur,
                 received, bcastVars, owner, backlog, rcvq, peerVars>>

SrvDelete_NoFdClr ==
  /\ server = "delete" /\ MutexFree
  /\ open' = [open EXCEPT ![cur] = NoConn]
  /\ tcp' = [c \in Conn |-> IF c = open[cur] THEN "gone" ELSE tcp[c]]
  /\ m_clients' = [m_clients EXCEPT ![cur] = NoConn]
  /\ server' = "disconnect"
  /\ UNCHANGED <<m_sockfd, m_fds, m_stop, m_isConnected, read_set, cur,
                 received, bcastVars, owner, backlog, rcvq, peerVars>>

(* deleteClient(cur), which does nothing for a handle not in the table. *)
SrvDelete ==
  /\ server = "delete" /\ MutexFree
  /\ IF cur \in Clients
     THEN /\ open' = [open EXCEPT ![cur] = NoConn]
          /\ tcp' = [c \in Conn |-> IF c = open[cur] THEN "gone" ELSE tcp[c]]
          /\ m_fds' = m_fds \ {cur}
          /\ m_clients' = [m_clients EXCEPT ![cur] = NoConn]
     ELSE UNCHANGED <<open, tcp, m_fds, m_clients>>
  /\ server' = "disconnect"
  /\ UNCHANGED <<m_sockfd, m_stop, m_isConnected, read_set, cur, received,
                 bcastVars, owner, backlog, rcvq, peerVars>>

(* accept(): the new connection gets any descriptor that is not in use. *)
SrvAccept(c, f) ==
  /\ server = "accept" /\ cur = m_sockfd
  /\ c \in backlog /\ open[f] = NoConn
  /\ backlog' = backlog \ {c}
  /\ open' = [open EXCEPT ![f] = c]
  /\ cur' = f
  /\ server' = "register"
  /\ UNCHANGED <<memberVars, read_set, received, bcastVars, owner, tcp, rcvq,
                 peerVars>>

(* accept() returns -1: the process is out of descriptors or the kernel    *)
(* out of memory (the connection then stays queued), or cur is not a       *)
(* listening socket.                                                       *)
SrvAcceptFails ==
  /\ server = "accept"
  /\ server' = "scan"
  /\ UNCHANGED <<memberVars, read_set, cur, received, bcastVars, owner,
                 kernelVars, peerVars>>

(* emplace() under the mutex, which leaves an existing entry alone, then   *)
(* FD_SET.                                                                 *)
SrvRegister ==
  /\ server = "register" /\ MutexFree
  /\ IF cur \in Clients
     THEN UNCHANGED <<m_clients, m_isConnected>>
     ELSE /\ m_clients' = [m_clients EXCEPT ![cur] = open[cur]]
          /\ m_isConnected' = [m_isConnected EXCEPT ![cur] = TRUE]
  /\ m_fds' = m_fds \cup {cur}
  /\ server' = "connect"
  /\ UNCHANGED <<m_sockfd, m_stop, read_set, cur, received, bcastVars, owner,
                 kernelVars, peerVars>>

(* Mutant: the socket is drained before the next one is looked at. *)
PublishClientMsg_Drains ==
  /\ server = "publish"
  /\ received' = 0
  /\ server' = "recv"
  /\ UNCHANGED <<memberVars, read_set, cur, bcastVars, owner, kernelVars,
                 peerVars>>

(* The callbacks: here only the server's side of them; a module that gives *)
(* the server a callback object conjoins what the object does.             *)
PublishClientMsg ==
  /\ server = "publish"
  /\ received' = 0
  /\ server' = "scan"
  /\ UNCHANGED <<memberVars, read_set, cur, bcastVars, owner, kernelVars,
                 peerVars>>

PublishDisconnected ==
  /\ server = "disconnect"
  /\ server' = "scan"
  /\ UNCHANGED <<memberVars, read_set, cur, received, bcastVars, owner,
                 kernelVars, peerVars>>

PublishClientConnect ==
  /\ server = "connect"
  /\ server' = "scan"
  /\ UNCHANGED <<memberVars, read_set, cur, received, bcastVars, owner,
                 kernelVars, peerVars>>

Callback == PublishClientMsg \/ PublishDisconnected \/ PublishClientConnect

(* The steps of the server thread outside its callbacks. *)
ServerTask ==
  \/ SrvLoop \/ SrvSelect \/ SrvScanDone
  \/ \E f \in AllFd : SrvLookup(f)
  \/ SrvRecvData \/ SrvRecvError \/ SrvRecvEof \/ SrvDelete
  \/ \E c \in Conn, f \in ClientFd : SrvAccept(c, f)
  \/ SrvAcceptFails \/ SrvRegister

-----------------------------------------------------------------------------
(***************************************************************************)
(* The broadcasting thread: sendBcast() takes the mutex, sends to the      *)
(* clients in the order of the hash table, which nothing fixes, and leaves *)
(* the loop at the first send that fails.                                  *)
(***************************************************************************)
BcastBegin ==
  /\ bcaster = "idle" /\ bcast < MaxBcast
  /\ bcaster' = "sending"
  /\ bcast' = bcast + 1
  /\ todo' = Clients
  /\ success' = TRUE
  /\ UNCHANGED <<memberVars, serverVars, owner, kernelVars, peerVars>>

(* The kernel has the whole message for the peer of f. *)
BcastSend(f) ==
  /\ bcaster = "sending" /\ f \in todo
  /\ open[f] # NoConn /\ tcp[open[f]] \in {"est", "fin"}
  /\ unread[open[f]] < SendCap
  /\ unread' = [unread EXCEPT ![open[f]] = @ + 1]
  /\ handed' = [handed EXCEPT ![open[f]] = @ \cup {bcast}]
  /\ todo' = todo \ {f}
  /\ UNCHANGED <<memberVars, serverVars, bcaster, bcast, success, owner,
                 kernelVars, sent>>

(* send() returns -1, which consumes a pending reset. *)
BcastSendFails(f) ==
  /\ bcaster = "sending" /\ f \in todo
  /\ open[f] # NoConn => tcp[open[f]] \in {"rst", "dead", "gone"}
  /\ tcp' = [c \in Conn |-> IF c = open[f] THEN "dead" ELSE tcp[c]]
  /\ success' = FALSE
  /\ todo' = {}
  /\ UNCHANGED <<memberVars, serverVars, bcaster, bcast, owner, open, backlog,
                 rcvq, peerVars>>

(* Mutant: a short count is taken for success. *)
BcastInterrupted_ShortIsOk(f) ==
  /\ bcaster = "sending" /\ f \in todo
  /\ open[f] # NoConn /\ tcp[open[f]] \in {"est", "fin"}
  /\ todo' = todo \ {f}
  /\ UNCHANGED <<memberVars, serverVars, bcaster, bcast, success, owner,
                 kernelVars, peerVars>>

(* A send() that waits for room is interrupted by a signal: it fails, or   *)
(* it returns the part of the message it had room for. A long message may  *)
(* have to wait whatever the peer has left unread.                         *)
BcastInterrupted(f) ==
  /\ bcaster = "sending" /\ f \in todo
  /\ open[f] # NoConn /\ tcp[open[f]] \in {"est", "fin"}
  /\ success' = FALSE
  /\ todo' = {}
  /\ UNCHANGED <<memberVars, serverVars, bcaster, bcast, owner, kernelVars,
                 peerVars>>

BcastEnd ==
  /\ bcaster = "sending" /\ todo = {}
  /\ bcaster' = "idle"
  /\ UNCHANGED <<memberVars, serverVars, bcast, todo, success, owner,
                 kernelVars, peerVars>>

(* The steps of a running sendBcast that need no signal. *)
BcastStep ==
  BcastEnd \/ \E f \in ClientFd : BcastSend(f) \/ BcastSendFails(f)

Bcaster == BcastBegin \/ BcastStep \/ \E f \in ClientFd : BcastInterrupted(f)

-----------------------------------------------------------------------------
(* Nothing is left to do: the server is finished, the broadcasts used up. *)
Done ==
  /\ owner = "finished" /\ bcaster = "idle" /\ bcast = MaxBcast
  /\ UNCHANGED vars

Next ==
  \/ ServerTask \/ Callback \/ Bcaster \/ Owner
  \/ \E c \in Conn : Peer(c)
  \/ Done

Spec == Init /\ [][Next]_vars

-----------------------------------------------------------------------------
(***************************************************************************)
(* Properties.                                                             *)
(***************************************************************************)

(* Every variable has its type. *)
TypeOK ==
  /\ m_sockfd \in {INVALID_SOCKET, ListenFd}
  /\ m_fds \subseteq AllFd
  /\ m_stop \in BOOLEAN
  /\ m_clients \in [ClientFd -> Conn \cup {NoConn}]
  /\ m_isConnected \in [ClientFd -> BOOLEAN]
  /\ server \in ServerState
  /\ read_set \subseteq AllFd
  /\ cur \in AllFd \cup {INVALID_SOCKET}
  /\ received \in Nat
  /\ bcaster \in {"idle", "sending"}
  /\ bcast \in Nat
  /\ todo \subseteq ClientFd
  /\ success \in BOOLEAN
  /\ owner \in {"constructed", "started", "joining", "closing", "finished"}
  /\ open \in [ClientFd -> Conn \cup {NoConn}]
  /\ backlog \subseteq Conn
  /\ tcp \in [Conn -> TcpState]
  /\ sent \in [Conn -> Nat]
  /\ rcvq \in [Conn -> Nat]
  /\ unread \in [Conn -> Nat]
  /\ handed \in [Conn -> SUBSET Nat]

(* A Client in m_clients stands for the connection that is behind its      *)
(* descriptor now: closing, erasing and reusing a descriptor never leaves  *)
(* an entry that speaks of an earlier connection (deleteClient closes the  *)
(* descriptor and erases the entry in one critical section; serverTask     *)
(* registers with emplace, which would keep a stale entry).                *)
TableMatchesKernel == \A f \in Clients : open[f] = m_clients[f]

(* No descriptor is leaked: one that accept() returned is in m_clients     *)
(* and watched by select(), but for the instants in which serverTask is    *)
(* registering it; none is left open once finish() has returned.           *)
NoDescriptorLeak ==
  /\ \A f \in ClientFd :
       open[f] # NoConn =>
         \/ f \in Clients /\ (f \in m_fds \/ owner = "finished")
         \/ server = "register" /\ cur = f
  /\ owner = "finished" => \A f \in ClientFd : open[f] = NoConn

(* select() is never asked to watch a closed descriptor, which would make  *)
(* it fail with EBADF at every call and leave the server deaf for ever     *)
(* (serverTask retries whatever the error is).                             *)
WatchedDescriptorsOpen == server = "select" => \A f \in m_fds : ~BadFd(f)

(* The sockets are blocking, and serverTask takes every ready descriptor   *)
(* it does not find in m_clients for the accept socket. recv() and         *)
(* accept() are called on what select() found ready, and nothing another   *)
(* thread does in between takes the data, the end-of-file, the client or   *)
(* the queued connection away, so that the server thread never waits in    *)
(* either call and never takes a client for the accept socket.             *)
NeverBlocksInServerTask ==
  /\ server = "recv" => open[cur] # NoConn /\ Readable(cur)
  /\ server = "accept" => cur = m_sockfd /\ backlog # {}

(* The loop of sendBcast iterates over m_clients: no entry it still has to *)
(* visit is erased or closed under it by the server thread or by finish(). *)
IteratorValid ==
  bcaster = "sending" => \A f \in todo : f \in Clients /\ open[f] # NoConn

(* sendBcast reports success only if every connected client's socket took  *)
(* the message ("indication that the message was sent to all clients").    *)
SuccessMeansAll ==
  (bcaster = "sending" /\ todo = {} /\ success)
    => \A f \in Clients : bcast \in handed[open[f]]

(* What TcpServer.h says of sendBcast: "Send a broadcast message to all    *)
(* connected TCP clients". When its loop is over, a client whose           *)
(* connection is sound was handed the message. (The loop ends at the first *)
(* client whose send fails: MCTcpServerBcast.cfg shows one client's reset  *)
(* costing another the message.)                                           *)
BcastReachesAll ==
  (bcaster = "sending" /\ todo = {})
    => \A f \in Clients : tcp[open[f]] = "est" => bcast \in handed[open[f]]

(* As long as the server is not finished, closing a connection discards    *)
(* nothing: what the peer had written was read before the end-of-file.     *)
NothingDiscarded ==
  \A c \in Conn : tcp[c] = "gone" /\ owner # "finished" => rcvq[c] = 0

(* A send() in sendBcast waits, with the mutex held, for a peer that does  *)
(* not read. (An exception of the liveness properties of NetStack.)        *)
Stalled ==
  bcaster = "sending" /\ \E f \in todo : unread[open[f]] = SendCap
=============================================================================
