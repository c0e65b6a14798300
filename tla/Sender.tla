------------------------------- MODULE Sender -------------------------------
(***************************************************************************)
(* The Sender of a zmq-stack (common/Sender.cpp) and the conv-stack pods   *)
(* its PUSH socket reaches through a Kubernetes service.                   *)
(*                                                                         *)
(* After every tenth message sendMsg disconnects the socket and connects   *)
(* it again, "to allow for more effective load balancing". Each connect is *)
(* a connection with a number of its own here. ZeroMQ keeps the one it is  *)
(* told to disconnect until its messages are gone: Sender leaves ZMQ_LINGER *)
(* at its default, for ever.                                               *)
(*                                                                         *)
(* What is ZeroMQ's or Kubernetes' is modelled as the code relies on it: a *)
(* connection's pipe, the I/O thread that hands its messages to TCP, the   *)
(* reconnection to some pod that runs, and pods that stop and start.       *)
(* Messages are the numbers main's loop gives them.                        *)
(***************************************************************************)
EXTENDS Naturals, Sequences, SequencesExt, FiniteSets

CONSTANTS
  Pod,        \* the conv-stack pods
  NoPod,      \* the peer of a connection that is not established
  BATCH,      \* messages per connection (10 in sendMsg)
  HWM,        \* ZMQ_SNDHWM, the capacity of a pipe (1000 by default)
  MaxMsg,     \* bound: messages sent
  MaxStop     \* bound: pods that stop

ASSUME SenderAssumption ==
  /\ NoPod \notin Pod
  /\ BATCH \in Nat \ {0} /\ HWM \in Nat /\ BATCH <= HWM
  /\ MaxMsg \in Nat /\ MaxStop \in Nat

Message == 1 .. MaxMsg
Connection == 1 .. (MaxMsg \div BATCH) + 1

VARIABLES
  cur,        \* the connection m_socket sends on, 0 if there is none
  m_count,    \* Sender::m_count
  count,      \* main's count of messages
  pipe,       \* connection -> messages ZeroMQ holds for it
  peer,       \* connection -> the pod it is established with, or NoPod
  wire,       \* connection -> messages the pod has not taken yet
  handled,    \* connection -> messages the pod's Receiver has taken
  up,         \* the pods that run
  lost,       \* history: messages lost
  stops       \* pods that have stopped

senderVars == <<cur, m_count, count>>
flowVars   == <<pipe, peer, wire, handled>>
podVars    == <<up, lost, stops>>

SenderInit ==
  /\ cur = 0 /\ m_count = 0 /\ count = 0
  /\ pipe = [c \in Connection |-> <<>>] /\ peer = [c \in Connection |-> NoPod]
  /\ wire = [c \in Connection |-> <<>>] /\ handled = [c \in Connection |-> <<>>]
  /\ up = {} /\ lost = {} /\ stops = 0

-----------------------------------------------------------------------------
(***************************************************************************)
(* Main's thread.                                                          *)
(***************************************************************************)

(* The constructor: an endpoint ZeroMQ refuses is only logged, and leaves  *)
(* the socket without a connection. Any of the pods may run by then.       *)
Connect(valid) ==
  /\ cur' = IF valid THEN 1 ELSE 0
  /\ up' \in SUBSET Pod
  /\ UNCHANGED <<m_count, count, flowVars, lost, stops>>

(* send() waits while no pipe of the socket has room, for ever if none is. *)
CanSend == cur # 0 /\ Len(pipe[cur]) < HWM

(* Mutants: the messages of the old connection go with it (a linger of 0); *)
(* the socket is never connected again.                                    *)
Reconnect_NoLinger(m) ==
  /\ m_count' = 0 /\ cur' = cur + 1
  /\ pipe' = [pipe EXCEPT ![cur] = <<>>]

Reconnect_Never(m) ==
  /\ m_count' = 0
  /\ pipe' = [pipe EXCEPT ![cur] = Append(@, m)]
  /\ UNCHANGED cur

(* The disconnect and connect after message m: the old pipe is kept. Both  *)
(* may throw, which sendMsg catches, but do not here: the endpoint was     *)
(* accepted when it was connected first (else the send before, on a socket *)
(* without connection, did not return), and the context is terminated only *)
(* by the thread that is in sendMsg.                                       *)
Reconnect(m) ==
  /\ m_count' = 0 /\ cur' = cur + 1
  /\ pipe' = [pipe EXCEPT ![cur] = Append(@, m)]

(* sendMsg. *)
SendMsg ==
  /\ count < MaxMsg /\ CanSend
  /\ count' = count + 1
  /\ \/ /\ m_count + 1 = BATCH
        /\ Reconnect(count')
     \/ /\ m_count + 1 # BATCH
        /\ m_count' = m_count + 1
        /\ pipe' = [pipe EXCEPT ![cur] = Append(@, count')]
        /\ UNCHANGED cur
  /\ UNCHANGED <<peer, wire, handled, podVars>>

-----------------------------------------------------------------------------
(***************************************************************************)
(* ZeroMQ's I/O thread, and the pods.                                      *)
(***************************************************************************)

(* A connection that is not established, and that the socket still uses or *)
(* that still has messages, is tried again until some pod accepts.         *)
Establish(c, p, used) ==
  /\ peer[c] = NoPod /\ p \in up
  /\ pipe[c] # <<>> \/ (used /\ c = cur)
  /\ peer' = [peer EXCEPT ![c] = p]
  /\ UNCHANGED <<senderVars, pipe, wire, handled, podVars>>

Transfer(c) ==
  /\ peer[c] # NoPod /\ pipe[c] # <<>>
  /\ pipe' = [pipe EXCEPT ![c] = Tail(@)]
  /\ wire' = [wire EXCEPT ![c] = Append(@, Head(pipe[c]))]
  /\ UNCHANGED <<senderVars, peer, handled, podVars>>

(* The pod's Receiver::Run receives a message and hands it to ConvStack.   *)
Take(c) ==
  /\ wire[c] # <<>>
  /\ wire' = [wire EXCEPT ![c] = Tail(@)]
  /\ handled' = [handled EXCEPT ![c] = Append(@, Head(wire[c]))]
  /\ UNCHANGED <<senderVars, pipe, peer, podVars>>

(* A pod stops: what it has not taken is lost with its connections.        *)
PodStops(p) ==
  /\ p \in up /\ stops < MaxStop
  /\ up' = up \ {p} /\ stops' = stops + 1
  /\ lost' = lost \cup UNION {ToSet(wire[c]) : c \in {d \in Connection : peer[d] = p}}
  /\ wire' = [c \in Connection |-> IF peer[c] = p THEN <<>> ELSE wire[c]]
  /\ peer' = [c \in Connection |-> IF peer[c] = p THEN NoPod ELSE peer[c]]
  /\ UNCHANGED <<senderVars, pipe, handled>>

PodStarts(p) ==
  /\ p \notin up /\ up' = up \cup {p}
  /\ UNCHANGED <<senderVars, flowVars, lost, stops>>

-----------------------------------------------------------------------------
(***************************************************************************)
(* Properties.                                                             *)
(***************************************************************************)

SenderTypeOK ==
  /\ cur \in Connection \cup {0} /\ m_count \in 0 .. BATCH - 1
  /\ count \in 0 .. MaxMsg
  /\ pipe \in [Connection -> Seq(Message)]
  /\ wire \in [Connection -> Seq(Message)]
  /\ handled \in [Connection -> Seq(Message)]
  /\ peer \in [Connection -> Pod \cup {NoPod}]
  /\ up \subseteq Pod /\ lost \subseteq Message /\ stops \in Nat

(* What has been sent on c, less what was lost, in the order of sending. *)
Carried(c) == handled[c] \o wire[c] \o pipe[c]

(* Disconnecting loses and repeats nothing (Sender.cpp:44 with the default *)
(* linger): each message sent is on exactly one connection, and once, or   *)
(* is lost, which takes a pod that stopped with the message on its way.    *)
EachMessageOnce ==
  /\ \A m \in 1 .. count :
       Cardinality({c \in Connection : m \in ToSet(Carried(c))}) =
         IF m \in lost THEN 0 ELSE 1
  /\ stops = 0 => lost = {}

(* "Without this the sender app would stay pinned to a specific receiver"  *)
(* (Sender.cpp:40-43): a connection carries one batch of consecutive       *)
(* messages, in order, however its batches and those of other connections  *)
(* overtake each other; so a PUSH pipe never fills and main never waits.   *)
BatchPerConnection ==
  \A c \in Connection :
    LET s == Carried(c) IN
      /\ \A i \in DOMAIN s : s[i] \in (c - 1) * BATCH + 1 .. c * BATCH
      /\ \A i, j \in DOMAIN s : i < j => s[i] < s[j]
=============================================================================
