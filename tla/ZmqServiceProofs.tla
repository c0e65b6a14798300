-------------------------- MODULE ZmqServiceProofs --------------------------
(***************************************************************************)
(* Proofs about what a zmq-stack sends to the conv-stack pods, for any     *)
(* number of messages and pods and any size of a batch: about the Sender   *)
(* in ZmqService.                                                          *)
(***************************************************************************)
EXTENDS ZmqService, FiniteSetTheorems, SequenceTheorems, TLAPS

USE SenderAssumption DEF SenderAssumption

(***************************************************************************)
(* The inductive invariant, in named parts.                                *)
(***************************************************************************)

Before == {"start", "options", "config", "parsed", "ready"}

(* Nothing is sent before the stack has made its Sender. *)
NoSenderInv ==
  /\ phase \in Before => ~sender
  /\ ~sender => SenderInit

(* The numbers of the messages of connection c. *)
Batch(c) == (c - 1) * BATCH + 1 .. c * BATCH

(* m_count counts the messages sent on the current connection.             *)
CountInv ==
  /\ cur # 0 => count = (cur - 1) * BATCH + m_count
  /\ cur = 0 => count = 0

(* A connection carries messages of its batch, in order.                   *)
InOrder(s) == \A i, j \in 1 .. Len(s) : i < j => s[i] < s[j]

CarryInv ==
  \A c \in Connection :
    /\ \A i \in 1 .. Len(Carried(c)) : Carried(c)[i] \in Batch(c) /\ Carried(c)[i] <= count
    /\ InOrder(Carried(c))

(* Each message sent belongs to the batch of a connection, which carries   *)
(* it unless it is lost.                                                   *)
OnceInv ==
  /\ \A m \in 1 .. count : \E c \in Connection : m \in Batch(c)
  /\ \A m \in 1 .. count : \A c \in Connection :
       m \in Batch(c) => (m \in lost <=> ~\E i \in 1 .. Len(Carried(c)) : Carried(c)[i] = m)
  /\ lost \subseteq 1 .. count
  /\ stops = 0 => lost = {}

(* The current connection carries no more than m_count messages, those to  *)
(* come nothing.                                                           *)
RoomInv ==
  \A c \in Connection :
    /\ c = cur => Len(Carried(c)) <= m_count
    /\ c > cur => Len(Carried(c)) = 0

(* The inductive invariant. *)
IInv ==
  /\ SenderTypeOK /\ NoSenderInv /\ CountInv /\ CarryInv /\ OnceInv /\ RoomInv

-----------------------------------------------------------------------------
(***************************************************************************)
(* Sequences and numbers.                                                  *)
(***************************************************************************)

(* Moving the head of one sequence to the end of the one before it leaves  *)
(* their concatenation as it was.                                          *)
LEMMA Moved ==
  ASSUME NEW S, NEW a \in Seq(S), NEW b \in Seq(S), b # <<>>
  PROVE  /\ Append(a, Head(b)) \in Seq(S) /\ Tail(b) \in Seq(S)
         /\ Append(a, Head(b)) \o Tail(b) = a \o b
OBVIOUS

(* A sequence that ends with another is longer by what that is longer.     *)
LEMMA AppendToConcat ==
  ASSUME NEW S, NEW a \in Seq(S), NEW b \in Seq(S), NEW x \in S
  PROVE  a \o Append(b, x) = Append(a \o b, x)
<1>1. /\ Append(b, x) = b \o <<x>> /\ <<x>> \in Seq(S) /\ a \o b \in Seq(S)
  BY AppendIsConcat
<1>2. Append(a \o b, x) = (a \o b) \o <<x>>
  BY <1>1, AppendIsConcat
<1>3. QED
  BY <1>1, <1>2, ConcatAssociative

(* Where an element of a concatenation comes from.                         *)
LEMMA Parts ==
  ASSUME NEW S, NEW a \in Seq(S), NEW b \in Seq(S)
  PROVE  /\ a \o b \in Seq(S) /\ Len(a) \in Nat /\ Len(b) \in Nat
         /\ Len(a \o b) = Len(a) + Len(b)
         /\ \A i \in 1 .. Len(a) : (a \o b)[i] = a[i]
         /\ \A i \in 1 .. Len(b) : (a \o b)[Len(a) + i] = b[i]
OBVIOUS

(* The product of a greater number with n is not smaller.                  *)
LEMMA Monotone ==
  ASSUME NEW a \in Int, NEW b \in Int, NEW n \in Nat, a <= b
  PROVE  a * n <= b * n
OBVIOUS

(* No message is in the batches of two connections.                        *)
LEMMA OneBatch ==
  ASSUME NEW c \in Connection, NEW d \in Connection, NEW m, m \in Batch(c), m \in Batch(d)
  PROVE  c = d
<1>1. c \in Int /\ d \in Int /\ m \in Int /\ BATCH \in Nat \ {0}
  BY DEF Connection, Batch
<1>2. ASSUME NEW x \in Int, NEW y \in Int, x < y, m <= x * BATCH
      PROVE  ~((y - 1) * BATCH + 1 <= m)
  <2>1. x * BATCH <= (y - 1) * BATCH
    BY <1>1, <1>2, Monotone
  <2>2. x * BATCH \in Int /\ (y - 1) * BATCH \in Int
    BY <1>1, <1>2
  <2>3. QED
    BY <1>1, <1>2, <2>1, <2>2
<1>3. (c - 1) * BATCH + 1 <= m /\ m <= c * BATCH
  BY <1>1 DEF Batch
<1>4. (d - 1) * BATCH + 1 <= m /\ m <= d * BATCH
  BY <1>1 DEF Batch
<1>5. QED
  BY <1>1, <1>2, <1>3, <1>4

(* There is a connection for each full batch, and one more.                *)
LEMMA EnoughConnections ==
  ASSUME NEW c \in Nat, c * BATCH <= MaxMsg
  PROVE  c + 1 \in Connection
<1> DEFINE q == MaxMsg \div BATCH
<1>1. q \in Nat /\ MaxMsg < (q + 1) * BATCH
  OBVIOUS
<1>2. c <= q
  <2> SUFFICES ASSUME q + 1 <= c PROVE FALSE
    BY <1>1
  <2>1. (q + 1) * BATCH <= c * BATCH
    BY <1>1, Monotone
  <2>2. (q + 1) * BATCH \in Int /\ c * BATCH \in Int
    BY <1>1
  <2>3. QED
    BY <1>1, <2>1, <2>2
<1>3. QED
  BY <1>1, <1>2 DEF Connection

-----------------------------------------------------------------------------
(***************************************************************************)
(* The steps of a service that its Sender takes part in.                   *)
(***************************************************************************)

SenderUnchanged == UNCHANGED <<senderVars, flowVars, podVars>>

(* What the messages and connections of a zmq-stack go through.            *)
SenderStep ==
  \/ SendMsg
  \/ \E c \in Connection :
       \/ Transfer(c) \/ Take(c)
       \/ \E p \in Pod, used \in BOOLEAN : Establish(c, p, used)
  \/ sender /\ \E p \in Pod : PodStops(p) \/ PodStarts(p)

(* Every step of a service is one in which the Sender is made, a step of   *)
(* the Sender, or one that leaves it alone.                                *)
LEMMA SenderSteps ==
  ASSUME [Next]_vars
  PROVE  \/ /\ SenderUnchanged \/ SenderStep
            /\ UNCHANGED sender /\ (phase' \in Before => phase \in Before)
         \/ /\ SenderUnchanged \/ (sender' /\ \E valid \in BOOLEAN : Connect(valid))
            /\ phase \in Before /\ phase' \notin Before
<1> USE DEF SenderUnchanged, Before
<1>1. CASE Starts
  <2>1. phase \in Before
    BY <1>1 DEF Starts, Startup, Begin, UnknownOption, OpenConfig, ReadKey, EndConfig,
                NameTopics, TakeOption
  <2>2. QED
    BY <1>1, <2>1 DEF Starts, mainVars
<1>2. CASE Construct
  BY <1>2 DEF Construct
<1>3. CASE LoopTest \/ Wake \/ Signal \/ ReadLine
  BY <1>3 DEF LoopTest, Wake, Signal, ReadLine, Goes, mainVars
<1>4. CASE LoopSend
  BY <1>4 DEF LoopSend, SenderStep, Goes, mainVars
<1>5. CASE Perform
  BY <1>5 DEF Perform, SenderStep, Goes, mainVars
<1>6. CASE Pods
  BY <1>6 DEF Pods, SenderStep, mainVars
<1>7. CASE Idle \/ UNCHANGED vars
  BY <1>7 DEF Idle, vars, mainVars
<1>8. ASSUME NEW c \in Connection, Reach(c) \/ Flow(c) \/ Arrive(c)
      PROVE  UNCHANGED <<sender, phase>> /\ SenderStep
  BY <1>8 DEF Reach, Flow, Arrive, SenderStep, mainVars
<1>9. CASE StopHealth \/ JoinHealth \/ JoinSubscriber
  BY <1>9 DEF StopHealth, JoinHealth, JoinSubscriber, Proceed, Goes
<1>10. CASE JoinReceiver \/ CloseContext
  BY <1>10 DEF JoinReceiver, CloseContext, Proceed, Goes
<1>11. CASE Threads
  BY <1>11 DEF Threads, HealthListen, ThreadEnds, Proceed, Goes
<1>12. QED
  BY <1>1, <1>2, <1>3, <1>4, <1>5, <1>6, <1>7, <1>8, <1>9, <1>10, <1>11 DEF Next, Main

(* The numbers of messages and of connections. *)
LEMMA Numbers ==
  /\ BATCH \in Nat /\ BATCH >= 1 /\ MaxMsg \in Nat
  /\ \A c \in Connection : c \in Nat /\ c >= 1
  /\ \A m \in Message : m \in Nat
  /\ 1 \in Connection
<1>1. MaxMsg \div BATCH \in Nat
  OBVIOUS
<1>2. QED
  BY <1>1 DEF Connection, Message

(* Every step keeps SenderTypeOK. *)
LEMMA SenderTypeStep == IInv /\ [Next]_vars => SenderTypeOK'
<1> SUFFICES ASSUME IInv, [Next]_vars PROVE SenderTypeOK'
  OBVIOUS
<1>0. SenderTypeOK /\ CountInv
  BY DEF IInv
<1> USE DEF senderVars, flowVars, podVars
<1>1. CASE SenderUnchanged
  BY <1>0, <1>1 DEF SenderUnchanged, SenderTypeOK
<1>2. ASSUME NEW valid \in BOOLEAN, Connect(valid) PROVE SenderTypeOK'
  BY <1>0, <1>2, Numbers DEF Connect, SenderTypeOK
<1>3. CASE SendMsg
  <2>1. /\ count' = count + 1 /\ count' \in 1 .. MaxMsg /\ count' \in Message
        /\ cur \in Connection
    BY <1>0, <1>3, Numbers DEF SendMsg, CanSend, SenderTypeOK, Message
  <2>2. pipe' = [pipe EXCEPT ![cur] = Append(@, count')]
    BY <1>3 DEF SendMsg, Reconnect
  <2>3. pipe' \in [Connection -> Seq(Message)]
    BY <1>0, <2>1, <2>2 DEF SenderTypeOK
  <2>4. m_count' \in 0 .. BATCH - 1
    BY <1>0, <1>3, Numbers DEF SendMsg, Reconnect, SenderTypeOK
  <2>5. cur' \in Connection
    <3>1. CASE m_count + 1 = BATCH
      <4>1. count' = cur * BATCH
        BY <1>0, <1>3, <2>1, <3>1, Numbers DEF CountInv, SendMsg, SenderTypeOK
      <4>2. cur \in Nat /\ cur * BATCH <= MaxMsg
        BY <2>1, <4>1, Numbers
      <4>3. cur + 1 \in Connection
        BY <4>2, EnoughConnections
      <4>4. QED
        BY <1>3, <3>1, <4>3 DEF SendMsg, Reconnect
    <3>2. CASE m_count + 1 # BATCH
      BY <1>3, <2>1, <3>2 DEF SendMsg
    <3>3. QED
      BY <3>1, <3>2
  <2>6. QED
    BY <1>0, <1>3, <2>1, <2>3, <2>4, <2>5 DEF SendMsg, SenderTypeOK
<1>4. ASSUME NEW c \in Connection, NEW p \in Pod, NEW used \in BOOLEAN, Establish(c, p, used)
      PROVE  SenderTypeOK'
  BY <1>0, <1>4 DEF Establish, SenderTypeOK
<1>5. ASSUME NEW c \in Connection, Transfer(c) PROVE SenderTypeOK'
  <2>1. /\ pipe[c] \in Seq(Message) /\ wire[c] \in Seq(Message) /\ pipe[c] # <<>>
    BY <1>0, <1>5 DEF Transfer, SenderTypeOK
  <2>2. Append(wire[c], Head(pipe[c])) \in Seq(Message) /\ Tail(pipe[c]) \in Seq(Message)
    BY <2>1, Moved
  <2>3. QED
    BY <1>0, <1>5, <2>2 DEF Transfer, SenderTypeOK
<1>6. ASSUME NEW c \in Connection, Take(c) PROVE SenderTypeOK'
  <2>1. /\ handled[c] \in Seq(Message) /\ wire[c] \in Seq(Message) /\ wire[c] # <<>>
    BY <1>0, <1>6 DEF Take, SenderTypeOK
  <2>2. Append(handled[c], Head(wire[c])) \in Seq(Message) /\ Tail(wire[c]) \in Seq(Message)
    BY <2>1, Moved
  <2>3. QED
    BY <1>0, <1>6, <2>2 DEF Take, SenderTypeOK
<1>7. ASSUME NEW p \in Pod, PodStops(p) PROVE SenderTypeOK'
  <2>1. <<>> \in Seq(Message)
    OBVIOUS
  <2>2. wire' \in [Connection -> Seq(Message)] /\ peer' \in [Connection -> Pod \cup {NoPod}]
    BY <1>0, <1>7, <2>1 DEF PodStops, SenderTypeOK
  <2>3. \A c \in Connection : ToSet(wire[c]) \subseteq Message
    BY <1>0 DEF SenderTypeOK, ToSet
  <2>4. lost' \subseteq Message
    BY <1>0, <1>7, <2>3 DEF PodStops, SenderTypeOK
  <2>5. QED
    BY <1>0, <1>7, <2>2, <2>4 DEF PodStops, SenderTypeOK
<1>8. ASSUME NEW p \in Pod, PodStarts(p) PROVE SenderTypeOK'
  BY <1>0, <1>8 DEF PodStarts, SenderTypeOK
<1>9. QED
  BY <1>1, <1>2, <1>3, <1>4, <1>5, <1>6, <1>7, <1>8, SenderSteps DEF SenderStep

(* Every step keeps NoSenderInv: without a Sender there is nothing to move. *)
LEMMA NoSenderStep == IInv /\ [Next]_vars => NoSenderInv'
<1> SUFFICES ASSUME IInv, [Next]_vars PROVE NoSenderInv'
  OBVIOUS
<1>0. SenderTypeOK /\ NoSenderInv
  BY DEF IInv
<1>1. SenderUnchanged => (SenderInit => SenderInit')
  BY DEF SenderUnchanged, SenderInit, senderVars, flowVars, podVars
<1>2. SenderInit /\ SenderStep => sender
  BY DEF SenderInit, SenderStep, SendMsg, CanSend, Transfer, Take, Establish
<1>3. QED
  BY <1>0, <1>1, <1>2, SenderSteps DEF NoSenderInv

(* Every step keeps CountInv. *)
LEMMA CountStep == IInv /\ [Next]_vars => CountInv'
<1> SUFFICES ASSUME IInv, [Next]_vars PROVE CountInv'
  OBVIOUS
<1>0. SenderTypeOK /\ NoSenderInv /\ CountInv
  BY DEF IInv
<1>1. ASSUME UNCHANGED senderVars PROVE CountInv'
  BY <1>0, <1>1 DEF CountInv, senderVars
<1>2. ASSUME NEW valid \in BOOLEAN, Connect(valid), phase \in Before PROVE CountInv'
  <2>1. m_count = 0 /\ count = 0
    BY <1>0, <1>2 DEF NoSenderInv, SenderInit
  <2>2. cur' \in {0, 1} /\ m_count' = 0 /\ count' = 0
    BY <1>2, <2>1 DEF Connect
  <2>3. cur' = 1 => (cur' - 1) * BATCH + m_count' = 0
    BY <2>2, Numbers
  <2>4. QED
    BY <2>2, <2>3 DEF CountInv
<1>3. CASE SendMsg
  <2>1. cur \in Nat /\ cur # 0 /\ m_count \in Nat /\ count = (cur - 1) * BATCH + m_count
    BY <1>0, <1>3, Numbers DEF CountInv, SendMsg, CanSend, SenderTypeOK
  <2>2. CASE m_count + 1 = BATCH
    <3>1. cur' = cur + 1 /\ m_count' = 0 /\ count' = count + 1
      BY <1>3, <2>2 DEF SendMsg, Reconnect
    <3>2. (cur - 1) * BATCH + BATCH = ((cur + 1) - 1) * BATCH
      BY <2>1, Numbers
    <3>3. count' = (cur' - 1) * BATCH + m_count'
      BY <2>1, <2>2, <3>1, <3>2, Numbers
    <3>4. QED
      BY <2>1, <3>1, <3>3 DEF CountInv
  <2>3. CASE m_count + 1 # BATCH
    <3>1. cur' = cur /\ m_count' = m_count + 1 /\ count' = count + 1
      BY <1>3, <2>3 DEF SendMsg
    <3>2. QED
      BY <2>1, <3>1, Numbers DEF CountInv
  <2>4. QED
    BY <2>2, <2>3
<1>4. CASE SenderStep
  BY <1>1, <1>3, <1>4 DEF SenderStep, Transfer, Take, Establish, PodStops, PodStarts
<1>5. QED
  BY <1>1, <1>2, <1>4, SenderSteps DEF SenderUnchanged

-----------------------------------------------------------------------------
(***************************************************************************)
(* What the connections carry.                                             *)
(***************************************************************************)

(* The next message goes to the end of the current connection.             *)
LEMMA Sent ==
  ASSUME SenderTypeOK, SendMsg, NEW c \in Connection
  PROVE  /\ Carried(c) \in Seq(Message)
         /\ Carried(c)' = IF c = cur THEN Append(Carried(c), count + 1) ELSE Carried(c)
<1>1. /\ handled[c] \in Seq(Message) /\ wire[c] \in Seq(Message)
      /\ pipe[c] \in Seq(Message) /\ count + 1 \in Message
  BY Numbers DEF SenderTypeOK, SendMsg, Message
<1>2. pipe' = [pipe EXCEPT ![cur] = Append(@, count + 1)] /\ UNCHANGED <<wire, handled>>
  BY DEF SendMsg, Reconnect
<1>3. pipe'[c] = IF c = cur THEN Append(pipe[c], count + 1) ELSE pipe[c]
  BY <1>2 DEF SenderTypeOK
<1>4. (handled[c] \o wire[c]) \o Append(pipe[c], count + 1)
        = Append((handled[c] \o wire[c]) \o pipe[c], count + 1)
  <2> DEFINE a == handled[c] \o wire[c]
  <2>1. a \in Seq(Message)
    BY <1>1
  <2> HIDE DEF a
  <2>2. a \o Append(pipe[c], count + 1) = Append(a \o pipe[c], count + 1)
    BY <1>1, <2>1, AppendToConcat
  <2>3. QED
    BY <2>2 DEF a
<1>5. Carried(c) \in Seq(Message)
  BY <1>1 DEF Carried
<1>6. Carried(c)' = (handled[c] \o wire[c]) \o pipe'[c]
  BY <1>2 DEF Carried
<1>7. CASE c = cur
  BY <1>3, <1>4, <1>5, <1>6, <1>7 DEF Carried
<1>8. CASE c # cur
  BY <1>3, <1>5, <1>6, <1>8 DEF Carried
<1>9. QED
  BY <1>7, <1>8

(* On its way to a pod a message stays in its place among the others.      *)
LEMMA Forwarded ==
  ASSUME SenderTypeOK, NEW d \in Connection, Transfer(d) \/ Take(d), NEW c \in Connection
  PROVE  Carried(c)' = Carried(c)
<1>1. /\ handled[c] \in Seq(Message) /\ wire[c] \in Seq(Message) /\ pipe[c] \in Seq(Message)
  BY DEF SenderTypeOK
<1>2. CASE Transfer(d)
  <2>1. UNCHANGED handled
    BY <1>2 DEF Transfer
  <2>2. CASE c # d
    <3>1. pipe'[c] = pipe[c] /\ wire'[c] = wire[c]
      BY <1>2, <2>2 DEF Transfer, SenderTypeOK
    <3>2. QED
      BY <2>1, <3>1 DEF Carried
  <2>3. CASE c = d
    <3>1. wire'[c] = Append(wire[c], Head(pipe[c])) /\ pipe'[c] = Tail(pipe[c]) /\ pipe[c] # <<>>
      BY <1>2, <2>3 DEF Transfer, SenderTypeOK
    <3>2. /\ wire'[c] \o pipe'[c] = wire[c] \o pipe[c]
          /\ wire'[c] \in Seq(Message) /\ pipe'[c] \in Seq(Message)
      <4> DEFINE a == wire[c]  b == pipe[c]
      <4>1. a \in Seq(Message) /\ b \in Seq(Message) /\ b # <<>>
        BY <1>1, <3>1
      <4>2. wire'[c] = Append(a, Head(b)) /\ pipe'[c] = Tail(b)
        BY <3>1
      <4> HIDE DEF a, b
      <4>3. /\ Append(a, Head(b)) \o Tail(b) = a \o b
            /\ Append(a, Head(b)) \in Seq(Message) /\ Tail(b) \in Seq(Message)
        BY <4>1, Moved
      <4>4. QED
        BY <4>2, <4>3 DEF a, b
    <3>3. /\ (handled[c] \o wire'[c]) \o pipe'[c] = handled[c] \o (wire'[c] \o pipe'[c])
          /\ (handled[c] \o wire[c]) \o pipe[c] = handled[c] \o (wire[c] \o pipe[c])
      <4> DEFINE h == handled[c]  w == wire[c]  q == pipe[c]  w2 == wire'[c]  q2 == pipe'[c]
      <4>1. /\ h \in Seq(Message) /\ w \in Seq(Message) /\ q \in Seq(Message)
            /\ w2 \in Seq(Message) /\ q2 \in Seq(Message)
        BY <1>1, <3>2
      <4> HIDE DEF h, w, q, w2, q2
      <4>2. (h \o w2) \o q2 = h \o (w2 \o q2)
        BY <4>1, ConcatAssociative
      <4>3. (h \o w) \o q = h \o (w \o q)
        BY <4>1, ConcatAssociative
      <4>4. QED
        BY <4>2, <4>3 DEF h, w, q, w2, q2
    <3>4. QED
      BY <2>1, <3>2, <3>3 DEF Carried
  <2>4. QED
    BY <2>2, <2>3
<1>3. CASE Take(d)
  <2>1. UNCHANGED pipe
    BY <1>3 DEF Take
  <2>2. CASE c # d
    <3>1. handled'[c] = handled[c] /\ wire'[c] = wire[c]
      BY <1>3, <2>2 DEF Take, SenderTypeOK
    <3>2. QED
      BY <2>1, <3>1 DEF Carried
  <2>3. CASE c = d
    <3>1. /\ handled'[c] = Append(handled[c], Head(wire[c])) /\ wire'[c] = Tail(wire[c])
          /\ wire[c] # <<>>
      BY <1>3, <2>3 DEF Take, SenderTypeOK
    <3>2. handled'[c] \o wire'[c] = handled[c] \o wire[c]
      <4> DEFINE a == handled[c]  b == wire[c]
      <4>1. a \in Seq(Message) /\ b \in Seq(Message) /\ b # <<>>
        BY <1>1, <3>1
      <4>2. handled'[c] = Append(a, Head(b)) /\ wire'[c] = Tail(b)
        BY <3>1
      <4> HIDE DEF a, b
      <4>3. Append(a, Head(b)) \o Tail(b) = a \o b
        BY <4>1, Moved
      <4>4. QED
        BY <4>2, <4>3 DEF a, b
    <3>3. QED
      BY <2>1, <3>2 DEF Carried
  <2>4. QED
    BY <2>2, <2>3
<1>4. QED
  BY <1>2, <1>3

(* A pod that stops takes what its connections had on the wire out of the  *)
(* middle of what they carry.                                              *)
LEMMA Cut ==
  ASSUME SenderTypeOK, NEW p \in Pod, PodStops(p), NEW c \in Connection
  PROVE  /\ peer[c] # p => Carried(c)' = Carried(c)
         /\ peer[c] = p => Carried(c)' = handled[c] \o pipe[c]
<1>1. /\ handled[c] \in Seq(Message) /\ wire[c] \in Seq(Message) /\ pipe[c] \in Seq(Message)
  BY DEF SenderTypeOK
<1>2. /\ UNCHANGED <<handled, pipe>>
      /\ wire'[c] = IF peer[c] = p THEN <<>> ELSE wire[c]
  BY DEF PodStops
<1>3. handled[c] \o <<>> = handled[c]
  BY <1>1
<1>4. QED
  BY <1>2, <1>3 DEF Carried

(* A step that moves messages towards a pod, or none at all.               *)
LEMMA Kept ==
  ASSUME IInv, UNCHANGED <<count, lost, stops>>,
         \A c \in Connection : Carried(c)' = Carried(c)
  PROVE  CarryInv' /\ OnceInv'
<1>1. CarryInv /\ OnceInv
  BY DEF IInv
<1>2. CarryInv'
  BY <1>1 DEF CarryInv, InOrder, Batch
<1>3. OnceInv'
  BY <1>1 DEF OnceInv, Batch
<1>4. QED
  BY <1>2, <1>3

(* A message that is sent is the next of the current connection's batch.   *)
LEMMA SentKept == IInv /\ SendMsg => CarryInv' /\ OnceInv'
<1> SUFFICES ASSUME IInv, SendMsg PROVE CarryInv' /\ OnceInv'
  OBVIOUS
<1> DEFINE m == count + 1
<1>0. SenderTypeOK /\ CountInv /\ CarryInv /\ OnceInv
  BY DEF IInv
<1>1. /\ count' = m /\ count \in Nat /\ m \in Nat /\ m \in Message
      /\ UNCHANGED <<lost, stops>> /\ cur \in Connection /\ cur \in Nat
  BY <1>0, Numbers DEF SenderTypeOK, SendMsg, CanSend, Message, podVars
<1>2. m \in Batch(cur)
  <2>1. count = (cur - 1) * BATCH + m_count /\ m_count \in 0 .. BATCH - 1
    BY <1>0, <1>1, Numbers DEF CountInv, SenderTypeOK
  <2>2. (cur - 1) * BATCH + BATCH = cur * BATCH
    BY <1>1, Numbers
  <2>3. (cur - 1) * BATCH \in Int /\ cur * BATCH \in Int
    BY <1>1, Numbers
  <2>4. QED
    BY <1>1, <2>1, <2>2, <2>3, Numbers DEF Batch
<1>3. \A c \in Connection :
        /\ Carried(c) \in Seq(Message)
        /\ Carried(c)' = IF c = cur THEN Append(Carried(c), m) ELSE Carried(c)
  BY <1>0, Sent
<1>4. ASSUME NEW c \in Connection
      PROVE  /\ \A i \in 1 .. Len(Carried(c)') :
                  /\ Carried(c)'[i] \in Batch(c) /\ Carried(c)'[i] <= m
                  /\ Carried(c)'[i] = m \/ \E j \in 1 .. Len(Carried(c)) : Carried(c)[j] = Carried(c)'[i]
             /\ InOrder(Carried(c)')
             /\ \A j \in 1 .. Len(Carried(c)) :
                  \E i \in 1 .. Len(Carried(c)') : Carried(c)'[i] = Carried(c)[j]
             /\ c = cur => \E i \in 1 .. Len(Carried(c)') : Carried(c)'[i] = m
  <2> DEFINE s == Carried(c)
  <2>1. /\ s \in Seq(Message)
        /\ \A i \in 1 .. Len(s) : s[i] \in Batch(c) /\ s[i] <= count
        /\ InOrder(s)
    BY <1>0, <1>3 DEF CarryInv
  <2>2. Len(s) \in Nat /\ \A i \in 1 .. Len(s) : s[i] \in Nat
    BY <2>1, Numbers
  <2>3. CASE c # cur
    <3>1. Carried(c)' = s
      BY <1>3, <2>3
    <3>2. QED
      BY <1>1, <2>1, <2>2, <2>3, <3>1
  <2>4. CASE c = cur
    <3> DEFINE t == Append(s, m)
    <3>1. Carried(c)' = t
      BY <1>3, <2>4
    <3> HIDE DEF s
    <3>2. /\ Len(t) = Len(s) + 1 /\ \A i \in 1 .. Len(s) : t[i] = s[i]
          /\ t[Len(s) + 1] = m
      BY <1>1, <2>1, AppendProperties
    <3> HIDE DEF t, m
    <3>3. \A i \in 1 .. Len(t) : (i \in 1 .. Len(s) /\ t[i] = s[i]) \/ (i = Len(s) + 1 /\ t[i] = m)
      BY <2>2, <3>2
    <3>4. \A i \in 1 .. Len(s) : s[i] < m /\ s[i] <= m
      BY <1>1, <2>1, <2>2 DEF m
    <3>5. \A i \in 1 .. Len(t) : /\ t[i] \in Batch(c) /\ t[i] <= m
                                 /\ t[i] = m \/ \E j \in 1 .. Len(s) : s[j] = t[i]
      BY <1>1, <1>2, <2>1, <2>4, <3>3, <3>4
    <3>6. InOrder(t)
      <4> SUFFICES ASSUME NEW i \in 1 .. Len(t), NEW j \in 1 .. Len(t), i < j
                   PROVE  t[i] < t[j]
        BY DEF InOrder
      <4>1. i \in 1 .. Len(s) /\ t[i] = s[i]
        BY <2>2, <3>2, <3>3
      <4>2. CASE j \in 1 .. Len(s) /\ t[j] = s[j]
        BY <2>1, <4>1, <4>2 DEF InOrder
      <4>3. CASE t[j] = m
        BY <3>4, <4>1, <4>3
      <4>4. QED
        BY <3>3, <4>2, <4>3
    <3>7. Len(s) + 1 \in 1 .. Len(t) /\ \A j \in 1 .. Len(s) : j \in 1 .. Len(t)
      BY <2>2, <3>2
    <3>8. QED
      BY <3>1, <3>2, <3>5, <3>6, <3>7 DEF s
  <2>5. QED
    BY <2>3, <2>4
<1>5. CarryInv'
  BY <1>1, <1>4 DEF CarryInv, Batch
<1>6. OnceInv'
  <2>1. ASSUME NEW x \in 1 .. m PROVE x \in 1 .. count \/ x = m
    BY <1>1
  <2>2. lost \subseteq 1 .. count /\ m \notin lost /\ \A x \in 1 .. count : x \in 1 .. m
    BY <1>0, <1>1 DEF OnceInv
  <2>3. ASSUME NEW x \in 1 .. m PROVE \E c \in Connection : x \in Batch(c)
    BY <1>0, <1>1, <1>2, <2>1 DEF OnceInv
  <2>4. ASSUME NEW x \in 1 .. m, NEW c \in Connection, x \in Batch(c)
        PROVE  x \in lost <=> ~\E i \in 1 .. Len(Carried(c)') : Carried(c)'[i] = x
    <3>1. CASE x = m
      <4>1. c = cur
        BY <1>1, <1>2, <2>4, <3>1, OneBatch
      <4>2. QED
        BY <1>4, <2>2, <3>1, <4>1
    <3>2. CASE x \in 1 .. count /\ x # m
      <4>1. x \in lost <=> ~\E i \in 1 .. Len(Carried(c)) : Carried(c)[i] = x
        BY <1>0, <2>4, <3>2 DEF OnceInv
      <4>2. (\E i \in 1 .. Len(Carried(c)') : Carried(c)'[i] = x)
              <=> \E i \in 1 .. Len(Carried(c)) : Carried(c)[i] = x
        <5>1. ASSUME NEW i \in 1 .. Len(Carried(c)'), Carried(c)'[i] = x
              PROVE  \E j \in 1 .. Len(Carried(c)) : Carried(c)[j] = x
          <6>1. Carried(c)'[i] = m \/ \E j \in 1 .. Len(Carried(c)) : Carried(c)[j] = Carried(c)'[i]
            BY <1>4
          <6>2. QED
            BY <3>2, <5>1, <6>1
        <5>2. ASSUME NEW j \in 1 .. Len(Carried(c)), Carried(c)[j] = x
              PROVE  \E i \in 1 .. Len(Carried(c)') : Carried(c)'[i] = x
          <6>1. \E i \in 1 .. Len(Carried(c)') : Carried(c)'[i] = Carried(c)[j]
            BY <1>4
          <6>2. QED
            BY <5>2, <6>1
        <5>3. QED
          BY <5>1, <5>2
      <4>3. QED
        BY <4>1, <4>2
    <3>3. QED
      BY <1>1, <2>1, <3>1, <3>2
  <2>5. stops = 0 => lost = {}
    BY <1>0 DEF OnceInv
  <2>6. QED
    BY <1>1, <2>2, <2>3, <2>4, <2>5 DEF OnceInv, Batch
<1>7. QED
  BY <1>5, <1>6

(* t is in order, and what is left of s without w. *)
Left(s, w, t) ==
  /\ InOrder(t)
  /\ \A i \in 1 .. Len(t) : \E j \in 1 .. Len(s) : t[i] = s[j]
  /\ \A j \in 1 .. Len(s) : (\E i \in 1 .. Len(t) : t[i] = s[j]) <=> s[j] \notin ToSet(w)
  /\ \A x \in ToSet(w) : \E j \in 1 .. Len(s) : s[j] = x

(* What is left of a sequence when the part in its middle is taken out.    *)
LEMMA Removal ==
  ASSUME NEW h \in Seq(Message), NEW w \in Seq(Message), NEW q \in Seq(Message),
         InOrder((h \o w) \o q)
  PROVE  Left((h \o w) \o q, w, h \o q)
<1> DEFINE s == (h \o w) \o q
           t == h \o q
<1>0. s = (h \o w) \o q /\ t = h \o q /\ InOrder(s) /\ s \in Seq(Message)
  OBVIOUS
<1> HIDE DEF s, t
<1> DEFINE place(i) == IF i <= Len(h) THEN i ELSE i + Len(w)
<1>1. /\ Len(h) \in Nat /\ Len(w) \in Nat /\ Len(q) \in Nat
      /\ Len(s) = Len(h) + Len(w) + Len(q) /\ Len(t) = Len(h) + Len(q)
  BY <1>0, Parts
<1>2. /\ \A i \in 1 .. Len(h) : s[i] = h[i] /\ t[i] = h[i]
      /\ \A i \in 1 .. Len(w) : s[Len(h) + i] = w[i]
      /\ \A i \in 1 .. Len(q) : s[Len(h) + Len(w) + i] = q[i] /\ t[Len(h) + i] = q[i]
  <2> DEFINE a == h \o w
  <2>1. /\ a \in Seq(Message) /\ Len(a) = Len(h) + Len(w)
        /\ \A i \in 1 .. Len(h) : a[i] = h[i]
        /\ \A i \in 1 .. Len(w) : a[Len(h) + i] = w[i]
    BY Parts
  <2> HIDE DEF a
  <2>2. /\ \A i \in 1 .. Len(a) : (a \o q)[i] = a[i]
        /\ \A i \in 1 .. Len(q) : (a \o q)[Len(a) + i] = q[i]
    BY <2>1, Parts
  <2>3. s = a \o q
    BY <1>0 DEF a
  <2>4. \A i \in 1 .. Len(w) : Len(h) + i \in 1 .. Len(a)
    BY <1>1, <2>1
  <2>5. \A i \in 1 .. Len(h) : i \in 1 .. Len(a)
    BY <1>1, <2>1
  <2>6. /\ \A i \in 1 .. Len(h) : t[i] = h[i]
        /\ \A i \in 1 .. Len(q) : t[Len(h) + i] = q[i]
    BY <1>0, Parts
  <2>7. QED
    BY <2>1, <2>2, <2>3, <2>4, <2>5, <2>6
<1>3. \A i \in 1 .. Len(s) : s[i] \in Nat
  BY <1>0, Numbers
<1>4. ASSUME NEW i \in 1 .. Len(t)
      PROVE  place(i) \in 1 .. Len(s) /\ t[i] = s[place(i)]
  <2>1. CASE i <= Len(h)
    BY <1>1, <1>2, <2>1
  <2>2. CASE i > Len(h)
    <3>1. PICK k \in 1 .. Len(q) : i = Len(h) + k
      <4>1. i - Len(h) \in 1 .. Len(q)
        BY <1>1, <2>2
      <4>2. i = Len(h) + (i - Len(h))
        BY <1>1
      <4>3. QED
        BY <4>1, <4>2
    <3>2. place(i) = Len(h) + Len(w) + k
      BY <1>1, <2>2, <3>1
    <3>3. QED
      BY <1>1, <1>2, <3>1, <3>2
  <2>3. QED
    BY <1>1, <2>1, <2>2
<1>5. InOrder(t)
  <2> SUFFICES ASSUME NEW i \in 1 .. Len(t), NEW j \in 1 .. Len(t), i < j
               PROVE  t[i] < t[j]
    BY DEF InOrder
  <2>1. place(i) < place(j)
    BY <1>1
  <2>2. s[place(i)] < s[place(j)]
    BY <1>0, <1>4, <2>1 DEF InOrder
  <2>3. QED
    BY <1>4, <2>2
<1>6. \A i \in 1 .. Len(s), j \in 1 .. Len(s) : s[i] = s[j] => i = j
  <2> SUFFICES ASSUME NEW i \in 1 .. Len(s), NEW j \in 1 .. Len(s), i # j
               PROVE  s[i] # s[j]
    OBVIOUS
  <2>1. i < j \/ j < i
    BY <1>1
  <2>2. s[i] < s[j] \/ s[j] < s[i]
    BY <1>0, <2>1 DEF InOrder
  <2>3. QED
    BY <1>3, <2>2
<1>7. ASSUME NEW x PROVE x \in ToSet(w) <=> \E i \in 1 .. Len(w) : w[i] = x
  BY <1>1 DEF ToSet
<1>8. \A i \in 1 .. Len(w) : Len(h) + i \in 1 .. Len(s)
  BY <1>1
<1>9. ASSUME NEW j \in 1 .. Len(s), s[j] \notin ToSet(w)
      PROVE  \E i \in 1 .. Len(t) : t[i] = s[j]
  <2>1. CASE j <= Len(h)
    BY <1>1, <1>2, <2>1
  <2>2. CASE Len(h) < j /\ j <= Len(h) + Len(w)
    <3>1. j - Len(h) \in 1 .. Len(w) /\ j = Len(h) + (j - Len(h))
      BY <1>1, <2>2
    <3>2. s[j] = w[j - Len(h)]
      BY <1>2, <3>1
    <3>3. QED
      BY <1>7, <1>9, <3>1, <3>2
  <2>3. CASE Len(h) + Len(w) < j
    <3>1. PICK k \in 1 .. Len(q) : j = Len(h) + Len(w) + k
      <4>1. j - (Len(h) + Len(w)) \in 1 .. Len(q)
        BY <1>1, <2>3
      <4>2. j = Len(h) + Len(w) + (j - (Len(h) + Len(w)))
        BY <1>1
      <4>3. QED
        BY <4>1, <4>2
    <3>2. t[Len(h) + k] = s[j] /\ Len(h) + k \in 1 .. Len(t)
      BY <1>1, <1>2, <3>1
    <3>3. QED
      BY <3>2
  <2>4. QED
    BY <1>1, <2>1, <2>2, <2>3
<1>10. ASSUME NEW j \in 1 .. Len(s), NEW i \in 1 .. Len(t), t[i] = s[j]
       PROVE  s[j] \notin ToSet(w)
  <2> SUFFICES ASSUME NEW k \in 1 .. Len(w), w[k] = s[j] PROVE FALSE
    BY <1>7
  <2>1. s[Len(h) + k] = s[j] /\ Len(h) + k \in 1 .. Len(s)
    BY <1>2, <1>8
  <2>2. s[place(i)] = s[j] /\ place(i) \in 1 .. Len(s)
    BY <1>4, <1>10
  <2>3. Len(h) + k = place(i)
    BY <1>6, <2>1, <2>2
  <2>4. QED
    BY <1>1, <2>3
<1>11. ASSUME NEW x \in ToSet(w) PROVE \E j \in 1 .. Len(s) : s[j] = x
  <2>1. PICK k \in 1 .. Len(w) : w[k] = x
    BY <1>7, <1>11
  <2>2. s[Len(h) + k] = x /\ Len(h) + k \in 1 .. Len(s)
    BY <1>2, <1>8, <2>1
  <2>3. QED
    BY <2>2
<1>12. Left(s, w, t)
  BY <1>4, <1>5, <1>9, <1>10, <1>11 DEF Left
<1>13. QED
  BY <1>0, <1>12

(* When a pod stops, what it had not taken is lost, and nothing else.      *)
LEMMA CutKept ==
  ASSUME IInv, NEW p \in Pod, PodStops(p)
  PROVE  CarryInv' /\ OnceInv'
<1>0. SenderTypeOK /\ CarryInv /\ OnceInv
  BY DEF IInv
<1>1. UNCHANGED count /\ stops' = stops + 1 /\ stops \in Nat
  BY <1>0 DEF PodStops, senderVars, SenderTypeOK
<1>2. /\ \A x \in lost : x \in lost'
      /\ \A c \in Connection : peer[c] = p => \A x \in ToSet(wire[c]) : x \in lost'
      /\ \A x \in lost' : x \in lost \/ \E c \in Connection : peer[c] = p /\ x \in ToSet(wire[c])
  BY DEF PodStops
<1>3. ASSUME NEW c \in Connection
      PROVE  /\ InOrder(Carried(c)')
             /\ \A i \in 1 .. Len(Carried(c)') :
                  \E j \in 1 .. Len(Carried(c)) : Carried(c)'[i] = Carried(c)[j]
             /\ \A j \in 1 .. Len(Carried(c)) :
                  (\E i \in 1 .. Len(Carried(c)') : Carried(c)'[i] = Carried(c)[j])
                    <=> ~(peer[c] = p /\ Carried(c)[j] \in ToSet(wire[c]))
             /\ \A x \in ToSet(wire[c]) : \E j \in 1 .. Len(Carried(c)) : Carried(c)[j] = x
  <2> DEFINE h == handled[c]  w == wire[c]  q == pipe[c]  s == Carried(c)  t == h \o q
  <2>1. h \in Seq(Message) /\ w \in Seq(Message) /\ q \in Seq(Message)
    BY <1>0 DEF SenderTypeOK
  <2>2. s = (h \o w) \o q /\ InOrder(s)
    BY <1>0 DEF Carried, CarryInv
  <2>3. /\ InOrder(t)
        /\ \A i \in 1 .. Len(t) : \E j \in 1 .. Len(s) : t[i] = s[j]
        /\ \A j \in 1 .. Len(s) : (\E i \in 1 .. Len(t) : t[i] = s[j]) <=> s[j] \notin ToSet(w)
        /\ \A x \in ToSet(w) : \E j \in 1 .. Len(s) : s[j] = x
    <3>1. t = h \o q
      OBVIOUS
    <3> HIDE DEF h, w, q, s, t
    <3>2. Left(s, w, t)
      BY <2>1, <2>2, <3>1, Removal
    <3>3. QED
      BY <3>2 DEF Left
  <2>4. CASE peer[c] = p
    <3>1. Carried(c)' = t
      BY <1>0, <2>4, Cut
    <3>2. QED
      BY <2>3, <2>4, <3>1
  <2>5. CASE peer[c] # p
    <3>1. Carried(c)' = s
      BY <1>0, <2>5, Cut
    <3>2. QED
      BY <2>2, <2>3, <2>5, <3>1
  <2>6. QED
    BY <2>4, <2>5
<1>4. CarryInv'
  BY <1>0, <1>1, <1>3 DEF CarryInv, Batch
<1>5. ASSUME NEW c \in Connection, NEW x \in ToSet(wire[c])
      PROVE  x \in Batch(c) /\ x \in 1 .. count
  <2>1. PICK j \in 1 .. Len(Carried(c)) : Carried(c)[j] = x
    BY <1>3
  <2>2. x \in Batch(c) /\ x <= count
    BY <1>0, <2>1 DEF CarryInv
  <2>3. x \in Message
    BY <1>0 DEF SenderTypeOK, ToSet
  <2>4. QED
    BY <1>0, <2>2, <2>3 DEF Message, SenderTypeOK
<1>6. lost' \subseteq 1 .. count
  BY <1>0, <1>2, <1>5 DEF OnceInv
<1>7. ASSUME NEW x \in 1 .. count, NEW c \in Connection, x \in Batch(c)
      PROVE  x \in lost' <=> ~\E i \in 1 .. Len(Carried(c)') : Carried(c)'[i] = x
  <2>1. x \in lost <=> ~\E j \in 1 .. Len(Carried(c)) : Carried(c)[j] = x
    BY <1>0, <1>7 DEF OnceInv
  <2>2. x \in lost' <=> x \in lost \/ (peer[c] = p /\ x \in ToSet(wire[c]))
    <3>1. \A d \in Connection : x \in ToSet(wire[d]) => d = c
      BY <1>5, <1>7, OneBatch
    <3>2. QED
      BY <1>2, <3>1
  <2>3. CASE x \in lost
    BY <1>3, <2>1, <2>2, <2>3
  <2>4. CASE x \notin lost
    <3>1. PICK j \in 1 .. Len(Carried(c)) : Carried(c)[j] = x
      BY <2>1, <2>4
    <3>2. (\E i \in 1 .. Len(Carried(c)') : Carried(c)'[i] = x)
            <=> ~(peer[c] = p /\ x \in ToSet(wire[c]))
      BY <1>3, <3>1
    <3>3. QED
      BY <2>2, <2>4, <3>2
  <2>5. QED
    BY <2>3, <2>4
<1>8. OnceInv'
  BY <1>0, <1>1, <1>6, <1>7 DEF OnceInv, Batch
<1>9. QED
  BY <1>4, <1>8

(* Every step keeps CarryInv and OnceInv. *)
LEMMA FlowStep == IInv /\ [Next]_vars => CarryInv' /\ OnceInv'
<1> SUFFICES ASSUME IInv, [Next]_vars PROVE CarryInv' /\ OnceInv'
  OBVIOUS
<1>0. SenderTypeOK
  BY DEF IInv
<1> USE DEF senderVars, flowVars, podVars
<1>1. ASSUME UNCHANGED <<count, lost, stops, handled, wire, pipe>>
      PROVE  CarryInv' /\ OnceInv'
  BY <1>1, Kept DEF Carried
<1>2. CASE SenderUnchanged \/ \E valid \in BOOLEAN : Connect(valid)
  BY <1>1, <1>2 DEF SenderUnchanged, Connect
<1>3. CASE SendMsg
  BY <1>3, SentKept
<1>4. ASSUME NEW c \in Connection, Transfer(c) \/ Take(c) PROVE CarryInv' /\ OnceInv'
  <2>1. UNCHANGED <<count, lost, stops>>
    BY <1>4 DEF Transfer, Take
  <2>2. QED
    BY <1>0, <1>4, <2>1, Forwarded, Kept
<1>5. ASSUME NEW c \in Connection, NEW p \in Pod, NEW used \in BOOLEAN, Establish(c, p, used)
      PROVE  CarryInv' /\ OnceInv'
  BY <1>1, <1>5 DEF Establish
<1>6. ASSUME NEW p \in Pod, PodStops(p) \/ PodStarts(p) PROVE CarryInv' /\ OnceInv'
  BY <1>1, <1>6, CutKept DEF PodStarts
<1>7. QED
  BY <1>2, <1>3, <1>4, <1>5, <1>6, SenderSteps DEF SenderStep

(* Every step keeps RoomInv: a new connection is made before the current   *)
(* one has more than a batch.                                              *)
LEMMA RoomStep == IInv /\ [Next]_vars => RoomInv'
<1> SUFFICES ASSUME IInv, [Next]_vars PROVE RoomInv'
  OBVIOUS
<1>0. SenderTypeOK /\ NoSenderInv /\ RoomInv
  BY DEF IInv
<1> USE DEF senderVars, flowVars, podVars
<1>1. /\ cur \in Connection \cup {0} /\ cur \in Nat /\ m_count \in Nat
      /\ \A c \in Connection : c \in Nat /\ c >= 1 /\ Len(Carried(c)) \in Nat
  BY <1>0, Numbers DEF SenderTypeOK, Carried
<1>2. ASSUME UNCHANGED <<cur, m_count>>,
             \A c \in Connection : Len(Carried(c)') <= Len(Carried(c)) /\ Len(Carried(c)') \in Nat
      PROVE  RoomInv'
  BY <1>0, <1>1, <1>2 DEF RoomInv
<1>3. ASSUME UNCHANGED <<cur, m_count, handled, wire, pipe>> PROVE RoomInv'
  <2>1. \A c \in Connection : Carried(c)' = Carried(c)
    BY <1>3 DEF Carried
  <2>2. QED
    BY <1>1, <1>2, <1>3, <2>1
<1>4. ASSUME NEW valid \in BOOLEAN, Connect(valid), phase \in Before PROVE RoomInv'
  <2>1. \A c \in Connection : Carried(c) = <<>> /\ Carried(c)' = Carried(c)
    BY <1>0, <1>4 DEF NoSenderInv, SenderInit, Connect, Carried
  <2>2. cur' \in {0, 1} /\ m_count' \in Nat
    BY <1>1, <1>4 DEF Connect
  <2>3. QED
    BY <2>1, <2>2, Numbers DEF RoomInv
<1>5. CASE SendMsg
  <2>1. ASSUME NEW c \in Connection, c = cur
        PROVE  Len(Carried(c)') <= m_count + 1 /\ Len(Carried(c)') \in Nat
    <3> DEFINE s == Carried(c)
    <3>1. s \in Seq(Message) /\ Carried(c)' = Append(s, count + 1)
      BY <1>0, <1>5, <2>1, Sent
    <3>2. count + 1 \in Message
      BY <1>0, <1>5, Numbers DEF SendMsg, SenderTypeOK, Message
    <3>3. Len(s) <= m_count /\ Len(s) \in Nat
      BY <1>0, <1>1, <2>1 DEF RoomInv
    <3> HIDE DEF s
    <3>4. Len(Append(s, count + 1)) = Len(s) + 1
      BY <3>1, <3>2
    <3>5. QED
      BY <1>1, <3>1, <3>3, <3>4
  <2>2. ASSUME NEW c \in Connection, c > cur
        PROVE  Len(Carried(c)') = 0
    <3>1. c # cur /\ Len(Carried(c)) = 0
      BY <1>0, <1>1, <2>2 DEF RoomInv
    <3>2. QED
      BY <1>0, <1>5, <3>1, Sent
  <2>3. CASE cur' = cur + 1 /\ m_count' = 0
    <3>1. \A c \in Connection : c >= cur' => c > cur
      BY <1>1, <2>3
    <3>2. QED
      BY <1>1, <2>2, <2>3, <3>1 DEF RoomInv
  <2>4. CASE cur' = cur /\ m_count' = m_count + 1
    BY <2>1, <2>2, <2>4 DEF RoomInv
  <2>5. QED
    BY <1>5, <2>3, <2>4 DEF SendMsg, Reconnect
<1>6. ASSUME NEW c \in Connection, Transfer(c) \/ Take(c) PROVE RoomInv'
  <2>1. UNCHANGED <<cur, m_count>>
    BY <1>6 DEF Transfer, Take
  <2>2. QED
    BY <1>0, <1>1, <1>2, <1>6, <2>1, Forwarded
<1>7. ASSUME NEW c \in Connection, NEW p \in Pod, NEW used \in BOOLEAN, Establish(c, p, used)
      PROVE  RoomInv'
  BY <1>3, <1>7 DEF Establish
<1>8. ASSUME NEW p \in Pod, PodStops(p) PROVE RoomInv'
  <2>1. UNCHANGED <<cur, m_count>>
    BY <1>8 DEF PodStops
  <2>2. ASSUME NEW c \in Connection
        PROVE  Len(Carried(c)') <= Len(Carried(c)) /\ Len(Carried(c)') \in Nat
    <3>1. handled[c] \in Seq(Message) /\ wire[c] \in Seq(Message) /\ pipe[c] \in Seq(Message)
      BY <1>0 DEF SenderTypeOK
    <3>2. /\ Len((handled[c] \o wire[c]) \o pipe[c]) = Len(handled[c]) + Len(wire[c]) + Len(pipe[c])
          /\ Len(handled[c] \o pipe[c]) = Len(handled[c]) + Len(pipe[c])
          /\ Len(handled[c]) \in Nat /\ Len(wire[c]) \in Nat /\ Len(pipe[c]) \in Nat
      BY <3>1
    <3>3. CASE peer[c] = p
      <4>1. Len(Carried(c)') = Len(handled[c]) + Len(pipe[c])
        BY <1>0, <1>8, <3>2, <3>3, Cut
      <4>2. Len(Carried(c)) = Len(handled[c]) + Len(wire[c]) + Len(pipe[c])
        BY <3>2 DEF Carried
      <4> DEFINE h == Len(handled[c])  w == Len(wire[c])  q == Len(pipe[c])
      <4>3. h \in Nat /\ w \in Nat /\ q \in Nat
        BY <3>2
      <4>4. Len(Carried(c)') = h + q /\ Len(Carried(c)) = h + w + q
        BY <4>1, <4>2
      <4> HIDE DEF h, w, q
      <4>5. h + q <= h + w + q /\ h + q \in Nat
        BY <4>3
      <4>6. QED
        BY <4>4, <4>5
    <3>4. CASE peer[c] # p
      <4>1. Carried(c)' = Carried(c)
        BY <1>0, <1>8, <3>4, Cut
      <4>2. QED
        BY <1>1, <4>1
    <3>5. QED
      BY <3>3, <3>4
  <2>3. QED
    BY <1>2, <2>1, <2>2
<1>9. ASSUME NEW p \in Pod, PodStarts(p) PROVE RoomInv'
  BY <1>3, <1>9 DEF PodStarts
<1>10. CASE SenderUnchanged
  BY <1>3, <1>10 DEF SenderUnchanged
<1>11. QED
  BY <1>4, <1>5, <1>6, <1>7, <1>8, <1>9, <1>10, SenderSteps DEF SenderStep

-----------------------------------------------------------------------------
(***************************************************************************)
(* The theorems.                                                           *)
(***************************************************************************)

(* A service starts without connections and messages. *)
LEMMA InitLemma == Init => IInv
<1> SUFFICES ASSUME Init PROVE IInv
  OBVIOUS
<1>1. SenderInit /\ sender = FALSE
  BY DEF Init
<1>2. SenderTypeOK
  <2>1. <<>> \in Seq(Message) /\ 0 \in 0 .. BATCH - 1 /\ 0 \in 0 .. MaxMsg
    BY Numbers
  <2>2. QED
    BY <1>1, <2>1 DEF SenderInit, SenderTypeOK
<1>3. \A c \in Connection : Carried(c) = <<>>
  BY <1>1 DEF SenderInit, Carried
<1>4. NoSenderInv /\ CountInv
  BY <1>1 DEF NoSenderInv, CountInv, SenderInit
<1>5. CarryInv /\ RoomInv
  BY <1>1, <1>3 DEF CarryInv, InOrder, RoomInv, SenderInit
<1>6. OnceInv
  BY <1>1 DEF OnceInv, SenderInit
<1>7. QED
  BY <1>2, <1>4, <1>5, <1>6 DEF IInv

(* IInv holds in every state of a service. *)
LEMMA Invariance == Spec => []IInv
<1>1. IInv /\ [Next]_vars => IInv'
  BY SenderTypeStep, NoSenderStep, CountStep, FlowStep, RoomStep DEF IInv
<1>2. QED
  BY <1>1, InitLemma, PTL DEF Spec

(* The Sender's variables, and those of its connections and pods, keep     *)
(* their types: there are never more connections than batches, and one.    *)
THEOREM SenderTypes == Spec => []SenderTypeOK
<1>1. IInv => SenderTypeOK
  BY DEF IInv
<1>2. QED
  BY <1>1, Invariance, PTL

(* Each connection carries one batch of consecutive messages, in order.    *)
THEOREM OneBatchPerConnection == Spec => []BatchPerConnection
<1>1. ASSUME IInv PROVE BatchPerConnection
  <2>1. \A c \in Connection : DOMAIN Carried(c) = 1 .. Len(Carried(c))
    BY <1>1 DEF IInv, SenderTypeOK, Carried
  <2>2. QED
    BY <1>1, <2>1 DEF IInv, CarryInv, InOrder, Batch, BatchPerConnection
<1>2. QED
  BY <1>1, Invariance, PTL

(* Disconnecting loses and repeats nothing: a message that was sent is on  *)
(* exactly one connection, or was lost with a pod that stopped.            *)
THEOREM SentOnce == Spec => []EachMessageOnce
<1>1. ASSUME IInv PROVE EachMessageOnce
  <2>1. CarryInv /\ OnceInv /\ SenderTypeOK
    BY <1>1 DEF IInv
  <2>2. ASSUME NEW c \in Connection, NEW m
        PROVE  m \in ToSet(Carried(c)) <=> \E i \in 1 .. Len(Carried(c)) : Carried(c)[i] = m
    <3>1. DOMAIN Carried(c) = 1 .. Len(Carried(c))
      BY <2>1 DEF SenderTypeOK, Carried
    <3>2. QED
      BY <3>1 DEF ToSet
  <2>3. ASSUME NEW m \in 1 .. count
        PROVE  Cardinality({c \in Connection : m \in ToSet(Carried(c))}) =
                 IF m \in lost THEN 0 ELSE 1
    <3> DEFINE On == {c \in Connection : m \in ToSet(Carried(c))}
    <3>1. PICK d \in Connection : m \in Batch(d)
      BY <2>1 DEF OnceInv
    <3>2. \A c \in On : c = d
      BY <2>1, <2>2, <3>1, OneBatch DEF CarryInv
    <3>3. d \in On <=> m \notin lost
      BY <2>1, <2>2, <3>1 DEF OnceInv
    <3>4. CASE m \in lost
      <4>1. On = {}
        BY <3>2, <3>3, <3>4
      <4>2. Cardinality(On) = 0
        BY <4>1, FS_EmptySet
      <4>3. QED
        BY <3>4, <4>2
    <3>5. CASE m \notin lost
      <4>1. On = {d}
        BY <3>2, <3>3, <3>5
      <4>2. Cardinality(On) = 1
        BY <4>1, FS_Singleton
      <4>3. QED
        BY <3>5, <4>2
    <3>6. QED
      BY <3>4, <3>5
  <2>4. stops = 0 => lost = {}
    BY <2>1 DEF OnceInv
  <2>5. QED
    BY <2>3, <2>4 DEF EachMessageOnce
<1>2. QED
  BY <1>1, Invariance, PTL

(* The pipe of the current connection never fills (Sender::sendMsg leaves  *)
(* it after BATCH messages): main waits in a send only on a socket that    *)
(* never had a connection.                                                 *)
THEOREM SendNeverWaits == Spec => [](cur # 0 => CanSend)
<1>1. ASSUME IInv, cur # 0 PROVE CanSend
  <2>1. cur \in Connection /\ m_count \in 0 .. BATCH - 1
    BY <1>1 DEF IInv, SenderTypeOK
  <2>2. handled[cur] \in Seq(Message) /\ wire[cur] \in Seq(Message) /\ pipe[cur] \in Seq(Message)
    BY <1>1, <2>1 DEF IInv, SenderTypeOK
  <2>3. /\ Len(Carried(cur)) = Len(handled[cur]) + Len(wire[cur]) + Len(pipe[cur])
        /\ Len(handled[cur]) \in Nat /\ Len(wire[cur]) \in Nat /\ Len(pipe[cur]) \in Nat
    BY <2>2 DEF Carried
  <2>4. Len(Carried(cur)) <= m_count
    BY <1>1, <2>1 DEF IInv, RoomInv
  <2>5. m_count \in Nat /\ m_count < BATCH /\ BATCH <= HWM /\ BATCH \in Nat /\ HWM \in Nat
    BY <2>1
  <2>6. Len(pipe[cur]) < HWM
    <3> DEFINE h == Len(handled[cur])  w == Len(wire[cur])  q == Len(pipe[cur])
    <3>1. h \in Nat /\ w \in Nat /\ q \in Nat /\ h + w + q <= m_count
      BY <2>3, <2>4
    <3> HIDE DEF h, w, q
    <3>2. q < HWM
      BY <2>5, <3>1
    <3>3. QED
      BY <3>2 DEF q
  <2>7. QED
    BY <1>1, <2>6 DEF CanSend
<1>2. QED
  BY <1>1, Invariance, PTL
=============================================================================
