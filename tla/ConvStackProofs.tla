-------------------------- MODULE ConvStackProofs --------------------------
(***************************************************************************)
(* Proofs about ConvStack, for every value of its constants: any topics,   *)
(* configured conversions and commands, and any number of messages.        *)
(***************************************************************************)
EXTENDS ConvStack, FiniteSetTheorems, SequenceTheorems, TLAPS

USE TopicAssumption, BoundAssumption DEF Thread, Msg

(***************************************************************************)
(* The inductive invariant, in named parts.                                *)
(***************************************************************************)

(* Whoever holds ConvStack::m_mutex is inside its critical section: a      *)
(* thread that publishes, or main in a command.                            *)
LockInv ==
  /\ \A w \in Thread : mutex = w <=> pc[w] = "publishing"
  /\ mutex = "main" <=> cmd # <<>>

(* A listed topic is subscribed to, or one of those that the set-up of the *)
(* subscriber thread, which is not made or failed, would have subscribed   *)
(* to. It stays so when the socket is closed: no command succeeds then.    *)
SubscribedInv ==
  \A t \in m_subscriptions : sockSubs[t] > 0 \/ (~setupOk /\ t \in SubTopics)

(* A thread has a message in hand while it is in onReceivedMessage.        *)
HandInv ==
  \A w \in Thread :
    /\ hand[w] # 0 <=> pc[w] \in {"got", "publishing"}
    /\ hand[w] # 0 => hand[w] <= nmsg /\ Waiting(hand[w])

(* What is in a socket has arrived, waits, and is in no other place.       *)
QueueInv ==
  \A w \in Thread : \A i \in 1 .. Len(queue[w]) :
    /\ queue[w][i] <= nmsg /\ Waiting(queue[w][i]) /\ hand[w] < queue[w][i]
    /\ \A j \in 1 .. Len(queue[w]) : i < j => queue[w][i] < queue[w][j]

(* The two threads have no message in common.                              *)
ApartInv ==
  \A w, v \in Thread : w # v =>
    /\ hand[w] = hand[v] => hand[w] = 0
    /\ \A i \in 1 .. Len(queue[w]) :
         /\ queue[w][i] # hand[v]
         /\ \A j \in 1 .. Len(queue[v]) : queue[w][i] # queue[v][j]

(* A message that waits may be routed as the conversions in force now say; *)
(* what a thread has published of its message and is still to publish is   *)
(* together one of the lists that were in force since the message came;    *)
(* nothing else has been published of a message that waits.                *)
RouteInv ==
  /\ \A m \in Msg : m > nmsg => outcome[m] = "none" /\ out[m] = {}
  /\ \A m \in Msg : Waiting(m) => Effective(topic[m]) \in versions[m]
  /\ \A w \in Thread : pc[w] = "publishing" =>
       out[hand[w]] \cup todo[w] \in versions[hand[w]]
  /\ \A m \in Msg :
       Waiting(m) /\ (\A w \in Thread : pc[w] = "publishing" => hand[w] # m)
         => out[m] = {}

(* Only the receiver thread can find the publisher closed, and it ends     *)
(* when it does.                                                           *)
CutInv ==
  /\ publisher = "closed" => Over("sub")
  /\ \A m \in Msg : outcome[m] = "cut" => publisher = "closed" /\ pc["rcv"] = "ended"
  /\ \A m, n \in Msg : outcome[m] = "cut" /\ outcome[n] = "cut" => m = n

IInv ==
  /\ TypeOK /\ LockInv /\ SubscribedInv /\ HandInv /\ QueueInv /\ ApartInv
  /\ RouteInv /\ RoutedAtomically /\ CutInv

-----------------------------------------------------------------------------
(***************************************************************************)
(* Types, and the initial states.                                          *)
(***************************************************************************)

(* A process that starts satisfies the invariant.                          *)
LEMMA InitLemma == Init => IInv
<1> SUFFICES ASSUME Init PROVE IInv
  OBVIOUS
<1>1. TypeOK
  <2>1. <<>> \in Seq(Msg)
    BY EmptySeq
  <2>2. /\ pc \in [Thread -> PC] /\ hand \in [Thread -> Msg \cup {0}]
        /\ m_shutdown \in [Thread -> BOOLEAN] /\ todo \in [Thread -> SUBSET Topic]
        /\ phase \in Phase /\ sockSubs \in [Topic -> Nat]
    BY DEF Init, Phase, PC
  <2>3. /\ out \in [Msg -> SUBSET Topic] /\ versions \in [Msg -> SUBSET SUBSET Topic]
        /\ outcome \in [Msg -> {"none", "waiting", "converted", "dropped", "cut"}]
        /\ topic \in [Msg -> Topic] /\ queue \in [Thread -> Seq(Msg)]
    BY <2>1 DEF Init
  <2>4. QED
    BY <2>2, <2>3 DEF Init, TypeOK
<1>2. LockInv /\ SubscribedInv /\ HandInv /\ CutInv
  BY DEF Init, LockInv, SubscribedInv, HandInv, CutInv, Over
<1>3. QueueInv /\ ApartInv
  BY DEF Init, QueueInv, ApartInv
<1>4. RouteInv /\ RoutedAtomically
  BY DEF Init, RouteInv, RoutedAtomically, Waiting
<1>5. QED
  BY <1>1, <1>2, <1>3, <1>4 DEF IInv

(* The message at the head of a socket's queue, and what stays in it.      *)
LEMMA HeadTail ==
  ASSUME TypeOK, NEW w \in Thread, queue[w] # <<>>
  PROVE  /\ Len(queue[w]) \in Nat /\ Len(queue[w]) >= 1
         /\ Head(queue[w]) = queue[w][1] /\ Head(queue[w]) \in Msg
         /\ Tail(queue[w]) \in Seq(Msg)
         /\ Len(Tail(queue[w])) = Len(queue[w]) - 1
         /\ \A i \in 1 .. Len(Tail(queue[w])) :
              Tail(queue[w])[i] = queue[w][i + 1]
<1>1. queue[w] \in Seq(Msg)
  BY DEF TypeOK
<1>2. /\ Head(queue[w]) \in Msg /\ Tail(queue[w]) \in Seq(Msg)
      /\ Len(Tail(queue[w])) = Len(queue[w]) - 1
      /\ \A i \in 1 .. Len(Tail(queue[w])) : Tail(queue[w])[i] = queue[w][i + 1]
  BY <1>1, HeadTailProperties
<1>3. Len(queue[w]) \in Nat /\ Len(queue[w]) >= 1
  BY <1>1, EmptySeq
<1>4. Head(queue[w]) = queue[w][1]
  BY <1>1
<1>5. QED
  BY <1>2, <1>3, <1>4

(* Every step keeps the types.                                             *)
LEMMA TypeStep == IInv /\ [Next]_vars => TypeOK'
<1> SUFFICES ASSUME IInv, [Next]_vars PROVE TypeOK'
  OBVIOUS
<1>0. TypeOK /\ HandInv
  BY DEF IInv
<1> USE <1>0 DEF TypeOK, subVars, lifeVars, cmdVars, threadVars, inVars, fateVars
<1>1. CASE StartReceiver
  BY <1>1 DEF StartReceiver, PC
<1>2. CASE Constructed \/ Quit \/ Destructor
  <2>1. /\ UNCHANGED <<m_conversionMap, mutex, subVars, cmdVars, threadVars, inVars, fateVars>>
        /\ phase' \in Phase
    BY <1>2 DEF Constructed, Quit, Destructor, StopSubscriber, ClosePublisher,
                StopReceiver, JoinReceiver, Moves, Phase
  <2>2. m_shutdown' \in [Thread -> BOOLEAN] /\ publisher' \in {"open", "closed"}
    BY <1>2 DEF Constructed, Quit, Destructor, StopSubscriber, ClosePublisher,
                StopReceiver, JoinReceiver, Tell
  <2>3. QED
    BY <2>1, <2>2
<1>3. CASE Command
  <2>1. ASSUME NEW t \in Topic, NEW ts \in SUBSET Topic, Begins(t, ts)
        PROVE  /\ cmd' \in {<<>>} \cup (Topic \X SUBSET Topic) /\ ncmd' \in Nat
               /\ mutex' \in Thread \cup {"none", "main"}
               /\ versions' \in [Msg -> SUBSET SUBSET Topic]
               /\ UNCHANGED <<m_conversionMap, setupOk, phase, m_shutdown,
                    publisher, pc, hand, todo, queue, nmsg, topic, out, outcome>>
    <3>1. cmd' \in {<<>>} \cup (Topic \X SUBSET Topic) /\ ncmd' \in Nat
      <4>1. cmd' = <<t, ts>> /\ ncmd' = ncmd + 1 /\ ncmd \in Nat
        BY <2>1 DEF Begins
      <4>2. <<t, ts>> \in Topic \X SUBSET Topic
        BY ONLY t \in Topic, ts \in SUBSET Topic
      <4>3. QED
        BY ONLY <4>1, <4>2
    <3>2. versions' \in [Msg -> SUBSET SUBSET Topic]
      <4>1. \A m \in Msg : (IF Waiting(m) /\ topic[m] = t THEN versions[m] \cup {ts}
                            ELSE versions[m]) \in SUBSET SUBSET Topic
        OBVIOUS
      <4>2. QED
        BY <2>1, <4>1 DEF Begins
    <3>3. QED
      BY <2>1, <3>1, <3>2 DEF Begins, LocksMain
  <2>2. ASSUME NEW t \in Topic, NEW ts \in Targets, AddSubscribe(t, ts)
        PROVE  TypeOK'
    <3>1. Begins(t, ts) /\ ts \in SUBSET Topic
      BY <2>2 DEF AddSubscribe
    <3>2. m_subscriptions' \subseteq Topic /\ sockSubs' \in [Topic -> Nat]
      BY <2>2 DEF AddSubscribe, SockSubscribe
    <3>3. QED
      BY <2>1, <3>1, <3>2
  <2>3. ASSUME NEW t \in Topic, RemoveUnsubscribe(t)
        PROVE  TypeOK'
    <3>1. Begins(t, {}) /\ {} \in SUBSET Topic
      BY <2>3 DEF RemoveUnsubscribe
    <3>2. m_subscriptions' \subseteq Topic /\ sockSubs' \in [Topic -> Nat]
      BY <2>3 DEF RemoveUnsubscribe, SockUnsubscribe
    <3>3. QED
      BY <2>1, <3>1, <3>2
  <2>4. CASE CommandThrows
    BY <2>4 DEF CommandThrows, Phase
  <2>5. QED
    BY <1>3, <2>2, <2>3, <2>4 DEF Command
<1>4. CASE ChangeTable
  <2>1. cmd[1] \in Topic /\ cmd[2] \in SUBSET Topic
    BY <1>4 DEF ChangeTable
  <2>2. m_conversionMap' \in [Topic -> SUBSET Topic]
    <3>1. m_conversionMap' = [m_conversionMap EXCEPT ![cmd[1]] = cmd[2]]
      BY <1>4 DEF ChangeTable
    <3>2. m_conversionMap \in [Topic -> SUBSET Topic]
      OBVIOUS
    <3>3. QED
      BY ONLY <2>1, <3>1, <3>2
  <2>3. UNCHANGED <<subVars, lifeVars, ncmd, threadVars, inVars, fateVars>>
    BY <1>4 DEF ChangeTable
  <2>4. mutex' = "none" /\ cmd' = <<>>
    BY <1>4 DEF ChangeTable
  <2>5. QED
    BY <2>2, <2>3, <2>4
<1>5. ASSUME NEW w \in Thread, NEW t \in Topic, Arrives(w, t)
      PROVE  TypeOK'
  <2>1. nmsg' \in Msg
    <3>1. nmsg' = nmsg + 1 /\ nmsg < MaxMsg
      BY <1>5 DEF Arrives
    <3>2. nmsg \in Msg \cup {0}
      OBVIOUS
    <3>3. QED
      BY ONLY <3>1, <3>2, BoundAssumption DEF Msg
  <2>2. Append(queue[w], nmsg') \in Seq(Msg)
    BY <2>1, AppendProperties
  <2>3. Effective(t) \in SUBSET Topic
    BY DEF Effective
  <2>4. queue' \in [Thread -> Seq(Msg)]
    BY <1>5, <2>2 DEF Arrives
  <2>5. versions' \in [Msg -> SUBSET SUBSET Topic]
    BY <1>5, <2>1, <2>3 DEF Arrives
  <2>6. /\ topic' \in [Msg -> Topic]
        /\ outcome' \in [Msg -> {"none", "waiting", "converted", "dropped", "cut"}]
    BY <1>5, <2>1 DEF Arrives
  <2>7. UNCHANGED <<m_conversionMap, mutex, subVars, lifeVars, cmdVars, threadVars, out>>
    BY <1>5 DEF Arrives
  <2>8. QED
    BY <2>1, <2>4, <2>5, <2>6, <2>7
<1>6. CASE SubSetup
  <2>1. pc' \in [Thread -> PC]
    BY <1>6 DEF SubSetup, Goes, PC
  <2>2. sockSubs' \in [Topic -> Nat] /\ setupOk' \in BOOLEAN
    <3>1. \A t \in Topic : sockSubs[t] \in Nat /\ sockSubs[t] + 1 \in Nat
      OBVIOUS
    <3>2. CASE UNCHANGED <<setupOk, sockSubs>>
      BY <3>2
    <3>3. CASE /\ setupOk' = TRUE
               /\ sockSubs' = [t \in Topic |-> IF t \in SubTopics THEN sockSubs[t] + 1
                                               ELSE sockSubs[t]]
      <4>1. \A t \in Topic :
              (IF t \in SubTopics THEN sockSubs[t] + 1 ELSE sockSubs[t]) \in Nat
        BY <3>1
      <4>2. QED
        BY ONLY <3>3, <4>1
    <3>4. QED
      BY <1>6, <3>2, <3>3 DEF SubSetup
  <2>3. UNCHANGED <<m_conversionMap, mutex, m_subscriptions, lifeVars, cmdVars, hand, todo,
                    inVars, fateVars>>
    BY <1>6 DEF SubSetup
  <2>4. QED
    BY <2>1, <2>2, <2>3
<1>7. ASSUME NEW w \in Thread, Test(w) \/ Timeout(w) \/ Breaks(w) PROVE TypeOK'
  <2>1. pc' \in [Thread -> PC]
    BY <1>7 DEF Test, Timeout, Breaks, Goes, PC
  <2>2. UNCHANGED <<m_conversionMap, mutex, subVars, lifeVars, cmdVars, hand, todo,
                    inVars, fateVars>>
    BY <1>7 DEF Test, Timeout, Breaks
  <2>3. QED
    BY <2>1, <2>2
<1>8. ASSUME NEW w \in Thread,
             Receive(w) \/ ReceiveBase(w) \/ ReceiveUnconstructed(w)
      PROVE  TypeOK'
  <2>1. Head(queue[w]) \in Msg /\ Tail(queue[w]) \in Seq(Msg)
    BY <1>8, HeadTail DEF Receive, ReceiveBase, ReceiveUnconstructed, Takes
  <2>2. /\ queue' \in [Thread -> Seq(Msg)] /\ hand' \in [Thread -> Msg \cup {0}]
        /\ outcome' \in [Msg -> {"none", "waiting", "converted", "dropped", "cut"}]
        /\ pc' \in [Thread -> PC] /\ phase' \in Phase
    <3>1. CASE Receive(w)
      BY <2>1, <3>1 DEF Receive, Takes, Goes, PC
    <3>2. CASE ReceiveBase(w)
      BY <2>1, <3>2 DEF ReceiveBase, Takes, Goes, PC
    <3>3. CASE ReceiveUnconstructed(w)
      BY <2>1, <3>3 DEF ReceiveUnconstructed, Takes, Goes, PC, Phase
    <3>4. QED
      BY <1>8, <3>1, <3>2, <3>3
  <2>3. UNCHANGED <<m_conversionMap, mutex, subVars, m_shutdown, publisher, cmdVars,
                    todo, nmsg, topic, out, versions>>
    BY <1>8 DEF Receive, ReceiveBase, ReceiveUnconstructed, Takes
  <2>4. QED
    BY <2>2, <2>3
<1>9. ASSUME NEW w \in Thread, NEW how \in {"converted", "dropped", "cut"},
             NEW next \in {"test", "ended"}, Finishes(w, how, next)
      PROVE  TypeOK'
  <2>1. /\ pc' \in [Thread -> PC] /\ hand' \in [Thread -> Msg \cup {0}]
        /\ todo' \in [Thread -> SUBSET Topic] /\ mutex' = "none"
    BY <1>9 DEF Finishes, Goes, PC
  <2>2. outcome' \in [Msg -> {"none", "waiting", "converted", "dropped", "cut"}]
    BY <1>9 DEF Finishes
  <2>3. UNCHANGED <<m_conversionMap, subVars, lifeVars, cmdVars, inVars, out, versions>>
    BY <1>9 DEF Finishes
  <2>4. QED
    BY <2>1, <2>2, <2>3
<1>10. ASSUME NEW w \in Thread, HasConversion(w) PROVE TypeOK'
  <2>1. Found(w) \in SUBSET Topic
    BY <1>10 DEF HasConversion, Found, HandInv
  <2>2. /\ pc' \in [Thread -> PC] /\ todo' \in [Thread -> SUBSET Topic] /\ mutex' = w
    BY <1>10, <2>1 DEF HasConversion, LocksThread, Goes, PC
  <2>3. QED
    BY <1>10, <2>2 DEF HasConversion
<1>11. ASSUME NEW w \in Thread, LookupCrashes(w) PROVE TypeOK'
  BY <1>11 DEF LookupCrashes, Phase
<1>12. ASSUME NEW w \in Thread, NEW t \in Topic, PublishOne(w, t) PROVE TypeOK'
  <2>1. out' \in [Msg -> SUBSET Topic] /\ todo' \in [Thread -> SUBSET Topic]
    <3>1. /\ out' = [out EXCEPT ![hand[w]] = @ \cup {t}]
          /\ todo' = [todo EXCEPT ![w] = @ \ {t}]
      BY <1>12 DEF PublishOne
    <3>2. out \in [Msg -> SUBSET Topic] /\ todo \in [Thread -> SUBSET Topic]
      OBVIOUS
    <3>3. t \in Topic
      OBVIOUS
    <3>4. QED
      BY ONLY <3>1, <3>2, <3>3
  <2>2. UNCHANGED <<m_conversionMap, mutex, subVars, lifeVars, cmdVars, pc, hand,
                    inVars, outcome, versions>>
    BY <1>12 DEF PublishOne
  <2>3. QED
    BY <2>1, <2>2
<1>13. CASE UNCHANGED vars
  BY <1>13 DEF vars
<1>14. QED
  BY <1>1, <1>2, <1>3, <1>4, <1>5, <1>6, <1>7, <1>8, <1>9, <1>10, <1>11, <1>12,
     <1>13 DEF Next, Done, ArrivesSub, ArrivesRcv, Run, NoConversion,
     LookupDestroyed, PublishEnds, PublishThrows

-----------------------------------------------------------------------------
(***************************************************************************)
(* The mutex, the subscriptions, and what a thread has in hand.            *)
(***************************************************************************)

(* A command throws, or takes its first step.                              *)
LEMMA CommandSteps ==
  ASSUME Command
  PROVE  CommandThrows \/ \E t \in Topic, ts \in SUBSET Topic : Begins(t, ts)
  BY DEF Command, AddSubscribe, RemoveUnsubscribe

(* The end of a message's handling, by whichever of the four ways.         *)
LEMMA EndOfHandling ==
  ASSUME NEW w \in Thread,
         NoConversion(w) \/ LookupDestroyed(w) \/ PublishEnds(w) \/ PublishThrows(w)
  PROVE  /\ (pc[w] = "got" /\ MutexFree) \/ pc[w] = "publishing"
         /\ \E how \in {"converted", "dropped", "cut"}, next \in {"test", "ended"} :
              Finishes(w, how, next)
  BY DEF NoConversion, LookupDestroyed, PublishEnds, PublishThrows

(* Every step keeps LockInv: the mutex is taken where it is free, and      *)
(* given back at the end of the critical section.                          *)
LEMMA LockStep == IInv /\ [Next]_vars => LockInv'
<1> SUFFICES ASSUME IInv, [Next]_vars PROVE LockInv'
  OBVIOUS
<1>0. TypeOK /\ LockInv
  BY DEF IInv
<1> USE <1>0 DEF LockInv, TypeOK, subVars, lifeVars, cmdVars, threadVars, inVars, fateVars
<1>1. CASE StartReceiver
  BY <1>1 DEF StartReceiver
<1>2. CASE Constructed \/ Quit \/ Destructor
  BY <1>2 DEF Constructed, Quit, Destructor, StopSubscriber, ClosePublisher,
              StopReceiver, JoinReceiver, Moves
<1>3. ASSUME NEW t \in Topic, NEW ts \in SUBSET Topic, Begins(t, ts)
      PROVE  LockInv'
  <2>1. cmd' # <<>>
    BY <1>3 DEF Begins
  <2>2. QED
    BY <1>3, <2>1 DEF Begins, LocksMain, MutexFree
<1>4. CASE ChangeTable
  BY <1>4 DEF ChangeTable
<1>5. ASSUME NEW w \in Thread, NEW t \in Topic, Arrives(w, t)
      PROVE  LockInv'
  BY <1>5 DEF Arrives
<1>6. CASE SubSetup
  BY <1>6 DEF SubSetup, Goes
<1>7. ASSUME NEW w \in Thread, Test(w) \/ Timeout(w) \/ Breaks(w) PROVE LockInv'
  BY <1>7 DEF Test, Timeout, Breaks, Goes
<1>8. ASSUME NEW w \in Thread,
             Receive(w) \/ ReceiveBase(w) \/ ReceiveUnconstructed(w)
      PROVE  LockInv'
  <2>1. pc[w] = "poll" /\ UNCHANGED <<mutex, cmdVars>>
    BY <1>8 DEF Receive, ReceiveBase, ReceiveUnconstructed, Takes
  <2>2. UNCHANGED pc \/ \E next \in {"got", "test", "hung"} : pc' = [pc EXCEPT ![w] = next]
    BY <1>8 DEF Receive, ReceiveBase, ReceiveUnconstructed, Goes
  <2>3. QED
    BY <2>1, <2>2
<1>9. ASSUME NEW w \in Thread, NoConversion(w) \/ LookupDestroyed(w)
                               \/ PublishEnds(w) \/ PublishThrows(w)
      PROVE  LockInv'
  BY <1>9, EndOfHandling DEF Finishes, Goes, MutexFree
<1>10. ASSUME NEW w \in Thread, HasConversion(w) PROVE LockInv'
  BY <1>10 DEF HasConversion, LocksThread, Goes, MutexFree
<1>11. ASSUME CommandThrows \/ \E w \in Thread : LookupCrashes(w)
       PROVE  LockInv'
  BY <1>11 DEF CommandThrows, LookupCrashes
<1>12. ASSUME NEW w \in Thread, NEW t \in Topic, PublishOne(w, t) PROVE LockInv'
  BY <1>12 DEF PublishOne
<1>13. CASE UNCHANGED vars
  BY <1>13 DEF vars
<1>14. QED
  BY <1>1, <1>2, <1>3, <1>4, <1>5, <1>6, <1>7, <1>8, <1>9, <1>10, <1>11, <1>12,
     <1>13, CommandSteps DEF Next, Done, ArrivesSub, ArrivesRcv, Run

(* Every step keeps SubscribedInv: a command adds to and takes from the    *)
(* list and the socket alike.                                              *)
LEMMA SubscribedStep == IInv /\ [Next]_vars => SubscribedInv'
<1> SUFFICES ASSUME IInv, [Next]_vars PROVE SubscribedInv'
  OBVIOUS
<1>0. TypeOK /\ SubscribedInv
  BY DEF IInv
<1> USE <1>0 DEF SubscribedInv, TypeOK, subVars, lifeVars, cmdVars, threadVars, inVars, fateVars
<1>1. CASE StartReceiver
  BY <1>1 DEF StartReceiver
<1>2. CASE Constructed \/ Quit \/ Destructor
  BY <1>2 DEF Constructed, Quit, Destructor, StopSubscriber, ClosePublisher,
              StopReceiver, JoinReceiver, Moves
<1>3. ASSUME NEW t \in Topic, NEW ts \in SUBSET Topic, AddSubscribe(t, ts)
      PROVE  SubscribedInv'
  BY <1>3 DEF AddSubscribe, Begins, SockSubscribe
<1>4. ASSUME NEW t \in Topic, RemoveUnsubscribe(t) PROVE SubscribedInv'
  BY <1>4 DEF RemoveUnsubscribe, Begins, SockUnsubscribe
<1>5. CASE ChangeTable
  BY <1>5 DEF ChangeTable
<1>6. ASSUME NEW w \in Thread, NEW t \in Topic, Arrives(w, t)
      PROVE  SubscribedInv'
  BY <1>6 DEF Arrives
<1>7. CASE SubSetup
  <2>1. CASE /\ setupOk' = TRUE
             /\ sockSubs' = [t \in Topic |-> IF t \in SubTopics THEN sockSubs[t] + 1
                                             ELSE sockSubs[t]]
    <3>1. /\ sockSubs' = [t \in Topic |-> IF t \in SubTopics THEN sockSubs[t] + 1
                                          ELSE sockSubs[t]]
          /\ m_subscriptions' = m_subscriptions
      BY <1>7, <2>1 DEF SubSetup
    <3>2. ASSUME NEW t \in m_subscriptions PROVE sockSubs'[t] > 0
      <4>1. t \in SubTopics \/ sockSubs[t] > 0
        OBVIOUS
      <4>2. sockSubs[t] \in Nat /\ t \in Topic
        OBVIOUS
      <4>3. QED
        BY ONLY <3>1, <4>1, <4>2
    <3>3. QED
      BY <3>1, <3>2
  <2>2. CASE UNCHANGED <<setupOk, sockSubs>>
    BY <1>7, <2>2 DEF SubSetup
  <2>3. QED
    BY <1>7, <2>1, <2>2 DEF SubSetup
<1>8. CASE CommandThrows
  BY <1>8 DEF CommandThrows
<1>9. ASSUME NEW w \in Thread, Test(w) \/ Timeout(w) \/ Breaks(w) PROVE SubscribedInv'
  BY <1>9 DEF Test, Timeout, Breaks
<1>10. ASSUME NEW w \in Thread,
             Receive(w) \/ ReceiveBase(w) \/ ReceiveUnconstructed(w)
      PROVE  SubscribedInv'
  BY <1>10 DEF Receive, ReceiveBase, ReceiveUnconstructed, Takes
<1>11. ASSUME NEW w \in Thread, NoConversion(w) \/ LookupDestroyed(w)
                               \/ PublishEnds(w) \/ PublishThrows(w)
      PROVE  SubscribedInv'
  BY <1>11, EndOfHandling DEF Finishes
<1>12. ASSUME NEW w \in Thread, HasConversion(w) PROVE SubscribedInv'
  BY <1>12 DEF HasConversion
<1>13. ASSUME NEW w \in Thread, LookupCrashes(w) PROVE SubscribedInv'
  BY <1>13 DEF LookupCrashes
<1>14. ASSUME NEW w \in Thread, NEW t \in Topic, PublishOne(w, t) PROVE SubscribedInv'
  BY <1>14 DEF PublishOne
<1>15. CASE UNCHANGED vars
  BY <1>15 DEF vars
<1>16. QED
  BY <1>1, <1>2, <1>3, <1>4, <1>5, <1>6, <1>7, <1>8, <1>9, <1>10, <1>11, <1>12,
     <1>13, <1>14, <1>15 DEF Next, Done, Command, ArrivesSub, ArrivesRcv, Run

-----------------------------------------------------------------------------
(***************************************************************************)
(* The messages: in a socket, in a thread's hand, or done with.            *)
(***************************************************************************)

(* What is in the sockets after a message was received from w's was there  *)
(* before, one place later in the same order.                              *)
LEMMA AfterReceive ==
  ASSUME TypeOK, NEW w \in Thread, Takes(w), NEW v \in Thread,
         NEW i \in 1 .. Len(queue'[v])
  PROVE  \E k \in 1 .. Len(queue[v]) :
           k = (IF v = w THEN i + 1 ELSE i) /\ queue'[v][i] = queue[v][k]
<1>1. CASE v = w
  <2>1. queue'[v] = Tail(queue[w]) /\ queue[w] # <<>>
    BY <1>1 DEF TypeOK, Takes
  <2>2. QED
    BY <1>1, <2>1, HeadTail
<1>2. CASE v # w
  <2>1. queue'[v] = queue[v]
    BY <1>2 DEF TypeOK, Takes
  <2>2. Len(queue[v]) \in Nat
    BY LenProperties DEF TypeOK
  <2>3. QED
    BY <1>2, <2>1, <2>2
<1>3. QED
  BY <1>1, <1>2

(* What is in the sockets after a message arrived in w's was there before, *)
(* or is the new message.                                                  *)
LEMMA AfterArrival ==
  ASSUME TypeOK, NEW w \in Thread, NEW t \in Topic, Arrives(w, t), NEW v \in Thread,
         NEW i \in 1 .. Len(queue'[v])
  PROVE  \/ /\ v = w /\ i = Len(queue[w]) + 1 /\ queue'[v][i] = nmsg + 1
         \/ /\ i \in 1 .. Len(queue[v]) /\ queue'[v][i] = queue[v][i]
<1>1. CASE v = w
  <2>0. nmsg' = nmsg + 1 /\ nmsg < MaxMsg /\ nmsg \in Msg \cup {0}
    BY DEF TypeOK, Arrives
  <2>1. nmsg' \in Msg /\ queue[w] \in Seq(Msg) /\ nmsg' = nmsg + 1
    <3>1. nmsg' \in Msg
      BY <2>0
    <3>2. queue[w] \in Seq(Msg)
      BY DEF TypeOK
    <3>3. QED
      BY <2>0, <3>1, <3>2
  <2>2. queue'[v] = Append(queue[w], nmsg')
    BY <1>1 DEF TypeOK, Arrives
  <2>3. Len(queue[w]) \in Nat
    BY <2>1, LenProperties
  <2>4. /\ Len(queue'[v]) = Len(queue[w]) + 1
        /\ \A j \in 1 .. Len(queue[w]) : queue'[v][j] = queue[w][j]
        /\ queue'[v][Len(queue[w]) + 1] = nmsg'
    BY <2>1, <2>2, AppendProperties
  <2>5. QED
    BY <1>1, <2>1, <2>3, <2>4
<1>2. CASE v # w
  <2>1. queue'[v] = queue[v]
    BY <1>2 DEF TypeOK, Arrives
  <2>2. QED
    BY <2>1
<1>3. QED
  BY <1>1, <1>2

(* The numbers that lie in a socket are messages.                          *)
LEMMA InQueue ==
  ASSUME TypeOK, NEW v \in Thread
  PROVE  Len(queue[v]) \in Nat /\ \A i \in 1 .. Len(queue[v]) : queue[v][i] \in Msg
<1>1. queue[v] \in Seq(Msg)
  BY DEF TypeOK
<1>2. Len(queue[v]) \in Nat /\ queue[v] \in [1 .. Len(queue[v]) -> Msg]
  BY <1>1, LenProperties
<1>3. QED
  BY <1>2

(* The message about to be received.                                       *)
LEMMA HeadOfQueue ==
  ASSUME IInv, NEW w \in Thread, queue[w] # <<>>
  PROVE  /\ Head(queue[w]) \in Msg /\ Head(queue[w]) <= nmsg
         /\ Waiting(Head(queue[w]))
         /\ \A v \in Thread : hand[v] # Head(queue[w])
         /\ \A v \in Thread : \A i \in 1 .. Len(queue[v]) :
              queue[v][i] = Head(queue[w]) => v = w /\ i = 1
         /\ \A i \in 2 .. Len(queue[w]) : Head(queue[w]) < queue[w][i]
<1>1. /\ Len(queue[w]) \in Nat /\ Len(queue[w]) >= 1
      /\ Head(queue[w]) = queue[w][1] /\ Head(queue[w]) \in Msg
  BY HeadTail DEF IInv
<1>2. 1 \in 1 .. Len(queue[w])
  BY <1>1
<1>3. /\ queue[w][1] <= nmsg /\ Waiting(queue[w][1]) /\ hand[w] < queue[w][1]
      /\ \A j \in 1 .. Len(queue[w]) : 1 < j => queue[w][1] < queue[w][j]
  BY <1>2 DEF IInv, QueueInv
<1>4. ASSUME NEW v \in Thread, v # w
      PROVE  /\ hand[v] # queue[w][1]
             /\ \A i \in 1 .. Len(queue[v]) : queue[v][i] # queue[w][1]
  BY <1>2, <1>4 DEF IInv, ApartInv
<1>5. hand[w] # queue[w][1]
  BY <1>1, <1>3 DEF IInv, TypeOK
<1>6. \A i \in 1 .. Len(queue[w]) : queue[w][i] = queue[w][1] => i = 1
  <2>1. \A i \in 1 .. Len(queue[w]) : queue[w][i] \in Msg
    BY InQueue DEF IInv
  <2>2. QED
    BY <1>1, <1>3, <2>1
<1>7. QED
  BY <1>1, <1>3, <1>4, <1>5, <1>6

(* Every step keeps HandInv.                                               *)
LEMMA HandStep == IInv /\ [Next]_vars => HandInv'
<1> SUFFICES ASSUME IInv, [Next]_vars PROVE HandInv'
  OBVIOUS
<1>0. TypeOK /\ HandInv /\ ApartInv
  BY DEF IInv
<1> USE <1>0 DEF HandInv, TypeOK, subVars, lifeVars, cmdVars, threadVars, inVars,
                 fateVars, Waiting
<1>1. CASE StartReceiver
  BY <1>1 DEF StartReceiver
<1>2. CASE Constructed \/ Quit \/ Destructor
  BY <1>2 DEF Constructed, Quit, Destructor, StopSubscriber, ClosePublisher,
              StopReceiver, JoinReceiver, Moves
<1>3. CASE Command
  BY <1>3 DEF Command, AddSubscribe, RemoveUnsubscribe, Begins, CommandThrows
<1>4. CASE ChangeTable
  BY <1>4 DEF ChangeTable
<1>5. ASSUME NEW w \in Thread, NEW t \in Topic, Arrives(w, t)
      PROVE  HandInv'
  BY <1>5 DEF Arrives
<1>6. CASE SubSetup
  BY <1>6 DEF SubSetup, Goes
<1>7. ASSUME NEW w \in Thread, Test(w) \/ Timeout(w) \/ Breaks(w) PROVE HandInv'
  BY <1>7 DEF Test, Timeout, Breaks, Goes
<1>8. ASSUME NEW w \in Thread,
             Receive(w) \/ ReceiveBase(w) \/ ReceiveUnconstructed(w)
      PROVE  HandInv'
  <2>1. /\ Head(queue[w]) \in Msg /\ Head(queue[w]) <= nmsg
        /\ outcome[Head(queue[w])] = "waiting"
        /\ \A v \in Thread : hand[v] # Head(queue[w])
    BY <1>8, HeadOfQueue DEF Receive, ReceiveBase, ReceiveUnconstructed, Takes
  <2>2. CASE Receive(w)
    BY <2>1, <2>2 DEF Receive, Takes, Goes
  <2>3. CASE ReceiveBase(w)
    BY <2>1, <2>3 DEF ReceiveBase, Takes, Goes
  <2>4. CASE ReceiveUnconstructed(w)
    BY <2>4 DEF ReceiveUnconstructed, Takes, Goes
  <2>5. QED
    BY <1>8, <2>2, <2>3, <2>4
<1>9. ASSUME NEW w \in Thread, NoConversion(w) \/ LookupDestroyed(w)
                               \/ PublishEnds(w) \/ PublishThrows(w)
      PROVE  HandInv'
  <2>1. \A v \in Thread : v # w /\ hand[v] # 0 => hand[v] # hand[w]
    BY DEF ApartInv
  <2>2. PICK how \in {"converted", "dropped", "cut"}, next \in {"test", "ended"} :
          Finishes(w, how, next)
    BY <1>9, EndOfHandling
  <2>3. QED
    BY <2>1, <2>2 DEF Finishes, Goes
<1>10. ASSUME NEW w \in Thread, HasConversion(w) PROVE HandInv'
  BY <1>10 DEF HasConversion, Goes
<1>11. ASSUME NEW w \in Thread, LookupCrashes(w) PROVE HandInv'
  BY <1>11 DEF LookupCrashes
<1>12. ASSUME NEW w \in Thread, NEW t \in Topic, PublishOne(w, t) PROVE HandInv'
  BY <1>12 DEF PublishOne
<1>13. CASE UNCHANGED vars
  BY <1>13 DEF vars
<1>14. QED
  BY <1>1, <1>2, <1>3, <1>4, <1>5, <1>6, <1>7, <1>8, <1>9, <1>10, <1>11, <1>12,
     <1>13 DEF Next, Done, ArrivesSub, ArrivesRcv, Run

(* A step in which no message changes its place is one of these:           *)
LEMMA MessageSteps ==
  ASSUME [Next]_vars
  PROVE  \/ UNCHANGED <<queue, nmsg, topic, outcome, hand>>
         \/ \E w \in Thread, t \in Topic : Arrives(w, t)
         \/ \E w \in Thread : Receive(w) \/ ReceiveBase(w) \/ ReceiveUnconstructed(w)
         \/ \E w \in Thread : NoConversion(w) \/ LookupDestroyed(w)
                              \/ PublishEnds(w) \/ PublishThrows(w)
<1> USE DEF subVars, lifeVars, cmdVars, threadVars, inVars, fateVars
<1>1. StartReceiver => UNCHANGED <<queue, nmsg, topic, outcome, hand>>
  BY DEF StartReceiver
<1>2. Constructed \/ Quit \/ Destructor => UNCHANGED <<queue, nmsg, topic, outcome, hand>>
  BY DEF Constructed, Quit, Destructor, StopSubscriber, ClosePublisher,
         StopReceiver, JoinReceiver, Moves
<1>3. Command => UNCHANGED <<queue, nmsg, topic, outcome, hand>>
  BY DEF Command, AddSubscribe, RemoveUnsubscribe, Begins, CommandThrows
<1>4. ChangeTable \/ SubSetup => UNCHANGED <<queue, nmsg, topic, outcome, hand>>
  BY DEF ChangeTable, SubSetup
<1>5. ASSUME NEW w \in Thread,
             Test(w) \/ Timeout(w) \/ Breaks(w) \/ HasConversion(w) \/ LookupCrashes(w)
      PROVE  UNCHANGED <<queue, nmsg, topic, outcome, hand>>
  BY <1>5 DEF Test, Timeout, Breaks, HasConversion, LookupCrashes
<1>6. ASSUME NEW w \in Thread, NEW t \in Topic, PublishOne(w, t)
      PROVE  UNCHANGED <<queue, nmsg, topic, outcome, hand>>
  BY <1>6 DEF PublishOne
<1>7. UNCHANGED vars => UNCHANGED <<queue, nmsg, topic, outcome, hand>>
  BY DEF vars
<1>8. QED
  BY <1>1, <1>2, <1>3, <1>4, <1>5, <1>6, <1>7
  DEF Next, Done, ArrivesSub, ArrivesRcv, Run

(* Every step keeps QueueInv: messages arrive in the order of their        *)
(* numbers, and are received in it.                                        *)
LEMMA QueueStep == IInv /\ [Next]_vars => QueueInv'
<1> SUFFICES ASSUME IInv, [Next]_vars PROVE QueueInv'
  OBVIOUS
<1>0. TypeOK /\ HandInv /\ QueueInv /\ ApartInv
  BY DEF IInv
<1>1. \A v \in Thread : /\ Len(queue[v]) \in Nat
                        /\ \A i \in 1 .. Len(queue[v]) : queue[v][i] \in Msg
  BY <1>0, InQueue
<1>2. CASE UNCHANGED <<queue, nmsg, topic, outcome, hand>>
  BY <1>0, <1>2 DEF QueueInv, Waiting
<1>3. ASSUME NEW w \in Thread, NEW t \in Topic, Arrives(w, t) PROVE QueueInv'
  <2>0. nmsg' = nmsg + 1 /\ nmsg < MaxMsg /\ nmsg \in Msg \cup {0}
    BY <1>0, <1>3 DEF TypeOK, Arrives
  <2>1. /\ nmsg' = nmsg + 1 /\ nmsg \in Nat /\ nmsg' \in Msg
        /\ outcome' = [outcome EXCEPT ![nmsg'] = "waiting"]
        /\ hand' = hand /\ hand \in [Thread -> Msg \cup {0}]
        /\ outcome \in [Msg -> {"none", "waiting", "converted", "dropped", "cut"}]
    <3>1. nmsg \in Nat /\ nmsg' \in Msg
      BY <2>0
    <3>2. QED
      BY <1>0, <1>3, <2>0, <3>1 DEF TypeOK, Arrives, threadVars
  <2>2. \A v \in Thread : hand[v] <= nmsg
    BY <1>0, <2>1 DEF HandInv
  <2>3. \A v \in Thread : \A i \in 1 .. Len(queue'[v]) :
          \/ v = w /\ i = Len(queue[w]) + 1 /\ queue'[v][i] = nmsg + 1
          \/ i \in 1 .. Len(queue[v]) /\ queue'[v][i] = queue[v][i]
    BY <1>0, <1>3, AfterArrival
  <2>4. ASSUME NEW v \in Thread, NEW i \in 1 .. Len(queue'[v])
        PROVE  /\ queue'[v][i] <= nmsg' /\ outcome'[queue'[v][i]] = "waiting"
               /\ hand'[v] < queue'[v][i]
    <3>1. CASE queue'[v][i] = nmsg + 1
      BY <2>1, <2>2, <3>1
    <3>2. CASE i \in 1 .. Len(queue[v]) /\ queue'[v][i] = queue[v][i]
      <4>1. /\ queue[v][i] \in Msg /\ queue[v][i] <= nmsg
            /\ outcome[queue[v][i]] = "waiting" /\ hand[v] < queue[v][i]
        BY <1>0, <1>1, <3>2 DEF QueueInv, Waiting
      <4>2. QED
        BY <2>1, <3>2, <4>1
    <3>3. QED
      BY <2>3, <3>1, <3>2
  <2>5. ASSUME NEW v \in Thread, NEW i \in 1 .. Len(queue'[v]),
               NEW j \in 1 .. Len(queue'[v]), i < j
        PROVE  queue'[v][i] < queue'[v][j]
    <3>1. i \in 1 .. Len(queue[v]) /\ queue'[v][i] = queue[v][i]
      <4>1. CASE v = w /\ i = Len(queue[w]) + 1
        <5>1. \/ j = Len(queue[w]) + 1
              \/ j \in 1 .. Len(queue[v])
          BY <2>3
        <5>2. j \in Int /\ i \in Int /\ Len(queue[w]) \in Nat
          BY <1>1, <4>1, <5>1
        <5>3. QED
          BY <2>5, <4>1, <5>1, <5>2
      <4>2. QED
        BY <2>3, <4>1
    <3>2. queue[v][i] \in Msg /\ queue[v][i] <= nmsg
      BY <1>0, <1>1, <3>1 DEF QueueInv
    <3>3. CASE queue'[v][j] = nmsg + 1
      BY <2>1, <3>1, <3>2, <3>3
    <3>4. CASE j \in 1 .. Len(queue[v]) /\ queue'[v][j] = queue[v][j]
      BY <1>0, <2>5, <3>1, <3>4 DEF QueueInv
    <3>5. QED
      BY <2>3, <3>3, <3>4
  <2>6. QED
    BY <2>4, <2>5 DEF QueueInv, Waiting
<1>4. ASSUME NEW w \in Thread,
             Receive(w) \/ ReceiveBase(w) \/ ReceiveUnconstructed(w)
      PROVE  QueueInv'
  <2>1. Takes(w) /\ queue[w] # <<>>
    BY <1>4 DEF Receive, ReceiveBase, ReceiveUnconstructed, Takes
  <2>2. /\ Head(queue[w]) \in Msg
        /\ \A v \in Thread : \A i \in 1 .. Len(queue[v]) :
             queue[v][i] = Head(queue[w]) => v = w /\ i = 1
        /\ \A i \in 2 .. Len(queue[w]) : Head(queue[w]) < queue[w][i]
    BY <2>1, HeadOfQueue
  <2>3. \A v \in Thread : \A i \in 1 .. Len(queue'[v]) :
          \E k \in 1 .. Len(queue[v]) :
            k = (IF v = w THEN i + 1 ELSE i) /\ queue'[v][i] = queue[v][k]
    BY <1>0, <2>1, AfterReceive
  <2>4. /\ nmsg' = nmsg
        /\ \A m \in Msg : m # Head(queue[w]) => outcome'[m] = outcome[m]
        /\ \A v \in Thread : hand'[v] = hand[v] \/ (v = w /\ hand'[v] = Head(queue[w]))
    BY <1>0, <1>4, <2>2 DEF TypeOK, Receive, ReceiveBase, ReceiveUnconstructed, Takes
  <2>5. ASSUME NEW v \in Thread, NEW i \in 1 .. Len(queue'[v])
        PROVE  queue'[v][i] <= nmsg' /\ outcome'[queue'[v][i]] = "waiting" /\ hand'[v] < queue'[v][i]
    <3>1. PICK k \in 1 .. Len(queue[v]) :
            k = (IF v = w THEN i + 1 ELSE i) /\ queue'[v][i] = queue[v][k]
      BY <2>3
    <3>2. v = w => k \in 2 .. Len(queue[w])
      BY <1>1, <3>1
    <3>3. queue[v][k] # Head(queue[w])
      BY <2>2, <3>1, <3>2
    <3>4. v = w => Head(queue[w]) < queue[v][k]
      BY <2>2, <3>2
    <3>5. queue[v][k] <= nmsg /\ Waiting(queue[v][k]) /\ hand[v] < queue[v][k]
      BY <1>0 DEF QueueInv
    <3>6. QED
      BY <1>1, <2>4, <3>1, <3>3, <3>4, <3>5 DEF Waiting
  <2>6. ASSUME NEW v \in Thread, NEW i \in 1 .. Len(queue'[v]),
               NEW j \in 1 .. Len(queue'[v]), i < j
        PROVE  queue'[v][i] < queue'[v][j]
    BY <1>0, <2>3, <2>6 DEF QueueInv
  <2>7. QED
    BY <2>5, <2>6 DEF QueueInv, Waiting
<1>5. ASSUME NEW w \in Thread, NoConversion(w) \/ LookupDestroyed(w)
                               \/ PublishEnds(w) \/ PublishThrows(w)
      PROVE  QueueInv'
  <2>1. PICK how \in {"converted", "dropped", "cut"}, next \in {"test", "ended"} :
          Finishes(w, how, next)
    BY <1>5, EndOfHandling
  <2>2. /\ queue' = queue /\ nmsg' = nmsg
        /\ outcome' = [outcome EXCEPT ![hand[w]] = how]
        /\ hand' = [hand EXCEPT ![w] = 0]
    BY <2>1 DEF Finishes, inVars
  <2>3. /\ hand \in [Thread -> Msg \cup {0}]
        /\ outcome \in [Msg -> {"none", "waiting", "converted", "dropped", "cut"}]
    BY <1>0 DEF TypeOK
  <2>4. ASSUME NEW v \in Thread, NEW i \in 1 .. Len(queue[v])
        PROVE  queue[v][i] # hand[w] /\ Waiting(queue[v][i])' /\ hand'[v] < queue[v][i]
    <3>1. queue[v][i] # hand[w]
      <4>1. CASE v = w
        <5>1. hand[w] < queue[w][i] /\ queue[w][i] \in Msg
          BY <1>0, <1>1, <4>1 DEF QueueInv
        <5>2. QED
          BY <2>3, <4>1, <5>1
      <4>2. CASE v # w
        BY <1>0, <4>2 DEF ApartInv
      <4>3. QED
        BY <4>1, <4>2
    <3>2. queue[v][i] \in Msg /\ outcome[queue[v][i]] = "waiting" /\ hand[v] < queue[v][i]
      BY <1>0, <1>1 DEF QueueInv, Waiting
    <3>3. QED
      BY <2>2, <2>3, <3>1, <3>2 DEF Waiting
  <2>5. QED
    BY <1>0, <2>2, <2>4 DEF QueueInv
<1>6. QED
  BY <1>2, <1>3, <1>4, <1>5, MessageSteps

(* Every step keeps ApartInv: a new message goes to one socket, and the    *)
(* thread that received a message is the only one to have it.              *)
LEMMA ApartStep == IInv /\ [Next]_vars => ApartInv'
<1> SUFFICES ASSUME IInv, [Next]_vars PROVE ApartInv'
  OBVIOUS
<1>0. TypeOK /\ HandInv /\ QueueInv /\ ApartInv
  BY DEF IInv
<1>1. \A v \in Thread : /\ Len(queue[v]) \in Nat
                        /\ \A i \in 1 .. Len(queue[v]) : queue[v][i] \in Msg
  BY <1>0, InQueue
<1>2. CASE UNCHANGED <<queue, nmsg, topic, outcome, hand>>
  BY <1>0, <1>2 DEF ApartInv
<1>3. ASSUME NEW w \in Thread, NEW t \in Topic, Arrives(w, t) PROVE ApartInv'
  <2>1. /\ nmsg' = nmsg + 1 /\ nmsg \in Nat
        /\ hand' = hand /\ hand \in [Thread -> Msg \cup {0}]
    BY <1>0, <1>3 DEF TypeOK, Arrives, threadVars
  <2>2. \A v \in Thread : hand[v] <= nmsg
    BY <1>0, <2>1 DEF HandInv
  <2>3. \A v \in Thread : \A i \in 1 .. Len(queue'[v]) :
          \/ v = w /\ i = Len(queue[w]) + 1 /\ queue'[v][i] = nmsg + 1
          \/ i \in 1 .. Len(queue[v]) /\ queue'[v][i] = queue[v][i]
    BY <1>0, <1>3, AfterArrival
  <2>4. \A v \in Thread : \A i \in 1 .. Len(queue[v]) : queue[v][i] <= nmsg
    BY <1>0 DEF QueueInv
  <2>5. ASSUME NEW u \in Thread, NEW v \in Thread, u # v, NEW i \in 1 .. Len(queue'[u])
        PROVE  /\ queue'[u][i] # hand'[v]
               /\ \A j \in 1 .. Len(queue'[v]) : queue'[u][i] # queue'[v][j]
    <3>1. /\ hand'[v] = hand[v] /\ hand[v] <= nmsg /\ hand[v] \in Int
          /\ \A x \in Thread : \A k \in 1 .. Len(queue[x]) :
               queue[x][k] <= nmsg /\ queue[x][k] \in Int
      <4>1. hand'[v] = hand[v] /\ hand[v] <= nmsg /\ hand[v] \in Int
        BY <2>1, <2>2
      <4>2. \A x \in Thread : \A k \in 1 .. Len(queue[x]) :
              queue[x][k] <= nmsg /\ queue[x][k] \in Int
        BY <1>1, <2>4
      <4>3. QED
        BY <4>1, <4>2
    <3>2. CASE queue'[u][i] = nmsg + 1 /\ u = w
      <4>1. queue'[u][i] # hand'[v]
        BY <2>1, <3>1, <3>2
      <4>2. ASSUME NEW j \in 1 .. Len(queue'[v]) PROVE queue'[u][i] # queue'[v][j]
        <5>1. j \in 1 .. Len(queue[v]) /\ queue'[v][j] = queue[v][j]
          BY <2>3, <2>5, <3>2
        <5>2. QED
          BY <2>1, <3>1, <3>2, <5>1
      <4>3. QED
        BY <4>1, <4>2
    <3>3. CASE i \in 1 .. Len(queue[u]) /\ queue'[u][i] = queue[u][i]
      <4>1. queue'[u][i] # hand'[v]
        BY <1>0, <2>5, <3>1, <3>3 DEF ApartInv
      <4>2. ASSUME NEW j \in 1 .. Len(queue'[v]) PROVE queue'[u][i] # queue'[v][j]
        <5>1. CASE queue'[v][j] = nmsg + 1
          BY <2>1, <3>1, <3>3, <5>1
        <5>2. CASE j \in 1 .. Len(queue[v]) /\ queue'[v][j] = queue[v][j]
          BY <1>0, <2>5, <3>3, <5>2 DEF ApartInv
        <5>3. QED
          BY <2>3, <5>1, <5>2
      <4>3. QED
        BY <4>1, <4>2
    <3>4. QED
      BY <2>3, <3>2, <3>3
  <2>6. QED
    BY <1>0, <2>1, <2>5 DEF ApartInv
<1>4. ASSUME NEW w \in Thread,
             Receive(w) \/ ReceiveBase(w) \/ ReceiveUnconstructed(w)
      PROVE  ApartInv'
  <2>1. Takes(w) /\ queue[w] # <<>>
    BY <1>4 DEF Receive, ReceiveBase, ReceiveUnconstructed, Takes
  <2>2. /\ Head(queue[w]) \in Msg
        /\ \A v \in Thread : hand[v] # Head(queue[w])
        /\ \A v \in Thread : \A i \in 1 .. Len(queue[v]) :
             queue[v][i] = Head(queue[w]) => v = w /\ i = 1
    BY <2>1, HeadOfQueue
  <2>3. \A v \in Thread : \A i \in 1 .. Len(queue'[v]) :
          \E k \in 1 .. Len(queue[v]) :
            k = (IF v = w THEN i + 1 ELSE i) /\ queue'[v][i] = queue[v][k]
    BY <1>0, <2>1, AfterReceive
  <2>4. \A v \in Thread : hand'[v] = hand[v] \/ (v = w /\ hand'[v] = Head(queue[w]))
    BY <1>0, <1>4, <2>2 DEF TypeOK, Receive, ReceiveBase, ReceiveUnconstructed, Takes
  <2>5. ASSUME NEW u \in Thread, NEW v \in Thread, u # v
        PROVE  hand'[u] = hand'[v] => hand'[u] = 0
    BY <1>0, <2>2, <2>4, <2>5 DEF ApartInv
  <2>6. ASSUME NEW u \in Thread, NEW v \in Thread, u # v, NEW i \in 1 .. Len(queue'[u])
        PROVE  /\ queue'[u][i] # hand'[v]
               /\ \A j \in 1 .. Len(queue'[v]) : queue'[u][i] # queue'[v][j]
    <3>1. PICK k \in 1 .. Len(queue[u]) :
            k = (IF u = w THEN i + 1 ELSE i) /\ queue'[u][i] = queue[u][k]
      BY <2>3
    <3>2. queue[u][k] # hand'[v]
      <4>1. queue[u][k] # hand[v]
        BY <1>0, <2>6 DEF ApartInv
      <4>2. v = w => queue[u][k] # Head(queue[w])
        BY <2>2, <2>6
      <4>3. QED
        BY <2>4, <4>1, <4>2
    <3>3. ASSUME NEW j \in 1 .. Len(queue'[v]) PROVE queue[u][k] # queue'[v][j]
      <4>1. PICK l \in 1 .. Len(queue[v]) : queue'[v][j] = queue[v][l]
        BY <2>3
      <4>2. QED
        BY <1>0, <2>6, <4>1 DEF ApartInv
    <3>4. QED
      BY <3>1, <3>2, <3>3
  <2>7. QED
    BY <2>5, <2>6 DEF ApartInv
<1>5. ASSUME NEW w \in Thread, NoConversion(w) \/ LookupDestroyed(w)
                               \/ PublishEnds(w) \/ PublishThrows(w)
      PROVE  ApartInv'
  <2>1. /\ queue' = queue /\ hand' = [hand EXCEPT ![w] = 0]
        /\ hand \in [Thread -> Msg \cup {0}]
    BY <1>0, <1>5, EndOfHandling DEF TypeOK, Finishes, inVars
  <2>2. QED
    BY <1>0, <1>1, <2>1 DEF ApartInv
<1>6. QED
  BY <1>2, <1>3, <1>4, <1>5, MessageSteps

-----------------------------------------------------------------------------
(***************************************************************************)
(* What a message is published on.                                         *)
(***************************************************************************)

(* Every step keeps RouteInv: the table a thread reads under the mutex is  *)
(* the one in force, because a command holds the mutex from its first step *)
(* to its second.                                                          *)
LEMMA RouteStep == IInv /\ [Next]_vars => RouteInv'
<1> SUFFICES ASSUME IInv, [Next]_vars PROVE RouteInv'
  OBVIOUS
<1>0. TypeOK /\ LockInv /\ HandInv /\ ApartInv /\ RouteInv
  BY DEF IInv
<1> USE DEF subVars, lifeVars, cmdVars, threadVars, inVars, fateVars
<1>1. ASSUME UNCHANGED <<m_conversionMap, cmd, nmsg, topic, out, versions>>,
             UNCHANGED outcome, UNCHANGED hand, UNCHANGED todo,
             \A w \in Thread : pc'[w] = "publishing" <=> pc[w] = "publishing"
      PROVE  RouteInv'
  BY <1>0, <1>1 DEF RouteInv, Effective, Waiting
<1>2. CASE StartReceiver
  BY <1>0, <1>1, <1>2 DEF StartReceiver, TypeOK
<1>3. CASE Constructed \/ Quit \/ Destructor
  BY <1>1, <1>3 DEF Constructed, Quit, Destructor, StopSubscriber, ClosePublisher,
              StopReceiver, JoinReceiver, Moves
<1>4. ASSUME NEW t \in Topic, NEW ts \in SUBSET Topic, Begins(t, ts)
      PROVE  RouteInv'
  <2>1. cmd = <<>> /\ \A w \in Thread : pc[w] # "publishing"
    BY <1>0, <1>4 DEF Begins, MayCommand, LocksMain, MutexFree, LockInv
  <2>2. /\ UNCHANGED <<m_conversionMap, nmsg, topic, out, outcome, pc>>
        /\ cmd' = <<t, ts>>
        /\ \A m \in Msg : versions'[m] = IF Waiting(m) /\ topic[m] = t
                                         THEN versions[m] \cup {ts} ELSE versions[m]
    BY <1>4 DEF Begins
  <2>3. ASSUME NEW m \in Msg, Waiting(m)
        PROVE  Effective(topic[m])' \in versions'[m]
    <3>1. CASE topic[m] = t
      BY <2>2, <2>3, <3>1 DEF Effective
    <3>2. CASE topic[m] # t
      <4>1. Effective(topic[m])' = m_conversionMap[topic[m]]
        BY <2>2, <3>2 DEF Effective
      <4>2. Effective(topic[m]) = m_conversionMap[topic[m]]
        BY <2>1 DEF Effective
      <4>3. QED
        <5>1. Effective(topic[m]) \in versions[m]
          BY <1>0, <2>3 DEF RouteInv
        <5>2. versions'[m] = versions[m]
          BY <2>2, <3>2
        <5>3. QED
          BY <4>1, <4>2, <5>1, <5>2
    <3>3. QED
      BY <3>1, <3>2
  <2>4. QED
    BY <1>0, <2>1, <2>2, <2>3 DEF RouteInv, Waiting
<1>5. CASE ChangeTable
  <2>1. /\ UNCHANGED <<nmsg, topic, out, outcome, pc, hand, todo, versions>>
        /\ cmd # <<>> /\ cmd' = <<>> /\ cmd \in Topic \X SUBSET Topic
        /\ m_conversionMap' = [m_conversionMap EXCEPT ![cmd[1]] = cmd[2]]
        /\ m_conversionMap \in [Topic -> SUBSET Topic]
    BY <1>0, <1>5 DEF ChangeTable, TypeOK
  <2>2. \A t \in Topic : Effective(t)' = Effective(t)
    BY <2>1 DEF Effective
  <2>3. \A m \in Msg : topic[m] \in Topic
    BY <1>0 DEF TypeOK
  <2>4. \A m \in Msg : Effective(topic[m])' = Effective(topic[m])
    BY <2>1, <2>2, <2>3
  <2>5. QED
    BY <1>0, <2>1, <2>4 DEF RouteInv, Waiting
<1>6. ASSUME NEW w \in Thread, NEW t \in Topic, Arrives(w, t)
      PROVE  RouteInv'
  <2>0. nmsg' = nmsg + 1 /\ nmsg < MaxMsg /\ nmsg \in Msg \cup {0}
    BY <1>0, <1>6 DEF TypeOK, Arrives
  <2>1. nmsg \in Nat /\ nmsg' \in Msg
    BY <2>0
  <2>2. /\ UNCHANGED <<m_conversionMap, cmd, out, pc, hand, todo>>
        /\ topic' = [topic EXCEPT ![nmsg'] = t]
        /\ outcome' = [outcome EXCEPT ![nmsg'] = "waiting"]
        /\ versions' = [versions EXCEPT ![nmsg'] = {Effective(t)}]
    BY <1>6 DEF Arrives
  <2>3. /\ hand \in [Thread -> Msg \cup {0}] /\ topic \in [Msg -> Topic]
        /\ outcome \in [Msg -> {"none", "waiting", "converted", "dropped", "cut"}]
        /\ versions \in [Msg -> SUBSET SUBSET Topic]
    BY <1>0 DEF TypeOK
  <2>4. \A u : Effective(u)' = Effective(u)
    BY <2>2 DEF Effective
  <2>5. \A w_1 \in Thread : pc[w_1] = "publishing" => hand[w_1] \in Msg /\ hand[w_1] # nmsg'
    BY <1>0, <2>0, <2>1, <2>3 DEF HandInv
  <2>6. ASSUME NEW m \in Msg
        PROVE  /\ m > nmsg' => outcome'[m] = "none" /\ out'[m] = {}
               /\ outcome'[m] = "waiting" => Effective(topic[m])' \in versions'[m]
               /\ m # nmsg' => outcome'[m] = outcome[m] /\ versions'[m] = versions[m]
    <3>1. CASE m = nmsg'
      BY <2>1, <2>2, <2>3, <2>4, <3>1
    <3>2. CASE m # nmsg'
      <4>1. outcome'[m] = outcome[m] /\ versions'[m] = versions[m] /\ topic'[m] = topic[m]
        BY <2>2, <2>3, <3>2
      <4>2. m > nmsg' => m > nmsg
        BY <2>0, <2>1
      <4>3. QED
        BY <1>0, <2>2, <2>4, <4>1, <4>2 DEF RouteInv, Waiting
    <3>3. QED
      BY <3>1, <3>2
  <2>7. out[nmsg'] = {}
    BY <1>0, <2>0, <2>1 DEF RouteInv
  <2>8. QED
    BY <1>0, <2>2, <2>5, <2>6, <2>7 DEF RouteInv, Waiting
<1>7. CASE SubSetup
  BY <1>0, <1>1, <1>7 DEF SubSetup, Goes, TypeOK
<1>8. ASSUME NEW w \in Thread, Test(w) \/ Timeout(w) \/ Breaks(w) PROVE RouteInv'
  BY <1>0, <1>1, <1>8 DEF Test, Timeout, Breaks, Goes, TypeOK
<1>9. ASSUME NEW w \in Thread,
             Receive(w) \/ ReceiveBase(w) \/ ReceiveUnconstructed(w)
      PROVE  RouteInv'
  <2>1. /\ Head(queue[w]) \in Msg /\ Head(queue[w]) <= nmsg
        /\ \A v \in Thread : hand[v] # Head(queue[w])
    BY <1>9, HeadOfQueue DEF Receive, ReceiveBase, ReceiveUnconstructed, Takes
  <2>2. /\ UNCHANGED <<m_conversionMap, cmd, todo, nmsg, topic, out, versions>>
        /\ pc[w] = "poll" /\ pc'[w] # "publishing"
        /\ \A v \in Thread : v # w => hand'[v] = hand[v] /\ pc'[v] = pc[v]
        /\ \A m \in Msg : outcome'[m] = outcome[m] \/ (m = Head(queue[w]) /\ outcome'[m] = "dropped")
    BY <1>0, <1>9 DEF Receive, ReceiveBase, ReceiveUnconstructed, Takes, Goes, TypeOK
  <2>3. \A t : Effective(t)' = Effective(t)
    BY <2>2 DEF Effective
  <2>4. nmsg \in Int /\ \A m \in Msg : m \in Int
    BY <1>0 DEF TypeOK
  <2>5. ASSUME NEW m \in Msg
        PROVE  /\ m > nmsg' => outcome'[m] = "none" /\ out'[m] = {}
               /\ outcome'[m] = "waiting" => outcome[m] = "waiting"
    BY <1>0, <2>1, <2>2, <2>4 DEF RouteInv
  <2>6. ASSUME NEW m \in Msg, outcome'[m] = "waiting"
        PROVE  Effective(topic[m])' \in versions'[m]
    <3>1. Effective(topic[m]) \in versions[m]
      BY <1>0, <2>5, <2>6 DEF RouteInv, Waiting
    <3>2. QED
      BY <2>2, <2>3, <3>1
  <2>7. ASSUME NEW v \in Thread, pc'[v] = "publishing"
        PROVE  v # w /\ pc[v] = "publishing" /\ hand'[v] = hand[v]
               /\ out'[hand'[v]] \cup todo'[v] \in versions'[hand'[v]]
    BY <1>0, <2>2, <2>7 DEF RouteInv
  <2>8. ASSUME NEW m \in Msg, outcome'[m] = "waiting",
               \A v \in Thread : pc'[v] = "publishing" => hand'[v] # m
        PROVE  out'[m] = {}
    <3>1. \A v \in Thread : pc[v] = "publishing" => hand[v] # m
      BY <2>2, <2>8
    <3>2. QED
      BY <1>0, <2>2, <2>5, <2>8, <3>1 DEF RouteInv, Waiting
  <2>9. QED
    BY <2>5, <2>6, <2>7, <2>8 DEF RouteInv, Waiting
<1>10. ASSUME NEW w \in Thread, NoConversion(w) \/ LookupDestroyed(w)
                                \/ PublishEnds(w) \/ PublishThrows(w)
       PROVE  RouteInv'
  <2>1. PICK how \in {"converted", "dropped", "cut"}, next \in {"test", "ended"} :
          Finishes(w, how, next)
    BY <1>10, EndOfHandling
  <2>2. hand[w] \in Msg /\ hand[w] <= nmsg /\ Waiting(hand[w])
    BY <1>0, <1>10, EndOfHandling DEF HandInv, TypeOK
  <2>3. /\ UNCHANGED <<m_conversionMap, cmd, nmsg, topic, out, versions>>
        /\ outcome' = [outcome EXCEPT ![hand[w]] = how]
        /\ \A v \in Thread : v # w => /\ hand'[v] = hand[v] /\ pc'[v] = pc[v]
                                      /\ todo'[v] = todo[v]
        /\ pc'[w] # "publishing"
    BY <1>0, <2>1 DEF Finishes, Goes, TypeOK
  <2>4. \A t : Effective(t)' = Effective(t)
    BY <2>3 DEF Effective
  <2>5. \A m \in Msg : /\ outcome'[m] = "waiting" => m # hand[w] /\ outcome[m] = "waiting"
                       /\ m > nmsg => outcome'[m] = outcome[m]
    BY <1>0, <2>2, <2>3 DEF TypeOK
  <2>6. ASSUME NEW m \in Msg, outcome'[m] = "waiting"
        PROVE  Effective(topic[m])' \in versions'[m]
    <3>1. Effective(topic[m]) \in versions[m]
      BY <1>0, <2>5, <2>6 DEF RouteInv, Waiting
    <3>2. QED
      BY <2>3, <2>4, <3>1
  <2>7. ASSUME NEW v \in Thread, pc'[v] = "publishing"
        PROVE  v # w /\ pc[v] = "publishing" /\ hand'[v] = hand[v]
               /\ out'[hand'[v]] \cup todo'[v] \in versions'[hand'[v]]
    BY <1>0, <2>3, <2>7 DEF RouteInv
  <2>8. ASSUME NEW m \in Msg, outcome'[m] = "waiting",
               \A v \in Thread : pc'[v] = "publishing" => hand'[v] # m
        PROVE  out'[m] = {}
    <3>1. \A v \in Thread : pc[v] = "publishing" => hand[v] # m
      BY <2>3, <2>5, <2>8
    <3>2. QED
      BY <1>0, <2>3, <2>5, <2>8, <3>1 DEF RouteInv, Waiting
  <2>9. ASSUME NEW m \in Msg, m > nmsg' PROVE outcome'[m] = "none" /\ out'[m] = {}
    BY <1>0, <2>3, <2>5, <2>9 DEF RouteInv
  <2>10. QED
    BY <2>6, <2>7, <2>8, <2>9 DEF RouteInv, Waiting
<1>11. ASSUME NEW w \in Thread, HasConversion(w) PROVE RouteInv'
  <2>1. hand[w] \in Msg /\ Waiting(hand[w])
    BY <1>0, <1>11 DEF HasConversion, HandInv, TypeOK
  <2>2. cmd = <<>> /\ \A v \in Thread : pc[v] # "publishing"
    BY <1>0, <1>11 DEF HasConversion, LocksThread, MutexFree, LockInv
  <2>3. /\ UNCHANGED <<m_conversionMap, cmd, nmsg, topic, out, outcome, versions, hand>>
        /\ todo'[w] = Found(w)
        /\ \A v \in Thread : v # w => pc'[v] = pc[v]
    BY <1>0, <1>11 DEF HasConversion, Goes, TypeOK
  <2>4. Effective(topic[hand[w]]) = Found(w)
    BY <2>2 DEF Effective, Found
  <2>5. Found(w) \in versions[hand[w]] /\ out[hand[w]] = {}
    BY <1>0, <2>1, <2>2, <2>4 DEF RouteInv
  <2>6. \A t : Effective(t)' = Effective(t)
    BY <2>3 DEF Effective
  <2>7. out'[hand'[w]] \cup todo'[w] \in versions'[hand'[w]]
    BY <2>3, <2>5
  <2>8. QED
    BY <1>0, <2>2, <2>3, <2>6, <2>7 DEF RouteInv, Waiting
<1>12. ASSUME CommandThrows \/ \E w \in Thread : LookupCrashes(w)
       PROVE  RouteInv'
  BY <1>1, <1>12 DEF CommandThrows, LookupCrashes
<1>13. ASSUME NEW w \in Thread, NEW t \in Topic, PublishOne(w, t) PROVE RouteInv'
  <2>1. /\ UNCHANGED <<m_conversionMap, cmd, nmsg, topic, outcome, versions, hand, pc>>
        /\ pc[w] = "publishing" /\ t \in todo[w]
        /\ out' = [out EXCEPT ![hand[w]] = @ \cup {t}]
        /\ todo' = [todo EXCEPT ![w] = @ \ {t}]
    BY <1>13 DEF PublishOne
  <2>2. hand[w] \in Msg /\ hand[w] <= nmsg
    BY <1>0, <2>1 DEF HandInv, TypeOK
  <2>3. \A v \in Thread : pc[v] = "publishing" => v = w
    BY <1>0, <2>1 DEF LockInv
  <2>4. out'[hand[w]] \cup todo'[w] = out[hand[w]] \cup todo[w]
    BY <1>0, <2>1, <2>2 DEF TypeOK
  <2>5. \A m \in Msg : m # hand[w] => out'[m] = out[m]
    BY <1>0, <2>1 DEF TypeOK
  <2>6. \A u : Effective(u)' = Effective(u)
    BY <2>1 DEF Effective
  <2>7. \A m \in Msg : m > nmsg => m # hand[w]
    BY <1>0, <2>2 DEF TypeOK
  <2>8. QED
    BY <1>0, <2>1, <2>3, <2>4, <2>5, <2>6, <2>7 DEF RouteInv, Waiting
<1>14. CASE UNCHANGED vars
  BY <1>1, <1>14 DEF vars
<1>15. QED
  BY <1>2, <1>3, <1>4, <1>5, <1>6, <1>7, <1>8, <1>9, <1>10, <1>11, <1>12,
     <1>13, <1>14, CommandSteps DEF Next, Done, ArrivesSub, ArrivesRcv, Run

(* Every step keeps RoutedAtomically: a message is done with when its      *)
(* thread has published all of the list it copied, or has found none; and  *)
(* of a message that is done with nothing is published any more.           *)
LEMMA RoutedStep == IInv /\ [Next]_vars => RoutedAtomically'
<1> SUFFICES ASSUME IInv, [Next]_vars, NEW m \in Msg, outcome'[m] = "converted"
             PROVE  out'[m] \in versions'[m]
  BY DEF RoutedAtomically
<1>0. TypeOK /\ LockInv /\ HandInv /\ RouteInv /\ RoutedAtomically
  BY DEF IInv
<1> USE DEF subVars, lifeVars, cmdVars, threadVars, inVars, fateVars
<1>1. ASSUME UNCHANGED <<out, outcome, versions>>
      PROVE  out'[m] \in versions'[m]
  BY <1>0, <1>1 DEF RoutedAtomically
<1>2. CASE StartReceiver
  BY <1>1, <1>2 DEF StartReceiver
<1>3. CASE Constructed \/ Quit \/ Destructor
  BY <1>1, <1>3 DEF Constructed, Quit, Destructor, StopSubscriber, ClosePublisher,
              StopReceiver, JoinReceiver, Moves
<1>4. ASSUME NEW t \in Topic, NEW ts \in SUBSET Topic, Begins(t, ts)
      PROVE  out'[m] \in versions'[m]
  <2>1. outcome[m] = "converted" /\ UNCHANGED out /\ versions'[m] = versions[m]
    BY <1>4 DEF Begins, Waiting
  <2>2. QED
    BY <1>0, <2>1 DEF RoutedAtomically
<1>5. CASE ChangeTable
  BY <1>1, <1>5 DEF ChangeTable
<1>6. ASSUME NEW w \in Thread, NEW t \in Topic, Arrives(w, t)
      PROVE  out'[m] \in versions'[m]
  <2>1. outcome[m] = "converted" /\ UNCHANGED out /\ versions'[m] = versions[m]
    BY <1>0, <1>6 DEF Arrives, TypeOK
  <2>2. QED
    BY <1>0, <2>1 DEF RoutedAtomically
<1>7. CASE SubSetup
  BY <1>1, <1>7 DEF SubSetup
<1>8. ASSUME NEW w \in Thread, Test(w) \/ Timeout(w) \/ Breaks(w) PROVE out'[m] \in versions'[m]
  BY <1>1, <1>8 DEF Test, Timeout, Breaks
<1>9. ASSUME NEW w \in Thread,
             Receive(w) \/ ReceiveBase(w) \/ ReceiveUnconstructed(w)
      PROVE  out'[m] \in versions'[m]
  <2>1. Head(queue[w]) \in Msg
    BY <1>9, HeadOfQueue DEF Receive, ReceiveBase, ReceiveUnconstructed, Takes
  <2>2. outcome[m] = "converted" /\ UNCHANGED <<out, versions>>
    BY <1>0, <1>9, <2>1 DEF Receive, ReceiveBase, ReceiveUnconstructed, Takes, TypeOK
  <2>3. QED
    BY <1>0, <2>2 DEF RoutedAtomically
<1>10. ASSUME NEW w \in Thread, NEW how \in {"converted", "dropped", "cut"},
              NEW next \in {"test", "ended"}, Finishes(w, how, next),
              hand[w] \in Msg,
              how = "converted" => out[hand[w]] \in versions[hand[w]]
       PROVE  out'[m] \in versions'[m]
  <2>1. /\ UNCHANGED <<out, versions>>
        /\ outcome' = [outcome EXCEPT ![hand[w]] = how]
    BY <1>10 DEF Finishes
  <2>2. CASE m = hand[w]
    BY <1>0, <1>10, <2>1, <2>2 DEF TypeOK
  <2>3. CASE m # hand[w]
    BY <1>0, <1>10, <2>1, <2>3 DEF TypeOK, RoutedAtomically
  <2>4. QED
    BY <2>2, <2>3
<1>11. ASSUME NEW w \in Thread, NoConversion(w)
       PROVE  out'[m] \in versions'[m]
  <2>1. hand[w] \in Msg /\ Waiting(hand[w])
    BY <1>0, <1>11 DEF NoConversion, HandInv, TypeOK
  <2>2. cmd = <<>> /\ \A v \in Thread : pc[v] # "publishing"
    BY <1>0, <1>11 DEF NoConversion, MutexFree, LockInv
  <2>3. Effective(topic[hand[w]]) = {}
    BY <1>11, <2>2 DEF NoConversion, Effective, Found
  <2>4. out[hand[w]] = {} /\ {} \in versions[hand[w]]
    BY <1>0, <2>1, <2>2, <2>3 DEF RouteInv
  <2>5. Finishes(w, "converted", "test") /\ out[hand[w]] \in versions[hand[w]]
    BY <1>11, <2>4 DEF NoConversion
  <2>6. QED
    BY <1>10, <2>1, <2>5
<1>12. ASSUME NEW w \in Thread, PublishEnds(w)
       PROVE  out'[m] \in versions'[m]
  <2>1. hand[w] \in Msg /\ Finishes(w, "converted", "test")
    BY <1>0, <1>12 DEF PublishEnds, HandInv, TypeOK
  <2>2. out[hand[w]] \cup todo[w] \in versions[hand[w]] /\ todo[w] = {}
    BY <1>0, <1>12 DEF PublishEnds, RouteInv
  <2>3. out[hand[w]] \cup todo[w] = out[hand[w]]
    BY <2>2
  <2>4. QED
    BY <1>10, <2>1, <2>2, <2>3
<1>13. ASSUME NEW w \in Thread, LookupDestroyed(w) \/ PublishThrows(w)
       PROVE  out'[m] \in versions'[m]
  <2>1. hand[w] \in Msg
    BY <1>0, <1>13 DEF LookupDestroyed, PublishThrows, HandInv, TypeOK
  <2>2. Finishes(w, "dropped", "test") \/ Finishes(w, "cut", "ended")
    BY <1>13 DEF LookupDestroyed, PublishThrows
  <2>3. QED
    BY <1>10, <2>1, <2>2
<1>14. ASSUME CommandThrows \/ \E w \in Thread : HasConversion(w) \/ LookupCrashes(w)
       PROVE  out'[m] \in versions'[m]
  BY <1>1, <1>14 DEF CommandThrows, HasConversion, LookupCrashes
<1>15. ASSUME NEW w \in Thread, NEW t \in Topic, PublishOne(w, t)
       PROVE  out'[m] \in versions'[m]
  <2>1. Waiting(hand[w]) /\ hand[w] \in Msg
    BY <1>0, <1>15 DEF PublishOne, HandInv, TypeOK
  <2>2. outcome[m] = "converted" /\ out'[m] = out[m] /\ versions'[m] = versions[m]
    BY <1>0, <1>15, <2>1 DEF PublishOne, TypeOK, Waiting
  <2>3. QED
    BY <1>0, <2>2 DEF RoutedAtomically
<1>16. CASE UNCHANGED vars
  BY <1>1, <1>16 DEF vars
<1>17. QED
  BY <1>2, <1>3, <1>4, <1>5, <1>6, <1>7, <1>8, <1>9, <1>11, <1>12, <1>13,
     <1>14, <1>15, <1>16, CommandSteps DEF Next, Done, ArrivesSub, ArrivesRcv, Run

(* Every step keeps CutInv: the subscriber is joined before the publisher  *)
(* is closed, and a receiver thread that finds it closed ends.             *)
LEMMA CutStep == IInv /\ [Next]_vars => CutInv'
<1> SUFFICES ASSUME IInv, [Next]_vars PROVE CutInv'
  OBVIOUS
<1>0. TypeOK /\ HandInv /\ CutInv
  BY DEF IInv
<1> USE DEF subVars, lifeVars, cmdVars, threadVars, inVars, fateVars
<1>1. ASSUME \A m \in Msg : outcome'[m] = "cut" => outcome[m] = "cut",
             UNCHANGED publisher, Over("sub") => Over("sub")',
             pc["rcv"] = "ended" => pc'["rcv"] = "ended"
      PROVE  CutInv'
  BY <1>0, <1>1 DEF CutInv
<1>2. CASE StartReceiver
  BY <1>0, <1>1, <1>2 DEF StartReceiver, TypeOK, Over
<1>3. CASE Constructed \/ Quit \/ StopSubscriber \/ StopReceiver \/ JoinReceiver
  BY <1>1, <1>3 DEF Constructed, Quit, StopSubscriber, StopReceiver, JoinReceiver,
                    Moves, Over
<1>4. CASE ClosePublisher
  BY <1>0, <1>4 DEF ClosePublisher, Moves, CutInv, Over
<1>5. CASE Command
  BY <1>1, <1>5 DEF Command, AddSubscribe, RemoveUnsubscribe, Begins, CommandThrows, Over
<1>6. CASE ChangeTable
  BY <1>1, <1>6 DEF ChangeTable, Over
<1>7. ASSUME NEW w \in Thread, NEW t \in Topic, Arrives(w, t)
      PROVE  CutInv'
  BY <1>0, <1>1, <1>7 DEF Arrives, TypeOK, Over
<1>8. CASE SubSetup
  BY <1>0, <1>1, <1>8 DEF SubSetup, Goes, TypeOK, Over
<1>9. ASSUME NEW w \in Thread, Test(w) \/ Timeout(w) \/ Breaks(w) PROVE CutInv'
  BY <1>0, <1>1, <1>9 DEF Test, Timeout, Breaks, Goes, TypeOK, Over
<1>10. ASSUME NEW w \in Thread,
             Receive(w) \/ ReceiveBase(w) \/ ReceiveUnconstructed(w)
      PROVE  CutInv'
  BY <1>0, <1>1, <1>10 DEF Receive, ReceiveBase, ReceiveUnconstructed, Takes, Goes, TypeOK, Over
<1>11. ASSUME NEW w \in Thread, NoConversion(w) \/ LookupDestroyed(w) \/ PublishEnds(w)
       PROVE  CutInv'
  BY <1>0, <1>1, <1>11 DEF NoConversion, LookupDestroyed, PublishEnds, Finishes, Goes, TypeOK, Over
<1>12. ASSUME NEW w \in Thread, HasConversion(w) \/ LookupCrashes(w) PROVE CutInv'
  BY <1>0, <1>1, <1>12 DEF HasConversion, LookupCrashes, Goes, TypeOK, Over
<1>13. ASSUME NEW w \in Thread, NEW t \in Topic, PublishOne(w, t) PROVE CutInv'
  BY <1>1, <1>13 DEF PublishOne, Over
<1>14. ASSUME NEW w \in Thread, PublishThrows(w) PROVE CutInv'
  <2>1. /\ pc[w] = "publishing" /\ publisher = "closed" /\ publisher' = "closed"
        /\ outcome' = [outcome EXCEPT ![hand[w]] = "cut"]
        /\ pc' = [pc EXCEPT ![w] = "ended"]
    BY <1>14 DEF PublishThrows, Finishes, Goes
  <2>2. w = "rcv" /\ Over("sub")
    BY <1>0, <2>1 DEF CutInv, Over
  <2>3. \A m \in Msg : outcome[m] # "cut"
    BY <1>0, <2>1, <2>2 DEF CutInv
  <2>4. Over("sub")' /\ pc'["rcv"] = "ended"
    BY <1>0, <2>1, <2>2 DEF TypeOK, Over
  <2>5. \A m \in Msg : outcome'[m] = "cut" => m = hand[w]
    BY <1>0, <2>1, <2>3 DEF TypeOK
  <2>6. QED
    BY <2>1, <2>4, <2>5 DEF CutInv
<1>15. CASE UNCHANGED vars
  BY <1>1, <1>15 DEF vars, Over
<1>16. QED
  BY <1>2, <1>3, <1>4, <1>5, <1>6, <1>7, <1>8, <1>9, <1>10, <1>11, <1>12,
     <1>13, <1>14, <1>15 DEF Next, Done, Destructor, ArrivesSub, ArrivesRcv, Run

-----------------------------------------------------------------------------
(***************************************************************************)
(* The theorems.                                                           *)
(***************************************************************************)

(* IInv holds in every state a conv-stack process can reach.               *)
LEMMA Invariance == Spec => []IInv
<1>1. IInv /\ [Next]_vars => IInv'
  BY TypeStep, LockStep, SubscribedStep, HandStep, QueueStep, ApartStep,
     RouteStep, RoutedStep, CutStep DEF IInv
<1>2. QED
  BY <1>1, InitLemma, PTL DEF Spec

(* Every variable of the process keeps its type.                           *)
THEOREM TypeCorrect == Spec => []TypeOK
<1>1. IInv => TypeOK
  BY DEF IInv
<1>2. QED
  BY <1>1, Invariance, PTL

(* A message is published on exactly the topics its topic was converted to *)
(* at one moment between its arrival and the end of its handling, however  *)
(* AddConversion and RemoveConversion interleave with onReceivedMessage.   *)
THEOREM AtomicRouting == Spec => []RoutedAtomically
<1>1. IInv => RoutedAtomically
  BY DEF IInv
<1>2. QED
  BY <1>1, Invariance, PTL

(* The subscriber and the receiver thread never use the PUB socket at the  *)
(* same time.                                                              *)
THEOREM OnePublisher == Spec => []PublisherOneAtATime
<1>1. IInv => PublisherOneAtATime
  BY DEF IInv, LockInv, PublisherOneAtATime
<1>2. QED
  BY <1>1, Invariance, PTL

(* The socket, while it is open, is subscribed to every topic that          *)
(* Subscriptions lists; a configured topic is exempt until the set-up of    *)
(* the subscriber thread is made, and so for good if that fails             *)
(* (Subscriber.h:54). A topic that is not configured is never exempt.       *)
THEOREM ListedAreSubscribed == Spec => []ListedIsSubscribed
<1>1. IInv => ListedIsSubscribed
  BY DEF IInv, SubscribedInv, ListedIsSubscribed, Subscriptions
<1>2. QED
  BY <1>1, Invariance, PTL

(* Stop() cuts at most one message short.                                  *)
THEOREM OneCutShort == Spec => []AtMostOneCutShort
<1>1. ASSUME IInv PROVE AtMostOneCutShort
  <2> DEFINE Cut == {m \in Msg : outcome[m] = "cut"}
  <2>1. CASE Cut = {}
    <3>1. Cardinality(Cut) = 0
      BY <2>1, FS_EmptySet
    <3>2. QED
      BY <3>1 DEF AtMostOneCutShort
  <2>2. CASE Cut # {}
    <3>1. PICK m \in Msg : outcome[m] = "cut"
      BY <2>2
    <3>2. Cut = {m}
      BY <1>1, <3>1 DEF IInv, CutInv
    <3>3. Cardinality(Cut) = 1
      BY <3>2, FS_Singleton
    <3>4. QED
      BY <3>3 DEF AtMostOneCutShort
  <2>3. QED
    BY <2>1, <2>2
<1>2. QED
  BY <1>1, Invariance, PTL
=============================================================================
