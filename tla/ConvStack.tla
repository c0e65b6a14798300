----------------------------- MODULE ConvStack -----------------------------
(***************************************************************************)
(* A conv-stack process (conv-stack/ConvStack.cpp and ConvStackMain.cpp):  *)
(* a ZmqStack that publishes what it receives again, on the topics its     *)
(* m_conversionMap gives for the topic of the message.                     *)
(*                                                                         *)
(* Three threads act:                                                      *)
(*   - main constructs the object, gives the commands "sub" and "unsub"    *)
(*     (AddConversion, RemoveConversion), then destroys it;                *)
(*   - "sub", Subscriber::Run of common/Subscriber.h;                      *)
(*   - "rcv", Receiver::Run of common/Receiver.h, if it is configured.     *)
(* Both of the latter call onReceivedMessage, under ConvStack::m_mutex.    *)
(* The mutex of ZmqStack is only taken by main, and not modelled.          *)
(*                                                                         *)
(* A message is its number. A list of topics to publish on is a set: no    *)
(* configured list names a topic twice, and {} stands for a topic without  *)
(* conversion, which is handled like an empty list.                        *)
(***************************************************************************)
EXTENDS Naturals, Sequences, FiniteSets

CONSTANTS
  Topic,            \* the topics
  IngressTopic,     \* the topic a single-part message is taken to have
  SubTopics,        \* the configured topics to subscribe to
  Conversions,      \* the configured conversions: topic -> set of topics
  Targets,          \* bound: the sets of topics the "sub" command gives
  MaxMsg,           \* bound: messages that arrive
  MaxCmd            \* bound: commands given

ASSUME TopicAssumption ==
  /\ IngressTopic \in Topic /\ SubTopics \subseteq Topic
  /\ Conversions \in [Topic -> SUBSET Topic]
  /\ Targets \subseteq SUBSET Topic
ASSUME BoundAssumption == MaxMsg \in Nat /\ MaxCmd \in Nat

Thread == {"sub", "rcv"}
Msg == 1 .. MaxMsg

VARIABLES
  m_conversionMap,  \* ConvStack::m_conversionMap
  mutex,            \* who holds ConvStack::m_mutex: "none", "main" or a thread
  m_subscriptions,  \* ZmqStack::m_subscriptions
  sockSubs,         \* subscriptions the SUB socket holds: topic -> number
  setupOk,          \* history: Subscriber::Run made the configured ones
  phase,            \* the life of the object, below
  m_shutdown,       \* Subscriber::m_shutdown and Receiver::m_shutdown
  publisher,        \* Publisher::m_socket, "open" or "closed"
  cmd,              \* the command main is in: <<topic, topics>>, or <<>>
  ncmd,             \* commands given
  pc,               \* the program counters of the two threads
  hand,             \* the message a thread is handling, or 0
  todo,             \* topics a thread has yet to publish it on
  queue,            \* messages in the socket of each thread
  nmsg,             \* messages that have arrived
  topic,            \* the topic of each of them
  out,              \* the topics each has been published on
  outcome,          \* what became of each
  versions          \* history: see RoutedAtomically

subVars    == <<m_subscriptions, sockSubs, setupOk>>
lifeVars   == <<phase, m_shutdown, publisher>>
cmdVars    == <<cmd, ncmd>>
threadVars == <<pc, hand, todo>>
inVars     == <<queue, nmsg, topic>>
fateVars   == <<out, outcome, versions>>
vars == <<m_conversionMap, mutex, subVars, lifeVars, cmdVars, threadVars,
          inVars, fateVars>>

(***************************************************************************)
(* The phases of the object:                                               *)
(*   "ctor"    the base class is constructed, which starts the threads;    *)
(*             m_conversionMap and m_mutex do not exist yet                *)
(*   "alive"   from the end of the constructor to the destructor           *)
(*   "dying"   the members of ConvStack are destroyed                      *)
(*   "joinSub" ~ZmqStack: Stop() waits for the subscriber thread           *)
(*   "stopRcv" the publisher is closed, the receiver not yet told to stop  *)
(*   "joinRcv" Stop() waits for the receiver thread                        *)
(*   "gone"    the object is destroyed                                     *)
(*   "crashed" the process has terminated abnormally                       *)
(***************************************************************************)
Phase == {"ctor", "alive", "dying", "joinSub", "stopRcv", "joinRcv", "gone",
          "crashed"}

(* A thread's loop has "ended", or is "broken": left because zmq::poll or   *)
(* the receiving threw. Its socket is closed then.                         *)
PC == {"off", "setup", "test", "poll", "got", "publishing", "hung", "ended",
       "broken"}

Over(w) == pc[w] \in {"ended", "broken"}

MutexFree == mutex = "none"

Init ==
  /\ m_conversionMap = Conversions /\ mutex = "none"
  /\ m_subscriptions = SubTopics
  /\ sockSubs = [t \in Topic |-> 0] /\ setupOk = FALSE
  /\ phase = "ctor" /\ publisher = "open"
  /\ m_shutdown = [w \in Thread |-> FALSE]
  /\ cmd = <<>> /\ ncmd = 0
  /\ pc = [w \in Thread |-> IF w = "sub" THEN "setup" ELSE "off"]
  /\ hand = [w \in Thread |-> 0] /\ todo = [w \in Thread |-> {}]
  /\ queue = [w \in Thread |-> <<>>]
  /\ nmsg = 0 /\ topic = [m \in Msg |-> IngressTopic]
  /\ out = [m \in Msg |-> {}] /\ outcome = [m \in Msg |-> "none"]
  /\ versions = [m \in Msg |-> {}]

-----------------------------------------------------------------------------
(***************************************************************************)
(* Main: the life of the object.                                           *)
(***************************************************************************)

(* The Receiver is made, if an endpoint is configured for it. *)
StartReceiver ==
  /\ phase = "ctor" /\ pc["rcv"] = "off"
  /\ pc' = [pc EXCEPT !["rcv"] = "test"]
  /\ UNCHANGED <<m_conversionMap, mutex, subVars, lifeVars, cmdVars, hand, todo,
                 inVars, fateVars>>

(* The steps of the object from one phase to the next. *)
Moves(from, to) ==
  /\ phase = from /\ phase' = to
  /\ UNCHANGED <<m_conversionMap, mutex, subVars, cmdVars, threadVars, inVars,
                 fateVars>>

Tell(w) == m_shutdown' = [m_shutdown EXCEPT ![w] = TRUE]

Constructed == Moves("ctor", "alive") /\ UNCHANGED <<m_shutdown, publisher>>

(* "quit", or a signal: the destructor begins. *)
Quit == cmd = <<>> /\ Moves("alive", "dying") /\ UNCHANGED <<m_shutdown, publisher>>

StopSubscriber == Moves("dying", "joinSub") /\ Tell("sub") /\ UNCHANGED publisher

(* Mutant: the publisher is closed without joining the subscriber. *)
ClosePublisher_NoJoin ==
  /\ Moves("joinSub", "stopRcv")
  /\ publisher' = "closed" /\ UNCHANGED m_shutdown

ClosePublisher ==
  /\ Moves("joinSub", "stopRcv") /\ Over("sub")
  /\ publisher' = "closed" /\ UNCHANGED m_shutdown

(* Mutant: the receiver is joined without being told to stop. *)
StopReceiver_NoFlag ==
  Moves("stopRcv", "joinRcv") /\ UNCHANGED <<m_shutdown, publisher>>

StopReceiver == Moves("stopRcv", "joinRcv") /\ Tell("rcv") /\ UNCHANGED publisher

JoinReceiver ==
  /\ Moves("joinRcv", "gone") /\ (pc["rcv"] = "off" \/ Over("rcv"))
  /\ UNCHANGED <<m_shutdown, publisher>>

Destructor == StopSubscriber \/ ClosePublisher \/ StopReceiver \/ JoinReceiver

-----------------------------------------------------------------------------
(***************************************************************************)
(* Main: the commands. Each is two steps under m_mutex: the subscription   *)
(* is changed, then the table.                                             *)
(***************************************************************************)

(* Mutant: a command takes no lock. *)
LocksMain_Not == UNCHANGED mutex

LocksMain == MutexFree /\ mutex' = "main"

Waiting(m) == outcome[m] = "waiting"

MayCommand == phase = "alive" /\ cmd = <<>> /\ ncmd < MaxCmd

(* The first step of a command that converts t to the topics ts. The       *)
(* history offers ts to the messages that wait to be handled.              *)
Begins(t, ts) ==
  /\ MayCommand /\ ~Over("sub")
  /\ LocksMain
  /\ cmd' = <<t, ts>> /\ ncmd' = ncmd + 1
  /\ versions' = [m \in Msg |-> IF Waiting(m) /\ topic[m] = t
                                THEN versions[m] \cup {ts} ELSE versions[m]]
  /\ UNCHANGED <<m_conversionMap, setupOk, lifeVars, threadVars, inVars, out,
                 outcome>>

(* Subscriber::Subscribe and Unsubscribe: the SUB socket counts, and takes *)
(* off one subscription, if it has any.                                    *)
SockSubscribe(t) == sockSubs' = [sockSubs EXCEPT ![t] = @ + 1]
SockUnsubscribe(t) == sockSubs' = [sockSubs EXCEPT ![t] = IF @ > 0 THEN @ - 1 ELSE 0]

(* ZmqStack::Subscriptions: what the command "list" shows. *)
Subscriptions == m_subscriptions

(* AddConversion: the lock, and ZmqStack::Subscribe. *)
AddSubscribe(t, ts) ==
  /\ Begins(t, ts)
  /\ m_subscriptions' = m_subscriptions \cup {t}
  /\ SockSubscribe(t)

(* Mutant: the topic stays in m_subscriptions. *)
RemoveUnsubscribe_KeepsEntry(t) ==
  /\ Begins(t, {})
  /\ SockUnsubscribe(t)
  /\ UNCHANGED m_subscriptions

(* RemoveConversion: the lock, and ZmqStack::Unsubscribe. *)
RemoveUnsubscribe(t) ==
  /\ Begins(t, {})
  /\ m_subscriptions' = m_subscriptions \ {t}
  /\ SockUnsubscribe(t)

(* A socket the subscriber thread has closed has no options to set: it      *)
(* throws, main does not catch it, and the process terminates.             *)
CommandThrows ==
  /\ MayCommand /\ MutexFree /\ Over("sub") /\ phase' = "crashed"
  /\ UNCHANGED <<m_conversionMap, mutex, subVars, m_shutdown, publisher, cmdVars,
                 threadVars, inVars, fateVars>>

(* The assignment to, or the erasure from, m_conversionMap, and the end of *)
(* the critical section.                                                   *)
ChangeTable ==
  /\ cmd # <<>>
  /\ m_conversionMap' = [m_conversionMap EXCEPT ![cmd[1]] = cmd[2]]
  /\ mutex' = "none" /\ cmd' = <<>>
  /\ UNCHANGED <<subVars, lifeVars, ncmd, threadVars, inVars, fateVars>>

Command ==
  \/ \E t \in Topic, ts \in Targets : AddSubscribe(t, ts)
  \/ \E t \in Topic : RemoveUnsubscribe(t)
  \/ CommandThrows

-----------------------------------------------------------------------------
(***************************************************************************)
(* The outside: messages arrive in the sockets.                            *)
(***************************************************************************)

(* The set of topics a message on t should be published on, if a command   *)
(* takes effect when it changes the subscription.                          *)
Effective(t) ==
  IF cmd # <<>> /\ cmd[1] = t THEN cmd[2] ELSE m_conversionMap[t]

Arrives(w, t) ==
  /\ pc[w] \notin {"off", "setup"} /\ ~Over(w) /\ nmsg < MaxMsg
  /\ nmsg' = nmsg + 1
  /\ topic' = [topic EXCEPT ![nmsg'] = t]
  /\ queue' = [queue EXCEPT ![w] = Append(@, nmsg')]
  /\ outcome' = [outcome EXCEPT ![nmsg'] = "waiting"]
  /\ versions' = [versions EXCEPT ![nmsg'] = {Effective(t)}]
  /\ UNCHANGED <<m_conversionMap, mutex, subVars, lifeVars, cmdVars, threadVars,
                 out>>

(* A proxy's message on a topic the SUB socket is subscribed to. *)
ArrivesSub(t) == sockSubs[t] > 0 /\ Arrives("sub", t)

(* A single-part message on the PULL socket. *)
ArrivesRcv == Arrives("rcv", IngressTopic)

-----------------------------------------------------------------------------
(***************************************************************************)
(* The threads: Subscriber::Run and Receiver::Run.                         *)
(***************************************************************************)

Goes(w, next) == pc' = [pc EXCEPT ![w] = next]

(* The try block before the loop: an endpoint that cannot be connected to  *)
(* ends it, the error is logged, and no topic is subscribed to.            *)
SubSetup ==
  /\ pc["sub"] = "setup" /\ Goes("sub", "test")
  /\ \/ /\ setupOk' = TRUE
        /\ sockSubs' = [t \in Topic |-> IF t \in SubTopics THEN sockSubs[t] + 1
                                        ELSE sockSubs[t]]
     \/ UNCHANGED <<setupOk, sockSubs>>
  /\ UNCHANGED <<m_conversionMap, mutex, m_subscriptions, lifeVars, cmdVars,
                 hand, todo, inVars, fateVars>>

Test(w) ==
  /\ pc[w] = "test" /\ Goes(w, IF m_shutdown[w] THEN "ended" ELSE "poll")
  /\ UNCHANGED <<m_conversionMap, mutex, subVars, lifeVars, cmdVars, hand, todo,
                 inVars, fateVars>>

(* zmq::poll() times out; or it returns for a message that is no data. *)
Timeout(w) ==
  /\ pc[w] = "poll" /\ queue[w] = <<>> /\ Goes(w, "test")
  /\ UNCHANGED <<m_conversionMap, mutex, subVars, lifeVars, cmdVars, hand, todo,
                 inVars, fateVars>>

(* zmq::poll() or the receiving throws, for a signal this thread handles:   *)
(* the error is logged, the loop left and the socket closed.               *)
Breaks(w) ==
  /\ pc[w] = "poll" /\ Goes(w, "broken")
  /\ UNCHANGED <<m_conversionMap, mutex, subVars, lifeVars, cmdVars, hand, todo,
                 inVars, fateVars>>

(* A message is received, and onReceivedMessage called. *)
Takes(w) ==
  /\ pc[w] = "poll" /\ queue[w] # <<>>
  /\ queue' = [queue EXCEPT ![w] = Tail(@)]
  /\ UNCHANGED <<m_conversionMap, mutex, subVars, m_shutdown, publisher, cmdVars,
                 todo, nmsg, topic, out, versions>>

(* The call is for ConvStack's function, until ~ConvStack is over. *)
Receive(w) ==
  /\ Takes(w) /\ phase \in {"alive", "dying"} /\ Goes(w, "got")
  /\ hand' = [hand EXCEPT ![w] = Head(queue[w])]
  /\ UNCHANGED <<phase, outcome>>

(* In the base class's part of the constructor and of the destructor it is *)
(* for ZmqStack's function, which only logs the message.                   *)
ReceiveBase(w) ==
  /\ Takes(w) /\ phase \notin {"alive", "dying"} /\ Goes(w, "test")
  /\ outcome' = [outcome EXCEPT ![Head(queue[w])] = "dropped"]
  /\ UNCHANGED <<phase, hand>>

(* Between the two parts of the constructor it is for ConvStack's function *)
(* with a mutex and a table that are not constructed: undefined, the thread *)
(* waits for what it takes for a locked mutex, or the process crashes.      *)
ReceiveUnconstructed(w) ==
  /\ Takes(w) /\ phase = "ctor"
  /\ \/ Goes(w, "hung") /\ UNCHANGED phase
     \/ phase' = "crashed" /\ UNCHANGED pc
  /\ UNCHANGED <<hand, outcome>>

(* The handling of the message in w's hand is over: the lock is released,  *)
(* and the thread goes on at next.                                         *)
Finishes(w, how, next) ==
  /\ Goes(w, next)
  /\ outcome' = [outcome EXCEPT ![hand[w]] = how]
  /\ hand' = [hand EXCEPT ![w] = 0]
  /\ todo' = [todo EXCEPT ![w] = {}]
  /\ mutex' = "none"
  /\ UNCHANGED <<m_conversionMap, subVars, lifeVars, cmdVars, inVars, out,
                 versions>>

Found(w) == m_conversionMap[topic[hand[w]]]

(* Mutant: a topic without conversion ends the thread's loop. *)
NoConversion_Ends(w) ==
  /\ pc[w] = "got" /\ MutexFree /\ phase = "alive" /\ Found(w) = {}
  /\ Finishes(w, "converted", "ended")

(* The lock is taken, and the topic is not in the table. *)
NoConversion(w) ==
  /\ pc[w] = "got" /\ MutexFree /\ phase = "alive" /\ Found(w) = {}
  /\ Finishes(w, "converted", "test")

(* Mutant: the lock is released before the message is published. *)
LocksThread_Briefly(w) == MutexFree /\ UNCHANGED mutex

LocksThread(w) == MutexFree /\ mutex' = w

(* The lock is taken, and the list of topics copied. *)
HasConversion(w) ==
  /\ pc[w] = "got" /\ Found(w) # {} /\ Goes(w, "publishing")
  /\ LocksThread(w)
  /\ todo' = [todo EXCEPT ![w] = Found(w)]
  /\ UNCHANGED <<m_conversionMap, subVars, lifeVars, cmdVars, hand, inVars,
                 fateVars>>

(* Once ~ConvStack has destroyed the table, a lookup reads freed memory:   *)
(* it may still find what was there (HasConversion), nothing, or crash.    *)
LookupDestroyed(w) ==
  /\ pc[w] = "got" /\ MutexFree /\ phase # "alive"
  /\ Finishes(w, "dropped", "test")

LookupCrashes(w) ==
  /\ pc[w] = "got" /\ MutexFree /\ phase # "alive" /\ phase' = "crashed"
  /\ UNCHANGED <<m_conversionMap, mutex, subVars, m_shutdown, publisher, cmdVars,
                 threadVars, inVars, fateVars>>

(* The loop of Publisher::publishMsg over the copied list of topics. *)
PublishOne(w, t) ==
  /\ pc[w] = "publishing" /\ t \in todo[w] /\ publisher = "open"
  /\ out' = [out EXCEPT ![hand[w]] = @ \cup {t}]
  /\ todo' = [todo EXCEPT ![w] = @ \ {t}]
  /\ UNCHANGED <<m_conversionMap, mutex, subVars, lifeVars, cmdVars, pc, hand,
                 inVars, outcome, versions>>

PublishEnds(w) ==
  /\ pc[w] = "publishing" /\ todo[w] = {}
  /\ Finishes(w, "converted", "test")

(* On a closed socket publishMsg throws, which ends the thread's loop. *)
PublishThrows(w) ==
  /\ pc[w] = "publishing" /\ todo[w] # {} /\ publisher = "closed"
  /\ Finishes(w, "cut", "ended")

Run(w) ==
  \/ w = "sub" /\ SubSetup
  \/ Test(w) \/ Timeout(w) \/ Breaks(w)
  \/ Receive(w) \/ ReceiveBase(w) \/ ReceiveUnconstructed(w)
  \/ NoConversion(w) \/ HasConversion(w) \/ LookupDestroyed(w) \/ LookupCrashes(w)
  \/ \E t \in Topic : PublishOne(w, t)
  \/ PublishEnds(w) \/ PublishThrows(w)

-----------------------------------------------------------------------------
Hung == \E w \in Thread : pc[w] = "hung"

(* The process has ended, or everything waits for a hung thread. *)
Done ==
  /\ phase \in {"gone", "crashed"} \/ Hung
  /\ UNCHANGED vars

Next ==
  \/ /\ phase \notin {"gone", "crashed"}
     /\ \/ StartReceiver \/ Constructed \/ Quit \/ Destructor
        \/ Command \/ ChangeTable
        \/ \E t \in Topic : ArrivesSub(t)
        \/ ArrivesRcv
        \/ \E w \in Thread : Run(w)
  \/ Done

Spec == Init /\ [][Next]_vars

(***************************************************************************)
(* Fairness: the threads are scheduled; a command or a destructor that has *)
(* begun goes on. Messages, commands and the end are not promised.         *)
(***************************************************************************)
Alive(A) == phase \notin {"gone", "crashed"} /\ A

Fairness ==
  /\ \A w \in Thread : WF_vars(Alive(Run(w)))
  /\ WF_vars(Alive(Destructor))
  /\ WF_vars(Alive(ChangeTable))

FairSpec == Spec /\ Fairness

-----------------------------------------------------------------------------
(***************************************************************************)
(* Properties.                                                             *)
(***************************************************************************)

(* Every variable has its type. *)
TypeOK ==
  /\ m_conversionMap \in [Topic -> SUBSET Topic]
  /\ mutex \in Thread \cup {"none", "main"}
  /\ m_subscriptions \subseteq Topic
  /\ sockSubs \in [Topic -> Nat] /\ setupOk \in BOOLEAN
  /\ phase \in Phase
  /\ m_shutdown \in [Thread -> BOOLEAN] /\ publisher \in {"open", "closed"}
  /\ cmd \in {<<>>} \cup (Topic \X SUBSET Topic) /\ ncmd \in Nat
  /\ pc \in [Thread -> PC]
  /\ hand \in [Thread -> Msg \cup {0}]
  /\ todo \in [Thread -> SUBSET Topic]
  /\ queue \in [Thread -> Seq(Msg)]
  /\ nmsg \in Msg \cup {0} /\ topic \in [Msg -> Topic]
  /\ out \in [Msg -> SUBSET Topic]
  /\ outcome \in [Msg -> {"none", "waiting", "converted", "dropped", "cut"}]
  /\ versions \in [Msg -> SUBSET SUBSET Topic]

(* AddConversion and RemoveConversion change the subscription and the table *)
(* in two steps; to a message each looks like one. A message is published   *)
(* on exactly the topics its topic was converted to at one moment between   *)
(* its arrival and the end of its handling: never on a mixture of an old    *)
(* list and a new one, never on nothing because it came in through the new  *)
(* subscription before the table had the new conversion.                    *)
RoutedAtomically ==
  \A m \in Msg : outcome[m] = "converted" => out[m] \in versions[m]

(* The two threads publish through one PUB socket, and ZeroMQ's sockets are *)
(* not safe for that: onReceivedMessage keeps m_mutex while it publishes.   *)
PublisherOneAtATime == ~(\A w \in Thread : pc[w] = "publishing")

(* Stop() closes the publisher between the two joins. At most one message,  *)
(* the one the receiver thread has in hand, is therefore published on only  *)
(* some of its topics.                                                      *)
AtMostOneCutShort ==
  Cardinality({m \in Msg : outcome[m] = "cut"}) <= 1

(* What "list" shows is delivered: as long as the socket is open it holds a *)
(* subscription for each topic in Subscriptions, whatever the order of     *)
(* commands and of the thread that makes the configured subscriptions. Only *)
(* a configured topic may lack it, and only until these are made, which is *)
(* never if an endpoint could not be connected to.                         *)
ListedIsSubscribed ==
  ~Over("sub") =>
    \A t \in Subscriptions : sockSubs[t] > 0 \/ (~setupOk /\ t \in SubTopics)

(* What ConvStackMain.cpp says of "unsub|<topic>": "unsubscribe from topic". *)
(* A topic that "list" does not show any more is not delivered. (The socket  *)
(* counts subscriptions, m_subscriptions does not: MCConvStackUnsub.cfg.)    *)
UnlistedIsUnsubscribed == \A t \in Topic \ Subscriptions : sockSubs[t] = 0

(* As long as the stack lives, every message that arrives is handled:      *)
(* nobody waits for m_mutex for ever. What is still in the socket of a      *)
(* thread that a signal broke out of its loop is not; nothing else ends a   *)
(* loop while the stack lives.                                             *)
LeftBehind(m) ==
  \E w \in Thread : pc[w] = "broken" /\ \E i \in DOMAIN queue[w] : queue[w][i] = m

EveryMessageHandled ==
  \A m \in Msg :
    Waiting(m) ~> (~Waiting(m) \/ phase # "alive" \/ Hung \/ LeftBehind(m))

(* Once its destructor runs, the object is destroyed, unless a thread made *)
(* undefined use of its members.                                           *)
DestructorReturns == (phase = "dying") ~> (phase \in {"gone", "crashed"} \/ Hung)
=============================================================================
