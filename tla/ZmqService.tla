----------------------------- MODULE ZmqService -----------------------------
(***************************************************************************)
(* The main functions of the services, from their start (Startup) to the   *)
(* interactive loops (Commands), and that of zmq-stack to its end with the *)
(* messages it sends to the conv-stack pods (Sender). What the objects of  *)
(* the other services do is the subject of ConvStack, NetStack and Proxy.  *)
(***************************************************************************)
EXTENDS Startup, Commands, Sender

CONSTANTS
  Lines,      \* lines that may be typed
  MaxTyped    \* bound: lines typed

VARIABLES
  running,    \* the flag sig_handler clears
  sender,     \* ZmqStack::m_sender is there
  line,       \* the line read last
  call,       \* what it comes to
  typed,      \* lines read
  thread      \* the thread main joins: "unstarted", "listening", "told",
              \* "ended"; "none" if main joins none

mainVars == <<running, sender, line, call, typed, thread>>
vars == <<service, phase, startVars, mainVars, senderVars, flowVars, podVars>>

Ended == {"done", "aborted", "undefined", "usage"}

Init ==
  /\ StartInit /\ SenderInit
  /\ running = TRUE /\ sender = FALSE /\ line = <<>> /\ call = Nothing /\ typed = 0
  /\ thread = "none"

Starts ==
  /\ Startup
  /\ UNCHANGED <<mainVars, senderVars, flowVars, podVars>>

(* The metrics exposer and the stack are constructed: a port that cannot   *)
(* be bound is an exception nobody catches; a sender is made if there is   *)
(* an endpoint for it. Then main reads its settings no more.               *)
Construct ==
  /\ phase = "ready"
  /\ \/ /\ phase' = "aborted"
        /\ UNCHANGED <<senderVars, flowVars, podVars, sender>>
     \/ /\ phase' = IF settings.interactive THEN "prompt"
                    ELSE IF service = "zmq-stack" THEN "loop" ELSE "running"
        /\ sender' = (settings.senderEndpoint # <<>>)
        /\ IF sender' THEN \E valid \in BOOLEAN : Connect(valid)
           ELSE UNCHANGED <<senderVars, flowVars, podVars>>
  /\ args' = <<>> /\ file' = NoFile /\ next' = 1 /\ instance' = "0"
  /\ settings' = Default
  /\ UNCHANGED <<service, running, line, call, typed, thread>>

Goes(p) ==
  /\ phase' = p
  /\ UNCHANGED <<service, startVars>>

-----------------------------------------------------------------------------
(***************************************************************************)
(* The loop of zmq-stack, if it is not interactive.                        *)
(***************************************************************************)

(* Mutant: the flag is not looked at. *)
LoopTest_Forever ==
  /\ phase = "loop" /\ Goes(IF sender /\ count < MaxMsg THEN "send" ELSE "sleep")
  /\ UNCHANGED <<mainVars, senderVars, flowVars, podVars>>

(* At the bound on messages the loop only sleeps. *)
LoopTest ==
  /\ phase = "loop"
  /\ Goes(IF ~running THEN "closing"
          ELSE IF sender /\ count < MaxMsg THEN "send" ELSE "sleep")
  /\ UNCHANGED <<mainVars, senderVars, flowVars, podVars>>

LoopSend ==
  /\ phase = "send" /\ Goes("sleep") /\ SendMsg
  /\ UNCHANGED mainVars

Wake ==
  /\ phase = "sleep" /\ Goes("loop")
  /\ UNCHANGED <<mainVars, senderVars, flowVars, podVars>>

Blocked == phase = "send" /\ ~CanSend

(* SIGINT or SIGTERM, for which all but inproc-stack have a handler. A send *)
(* that waits in the thread that takes the signal fails with EINTR, an     *)
(* exception main does not catch.                                          *)
Signal ==
  /\ phase \in {"loop", "send", "sleep", "prompt"} /\ running /\ running' = FALSE
  /\ \/ service # "inproc-stack" /\ Goes(phase)
     \/ (service = "inproc-stack" \/ Blocked) /\ Goes("aborted")
  /\ UNCHANGED <<sender, line, call, typed, thread, senderVars, flowVars, podVars>>

-----------------------------------------------------------------------------
(***************************************************************************)
(* The interactive loops. They do not look at running; at the end of its   *)
(* input std::getline gives empty lines for ever.                          *)
(***************************************************************************)
ReadLine ==
  /\ phase = "prompt" /\ typed < MaxTyped /\ Goes("typed")
  /\ line' \in Lines /\ call' = Interpret(service, line') /\ typed' = typed + 1
  /\ UNCHANGED <<running, sender, thread, senderVars, flowVars, podVars>>

(* A call of the stack is modelled where the stack is, but for Send. *)
Perform ==
  /\ phase = "typed" /\ line' = <<>> /\ call' = Nothing
  /\ IF call.op = "Send" /\ sender THEN SendMsg
     ELSE UNCHANGED <<senderVars, flowVars, podVars>>
  /\ Goes(CASE call = Quit      -> "closing"
            [] call = Undefined -> "undefined"
            [] call = Abort     -> "aborted"
            [] OTHER            -> "prompt")
  /\ UNCHANGED <<running, sender, typed, thread>>

-----------------------------------------------------------------------------
(***************************************************************************)
(* The end of zmq-stack: main destroys its HealthStatus, the stack and the *)
(* ZeroMQ context. (What destroying the objects of the other services does *)
(* is modelled with them; here they stay in "closing".)                    *)
(***************************************************************************)
Proceed(from, to, t) ==
  /\ phase = from /\ Goes(to) /\ thread' = t
  /\ UNCHANGED <<running, sender, line, call, typed, senderVars, flowVars, podVars>>

(* ~HealthStatus: stop(). It has no effect on a server that does not listen *)
(* yet; how far its thread is shows only now.                              *)
StopHealth ==
  /\ service = "zmq-stack"
  /\ \E t \in {"unstarted", "told"} : Proceed("closing", "healthJoin", t)

(* The thread gets to listen(), which does not return, or which cannot     *)
(* have the port.                                                          *)
HealthListen ==
  /\ thread = "unstarted"
  /\ \E t \in {"listening", "ended"} : Proceed("healthJoin", "healthJoin", t)

(* listen() returns; a Subscriber or Receiver, which looks at m_shutdown   *)
(* every 100 ms, closes its socket and ends.                               *)
ThreadEnds == thread = "told" /\ Proceed(phase, phase, "ended")

(* m_thread.join(). Then ~ZmqStack: m_subscriber.Stop(), *)
JoinHealth == thread = "ended" /\ Proceed("healthJoin", "subscriberJoin", "told")

(* m_publisher.Stop() and, if the stack has a receiver, m_receiver->Stop(). *)
JoinSubscriber ==
  /\ thread = "ended"
  /\ \/ Proceed("subscriberJoin", "receiverJoin", "told")
     \/ Proceed("subscriberJoin", "context", "none")

(* The sender, a member, closes its socket last. *)
JoinReceiver == thread = "ended" /\ Proceed("receiverJoin", "context", "none")

(* ~context_t waits until no connection has a message left, and goes on    *)
(* waiting when it is interrupted. (What a publisher holds of an           *)
(* interactive service is not modelled.)                                   *)
CloseContext ==
  /\ \A c \in Connection : pipe[c] = <<>>
  /\ Proceed("context", "done", "none")

Main ==
  \/ LoopTest \/ LoopSend \/ Wake \/ Perform
  \/ StopHealth \/ JoinHealth \/ JoinSubscriber \/ JoinReceiver \/ CloseContext

Threads == HealthListen \/ ThreadEnds

(* The I/O thread ends with the process. *)
Reach(c) ==
  /\ phase \notin Ended
  /\ \E p \in Pod : Establish(c, p, phase # "context")
  /\ UNCHANGED <<service, phase, startVars, mainVars>>

Flow(c) ==
  /\ phase \notin Ended /\ Transfer(c)
  /\ UNCHANGED <<service, phase, startVars, mainVars>>

Arrive(c) == Take(c) /\ UNCHANGED <<service, phase, startVars, mainVars>>

Pods ==
  /\ sender /\ \E p \in Pod : PodStops(p) \/ PodStarts(p)
  /\ UNCHANGED <<service, phase, startVars, mainVars>>

(* The process has ended, or what it does is modelled elsewhere, or it     *)
(* reads an input that has ended, or it waits.                             *)
Idle ==
  /\ \/ phase \in Ended \cup {"running", "typed", "closing", "healthJoin", "context"}
     \/ Blocked
     \/ phase = "prompt" /\ typed = MaxTyped
  /\ UNCHANGED vars

Next ==
  \/ Starts \/ Construct \/ Main \/ Threads \/ Signal \/ ReadLine \/ Pods \/ Idle
  \/ \E c \in Connection : Reach(c) \/ Flow(c) \/ Arrive(c)

Spec == Init /\ [][Next]_vars

(***************************************************************************)
(* Fairness: main, the thread it joins and ZeroMQ's thread are scheduled,  *)
(* and a pod that runs takes its messages. That pods start, lines are      *)
(* typed or a signal comes is not promised.                                *)
(***************************************************************************)
Fairness ==
  /\ WF_vars(Main) /\ WF_vars(Threads)
  /\ \A c \in Connection : WF_vars(Reach(c)) /\ WF_vars(Flow(c)) /\ WF_vars(Arrive(c))

FairSpec == Spec /\ Fairness

-----------------------------------------------------------------------------
(***************************************************************************)
(* Properties. (SettingsExplained, EachMessageOnce and BatchPerConnection  *)
(* are in Startup and Sender.)                                             *)
(***************************************************************************)

(* Every variable has its type. *)
TypeOK ==
  /\ SenderTypeOK
  /\ service \in Service /\ instance \in {"0", "1"}
  /\ phase \in Ended \cup {"start", "options", "config", "parsed", "ready",
       "running", "loop", "send", "sleep", "prompt", "typed", "closing",
       "healthJoin", "subscriberJoin", "receiverJoin", "context"}
  /\ running \in BOOLEAN /\ sender \in BOOLEAN
  /\ line \in Lines \cup {<<>>} /\ typed \in 0 .. MaxTyped
  /\ thread \in {"none", "unstarted", "listening", "told", "ended"}

(* Each command a main describes on its prompt does what it says, if its   *)
(* message has no bar in it. (ConvStackMain's sub: SubUnderstood.)         *)
DocumentedUnderstood ==
  phase = "typed" =>
    \A d \in Documented(service) : d.line = line => call = d.call

(* "sub|<topic>:<topic> <topic>... - sub", ConvStackMain.cpp:177. *)
SubUnderstood ==
  phase = "typed" /\ service = "conv-stack" =>
    \A d \in ConvStackSubDoc : d.line = line => call = d.call

(* A signal ends zmq-stack, through the joins of its threads and the wait  *)
(* of its context, unless from some time on no pod runs that could take    *)
(* what the disconnected connections still hold; main waits in a send on a *)
(* socket that never had a connection; or the signal came so early that    *)
(* the health server was told to stop before it listened (HealthStatus.h:34). *)
SignalEndsProcess ==
  (~running /\ phase \in {"loop", "send", "sleep"})
    ~> (\/ phase \in Ended \/ [](up = {}) \/ []Blocked
        \/ phase = "healthJoin" /\ thread = "listening")

(* A message that is sent is handled, on whatever connection it went and   *)
(* whether or not the process has ended since, or is lost with a pod, as   *)
(* long as there are pods.                                                 *)
EverySentHandled ==
  \A m \in Message :
    m <= count ~> (\/ m \in lost \/ [](up = {})
                   \/ \E c \in Connection : m \in ToSet(handled[c]))
=============================================================================
