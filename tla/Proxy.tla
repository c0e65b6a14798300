------------------------------- MODULE Proxy -------------------------------
(***************************************************************************)
(* The proxy service: class Proxy of zmq-proxy/Proxy.cpp, whose thread     *)
(* runs zmq::proxy_steerable between an XSUB and an XPUB socket, and the   *)
(* loop of zmq-proxy/ProxyMain.cpp, which asks that thread for its         *)
(* statistics over a REQ/REP pair of sockets, feeds them to gauges, and is *)
(* ended by a signal. It then destroys, in this order, its HealthStatus    *)
(* (common/HealthStatus.h), the Proxy and the ZeroMQ context.              *)
(*                                                                         *)
(* The eight counters behave alike: one stands for all of them.            *)
(***************************************************************************)
EXTENDS Integers

CONSTANTS
  MaxRelay,         \* bound: messages relayed
  MaxStats          \* bound: rounds of main's loop

ASSUME ProxyAssumption == MaxRelay \in Nat /\ MaxStats \in Nat

NoReply == -1

VARIABLES
  running,          \* cleared by the signal handler
  main,             \* main's program counter
  thread,           \* the proxy thread: "setup", "running" or "ended"
  ctrl,             \* the REQ/REP pair: "none", "ok" or "failed"
  request,          \* the request on its way: "STATISTICS", "TERMINATE", "none"
  reply,            \* the reply on its way back: a count, or NoReply
  relayed,          \* messages relayed
  queued,           \* messages the proxy's sockets hold for their peers
  health,           \* HealthStatus::Run: "starting", "listening", "ended"
  gauge,            \* the gauge proxy_msgs
  reported,         \* history: the count in the last reply
  rounds            \* rounds of main's loop

statsVars == <<gauge, reported, rounds>>
vars == <<running, main, thread, ctrl, request, reply, relayed, queued, health,
          statsVars>>

MainPC == {"test", "statsSend", "statsRecv", "stopHealth", "joinHealth", "stop",
           "join", "context", "done", "terminated"}

Init ==
  /\ running = TRUE /\ main = "test"
  /\ thread = "setup" /\ ctrl = "none"
  /\ request = "none" /\ reply = NoReply
  /\ relayed = 0 /\ queued = 0 /\ health = "starting"
  /\ gauge = 0 /\ reported = 0 /\ rounds = 0

-----------------------------------------------------------------------------
(***************************************************************************)
(* The proxy thread.                                                       *)
(***************************************************************************)

(* The sockets are bound and connected; what cannot be is only logged. *)
ThreadSetup ==
  /\ thread = "setup" /\ thread' = "running"
  /\ ctrl' \in {"ok", "failed"}
  /\ UNCHANGED <<running, main, request, reply, relayed, queued, health, statsVars>>

(* The message is queued for a peer, if one wants it.                      *)
Relay ==
  /\ thread = "running" /\ relayed < MaxRelay
  /\ relayed' = relayed + 1 /\ queued' \in {queued, queued + 1}
  /\ UNCHANGED <<running, main, thread, ctrl, request, reply, health, statsVars>>

Statistics ==
  /\ thread = "running" /\ request = "STATISTICS"
  /\ request' = "none" /\ reply' = relayed
  /\ UNCHANGED <<running, main, thread, ctrl, relayed, queued, health, statsVars>>

(* The reply to a TERMINATE is never read. *)
Terminate ==
  /\ thread = "running" /\ request = "TERMINATE"
  /\ request' = "none" /\ thread' = "ended"
  /\ UNCHANGED <<running, main, ctrl, reply, relayed, queued, health, statsVars>>

(* ZeroMQ's I/O thread: a peer takes a message, or goes. A socket that is  *)
(* closed keeps its messages until then (the default of ZMQ_LINGER).       *)
Deliver ==
  /\ queued > 0 /\ queued' = queued - 1
  /\ UNCHANGED <<running, main, thread, ctrl, request, reply, relayed, health,
                 statsVars>>

(* The thread of the HealthStatus gets to listen(), or cannot have the port. *)
Listen ==
  /\ health = "starting" /\ health' \in {"listening", "ended"}
  /\ UNCHANGED <<running, main, thread, ctrl, request, reply, relayed, queued,
                 statsVars>>

-----------------------------------------------------------------------------
(***************************************************************************)
(* Main.                                                                   *)
(***************************************************************************)

(* The test of the loop, and the sleep of a second. *)
Test ==
  /\ main = "test"
  /\ \/ running /\ rounds < MaxStats /\ main' = "statsSend"
     \/ ~running /\ main' = "stopHealth"
  /\ UNCHANGED <<running, thread, ctrl, request, reply, relayed, queued, health,
                 statsVars>>

(* A REQ socket's send() waits until it has a peer. *)
Sends(what, next) ==
  /\ ctrl = "ok"
  /\ request' = what /\ main' = next
  /\ UNCHANGED <<running, thread, ctrl, reply, relayed, queued, health, statsVars>>

StatsSend == main = "statsSend" /\ Sends("STATISTICS", "statsRecv")

(* lastStats is declared in the loop's body, which makes it 0 there. *)
LastStats == 0

(* Stats() returns, and the gauge is incremented by what was relayed since *)
(* lastStats.                                                              *)
StatsRecv ==
  /\ main = "statsRecv" /\ reply # NoReply
  /\ reported' = reply
  /\ gauge' = gauge + (reply - LastStats)
  /\ reply' = NoReply /\ main' = "test" /\ rounds' = rounds + 1
  /\ UNCHANGED <<running, thread, ctrl, request, relayed, queued, health>>

(* ~HealthStatus: stop(), which has no effect before the server listens    *)
(* (the probes that run then end by themselves), and the join.             *)
StopHealth ==
  /\ main = "stopHealth" /\ main' = "joinHealth"
  /\ health' = IF health = "listening" THEN "ended" ELSE health
  /\ UNCHANGED <<running, thread, ctrl, request, reply, relayed, queued, statsVars>>

JoinHealth ==
  /\ main = "joinHealth" /\ health = "ended" /\ main' = "stop"
  /\ UNCHANGED <<running, thread, ctrl, request, reply, relayed, queued, health,
                 statsVars>>

(* Mutant: Stop() sends nothing. *)
Stop_Dropped ==
  /\ main = "stop" /\ main' = "join"
  /\ UNCHANGED <<running, thread, ctrl, request, reply, relayed, queued, health,
                 statsVars>>

(* ~Proxy: Stop(), whose reply is not waited for, and the join. *)
Stop == main = "stop" /\ Sends("TERMINATE", "join")

Join ==
  /\ main = "join" /\ thread = "ended" /\ main' = "context"
  /\ UNCHANGED <<running, thread, ctrl, request, reply, relayed, queued, health,
                 statsVars>>

(* The context is destroyed last: that waits until no socket, closed as    *)
(* they all are by now, has a message left, and is not interrupted.        *)
CloseContext ==
  /\ main = "context" /\ queued = 0 /\ main' = "done"
  /\ UNCHANGED <<running, thread, ctrl, request, reply, relayed, queued, health,
                 statsVars>>

(* Mutant: an interrupted Stats() is caught, and the loop goes on. *)
Interrupted_Caught ==
  \/ main \in {"statsSend", "statsRecv"} /\ main' = "test"
  \/ (thread = "running" \/ main = "stop") /\ main' = "terminated"

(* A signal interrupts the ZeroMQ call its thread waits in: the call of    *)
(* main, or zmq::proxy_steerable. It then throws zmq::error_t, which       *)
(* nothing catches.                                                        *)
Interrupted ==
  /\ main \in {"statsSend", "statsRecv", "stop"} \/ thread = "running"
  /\ main' = "terminated"

(* SIGINT or SIGTERM: the handler clears running. *)
Signal ==
  /\ main \notin {"done", "terminated"}
  /\ running' = FALSE
  /\ UNCHANGED main \/ Interrupted
  /\ UNCHANGED <<thread, ctrl, request, reply, relayed, queued, health, statsVars>>

-----------------------------------------------------------------------------
(* The process has ended, or main waits for ever: for a peer of its REQ    *)
(* socket, for a server that was told to stop before it listened, or, as   *)
(* long as one does not read, for the peers of the proxy.                  *)
Waits == ctrl = "failed" \/ (main = "joinHealth" /\ health = "listening")

Done ==
  /\ main \in {"done", "terminated"} \/ Waits \/ (main = "context" /\ queued > 0)
  /\ UNCHANGED vars

Thread == ThreadSetup \/ Relay \/ Statistics \/ Terminate \/ Deliver \/ Listen
Main ==
  \/ Test \/ StatsSend \/ StatsRecv
  \/ StopHealth \/ JoinHealth \/ Stop \/ Join \/ CloseContext

Next ==
  \/ main # "terminated" /\ (Thread \/ Main)
  \/ Signal
  \/ Done

Spec == Init /\ [][Next]_vars

(***************************************************************************)
(* Fairness: the threads are scheduled, the proxy looks at its control     *)
(* socket whatever it relays. No signal, no message and no peer that reads *)
(* is promised.                                                            *)
(***************************************************************************)
Running(A) == main # "terminated" /\ A

Fairness ==
  /\ WF_vars(Running(Main))
  /\ WF_vars(Running(ThreadSetup \/ Statistics \/ Terminate))
  /\ WF_vars(Running(Listen))

FairSpec == Spec /\ Fairness

-----------------------------------------------------------------------------
(***************************************************************************)
(* Properties.                                                             *)
(***************************************************************************)

(* Every variable has its type. *)
TypeOK ==
  /\ running \in BOOLEAN /\ main \in MainPC
  /\ thread \in {"setup", "running", "ended"}
  /\ ctrl \in {"none", "ok", "failed"}
  /\ request \in {"STATISTICS", "TERMINATE", "none"}
  /\ reply \in Nat \cup {NoReply}
  /\ relayed \in Nat /\ queued \in Nat
  /\ health \in {"starting", "listening", "ended"}
  /\ gauge \in Nat /\ reported \in Nat /\ rounds \in Nat

(* A REQ socket may send only after the reply to what it sent before was   *)
(* read; anything else throws, in Stop() out of a destructor. Whenever     *)
(* Stats() or Stop() is about to send, nothing is outstanding.             *)
RequestsAlternate ==
  main \in {"test", "statsSend", "stopHealth", "joinHealth", "stop"} =>
    request = "none" /\ reply = NoReply

(* After a signal the process ends, by returning from main or, if a call   *)
(* was interrupted, by an exception; unless the control sockets could not  *)
(* be set up (main waits in send() for ever), the signal came so early     *)
(* that the health server was told to stop before it listened (main waits  *)
(* in the join for ever), or some peer never takes what is queued for it   *)
(* (the context waits).                                                    *)
SignalEndsProcess ==
  ~running ~> (main \in {"done", "terminated"} \/ Waits \/ [](queued > 0))

(* What ProxyMain.cpp says of the gauge: "Number of messages". After each  *)
(* round it shows the number the proxy reported. (It shows the sum of all  *)
(* the numbers reported so far: MCProxyGauge.cfg.)                         *)
GaugeIsCount == gauge = reported
=============================================================================
