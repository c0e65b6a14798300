------------------------------- MODULE Health -------------------------------
(***************************************************************************)
(* The health endpoint of a stack's process: class HealthStatus of         *)
(* common/HealthStatus.h, whose HTTP server calls Health() of the stack    *)
(* (common/ZmqStack.cpp) in a pool of threads, and what Health() looks at, *)
(* the counter of the subscriber thread (Subscriber::Run of                *)
(* common/Subscriber.h).                                                   *)
(*                                                                         *)
(* Health() compares the counter with the value that it stored, in a       *)
(* static variable without a lock, when it was called before. Its three    *)
(* accesses to shared variables are three steps here.                      *)
(***************************************************************************)
EXTENDS Naturals, FiniteSets

CONSTANTS
  Prober,           \* the threads of the HTTP server's pool
  CountMod,         \* 2^32: the values of m_count
  MaxHealthy        \* bound of a history variable

ASSUME HealthAssumption ==
  /\ IsFiniteSet(Prober)
  /\ CountMod \in Nat \ {0, 1}
  /\ MaxHealthy \in Nat

VARIABLES
  sub,              \* the subscriber thread: "poll", "handling" or "ended"
  m_count,          \* Subscriber::m_count
  lastCount,        \* the static variable of ZmqStack::Health
  probe,            \* the program counters of the probers
  count,            \* the local variables count
  status,           \* and status of each call
  server,           \* HealthStatus::Run: "starting", "listening", "stopped",
                    \* "ended"
  main,             \* main: "running", "joining" in ~HealthStatus, and "done"
                    \* when it goes on to destroy the stack
  healthy           \* history: healthy answers since m_count changed

probeVars == <<probe, count, status, lastCount>>
vars == <<sub, m_count, probeVars, server, main, healthy>>

HEALTHY == 0
UNHEALTHY == 1      \* answered as UNHEALTHY_BASE + 1

Init ==
  /\ sub = "poll" /\ m_count = 0 /\ lastCount = 0
  /\ probe = [p \in Prober |-> "idle"]
  /\ count = [p \in Prober |-> 0] /\ status = [p \in Prober |-> HEALTHY]
  /\ server = "starting" /\ main = "running"
  /\ healthy = 0

-----------------------------------------------------------------------------
(***************************************************************************)
(* The subscriber thread. It may stay in a handler for ever.               *)
(***************************************************************************)

(* m_count++: the end of a round of the loop. A round with a welcome or a  *)
(* control message skips it, and changes nothing of what is modelled here. *)
Counted ==
  /\ m_count' = (m_count + 1) % CountMod
  /\ healthy' = 0

SubTimeout ==
  /\ sub = "poll" /\ Counted
  /\ UNCHANGED <<sub, probeVars, server, main>>

SubReceive ==
  /\ sub = "poll" /\ sub' = "handling"
  /\ UNCHANGED <<m_count, probeVars, server, main, healthy>>

SubHandled ==
  /\ sub = "handling" /\ sub' = "poll" /\ Counted
  /\ UNCHANGED <<probeVars, server, main>>

(* An exception breaks out of the loop, and the thread ends. *)
SubBreak ==
  /\ sub \in {"poll", "handling"} /\ sub' = "ended"
  /\ UNCHANGED <<m_count, probeVars, server, main, healthy>>

SubRun == SubTimeout \/ SubReceive \/ SubHandled \/ SubBreak

-----------------------------------------------------------------------------
(***************************************************************************)
(* GET /healthz.                                                           *)
(***************************************************************************)
ProbeCount(p) ==
  /\ probe[p] = "idle" /\ server = "listening"
  /\ probe' = [probe EXCEPT ![p] = "compare"]
  /\ count' = [count EXCEPT ![p] = m_count]
  /\ UNCHANGED <<sub, m_count, status, lastCount, server, main, healthy>>

ProbeCompare(p) ==
  /\ probe[p] = "compare"
  /\ probe' = [probe EXCEPT ![p] = "store"]
  /\ status' = [status EXCEPT ![p] = IF lastCount # count[p] THEN HEALTHY
                                     ELSE UNHEALTHY]
  /\ UNCHANGED <<sub, m_count, count, lastCount, server, main, healthy>>

(* Mutants: the counter is not stored; only a greater one is stored. *)
Stored_Not(p) == lastCount

Stored_IfGreater(p) == IF count[p] > lastCount THEN count[p] ELSE lastCount

Stored(p) == count[p]

(* The counter is stored, and the answer given. *)
ProbeStore(p) ==
  /\ probe[p] = "store"
  /\ probe' = [probe EXCEPT ![p] = "idle"]
  /\ lastCount' = Stored(p)
  /\ healthy' = IF status[p] = HEALTHY /\ healthy < MaxHealthy
                THEN healthy + 1 ELSE healthy
  /\ UNCHANGED <<sub, m_count, count, status, server, main>>

Answer(p) == ProbeCompare(p) \/ ProbeStore(p)

-----------------------------------------------------------------------------
(***************************************************************************)
(* The life of the HealthStatus. Its thread is in listen(), which returns  *)
(* when it cannot have the port, or when it was told to stop and the       *)
(* threads of its pool are idle; stop() has no effect on a server that     *)
(* does not listen yet, and the join then waits for ever.                  *)
(***************************************************************************)
Listen ==
  /\ server = "starting" /\ server' \in {"listening", "ended"}
  /\ UNCHANGED <<sub, m_count, probeVars, main, healthy>>

ListenReturns ==
  /\ server = "stopped" /\ \A p \in Prober : probe[p] = "idle"
  /\ server' = "ended"
  /\ UNCHANGED <<sub, m_count, probeVars, main, healthy>>

(* ~HealthStatus: stop(). *)
StopServer ==
  /\ main = "running" /\ main' = "joining"
  /\ server' = IF server = "listening" THEN "stopped" ELSE server
  /\ UNCHANGED <<sub, m_count, probeVars, healthy>>

(* Mutant: the destructor detaches the thread. *)
JoinServer_Detached ==
  /\ main = "joining" /\ main' = "done"
  /\ UNCHANGED <<sub, m_count, probeVars, server, healthy>>

(* m_thread.join(). Then the stack is destroyed, with its subscriber. *)
JoinServer ==
  /\ main = "joining" /\ server = "ended"
  /\ main' = "done"
  /\ UNCHANGED <<sub, m_count, probeVars, server, healthy>>

Done == main = "done" /\ UNCHANGED vars

Server == Listen \/ ListenReturns \/ \E p \in Prober : ProbeCount(p) \/ Answer(p)

Next ==
  \/ main # "done" /\ (SubRun \/ StopServer \/ JoinServer)
  \/ Server
  \/ Done

(***************************************************************************)
(* Fairness: the server's threads are scheduled, and Kubernetes probes the *)
(* service periodically (periodSeconds of its liveness probe), each time   *)
(* in some thread of the pool. Nothing is assumed of the subscriber thread.*)
(***************************************************************************)
Fairness ==
  /\ WF_vars(Listen)
  /\ \A p \in Prober : WF_vars(Answer(p))
  /\ WF_vars(\E p \in Prober : ProbeCount(p))

Spec == Init /\ [][Next]_vars
FairSpec == Spec /\ Fairness

-----------------------------------------------------------------------------
(***************************************************************************)
(* Properties.                                                             *)
(***************************************************************************)

(* Every variable has its type. *)
TypeOK ==
  /\ sub \in {"poll", "handling", "ended"}
  /\ m_count \in 0 .. CountMod - 1 /\ lastCount \in 0 .. CountMod - 1
  /\ probe \in [Prober -> {"idle", "compare", "store"}]
  /\ count \in [Prober -> 0 .. CountMod - 1]
  /\ status \in [Prober -> {HEALTHY, UNHEALTHY}]
  /\ server \in {"starting", "listening", "stopped", "ended"}
  /\ main \in {"running", "joining", "done"}
  /\ healthy \in 0 .. MaxHealthy

(* A subscriber thread that is wedged in a handler, or has ended, is       *)
(* reported: if m_count does not change any more, from some time on every  *)
(* answer of Health() is "unhealthy", although probes that overlap may     *)
(* store an old count over a newer one.                                    *)
WedgedIsReported ==
  \A k \in 0 .. CountMod - 1 :
    <>[](m_count = k /\ main = "running")
      => <>[](\A p \in Prober : probe[p] = "store" => status[p] = UNHEALTHY)

(* With the pool's two threads that takes at most five answers after the   *)
(* last counted round; two, if probes never overlap.                       *)
DetectionDelay == healthy <= 5

(* No probe is in Health() of a stack that is being destroyed, and none    *)
(* begins: main destroys its HealthStatus first, whose destructor stops    *)
(* the server and waits for the thread that serves the probes.             *)
NoProbeOnDeadStack ==
  main = "done" => \A p \in Prober : probe[p] = "idle"
=============================================================================
