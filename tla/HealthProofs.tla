---------------------------- MODULE HealthProofs ----------------------------
(***************************************************************************)
(* Proofs about Health, for any number of threads in the HTTP server's     *)
(* pool and any width of the counter: how many more healthy answers        *)
(* Health() can give once m_count does not change any more.                *)
(***************************************************************************)
EXTENDS Health, Integers, FiniteSetTheorems, TLAPS

USE HealthAssumption DEF HealthAssumption, HEALTHY, UNHEALTHY

N == Cardinality(Prober)

(* The probers that hold a count m_count has left behind. *)
Behind == {p \in Prober : probe[p] # "idle" /\ count[p] # m_count}

(* Those of which it is decided that they answer "healthy", or not decided *)
(* but possible because they hold such a count.                            *)
Due ==
  {p \in Prober : \/ probe[p] = "store" /\ status[p] = HEALTHY
                  \/ probe[p] = "compare" /\ count[p] # m_count}

(* Those that will, if lastCount differs from m_count when they compare.   *)
Open ==
  {p \in Prober : probe[p] = "idle" \/ (probe[p] = "compare" /\ count[p] = m_count)}

(* Twice the number of healthy answers still to come. Each prober that is  *)
(* behind can store its old count once, and so make lastCount differ for   *)
(* all that are not behind any more. If d probers are due, o open and b    *)
(* behind, and if differs says whether lastCount differs:                  *)
Twice(d, o, b, differs) ==
  2 * d + (IF differs THEN 2 * o ELSE 0) + b * (2 * N - b + 1)

(* The bound of HEALTHY answers for N threads.                             *)
Bounded(h) == 2 * h <= N * (N + 3)

(* What was answered and what is still to come is bounded. *)
BudgetInv ==
  2 * healthy + Twice(Cardinality(Due), Cardinality(Open), Cardinality(Behind),
                      lastCount # m_count) <= N * (N + 3)

(* The inductive invariant. *)
IInv == TypeOK /\ BudgetInv

-----------------------------------------------------------------------------
(***************************************************************************)
(* Sizes.                                                                  *)
(***************************************************************************)

(* The three groups are finite; who is open is neither behind nor due.     *)
SizesOK ==
  /\ N \in Nat
  /\ Cardinality(Due) \in Nat /\ Cardinality(Open) \in Nat /\ Cardinality(Behind) \in Nat
  /\ IsFiniteSet(Due) /\ IsFiniteSet(Open) /\ IsFiniteSet(Behind)
  /\ Cardinality(Open) + Cardinality(Behind) <= N
  /\ Cardinality(Open) + Cardinality(Due) <= N

(* They are, in every state. *)
LEMMA Sizes == SizesOK
<1>1. N \in Nat
  BY FS_CardinalityType DEF N
<1>2. Due \in SUBSET Prober /\ Open \in SUBSET Prober /\ Behind \in SUBSET Prober
  BY DEF Due, Open, Behind
<1>3. IsFiniteSet(Due) /\ IsFiniteSet(Open) /\ IsFiniteSet(Behind)
  BY <1>2, FS_Subset
<1>4. Cardinality(Due) \in Nat /\ Cardinality(Open) \in Nat /\ Cardinality(Behind) \in Nat
  BY <1>3, FS_CardinalityType
<1>5. ASSUME NEW S \in SUBSET Prober, Open \cap S = {}
      PROVE  Cardinality(Open) <= N - Cardinality(S)
  <2>1. Open \in SUBSET (Prober \ S)
    BY <1>2, <1>5
  <2>2. Prober \cap S = S
    BY <1>2
  <2>3. /\ IsFiniteSet(Prober \ S)
        /\ Cardinality(Prober \ S) = N - Cardinality(S)
    BY <2>2, FS_Difference DEF N
  <2>4. Cardinality(Open) <= Cardinality(Prober \ S)
    BY <2>1, <2>3, FS_Subset
  <2>5. QED
    BY <2>3, <2>4
<1>6. Open \cap Behind = {} /\ Open \cap Due = {}
  BY DEF Open, Behind, Due
<1>7. QED
  BY <1>1, <1>2, <1>3, <1>4, <1>5, <1>6 DEF SizesOK

(* Whatever the probers hold, no more than the bound is still to come.     *)
LEMMA Budget ==
  ASSUME NEW n \in Nat, NEW d \in Nat, NEW o \in Nat, NEW b \in Nat,
         d + o <= n, b <= n
  PROVE  2 * d + 2 * o + b * (2 * n - b + 1) <= n * (n + 3)
<1>1. b * (2 * n - b + 1) <= n * (n + 1)
  <2> DEFINE c == n - b
  <2>1. c \in Nat /\ b = n - c
    OBVIOUS
  <2>2. (n - c) * (2 * n - (n - c) + 1) = n * (n + 1) - c * c - c
    BY <2>1
  <2>3. c * c >= 0
    BY <2>1
  <2>4. n * (n + 1) \in Int /\ c * c \in Int
    BY <2>1
  <2>5. QED
    BY <2>1, <2>2, <2>3, <2>4
<1>2. 2 * d + 2 * o <= 2 * n
  OBVIOUS
<1>3. n * (n + 3) = n * (n + 1) + 2 * n
  OBVIOUS
<1>4. QED
  BY <1>1, <1>2, <1>3

-----------------------------------------------------------------------------
(***************************************************************************)
(* The steps.                                                              *)
(***************************************************************************)

(* No prober is at work at first. *)
LEMMA InitLemma == Init => IInv
<1> SUFFICES ASSUME Init PROVE IInv
  OBVIOUS
<1>1. TypeOK
  <2>1. 0 \in 0 .. CountMod - 1 /\ 0 \in 0 .. MaxHealthy
    OBVIOUS
  <2>2. /\ probe \in [Prober -> {"idle", "compare", "store"}]
        /\ count \in [Prober -> 0 .. CountMod - 1]
        /\ status \in [Prober -> {HEALTHY, UNHEALTHY}]
    BY <2>1 DEF Init
  <2>3. QED
    BY <2>1, <2>2 DEF Init, TypeOK
<1>2. Due = {} /\ Behind = {} /\ lastCount = m_count /\ healthy = 0
  BY DEF Init, Due, Behind
<1>3. Cardinality(Due) = 0 /\ Cardinality(Behind) = 0
  BY <1>2, FS_EmptySet
<1>4. N \in Nat /\ N * (N + 3) >= 0
  BY Sizes DEF SizesOK
<1>5. BudgetInv
  BY <1>2, <1>3, <1>4 DEF BudgetInv, Twice
<1>6. QED
  BY <1>1, <1>5 DEF IInv

(* Every step keeps the types. *)
LEMMA TypeStep == TypeOK /\ [Next]_vars => TypeOK'
<1> SUFFICES ASSUME TypeOK, [Next]_vars PROVE TypeOK'
  OBVIOUS
<1> USE DEF TypeOK, probeVars
<1>1. ASSUME Counted PROVE m_count' \in 0 .. CountMod - 1 /\ healthy' \in 0 .. MaxHealthy
  BY <1>1 DEF Counted
<1>2. CASE SubRun
  BY <1>1, <1>2 DEF SubRun, SubTimeout, SubReceive, SubHandled, SubBreak
<1>3. CASE Listen \/ ListenReturns \/ StopServer \/ JoinServer
  BY <1>3 DEF Listen, ListenReturns, StopServer, JoinServer
<1>4. ASSUME NEW p \in Prober, ProbeCount(p) PROVE TypeOK'
  BY <1>4 DEF ProbeCount
<1>5. ASSUME NEW p \in Prober, ProbeCompare(p) PROVE TypeOK'
  BY <1>5 DEF ProbeCompare
<1>6. ASSUME NEW p \in Prober, ProbeStore(p) PROVE TypeOK'
  BY <1>6 DEF ProbeStore, Stored
<1>7. CASE UNCHANGED vars
  BY <1>7 DEF vars
<1>8. QED
  BY <1>2, <1>3, <1>4, <1>5, <1>6, <1>7 DEF Next, Server, Answer, Done

(* Every step keeps BudgetInv: each healthy answer is one that was still   *)
(* to come.                                                                *)
LEMMA BudgetStep == IInv /\ [Next]_vars => BudgetInv'
<1> SUFFICES ASSUME IInv, [Next]_vars PROVE BudgetInv'
  OBVIOUS
<1> DEFINE d == Cardinality(Due)
           o == Cardinality(Open)
           b == Cardinality(Behind)
<1>0. TypeOK /\ BudgetInv
  BY DEF IInv
<1>1. /\ N \in Nat /\ d \in Nat /\ o \in Nat /\ b \in Nat
      /\ IsFiniteSet(Due) /\ IsFiniteSet(Open) /\ IsFiniteSet(Behind)
      /\ o + b <= N /\ o + d <= N
  BY Sizes DEF SizesOK
<1>2. /\ d' \in Nat /\ o' \in Nat /\ b' \in Nat /\ N \in Nat
      /\ o' + b' <= N /\ o' + d' <= N
  <2>1. SizesOK'
    BY Sizes, PTL
  <2>2. QED
    BY <2>1 DEF SizesOK, N
<1>3. 2 * healthy + Twice(d, o, b, lastCount # m_count) <= N * (N + 3)
  BY <1>0 DEF BudgetInv
<1>4. healthy \in Nat
  BY <1>0 DEF TypeOK
<1>5. ASSUME NEW S \in SUBSET Due PROVE Cardinality(S) <= d
  BY <1>1, FS_Subset
<1>6. ASSUME UNCHANGED <<m_count, probeVars, healthy>> PROVE BudgetInv'
  <2>1. Due' = Due /\ Open' = Open /\ Behind' = Behind
    BY <1>6 DEF Due, Open, Behind, probeVars
  <2>2. QED
    BY <1>3, <1>6, <2>1 DEF BudgetInv, Twice, probeVars
<1>7. CASE Counted
  <2>1. healthy' = 0
    BY <1>7 DEF Counted
  <2>2. 2 * d' + 2 * o' + b' * (2 * N - b' + 1) <= N * (N + 3)
    BY <1>2, Budget
  <2>3. QED
    BY <1>2, <2>1, <2>2 DEF BudgetInv, Twice
<1>8. ASSUME NEW p \in Prober, ProbeCount(p) PROVE BudgetInv'
  <2>1. Due' = Due /\ Open' = Open /\ Behind' = Behind
    BY <1>0, <1>8 DEF ProbeCount, Due, Open, Behind, TypeOK
  <2>2. UNCHANGED <<m_count, lastCount, healthy>>
    BY <1>8 DEF ProbeCount
  <2>3. QED
    BY <1>3, <2>1, <2>2 DEF BudgetInv, Twice
<1>9. ASSUME NEW p \in Prober, ProbeCompare(p) PROVE BudgetInv'
  <2>1. /\ UNCHANGED <<m_count, count, lastCount, healthy>> /\ probe[p] = "compare"
        /\ probe' = [probe EXCEPT ![p] = "store"]
        /\ status' = [status EXCEPT ![p] = IF lastCount # count[p] THEN HEALTHY
                                           ELSE UNHEALTHY]
        /\ probe \in [Prober -> {"idle", "compare", "store"}]
        /\ status \in [Prober -> {HEALTHY, UNHEALTHY}]
    BY <1>0, <1>9 DEF ProbeCompare, TypeOK
  <2>2. Behind' = Behind
    BY <2>1 DEF Behind
  <2>3. CASE count[p] # m_count
    <3>1. Open' = Open
      BY <2>1, <2>3 DEF Open
    <3>2. Due' = Due \/ Due' = Due \ {p}
      BY <2>1, <2>3 DEF Due
    <3>3. d' <= d
      <4>1. Due' \in SUBSET Due
        BY <3>2
      <4>2. QED
        BY <1>5, <4>1
    <3>4. QED
      BY <1>1, <1>2, <1>3, <1>4, <2>1, <2>2, <3>1, <3>3 DEF BudgetInv, Twice
  <2>4. CASE count[p] = m_count /\ lastCount = m_count
    <3>1. Due' = Due
      BY <2>1, <2>4 DEF Due
    <3>2. QED
      BY <1>1, <1>2, <1>3, <1>4, <2>1, <2>2, <2>4, <3>1 DEF BudgetInv, Twice
  <2>5. CASE count[p] = m_count /\ lastCount # m_count
    <3>1. Due' = Due \cup {p} /\ p \notin Due
      BY <2>1, <2>5 DEF Due
    <3>2. Open' = Open \ {p} /\ p \in Open
      BY <2>1, <2>5 DEF Open
    <3>3. d' = d + 1 /\ o' = o - 1
      BY <1>1, <3>1, <3>2, FS_AddElement, FS_RemoveElement
    <3>4. QED
      BY <1>1, <1>2, <1>3, <1>4, <2>1, <2>2, <2>5, <3>3 DEF BudgetInv, Twice
  <2>6. QED
    BY <2>3, <2>4, <2>5
<1>10. ASSUME NEW p \in Prober, ProbeStore(p) PROVE BudgetInv'
  <2>1. /\ UNCHANGED <<m_count, count, status>> /\ probe[p] = "store"
        /\ probe' = [probe EXCEPT ![p] = "idle"]
        /\ lastCount' = count[p]
        /\ probe \in [Prober -> {"idle", "compare", "store"}]
    BY <1>0, <1>10 DEF ProbeStore, Stored, TypeOK
  <2>2. Due' = Due \ {p}
    BY <2>1 DEF Due
  <2>3. healthy' \in Nat /\ 2 * healthy' + 2 * d' <= 2 * healthy + 2 * d
    <3>1. CASE status[p] = HEALTHY
      <4>1. p \in Due
        BY <2>1, <3>1 DEF Due
      <4>2. d' = d - 1
        BY <1>1, <2>2, <4>1, FS_RemoveElement
      <4>3. healthy' \in Nat /\ healthy' <= healthy + 1
        BY <1>4, <1>10 DEF ProbeStore
      <4>4. QED
        BY <1>1, <1>4, <4>2, <4>3
    <3>2. CASE status[p] # HEALTHY
      <4>1. healthy' = healthy
        BY <1>10, <3>2 DEF ProbeStore
      <4>2. d' <= d
        <5>1. Due' \in SUBSET Due
          BY <2>2
        <5>2. QED
          BY <1>5, <5>1
      <4>3. QED
        BY <1>1, <1>2, <1>4, <4>1, <4>2
    <3>3. QED
      BY <3>1, <3>2
  <2>4. CASE count[p] = m_count
    <3>1. Behind' = Behind /\ lastCount' = m_count'
      BY <2>1, <2>4 DEF Behind
    <3>2. QED
      BY <1>1, <1>2, <1>3, <1>4, <2>3, <3>1 DEF BudgetInv, Twice
  <2>5. CASE count[p] # m_count
    <3>1. Behind' = Behind \ {p} /\ p \in Behind
      BY <2>1, <2>5 DEF Behind
    <3>2. b' = b - 1
      BY <1>1, <3>1, FS_RemoveElement
    <3>3. b * (2 * N - b + 1) = b' * (2 * N - b' + 1) + 2 * (N - b')
      BY <1>1, <3>2
    <3>4. 2 * o' <= 2 * (N - b')
      BY <1>1, <1>2
    <3>5. lastCount' # m_count'
      BY <2>1, <2>5
    <3>6. /\ b' * (2 * N - b' + 1) \in Int /\ b * (2 * N - b + 1) \in Int
          /\ N * (N + 3) \in Int
      BY <1>1, <1>2
    <3>7. 2 * healthy + 2 * d + b * (2 * N - b + 1) <= N * (N + 3)
      BY <1>1, <1>3, <1>4, <3>6 DEF Twice
    <3>8. 2 * healthy' + 2 * d' + 2 * o' + b' * (2 * N - b' + 1) <= N * (N + 3)
      BY <1>1, <1>2, <1>4, <2>3, <3>3, <3>4, <3>6, <3>7
    <3>9. QED
      BY <1>1, <1>2, <2>3, <3>5, <3>6, <3>8 DEF BudgetInv, Twice, N
  <2>6. QED
    BY <2>4, <2>5
<1>11. CASE SubRun
  BY <1>6, <1>7, <1>11 DEF SubRun, SubTimeout, SubReceive, SubHandled,
                           SubBreak, probeVars
<1>12. CASE Listen \/ ListenReturns \/ StopServer \/ JoinServer \/ UNCHANGED vars
  BY <1>6, <1>12 DEF Listen, ListenReturns, StopServer, JoinServer, vars, probeVars
<1>13. QED
  BY <1>8, <1>9, <1>10, <1>11, <1>12 DEF Next, Server, Answer, Done

-----------------------------------------------------------------------------
(***************************************************************************)
(* The theorems.                                                           *)
(***************************************************************************)

(* A server that does not listen yet, or has returned from listen(), has   *)
(* no probe in its pool, and main goes on only when it has returned.       *)
EndInv ==
  /\ server \in {"starting", "ended"} => \A p \in Prober : probe[p] = "idle"
  /\ main = "done" => server = "ended"

(* It is inductive, given the types. *)
LEMMA EndStep == TypeOK /\ EndInv /\ [Next]_vars => EndInv'
<1> SUFFICES ASSUME TypeOK, EndInv, [Next]_vars PROVE EndInv'
  OBVIOUS
<1> USE DEF EndInv, probeVars
<1>1. CASE SubRun
  BY <1>1 DEF SubRun, SubTimeout, SubReceive, SubHandled, SubBreak
<1>2. CASE Listen
  BY <1>2 DEF Listen
<1>3. CASE ListenReturns
  BY <1>3 DEF ListenReturns
<1>4. CASE StopServer
  BY <1>4 DEF StopServer
<1>5. CASE JoinServer
  BY <1>5 DEF JoinServer
<1>6. ASSUME NEW p \in Prober, ProbeCount(p) PROVE EndInv'
  BY <1>6 DEF ProbeCount
<1>7. ASSUME NEW p \in Prober, Answer(p) PROVE EndInv'
  BY <1>7 DEF Answer, ProbeCompare, ProbeStore
<1>8. CASE UNCHANGED vars
  BY <1>8 DEF vars
<1>9. QED
  BY <1>1, <1>2, <1>3, <1>4, <1>5, <1>6, <1>7, <1>8 DEF Next, Server, Done

(* IInv holds in every state of the endpoint. *)
LEMMA Invariance == Spec => []IInv
<1>1. IInv /\ [Next]_vars => IInv'
  BY TypeStep, BudgetStep DEF IInv
<1>2. QED
  BY <1>1, InitLemma, PTL DEF Spec

(* Every variable of the endpoint keeps its type. *)
THEOREM TypeCorrect == Spec => []TypeOK
<1>1. IInv => TypeOK
  BY DEF IInv
<1>2. QED
  BY <1>1, Invariance, PTL

(* With N threads in the pool, Health() answers "healthy" at most          *)
(* N * (N + 3) / 2 times after the last counted round, whatever counts the *)
(* probes that overlap compare and store.                                  *)
THEOREM DelayIsBounded == Spec => []Bounded(healthy)
<1>1. ASSUME IInv PROVE Bounded(healthy)
  <2>1. /\ N \in Nat /\ Cardinality(Due) \in Nat /\ Cardinality(Open) \in Nat
        /\ Cardinality(Behind) \in Nat /\ Cardinality(Behind) <= N
    BY Sizes DEF SizesOK
  <2>2. healthy \in Nat
    BY <1>1 DEF IInv, TypeOK
  <2>3. Cardinality(Behind) * (2 * N - Cardinality(Behind) + 1) >= 0
    BY <2>1
  <2>4. Twice(Cardinality(Due), Cardinality(Open), Cardinality(Behind),
              lastCount # m_count) >= 0
    BY <2>1, <2>3 DEF Twice
  <2>5. Twice(Cardinality(Due), Cardinality(Open), Cardinality(Behind),
              lastCount # m_count) \in Int
    BY <2>1 DEF Twice
  <2>6. QED
    BY <1>1, <2>1, <2>2, <2>4, <2>5 DEF IInv, BudgetInv, Bounded
<1>2. QED
  BY <1>1, Invariance, PTL

(* The pool that HealthStatus.h configures has two threads: a subscriber   *)
(* thread that is wedged is reported after at most five healthy answers.   *)
THEOREM DetectedInTime ==
  ASSUME Cardinality(Prober) = 2
  PROVE  Spec => []DetectionDelay
<1>1. TypeOK /\ Bounded(healthy) => DetectionDelay
  BY DEF TypeOK, Bounded, N, DetectionDelay
<1>2. QED
  BY <1>1, TypeCorrect, DelayIsBounded, PTL

(* While the stack is destroyed no probe is in Health(): whether the       *)
(* server was told to stop before or after it listened, or could not       *)
(* listen at all, main gets past the join only when the pool is idle.      *)
THEOREM ProbesEndFirst == Spec => []NoProbeOnDeadStack
<1>1. Init => EndInv
  BY DEF Init, EndInv
<1>2. EndInv => NoProbeOnDeadStack
  BY DEF EndInv, NoProbeOnDeadStack
<1>3. QED
  BY <1>1, <1>2, EndStep, TypeCorrect, PTL DEF Spec
=============================================================================
