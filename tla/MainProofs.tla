----------------------------- MODULE MainProofs -----------------------------
(***************************************************************************)
(* Proofs about the mains in ZmqService: what a command comes to (Commands) *)
(* and what settings a service comes up with (Startup).                    *)
(***************************************************************************)
EXTENDS ZmqService, FiniteSetTheorems, SequenceTheorems, TLAPS

(***************************************************************************)
(* Numbers of elements and least ones.                                     *)
(***************************************************************************)

(* A set of natural numbers has a least element.                           *)
LEMMA LeastNat ==
  ASSUME NEW T \in SUBSET Nat, T # {}
  PROVE  \E x \in T : \A y \in T : x <= y
<1> DEFINE R == {ss \in Nat \X Nat : ss[1] < ss[2]}
<1>1. IsWellFoundedOn(R, Nat)
  BY NatLessThanWellFounded DEF OpToRel
<1>2. PICK x \in T : \A y \in T : ~(<<y, x>> \in R)
  BY <1>1, WFMin
<1>3. \A y \in T : ~(y < x)
  BY <1>2
<1>4. QED
  BY <1>3

(* Min is the least element of a set of natural numbers.                   *)
LEMMA MinNat ==
  ASSUME NEW T \in SUBSET Nat, T # {}
  PROVE  Min(T) \in T /\ \A y \in T : Min(T) <= y
BY LeastNat DEF Min

(* The numbers of T, moved up by m. *)
Up(m, T) == {m + j : j \in T}

LEMMA UpCardinality ==
  ASSUME NEW m \in Nat, NEW T \in SUBSET Nat, IsFiniteSet(T)
  PROVE  IsFiniteSet(Up(m, T)) /\ Cardinality(Up(m, T)) = Cardinality(T)
<1> DEFINE f == [j \in T |-> m + j]
<1>1. f \in Bijection(T, Up(m, T))
  <2>1. f \in [T -> Up(m, T)]
    BY DEF Up
  <2>2. \A a, b \in T : f[a] = f[b] => a = b
    OBVIOUS
  <2>3. \A y \in Up(m, T) : \E a \in T : f[a] = y
    BY DEF Up
  <2> HIDE DEF f
  <2>4. f \in Injection(T, Up(m, T))
    BY <2>1, <2>2 DEF Injection, IsInjective
  <2>5. f \in Surjection(T, Up(m, T))
    BY <2>1, <2>3 DEF Surjection
  <2>6. QED
    BY <2>4, <2>5 DEF Bijection
<1>2. QED
  BY <1>1, FS_Bijection DEF ExistsBijection

LEMMA UpMin ==
  ASSUME NEW m \in Nat, NEW T \in SUBSET Nat, T # {}
  PROVE  Min(Up(m, T)) = m + Min(T)
<1>1. Min(T) \in T /\ \A y \in T : Min(T) <= y
  BY MinNat
<1>2. Up(m, T) \in SUBSET Nat /\ m + Min(T) \in Up(m, T)
  <2>1. \A j \in T : m + j \in Nat
    OBVIOUS
  <2>2. QED
    BY <1>1, <2>1 DEF Up
<1>3. Min(Up(m, T)) \in Up(m, T) /\ \A y \in Up(m, T) : Min(Up(m, T)) <= y
  BY <1>2, MinNat
<1>4. PICK j \in T : Min(Up(m, T)) = m + j
  BY <1>3 DEF Up
<1>5. m + j <= m + Min(T) /\ Min(T) <= j
  BY <1>1, <1>2, <1>3, <1>4
<1>6. Min(T) \in Nat /\ j \in Nat
  BY <1>1
<1>7. QED
  BY <1>4, <1>5, <1>6

LEMMA MinOfInterval ==
  ASSUME NEW a \in Nat, NEW b \in Nat, a <= b
  PROVE  Min(a .. b) = a
<1>1. a \in a .. b /\ \A y \in a .. b : a <= y
  OBVIOUS
<1>2. \A x \in a .. b : (\A y \in a .. b : x <= y) => x = a
  BY <1>1
<1>3. QED
  BY <1>1, <1>2 DEF Min

-----------------------------------------------------------------------------
(***************************************************************************)
(* The pieces of a line.                                                   *)
(***************************************************************************)

(* The cuts before place i, the places of the k-th piece, that piece, and  *)
(* what is between two places of a line.                                   *)
CutsBefore(cuts, i) == {j \in cuts : j < i}

Places(text, cuts, k) ==
  {i \in DOMAIN text \ cuts : Cardinality(CutsBefore(cuts, i)) = k - 1}

Piece(text, cuts, k) ==
  [i \in 1 .. Cardinality(Places(text, cuts, k)) |-> text[Min(Places(text, cuts, k)) + i - 1]]

Between(text, a, b) == [i \in 1 .. b - a |-> text[a + i]]

(* A piece whose places are those from a + 1 to b.                         *)
LEMMA PieceBetween ==
  ASSUME NEW text, NEW cuts, NEW k, NEW a \in Nat, NEW b \in Nat, a <= b,
         Places(text, cuts, k) = a + 1 .. b
  PROVE  Piece(text, cuts, k) = Between(text, a, b)
<1>1. Cardinality(a + 1 .. b) = b - a
  <2>1. a + 1 \in Int /\ b \in Int
    OBVIOUS
  <2>2. Cardinality(a + 1 .. b) = IF a + 1 > b THEN 0 ELSE b - (a + 1) + 1
    BY <2>1, FS_Interval
  <2>3. QED
    BY <2>2
<1>2. Piece(text, cuts, k) = [i \in 1 .. b - a |-> text[Min(a + 1 .. b) + i - 1]]
  BY <1>1 DEF Piece
<1>3. CASE a = b
  <2>1. \A i : i \notin 1 .. b - a
    BY <1>3
  <2>2. QED
    BY <1>2, <2>1 DEF Between
<1>4. CASE a < b
  <2>1. Min(a + 1 .. b) = a + 1
    BY <1>4, MinOfInterval
  <2>2. \A i \in 1 .. b - a : Min(a + 1 .. b) + i - 1 = a + i
    BY <2>1
  <2>3. QED
    BY <1>2, <2>2 DEF Between
<1>5. QED
  BY <1>3, <1>4

(* The delimiter is nowhere in s. *)
Free(s, delim) == \A i \in 1 .. Len(s) : s[i] # delim

(* A text is what is between its ends. *)
LEMMA WholeText ==
  ASSUME NEW S, NEW s \in Seq(S), NEW text, NEW a \in Nat,
         \A i \in 1 .. Len(s) : text[a + i] = s[i]
  PROVE  Between(text, a, a + Len(s)) = s
<1>1. a + Len(s) - a = Len(s)
  OBVIOUS
<1>2. Between(text, a, a + Len(s)) = [i \in 1 .. Len(s) |-> s[i]]
  BY <1>1 DEF Between
<1>3. QED
  BY <1>2

(* A line without delimiter is one piece.                                  *)
LEMMA OnePiece ==
  ASSUME NEW S, NEW s \in Seq(S), NEW delim \in S, Free(s, delim)
  PROVE  Pieces(s, Cuts(s, delim)) = <<s>>
<1>1. Cuts(s, delim) = {} /\ DOMAIN s = 1 .. Len(s) /\ Len(s) \in Nat
  <2>1. DOMAIN s = 1 .. Len(s) /\ Len(s) \in Nat
    OBVIOUS
  <2>2. QED
    BY <2>1 DEF Cuts, Free
<1>2. Cardinality({}) = 0
  BY FS_EmptySet
<1>3. Places(s, {}, 1) = 0 + 1 .. Len(s)
  <2>1. \A i : CutsBefore({}, i) = {}
    BY DEF CutsBefore
  <2>2. \A i : i \in Places(s, {}, 1) <=> i \in 1 .. Len(s)
    <3>1. \A i : Cardinality(CutsBefore({}, i)) = 1 - 1
      BY <1>2, <2>1
    <3>2. DOMAIN s \ {} = 1 .. Len(s)
      BY <1>1
    <3>3. QED
      BY <3>1, <3>2 DEF Places
  <2>3. 0 + 1 = 1
    OBVIOUS
  <2>4. Places(s, {}, 1) = 1 .. Len(s)
    BY <2>2
  <2>5. QED
    BY <2>3, <2>4
<1>4. Piece(s, {}, 1) = s
  <2>1. 0 \in Nat /\ 0 <= Len(s)
    BY <1>1
  <2>2. Piece(s, {}, 1) = Between(s, 0, Len(s))
    BY <1>1, <1>3, <2>1, PieceBetween
  <2>3. Between(s, 0, 0 + Len(s)) = s
    BY <1>1, WholeText
  <2>4. QED
    BY <1>1, <2>2, <2>3
<1>5. Pieces(s, {}) = [k \in 1 .. 1 |-> Piece(s, {}, k)]
  BY <1>2 DEF Pieces, Piece, Places, CutsBefore
<1>6. Pieces(s, {}) = <<s>>
  BY <1>4, <1>5
<1>7. QED
  BY <1>1, <1>6

(* Two texts with a delimiter between them, and where an element of them   *)
(* comes from.                                                             *)
Join(s, delim, t) == s \o <<delim>> \o t

LEMMA Joined ==
  ASSUME NEW S, NEW s \in Seq(S), NEW t \in Seq(S), NEW delim \in S
  PROVE  /\ Join(s, delim, t) \in Seq(S)
         /\ Len(Join(s, delim, t)) = Len(s) + 1 + Len(t)
         /\ \A i \in 1 .. Len(s) : Join(s, delim, t)[i] = s[i]
         /\ Join(s, delim, t)[Len(s) + 1] = delim
         /\ \A i \in 1 .. Len(t) : Join(s, delim, t)[(Len(s) + 1) + i] = t[i]
<1> DEFINE u == s \o <<delim>>
<1>1. <<delim>> \in Seq(S) /\ Len(<<delim>>) = 1 /\ <<delim>>[1] = delim
  OBVIOUS
<1>2. u \in Seq(S) /\ Len(u) = Len(s) + 1 /\ Len(s) \in Nat /\ Len(t) \in Nat
  BY <1>1, ConcatProperties
<1>3. u[Len(s) + 1] = delim /\ \A i \in 1 .. Len(s) : u[i] = s[i]
  <2>1. u = Append(s, delim)
    BY AppendIsConcat
  <2>2. QED
    BY <2>1
<1> HIDE DEF u
<1>4. /\ u \o t \in Seq(S) /\ Len(u \o t) = Len(u) + Len(t)
      /\ \A i \in 1 .. Len(u) : (u \o t)[i] = u[i]
      /\ \A i \in 1 .. Len(t) : (u \o t)[Len(u) + i] = t[i]
  BY <1>2
<1>5. QED
  <2>1. \A i \in 1 .. Len(s) : i \in 1 .. Len(u)
    BY <1>2
  <2>2. Len(s) + 1 \in 1 .. Len(u)
    BY <1>2
  <2>3. QED
    BY <1>2, <1>3, <1>4, <2>1, <2>2 DEF u, Join

LEMMA JoinedRest ==
  ASSUME NEW S, NEW s \in Seq(S), NEW t \in Seq(S), NEW delim \in S, NEW i \in 1 .. Len(t)
  PROVE  Join(s, delim, t)[(Len(s) + 1) + i] = t[i]
BY Joined

LEMMA JoinedFirst ==
  ASSUME NEW S, NEW s \in Seq(S), NEW t \in Seq(S), NEW delim \in S
  PROVE  /\ \A i \in 1 .. Len(s) : Join(s, delim, t)[i] = s[i]
         /\ Join(s, delim, t)[Len(s) + 1] = delim
BY Joined

(* x, and q after it. *)
Ahead(x, q) == [k \in 1 .. Len(q) + 1 |-> IF k = 1 THEN x ELSE q[k - 1]]

(* The first piece of a text is what is before its first delimiter; the    *)
(* others are those of what is after it.                                   *)
LEMMA NextPieces ==
  ASSUME NEW S, NEW s \in Seq(S), NEW t \in Seq(S), NEW delim \in S,
         Free(s, delim), t # <<>>
  PROVE  Pieces(Join(s, delim, t), Cuts(Join(s, delim, t), delim))
           = Ahead(s, Pieces(t, Cuts(t, delim)))
<1> DEFINE text == Join(s, delim, t)
           n == Len(s)
           m == n + 1
           C == Cuts(text, delim)
           D == Cuts(t, delim)
<1>1. n \in Nat /\ m \in Nat /\ Len(t) \in Nat /\ DOMAIN text = 1 .. m + Len(t)
      /\ DOMAIN t = 1 .. Len(t)
  <2>1. text \in Seq(S) /\ Len(text) = Len(s) + 1 + Len(t)
    BY Joined
  <2>2. Len(s) \in Nat /\ Len(t) \in Nat /\ DOMAIN text = 1 .. Len(text) /\ DOMAIN t = 1 .. Len(t)
    BY <2>1
  <2> HIDE DEF text
  <2>3. QED
    BY <2>1, <2>2
<1>2. /\ \A i \in 1 .. n : text[i] = s[i] /\ s[i] # delim
      /\ text[m] = delim
      /\ \A i \in 1 .. Len(t) : text[m + i] = t[i]
  <2>1. (\A i \in 1 .. Len(s) : text[i] = s[i]) /\ text[Len(s) + 1] = delim
    BY JoinedFirst
  <2>2. \A i \in 1 .. Len(t) : text[(Len(s) + 1) + i] = t[i]
    BY JoinedRest
  <2> HIDE DEF text
  <2>3. QED
    BY <2>1, <2>2 DEF Free
<1> HIDE DEF text
<1>3. \A i \in 1 .. m + Len(t) :
        i \in 1 .. n \/ i = m \/ \E j \in 1 .. Len(t) : i = m + j
  <2>1. ASSUME NEW i \in 1 .. m + Len(t), i \notin 1 .. n, i # m
        PROVE  \E j \in 1 .. Len(t) : i = m + j
    <3>1. i - m \in 1 .. Len(t) /\ i = m + (i - m)
      BY <1>1, <2>1
    <3>2. QED
      BY <3>1
  <2>2. QED
    BY <2>1
<1>4. D \subseteq 1 .. Len(t) /\ IsFiniteSet(D)
  <2>1. D \subseteq 1 .. Len(t) /\ IsFiniteSet(1 .. Len(t))
    BY <1>1, FS_Interval DEF Cuts
  <2>2. QED
    BY <2>1, FS_Subset
<1>5. C = {m} \cup Up(m, D)
  <2>1. ASSUME NEW i \in C PROVE i \in {m} \cup Up(m, D)
    <3>1. i \in 1 .. m + Len(t) /\ text[i] = delim
      BY <1>1 DEF Cuts
    <3>2. CASE i = m
      BY <3>2
    <3>3. CASE i # m
      <4>1. i \notin 1 .. n
        BY <1>2, <3>1
      <4>2. PICK j \in 1 .. Len(t) : i = m + j
        BY <1>3, <3>1, <3>3, <4>1
      <4>3. t[j] = delim
        BY <1>2, <3>1, <4>2
      <4>4. QED
        BY <1>1, <4>2, <4>3 DEF Cuts, Up
    <3>4. QED
      BY <3>2, <3>3
  <2>2. ASSUME NEW j \in D PROVE m + j \in C
    <3>1. j \in 1 .. Len(t) /\ t[j] = delim
      BY <1>1 DEF Cuts
    <3>2. m + j \in 1 .. m + Len(t) /\ text[m + j] = delim
      BY <1>1, <1>2, <3>1
    <3>3. QED
      BY <1>1, <3>2 DEF Cuts
  <2>3. m \in C
    BY <1>1, <1>2 DEF Cuts
  <2>4. QED
    BY <2>1, <2>2, <2>3 DEF Up
<1> HIDE DEF C, D
<1>6. ASSUME NEW T \in SUBSET D
      PROVE  /\ IsFiniteSet({m} \cup Up(m, T)) /\ Cardinality(T) \in Nat
             /\ Cardinality({m} \cup Up(m, T)) = Cardinality(T) + 1
  <2>1. IsFiniteSet(T) /\ T \in SUBSET Nat
    <3>1. 1 .. Len(t) \subseteq Nat
      OBVIOUS
    <3>2. QED
      BY <1>4, <3>1, FS_Subset
  <2>2. IsFiniteSet(Up(m, T)) /\ Cardinality(Up(m, T)) = Cardinality(T) /\ m \notin Up(m, T)
    <3>1. \A j \in T : m + j # m
      BY <1>1, <1>4
    <3>2. QED
      BY <1>1, <2>1, <3>1, UpCardinality DEF Up
  <2>3. {m} \cup Up(m, T) = Up(m, T) \cup {m}
    OBVIOUS
  <2>4. QED
    BY <2>1, <2>2, <2>3, FS_AddElement, FS_CardinalityType
<1>7. Cardinality(C) = Cardinality(D) + 1 /\ Cardinality(D) \in Nat
  BY <1>5, <1>6
(* Before place i of s there is no cut, before m + i those before i in t    *)
(* and one more.                                                           *)
<1>8. ASSUME NEW i \in 1 .. n PROVE Cardinality(CutsBefore(C, i)) = 0 /\ i \in DOMAIN text \ C
  <2>1. i < m /\ i \in 1 .. m + Len(t)
    BY <1>1
  <2>2. ASSUME NEW j \in C PROVE j >= m /\ j \in Nat
    <3>1. j = m \/ \E k \in D : j = m + k
      BY <1>5 DEF Up
    <3>2. \A k \in D : k \in Nat
      BY <1>1, <1>4
    <3>3. QED
      BY <1>1, <3>1, <3>2
  <2>3. CutsBefore(C, i) = {} /\ i \notin C
    BY <1>1, <2>1, <2>2 DEF CutsBefore
  <2>4. QED
    BY <1>1, <2>1, <2>3, FS_EmptySet
<1>9. ASSUME NEW i \in 1 .. Len(t)
      PROVE  /\ Cardinality(CutsBefore(C, m + i)) = Cardinality(CutsBefore(D, i)) + 1
             /\ Cardinality(CutsBefore(D, i)) \in Nat
             /\ m + i \in DOMAIN text /\ (m + i \in C <=> i \in D)
  <2> DEFINE T == CutsBefore(D, i)
  <2>1. CutsBefore(C, m + i) = {m} \cup Up(m, T)
    BY <1>1, <1>4, <1>5 DEF Up, CutsBefore
  <2>2. T \in SUBSET D
    BY DEF CutsBefore
  <2>3. m + i \in DOMAIN text
    BY <1>1
  <2>4. m + i \in C <=> i \in D
    BY <1>1, <1>4, <1>5 DEF Up
  <2> HIDE DEF T
  <2>5. Cardinality({m} \cup Up(m, T)) = Cardinality(T) + 1 /\ Cardinality(T) \in Nat
    BY <1>6, <2>2
  <2>6. QED
    BY <2>1, <2>3, <2>4, <2>5 DEF T
<1>10. Piece(text, C, 1) = s
  <2>1. Places(text, C, 1) = 0 + 1 .. n
    <3>1. ASSUME NEW i \in Places(text, C, 1) PROVE i \in 1 .. n
      <4>1. i \in 1 .. m + Len(t) /\ i \notin C /\ Cardinality(CutsBefore(C, i)) = 0
        BY <1>1 DEF Places
      <4>2. i # m
        BY <1>5, <4>1
      <4>3. ASSUME NEW k \in 1 .. Len(t), i = m + k PROVE FALSE
        <5>1. Cardinality(CutsBefore(C, m + k)) = 0
          BY <4>1, <4>3
        <5>2. QED
          BY <1>9, <5>1
      <4>4. QED
        BY <1>3, <4>1, <4>2, <4>3
    <3>2. ASSUME NEW i \in 1 .. n PROVE i \in Places(text, C, 1)
      BY <1>8, <3>2 DEF Places
    <3>3. 0 + 1 = 1
      OBVIOUS
    <3>4. Places(text, C, 1) = 1 .. n
      BY <3>1, <3>2
    <3>5. QED
      BY <3>3, <3>4
  <2>2. 0 \in Nat /\ 0 <= n
    BY <1>1
  <2>3. Piece(text, C, 1) = Between(text, 0, n)
    BY <1>1, <2>1, <2>2, PieceBetween
  <2>4. Between(text, 0, 0 + Len(s)) = s
    <3>1. \A i \in 1 .. Len(s) : 0 + i = i
      OBVIOUS
    <3>2. QED
      BY <1>1, <1>2, <3>1, WholeText
  <2>5. QED
    BY <1>1, <2>3, <2>4
<1>11. ASSUME NEW k \in 1 .. Cardinality(D) + 1
       PROVE  Piece(text, C, k + 1) = Piece(t, D, k)
  <2> DEFINE P == Places(t, D, k)
  <2>1. Places(text, C, k + 1) = Up(m, P)
    <3>1. ASSUME NEW i \in Places(text, C, k + 1) PROVE i \in Up(m, P)
      <4>1. i \in 1 .. m + Len(t) /\ i \notin C /\ Cardinality(CutsBefore(C, i)) = k + 1 - 1
        BY <1>1 DEF Places
      <4>2. i # m
        BY <1>5, <4>1
      <4>3. i \notin 1 .. n
        BY <1>7, <1>8, <4>1
      <4>4. PICK j \in 1 .. Len(t) : i = m + j
        BY <1>3, <4>1, <4>2, <4>3
      <4>5. j \notin D /\ Cardinality(CutsBefore(D, j)) = k - 1
        <5>1. Cardinality(CutsBefore(C, m + j)) = k + 1 - 1
          BY <4>1, <4>4
        <5>2. QED
          BY <1>7, <1>9, <4>1, <4>4, <5>1
      <4>6. QED
        BY <1>1, <4>4, <4>5 DEF Places, Up
    <3>2. ASSUME NEW j \in P PROVE m + j \in Places(text, C, k + 1)
      <4>1. j \in 1 .. Len(t) /\ j \notin D /\ Cardinality(CutsBefore(D, j)) = k - 1
        BY <1>1 DEF Places
      <4>2. QED
        BY <1>7, <1>9, <4>1 DEF Places
    <3>3. QED
      BY <3>1, <3>2 DEF Up
  <2>2. P \in SUBSET Nat /\ P \subseteq 1 .. Len(t) /\ IsFiniteSet(P)
    <3>1. P \subseteq 1 .. Len(t) /\ IsFiniteSet(1 .. Len(t))
      BY <1>1, FS_Interval DEF Places
    <3>2. QED
      BY <1>1, <3>1, FS_Subset
  <2>3. Cardinality(Up(m, P)) = Cardinality(P) /\ Cardinality(P) \in Nat
    BY <1>1, <2>2, UpCardinality, FS_CardinalityType
  <2>4. ASSUME NEW i \in 1 .. Cardinality(P)
        PROVE  text[Min(Up(m, P)) + i - 1] = t[Min(P) + i - 1]
    <3>1. P # {}
      <4>1. Cardinality(P) # 0
        BY <2>3
      <4>2. QED
        BY <4>1, FS_EmptySet
    <3>2. Min(Up(m, P)) = m + Min(P) /\ Min(P) \in P
      BY <1>1, <2>2, <3>1, UpMin, MinNat
    <3>3. Min(P) + i - 1 \in 1 .. Len(t)
      <4>1. P \subseteq Min(P) .. Len(t)
        BY <1>1, <2>2, <3>1, MinNat
      <4>2. /\ IsFiniteSet(Min(P) .. Len(t))
            /\ Cardinality(Min(P) .. Len(t)) = Len(t) - Min(P) + 1
        <5>1. Min(P) \in Int /\ Len(t) \in Int /\ ~(Min(P) > Len(t))
          BY <1>1, <2>2, <3>2
        <5>2. QED
          BY <5>1, FS_Interval
      <4>3. Cardinality(P) <= Len(t) - Min(P) + 1
        <5> DEFINE R == Min(P) .. Len(t)
        <5>1. IsFiniteSet(R) /\ Cardinality(R) = Len(t) - Min(P) + 1 /\ P \in SUBSET R
          BY <4>1, <4>2
        <5> HIDE DEF P, R
        <5>2. Cardinality(P) <= Cardinality(R)
          BY <5>1, FS_Subset
        <5>3. QED
          BY <5>1, <5>2 DEF R
      <4>4. Min(P) \in 1 .. Len(t)
        BY <2>2, <3>2
      <4> HIDE DEF P
      <4>5. QED
        BY <1>1, <2>3, <4>3, <4>4
    <3>4. QED
      <4>1. text[m + (Min(P) + i - 1)] = t[Min(P) + i - 1]
        BY <1>2, <3>3
      <4>2. Min(P) \in Nat
        BY <2>2, <3>2
      <4>3. (m + Min(P)) + i - 1 = m + (Min(P) + i - 1)
        BY <1>1, <4>2
      <4>4. QED
        BY <3>2, <4>1, <4>3
  <2>5. Piece(text, C, k + 1) = [i \in 1 .. Cardinality(P) |-> t[Min(P) + i - 1]]
    BY <2>1, <2>3, <2>4 DEF Piece
  <2>6. QED
    BY <2>5 DEF Piece
<1>12. Pieces(text, C) = Ahead(s, Pieces(t, D))
  <2> DEFINE c == Cardinality(D) + 1
  <2>1. Pieces(t, D) = [k \in 1 .. c |-> Piece(t, D, k)]
    BY DEF Pieces, Piece, Places, CutsBefore
  <2>2. Pieces(text, C) = [k \in 1 .. c + 1 |-> Piece(text, C, k)]
    BY <1>7 DEF Pieces, Piece, Places, CutsBefore
  <2>3. Len(Pieces(t, D)) = c
    BY <1>7, <2>1
  <2>4. Ahead(s, Pieces(t, D)) = [k \in 1 .. c + 1 |-> IF k = 1 THEN s ELSE Pieces(t, D)[k - 1]]
    BY <2>3 DEF Ahead
  <2>5. ASSUME NEW k \in 1 .. c + 1
        PROVE  Piece(text, C, k) = IF k = 1 THEN s ELSE Pieces(t, D)[k - 1]
    <3>1. CASE k = 1
      BY <1>10, <3>1
    <3>2. CASE k # 1
      <4>1. k - 1 \in 1 .. c /\ (k - 1) + 1 = k
        BY <1>7, <3>2
      <4>2. Piece(text, C, (k - 1) + 1) = Piece(t, D, k - 1)
        BY <1>11, <4>1
      <4>3. QED
        BY <2>1, <3>2, <4>1, <4>2
    <3>3. QED
      BY <3>1, <3>2
  <2>6. QED
    BY <2>2, <2>4, <2>5
<1>13. QED
  BY <1>12 DEF text, C, D
(* Tuples of pieces. *)
LEMMA Tuples ==
  ASSUME NEW x, NEW y, NEW z
  PROVE  Ahead(x, <<y>>) = <<x, y>> /\ Ahead(x, <<y, z>>) = <<x, y, z>>
<1>1. \A k \in 1 .. 3 : (k = 1 \/ k = 2 \/ k = 3) /\ 2 - 1 = 1 /\ 3 - 1 = 2
  OBVIOUS
<1>2. Ahead(x, <<y>>) = <<x, y>>
  BY <1>1 DEF Ahead
<1>3. Ahead(x, <<y, z>>) = <<x, y, z>>
  <2>1. Len(<<y, z>>) + 1 = 3 /\ <<y, z>>[1] = y /\ <<y, z>>[2] = z
    OBVIOUS
  <2>2. Ahead(x, <<y, z>>) = [k \in 1 .. 3 |-> IF k = 1 THEN x ELSE IF k = 2 THEN y ELSE z]
    BY <1>1, <2>1 DEF Ahead
  <2>3. QED
    BY <2>2
<1>4. QED
  BY <1>2, <1>3

(* What split makes of a line with no delimiter, with one and with two.    *)
LEMMA SplitFree ==
  ASSUME NEW S, NEW s \in Seq(S), NEW delim \in S, Free(s, delim), s # <<>>
  PROVE  Split(s, delim) = <<s>>
<1>1. Pieces(s, Cuts(s, delim)) = <<s>>
  BY OnePiece
<1>2. Last(<<s>>) = s
  BY DEF Last
<1>3. QED
  BY <1>1, <1>2 DEF Split

LEMMA SplitOnce ==
  ASSUME NEW S, NEW s \in Seq(S), NEW t \in Seq(S), NEW delim \in S,
         Free(s, delim), Free(t, delim), t # <<>>
  PROVE  Split(Join(s, delim, t), delim) = <<s, t>>
<1> DEFINE text == Join(s, delim, t)
<1>1. Pieces(t, Cuts(t, delim)) = <<t>>
  BY OnePiece
<1>2. Pieces(text, Cuts(text, delim)) = Ahead(s, Pieces(t, Cuts(t, delim)))
  BY NextPieces
<1>3. Ahead(s, <<t>>) = <<s, t>>
  BY Tuples
<1> HIDE DEF text
<1>4. Pieces(text, Cuts(text, delim)) = <<s, t>>
  BY <1>1, <1>2, <1>3
<1>5. Last(<<s, t>>) = t
  BY DEF Last
<1>6. QED
  BY <1>4, <1>5 DEF Split, text

LEMMA SplitTwice ==
  ASSUME NEW S, NEW s \in Seq(S), NEW t \in Seq(S), NEW u \in Seq(S), NEW delim \in S,
         Free(s, delim), Free(t, delim), Free(u, delim), u # <<>>
  PROVE  Split(Join(s, delim, Join(t, delim, u)), delim) = <<s, t, u>>
<1> DEFINE rest == Join(t, delim, u)
           text == Join(s, delim, rest)
<1>1. rest \in Seq(S) /\ rest # <<>>
  BY Joined
<1>2. Pieces(rest, Cuts(rest, delim)) = <<t, u>>
  <2>1. Pieces(u, Cuts(u, delim)) = <<u>>
    BY OnePiece
  <2>2. Pieces(rest, Cuts(rest, delim)) = Ahead(t, Pieces(u, Cuts(u, delim)))
    BY NextPieces
  <2>3. Ahead(t, <<u>>) = <<t, u>>
    BY Tuples
  <2> HIDE DEF rest
  <2>4. QED
    BY <2>1, <2>2, <2>3
<1> HIDE DEF rest
<1>3. Pieces(text, Cuts(text, delim)) = Ahead(s, Pieces(rest, Cuts(rest, delim)))
  BY <1>1, NextPieces
<1>4. Ahead(s, <<t, u>>) = <<s, t, u>>
  BY Tuples
<1> HIDE DEF text
<1>5. Pieces(text, Cuts(text, delim)) = <<s, t, u>>
  BY <1>2, <1>3, <1>4
<1>6. Last(<<s, t, u>>) = u
  BY DEF Last
<1>7. QED
  BY <1>5, <1>6 DEF Split, text, rest

-----------------------------------------------------------------------------
(***************************************************************************)
(* The commands, for topics and messages that are any texts.               *)
(***************************************************************************)

(* A line with a bar and something around it is no single word.            *)
LEMMA NoSingleWord ==
  ASSUME NEW S, NEW s \in Seq(S), NEW m \in Seq(S), Bar \in S, s # <<>>, m # <<>>, NEW w
  PROVE  Join(s, Bar, m) # <<w>>
<1>1. Len(Join(s, Bar, m)) = Len(s) + 1 + Len(m)
  BY Joined
<1>2. Len(s) \in Nat /\ Len(m) \in Nat /\ Len(s) # 0 /\ Len(<<w>>) = 1
  OBVIOUS
<1>3. Len(Join(s, Bar, m)) # Len(<<w>>)
  BY <1>1, <1>2
<1>4. QED
  BY <1>3

(* What each interactive loop makes of a line with its bars and a message  *)
(* without one.                                                            *)
LEMMA ZmqStackLine ==
  ASSUME NEW S, Bar \in S, NEW s \in Seq(S), NEW m \in Seq(S),
         Free(s, Bar), Free(m, Bar), m # <<>>, s # <<>>,
         NEW cmds, cmds = Split(s, Blank), cmds # <<>>, NEW c, c = cmds[1]
  PROVE  /\ c = <<"sub">>   => ZmqStackCommand(Join(s, Bar, m)) = Call("Subscribe", <<>>, m)
         /\ c = <<"unsub">> => ZmqStackCommand(Join(s, Bar, m)) = Call("Unsubscribe", <<>>, m)
         /\ c = <<"send">>  => ZmqStackCommand(Join(s, Bar, m)) = Call("Send", <<>>, m)
         /\ c \notin {<<"sub">>, <<"unsub">>, <<"send">>} =>
              ZmqStackCommand(Join(s, Bar, m)) = Call("Publish", cmds, m)
<1> DEFINE text == Join(s, Bar, m)
<1>1. Split(text, Bar) = <<s, m>>
  BY SplitOnce
<1>2. text # <<"quit">> /\ text # <<"list">>
  BY NoSingleWord
<1> HIDE DEF text
<1>3. ZmqStackCommand(text) =
        CASE c = <<"sub">>   -> Call("Subscribe", <<>>, m)
          [] c = <<"unsub">> -> Call("Unsubscribe", <<>>, m)
          [] c = <<"send">>  -> Call("Send", <<>>, m)
          [] OTHER           -> Call("Publish", cmds, m)
  BY <1>1, <1>2 DEF ZmqStackCommand
<1>4. <<"sub">> # <<"unsub">> /\ <<"sub">> # <<"send">> /\ <<"unsub">> # <<"send">>
  OBVIOUS
<1>5. QED
  BY <1>3, <1>4 DEF text

LEMMA ConvStackLine ==
  ASSUME NEW S, Bar \in S, NEW s \in Seq(S), NEW m \in Seq(S),
         Free(s, Bar), Free(m, Bar), m # <<>>, s # <<>>,
         Split(s, Blank) # <<>>, Split(s, Blank)[1] = <<"unsub">>
  PROVE  ConvStackCommand(Join(s, Bar, m)) = Call("RemoveConversion", <<>>, m)
<1> DEFINE text == Join(s, Bar, m)
<1>1. Split(text, Bar) = <<s, m>>
  BY SplitOnce
<1>2. text # <<"quit">> /\ text # <<"list">>
  BY NoSingleWord
<1>3. <<"unsub">> # <<"sub">>
  OBVIOUS
<1> HIDE DEF text
<1>4. QED
  BY <1>1, <1>2, <1>3 DEF ConvStackCommand, text

LEMMA InprocStackLine ==
  ASSUME NEW S, Bar \in S, "0" \in S, NEW s \in Seq(S), NEW m \in Seq(S),
         Free(s, Bar), Free(m, Bar), m # <<>>, s # <<>>,
         NEW cmds, cmds = Split(s, Blank), cmds # <<>>, NEW c, c = cmds[1],
         NEW line1, line1 = Join(<<"0">>, Bar, Join(s, Bar, m))
  PROVE  /\ c = <<"sub">>   => InprocStackCommand(line1) = Call("Subscribe", <<"0">>, m)
         /\ c = <<"unsub">> => InprocStackCommand(line1) = Call("Unsubscribe", <<"0">>, m)
         /\ c \notin {<<"sub">>, <<"unsub">>} =>
              InprocStackCommand(line1) = Call("Publish", << <<"0">> >> \o cmds, m)
<1> DEFINE rest == Join(s, Bar, m)
           text == Join(<<"0">>, Bar, rest)
<1>1. <<"0">> \in Seq(S) /\ <<"0">> # <<>> /\ Free(<<"0">>, Bar)
  BY DEF Free, Bar
<1>2. Split(text, Bar) = << <<"0">>, s, m >>
  BY <1>1, SplitTwice
<1>3. rest \in Seq(S) /\ rest # <<>>
  <2>1. rest \in Seq(S) /\ Len(rest) = Len(s) + 1 + Len(m)
    BY Joined
  <2> HIDE DEF rest
  <2>2. QED
    BY <2>1
<1> HIDE DEF rest
<1>4. text # <<"quit">>
  BY <1>1, <1>3, NoSingleWord
<1>5. {i \in DOMAIN <<"0">> : <<"0">>[i] # Blank} = {1}
  <2>1. DOMAIN <<"0">> = {1}
    OBVIOUS
  <2>2. <<"0">>[1] = "0" /\ "0" # Blank
    BY DEF Blank
  <2>3. QED
    BY <2>1, <2>2
<1>6. Min({1}) = 1
  BY DEF Min
<1> HIDE DEF text
<1>7. <<"0">>[1] = "0" /\ <<"0">> # <<"9">> /\ 1 \in {1}
  OBVIOUS
<1> DEFINE parse == Split(text, Bar)
<1>8. Len(parse) = 3 /\ parse[1] = <<"0">> /\ parse[2] = s /\ parse[3] = m
  BY <1>2
<1> HIDE DEF parse
<1> DEFINE digits == {i \in DOMAIN parse[1] : parse[1][i] # Blank}
           stack  == <<parse[1][Min(digits)]>>
<1>9. digits # {} /\ stack = <<"0">>
  BY <1>5, <1>6, <1>7, <1>8
<1> HIDE DEF digits, stack
<1>10. InprocStackCommand(text) =
         LET cmds1 == Split(parse[2], Blank) IN
           IF text = <<"quit">> THEN Quit
           ELSE IF Len(parse) # 3 THEN Nothing
           ELSE IF digits = {} \/ stack \notin {<<"0">>, <<"9">>} THEN Abort
           ELSE IF stack = <<"9">> \/ cmds1 = <<>> THEN Nothing
           ELSE CASE cmds1[1] = <<"sub">>   -> Call("Subscribe", stack, parse[3])
                  [] cmds1[1] = <<"unsub">> -> Call("Unsubscribe", stack, parse[3])
                  [] OTHER                 -> Call("Publish", <<stack>> \o cmds1, parse[3])
  BY DEF InprocStackCommand, parse, digits, stack
<1>11. <<"sub">> # <<"unsub">>
  OBVIOUS
<1>12. InprocStackCommand(text) =
         CASE c = <<"sub">>   -> Call("Subscribe", <<"0">>, m)
           [] c = <<"unsub">> -> Call("Unsubscribe", <<"0">>, m)
           [] OTHER           -> Call("Publish", << <<"0">> >> \o cmds, m)
  BY <1>4, <1>7, <1>8, <1>9, <1>10
<1>13. QED
  BY <1>11, <1>12 DEF text, rest

(***************************************************************************)
(* The documented commands.                                                *)
(***************************************************************************)
Word == {Bar, Blank, Colon, "quit", "list", "send", "sub", "unsub", "t", "u", "m", "0"}

LEMMA Marks == Bar \in Word /\ Blank \in Word /\ Bar # Blank
BY DEF Word, Bar, Blank

(* A topic, and two with a blank between them.                             *)
LEMMA OneTopic ==
  ASSUME NEW w \in Word, w # Bar, w # Blank
  PROVE  /\ <<w>> \in Seq(Word) /\ <<w>> # <<>> /\ Free(<<w>>, Bar)
         /\ Split(<<w>>, Blank) = << <<w>> >>
<1>1. <<w>> \in Seq(Word) /\ <<w>> # <<>>
  OBVIOUS
<1>2. Free(<<w>>, Bar) /\ Free(<<w>>, Blank)
  BY DEF Free
<1>3. QED
  BY <1>1, <1>2, SplitFree, Marks

LEMMA TwoTopics ==
  /\ <<"t", Blank, "u">> \in Seq(Word) /\ <<"t", Blank, "u">> # <<>>
  /\ Free(<<"t", Blank, "u">>, Bar)
  /\ Split(<<"t", Blank, "u">>, Blank) = << <<"t">>, <<"u">> >>
<1>1. <<"t", Blank, "u">> \in Seq(Word) /\ <<"t", Blank, "u">> # <<>>
  BY DEF Word
<1>2. Free(<<"t", Blank, "u">>, Bar)
  <2>1. Len(<<"t", Blank, "u">>) = 3 /\ \A i \in 1 .. 3 : i = 1 \/ i = 2 \/ i = 3
    OBVIOUS
  <2>2. "t" # Bar /\ Blank # Bar /\ "u" # Bar
    BY DEF Bar, Blank
  <2>3. QED
    BY <2>1, <2>2 DEF Free
<1>3. <<"t", Blank, "u">> = Join(<<"t">>, Blank, <<"u">>)
  BY DEF Join
<1>4. Free(<<"t">>, Blank) /\ Free(<<"u">>, Blank)
  <2>1. "t" # Blank /\ "u" # Blank
    BY DEF Blank
  <2>2. QED
    BY <2>1 DEF Free
<1>5. <<"t">> \in Seq(Word) /\ <<"u">> \in Seq(Word) /\ <<"u">> # <<>>
  BY DEF Word
<1>6. Split(Join(<<"t">>, Blank, <<"u">>), Blank) = << <<"t">>, <<"u">> >>
  BY <1>4, <1>5, SplitOnce, Marks
<1>7. QED
  BY <1>1, <1>2, <1>3, <1>6

(* An element of two texts with a delimiter between them, by its place.     *)
LEMMA JoinedAt ==
  ASSUME NEW S, NEW s \in Seq(S), NEW t \in Seq(S), NEW delim \in S,
         NEW j \in 1 .. Len(s) + 1 + Len(t)
  PROVE  Join(s, delim, t)[j]
           = IF j <= Len(s) THEN s[j]
             ELSE IF j = Len(s) + 1 THEN delim ELSE t[j - (Len(s) + 1)]
<1>1. Len(s) \in Nat /\ Len(t) \in Nat
  OBVIOUS
<1>2. CASE j > Len(s) + 1
  <2>1. PICK i \in 1 .. Len(t) : (Len(s) + 1) + i = j /\ i = j - (Len(s) + 1)
    <3>1. j - (Len(s) + 1) \in 1 .. Len(t)
      BY <1>1, <1>2
    <3>2. (Len(s) + 1) + (j - (Len(s) + 1)) = j
      BY <1>1
    <3>3. QED
      BY <3>1, <3>2
  <2>2. Join(s, delim, t)[(Len(s) + 1) + i] = t[i]
    BY JoinedRest
  <2>3. QED
    BY <1>1, <1>2, <2>1, <2>2
<1>3. CASE j = Len(s) + 1
  <2>1. Join(s, delim, t)[Len(s) + 1] = delim
    BY Joined
  <2>2. QED
    BY <1>1, <1>3, <2>1
<1>4. CASE j <= Len(s)
  <2>1. \A i \in 1 .. Len(s) : Join(s, delim, t)[i] = s[i]
    BY Joined
  <2>2. QED
    BY <1>1, <1>4, <2>1
<1>5. QED
  BY <1>1, <1>2, <1>3, <1>4

LEMMA JoinedWords ==
  ASSUME NEW s \in Seq(Word), NEW t \in Seq(Word)
  PROVE  /\ Join(s, Bar, t) \in Seq(Word)
         /\ Len(Join(s, Bar, t)) = Len(s) + 1 + Len(t)
         /\ \A j \in 1 .. Len(s) + 1 + Len(t) :
              Join(s, Bar, t)[j] = IF j <= Len(s) THEN s[j]
                ELSE IF j = Len(s) + 1 THEN Bar ELSE t[j - (Len(s) + 1)]
<1>1. Join(s, Bar, t) \in Seq(Word) /\ Len(Join(s, Bar, t)) = Len(s) + 1 + Len(t)
  BY Joined, Marks
<1>2. ASSUME NEW j \in 1 .. Len(s) + 1 + Len(t)
      PROVE  Join(s, Bar, t)[j] = IF j <= Len(s) THEN s[j]
               ELSE IF j = Len(s) + 1 THEN Bar ELSE t[j - (Len(s) + 1)]
  BY JoinedAt, Marks
<1>3. QED
  BY <1>1, <1>2

(* A short sequence is the tuple of its elements.                          *)
LEMMA Elements ==
  ASSUME NEW S, NEW f \in Seq(S)
  PROVE  /\ Len(f) = 3 => f = <<f[1], f[2], f[3]>>
         /\ Len(f) = 5 => f = <<f[1], f[2], f[3], f[4], f[5]>>
         /\ Len(f) = 7 => f = <<f[1], f[2], f[3], f[4], f[5], f[6], f[7]>>
<1>1. Len(f) = 3 => f = <<f[1], f[2], f[3]>>
  OBVIOUS
<1>2. Len(f) = 5 => f = <<f[1], f[2], f[3], f[4], f[5]>>
  OBVIOUS
<1>3. Len(f) = 7 => f = <<f[1], f[2], f[3], f[4], f[5], f[6], f[7]>>
  OBVIOUS
<1>4. QED
  BY <1>1, <1>2, <1>3

(* A tuple with one more element before it.                                *)
LEMMA Prefixed ==
  ASSUME NEW a, NEW b, NEW c
  PROVE  <<a>> \o <<b>> = <<a, b>> /\ <<a>> \o <<b, c>> = <<a, b, c>>
<1> DEFINE S == {a, b, c}
<1>1. PICK p, q, r : p = <<a>> /\ q = <<b>> /\ r = <<b, c>>
  OBVIOUS
<1>2. /\ p \in Seq(S) /\ Len(p) = 1 /\ p[1] = a
      /\ q \in Seq(S) /\ Len(q) = 1 /\ q[1] = b
      /\ r \in Seq(S) /\ Len(r) = 2 /\ r[1] = b /\ r[2] = c
  BY <1>1
<1> HIDE DEF S
<1>3. p \o q = <<a, b>>
  <2>1. PICK f : f = p \o q
    OBVIOUS
  <2>2. /\ f \in Seq(S) /\ Len(f) = 2
        /\ f[1] = p[1] /\ f[2] = q[1]
    <3>1. p \in Seq(S) /\ q \in Seq(S)
      BY <1>2
    <3>2. /\ p \o q \in Seq(S) /\ Len(p \o q) = Len(p) + Len(q)
          /\ \A i \in 1 .. Len(p) + Len(q) :
               (p \o q)[i] = IF i <= Len(p) THEN p[i] ELSE q[i - Len(p)]
      BY <3>1, ConcatProperties
    <3>3. /\ f \in Seq(S) /\ Len(f) = Len(p) + Len(q)
          /\ \A i \in 1 .. Len(p) + Len(q) :
               f[i] = IF i <= Len(p) THEN p[i] ELSE q[i - Len(p)]
      BY <2>1, <3>2
    <3>4. Len(p) = 1 /\ Len(q) = 1
      BY <1>2
    <3>5. QED
      BY <3>3, <3>4
  <2>3. f = <<f[1], f[2]>>
    BY <2>2
  <2>4. QED
    BY <1>2, <2>1, <2>2, <2>3
<1>4. p \o r = <<a, b, c>>
  <2>1. PICK f : f = p \o r
    OBVIOUS
  <2>2. /\ f \in Seq(S) /\ Len(f) = 3
        /\ f[1] = p[1] /\ f[2] = r[1] /\ f[3] = r[2]
    <3>1. p \in Seq(S) /\ r \in Seq(S)
      BY <1>2
    <3>2. /\ p \o r \in Seq(S) /\ Len(p \o r) = Len(p) + Len(r)
          /\ \A i \in 1 .. Len(p) + Len(r) :
               (p \o r)[i] = IF i <= Len(p) THEN p[i] ELSE r[i - Len(p)]
      BY <3>1, ConcatProperties
    <3>3. /\ f \in Seq(S) /\ Len(f) = Len(p) + Len(r)
          /\ \A i \in 1 .. Len(p) + Len(r) :
               f[i] = IF i <= Len(p) THEN p[i] ELSE r[i - Len(p)]
      BY <2>1, <3>2
    <3>4. Len(p) = 1 /\ Len(r) = 2
      BY <1>2
    <3>5. QED
      BY <3>3, <3>4
  <2>3. f = <<f[1], f[2], f[3]>>
    BY <2>2
  <2>4. QED
    BY <1>2, <2>1, <2>2, <2>3
<1>5. QED
  BY <1>1, <1>3, <1>4

(* The documented lines as texts with bars between them.                   *)
LEMMA DocLines ==
  ASSUME NEW x \in Word, NEW y \in Word
  PROVE  /\ Join(<<x>>, Bar, <<y>>) = <<x, Bar, y>>
         /\ Join(<<"t", Blank, "u">>, Bar, <<y>>) = <<"t", Blank, "u", Bar, y>>
         /\ Join(<<"0">>, Bar, Join(<<x>>, Bar, <<y>>)) = <<"0", Bar, x, Bar, y>>
         /\ Join(<<"0">>, Bar, Join(<<"t", Blank, "u">>, Bar, <<y>>))
              = <<"0", Bar, "t", Blank, "u", Bar, y>>
<1> DEFINE o == <<"0">>  s == <<x>>  t == <<y>>  u == <<"t", Blank, "u">>
<1>1. /\ o \in Seq(Word) /\ Len(o) = 1 /\ o[1] = "0"
      /\ s \in Seq(Word) /\ Len(s) = 1 /\ s[1] = x
      /\ t \in Seq(Word) /\ Len(t) = 1 /\ t[1] = y
      /\ u \in Seq(Word) /\ Len(u) = 3 /\ u[1] = "t" /\ u[2] = Blank /\ u[3] = "u"
  BY DEF Word
<1> HIDE DEF o, s, t, u
<1>2. Join(s, Bar, t) = <<x, Bar, y>>
  <2>1. PICK f : f = Join(s, Bar, t)
    OBVIOUS
  <2>2. /\ f \in Seq(Word) /\ Len(f) = 3
        /\ \A j \in 1 .. 3 : f[j] = IF j <= 1 THEN s[j] ELSE IF j = 2 THEN Bar ELSE t[j - 2]
    <3>1. s \in Seq(Word) /\ t \in Seq(Word)
      BY <1>1
    <3>2. /\ Join(s, Bar, t) \in Seq(Word)
          /\ Len(Join(s, Bar, t)) = Len(s) + 1 + Len(t)
          /\ \A j \in 1 .. Len(s) + 1 + Len(t) :
               Join(s, Bar, t)[j] = IF j <= Len(s) THEN s[j]
                 ELSE IF j = Len(s) + 1 THEN Bar ELSE t[j - (Len(s) + 1)]
      BY <3>1, JoinedWords
    <3>3. QED
      BY <1>1, <2>1, <3>2
  <2>3. f[1] = x /\ f[2] = Bar /\ f[3] = y
    BY <1>1, <2>2
  <2>4. f = <<f[1], f[2], f[3]>>
    BY <2>2, Elements
  <2>5. QED
    BY <2>1, <2>3, <2>4
<1>3. Join(u, Bar, t) = <<"t", Blank, "u", Bar, y>>
  <2>1. PICK f : f = Join(u, Bar, t)
    OBVIOUS
  <2>2. /\ f \in Seq(Word) /\ Len(f) = 5
        /\ \A j \in 1 .. 5 : f[j] = IF j <= 3 THEN u[j] ELSE IF j = 4 THEN Bar ELSE t[j - 4]
    <3>1. u \in Seq(Word) /\ t \in Seq(Word)
      BY <1>1
    <3>2. /\ Join(u, Bar, t) \in Seq(Word)
          /\ Len(Join(u, Bar, t)) = Len(u) + 1 + Len(t)
          /\ \A j \in 1 .. Len(u) + 1 + Len(t) :
               Join(u, Bar, t)[j] = IF j <= Len(u) THEN u[j]
                 ELSE IF j = Len(u) + 1 THEN Bar ELSE t[j - (Len(u) + 1)]
      BY <3>1, JoinedWords
    <3>3. QED
      BY <1>1, <2>1, <3>2
  <2>3. f[1] = "t" /\ f[2] = Blank /\ f[3] = "u" /\ f[4] = Bar /\ f[5] = y
    BY <1>1, <2>2
  <2>4. f = <<f[1], f[2], f[3], f[4], f[5]>>
    BY <2>2, Elements
  <2>5. QED
    BY <2>1, <2>3, <2>4
<1>4. Join(o, Bar, <<x, Bar, y>>) = <<"0", Bar, x, Bar, y>>
  <2> DEFINE r == <<x, Bar, y>>
  <2>1. r \in Seq(Word) /\ Len(r) = 3 /\ r[1] = x /\ r[2] = Bar /\ r[3] = y
    BY Marks
  <2> HIDE DEF r
  <2>2. PICK f : f = Join(o, Bar, r)
    OBVIOUS
  <2>3. /\ f \in Seq(Word) /\ Len(f) = 5
        /\ \A j \in 1 .. 5 : f[j] = IF j <= 1 THEN o[j] ELSE IF j = 2 THEN Bar ELSE r[j - 2]
    <3>1. o \in Seq(Word) /\ r \in Seq(Word)
      BY <1>1, <2>1
    <3>2. /\ Join(o, Bar, r) \in Seq(Word)
          /\ Len(Join(o, Bar, r)) = Len(o) + 1 + Len(r)
          /\ \A j \in 1 .. Len(o) + 1 + Len(r) :
               Join(o, Bar, r)[j] = IF j <= Len(o) THEN o[j]
                 ELSE IF j = Len(o) + 1 THEN Bar ELSE r[j - (Len(o) + 1)]
      BY <3>1, JoinedWords
    <3>3. QED
      BY <1>1, <2>1, <2>2, <3>2
  <2>4. f[1] = "0" /\ f[2] = Bar /\ f[3] = x /\ f[4] = Bar /\ f[5] = y
    BY <1>1, <2>1, <2>3
  <2>5. f = <<f[1], f[2], f[3], f[4], f[5]>>
    BY <2>3, Elements
  <2>6. QED
    BY <2>2, <2>4, <2>5 DEF r
<1>5. Join(o, Bar, <<"t", Blank, "u", Bar, y>>) = <<"0", Bar, "t", Blank, "u", Bar, y>>
  <2> DEFINE r == <<"t", Blank, "u", Bar, y>>
  <2>1. /\ r \in Seq(Word) /\ Len(r) = 5
        /\ r[1] = "t" /\ r[2] = Blank /\ r[3] = "u" /\ r[4] = Bar /\ r[5] = y
    BY DEF Word
  <2> HIDE DEF r
  <2>2. PICK f : f = Join(o, Bar, r)
    OBVIOUS
  <2>3. /\ f \in Seq(Word) /\ Len(f) = 7
        /\ \A j \in 1 .. 7 : f[j] = IF j <= 1 THEN o[j] ELSE IF j = 2 THEN Bar ELSE r[j - 2]
    <3>1. o \in Seq(Word) /\ r \in Seq(Word)
      BY <1>1, <2>1
    <3>2. /\ Join(o, Bar, r) \in Seq(Word)
          /\ Len(Join(o, Bar, r)) = Len(o) + 1 + Len(r)
          /\ \A j \in 1 .. Len(o) + 1 + Len(r) :
               Join(o, Bar, r)[j] = IF j <= Len(o) THEN o[j]
                 ELSE IF j = Len(o) + 1 THEN Bar ELSE r[j - (Len(o) + 1)]
      BY <3>1, JoinedWords
    <3>3. QED
      BY <1>1, <2>1, <2>2, <3>2
  <2>4. /\ f[1] = "0" /\ f[2] = Bar /\ f[3] = "t" /\ f[4] = Blank /\ f[5] = "u"
        /\ f[6] = Bar /\ f[7] = y
    BY <1>1, <2>1, <2>3
  <2>5. f = <<f[1], f[2], f[3], f[4], f[5], f[6], f[7]>>
    BY <2>3, Elements
  <2>6. QED
    BY <2>2, <2>4, <2>5 DEF r
<1>6. QED
  BY <1>2, <1>3, <1>4, <1>5 DEF o, s, t, u

(* A line of two words with a bar between them, at the loop of zmq-stack.  *)
LEMMA ZmqStackWords ==
  ASSUME NEW x \in Word, NEW y \in Word, x # Bar, x # Blank, y # Bar
  PROVE  /\ x = "sub"   => ZmqStackCommand(<<x, Bar, y>>) = Call("Subscribe", <<>>, <<y>>)
         /\ x = "unsub" => ZmqStackCommand(<<x, Bar, y>>) = Call("Unsubscribe", <<>>, <<y>>)
         /\ x = "send"  => ZmqStackCommand(<<x, Bar, y>>) = Call("Send", <<>>, <<y>>)
         /\ x \notin {"sub", "unsub", "send"} =>
              ZmqStackCommand(<<x, Bar, y>>) = Call("Publish", << <<x>> >>, <<y>>)
<1> DEFINE s == <<x>>
           m == <<y>>
           cmds == <<s>>
<1>1. s \in Seq(Word) /\ s # <<>> /\ Free(s, Bar) /\ Split(s, Blank) = cmds
  BY OneTopic
<1>2. m \in Seq(Word) /\ m # <<>> /\ Free(m, Bar)
  BY DEF Free
<1>3. cmds # <<>> /\ cmds[1] = s
  OBVIOUS
<1>4. \A w : s = <<w>> <=> x = w
  OBVIOUS
<1>5. <<x, Bar, y>> = Join(s, Bar, m)
  BY DocLines
<1> HIDE DEF s, m, cmds
<1>6. /\ s = <<"sub">>   => ZmqStackCommand(Join(s, Bar, m)) = Call("Subscribe", <<>>, m)
      /\ s = <<"unsub">> => ZmqStackCommand(Join(s, Bar, m)) = Call("Unsubscribe", <<>>, m)
      /\ s = <<"send">>  => ZmqStackCommand(Join(s, Bar, m)) = Call("Send", <<>>, m)
      /\ s \notin {<<"sub">>, <<"unsub">>, <<"send">>} =>
           ZmqStackCommand(Join(s, Bar, m)) = Call("Publish", cmds, m)
  BY <1>1, <1>2, <1>3, ZmqStackLine, Marks
<1>7. /\ x = "sub"   => ZmqStackCommand(<<x, Bar, y>>) = Call("Subscribe", <<>>, m)
      /\ x = "unsub" => ZmqStackCommand(<<x, Bar, y>>) = Call("Unsubscribe", <<>>, m)
      /\ x = "send"  => ZmqStackCommand(<<x, Bar, y>>) = Call("Send", <<>>, m)
      /\ x \notin {"sub", "unsub", "send"} =>
           ZmqStackCommand(<<x, Bar, y>>) = Call("Publish", cmds, m)
  BY <1>4, <1>5, <1>6
<1>8. QED
  BY <1>7 DEF s, m, cmds

(* Two topics with a blank between them, at the loop of zmq-stack.         *)
LEMMA ZmqStackTwoTopics ==
  ASSUME NEW y \in Word, y # Bar
  PROVE  ZmqStackCommand(<<"t", Blank, "u", Bar, y>>)
           = Call("Publish", << <<"t">>, <<"u">> >>, <<y>>)
<1> DEFINE s == <<"t", Blank, "u">>
           m == <<y>>
           c == <<"t">>
           cmds == <<c, <<"u">> >>
<1>1. s \in Seq(Word) /\ s # <<>> /\ Free(s, Bar) /\ Split(s, Blank) = cmds
  BY TwoTopics
<1>2. m \in Seq(Word) /\ m # <<>> /\ Free(m, Bar)
  BY DEF Free
<1>3. cmds # <<>> /\ cmds[1] = c
  OBVIOUS
<1>4. c \notin {<<"sub">>, <<"unsub">>, <<"send">>}
  OBVIOUS
<1>5. <<"t", Blank, "u", Bar, y>> = Join(s, Bar, m)
  BY DocLines, Marks
<1> HIDE DEF s, m, c, cmds
<1>6. ZmqStackCommand(Join(s, Bar, m)) = Call("Publish", cmds, m)
  BY <1>1, <1>2, <1>3, <1>4, ZmqStackLine, Marks
<1>7. QED
  BY <1>5, <1>6 DEF s, m, c, cmds

(* The words a line may be alone.                                          *)
LEMMA SingleWords ==
  /\ ZmqStackCommand(<<"quit">>) = Quit /\ ConvStackCommand(<<"quit">>) = Quit
  /\ InprocStackCommand(<<"quit">>) = Quit
  /\ ZmqStackCommand(<<"list">>) = Simple("Subscriptions")
<1>1. <<"quit">> # <<"list">>
  OBVIOUS
<1>2. ZmqStackCommand(<<"quit">>) = Quit
  BY DEF ZmqStackCommand
<1>3. ConvStackCommand(<<"quit">>) = Quit
  BY DEF ConvStackCommand
<1>4. InprocStackCommand(<<"quit">>) = Quit
  BY DEF InprocStackCommand
<1>5. ZmqStackCommand(<<"list">>) = Simple("Subscriptions")
  BY <1>1 DEF ZmqStackCommand
<1>6. QED
  BY <1>2, <1>3, <1>4, <1>5

(* The line of a documented command, and its call.                         *)
LEMMA DocFields ==
  ASSUME NEW a, NEW b
  PROVE  Doc(a, b).line = a /\ Doc(a, b).call = b
BY DEF Doc

(* Every command zmq-stack describes is understood.                        *)
LEMMA ZmqStackUnderstood ==
  ASSUME NEW d \in ZmqStackDoc
  PROVE  ZmqStackCommand(d.line) = d.call
<1>1. CASE d = QuitDoc
  BY <1>1, SingleWords, DocFields DEF QuitDoc
<1>2. CASE d = Doc(<<"list">>, Simple("Subscriptions"))
  BY <1>2, SingleWords, DocFields
<1>3. CASE d = Doc(<<"send", Bar, "m">>, Call("Send", <<>>, DocMsg))
  <2>1. ZmqStackCommand(<<"send", Bar, "m">>) = Call("Send", <<>>, <<"m">>)
    <3>1. "send" \in Word /\ "m" \in Word /\ "send" # Bar /\ "send" # Blank /\ "m" # Bar
      BY DEF Word, Bar, Blank
    <3>2. QED
      BY <3>1, ZmqStackWords
  <2>2. QED
    BY <1>3, <2>1, DocFields DEF DocMsg
<1>4. CASE d = Doc(<<"t", Blank, "u", Bar, "m">>, Call("Publish", << <<"t">>, <<"u">> >>, DocMsg))
  <2>1. "m" \in Word /\ "m" # Bar
    BY DEF Word, Bar
  <2>2. QED
    BY <1>4, <2>1, ZmqStackTwoTopics, DocFields DEF DocMsg
<1>5. ASSUME NEW t \in DocTopic, d = Doc(<<t, Bar, "m">>, Call("Publish", << <<t>> >>, DocMsg))
      PROVE  ZmqStackCommand(d.line) = d.call
  <2>1. /\ t \in Word /\ t # Bar /\ t # Blank /\ t \notin {"sub", "unsub", "send"}
        /\ "m" \in Word /\ "m" # Bar
    BY DEF DocTopic, Word, Bar, Blank
  <2>2. ZmqStackCommand(<<t, Bar, "m">>) = Call("Publish", << <<t>> >>, <<"m">>)
    BY <2>1, ZmqStackWords
  <2>3. QED
    BY <1>5, <2>2, DocFields DEF DocMsg
<1>6. ASSUME NEW t \in DocTopic, d = Doc(<<"sub", Bar, t>>, Call("Subscribe", <<>>, <<t>>))
      PROVE  ZmqStackCommand(d.line) = d.call
  <2>1. "sub" \in Word /\ "sub" # Bar /\ "sub" # Blank /\ t \in Word /\ t # Bar
    BY DEF DocTopic, Word, Bar, Blank
  <2>2. ZmqStackCommand(<<"sub", Bar, t>>) = Call("Subscribe", <<>>, <<t>>)
    BY <2>1, ZmqStackWords
  <2>3. QED
    BY <1>6, <2>2, DocFields
<1>7. ASSUME NEW t \in DocTopic, d = Doc(<<"unsub", Bar, t>>, Call("Unsubscribe", <<>>, <<t>>))
      PROVE  ZmqStackCommand(d.line) = d.call
  <2>1. "unsub" \in Word /\ "unsub" # Bar /\ "unsub" # Blank /\ t \in Word /\ t # Bar
    BY DEF DocTopic, Word, Bar, Blank
  <2>2. ZmqStackCommand(<<"unsub", Bar, t>>) = Call("Unsubscribe", <<>>, <<t>>)
    BY <2>1, ZmqStackWords
  <2>3. QED
    BY <1>7, <2>2, DocFields
<1>8. QED
  BY <1>1, <1>2, <1>3, <1>4, <1>5, <1>6, <1>7, Zenon DEF ZmqStackDoc

(* Every command conv-stack describes, but its sub, is understood.         *)
LEMMA ConvStackUnderstood ==
  ASSUME NEW d \in ConvStackDoc
  PROVE  ConvStackCommand(d.line) = d.call
<1>1. CASE d = QuitDoc
  BY <1>1, SingleWords, DocFields DEF QuitDoc
<1>2. ASSUME NEW t \in DocTopic,
             d = Doc(<<"unsub", Bar, t>>, Call("RemoveConversion", <<>>, <<t>>))
      PROVE  ConvStackCommand(d.line) = d.call
  <2> DEFINE s == <<"unsub">>
             m == <<t>>
             cmds == <<s>>
  <2>1. "unsub" \in Word /\ "unsub" # Bar /\ "unsub" # Blank /\ t \in Word /\ t # Bar
    BY DEF DocTopic, Word, Bar, Blank
  <2>2. s \in Seq(Word) /\ s # <<>> /\ Free(s, Bar) /\ Split(s, Blank) = cmds
    BY <2>1, OneTopic
  <2>3. m \in Seq(Word) /\ m # <<>> /\ Free(m, Bar)
    BY <2>1 DEF Free
  <2>4. cmds # <<>> /\ cmds[1] = s
    OBVIOUS
  <2>5. <<"unsub", Bar, t>> = Join(s, Bar, m)
    BY <2>1, DocLines
  <2>6. s = <<"unsub">>
    OBVIOUS
  <2> HIDE DEF s, m, cmds
  <2>7. ConvStackCommand(Join(s, Bar, m)) = Call("RemoveConversion", <<>>, m)
    BY <2>2, <2>3, <2>4, <2>6, ConvStackLine, Marks
  <2>8. ConvStackCommand(<<"unsub", Bar, t>>) = Call("RemoveConversion", <<>>, m)
    BY <2>5, <2>7
  <2>9. QED
    BY <1>2, <2>8, DocFields DEF m
<1>3. QED
  BY <1>1, <1>2, Zenon DEF ConvStackDoc

(* A stack's number, a word and another, at the loop of inproc-stack.      *)
LEMMA InprocStackWords ==
  ASSUME NEW x \in Word, NEW y \in Word, x # Bar, x # Blank, y # Bar
  PROVE  /\ x = "sub"   => InprocStackCommand(<<"0", Bar, x, Bar, y>>)
                               = Call("Subscribe", <<"0">>, <<y>>)
         /\ x = "unsub" => InprocStackCommand(<<"0", Bar, x, Bar, y>>)
                               = Call("Unsubscribe", <<"0">>, <<y>>)
         /\ x \notin {"sub", "unsub"} =>
              InprocStackCommand(<<"0", Bar, x, Bar, y>>)
                = Call("Publish", << <<"0">>, <<x>> >>, <<y>>)
<1> DEFINE s == <<x>>
           m == <<y>>
           o == <<"0">>
           cmds == <<s>>
           text == Join(o, Bar, Join(s, Bar, m))
<1>1. s \in Seq(Word) /\ s # <<>> /\ Free(s, Bar) /\ Split(s, Blank) = cmds
  BY OneTopic
<1>2. m \in Seq(Word) /\ m # <<>> /\ Free(m, Bar)
  BY DEF Free
<1>3. cmds # <<>> /\ cmds[1] = s
  OBVIOUS
<1>4. \A w : s = <<w>> <=> x = w
  OBVIOUS
<1>5. <<"0", Bar, x, Bar, y>> = text
  BY DocLines
<1>6. <<o>> \o cmds = <<o, s>>
  BY Prefixed
<1>7. text = Join(<<"0">>, Bar, Join(s, Bar, m)) /\ o = <<"0">> /\ "0" \in Word
  BY DEF Word
<1> HIDE DEF s, m, o, cmds, text
<1>8. /\ s = <<"sub">>   => InprocStackCommand(text) = Call("Subscribe", <<"0">>, m)
      /\ s = <<"unsub">> => InprocStackCommand(text) = Call("Unsubscribe", <<"0">>, m)
      /\ s \notin {<<"sub">>, <<"unsub">>} =>
           InprocStackCommand(text) = Call("Publish", << <<"0">> >> \o cmds, m)
  BY <1>1, <1>2, <1>3, <1>7, InprocStackLine, Marks
<1>9. /\ s = <<"sub">>   => InprocStackCommand(text) = Call("Subscribe", o, m)
      /\ s = <<"unsub">> => InprocStackCommand(text) = Call("Unsubscribe", o, m)
      /\ s \notin {<<"sub">>, <<"unsub">>} => InprocStackCommand(text) = Call("Publish", <<o, s>>, m)
  BY <1>6, <1>7, <1>8
<1>10. /\ x = "sub"   => InprocStackCommand(<<"0", Bar, x, Bar, y>>) = Call("Subscribe", o, m)
       /\ x = "unsub" => InprocStackCommand(<<"0", Bar, x, Bar, y>>) = Call("Unsubscribe", o, m)
       /\ x \notin {"sub", "unsub"} =>
            InprocStackCommand(<<"0", Bar, x, Bar, y>>) = Call("Publish", <<o, s>>, m)
  BY <1>4, <1>5, <1>9
<1>11. QED
  BY <1>10 DEF s, m, o

(* A stack's number, two topics and a message, at the loop of inproc-stack. *)
LEMMA InprocStackTwoTopics ==
  ASSUME NEW y \in Word, y # Bar
  PROVE  InprocStackCommand(<<"0", Bar, "t", Blank, "u", Bar, y>>)
           = Call("Publish", << <<"0">>, <<"t">>, <<"u">> >>, <<y>>)
<1> DEFINE s == <<"t", Blank, "u">>
           m == <<y>>
           o == <<"0">>
           c == <<"t">>
           e == <<"u">>
           cmds == <<c, e>>
           text == Join(o, Bar, Join(s, Bar, m))
<1>1. s \in Seq(Word) /\ s # <<>> /\ Free(s, Bar) /\ Split(s, Blank) = cmds
  BY TwoTopics
<1>2. m \in Seq(Word) /\ m # <<>> /\ Free(m, Bar)
  BY DEF Free
<1>3. cmds # <<>> /\ cmds[1] = c
  OBVIOUS
<1>4. c \notin {<<"sub">>, <<"unsub">>}
  OBVIOUS
<1>5. <<"0", Bar, "t", Blank, "u", Bar, y>> = text
  BY DocLines, Marks
<1>6. <<o>> \o cmds = <<o, c, e>>
  BY Prefixed
<1>7. text = Join(<<"0">>, Bar, Join(s, Bar, m)) /\ o = <<"0">> /\ "0" \in Word
  BY DEF Word
<1> HIDE DEF s, m, o, c, e, cmds, text
<1>8. InprocStackCommand(text) = Call("Publish", << <<"0">> >> \o cmds, m)
  BY <1>1, <1>2, <1>3, <1>4, <1>7, InprocStackLine, Marks
<1>9. InprocStackCommand(<<"0", Bar, "t", Blank, "u", Bar, y>>) = Call("Publish", <<o, c, e>>, m)
  BY <1>5, <1>6, <1>7, <1>8
<1>10. QED
  BY <1>9 DEF m, o, c, e

(* Every command inproc-stack describes is understood.                     *)
LEMMA InprocStackUnderstood ==
  ASSUME NEW d \in InprocStackDoc
  PROVE  InprocStackCommand(d.line) = d.call
<1>1. CASE d = QuitDoc
  BY <1>1, SingleWords, DocFields DEF QuitDoc
<1>2. CASE d = Doc(<<"0", Bar, "t", Blank, "u", Bar, "m">>,
                   Call("Publish", << <<"0">>, <<"t">>, <<"u">> >>, DocMsg))
  <2>1. "m" \in Word /\ "m" # Bar
    BY DEF Word, Bar
  <2>2. QED
    BY <1>2, <2>1, InprocStackTwoTopics, DocFields DEF DocMsg
<1>3. ASSUME NEW t \in DocTopic,
             d = Doc(<<"0", Bar, t, Bar, "m">>, Call("Publish", << <<"0">>, <<t>> >>, DocMsg))
      PROVE  InprocStackCommand(d.line) = d.call
  <2>1. /\ t \in Word /\ t # Bar /\ t # Blank /\ t \notin {"sub", "unsub"}
        /\ "m" \in Word /\ "m" # Bar
    BY DEF DocTopic, Word, Bar, Blank
  <2>2. InprocStackCommand(<<"0", Bar, t, Bar, "m">>)
          = Call("Publish", << <<"0">>, <<t>> >>, <<"m">>)
    BY <2>1, InprocStackWords
  <2>3. QED
    BY <1>3, <2>2, DocFields DEF DocMsg
<1>4. ASSUME NEW t \in DocTopic,
             d = Doc(<<"0", Bar, "sub", Bar, t>>, Call("Subscribe", <<"0">>, <<t>>))
      PROVE  InprocStackCommand(d.line) = d.call
  <2>1. "sub" \in Word /\ "sub" # Bar /\ "sub" # Blank /\ t \in Word /\ t # Bar
    BY DEF DocTopic, Word, Bar, Blank
  <2>2. InprocStackCommand(<<"0", Bar, "sub", Bar, t>>) = Call("Subscribe", <<"0">>, <<t>>)
    BY <2>1, InprocStackWords
  <2>3. QED
    BY <1>4, <2>2, DocFields
<1>5. ASSUME NEW t \in DocTopic,
             d = Doc(<<"0", Bar, "unsub", Bar, t>>, Call("Unsubscribe", <<"0">>, <<t>>))
      PROVE  InprocStackCommand(d.line) = d.call
  <2>1. "unsub" \in Word /\ "unsub" # Bar /\ "unsub" # Blank /\ t \in Word /\ t # Bar
    BY DEF DocTopic, Word, Bar, Blank
  <2>2. InprocStackCommand(<<"0", Bar, "unsub", Bar, t>>) = Call("Unsubscribe", <<"0">>, <<t>>)
    BY <2>1, InprocStackWords
  <2>3. QED
    BY <1>5, <2>2, DocFields
<1>6. QED
  BY <1>1, <1>2, <1>3, <1>4, <1>5, Zenon DEF InprocStackDoc

-----------------------------------------------------------------------------
(***************************************************************************)
(* The loops of the main functions.                                        *)
(***************************************************************************)

(* Every command a main describes on its prompt comes to the call it says. *)
LEMMA Understood ==
  ASSUME NEW s, NEW d \in Documented(s)
  PROVE  Interpret(s, d.line) = d.call
<1>1. CASE s = "zmq-stack"
  <2>1. d \in ZmqStackDoc
    BY <1>1 DEF Documented
  <2>2. Interpret(s, d.line) = ZmqStackCommand(d.line)
    BY <1>1 DEF Interpret
  <2>3. QED
    BY <2>1, <2>2, ZmqStackUnderstood
<1>2. CASE s = "conv-stack"
  <2>1. d \in ConvStackDoc
    BY <1>2 DEF Documented
  <2>2. Interpret(s, d.line) = ConvStackCommand(d.line)
    BY <1>2 DEF Interpret
  <2>3. QED
    BY <2>1, <2>2, ConvStackUnderstood
<1>3. CASE s # "zmq-stack" /\ s # "conv-stack"
  <2>1. d \in InprocStackDoc
    BY <1>3 DEF Documented
  <2>2. Interpret(s, d.line) = InprocStackCommand(d.line)
    BY <1>3 DEF Interpret
  <2>3. QED
    BY <2>1, <2>2, InprocStackUnderstood
<1>4. QED
  BY <1>1, <1>2, <1>3

(* What a loop is about to perform is what the line it read comes to.      *)
TypedInv == phase = "typed" => call = Interpret(service, line)

(* Only ReadLine goes to the phase "typed", which the start of a program   *)
(* never reaches and a signal does not touch.                              *)
LEMMA TypedStep == TypedInv /\ [Next]_vars => TypedInv'
<1> SUFFICES ASSUME TypedInv, [Next]_vars PROVE TypedInv'
  OBVIOUS
<1>1. CASE Starts
  <2>1. phase' # "typed"
    <3>1. ASSUME NEW x, NEW a, TakeOption(x, a) PROVE phase' # "typed"
      BY <3>1 DEF TakeOption
    <3>2. CASE Begin
      BY <3>2 DEF Begin
    <3>3. CASE UnknownOption
      BY <3>3 DEF UnknownOption
    <3>4. CASE OpenConfig
      BY <3>4 DEF OpenConfig
    <3>5. CASE ReadKey
      BY <3>5 DEF ReadKey
    <3>6. CASE EndConfig
      BY <3>6 DEF EndConfig
    <3>7. CASE NameTopics
      BY <3>7 DEF NameTopics
    <3>8. QED
      BY <1>1, <3>1, <3>2, <3>3, <3>4, <3>5, <3>6, <3>7 DEF Starts, Startup
  <2>2. QED
    BY <2>1 DEF TypedInv
<1>2. CASE Construct
  BY <1>2 DEF Construct, TypedInv
<1>3. CASE Main \/ Threads
  <2>1. CASE LoopTest \/ LoopSend \/ Wake \/ Perform
    BY <2>1 DEF LoopTest, LoopSend, Wake, Perform, Goes, TypedInv
  <2>2. CASE StopHealth \/ JoinHealth \/ JoinSubscriber \/ JoinReceiver \/ CloseContext
    BY <2>2 DEF StopHealth, JoinHealth, JoinSubscriber, JoinReceiver, CloseContext,
                Proceed, Goes, TypedInv
  <2>3. CASE Threads
    BY <2>3 DEF Threads, HealthListen, ThreadEnds, Proceed, Goes, TypedInv
  <2>4. QED
    BY <1>3, <2>1, <2>2, <2>3 DEF Main
<1>4. CASE Signal
  BY <1>4 DEF Signal, Goes, TypedInv
<1>5. CASE ReadLine
  BY <1>5 DEF ReadLine, Goes, TypedInv
<1>6. CASE Pods
  BY <1>6 DEF Pods, mainVars, TypedInv
<1>7. CASE Idle \/ UNCHANGED vars
  BY <1>7 DEF Idle, vars, mainVars, TypedInv
<1>8. ASSUME NEW c \in Connection, Reach(c) \/ Flow(c) \/ Arrive(c) PROVE TypedInv'
  BY <1>8 DEF Reach, Flow, Arrive, mainVars, TypedInv
<1>9. QED
  BY <1>1, <1>2, <1>3, <1>4, <1>5, <1>6, <1>7, <1>8 DEF Next

(* Each command a main describes on its prompt does what it says           *)
(* (main's loop and split, common/Util.h).                                 *)
THEOREM CommandsUnderstood == Spec => []DocumentedUnderstood
<1>1. Init => TypedInv
  BY DEF Init, StartInit, TypedInv
<1>2. TypedInv => DocumentedUnderstood
  BY Understood DEF TypedInv, DocumentedUnderstood
<1>3. QED
  BY <1>1, <1>2, TypedStep, PTL DEF Spec

-----------------------------------------------------------------------------
(***************************************************************************)
(* The settings. PlacesOf of options in the command line, as one more is     *)
(* given.                                                                  *)
(***************************************************************************)

(* Max is the greatest element of a bounded set of numbers.                *)
LEMMA MaxNat ==
  ASSUME NEW n \in Nat, NEW T \in SUBSET (1 .. n), T # {}
  PROVE  Max(T) \in T /\ \A y \in T : y <= Max(T)
<1> DEFINE U == {n - y : y \in T}
<1>1. U \in SUBSET Nat /\ U # {}
  <2>1. ASSUME NEW y \in T PROVE n - y \in Nat
    OBVIOUS
  <2>2. U \in SUBSET Nat
    BY <2>1
  <2>3. PICK y \in T : TRUE
    OBVIOUS
  <2>4. n - y \in U
    OBVIOUS
  <2>5. QED
    BY <2>2, <2>4
<1>2. PICK u \in U : \A v \in U : u <= v
  BY <1>1, LeastNat
<1>3. PICK x \in T : u = n - x
  BY <1>2
<1>4. \A y \in T : y <= x
  <2>1. ASSUME NEW y \in T PROVE y <= x
    <3>1. n - x <= n - y
      BY <1>2, <1>3
    <3>2. x \in Int /\ y \in Int
      OBVIOUS
    <3>3. QED
      BY <3>1, <3>2
  <2>2. QED
    BY <2>1
<1>5. QED
  <2>1. T \subseteq Int
    OBVIOUS
  <2>2. QED
    BY <1>4, <2>1 DEF Max

(* The greatest is found, if it is known.                                  *)
LEMMA MaxIs ==
  ASSUME NEW T \in SUBSET Int, NEW x \in T, \A y \in T : y <= x
  PROVE  Max(T) = x
<1>1. \A y \in T : x >= y
  OBVIOUS
<1>2. Max(T) \in T /\ \A y \in T : Max(T) >= y
  BY <1>1 DEF Max
<1>3. Max(T) >= x /\ x >= Max(T) /\ Max(T) \in Int
  BY <1>1, <1>2
<1>4. QED
  BY <1>3

(* The places up to p, and those with k places up to them.                 *)
UpTo(G, p) == {q \in G : q <= p}
At(G, k) == {p \in G : Cardinality(UpTo(G, p)) = k}

(* One more place after all others is the last, and leaves the others      *)
(* where they are in the order.                                            *)
LEMMA OneMorePlace ==
  ASSUME NEW n \in Nat, NEW G \in SUBSET (1 .. n), NEW H, H = G \cup {n + 1}
  PROVE  /\ Cardinality(G) \in Nat /\ Cardinality(H) = Cardinality(G) + 1
         /\ Max(H) = n + 1 /\ Nth(H, Cardinality(G) + 1) = n + 1
         /\ \A k \in 1 .. Cardinality(G) : Nth(H, k) = Nth(G, k)
<1>1. IsFiniteSet(G) /\ Cardinality(G) \in Nat /\ IsFiniteSet(H)
      /\ Cardinality(H) = Cardinality(G) + 1
  <2>1. IsFiniteSet(1 .. n)
    BY FS_Interval
  <2>2. IsFiniteSet(G)
    BY <2>1, FS_Subset
  <2>3. n + 1 \notin G
    OBVIOUS
  <2>4. QED
    BY <2>2, <2>3, FS_CardinalityType, FS_AddElement
<1>2. Max(H) = n + 1
  <2>1. H \in SUBSET Int /\ n + 1 \in H /\ \A y \in H : y <= n + 1
    OBVIOUS
  <2>2. QED
    BY <2>1, MaxIs
<1>3. ASSUME NEW p \in G
      PROVE  /\ UpTo(H, p) = UpTo(G, p) /\ Cardinality(UpTo(G, p)) \in Nat
             /\ Cardinality(UpTo(G, p)) <= Cardinality(G)
  <2>1. UpTo(H, p) = UpTo(G, p)
    BY DEF UpTo
  <2>2. UpTo(G, p) \in SUBSET G
    BY DEF UpTo
  <2>3. QED
    BY <1>1, <2>1, <2>2, FS_Subset, FS_CardinalityType
<1>4. UpTo(H, n + 1) = H
  <2>1. \A q \in H : q <= n + 1
    OBVIOUS
  <2>2. QED
    BY <2>1 DEF UpTo
<1>5. ASSUME NEW k \in 1 .. Cardinality(G) PROVE Nth(H, k) = Nth(G, k)
  <2>1. Cardinality(UpTo(H, n + 1)) # k
    BY <1>1, <1>4
  <2>2. At(H, k) = At(G, k)
    BY <1>3, <2>1 DEF At
  <2>3. QED
    BY <2>2 DEF Nth, At, UpTo
<1>6. Nth(H, Cardinality(G) + 1) = n + 1
  <2>1. At(H, Cardinality(G) + 1) = {n + 1}
    <3>1. ASSUME NEW p \in G PROVE Cardinality(UpTo(H, p)) # Cardinality(G) + 1
      BY <1>1, <1>3
    <3>2. Cardinality(UpTo(H, n + 1)) = Cardinality(G) + 1
      BY <1>1, <1>4
    <3>3. QED
      BY <3>1, <3>2 DEF At
  <2>2. Nth(H, Cardinality(G) + 1) = CHOOSE i \in At(H, Cardinality(G) + 1) : TRUE
    BY DEF Nth, At, UpTo
  <2>3. QED
    BY <2>1, <2>2
<1>7. QED
  BY <1>1, <1>2, <1>5, <1>6
(***************************************************************************)
(* Given, Nth and FromOptions for any command line s.                      *)
(***************************************************************************)
PlacesOf(s, x) == {i \in DOMAIN s : s[i][1] = Option(x)}

Conversions(s, g) ==
  [t \in {s[i][2][1] : i \in g} |-> s[Max({i \in g : s[i][2][1] = t})][2][2]]

Made(s, x) ==
  IF x \in List
    THEN [k \in 1 .. Cardinality(PlacesOf(s, x)) |-> s[Nth(PlacesOf(s, x), k)][2]]
  ELSE IF x = "conversions" THEN Conversions(s, PlacesOf(s, x))
  ELSE IF PlacesOf(s, x) = {} THEN Default[x]
  ELSE IF x \in Port THEN s[Max(PlacesOf(s, x))][2] % PORTS ELSE s[Max(PlacesOf(s, x))][2]

(* Each number up to that of the places of x is that of one of them.       *)
Ordered(s, x) ==
  \A k \in 1 .. Cardinality(PlacesOf(s, x)) : Nth(PlacesOf(s, x), k) \in PlacesOf(s, x)

LEMMA MadeFromOptions ==
  ASSUME NEW x
  PROVE  FromOptions(x) = Made(args, x)
BY DEF FromOptions, Given, Made, PlacesOf, Conversions

(* An option more is a place more for the settings it is for, and none for *)
(* another.                                                                *)
LEMMA PlacesAppended ==
  ASSUME NEW S, NEW s \in Seq(S), NEW o \in S
  PROVE  /\ Len(s) \in Nat /\ Append(s, o) \in Seq(S)
         /\ Append(s, o)[Len(s) + 1] = o
         /\ \A i \in 1 .. Len(s) : Append(s, o)[i] = s[i]
         /\ \A y : PlacesOf(s, y) \in SUBSET (1 .. Len(s))
         /\ \A y : Option(y) # o[1] => PlacesOf(Append(s, o), y) = PlacesOf(s, y)
         /\ \A y : Option(y) = o[1] =>
              PlacesOf(Append(s, o), y) = PlacesOf(s, y) \cup {Len(s) + 1}
<1> DEFINE t == Append(s, o)
<1>1. /\ Len(s) \in Nat /\ t \in Seq(S)
      /\ DOMAIN s = 1 .. Len(s) /\ DOMAIN t = 1 .. (Len(s) + 1)
      /\ t[Len(s) + 1] = o /\ \A i \in 1 .. Len(s) : t[i] = s[i]
  OBVIOUS
<1> HIDE DEF t
<1>2. \A y : PlacesOf(s, y) \in SUBSET (1 .. Len(s))
  BY <1>1 DEF PlacesOf
<1>3. 1 .. (Len(s) + 1) = (1 .. Len(s)) \cup {Len(s) + 1}
  BY <1>1
<1>4. ASSUME NEW y PROVE Option(y) # o[1] => PlacesOf(t, y) = PlacesOf(s, y)
  BY <1>1, <1>3 DEF PlacesOf
<1>5. ASSUME NEW y
      PROVE  Option(y) = o[1] => PlacesOf(t, y) = PlacesOf(s, y) \cup {Len(s) + 1}
  BY <1>1, <1>3 DEF PlacesOf
<1>6. QED
  BY <1>1, <1>2, <1>4, <1>5 DEF t

(* The places of a command line are in it; the greatest of some of them is *)
(* one of them.                                                            *)
LEMMA MadeAlike ==
  ASSUME NEW n \in Nat, NEW s, NEW t, NEW y, \A i \in 1 .. n : t[i] = s[i],
         PlacesOf(s, y) \in SUBSET (1 .. n), PlacesOf(t, y) = PlacesOf(s, y), Ordered(s, y)
  PROVE  Made(t, y) = Made(s, y) /\ Ordered(t, y)
<1> DEFINE g == PlacesOf(s, y)
<1> HIDE DEF g
<1>1. g = PlacesOf(s, y) /\ g = PlacesOf(t, y) /\ g \in SUBSET (1 .. n)
  BY DEF g
<1>2. \A i \in g : t[i] = s[i]
  BY <1>1
<1>3. Ordered(t, y)
  BY DEF Ordered
<1>4. [k \in 1 .. Cardinality(g) |-> t[Nth(g, k)][2]]
      = [k \in 1 .. Cardinality(g) |-> s[Nth(g, k)][2]]
  <2>1. \A k \in 1 .. Cardinality(g) : Nth(g, k) \in g
    BY <1>1 DEF Ordered
  <2>2. QED
    BY <1>2, <2>1
<1>5. Conversions(t, g) = Conversions(s, g)
  <2>1. {t[i][2][1] : i \in g} = {s[i][2][1] : i \in g}
    BY <1>2
  <2>2. ASSUME NEW v \in {s[i][2][1] : i \in g}
        PROVE  t[Max({i \in g : t[i][2][1] = v})][2][2]
               = s[Max({i \in g : s[i][2][1] = v})][2][2]
    <3> DEFINE h == {i \in g : s[i][2][1] = v}
    <3>1. h = {i \in g : t[i][2][1] = v}
      BY <1>2
    <3>2. h \in SUBSET (1 .. n) /\ h # {} /\ h \subseteq g
      BY <1>1
    <3> HIDE DEF h
    <3>3. Max(h) \in g
      BY <3>2, MaxNat
    <3>4. t[Max(h)] = s[Max(h)]
      BY <1>2, <3>3
    <3>5. h = {i \in g : s[i][2][1] = v}
      BY DEF h
    <3>6. QED
      BY <3>1, <3>4, <3>5
  <2>3. QED
    BY <2>1, <2>2 DEF Conversions
<1>6. g # {} => t[Max(g)] = s[Max(g)]
  BY <1>1, <1>2, MaxNat
<1>7. QED
  BY <1>1, <1>3, <1>4, <1>5, <1>6 DEF Made

(* One option more for x, after the n of s: o, the last of t.              *)
OneMore(n, s, t, x, o) ==
  /\ \A i \in 1 .. n : t[i] = s[i]
  /\ t[n + 1] = o
  /\ PlacesOf(s, x) \in SUBSET (1 .. n)
  /\ PlacesOf(t, x) = PlacesOf(s, x) \cup {n + 1}
  /\ Ordered(s, x)

LEMMA OrderedGrows ==
  ASSUME NEW n \in Nat, NEW s, NEW t, NEW x, NEW o, OneMore(n, s, t, x, o)
  PROVE  Ordered(t, x)
<1> DEFINE G == PlacesOf(s, x)
<1> DEFINE H == PlacesOf(t, x)
<1>1. G \in SUBSET (1 .. n) /\ H = G \cup {n + 1}
  BY DEF OneMore
<1>2. \A k \in 1 .. Cardinality(G) : Nth(G, k) \in G
  BY DEF OneMore, Ordered
<1> HIDE DEF G, H
<1>3. /\ Cardinality(G) \in Nat /\ Cardinality(H) = Cardinality(G) + 1
      /\ Nth(H, Cardinality(G) + 1) = n + 1
      /\ \A k \in 1 .. Cardinality(G) : Nth(H, k) = Nth(G, k)
  BY <1>1, OneMorePlace
<1>4. \A k \in 1 .. Cardinality(H) : Nth(H, k) \in H
  <2>1. ASSUME NEW k \in 1 .. Cardinality(H) PROVE Nth(H, k) \in H
    <3>1. k \in 1 .. Cardinality(G) \/ k = Cardinality(G) + 1
      BY <1>3
    <3>2. QED
      BY <1>1, <1>2, <1>3, <3>1
  <2>2. QED
    BY <2>1
<1>5. QED
  BY <1>4 DEF Ordered, H

(* A list gets the argument at its end.                                    *)
LEMMA MadeList ==
  ASSUME NEW n \in Nat, NEW s, NEW t, NEW x, NEW o, OneMore(n, s, t, x, o), x \in List
  PROVE  Made(t, x) = Append(Made(s, x), o[2])
<1> DEFINE G == PlacesOf(s, x)
<1> DEFINE H == PlacesOf(t, x)
<1> DEFINE c == Cardinality(G)
<1> DEFINE f == [k \in 1 .. c |-> s[Nth(G, k)][2]]
<1> DEFINE V == {f[k] : k \in 1 .. c}
<1>1. G \in SUBSET (1 .. n) /\ H = G \cup {n + 1}
  BY DEF OneMore
<1>2. \A k \in 1 .. c : Nth(G, k) \in G
  BY DEF OneMore, Ordered
<1>3. Made(s, x) = f
  BY DEF Made
<1>4. Made(t, x) = [k \in 1 .. Cardinality(H) |-> t[Nth(H, k)][2]]
  BY DEF Made
<1> HIDE DEF G, H
<1>5. /\ c \in Nat /\ Cardinality(H) = c + 1 /\ Nth(H, c + 1) = n + 1
      /\ \A k \in 1 .. c : Nth(H, k) = Nth(G, k)
  BY <1>1, OneMorePlace
<1>6. \A i \in G : t[i] = s[i]
  BY <1>1 DEF OneMore
<1>7. \A k \in 1 .. c : t[Nth(H, k)][2] = f[k]
  BY <1>2, <1>5, <1>6
<1>8. t[Nth(H, c + 1)][2] = o[2]
  BY <1>5 DEF OneMore
<1> DEFINE h == [k \in 1 .. c + 1 |-> t[Nth(H, k)][2]]
<1>9. h = Append(f, o[2])
  <2>1. \A k \in 1 .. c : h[k] = f[k]
    <3>1. \A k \in 1 .. c : k \in 1 .. c + 1
      BY <1>5
    <3>2. QED
      BY <1>7, <3>1
  <2>2. h[c + 1] = o[2]
    BY <1>5, <1>8
  <2>3. DOMAIN h = 1 .. c + 1 /\ h = [k \in 1 .. c + 1 |-> h[k]]
    OBVIOUS
  <2>4. f = [k \in 1 .. c |-> f[k]] /\ DOMAIN f = 1 .. c
    OBVIOUS
  <2> HIDE DEF h, f, c
  <2>5. \A k \in 1 .. c : f[k] \in V
    OBVIOUS
  <2>6. f \in Seq(V)
    <3>1. f \in [1 .. c -> V]
      BY <2>4, <2>5
    <3> HIDE DEF V
    <3>2. QED
      BY <1>5, <3>1, SeqDef
  <2> DEFINE W == V \cup {o[2]}
  <2> HIDE DEF V
  <2>7. f \in Seq(W) /\ Len(f) = c
    BY <1>5, <2>4, <2>6, LenProperties, SeqMonotonic
  <2>8. o[2] \in W /\ \A k \in 1 .. c : f[k] \in W
    BY <2>5
  <2> HIDE DEF W
  <2>9. \A k \in 1 .. c + 1 : k \in 1 .. c \/ k = c + 1
    BY <1>5
  <2>10. h \in [1 .. c + 1 -> W]
    BY <2>1, <2>2, <2>3, <2>8, <2>9
  <2>11. c + 1 \in Nat
    BY <1>5
  <2>12. h \in Seq(W)
    BY <2>10, <2>11, SeqDef
  <2>13. Len(h) = c + 1
    BY <2>3, <2>11, <2>12, LenProperties
  <2>14. /\ Append(f, o[2]) \in Seq(W) /\ Len(Append(f, o[2])) = c + 1
         /\ \A k \in 1 .. c : Append(f, o[2])[k] = f[k]
         /\ Append(f, o[2])[c + 1] = o[2]
    BY <2>7, <2>8
  <2>15. \A k \in 1 .. c + 1 : h[k] = Append(f, o[2])[k]
    BY <2>1, <2>2, <2>9, <2>14
  <2>16. QED
    BY ONLY <2>12, <2>13, <2>14, <2>15, SeqEqual
<1>10. QED
  BY <1>3, <1>4, <1>5, <1>9

(* A conversion comes on top of those there are.                           *)
One(a) == [t \in {a[1]} |-> a[2]]

LEMMA MadeConversions ==
  ASSUME NEW n \in Nat, NEW s, NEW t, NEW o, OneMore(n, s, t, "conversions", o)
  PROVE  Made(t, "conversions") = Over(One(o[2]), Made(s, "conversions"))
<1> DEFINE G == PlacesOf(s, "conversions")
<1> DEFINE H == PlacesOf(t, "conversions")
<1>1. G \in SUBSET (1 .. n) /\ H = G \cup {n + 1} /\ H \in SUBSET (1 .. n + 1)
  BY DEF OneMore
<1>2. Made(s, "conversions") = Conversions(s, G) /\ Made(t, "conversions") = Conversions(t, H)
  BY DEF Made, List, Topics
<1> HIDE DEF G, H
<1>3. t[n + 1] = o /\ \A i \in G : t[i] = s[i]
  BY <1>1 DEF OneMore
<1> DEFINE a == o[2]
<1> HIDE DEF a
<1>4. t[n + 1][2] = a
  BY <1>3 DEF a
<1> DEFINE D == {s[i][2][1] : i \in G}
<1>5. {t[i][2][1] : i \in H} = D \cup {a[1]}
  BY <1>1, <1>3, <1>4
<1>6. t[Max({i \in H : t[i][2][1] = a[1]})][2][2] = a[2]
  <2> DEFINE h == {i \in H : t[i][2][1] = a[1]}
  <2>1. h \in SUBSET Int /\ n + 1 \in h /\ \A i \in h : i <= n + 1
    <3>1. n + 1 \in h
      BY <1>1, <1>4
    <3>2. h \in SUBSET (1 .. n + 1)
      BY <1>1
    <3> HIDE DEF h
    <3>3. QED
      BY <3>1, <3>2
  <2> HIDE DEF h
  <2>2. Max(h) = n + 1
    BY <2>1, MaxIs
  <2>3. t[Max(h)][2][2] = a[2]
    BY <1>4, <2>2
  <2>4. QED
    BY <2>3 DEF h
<1>7. ASSUME NEW v \in D, v # a[1]
      PROVE  t[Max({i \in H : t[i][2][1] = v})][2][2]
             = s[Max({i \in G : s[i][2][1] = v})][2][2]
  <2> DEFINE h == {i \in G : s[i][2][1] = v}
  <2>1. h = {i \in H : t[i][2][1] = v}
    BY <1>1, <1>3, <1>4, <1>7
  <2>2. h \in SUBSET (1 .. n) /\ h # {} /\ h \subseteq G
    BY <1>1
  <2>3. h = {i \in G : s[i][2][1] = v}
    OBVIOUS
  <2> HIDE DEF h
  <2>4. Max(h) \in G
    BY <2>2, MaxNat
  <2>5. t[Max(h)] = s[Max(h)]
    BY <1>3, <2>4
  <2>6. QED
    BY <2>1, <2>3, <2>5
<1>8. Conversions(t, H) = Over([v \in {a[1]} |-> a[2]], Conversions(s, G))
  <2> DEFINE F == [v \in D |-> s[Max({i \in G : s[i][2][1] = v})][2][2]]
  <2> DEFINE E == [v \in D \cup {a[1]} |-> t[Max({i \in H : t[i][2][1] = v})][2][2]]
  <2> DEFINE A == [v \in {a[1]} |-> a[2]]
  <2>1. Conversions(s, G) = F /\ Conversions(t, H) = E
    BY <1>5 DEF Conversions
  <2>2. /\ DOMAIN F = D /\ DOMAIN A = {a[1]} /\ A[a[1]] = a[2]
        /\ DOMAIN E = D \cup {a[1]} /\ E = [v \in D \cup {a[1]} |-> E[v]]
    OBVIOUS
  <2>3. E[a[1]] = a[2]
    BY <1>6
  <2>4. \A v \in D : v # a[1] => E[v] = F[v]
    BY <1>7
  <2> HIDE DEF E, F, A, D
  <2>5. E = Over(A, F)
    BY <2>2, <2>3, <2>4 DEF Over
  <2>6. QED
    BY <2>1, <2>5 DEF A
<1>9. One(a) = [v \in {a[1]} |-> a[2]]
  BY DEF One
<1>10. QED
  BY <1>2, <1>8, <1>9 DEF a

(* Any other setting is what the last of its options says.                 *)
LEMMA MadeLast ==
  ASSUME NEW n \in Nat, NEW s, NEW t, NEW x, NEW o, OneMore(n, s, t, x, o),
         x \notin List, x # "conversions"
  PROVE  Made(t, x) = IF x \in Port THEN o[2] % PORTS ELSE o[2]
<1> DEFINE H == PlacesOf(t, x)
<1>1. H \in SUBSET Int /\ n + 1 \in H /\ \A i \in H : i <= n + 1
  BY DEF OneMore
<1>2. Made(t, x) = IF H = {} THEN Default[x]
                   ELSE IF x \in Port THEN t[Max(H)][2] % PORTS ELSE t[Max(H)][2]
  BY DEF Made
<1> HIDE DEF H
<1>3. Max(H) = n + 1 /\ H # {}
  BY <1>1, MaxIs
<1>4. t[Max(H)] = o
  BY <1>3 DEF OneMore
<1>5. QED
  BY <1>2, <1>3, <1>4

(***************************************************************************)
(* The invariant: while main reads its options the settings are what the   *)
(* options so far make of them; while it reads the file, nothing of it was *)
(* wrong so far, and the settings whose key was read and good are those of *)
(* the file; then each is what SettingsExplained says.                     *)
(***************************************************************************)
Pair == Setting \X UNION {Argument(x) : x \in Setting}

Key(i) == KeysOf(service)[i]

OptionsInv ==
  phase \in {"start", "options"} =>
    /\ args \in Seq(Pair) /\ next = 1
    /\ \A x \in Setting : Ordered(args, x)
    /\ settings = [x \in Setting |-> FromOptions(x)]

ReadBefore(x) ==
  \E i \in DOMAIN KeysOf(service) :
    i < next /\ Key(i) = x /\ Present(i) /\ file[x] = "good"

ReadInv ==
  phase = "config" =>
    /\ next \in Nat \ {0}
    /\ \A i \in DOMAIN KeysOf(service) :
         i < next /\ Present(i) => file[Key(i)] \notin {"wrong", "partial"}
    /\ settings = [x \in Setting |-> IF ReadBefore(x) THEN FromKey(x) ELSE FromOptions(x)]

ParsedInv == phase = "parsed" => settings = [x \in Setting |-> Explained(x)]

StartupInv == OptionsInv /\ ReadInv /\ ParsedInv /\ SettingsExplained

LEMMA Keys ==
  ASSUME NEW s
  PROVE  Len(KeysOf(s)) \in Nat /\ DOMAIN KeysOf(s) = 1 .. Len(KeysOf(s))
<1>1. Len(ZmqStackKeys) = 10 /\ DOMAIN ZmqStackKeys = 1 .. 10
  BY DEF ZmqStackKeys
<1>2. Len(ConvStackKeys) = 9 /\ DOMAIN ConvStackKeys = 1 .. 9
  BY DEF ConvStackKeys
<1>3. Len(NetStackKeys) = 9 /\ DOMAIN NetStackKeys = 1 .. 9
  BY DEF NetStackKeys
<1>4. Len(ProxyKeys) = 7 /\ DOMAIN ProxyKeys = 1 .. 7
  BY DEF ProxyKeys
<1>5. Len(<<>>) = 0 /\ DOMAIN <<>> = 1 .. 0
  OBVIOUS
<1>6. QED
  BY ONLY <1>1, <1>2, <1>3, <1>4, <1>5 DEF KeysOf

LEMMA Kinds ==
  /\ Port \subseteq Setting /\ Number \subseteq Setting /\ List \subseteq Setting
  /\ Text \subseteq Setting /\ "interactive" \in Setting /\ "conversions" \in Setting
  /\ "name" \in Setting /\ Topics \subseteq Setting
  /\ (Port \cup Number \cup Text \cup {"interactive"}) \cap (List \cup {"conversions"}) = {}
  /\ (Number \cup Text \cup {"interactive"}) \cap Port = {}
  /\ "conversions" \notin List
  /\ "pubEndpoints" \in List /\ "pubEndpoint" \in Setting
  /\ "pubEndpoint" \notin Port \cup Number \cup Text \cup List \cup {"interactive", "conversions"}
BY DEF Port, Number, List, Topics, Text, Setting, Common

(* A main has each setting, and its lists and conversions are empty first. *)
LEMMA Defaults ==
  /\ Default = [x \in Setting |-> Default[x]]
  /\ \A x \in List \cup {"conversions"} : Default[x] = <<>>
<1>1. DOMAIN Default = Setting
  BY DEF Default, DefaultOf, Setting
<1>2. \A x \in List \cup {"conversions"} : x \in Setting /\ Default[x] = Common[x]
  BY Kinds DEF List, Topics, Default, DefaultOf, Setting
<1>3. \A x \in List \cup {"conversions"} : Common[x] = <<>>
  BY DEF List, Topics, Common
<1>4. Default = [x \in DOMAIN Default |-> Default[x]]
  BY DEF Default, DefaultOf
<1>5. QED
  BY <1>1, <1>2, <1>3, <1>4

(* No option: the defaults.                                                *)
LEMMA MadeOfNone ==
  ASSUME NEW x \in Setting
  PROVE  Made(<<>>, x) = Default[x] /\ Ordered(<<>>, x)
<1>1. PlacesOf(<<>>, x) = {}
  BY DEF PlacesOf
<1>2. Cardinality({}) = 0
  BY FS_EmptySet
<1>3. Ordered(<<>>, x)
  <2>1. 1 .. Cardinality(PlacesOf(<<>>, x)) = {}
    BY <1>1, <1>2
  <2>2. QED
    BY <2>1 DEF Ordered
<1>4. CASE x \in List
  <2>1. Made(<<>>, x) = [k \in 1 .. 0 |-> <<>>[Nth({}, k)][2]]
    BY <1>1, <1>2, <1>4 DEF Made
  <2>2. Made(<<>>, x) = <<>>
    BY <2>1
  <2>3. Default[x] = <<>>
    BY <1>4, Defaults
  <2>4. QED
    BY <1>3, <2>2, <2>3
<1>5. CASE x = "conversions"
  <2>1. Made(<<>>, x) = Conversions(<<>>, {})
    BY <1>1, <1>5 DEF Made, List, Topics
  <2>2. Conversions(<<>>, {}) = <<>>
    BY DEF Conversions
  <2>3. Default[x] = <<>>
    BY <1>5, Defaults
  <2>4. QED
    BY <1>3, <2>1, <2>2, <2>3
<1>6. CASE x \notin List /\ x # "conversions"
  BY <1>1, <1>3, <1>6 DEF Made
<1>7. QED
  BY <1>4, <1>5, <1>6

LEMMA StartupInit == StartInit => StartupInv
<1> SUFFICES ASSUME StartInit PROVE StartupInv
  OBVIOUS
<1>1. phase = "start" /\ args = <<>> /\ next = 1 /\ settings = Default
  BY DEF StartInit
<1>2. \A x \in Setting : FromOptions(x) = Default[x] /\ Ordered(args, x)
  BY <1>1, MadeOfNone, MadeFromOptions
<1>3. Default = [x \in Setting |-> Default[x]]
  BY Defaults
<1>4. args \in Seq(Pair)
  BY <1>1
<1>5. OptionsInv
  BY <1>1, <1>2, <1>3, <1>4 DEF OptionsInv
<1>6. QED
  BY <1>1, <1>5 DEF StartupInv, ReadInv, ParsedInv, SettingsExplained

(* An option sets its setting to what the options now make of it.          *)
LEMMA OptionStep ==
  ASSUME StartupInv, NEW x, NEW a \in Argument(x), TakeOption(x, a)
  PROVE  StartupInv'
<1> DEFINE o == <<x, a>>
<1>1. o[1] = x /\ o[2] = a
  OBVIOUS
<1>2. phase = "options" /\ args' = Append(args, o) /\ next' = next /\ service' = service
  BY DEF TakeOption
<1>3. args \in Seq(Pair) /\ next = 1 /\ (\A y \in Setting : Ordered(args, y))
      /\ settings = [y \in Setting |-> FromOptions(y)]
  BY <1>2 DEF StartupInv, OptionsInv
<1>4. phase' \in {"options", "aborted", "undefined"}
  BY <1>2 DEF TakeOption
<1>5. ReadInv' /\ ParsedInv' /\ SettingsExplained'
  BY <1>4 DEF ReadInv, ParsedInv, SettingsExplained
<1>6. CASE phase' # "options"
  BY <1>4, <1>5, <1>6 DEF StartupInv, OptionsInv
<1>7. CASE phase' = "options"
  <2>1. \/ x \in Port /\ Put(x, a % PORTS)
        \/ x \in Number /\ Put(x, a)
        \/ /\ x \in List
           /\ settings' = [settings EXCEPT ![x] = Append(@, a),
                             !.pubEndpoint = IF x = "pubEndpoints" THEN a ELSE @]
        \/ x \in Text \cup {"interactive"} /\ Put(x, a)
        \/ x = "conversions" /\ Put(x, Over(One(a), settings[x]))
    BY <1>7 DEF TakeOption, One
  <2>2. x \in Setting /\ x # "pubEndpoint" /\ Option(x) = x
    BY <2>1, Kinds DEF Option
  <2>3. o \in Pair
    BY <2>2 DEF Pair
  <2> HIDE DEF o
  <2> DEFINE n == Len(args)
  <2>4. /\ n \in Nat /\ args' \in Seq(Pair)
        /\ args'[n + 1] = o /\ \A i \in 1 .. n : args'[i] = args[i]
        /\ \A y : PlacesOf(args, y) \in SUBSET (1 .. n)
        /\ \A y : Option(y) # x => PlacesOf(args', y) = PlacesOf(args, y)
        /\ \A y : Option(y) = x => PlacesOf(args', y) = PlacesOf(args, y) \cup {n + 1}
    <3>1. args \in Seq(Pair)
      BY <1>3
    <3>2. args' = Append(args, o)
      BY <1>2
    <3>3. /\ n \in Nat /\ Append(args, o) \in Seq(Pair)
          /\ Append(args, o)[n + 1] = o
          /\ \A i \in 1 .. n : Append(args, o)[i] = args[i]
          /\ \A y : PlacesOf(args, y) \in SUBSET (1 .. n)
          /\ \A y : Option(y) # x => PlacesOf(Append(args, o), y) = PlacesOf(args, y)
          /\ \A y : Option(y) = x =>
               PlacesOf(Append(args, o), y) = PlacesOf(args, y) \cup {n + 1}
      BY <1>1, <2>3, <3>1, PlacesAppended
    <3>4. QED
      BY <3>2, <3>3
  <2> HIDE DEF n
  <2>5. ASSUME NEW y \in Setting, Option(y) = x
        PROVE  OneMore(n, args, args', y, o) /\ Ordered(args', y)
    <3>1. OneMore(n, args, args', y, o)
      BY <1>3, <2>4, <2>5 DEF OneMore
    <3>2. QED
      BY <2>4, <3>1, OrderedGrows
  <2>6. ASSUME NEW y \in Setting, Option(y) # x
        PROVE  Made(args', y) = Made(args, y) /\ Ordered(args', y)
    <3>1. Ordered(args, y) /\ PlacesOf(args', y) = PlacesOf(args, y)
          /\ PlacesOf(args, y) \in SUBSET (1 .. n)
      BY <1>3, <2>4, <2>6
    <3>2. QED
      BY <2>4, <3>1, MadeAlike
  <2>7. settings = [y \in Setting |-> Made(args, y)]
    BY <1>3, MadeFromOptions
  <2>8. ASSUME x # "pubEndpoints", NEW y \in Setting, y # x
        PROVE  Made(args', y) = Made(args, y)
    BY <2>2, <2>6, <2>8 DEF Option
  <2>9. settings' = [y \in Setting |-> Made(args', y)]
    <3>1. CASE x \in List
      <4>1. x \notin Port \cup Number \cup Text \cup {"interactive", "conversions"}
        BY <3>1, Kinds
      <4>2. settings' = [settings EXCEPT ![x] = Append(@, a),
                           !.pubEndpoint = IF x = "pubEndpoints" THEN a ELSE @]
        BY <2>1, <4>1
      <4>3. Made(args', x) = Append(Made(args, x), a)
        BY <1>1, <2>2, <2>4, <2>5, <3>1, MadeList
      <4>4. Made(args', "pubEndpoint") =
              IF x = "pubEndpoints" THEN a ELSE Made(args, "pubEndpoint")
        <5>1. CASE x = "pubEndpoints"
          <6>1. Option("pubEndpoint") = x
            BY <5>1 DEF Option
          <6>2. OneMore(n, args, args', "pubEndpoint", o)
            BY <2>5, <6>1, Kinds
          <6>3. QED
            BY <1>1, <2>4, <5>1, <6>2, MadeLast, Kinds
        <5>2. CASE x # "pubEndpoints"
          BY <2>2, <2>8, <5>2, Kinds
        <5>3. QED
          BY <5>1, <5>2
      <4>5. ASSUME NEW y \in Setting, y # x, y # "pubEndpoint"
            PROVE  Made(args', y) = Made(args, y)
        BY <2>6, <4>5 DEF Option
      <4>6. ASSUME NEW y \in Setting
            PROVE  settings'[y] = Made(args', y)
        <5>1. CASE y = x
          BY <2>2, <2>7, <4>2, <4>3, <5>1
        <5>2. CASE y = "pubEndpoint"
          BY <2>2, <2>7, <4>2, <4>4, <5>2
        <5>3. CASE y # x /\ y # "pubEndpoint"
          BY <2>7, <4>2, <4>5, <5>3
        <5>4. QED
          BY <5>1, <5>2, <5>3
      <4>7. settings' = [y \in Setting |-> settings'[y]]
        BY <2>7, <4>2
      <4>8. QED
        BY <4>6, <4>7
    <3>2. CASE x \notin List
      <4>1. Put(x, Made(args', x))
        <5>1. CASE x = "conversions"
          <6>1. x \notin Port \cup Number \cup Text \cup {"interactive"} \cup List
            BY <5>1, Kinds
          <6>2. Put(x, Over(One(a), settings[x]))
            BY <2>1, <6>1
          <6>3. Made(args', "conversions") = Over(One(o[2]), Made(args, "conversions"))
            BY <2>2, <2>4, <2>5, <5>1, MadeConversions
          <6>4. settings[x] = Made(args, x)
            BY <2>2, <2>7
          <6>5. QED
            BY <1>1, <5>1, <6>2, <6>3, <6>4
        <5>2. CASE x # "conversions"
          <6>1. Put(x, IF x \in Port THEN a % PORTS ELSE a)
            BY <2>1, <3>2, <5>2, Kinds
          <6>2. Made(args', x) = IF x \in Port THEN o[2] % PORTS ELSE o[2]
            BY <2>2, <2>4, <2>5, <3>2, <5>2, MadeLast
          <6>3. QED
            BY <1>1, <6>1, <6>2
        <5>3. QED
          BY <5>1, <5>2
      <4>2. settings' = [settings EXCEPT ![x] = Made(args', x)]
        BY <4>1 DEF Put
      <4>3. x # "pubEndpoints"
        BY <3>2, Kinds
      <4>4. QED
        BY <2>2, <2>7, <2>8, <4>2, <4>3
    <3>3. QED
      BY <3>1, <3>2
  <2>10. \A y \in Setting : FromOptions(y)' = Made(args', y)
    <3>1. Default' = Default
      BY <1>2 DEF Default
    <3>2. QED
      BY <3>1 DEF FromOptions, Given, Made, PlacesOf, Conversions
  <2>11. \A y \in Setting : Ordered(args', y)
    BY <2>5, <2>6
  <2>12. OptionsInv'
    BY <1>2, <1>3, <2>4, <2>9, <2>10, <2>11 DEF OptionsInv
  <2>13. QED
    BY <1>5, <2>12 DEF StartupInv
<1>8. QED
  BY <1>6, <1>7

(* What the options make of a setting stays once no more are taken.        *)
LEMMA OptionsKept ==
  ASSUME args' = args, service' = service, NEW x
  PROVE  FromOptions(x)' = FromOptions(x) /\ FromKey(x)' = FromKey(x)
<1>1. Default' = Default
  BY DEF Default
<1>2. QED
  BY <1>1 DEF FromOptions, Given, Nth, FromKey

LEMMA BeginStep ==
  ASSUME StartupInv, Begin
  PROVE  StartupInv'
<1>1. /\ phase = "start" /\ phase' \in {"options", "aborted"}
      /\ args' = args /\ next' = next /\ settings' = settings /\ service' = service
  BY DEF Begin
<1>2. args \in Seq(Pair) /\ next = 1 /\ (\A y \in Setting : Ordered(args, y))
      /\ settings = [y \in Setting |-> FromOptions(y)]
  BY <1>1 DEF StartupInv, OptionsInv
<1>3. \A y \in Setting : FromOptions(y)' = FromOptions(y)
  BY <1>1, OptionsKept
<1>4. OptionsInv'
  BY <1>1, <1>2, <1>3 DEF OptionsInv
<1>5. QED
  BY <1>1, <1>4 DEF StartupInv, ReadInv, ParsedInv, SettingsExplained

(* No key is read when the file has been opened.                           *)
LEMMA OpenStep ==
  ASSUME StartupInv, OpenConfig
  PROVE  StartupInv'
<1>1. /\ phase = "options" /\ phase' = "config"
      /\ args' = args /\ next' = next /\ settings' = settings /\ service' = service
  BY DEF OpenConfig
<1>2. next = 1 /\ settings = [y \in Setting |-> FromOptions(y)]
  BY <1>1 DEF StartupInv, OptionsInv
<1>3. \A y \in Setting : FromOptions(y)' = FromOptions(y)
  BY <1>1, OptionsKept
<1>4. \A i \in DOMAIN KeysOf(service) : ~(i < 1)
  BY Keys
<1>5. \A y \in Setting : ~ReadBefore(y)'
  BY <1>1, <1>2, <1>4 DEF ReadBefore
<1>6. settings' = [y \in Setting |-> IF ReadBefore(y)' THEN FromKey(y)' ELSE FromOptions(y)']
  BY <1>1, <1>2, <1>3, <1>5
<1>7. ReadInv'
  BY <1>1, <1>2, <1>4, <1>6 DEF ReadInv
<1>8. QED
  BY <1>1, <1>7 DEF StartupInv, OptionsInv, ParsedInv, SettingsExplained

(* When the reading ends, by an exception or with the file, the settings   *)
(* read before are those FromFile speaks of.                               *)
ReadHalf(e, x) == e \in DOMAIN KeysOf(service) /\ Key(e) = x /\ file[x] = "partial"

LEMMA ReadIsFromFile ==
  ASSUME phase = "config", ReadInv, NEW x, NEW e \in Nat, next <= e,
         \A i \in next .. e - 1 : ~Present(i),
         e \in DOMAIN KeysOf(service) => Present(e) /\ file[Key(e)] \in {"wrong", "partial"}
  PROVE  FromFile(x) <=> ReadBefore(x) \/ ReadHalf(e, x)
<1>1. next \in Nat \ {0}
      /\ \A i \in DOMAIN KeysOf(service) :
           i < next /\ Present(i) => file[Key(i)] \notin {"wrong", "partial"}
  BY DEF ReadInv
<1>2. Len(KeysOf(service)) \in Nat /\ DOMAIN KeysOf(service) = 1 .. Len(KeysOf(service))
  BY Keys
<1>3. ASSUME ReadBefore(x) PROVE FromFile(x)
  <2>1. PICK i \in DOMAIN KeysOf(service) :
          i < next /\ Key(i) = x /\ Present(i) /\ file[x] = "good"
    BY <1>3 DEF ReadBefore
  <2>2. \A j \in 1 .. i - 1 : Present(j) => file[Key(j)] \notin {"wrong", "partial"}
    BY <1>1, <1>2, <2>1
  <2>3. QED
    BY <2>1, <2>2 DEF FromFile, Key
<1>4. ASSUME ReadHalf(e, x) PROVE FromFile(x)
  <2>1. e \in DOMAIN KeysOf(service) /\ Key(e) = x /\ Present(e) /\ file[x] = "partial"
    BY <1>4 DEF ReadHalf
  <2>2. \A j \in 1 .. e - 1 : j \in DOMAIN KeysOf(service)
                            /\ (j < next \/ j \in next .. e - 1)
    BY <1>1, <1>2, <2>1
  <2>3. \A j \in 1 .. e - 1 : Present(j) => file[Key(j)] \notin {"wrong", "partial"}
    BY <1>1, <2>2
  <2>4. QED
    BY <2>1, <2>3 DEF FromFile, Key
<1>5. ASSUME FromFile(x), ~ReadHalf(e, x) PROVE ReadBefore(x)
  <2>1. PICK i \in DOMAIN KeysOf(service) :
          /\ Key(i) = x /\ Present(i) /\ file[x] \in {"good", "partial"}
          /\ \A j \in 1 .. i - 1 : Present(j) => file[Key(j)] \notin {"wrong", "partial"}
    BY <1>5 DEF FromFile, Key
  <2>2. i \in Nat /\ i >= 1 /\ i <= Len(KeysOf(service))
    BY <1>2
  <2>3. ~(i >= next /\ i < e)
    BY <1>1, <2>1, <2>2
  <2>4. i # e
    BY <1>5, <2>1 DEF ReadHalf
  <2>5. ~(i > e)
    <3>1. SUFFICES ASSUME i > e PROVE FALSE
      OBVIOUS
    <3>2. e \in DOMAIN KeysOf(service) /\ e \in 1 .. i - 1
      BY <1>1, <1>2, <2>2, <3>1
    <3>3. QED
      BY <2>1, <3>2
  <2>6. i < next
    BY <1>1, <2>2, <2>3, <2>4, <2>5
  <2>7. QED
    BY <1>1, <2>1, <2>6 DEF ReadBefore
<1>6. QED
  BY <1>3, <1>4, <1>5

LEMMA OverTwice ==
  ASSUME NEW f, NEW g
  PROVE  Over(f, Over(f, g)) = Over(f, g)
<1> DEFINE h == Over(f, g)
<1>1. /\ DOMAIN h = DOMAIN f \cup DOMAIN g
      /\ \A t \in DOMAIN h : h[t] = IF t \in DOMAIN f THEN f[t] ELSE g[t]
      /\ h = [t \in DOMAIN h |-> h[t]]
  BY DEF Over
<1> HIDE DEF h
<1>2. Over(f, h) = [t \in DOMAIN h |-> h[t]]
  BY <1>1 DEF Over
<1>3. QED
  BY <1>1, <1>2 DEF h

(* A value of the file replaces what the setting was, whatever that was.   *)
LEMMA ReadValueIs ==
  ASSUME phase = "config", ReadInv, NEW x \in Setting
  PROVE  ReadValue(x) = FromKey(x)
<1>1. settings[x] = IF ReadBefore(x) THEN FromKey(x) ELSE FromOptions(x)
  BY DEF ReadInv
<1>2. CASE x = "conversions"
  <2>1. ReadValue(x) = Over(Value(x), settings[x])
        /\ FromKey(x) = Over(Value(x), FromOptions(x))
    BY <1>2 DEF ReadValue, FromKey
  <2>2. Over(Value(x), FromKey(x)) = FromKey(x)
    BY <2>1, OverTwice
  <2>3. QED
    BY <1>1, <2>1, <2>2
<1>3. CASE x # "conversions"
  BY <1>3 DEF ReadValue, FromKey
<1>4. QED
  BY <1>2, <1>3

(* A key of the file is read.                                              *)
LEMMA ReadStep ==
  ASSUME StartupInv, ReadKey
  PROVE  StartupInv'
<1>1. PICK i \in next .. Len(KeysOf(service)) :
        /\ Present(i) /\ \A j \in next .. i - 1 : ~Present(j)
        /\ next' = i + 1
        /\ IF file[Key(i)] \in {"good", "partial"} THEN Put(Key(i), ReadValue(Key(i)))
           ELSE UNCHANGED settings
        /\ IF file[Key(i)] \in {"wrong", "partial"} THEN phase' = "parsed"
           ELSE UNCHANGED phase
  BY DEF ReadKey, Key
<1>2. phase = "config" /\ service' = service /\ args' = args /\ file' = file
  BY DEF ReadKey
<1> DEFINE x == Key(i)
<1> DEFINE Read(y) == IF ReadBefore(y) THEN FromKey(y) ELSE FromOptions(y)
<1>3. /\ next \in Nat \ {0}
      /\ \A j \in DOMAIN KeysOf(service) :
           j < next /\ Present(j) => file[Key(j)] \notin {"wrong", "partial"}
      /\ settings = [y \in Setting |-> Read(y)]
  BY <1>2 DEF StartupInv, ReadInv
<1>4. Len(KeysOf(service)) \in Nat /\ DOMAIN KeysOf(service) = 1 .. Len(KeysOf(service))
  BY Keys
<1>5. i \in Nat /\ i >= next /\ i \in DOMAIN KeysOf(service)
  BY <1>3, <1>4
<1>6. \A y \in Setting : FromOptions(y)' = FromOptions(y) /\ FromKey(y)' = FromKey(y)
  BY <1>2, OptionsKept
<1>7. \A j : Present(j)' = Present(j) /\ Key(j)' = Key(j)
  BY <1>2 DEF Present, Key
<1>8. x \in Setting => ReadValue(x) = FromKey(x)
  BY <1>2, ReadValueIs DEF StartupInv
<1> HIDE DEF x
<1>9. settings' = IF file[x] \in {"good", "partial"}
                    THEN [y \in Setting |-> IF y = x THEN FromKey(y) ELSE Read(y)]
                    ELSE settings
  <2>1. CASE file[x] \in {"good", "partial"}
    <3>1. settings' = [settings EXCEPT ![x] = ReadValue(x)]
      BY <1>1, <2>1 DEF Put, x
    <3> HIDE DEF Read
    <3>2. QED
      BY <1>3, <1>8, <2>1, <3>1
  <2>2. CASE file[x] \notin {"good", "partial"}
    BY <1>1, <2>2 DEF x
  <2>3. QED
    BY <2>1, <2>2
<1>10. CASE file[x] \notin {"wrong", "partial"}
  <2>1. phase' = "config"
    BY <1>1, <1>2, <1>10 DEF x
  <2>2. \A j \in DOMAIN KeysOf(service) : j < i + 1 => j < next \/ j \in next .. i - 1 \/ j = i
    BY <1>3, <1>4, <1>5
  <2>3. \A j \in DOMAIN KeysOf(service) :
          j < i + 1 /\ Present(j) => file[Key(j)] \notin {"wrong", "partial"}
    BY <1>1, <1>3, <1>10, <2>2 DEF x
  <2>4. \A j \in DOMAIN KeysOf(service) : j < next => j < i + 1
    BY <1>3, <1>4, <1>5
  <2>5. ASSUME NEW y
        PROVE  ReadBefore(y)' <=> ReadBefore(y) \/ (y = x /\ file[x] = "good")
    <3>1. ReadBefore(y)' <=> \E j \in DOMAIN KeysOf(service) :
                               j < i + 1 /\ Key(j) = y /\ Present(j) /\ file[y] = "good"
      BY <1>1, <1>2, <1>7 DEF ReadBefore
    <3>2. i < i + 1
      BY <1>5
    <3>3. QED
      BY <1>1, <1>5, <2>2, <2>4, <3>1, <3>2 DEF ReadBefore, x
  <2>6. settings' = [y \in Setting |-> IF ReadBefore(y)' THEN FromKey(y)' ELSE FromOptions(y)']
    <3>1. CASE file[x] = "good"
      BY <1>6, <1>9, <2>5, <3>1
    <3>2. CASE file[x] # "good"
      BY <1>3, <1>6, <1>9, <1>10, <2>5, <3>2
    <3>3. QED
      BY <3>1, <3>2
  <2>7. next' = i + 1 /\ i + 1 \in Nat \ {0}
    BY <1>1, <1>5
  <2>8. ReadInv'
    BY <1>2, <1>7, <2>3, <2>6, <2>7 DEF ReadInv
  <2>9. QED
    BY <2>1, <2>8 DEF StartupInv, OptionsInv, ParsedInv, SettingsExplained
<1>11. CASE file[x] \in {"wrong", "partial"}
  <2>1. phase' = "parsed"
    BY <1>1, <1>11 DEF x
  <2>2. \A y : FromFile(y) <=> ReadBefore(y) \/ ReadHalf(i, y)
    BY <1>1, <1>2, <1>5, <1>11, ReadIsFromFile DEF StartupInv, x
  <2>3. \A y : ReadHalf(i, y) <=> y = x /\ file[x] = "partial"
    BY <1>5 DEF ReadHalf, x
  <2>4. \A y \in Setting : Explained(y)' = Explained(y)
    <3>1. \A y : FromFile(y)' <=> FromFile(y)
      BY <1>2 DEF FromFile, Present
    <3>2. QED
      BY <1>6, <3>1 DEF Explained
  <2>5. settings' = [y \in Setting |-> Explained(y)]
    <3>1. CASE file[x] = "partial"
      BY <1>9, <2>2, <2>3, <3>1 DEF Explained
    <3>2. CASE file[x] = "wrong"
      BY <1>3, <1>9, <2>2, <2>3, <3>2 DEF Explained
    <3>3. QED
      BY <1>11, <3>1, <3>2
  <2>6. ParsedInv'
    BY <2>4, <2>5 DEF ParsedInv
  <2>7. QED
    BY <2>1, <2>6 DEF StartupInv, OptionsInv, ReadInv, SettingsExplained
<1>12. QED
  BY <1>10, <1>11

(* The file has no more keys.                                              *)
LEMMA EndStep ==
  ASSUME StartupInv, EndConfig
  PROVE  StartupInv'
<1>1. /\ phase = "config" /\ phase' = "parsed" /\ service' = service /\ args' = args
      /\ file' = file /\ settings' = settings
      /\ \A j \in next .. Len(KeysOf(service)) : ~Present(j)
  BY DEF EndConfig, startVars
<1>2. /\ next \in Nat \ {0}
      /\ settings = [y \in Setting |-> IF ReadBefore(y) THEN FromKey(y) ELSE FromOptions(y)]
  BY <1>1 DEF StartupInv, ReadInv
<1>3. Len(KeysOf(service)) \in Nat /\ DOMAIN KeysOf(service) = 1 .. Len(KeysOf(service))
  BY Keys
<1>4. PICK e \in Nat : next <= e /\ Len(KeysOf(service)) < e
                       /\ (e = next \/ e = Len(KeysOf(service)) + 1)
  <2>1. CASE next <= Len(KeysOf(service)) + 1
    BY <1>2, <1>3, <2>1
  <2>2. CASE ~(next <= Len(KeysOf(service)) + 1)
    BY <1>2, <1>3, <2>2
  <2>3. QED
    BY <2>1, <2>2
<1>5. \A j \in next .. e - 1 : ~Present(j)
  BY <1>1, <1>2, <1>3, <1>4
<1>6. e \notin DOMAIN KeysOf(service)
  BY <1>3, <1>4
<1>7. \A y : FromFile(y) <=> ReadBefore(y)
  <2>1. \A y : FromFile(y) <=> ReadBefore(y) \/ ReadHalf(e, y)
    BY <1>1, <1>4, <1>5, <1>6, ReadIsFromFile DEF StartupInv
  <2>2. QED
    BY <1>6, <2>1 DEF ReadHalf
<1>8. \A y \in Setting : Explained(y)' = Explained(y)
  <2>1. \A y : FromFile(y)' <=> FromFile(y)
    BY <1>1 DEF FromFile, Present
  <2>2. QED
    BY <1>1, <2>1, OptionsKept DEF Explained
<1>9. ParsedInv'
  BY <1>1, <1>2, <1>7, <1>8 DEF ParsedInv, Explained
<1>10. QED
  BY <1>1, <1>9 DEF StartupInv, OptionsInv, ReadInv, SettingsExplained

(* The name of a numbered service is set last, with its topics.            *)
LEMMA NameStep ==
  ASSUME StartupInv, NameTopics
  PROVE  StartupInv'
<1>1. /\ phase = "parsed" /\ phase' = "ready" /\ service' = service /\ args' = args
      /\ file' = file /\ instance' = instance
  BY DEF NameTopics
<1>2. settings = [y \in Setting |-> Explained(y)]
  BY <1>1 DEF StartupInv, ParsedInv
<1>3. \A y \in Setting : Explained(y)' = Explained(y)
  <2>1. \A y : FromFile(y)' <=> FromFile(y)
    BY <1>1 DEF FromFile, Present
  <2>2. QED
    BY <1>1, <2>1, OptionsKept DEF Explained
<1>4. Numbered(service)' <=> Numbered(service)
  BY <1>1 DEF Numbered
<1>5. SettingsExplained'
  <2>1. CASE ~Numbered(service)
    <3>1. settings' = settings
      BY <2>1 DEF NameTopics
    <3>2. QED
      BY <1>2, <1>3, <1>4, <2>1, <3>1 DEF SettingsExplained
  <2>2. CASE Numbered(service)
    <3> DEFINE n == Append(settings.name, instance)
    <3>1. settings' = [settings EXCEPT !.name = n,
                                       !.pubTopics = << Append(n, "ingress") >>,
                                       !.subTopics = << Append(n, "egress") >>]
      BY <2>2 DEF NameTopics
    <3>2. {"name", "pubTopics", "subTopics"} \subseteq Setting /\ DOMAIN settings = Setting
      BY <1>2, Kinds DEF Topics
    <3>3. settings.name = Explained("name")
      BY <1>2, <3>2
    <3> HIDE DEF n
    <3>4. settings'.name = n
      BY <3>1, <3>2
    <3>5. \A y \in Setting \ (Topics \cup {"name"}) : settings'[y] = settings[y]
      BY <3>1, <3>2 DEF Topics
    <3>6. n = Append(Explained("name")', instance')
      BY <1>1, <1>3, <3>2, <3>3 DEF n
    <3>7. \A y \in Setting \ (Topics \cup {"name"}) : settings'[y] = Explained(y)'
      BY <1>2, <1>3, <3>5
    <3>8. QED
      BY <1>4, <2>2, <3>4, <3>6, <3>7 DEF SettingsExplained
  <2>3. QED
    BY <2>1, <2>2
<1>6. QED
  BY <1>1, <1>5 DEF StartupInv, OptionsInv, ReadInv, ParsedInv

(* A step that changes nothing of the start keeps its invariant; so does   *)
(* one to a phase that is not of the start.                                *)
LEMMA StartKept ==
  ASSUME StartupInv, UNCHANGED <<service, phase, startVars>>
  PROVE  StartupInv'
<1>1. service' = service /\ phase' = phase /\ args' = args /\ file' = file
      /\ next' = next /\ instance' = instance /\ settings' = settings
  BY DEF startVars
<1>2. \A y \in Setting : FromOptions(y)' = FromOptions(y) /\ FromKey(y)' = FromKey(y)
  BY <1>1, OptionsKept
<1>3. \A j : Present(j)' = Present(j) /\ Key(j)' = Key(j)
  BY <1>1 DEF Present, Key
<1>4. \A y \in Setting : ReadBefore(y)' <=> ReadBefore(y)
  BY <1>1, <1>3 DEF ReadBefore
<1>5. \A y \in Setting : Explained(y)' = Explained(y)
  <2>1. \A y : FromFile(y)' <=> FromFile(y)
    BY <1>1 DEF FromFile, Present
  <2>2. QED
    BY <1>2, <2>1 DEF Explained
<1>6. OptionsInv'
  BY <1>1, <1>2 DEF StartupInv, OptionsInv
<1>7. ReadInv'
  BY <1>1, <1>2, <1>3, <1>4 DEF StartupInv, ReadInv
<1>8. ParsedInv'
  BY <1>1, <1>5 DEF StartupInv, ParsedInv
<1>9. SettingsExplained'
  <2>1. "name" \in Setting
    BY Kinds
  <2>2. Numbered(service)' <=> Numbered(service)
    BY <1>1 DEF Numbered
  <2>3. QED
    BY <1>1, <1>5, <2>1, <2>2 DEF StartupInv, SettingsExplained
<1>10. QED
  BY <1>6, <1>7, <1>8, <1>9 DEF StartupInv

LEMMA StartLeft ==
  ASSUME phase' \notin {"start", "options", "config", "parsed", "ready"}
  PROVE  StartupInv'
BY DEF StartupInv, OptionsInv, ReadInv, ParsedInv, SettingsExplained

LEMMA StartupStep == StartupInv /\ [Next]_vars => StartupInv'
<1> SUFFICES ASSUME StartupInv, [Next]_vars PROVE StartupInv'
  OBVIOUS
<1>1. CASE Starts
  <2>1. ASSUME NEW o \in DOMAIN OptionsOf(service),
               NEW a \in Argument(OptionsOf(service)[o]), TakeOption(OptionsOf(service)[o], a)
        PROVE  StartupInv'
    BY <2>1, OptionStep
  <2>2. CASE Begin
    BY <2>2, BeginStep
  <2>3. CASE UnknownOption
    BY <2>3, StartLeft DEF UnknownOption
  <2>4. CASE OpenConfig
    BY <2>4, OpenStep
  <2>5. CASE ReadKey
    BY <2>5, ReadStep
  <2>6. CASE EndConfig
    BY <2>6, EndStep
  <2>7. CASE NameTopics
    BY <2>7, NameStep
  <2>8. QED
    BY <1>1, <2>1, <2>2, <2>3, <2>4, <2>5, <2>6, <2>7 DEF Starts, Startup
<1>2. CASE Construct
  <2>1. phase' \in {"aborted", "prompt", "loop", "running"}
    BY <1>2 DEF Construct
  <2>2. QED
    BY <2>1, StartLeft
<1>3. CASE Main \/ Threads
  <2>1. CASE LoopTest \/ LoopSend \/ Wake \/ Perform
    <3>1. phase' \in {"closing", "send", "sleep", "loop", "undefined", "aborted", "prompt"}
      BY <2>1 DEF LoopTest, LoopSend, Wake, Perform, Goes
    <3>2. QED
      BY <3>1, StartLeft
  <2>2. CASE StopHealth \/ JoinHealth \/ JoinSubscriber \/ JoinReceiver \/ CloseContext
    <3>1. phase' \in {"healthJoin", "subscriberJoin", "receiverJoin", "context", "done"}
      BY <2>2 DEF StopHealth, JoinHealth, JoinSubscriber, JoinReceiver, CloseContext,
                  Proceed, Goes
    <3>2. QED
      BY <3>1, StartLeft
  <2>3. CASE HealthListen
    <3>1. phase' = "healthJoin"
      BY <2>3 DEF HealthListen, Proceed, Goes
    <3>2. QED
      BY <3>1, StartLeft
  <2>4. CASE ThreadEnds
    BY <2>4, StartKept DEF ThreadEnds, Proceed, Goes
  <2>5. QED
    BY <1>3, <2>1, <2>2, <2>3, <2>4 DEF Main, Threads
<1>4. CASE Signal
  <2>1. phase' \in {"loop", "send", "sleep", "prompt", "aborted"}
    BY <1>4 DEF Signal, Goes
  <2>2. QED
    BY <2>1, StartLeft
<1>5. CASE ReadLine
  BY <1>5, StartLeft DEF ReadLine, Goes
<1>6. CASE Pods
  BY <1>6, StartKept DEF Pods
<1>7. CASE Idle \/ UNCHANGED vars
  BY <1>7, StartKept DEF Idle, vars
<1>8. ASSUME NEW c \in Connection, Reach(c) \/ Flow(c) \/ Arrive(c)
      PROVE  StartupInv'
  BY <1>8, StartKept DEF Reach, Flow, Arrive
<1>9. QED
  BY <1>1, <1>2, <1>3, <1>4, <1>5, <1>6, <1>7, <1>8 DEF Next

(* A service comes up with the settings SettingsExplained describes,       *)
(* whatever options it is given and whatever its file has, in any number   *)
(* and order: the loop over the options and the reads of the keys in each  *)
(* main (ZmqStackMain.cpp:51-145 and its like).                            *)
THEOREM SettingsAreExplained == Spec => []SettingsExplained
<1>1. Init => StartupInv
  BY StartupInit DEF Init
<1>2. StartupInv => SettingsExplained
  BY DEF StartupInv
<1>3. QED
  BY <1>1, <1>2, StartupStep, PTL DEF Spec

=============================================================================
