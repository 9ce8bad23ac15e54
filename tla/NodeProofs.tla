----------------------------- MODULE NodeProofs -----------------------------
(***************************************************************************)
(* Proofs about Node, for pages, slots and records of any size: the        *)
(* children keep their order and, as long as Update is not called on       *)
(* overflow records, every slot leads to its record, the space counters    *)
(* are exact and the overflow records are those the slots refer to.        *)
(***************************************************************************)
EXTENDS Node, SequenceTheorems, WellFoundedInduction, TLAPS

-----------------------------------------------------------------------------
(* Induction, and sums of sequences of numbers.                             *)

\* Induction from 0 to N, for a set.
LEMMA RangeInduction ==
    ASSUME NEW N \in Nat, NEW T, 0 \in T,
           \A k \in 0 .. (N - 1) : k \in T => k + 1 \in T
    PROVE  0 .. N \subseteq T
  <1> DEFINE Bad == (0 .. N) \ T
             R   == OpToRel(<, Nat)
  <1> SUFFICES ASSUME Bad # {} PROVE FALSE
    OBVIOUS
  <1>1. Bad \subseteq Nat
    OBVIOUS
  <1>2. PICK x \in Bad : \A y \in Bad : ~(<<y, x>> \in R)
    <2>1. IsWellFoundedOn(R, Nat)
      BY NatLessThanWellFounded
    <2> HIDE DEF R, Bad
    <2>2. QED
      BY <1>1, <2>1, WFMin
  <1>3. x \in Nat /\ x # 0 /\ x - 1 \in 0 .. (N - 1)
    OBVIOUS
  <1>4. <<x - 1, x>> \in R
    BY <1>3 DEF OpToRel
  <1> HIDE DEF R
  <1>5. x - 1 \in T
    BY <1>2, <1>3, <1>4
  <1>6. (x - 1) + 1 \in T
    BY <1>3, <1>5
  <1>7. QED
    BY <1>3, <1>6

\* f lists the sums of the first elements of s.
IsPrefixSum(f, s, N) == f = [i \in 0 .. N |-> IF i = 0 THEN 0 ELSE f[i - 1] + s[i]]

PrefixSum(s, N) == CHOOSE f : IsPrefixSum(f, s, N)

Total(s) == PrefixSum(s, Len(s))[Len(s)]

LEMMA PrefixExists ==
    ASSUME NEW s, NEW N \in Nat
    PROVE  IsPrefixSum(PrefixSum(s, N), s, N)
  <1> DEFINE T == {n \in 0 .. N : \E f : IsPrefixSum(f, s, n)}
  <1>1. 0 \in T
    <2>1. IsPrefixSum([i \in 0 .. 0 |-> 0], s, 0)
      BY DEF IsPrefixSum
    <2>2. QED
      BY <2>1
  <1>2. ASSUME NEW k \in 0 .. (N - 1), k \in T
        PROVE  k + 1 \in T
    <2>1. PICK f : IsPrefixSum(f, s, k)
      BY <1>2
    <2> DEFINE g == [i \in 0 .. (k + 1) |-> IF i = k + 1 THEN f[k] + s[k + 1] ELSE f[i]]
    <2>2. \A i \in 0 .. k : f[i] = IF i = 0 THEN 0 ELSE f[i - 1] + s[i]
      BY <2>1 DEF IsPrefixSum
    <2>3. \A i \in 0 .. k : g[i] = f[i]
      OBVIOUS
    <2>4. ASSUME NEW i \in 0 .. (k + 1)
          PROVE  g[i] = IF i = 0 THEN 0 ELSE g[i - 1] + s[i]
      <3>1. CASE i = k + 1
        <4>1. g[i] = f[k] + s[k + 1] /\ g[k] = f[k] /\ i - 1 = k /\ i # 0
          BY <2>3, <3>1
        <4>2. QED
          BY <3>1, <4>1
      <3>2. CASE i # k + 1
        <4>1. i \in 0 .. k /\ (i # 0 => i - 1 \in 0 .. k)
          BY <3>2
        <4>2. g[i] = f[i] /\ (i # 0 => g[i - 1] = f[i - 1])
          BY <2>3, <4>1
        <4>3. QED
          BY <2>2, <4>1, <4>2
      <3>3. QED
        BY <3>1, <3>2
    <2>5. IsPrefixSum(g, s, k + 1)
      BY <2>4 DEF IsPrefixSum
    <2>6. k + 1 \in 0 .. N
      OBVIOUS
    <2>7. QED
      BY <2>5, <2>6
  <1>3. N \in T
    <2> HIDE DEF T
    <2>1. 0 .. N \subseteq T
      BY <1>1, <1>2, RangeInduction
    <2>2. QED
      BY <2>1
  <1>4. \E f : IsPrefixSum(f, s, N)
    BY <1>3
  <1>5. QED
    BY <1>4 DEF PrefixSum

LEMMA PrefixFacts ==
    ASSUME NEW s \in Seq(Nat), NEW N \in 0 .. Len(s)
    PROVE  /\ PrefixSum(s, N) \in [0 .. N -> Nat]
           /\ PrefixSum(s, N)[0] = 0
           /\ \A i \in 1 .. N : PrefixSum(s, N)[i] = PrefixSum(s, N)[i - 1] + s[i]
  <1> DEFINE P == PrefixSum(s, N)
  <1>1. P = [i \in 0 .. N |-> IF i = 0 THEN 0 ELSE P[i - 1] + s[i]]
    BY PrefixExists DEF IsPrefixSum
  <1> HIDE DEF P
  <1>2. P[0] = 0 /\ \A i \in 1 .. N : P[i] = P[i - 1] + s[i]
    BY <1>1
  <1> DEFINE T == {i \in 0 .. N : P[i] \in Nat}
  <1>3. 0 \in T
    BY <1>2
  <1>4. ASSUME NEW k \in 0 .. (N - 1), k \in T
        PROVE  k + 1 \in T
    <2>1. k + 1 \in 1 .. N /\ s[k + 1] \in Nat
      OBVIOUS
    <2>2. P[k + 1] = P[k] + s[k + 1]
      BY <1>2, <2>1
    <2>3. QED
      BY <1>4, <2>1, <2>2
  <1>5. 0 .. N \subseteq T
    <2> HIDE DEF T
    <2>1. N \in Nat
      OBVIOUS
    <2>2. QED
      BY <1>3, <1>4, <2>1, RangeInduction
  <1>6. QED
    BY <1>1, <1>2, <1>5 DEF P

\* The sums grow.
LEMMA PrefixGrows ==
    ASSUME NEW s \in Seq(Nat), NEW N \in 0 .. Len(s), NEW i \in 0 .. N, NEW j \in 0 .. N, i <= j
    PROVE  PrefixSum(s, N)[i] <= PrefixSum(s, N)[j]
  <1> DEFINE P == PrefixSum(s, N)
             T == {d \in 0 .. (N - i) : P[i] <= P[i + d]}
  <1>1. /\ P \in [0 .. N -> Nat]
        /\ \A k \in 1 .. N : P[k] = P[k - 1] + s[k]
    BY PrefixFacts
  <1> HIDE DEF P
  <1>2. 0 \in T
    BY <1>1
  <1>3. ASSUME NEW d \in 0 .. ((N - i) - 1), d \in T
        PROVE  d + 1 \in T
    <2>1. i + (d + 1) \in 1 .. N /\ s[i + (d + 1)] \in Nat /\ (i + (d + 1)) - 1 = i + d
      OBVIOUS
    <2>2. P[i + (d + 1)] = P[i + d] + s[i + (d + 1)]
      BY <1>1, <2>1
    <2>3. P[i + d] \in Nat /\ P[i] \in Nat
      BY <1>1
    <2>4. QED
      BY <1>3, <2>1, <2>2, <2>3
  <1>4. 0 .. (N - i) \subseteq T
    <2> HIDE DEF T
    <2>1. N - i \in Nat
      OBVIOUS
    <2>2. QED
      BY <1>2, <1>3, <2>1, RangeInduction
  <1>5. j - i \in T /\ i + (j - i) = j
    <2>1. j - i \in 0 .. (N - i) /\ i + (j - i) = j
      OBVIOUS
    <2>2. QED
      BY <1>4, <2>1
  <1>6. QED
    BY <1>5 DEF P

\* One element more.
LEMMA TotalInsert ==
    ASSUME NEW s \in Seq(Nat), NEW t \in Seq(Nat), Len(t) = Len(s) + 1, NEW i \in 1 .. Len(t),
           \A j \in 1 .. Len(t) : j < i => t[j] = s[j],
           \A j \in 1 .. Len(t) : j > i => t[j] = s[j - 1]
    PROVE  Total(t) = Total(s) + t[i]
  <1> DEFINE M == Len(s)
             P == PrefixSum(s, M)
             Q == PrefixSum(t, M + 1)
             T == {j \in 0 .. (M + 1) : Q[j] = IF j < i THEN P[j] ELSE P[j - 1] + t[i]}
  <1>1. /\ M \in Nat /\ i \in 1 .. (M + 1) /\ t[i] \in Nat
        /\ \A k \in 1 .. M : s[k] \in Nat
        /\ \A k \in 1 .. (M + 1) : t[k] \in Nat
        /\ \A k \in 1 .. (M + 1) : k < i => t[k] = s[k]
        /\ \A k \in 1 .. (M + 1) : k > i => t[k] = s[k - 1]
    <2>1. Len(s) \in Nat /\ Len(t) = M + 1
      OBVIOUS
    <2>2. /\ \A k \in 1 .. Len(s) : s[k] \in Nat
          /\ \A k \in 1 .. Len(t) : t[k] \in Nat
      OBVIOUS
    <2>3. QED
      BY <2>1, <2>2
  <1>2. /\ P \in [0 .. M -> Nat] /\ P[0] = 0
        /\ \A k \in 1 .. M : P[k] = P[k - 1] + s[k]
    <2>1. M \in 0 .. Len(s)
      OBVIOUS
    <2> HIDE DEF M
    <2>2. QED
      BY <2>1, PrefixFacts
  <1>3. /\ Q \in [0 .. (M + 1) -> Nat] /\ Q[0] = 0
        /\ \A k \in 1 .. (M + 1) : Q[k] = Q[k - 1] + t[k]
    <2>1. M + 1 \in 0 .. Len(t)
      OBVIOUS
    <2> HIDE DEF M
    <2>2. QED
      BY <2>1, PrefixFacts
  <1>4. Total(s) = P[M] /\ Total(t) = Q[M + 1]
    BY DEF Total
  <1> HIDE DEF M, P, Q
  <1>5. 0 \in T
    BY <1>1, <1>2, <1>3
  <1>6. ASSUME NEW k \in 0 .. ((M + 1) - 1), k \in T
        PROVE  k + 1 \in T
    <2>1. k + 1 \in 1 .. (M + 1) /\ Q[k + 1] = Q[k] + t[k + 1] /\ k \in Nat
      <3>1. k + 1 \in 1 .. (M + 1) /\ k \in Nat /\ (k + 1) - 1 = k
        BY <1>1
      <3>2. QED
        BY <1>3, <3>1
    <2>2. CASE k + 1 < i
      <3>1. Q[k] = P[k] /\ t[k + 1] = s[k + 1] /\ k + 1 \in 1 .. M
        BY <1>1, <1>6, <2>1, <2>2
      <3>2. P[k + 1] = P[k] + s[k + 1]
        BY <1>2, <2>1, <3>1
      <3>3. QED
        BY <2>1, <2>2, <3>1, <3>2
    <2>3. CASE k + 1 = i
      <3>1. Q[k] = P[k]
        BY <1>1, <1>6, <2>1, <2>3
      <3>2. QED
        BY <2>1, <2>3, <3>1
    <2>4. CASE k + 1 > i
      <3>1. Q[k] = P[k - 1] + t[i] /\ t[k + 1] = s[k] /\ k \in 1 .. M
        BY <1>1, <1>6, <2>1, <2>4
      <3>2. P[k] = P[k - 1] + s[k] /\ s[k] \in Nat /\ P[k - 1] \in Nat
        <4>1. k - 1 \in 0 .. M
          BY <1>1, <3>1
        <4>2. QED
          BY <1>1, <1>2, <3>1, <4>1
      <3>3. QED
        BY <1>1, <2>1, <2>4, <3>1, <3>2
    <2>5. QED
      BY <1>1, <2>1, <2>2, <2>3, <2>4
  <1>7. M + 1 \in T
    <2> HIDE DEF T
    <2>1. M + 1 \in Nat
      BY <1>1
    <2>2. 0 .. (M + 1) \subseteq T
      BY <1>5, <1>6, <2>1, RangeInduction
    <2>3. QED
      BY <2>1, <2>2
  <1>8. Q[M + 1] = P[M] + t[i]
    BY <1>1, <1>7
  <1>9. QED
    BY <1>4, <1>8

\* One element changed.
LEMMA TotalUpdate ==
    ASSUME NEW s \in Seq(Nat), NEW t \in Seq(Nat), Len(t) = Len(s), NEW i \in 1 .. Len(t),
           \A j \in 1 .. Len(t) : j # i => t[j] = s[j]
    PROVE  Total(t) = (Total(s) - s[i]) + t[i]
  <1> DEFINE M == Len(s)
             P == PrefixSum(s, M)
             Q == PrefixSum(t, M)
             T == {j \in 0 .. M : Q[j] = IF j < i THEN P[j] ELSE (P[j] - s[i]) + t[i]}
  <1>1. /\ M \in Nat /\ i \in 1 .. M /\ t[i] \in Nat /\ s[i] \in Nat
        /\ \A k \in 1 .. M : s[k] \in Nat /\ t[k] \in Nat
        /\ \A k \in 1 .. M : k # i => t[k] = s[k]
    OBVIOUS
  <1>2. /\ P \in [0 .. M -> Nat] /\ P[0] = 0
        /\ \A k \in 1 .. M : P[k] = P[k - 1] + s[k]
    <2>1. M \in 0 .. Len(s)
      OBVIOUS
    <2> HIDE DEF M
    <2>2. QED
      BY <2>1, PrefixFacts
  <1>3. /\ Q \in [0 .. M -> Nat] /\ Q[0] = 0
        /\ \A k \in 1 .. M : Q[k] = Q[k - 1] + t[k]
    <2>1. M \in 0 .. Len(t)
      OBVIOUS
    <2> HIDE DEF M
    <2>2. QED
      BY <2>1, PrefixFacts
  <1>4. Total(s) = P[M] /\ Total(t) = Q[M]
    BY DEF Total
  <1> HIDE DEF M, P, Q
  <1>5. 0 \in T
    BY <1>1, <1>2, <1>3
  <1>6. ASSUME NEW k \in 0 .. (M - 1), k \in T
        PROVE  k + 1 \in T
    <2>1. /\ k + 1 \in 1 .. M /\ k \in Nat
          /\ Q[k + 1] = Q[k] + t[k + 1]
          /\ P[k + 1] = P[k] + s[k + 1]
      <3>1. k + 1 \in 1 .. M /\ k \in Nat /\ (k + 1) - 1 = k
        BY <1>1
      <3>2. QED
        BY <1>2, <1>3, <3>1
    <2>2. P[k] \in Nat /\ s[k + 1] \in Nat /\ (k + 1 # i => t[k + 1] = s[k + 1])
      BY <1>1, <1>2, <2>1
    <2>3. CASE k + 1 = i
      <3>1. Q[k] = P[k]
        BY <1>1, <1>6, <2>1, <2>3
      <3>2. P[k + 1] - s[i] = P[k] /\ t[k + 1] = t[i]
        BY <2>1, <2>2, <2>3
      <3>3. QED
        BY <2>1, <2>3, <3>1, <3>2
    <2>4. CASE k + 1 # i
      <3>1. t[k + 1] = s[k + 1] /\ Q[k] = IF k < i THEN P[k] ELSE (P[k] - s[i]) + t[i]
        BY <1>6, <2>2, <2>4
      <3>2. k < i <=> k + 1 < i
        BY <1>1, <2>1, <2>4
      <3>3. Q[k + 1] = IF k + 1 < i THEN P[k + 1] ELSE (P[k + 1] - s[i]) + t[i]
        BY <1>1, <2>1, <2>2, <3>1, <3>2
      <3>4. QED
        BY <2>1, <3>3
    <2>5. QED
      BY <2>3, <2>4
  <1>7. M \in T
    <2> HIDE DEF T
    <2>1. 0 .. M \subseteq T
      BY <1>1, <1>5, <1>6, RangeInduction
    <2>2. QED
      BY <1>1, <2>1
  <1>8. QED
    BY <1>1, <1>4, <1>7

-----------------------------------------------------------------------------
(* Sequences with an element inserted or removed.                           *)

\* t is s with x at place i, without its element at place i.
Inserted(t, s, i, x) ==
    /\ Len(t) = Len(s) + 1
    /\ \A j \in 1 .. (Len(s) + 1) :
          t[j] = IF j < i THEN s[j] ELSE IF j = i THEN x ELSE s[j - 1]

Removed(t, s, i) ==
    /\ Len(t) = Len(s) - 1
    /\ \A j \in 1 .. (Len(s) - 1) : t[j] = IF j < i THEN s[j] ELSE s[j + 1]

LEMMA InsertAtFacts ==
    ASSUME NEW S, NEW s \in Seq(S), NEW x \in S, NEW i \in 1 .. (Len(s) + 1)
    PROVE  InsertAt(s, i, x) \in Seq(S) /\ Inserted(InsertAt(s, i, x), s, i, x)
  <1> DEFINE a == SubSeq(s, 1, i - 1)
             b == SubSeq(s, i, Len(s))
  <1>1. Len(s) \in Nat /\ i \in Nat /\ i - 1 \in 0 .. Len(s)
    OBVIOUS
  <1>2. a \in Seq(S) /\ Len(a) = i - 1 /\ \A j \in 1 .. (i - 1) : a[j] = s[j]
    BY <1>1
  <1>3. b \in Seq(S) /\ Len(b) = (Len(s) - i) + 1
    BY <1>1
  <1>4. \A j \in 1 .. ((Len(s) - i) + 1) : b[j] = s[i + (j - 1)]
    BY <1>1
  <1> HIDE DEF a, b
  <1>5. a \o <<x>> \in Seq(S) /\ Len(a \o <<x>>) = i /\ (a \o <<x>>)[i] = x
    BY <1>1, <1>2
  <1>6. \A j \in 1 .. (i - 1) : (a \o <<x>>)[j] = s[j]
    BY <1>1, <1>2
  <1> DEFINE c == a \o <<x>>
  <1> HIDE DEF c
  <1>7. InsertAt(s, i, x) = c \o b
    BY DEF InsertAt, a, b, c
  <1>8. c \in Seq(S) /\ Len(c) = i /\ c[i] = x /\ \A j \in 1 .. (i - 1) : c[j] = s[j]
    BY <1>5, <1>6 DEF c
  <1>9. c \o b \in Seq(S) /\ Len(c \o b) = Len(s) + 1
    BY <1>1, <1>3, <1>8
  <1>10. ASSUME NEW j \in 1 .. (Len(s) + 1)
         PROVE  (c \o b)[j] = IF j < i THEN s[j] ELSE IF j = i THEN x ELSE s[j - 1]
    <2>1. CASE j <= i
      <3>1. (c \o b)[j] = c[j]
        BY <1>1, <1>3, <1>8, <2>1
      <3>2. QED
        BY <1>1, <1>8, <2>1, <3>1
    <2>2. CASE j > i
      <3>1. j - i \in 1 .. ((Len(s) - i) + 1) /\ i + ((j - i) - 1) = j - 1
        BY <1>1, <2>2
      <3>2. (c \o b)[j] = b[j - i]
        BY <1>1, <1>3, <1>8, <2>2, <3>1
      <3>3. b[j - i] = s[j - 1]
        BY <1>4, <3>1
      <3>4. QED
        BY <1>1, <2>2, <3>2, <3>3
    <2>3. j <= i \/ j > i
      BY <1>1
    <2>4. QED
      BY <2>1, <2>2, <2>3
  <1>11. QED
    BY <1>7, <1>9, <1>10 DEF Inserted

LEMMA RemoveAtFacts ==
    ASSUME NEW S, NEW s \in Seq(S), NEW i \in 1 .. Len(s)
    PROVE  RemoveAt(s, i) \in Seq(S) /\ Removed(RemoveAt(s, i), s, i)
  <1> DEFINE a == SubSeq(s, 1, i - 1)
             b == SubSeq(s, i + 1, Len(s))
  <1>1. Len(s) \in Nat /\ i \in Nat /\ i - 1 \in 0 .. Len(s) /\ i + 1 \in 1 .. (Len(s) + 1)
    OBVIOUS
  <1>2. a \in Seq(S) /\ Len(a) = i - 1 /\ \A j \in 1 .. (i - 1) : a[j] = s[j]
    BY <1>1
  <1>3. b \in Seq(S) /\ Len(b) = Len(s) - i
    BY <1>1
  <1>4. \A j \in 1 .. (Len(s) - i) : b[j] = s[i + j]
    BY <1>1
  <1> HIDE DEF a, b
  <1>5. RemoveAt(s, i) = a \o b
    BY DEF RemoveAt, a, b
  <1>6. a \o b \in Seq(S) /\ Len(a \o b) = Len(s) - 1
    BY <1>1, <1>2, <1>3
  <1>7. ASSUME NEW j \in 1 .. (Len(s) - 1)
        PROVE  (a \o b)[j] = IF j < i THEN s[j] ELSE s[j + 1]
    <2>1. CASE j < i
      <3>1. (a \o b)[j] = a[j]
        BY <1>1, <1>2, <1>3, <2>1
      <3>2. QED
        BY <1>1, <1>2, <2>1, <3>1
    <2>2. CASE ~(j < i)
      <3>1. j - (i - 1) \in 1 .. (Len(s) - i) /\ i + (j - (i - 1)) = j + 1
        BY <1>1, <2>2
      <3>2. (a \o b)[j] = b[j - (i - 1)]
        BY <1>1, <1>2, <1>3, <2>2, <3>1
      <3>3. b[j - (i - 1)] = s[j + 1]
        BY <1>4, <3>1
      <3>4. QED
        BY <2>2, <3>2, <3>3
    <2>3. QED
      BY <2>1, <2>2
  <1>8. QED
    BY <1>5, <1>6, <1>7 DEF Removed

-----------------------------------------------------------------------------
(* Pages: what their parts are, and what is where.                          *)

Slot == [record_offset : Int, is_overflow : BOOLEAN, key_size : Nat, value_size : Nat,
         left_child : Children \cup {NoChild}]

IsPage(n) ==
    /\ DOMAIN n = {"slots", "tail_child", "data_offset", "space_used", "mem"}
    /\ n = [f \in DOMAIN n |-> n[f]]
    /\ n.slots \in Seq(Slot)
    /\ n.tail_child \in Children \cup {NoChild}
    /\ n.data_offset \in Int
    /\ n.space_used \in Int
    /\ DOMAIN n.mem = 0 .. (PageSize - 1)

SlotSizes(slots) == [i \in 1 .. Len(slots) |-> SlotRecordSize(slots[i])]

\* The records are behind data_offset, side by side.
InPage(n) ==
    \A i \in 1 .. Len(n.slots) :
        SlotRecordSize(n.slots[i]) > 0 =>
            /\ n.data_offset <= n.slots[i].record_offset
            /\ n.slots[i].record_offset + SlotRecordSize(n.slots[i]) <= PageSize

Apart(n) ==
    \A i, j \in 1 .. Len(n.slots) :
        /\ i # j
        /\ SlotRecordSize(n.slots[i]) > 0
        /\ SlotRecordSize(n.slots[j]) > 0
        => \/ n.slots[i].record_offset + SlotRecordSize(n.slots[i]) <= n.slots[j].record_offset
           \/ n.slots[j].record_offset + SlotRecordSize(n.slots[j]) <= n.slots[i].record_offset

RecordSpace(n) == Total(SlotSizes(n.slots))

Placed(n) ==
    /\ IsPage(n)
    /\ n.data_offset <= PageSize
    /\ n.data_offset + RecordSpace(n) <= PageSize
    /\ InPage(n)
    /\ Apart(n)

\* space_used is right, or right without the record of slot i.
Exact(n)       == n.space_used = RecordSpace(n)
ExactBut(n, i) == n.space_used = RecordSpace(n) - SlotRecordSize(n.slots[i])

\* The slot's record consists of the units of h.
Reads(n, i, h) ==
    \A c \in 0 .. (SlotRecordSize(n.slots[i]) - 1) :
        n.mem[n.slots[i].record_offset + c] = <<h, c>>

SameRecord(a, b) ==
    a.is_overflow = b.is_overflow /\ a.key_size = b.key_size /\ a.value_size = b.value_size

LEMMA ConstantFacts ==
    /\ PageSize \in Nat /\ PageSize > 0
    /\ SlotSize \in Nat /\ SlotSize > 0
    /\ PgidSize \in Nat /\ PgidSize > 0
    /\ MaxInlineRecordSize \in Int
    /\ MaxPages \in Nat
    /\ NoChild \notin Children
  BY ConstantsAssumption DEF MaxInlineRecordSize

LEMMA SlotFacts ==
    ASSUME NEW slot \in Slot
    PROVE  /\ SlotRecordSize(slot) \in Nat
           /\ slot.record_offset \in Int
           /\ slot.is_overflow \in BOOLEAN
           /\ slot.key_size \in Nat /\ slot.value_size \in Nat
           /\ slot.left_child \in Children \cup {NoChild}
           /\ ~slot.is_overflow => SlotRecordSize(slot) = slot.key_size + slot.value_size
           /\ slot.is_overflow => SlotRecordSize(slot) = PgidSize
  BY ConstantFacts DEF Slot, SlotRecordSize, Size

LEMMA SlotSizesFacts ==
    ASSUME NEW slots \in Seq(Slot)
    PROVE  /\ SlotSizes(slots) \in Seq(Nat)
           /\ Len(SlotSizes(slots)) = Len(slots)
           /\ \A i \in 1 .. Len(slots) : SlotSizes(slots)[i] = SlotRecordSize(slots[i])
           /\ \A i \in 1 .. Len(slots) : slots[i] \in Slot /\ SlotRecordSize(slots[i]) \in Nat
  <1>1. Len(slots) \in Nat /\ \A i \in 1 .. Len(slots) : slots[i] \in Slot
    OBVIOUS
  <1>2. \A i \in 1 .. Len(slots) : SlotRecordSize(slots[i]) \in Nat
    BY <1>1, SlotFacts
  <1>3. QED
    BY <1>1, <1>2 DEF SlotSizes

LEMMA TotalNat ==
    ASSUME NEW s \in Seq(Nat)
    PROVE  Total(s) \in Nat
  <1>1. Len(s) \in 0 .. Len(s)
    OBVIOUS
  <1>2. PrefixSum(s, Len(s)) \in [0 .. Len(s) -> Nat]
    BY <1>1, PrefixFacts
  <1>3. QED
    BY <1>1, <1>2 DEF Total

LEMMA RecordSpaceNat ==
    ASSUME NEW n, IsPage(n)
    PROVE  RecordSpace(n) \in Nat
  <1>1. SlotSizes(n.slots) \in Seq(Nat)
    BY SlotSizesFacts DEF IsPage
  <1>2. QED
    BY <1>1, TotalNat DEF RecordSpace

\* CopyRecordRange puts the records behind each other.
LEMMA PackedFacts ==
    ASSUME NEW n, IsPage(n)
    PROVE  /\ \A i \in 0 .. Len(n.slots) :
                 PackedOffsets(n)[i] = PageSize - PrefixSum(SlotSizes(n.slots), Len(n.slots))[i]
           /\ PackedOffsets(n)[Len(n.slots)] = PageSize - Total(SlotSizes(n.slots))
  <1> DEFINE N == Len(n.slots)
             z == SlotSizes(n.slots)
             P == PrefixSum(z, N)
             Is(f) == f = [i \in 0 .. N |-> IF i = 0 THEN PageSize
                                            ELSE f[i - 1] - SlotRecordSize(n.slots[i])]
             E == PackedOffsets(n)
             g == [i \in 0 .. N |-> PageSize - P[i]]
  <1>1. n.slots \in Seq(Slot) /\ N \in Nat
    BY DEF IsPage
  <1>2. /\ z \in Seq(Nat) /\ Len(z) = N
        /\ \A i \in 1 .. N : z[i] = SlotRecordSize(n.slots[i]) /\ z[i] \in Nat
    BY <1>1, SlotSizesFacts
  <1>3. /\ P \in [0 .. N -> Nat] /\ P[0] = 0
        /\ \A i \in 1 .. N : P[i] = P[i - 1] + z[i]
    <2>1. N \in 0 .. Len(z)
      BY <1>1, <1>2
    <2> HIDE DEF z, N
    <2>2. QED
      BY <1>2, <2>1, PrefixFacts
  <1>4. Total(z) = P[N]
    <2> HIDE DEF z, N
    <2>1. QED
      BY <1>2 DEF Total
  <1>5. E = CHOOSE f : Is(f)
    BY DEF PackedOffsets
  <1> HIDE DEF P, z, N, E
  <1>6. Is(g)
    <2>1. ASSUME NEW i \in 0 .. N
          PROVE  g[i] = IF i = 0 THEN PageSize ELSE g[i - 1] - SlotRecordSize(n.slots[i])
      <3>1. CASE i = 0
        BY <1>1, <1>3, <3>1, ConstantFacts
      <3>2. CASE i # 0
        <4>1. i \in 1 .. N /\ i - 1 \in 0 .. N
          BY <1>1, <3>2
        <4>2. P[i] = P[i - 1] + z[i] /\ P[i - 1] \in Nat /\ z[i] \in Nat
          BY <1>2, <1>3, <4>1
        <4>3. PageSize - P[i] = (PageSize - P[i - 1]) - z[i]
          BY <4>2, ConstantFacts
        <4>4. QED
          BY <1>2, <3>2, <4>1, <4>3
      <3>3. QED
        BY <3>1, <3>2
    <2>2. QED
      BY <2>1
  <1>7. Is(E)
    <2> HIDE DEF Is
    <2>1. QED
      BY <1>5, <1>6
  <1>8. E[0] = PageSize /\ \A i \in 1 .. N : E[i] = E[i - 1] - z[i]
    BY <1>1, <1>2, <1>7
  <1> HIDE DEF Is
  <1> DEFINE T == {i \in 0 .. N : E[i] = PageSize - P[i]}
  <1>9. 0 \in T
    BY <1>1, <1>3, <1>8, ConstantFacts
  <1>10. ASSUME NEW k \in 0 .. (N - 1), k \in T
         PROVE  k + 1 \in T
    <2>1. k + 1 \in 1 .. N /\ (k + 1) - 1 = k /\ k \in 0 .. N
      BY <1>1
    <2>2. E[k + 1] = E[k] - z[k + 1] /\ P[k + 1] = P[k] + z[k + 1]
      BY <1>3, <1>8, <2>1
    <2>3. z[k + 1] \in Nat /\ P[k] \in Nat
      BY <1>2, <1>3, <2>1
    <2>4. QED
      BY <1>10, <2>1, <2>2, <2>3, ConstantFacts
  <1>11. 0 .. N \subseteq T
    <2> HIDE DEF T
    <2>1. QED
      BY <1>1, <1>9, <1>10, RangeInduction
  <1>12. \A i \in 0 .. N : E[i] = PageSize - P[i]
    BY <1>11
  <1>13. E[N] = PageSize - Total(z)
    BY <1>1, <1>4, <1>12
  <1>14. QED
    BY <1>12, <1>13 DEF E, P, z, N

\* Compactify changes the place of the records only.
LEMMA CompactifyShape ==
    ASSUME NEW n, IsPage(n)
    PROVE  LET m == Compactify(n)
           IN  /\ IsPage(m)
               /\ Len(m.slots) = Len(n.slots)
               /\ m.tail_child = n.tail_child
               /\ m.space_used = n.space_used
               /\ m.data_offset = PageSize - Total(SlotSizes(n.slots))
               /\ \A i \in 1 .. Len(n.slots) :
                     /\ SameRecord(m.slots[i], n.slots[i])
                     /\ m.slots[i].left_child = n.slots[i].left_child
                     /\ m.slots[i].record_offset = PackedOffsets(n)[i]
                     /\ SlotRecordSize(m.slots[i]) = SlotRecordSize(n.slots[i])
               /\ SlotSizes(m.slots) = SlotSizes(n.slots)
  <1> DEFINE m == Compactify(n)
             E == PackedOffsets(n)
             N == Len(n.slots)
             moved == MovedSlots(n.slots, E)
  <1>1. n.slots \in Seq(Slot) /\ N \in Nat /\ DOMAIN n.slots = 1 .. N
    BY DEF IsPage
  <1>2. Total(SlotSizes(n.slots)) \in Nat
    BY <1>1, SlotSizesFacts, TotalNat
  <1>3. E[N] = PageSize - Total(SlotSizes(n.slots))
    BY PackedFacts
  <1>4. \A i \in 0 .. N : E[i] \in Int
    <2>1. Len(SlotSizes(n.slots)) = N /\ SlotSizes(n.slots) \in Seq(Nat)
      BY <1>1, SlotSizesFacts
    <2>2. PrefixSum(SlotSizes(n.slots), N) \in [0 .. N -> Nat]
      BY <1>1, <2>1, PrefixFacts
    <2>3. \A i \in 0 .. N : E[i] = PageSize - PrefixSum(SlotSizes(n.slots), N)[i]
      BY PackedFacts
    <2>4. QED
      BY <2>2, <2>3, ConstantFacts
  <1>5. /\ DOMAIN m = DOMAIN n /\ m = [f \in DOMAIN m |-> m[f]]
        /\ m.slots = moved
        /\ m.tail_child = n.tail_child
        /\ m.space_used = n.space_used
        /\ m.data_offset = E[N]
        /\ DOMAIN m.mem = DOMAIN n.mem
    BY DEF Compactify, IsPage
  <1> HIDE DEF m, E
  <1>6. ASSUME NEW i \in 1 .. N
        PROVE  /\ moved[i] \in Slot
               /\ SameRecord(moved[i], n.slots[i])
               /\ moved[i].left_child = n.slots[i].left_child
               /\ moved[i].record_offset = E[i]
    <2>1. n.slots[i] \in Slot /\ E[i] \in Int
      BY <1>1, <1>4
    <2>2. moved[i] = [n.slots[i] EXCEPT !.record_offset = E[i]]
      BY <1>1 DEF MovedSlots
    <2>3. QED
      BY <2>1, <2>2 DEF Slot, SameRecord
  <1>7. moved \in Seq(Slot) /\ Len(moved) = N
    <2>1. moved = [i \in 1 .. N |-> moved[i]]
      BY <1>1 DEF MovedSlots
    <2> HIDE DEF moved, N
    <2>2. QED
      BY <1>1, <1>6, <2>1
  <1> HIDE DEF moved
  <1>8. \A i \in 1 .. N : SlotRecordSize(moved[i]) = SlotRecordSize(n.slots[i])
    BY <1>6 DEF SameRecord, SlotRecordSize, Size
  <1>9. SlotSizes(moved) = SlotSizes(n.slots)
    BY <1>7, <1>8 DEF SlotSizes
  <1>10. IsPage(m)
    <2>1. m.data_offset \in Int
      BY <1>2, <1>3, <1>5, ConstantFacts
    <2>2. QED
      BY <1>5, <1>7, <2>1 DEF IsPage
  <1>11. QED
    BY <1>3, <1>5, <1>6, <1>7, <1>8, <1>9, <1>10 DEF m, E

\* After Compactify the records fill the end of the page, and each of them is
\* what it was.
LEMMA CompactifyPlaced ==
    ASSUME NEW n, IsPage(n), Total(SlotSizes(n.slots)) <= PageSize
    PROVE  LET m == Compactify(n)
           IN  /\ Placed(m)
               /\ \A i \in 1 .. Len(n.slots) : \A h : Reads(n, i, h) => Reads(m, i, h)
  <1> DEFINE m == Compactify(n)
             E == PackedOffsets(n)
             N == Len(n.slots)
             z == SlotSizes(n.slots)
             P == PrefixSum(z, N)
  <1>1. n.slots \in Seq(Slot) /\ N \in Nat /\ DOMAIN n.slots = 1 .. N
        /\ DOMAIN n.mem = 0 .. (PageSize - 1)
    BY DEF IsPage
  <1>2. /\ z \in Seq(Nat) /\ Len(z) = N
        /\ \A i \in 1 .. N : z[i] = SlotRecordSize(n.slots[i]) /\ z[i] \in Nat
    BY <1>1, SlotSizesFacts
  <1>3. /\ P \in [0 .. N -> Nat] /\ P[0] = 0
        /\ \A i \in 1 .. N : P[i] = P[i - 1] + z[i]
    <2>1. N \in 0 .. Len(z)
      BY <1>1, <1>2
    <2> HIDE DEF z, N
    <2>2. QED
      BY <1>2, <2>1, PrefixFacts
  <1>4. ASSUME NEW i \in 0 .. N, NEW j \in 0 .. N, i <= j
        PROVE  P[i] <= P[j]
    <2>1. N \in 0 .. Len(z)
      BY <1>1, <1>2
    <2> HIDE DEF z, N
    <2>2. QED
      BY <1>2, <1>4, <2>1, PrefixGrows
  <1>5. Total(z) = P[N]
    <2> HIDE DEF z, N
    <2>1. QED
      BY <1>2 DEF Total
  <1>6. \A i \in 0 .. N : E[i] = PageSize - P[i]
    BY PackedFacts
  <1>7. /\ IsPage(m) /\ Len(m.slots) = N
        /\ m.space_used = n.space_used
        /\ m.data_offset = PageSize - Total(z)
        /\ \A i \in 1 .. N : /\ m.slots[i].record_offset = E[i]
                             /\ SlotRecordSize(m.slots[i]) = z[i]
        /\ SlotSizes(m.slots) = z
    <2> HIDE DEF m, E
    <2>1. QED
      BY <1>2, CompactifyShape DEF m, E
  <1>8. \A c \in 0 .. (PageSize - 1) :
           ~(c < E[N]) =>
              m.mem[c] = LET i == CHOOSE i \in 1 .. N : E[i] <= c /\ c < E[i - 1]
                         IN  n.mem[n.slots[i].record_offset + (c - E[i])]
    BY <1>1 DEF Compactify, IsPage
  <1>9. P[N] <= PageSize
    BY <1>5
  <1> HIDE DEF m, E, P, z, N
  \* Where record i begins and ends.
  <1>10. ASSUME NEW i \in 1 .. N
         PROVE  /\ i \in 0 .. N /\ i - 1 \in 0 .. N
                /\ E[i] \in 0 .. PageSize /\ E[i - 1] \in 0 .. PageSize
                /\ E[i] + z[i] = E[i - 1]
                /\ E[N] <= E[i]
                /\ z[i] \in Nat
    <2>1. i \in 0 .. N /\ i - 1 \in 0 .. N /\ N \in 0 .. N /\ i <= N /\ i - 1 <= N
      BY <1>1
    <2>2. P[i] <= P[N] /\ P[i - 1] <= P[N]
      BY <1>4, <2>1
    <2>3. P[i] \in Nat /\ P[i - 1] \in Nat /\ P[N] \in Nat /\ z[i] \in Nat
      BY <1>2, <1>3, <2>1
    <2>4. P[i] = P[i - 1] + z[i]
      BY <1>3
    <2>5. E[i] = PageSize - P[i] /\ E[i - 1] = PageSize - P[i - 1] /\ E[N] = PageSize - P[N]
      BY <1>6, <2>1
    <2>6. QED
      BY <1>9, <2>1, <2>2, <2>3, <2>4, <2>5, ConstantFacts
  \* A record that comes later lies before.
  <1>11. ASSUME NEW i \in 1 .. N, NEW j \in 1 .. N, i < j
         PROVE  E[j] + z[j] <= E[i]
    <2>1. i \in 0 .. N /\ j - 1 \in 0 .. N /\ i <= j - 1
      BY <1>1, <1>11
    <2>2. P[i] <= P[j - 1]
      BY <1>4, <2>1
    <2>3. E[i] = PageSize - P[i] /\ E[j - 1] = PageSize - P[j - 1]
      BY <1>6, <2>1
    <2>4. P[i] \in Nat /\ P[j - 1] \in Nat
      BY <1>3, <2>1
    <2>5. E[j] + z[j] = E[j - 1]
      BY <1>10
    <2>6. QED
      BY <2>2, <2>3, <2>4, <2>5, ConstantFacts
  <1>12. InPage(m)
    BY <1>5, <1>6, <1>7, <1>10, <1>1, ConstantFacts DEF InPage
  <1>13. Apart(m)
    <2> SUFFICES ASSUME NEW i \in 1 .. N, NEW j \in 1 .. N, i # j
                 PROVE  E[i] + z[i] <= E[j] \/ E[j] + z[j] <= E[i]
      BY <1>7 DEF Apart
    <2>1. i < j \/ j < i
      BY <1>1
    <2>2. QED
      BY <1>11, <2>1
  <1>14. Placed(m)
    <2>1. P[N] \in Nat
      BY <1>1, <1>3
    <2>2. m.data_offset <= PageSize
      BY <1>5, <1>7, <2>1, ConstantFacts
    <2>3. m.data_offset + RecordSpace(m) <= PageSize
      BY <1>5, <1>7, <2>1, ConstantFacts DEF RecordSpace
    <2>4. QED
      BY <1>7, <1>12, <1>13, <2>2, <2>3 DEF Placed
  <1>15. ASSUME NEW i \in 1 .. N, NEW c \in 0 .. (z[i] - 1)
         PROVE  m.mem[E[i] + c] = n.mem[n.slots[i].record_offset + c]
    <2> DEFINE d == E[i] + c
               Q(k) == E[k] <= d /\ d < E[k - 1]
    <2>1. /\ d \in 0 .. (PageSize - 1) /\ ~(d < E[N]) /\ Q(i) /\ d - E[i] = c
      <3>1. E[i] \in 0 .. PageSize /\ E[i - 1] \in 0 .. PageSize /\ E[i] + z[i] = E[i - 1]
            /\ E[N] <= E[i] /\ z[i] \in Nat
        BY <1>10
      <3>2. E[N] \in Int
        <4>1. N \in 0 .. N
          BY <1>1
        <4>2. P[N] \in Nat /\ E[N] = PageSize - P[N]
          BY <1>3, <1>6, <4>1
        <4>3. QED
          BY <4>2, ConstantFacts
      <3>3. c \in Nat /\ c < z[i]
        BY <3>1
      <3>4. QED
        BY <3>1, <3>2, <3>3, ConstantFacts
    <2>2. ASSUME NEW k \in 1 .. N, Q(k)
          PROVE  k = i
      <3>1. CASE k < i
        <4>1. E[i] + z[i] <= E[k]
          BY <1>11, <3>1
        <4>2. E[i] + z[i] = E[i - 1] /\ E[i - 1] \in Int /\ E[k] \in Int
          BY <1>10
        <4>3. QED
          BY <2>1, <2>2, <4>1, <4>2, ConstantFacts
      <3>2. CASE i < k
        <4>1. E[k] + z[k] <= E[i]
          BY <1>11, <3>2
        <4>2. E[k] + z[k] = E[k - 1] /\ E[k - 1] \in Int /\ E[i] \in Int
          BY <1>10
        <4>3. QED
          BY <2>1, <2>2, <4>1, <4>2, ConstantFacts
      <3>3. QED
        BY <1>1, <3>1, <3>2
    <2> DEFINE ch == CHOOSE k \in 1 .. N : Q(k)
    <2>3. ch = i
      <3>1. ch \in 1 .. N /\ Q(ch)
        <4>1. \E k \in 1 .. N : Q(k)
          BY <2>1
        <4> HIDE DEF Q
        <4>2. QED
          BY <4>1
      <3> HIDE DEF ch, Q
      <3>2. QED
        BY <2>2, <3>1
    <2>4. m.mem[d] = n.mem[n.slots[ch].record_offset + (d - E[ch])]
      BY <1>8, <2>1
    <2> HIDE DEF ch, Q
    <2>5. QED
      BY <2>1, <2>3, <2>4
  <1>16. ASSUME NEW i \in 1 .. N, NEW h, Reads(n, i, h)
         PROVE  Reads(m, i, h)
    <2>1. SlotRecordSize(m.slots[i]) = z[i] /\ m.slots[i].record_offset = E[i]
          /\ SlotRecordSize(n.slots[i]) = z[i]
      BY <1>2, <1>7
    <2>2. QED
      BY <1>15, <1>16, <2>1 DEF Reads
  <1>17. QED
    BY <1>14, <1>16 DEF m, N

-----------------------------------------------------------------------------
(* What RequestSpaceFor, StoreRecord and DeleteRecord do to a page.         *)

LEMMA SizeFacts ==
    ASSUME NEW size \in Nat
    PROVE  /\ StoredSize(size) \in Nat
           /\ IsInline(size) \in BOOLEAN
           /\ IsInline(size) => StoredSize(size) = size
           /\ ~IsInline(size) => StoredSize(size) = PgidSize
           /\ SpaceNeeded(size, TRUE) = StoredSize(size) + SlotSize
           /\ SpaceNeeded(size, FALSE) = StoredSize(size)
  <1>1. SpaceNeeded(size, FALSE) = StoredSize(size) + 0 /\ StoredSize(size) \in Nat
    BY ConstantFacts DEF SpaceNeeded, StoredSize, IsInline
  <1>2. QED
    BY <1>1, ConstantFacts DEF SpaceNeeded, StoredSize, IsInline

LEMMA SlotSpaceFacts ==
    ASSUME NEW n, IsPage(n)
    PROVE  SlotSpace(n) \in Nat /\ Len(n.slots) \in Nat
  <1>1. Len(n.slots) \in Nat
    BY DEF IsPage
  <1> DEFINE k == Len(n.slots)
  <1> HIDE DEF k
  <1>2. k \in Nat /\ SlotSize \in Nat
    BY <1>1, ConstantFacts DEF k
  <1>3. k * SlotSize \in Nat
    BY <1>2
  <1>4. QED
    BY <1>1, <1>3 DEF SlotSpace, k

\* The same number of slots, with the same children.
SameSlots(m, n) ==
    /\ Len(m.slots) = Len(n.slots)
    /\ m.tail_child = n.tail_child
    /\ \A j \in 1 .. Len(n.slots) : m.slots[j].left_child = n.slots[j].left_child

LEMMA SpaceForShape ==
    ASSUME NEW n, IsPage(n), NEW size, NEW b
    PROVE  IsPage(SpaceFor(n, size, b)) /\ SameSlots(SpaceFor(n, size, b), n)
  <1>1. IsPage(Compactify(n)) /\ SameSlots(Compactify(n), n)
    BY CompactifyShape DEF SameSlots
  <1>2. SameSlots(n, n)
    BY DEF SameSlots
  <1>3. QED
    BY <1>1, <1>2 DEF SpaceFor

\* RequestSpaceFor moves the records, if at all, only when space_used is right:
\* Compactify's assertion is about that.
LEMMA SpaceForFacts ==
    ASSUME NEW n, Placed(n), NEW size \in Nat, NEW b \in BOOLEAN, HasSpace(n, size, b),
           AssertionsHold(n, size, b)
    PROVE  LET m == SpaceFor(n, size, b)
           IN  /\ Placed(m)
               /\ SlotSpace(m) = SlotSpace(n)
               /\ SlotSpace(m) + SpaceNeeded(size, b) <= m.data_offset
               /\ m.space_used = n.space_used
               /\ SlotSizes(m.slots) = SlotSizes(n.slots)
               /\ \A j \in 1 .. Len(n.slots) : SameRecord(m.slots[j], n.slots[j])
               /\ \A j \in 1 .. Len(n.slots) : \A h : Reads(n, j, h) => Reads(m, j, h)
  <1> DEFINE k == SpaceNeeded(size, b)
             t == Total(SlotSizes(n.slots))
  <1>1. IsPage(n) /\ n.data_offset \in Int /\ n.slots \in Seq(Slot) /\ n.space_used \in Int
    BY DEF Placed, IsPage
  <1>2. k \in Nat /\ t \in Nat
    <2>1. k \in Nat
      BY SizeFacts, ConstantFacts DEF SpaceNeeded
    <2>2. SlotSizes(n.slots) \in Seq(Nat)
      BY <1>1, SlotSizesFacts
    <2>3. QED
      BY <2>1, <2>2, TotalNat
  <1>3. SlotSpace(n) \in Nat
    BY <1>1, SlotSpaceFacts
  <1>4. CASE k <= FreeSpace(n)
    <2>1. SpaceFor(n, size, b) = n
      BY <1>4 DEF SpaceFor
    <2>2. SlotSpace(n) + k <= n.data_offset
      <3> HIDE DEF k
      <3>1. QED
        BY <1>1, <1>2, <1>3, <1>4 DEF FreeSpace
    <2>3. QED
      BY <2>1, <2>2 DEF SameRecord
  <1>5. CASE ~(k <= FreeSpace(n))
    <2> DEFINE m == Compactify(n)
    <2>1. SpaceFor(n, size, b) = m
      BY <1>5 DEF SpaceFor
    <2>2. k <= FreeSpaceAfterCompaction(n)
      BY <1>5 DEF HasSpace
    <2>3. PackedOffsets(n)[Len(n.slots)] = PageSize - n.space_used
      <3>1. k > FreeSpace(n)
        <4> HIDE DEF k
        <4>1. QED
          BY <1>1, <1>2, <1>3, <1>5 DEF FreeSpace
      <3>2. QED
        BY <2>2, <3>1 DEF AssertionsHold
    <2>4. n.space_used = t
      <3>1. PackedOffsets(n)[Len(n.slots)] = PageSize - t
        BY <1>1, PackedFacts
      <3> HIDE DEF t
      <3>2. QED
        BY <1>1, <1>2, <2>3, <3>1, ConstantFacts
    <2>5. k <= (PageSize - SlotSpace(n)) - t
      BY <2>2, <2>4 DEF FreeSpaceAfterCompaction
    <2>6. t <= PageSize /\ SlotSpace(n) + k <= PageSize - t
      <3> HIDE DEF k, t
      <3>1. QED
        BY <1>2, <1>3, <2>5, ConstantFacts
    <2>7. /\ Placed(m)
          /\ \A j \in 1 .. Len(n.slots) : \A h : Reads(n, j, h) => Reads(m, j, h)
      <3> HIDE DEF m
      <3>1. QED
        BY <1>1, <2>6, CompactifyPlaced DEF m
    <2>8. /\ Len(m.slots) = Len(n.slots)
          /\ m.data_offset = PageSize - t
          /\ m.space_used = n.space_used
          /\ SlotSizes(m.slots) = SlotSizes(n.slots)
          /\ \A j \in 1 .. Len(n.slots) : SameRecord(m.slots[j], n.slots[j])
      <3> HIDE DEF m
      <3>1. QED
        BY <1>1, CompactifyShape DEF m
    <2>9. SlotSpace(m) = SlotSpace(n)
      BY <2>8 DEF SlotSpace
    <2> HIDE DEF m, k, t
    <2>10. SlotSpace(m) + k <= m.data_offset
      BY <2>6, <2>8, <2>9
    <2>11. QED
      BY <2>1, <2>7, <2>8, <2>9, <2>10 DEF k
  <1>6. QED
    BY <1>4, <1>5

\* With space_used right and the slots before the records, no assertion fails.
LEMMA ExactAsserts ==
    ASSUME NEW n, Placed(n), Exact(n), SlotSpace(n) <= n.data_offset,
           NEW size \in Nat, NEW b \in BOOLEAN
    PROVE  AssertionsHold(n, size, b)
  <1>1. IsPage(n) /\ n.data_offset \in Int
        /\ n.data_offset + RecordSpace(n) <= PageSize /\ n.space_used = RecordSpace(n)
    BY DEF Placed, IsPage, Exact
  <1>2. RecordSpace(n) \in Nat /\ SlotSpace(n) \in Nat
    BY <1>1, RecordSpaceNat, SlotSpaceFacts
  <1>3. n.space_used >= 0 /\ FreeSpaceAfterCompaction(n) >= 0
    BY <1>1, <1>2, ConstantFacts DEF FreeSpaceAfterCompaction
  <1>4. PackedOffsets(n)[Len(n.slots)] = PageSize - n.space_used
    BY <1>1, PackedFacts DEF RecordSpace
  <1>5. QED
    BY <1>3, <1>4 DEF AssertionsHold

StoredSlot(slot, offset, r) ==
    [slot EXCEPT !.record_offset = offset, !.is_overflow = ~IsInline(Size(r)),
                 !.key_size = r.key_size, !.value_size = r.value_size]

\* The units of m are those of n, and r's from offset to n.data_offset.
Written(m, n, r, offset) ==
    \A c \in 0 .. (PageSize - 1) :
        m.mem[c] = IF c < offset \/ c >= n.data_offset THEN n.mem[c]
                   ELSE IF IsInline(Size(r)) THEN <<r.tag, c - offset>>
                   ELSE <<NewPage, c - offset>>

LEMMA StoreRecordShape ==
    ASSUME NEW n, IsPage(n), NEW i \in 1 .. Len(n.slots), NEW r,
           r.key_size \in Nat, r.value_size \in Nat
    PROVE  LET m == StoreRecord(n, i, r)
               offset == n.data_offset - StoredSize(Size(r))
           IN  /\ IsPage(m)
               /\ SameSlots(m, n)
               /\ m.data_offset = offset
               /\ m.space_used = n.space_used + StoredSize(Size(r))
               /\ \A j \in 1 .. Len(n.slots) : j # i => m.slots[j] = n.slots[j]
               /\ m.slots[i] = StoredSlot(n.slots[i], offset, r)
               /\ m.slots[i] \in Slot
               /\ Written(m, n, r, offset)
  <1> DEFINE m == StoreRecord(n, i, r)
             offset == n.data_offset - StoredSize(Size(r))
             slot == StoredSlot(n.slots[i], offset, r)
  <1>1. n.slots \in Seq(Slot) /\ n.slots[i] \in Slot /\ n.data_offset \in Int
        /\ n.space_used \in Int
    BY DEF IsPage
  <1>2. Size(r) \in Nat
    BY DEF Size
  <1>3. StoredSize(Size(r)) \in Nat /\ IsInline(Size(r)) \in BOOLEAN
    BY <1>2, SizeFacts
  <1>4. offset \in Int
    BY <1>1, <1>3
  <1>5. slot \in Slot /\ slot.left_child = n.slots[i].left_child
    <2> HIDE DEF offset
    <2>1. QED
      BY <1>1, <1>3, <1>4 DEF Slot, StoredSlot
  <1>6. /\ DOMAIN m = DOMAIN n /\ m = [f \in DOMAIN m |-> m[f]]
        /\ m.slots = [n.slots EXCEPT ![i] = slot]
        /\ m.tail_child = n.tail_child
        /\ m.data_offset = offset
        /\ m.space_used = n.space_used + StoredSize(Size(r))
    BY DEF StoreRecord, StoredSlot, IsPage
  <1>7. /\ DOMAIN m.mem = 0 .. (PageSize - 1)
        /\ Written(m, n, r, offset)
    BY DEF StoreRecord, IsPage, Written
  <1> HIDE DEF m, offset, slot
  <1>8. m.slots \in Seq(Slot) /\ Len(m.slots) = Len(n.slots) /\ m.slots[i] = slot
        /\ \A j \in 1 .. Len(n.slots) : j # i => m.slots[j] = n.slots[j]
    BY <1>1, <1>5, <1>6
  <1>9. IsPage(m)
    BY <1>1, <1>3, <1>4, <1>6, <1>7, <1>8 DEF IsPage
  <1>10. SameSlots(m, n)
    BY <1>5, <1>6, <1>8 DEF SameSlots
  <1>11. QED
    BY <1>5, <1>6, <1>7, <1>8, <1>9, <1>10 DEF m, offset, slot

\* A unit of a record that lies between x and p.
LEMMA UnitInPage ==
    ASSUME NEW x \in Nat, NEW p \in Nat, NEW o \in Int, NEW z \in Nat, x <= o, o + z <= p,
           NEW c \in 0 .. (z - 1)
    PROVE  o + c \in 0 .. (p - 1) /\ o + c >= x
  OBVIOUS

LEMMA UnitOffset ==
    ASSUME NEW x \in Nat, NEW k \in Nat, NEW c \in 0 .. (k - 1),
           NEW y, y = x + k, NEW d, d = x + c
    PROVE  d \in Nat /\ d < y /\ ~(d < x) /\ d - x = c
  OBVIOUS

\* StoreRecord into a slot, if there is room.  The slot's old record is given up.
LEMMA StoreRecordFacts ==
    ASSUME NEW n, Placed(n), NEW i \in 1 .. Len(n.slots),
           NEW r, r.key_size \in Nat, r.value_size \in Nat,
           SlotSpace(n) + StoredSize(Size(r)) <= n.data_offset
    PROVE  LET m == StoreRecord(n, i, r)
           IN  /\ Placed(m)
               /\ SlotSpace(m) <= m.data_offset
               /\ ExactBut(n, i) => Exact(m)
               /\ SlotRecordSize(m.slots[i]) = StoredSize(Size(r))
               /\ Reads(m, i, IF IsInline(Size(r)) THEN r.tag ELSE NewPage)
               /\ \A j \in 1 .. Len(n.slots) : \A h : j # i /\ Reads(n, j, h) => Reads(m, j, h)
  <1> DEFINE m == StoreRecord(n, i, r)
             k == StoredSize(Size(r))
             N == Len(n.slots)
             new == IF IsInline(Size(r)) THEN r.tag ELSE NewPage
  <1>1. /\ IsPage(n) /\ n.data_offset \in Int /\ n.slots \in Seq(Slot)
        /\ n.data_offset <= PageSize
        /\ n.data_offset + RecordSpace(n) <= PageSize
        /\ n.space_used \in Int
        /\ InPage(n) /\ Apart(n)
    BY DEF Placed, IsPage
  <1>2. Size(r) \in Nat
    BY DEF Size
  <1>3. k \in Nat /\ IsInline(Size(r)) \in BOOLEAN
    BY <1>2, SizeFacts
  <1>4. SlotSpace(n) \in Nat /\ N \in Nat
    BY <1>1, SlotSpaceFacts
  <1>5. /\ IsPage(m) /\ SameSlots(m, n)
        /\ m.data_offset = n.data_offset - k
        /\ m.space_used = n.space_used + k
        /\ \A j \in 1 .. N : j # i => m.slots[j] = n.slots[j]
        /\ m.slots[i] = StoredSlot(n.slots[i], n.data_offset - k, r)
        /\ m.slots[i] \in Slot
        /\ \A c \in 0 .. (PageSize - 1) :
              m.mem[c] = IF c < n.data_offset - k \/ c >= n.data_offset THEN n.mem[c]
                         ELSE <<new, c - (n.data_offset - k)>>
    <2>0. /\ IsPage(m) /\ SameSlots(m, n)
          /\ m.data_offset = n.data_offset - k
          /\ m.space_used = n.space_used + k
          /\ \A j \in 1 .. N : j # i => m.slots[j] = n.slots[j]
          /\ m.slots[i] = StoredSlot(n.slots[i], n.data_offset - k, r)
          /\ m.slots[i] \in Slot
          /\ Written(m, n, r, n.data_offset - k)
      <3>1. IsPage(n)
        BY <1>1
      <3> HIDE DEF new
      <3>2. QED
        BY <3>1, StoreRecordShape
    <2> HIDE DEF m
    <2>1. \A c \in 0 .. (PageSize - 1) :
             m.mem[c] = IF c < n.data_offset - k \/ c >= n.data_offset THEN n.mem[c]
                        ELSE IF IsInline(Size(r)) THEN <<r.tag, c - (n.data_offset - k)>>
                        ELSE <<NewPage, c - (n.data_offset - k)>>
      BY <2>0 DEF Written
    <2>2. \A c \in 0 .. (PageSize - 1) :
             ~(c < n.data_offset - k \/ c >= n.data_offset) =>
                m.mem[c] = <<new, c - (n.data_offset - k)>>
      <3>1. CASE IsInline(Size(r))
        BY <2>1, <3>1
      <3>2. CASE ~IsInline(Size(r))
        BY <2>1, <3>2
      <3>3. QED
        BY <3>1, <3>2
    <2> HIDE DEF new, k
    <2>3. QED
      BY <2>0, <2>1, <2>2
  <1>6. /\ m.slots[i].record_offset = n.data_offset - k
        /\ SlotRecordSize(m.slots[i]) = k
    BY <1>1, <1>2, <1>3, <1>5, SizeFacts DEF StoredSlot, Slot, SlotRecordSize, Size
  <1>7. Len(m.slots) = N /\ SlotSpace(m) = SlotSpace(n)
    BY <1>5 DEF SameSlots, SlotSpace
  <1>8. \A j \in 1 .. N : n.slots[j] \in Slot /\ SlotRecordSize(n.slots[j]) \in Nat
                          /\ n.slots[j].record_offset \in Int
    BY <1>1, SlotSizesFacts, SlotFacts
  <1>9. SlotSpace(n) + k <= n.data_offset
    OBVIOUS
  <1> HIDE DEF m, k, N, new
  <1>10. m.data_offset \in 0 .. PageSize /\ SlotSpace(m) <= m.data_offset
         /\ m.data_offset + k = n.data_offset
    BY <1>1, <1>3, <1>4, <1>5, <1>7, <1>9, ConstantFacts
  <1>11. /\ m.data_offset + RecordSpace(m) <= PageSize
         /\ ExactBut(n, i) => Exact(m)
    <2> DEFINE s == SlotSizes(n.slots)
               t == SlotSizes(m.slots)
    <2>1. /\ s \in Seq(Nat) /\ Len(s) = N
          /\ \A j \in 1 .. N : s[j] = SlotRecordSize(n.slots[j])
      BY <1>1, SlotSizesFacts DEF N
    <2>2. m.slots \in Seq(Slot)
      BY <1>5 DEF IsPage
    <2>3. /\ t \in Seq(Nat) /\ Len(t) = N
          /\ \A j \in 1 .. N : t[j] = SlotRecordSize(m.slots[j])
      BY <1>7, <2>2, SlotSizesFacts
    <2> HIDE DEF s, t
    <2>4. s[i] = SlotRecordSize(n.slots[i]) /\ s[i] \in Nat /\ t[i] = k
          /\ i \in 1 .. Len(t) /\ Len(t) = Len(s)
      BY <1>6, <2>1, <2>3 DEF N
    <2>5. \A j \in 1 .. Len(t) : j # i => t[j] = s[j]
      BY <1>5, <2>1, <2>3
    <2>6. Total(t) = (Total(s) - s[i]) + t[i]
      BY <2>1, <2>3, <2>4, <2>5, TotalUpdate
    <2>7. Total(s) \in Nat /\ RecordSpace(n) = Total(s) /\ RecordSpace(m) = Total(t)
      BY <2>1, TotalNat DEF s, t, RecordSpace
    <2>8. m.data_offset + RecordSpace(m) <= PageSize
      BY <1>1, <1>3, <1>10, <2>4, <2>6, <2>7, ConstantFacts
    <2>9. ASSUME n.space_used = RecordSpace(n) - SlotRecordSize(n.slots[i])
          PROVE  m.space_used = RecordSpace(m)
      BY <1>3, <1>5, <2>4, <2>6, <2>7, <2>9
    <2>10. QED
      BY <2>8, <2>9 DEF Exact, ExactBut
  <1>12. i \in 1 .. N
    BY DEF N
  <1>13. \A j \in 1 .. N : j # i /\ SlotRecordSize(n.slots[j]) > 0 =>
            /\ n.data_offset <= n.slots[j].record_offset
            /\ n.slots[j].record_offset + SlotRecordSize(n.slots[j]) <= PageSize
    BY <1>1 DEF InPage, N
  <1>14. InPage(m)
    <2> SUFFICES ASSUME NEW j \in 1 .. N, SlotRecordSize(m.slots[j]) > 0
                 PROVE  /\ m.data_offset <= m.slots[j].record_offset
                        /\ m.slots[j].record_offset + SlotRecordSize(m.slots[j]) <= PageSize
      BY <1>7 DEF InPage
    <2>1. CASE j = i
      BY <1>1, <1>3, <1>5, <1>6, <1>10, <2>1, ConstantFacts
    <2>2. CASE j # i
      <3>1. m.slots[j] = n.slots[j]
        BY <1>5, <2>2
      <3>2. QED
        BY <1>1, <1>3, <1>8, <1>10, <1>13, <2>2, <3>1
    <2>3. QED
      BY <2>1, <2>2
  <1>15. Apart(m)
    <2> SUFFICES ASSUME NEW a \in 1 .. N, NEW b \in 1 .. N, a # b,
                        SlotRecordSize(m.slots[a]) > 0, SlotRecordSize(m.slots[b]) > 0
                 PROVE  \/ m.slots[a].record_offset + SlotRecordSize(m.slots[a]) <= m.slots[b].record_offset
                        \/ m.slots[b].record_offset + SlotRecordSize(m.slots[b]) <= m.slots[a].record_offset
      BY <1>7 DEF Apart
    <2>1. CASE a = i
      <3>1. m.slots[b] = n.slots[b] /\ b # i
        BY <1>5, <2>1
      <3>2. n.data_offset <= m.slots[b].record_offset
        BY <1>13, <3>1
      <3>3. m.slots[a].record_offset + SlotRecordSize(m.slots[a]) = n.data_offset
        BY <1>5, <1>6, <1>10, <2>1
      <3>4. QED
        BY <3>2, <3>3
    <2>2. CASE b = i
      <3>1. m.slots[a] = n.slots[a] /\ a # i
        BY <1>5, <2>2
      <3>2. n.data_offset <= m.slots[a].record_offset
        BY <1>13, <3>1
      <3>3. m.slots[b].record_offset + SlotRecordSize(m.slots[b]) = n.data_offset
        BY <1>5, <1>6, <1>10, <2>2
      <3>4. QED
        BY <3>2, <3>3
    <2>3. CASE a # i /\ b # i
      <3>1. m.slots[a] = n.slots[a] /\ m.slots[b] = n.slots[b]
        BY <1>5, <2>3
      <3>2. QED
        BY <1>1, <3>1 DEF Apart, N
    <2>4. QED
      BY <2>1, <2>2, <2>3
  <1>16. Placed(m)
    BY <1>5, <1>10, <1>11, <1>14, <1>15 DEF Placed
  <1>17. Reads(m, i, new)
    <2> SUFFICES ASSUME NEW c \in 0 .. (k - 1)
                 PROVE  m.mem[m.data_offset + c] = <<new, c>>
      BY <1>5, <1>6 DEF Reads
    <2> DEFINE d == m.data_offset + c
    <2>1. /\ d \in 0 .. (PageSize - 1) /\ ~(d < n.data_offset - k) /\ ~(d >= n.data_offset)
          /\ d - (n.data_offset - k) = c
      <3>1. c \in Nat /\ c < k
        BY <1>3
      <3>2. /\ m.data_offset \in Nat /\ n.data_offset \in Int /\ n.data_offset <= PageSize
            /\ n.data_offset - k = m.data_offset /\ m.data_offset + k = n.data_offset
        BY <1>1, <1>5, <1>10
      <3>3. d \in Nat /\ d < n.data_offset /\ ~(d < m.data_offset) /\ d - m.data_offset = c
        <4>1. d = m.data_offset + c /\ m.data_offset \in Nat /\ k \in Nat
              /\ n.data_offset = m.data_offset + k
          BY <1>3, <3>2
        <4> HIDE DEF d
        <4>2. QED
          BY <4>1, UnitOffset
      <3>4. QED
        BY <3>2, <3>3, ConstantFacts
    <2>2. m.mem[d] = <<new, d - (n.data_offset - k)>>
      <3> HIDE DEF d
      <3>1. QED
        BY <1>5, <2>1
    <2>3. QED
      BY <2>1, <2>2
  <1>18. ASSUME NEW j \in 1 .. N, NEW h, j # i, Reads(n, j, h)
         PROVE  Reads(m, j, h)
    <2>1. m.slots[j] = n.slots[j]
      BY <1>5, <1>18
    <2> SUFFICES ASSUME NEW c \in 0 .. (SlotRecordSize(n.slots[j]) - 1)
                 PROVE  m.mem[n.slots[j].record_offset + c] = <<h, c>>
      BY <2>1 DEF Reads
    <2> DEFINE d == n.slots[j].record_offset + c
    <2>2. d \in 0 .. (PageSize - 1) /\ d >= n.data_offset
      <3>1. SlotRecordSize(n.slots[j]) \in Nat /\ n.slots[j].record_offset \in Int
        BY <1>8
      <3>2. c \in Nat /\ c < SlotRecordSize(n.slots[j]) /\ SlotRecordSize(n.slots[j]) > 0
        BY <3>1
      <3>3. /\ n.data_offset <= n.slots[j].record_offset
            /\ n.slots[j].record_offset + SlotRecordSize(n.slots[j]) <= PageSize
        BY <1>13, <1>18, <3>2
      <3>4. n.data_offset \in Nat
        BY <1>1, <1>3, <1>10
      <3>5. QED
        BY <3>1, <3>3, <3>4, ConstantFacts, UnitInPage
    <2>3. m.mem[d] = n.mem[d]
      <3> HIDE DEF d
      <3>1. QED
        BY <1>5, <2>2
    <2>4. n.mem[d] = <<h, c>>
      BY <1>18 DEF Reads
    <2>5. QED
      BY <2>3, <2>4
  <1>19. QED
    BY <1>6, <1>10, <1>11, <1>16, <1>17, <1>18 DEF m, k, N, new

-----------------------------------------------------------------------------
(* What the operations on slots do to records and children.                 *)

\* Slots that lead to the same record.
SamePlace(a, b) == SameRecord(a, b) /\ a.record_offset = b.record_offset

ChildAt(n, j) == IF j <= Len(n.slots) THEN n.slots[j].left_child ELSE n.tail_child

\* Nothing but slots and tail_child differs.
SameData(m, n) ==
    m.data_offset = n.data_offset /\ m.space_used = n.space_used /\ m.mem = n.mem

\* m has a slot more than n, without a record, or one less.
SlotInserted(m, n, i) ==
    /\ Len(m.slots) = Len(n.slots) + 1
    /\ SlotRecordSize(m.slots[i]) = 0
    /\ \A j \in 1 .. (Len(n.slots) + 1) :
          /\ j < i => SamePlace(m.slots[j], n.slots[j])
          /\ j > i => SamePlace(m.slots[j], n.slots[j - 1])

SlotRemoved(m, n, i) ==
    /\ Len(m.slots) = Len(n.slots) - 1
    /\ \A j \in 1 .. (Len(n.slots) - 1) :
          SamePlace(m.slots[j], n.slots[IF j < i THEN j ELSE j + 1])

\* m has a child more than n, one less, another one.
ChildInserted(m, n, k, c) ==
    /\ Len(m.slots) = Len(n.slots) + 1
    /\ \A j \in 1 .. (Len(n.slots) + 2) :
          ChildAt(m, j) = IF j < k THEN ChildAt(n, j) ELSE IF j = k THEN c ELSE ChildAt(n, j - 1)

ChildRemoved(m, n, k) ==
    /\ Len(m.slots) = Len(n.slots) - 1
    /\ \A j \in 1 .. Len(n.slots) :
          ChildAt(m, j) = IF j < k THEN ChildAt(n, j) ELSE ChildAt(n, j + 1)

ChildReplaced(m, n, i, c) ==
    /\ Len(m.slots) = Len(n.slots)
    /\ \A j \in 1 .. (Len(n.slots) + 1) : ChildAt(m, j) = IF j = i THEN c ELSE ChildAt(n, j)

LEMMA PageWithSlots ==
    ASSUME NEW n, IsPage(n), NEW slots \in Seq(Slot), NEW m, m = [n EXCEPT !.slots = slots]
    PROVE  IsPage(m) /\ m.slots = slots /\ m.tail_child = n.tail_child /\ SameData(m, n)
  BY DEF IsPage, SameData

LEMMA PageWithTail ==
    ASSUME NEW n, IsPage(n), NEW t \in Children \cup {NoChild},
           NEW m, m = [n EXCEPT !.tail_child = t]
    PROVE  IsPage(m) /\ m.slots = n.slots /\ m.tail_child = t /\ SameData(m, n)
  BY DEF IsPage, SameData

LEMMA SlotWithChild ==
    ASSUME NEW slot \in Slot, NEW c \in Children \cup {NoChild}
    PROVE  LET s == [slot EXCEPT !.left_child = c]
           IN  s \in Slot /\ s.left_child = c /\ SamePlace(s, slot)
  BY DEF Slot, SamePlace, SameRecord

LEMMA NewSlotFacts ==
    ASSUME NEW c \in Children \cup {NoChild}
    PROVE  /\ NewSlot(c) \in Slot
           /\ NewSlot(c).left_child = c
           /\ SlotRecordSize(NewSlot(c)) = 0
  BY DEF NewSlot, Slot, SlotRecordSize, Size

\* Which child an insertion adds, or a deletion takes away.
ChildIndex(i, right) == IF right THEN i + 1 ELSE i

LEMMA InsertSlotFacts ==
    ASSUME NEW n, IsPage(n), NEW i \in 1 .. (Len(n.slots) + 1),
           NEW c \in Children \cup {NoChild}, NEW right \in BOOLEAN
    PROVE  LET m == InsertSlot(n, i, c, right)
               k == ChildIndex(i, right)
           IN  /\ IsPage(m)
               /\ SameData(m, n)
               /\ SlotInserted(m, n, i)
               /\ ChildInserted(m, n, k, c)
  <1> DEFINE m == InsertSlot(n, i, c, right)
             N == Len(n.slots)
  <1>1. /\ n.slots \in Seq(Slot) /\ N \in Nat /\ n.tail_child \in Children \cup {NoChild}
        /\ \A j \in 1 .. N : n.slots[j] \in Slot /\ n.slots[j].left_child \in Children \cup {NoChild}
    BY SlotFacts DEF IsPage
  <1>2. i \in 1 .. (N + 1)
    OBVIOUS
  <1>3. \A x : SamePlace(x, x)
    BY DEF SamePlace, SameRecord
  <1>4. CASE ~right
    <2> DEFINE s == InsertAt(n.slots, i, NewSlot(c))
    <2>1. NewSlot(c) \in Slot /\ NewSlot(c).left_child = c /\ SlotRecordSize(NewSlot(c)) = 0
      BY NewSlotFacts
    <2>2. /\ s \in Seq(Slot) /\ Len(s) = N + 1
          /\ \A j \in 1 .. (N + 1) :
                s[j] = IF j < i THEN n.slots[j] ELSE IF j = i THEN NewSlot(c) ELSE n.slots[j - 1]
      <3> HIDE DEF s
      <3>1. QED
        <4>1. s \in Seq(Slot) /\ Inserted(s, n.slots, i, NewSlot(c))
          BY <1>1, <2>1, InsertAtFacts DEF s
        <4>2. QED
          BY <4>1 DEF Inserted
    <2>3. m = [n EXCEPT !.slots = s]
      BY <1>4 DEF InsertSlot
    <2> HIDE DEF s, m
    <2>4. IsPage(m) /\ m.slots = s /\ m.tail_child = n.tail_child /\ SameData(m, n)
      BY <2>2, <2>3, PageWithSlots
    <2> HIDE DEF N
    <2>5. \A j \in 1 .. (N + 1) : /\ j < i => SamePlace(m.slots[j], n.slots[j])
                                  /\ j > i => SamePlace(m.slots[j], n.slots[j - 1])
      BY <1>1, <1>2, <1>3, <2>2, <2>4
    <2>6. ASSUME NEW j \in 1 .. (N + 2)
          PROVE  ChildAt(m, j) = IF j < i THEN ChildAt(n, j)
                                 ELSE IF j = i THEN c ELSE ChildAt(n, j - 1)
      <3>1. CASE j = N + 2
        <4>1. ChildAt(m, j) = n.tail_child /\ ChildAt(n, j - 1) = n.tail_child /\ ~(j < i) /\ j # i
          BY <1>1, <1>2, <2>2, <2>4, <3>1 DEF ChildAt, N
        <4>2. QED
          BY <4>1
      <3>2. CASE j # N + 2
        <4>1. j \in 1 .. (N + 1) /\ ChildAt(m, j) = s[j].left_child
          BY <1>1, <2>2, <2>4, <3>2 DEF ChildAt
        <4>2. CASE j < i
          BY <1>1, <1>2, <2>2, <4>1, <4>2 DEF ChildAt, N
        <4>3. CASE j = i
          BY <2>1, <2>2, <4>1, <4>3
        <4>4. CASE j > i
          <5>1. j - 1 \in 1 .. N
            BY <1>1, <1>2, <4>1, <4>4
          <5>2. s[j] = n.slots[j - 1] /\ ChildAt(n, j - 1) = n.slots[j - 1].left_child
            BY <1>1, <1>2, <2>2, <4>1, <4>4, <5>1 DEF ChildAt, N
          <5>3. QED
            BY <1>2, <4>1, <4>4, <5>2
        <4>5. QED
          BY <1>1, <1>2, <4>1, <4>2, <4>3, <4>4
      <3>3. QED
        BY <3>1, <3>2
    <2>7. SlotRecordSize(m.slots[i]) = 0
      BY <1>2, <2>1, <2>2, <2>4
    <2>8. QED
      BY <1>4, <2>2, <2>4, <2>5, <2>6, <2>7 DEF m, N, ChildIndex, SlotInserted, ChildInserted
  <1>5. CASE right /\ i = N + 1
    <2> DEFINE x == NewSlot(n.tail_child)
               s == Append(n.slots, x)
    <2>1. x \in Slot /\ x.left_child = n.tail_child /\ SlotRecordSize(x) = 0
      BY <1>1, NewSlotFacts
    <2> HIDE DEF x
    <2>2. /\ s \in Seq(Slot) /\ Len(s) = N + 1 /\ s[N + 1] = x
          /\ \A j \in 1 .. N : s[j] = n.slots[j]
      BY <1>1, <2>1
    <2>3. m = [n EXCEPT !.slots = s, !.tail_child = c]
      BY <1>5 DEF InsertSlot, x
    <2> HIDE DEF s, m
    <2>4. IsPage(m) /\ m.slots = s /\ m.tail_child = c /\ SameData(m, n)
      <3>1. s \in Seq(Slot) /\ c \in Children \cup {NoChild}
        BY <2>2
      <3>2. QED
        BY <2>3, <3>1 DEF IsPage, SameData
    <2> HIDE DEF N
    <2>5. \A j \in 1 .. (N + 1) : /\ j < i => SamePlace(m.slots[j], n.slots[j])
                                  /\ j > i => SamePlace(m.slots[j], n.slots[j - 1])
      BY <1>1, <1>2, <1>3, <1>5, <2>2, <2>4
    <2>6. ASSUME NEW j \in 1 .. (N + 2)
          PROVE  ChildAt(m, j) = IF j < i + 1 THEN ChildAt(n, j)
                                 ELSE IF j = i + 1 THEN c ELSE ChildAt(n, j - 1)
      <3>1. CASE j = N + 2
        BY <1>1, <1>5, <2>2, <2>4, <3>1 DEF ChildAt
      <3>2. CASE j = N + 1
        BY <1>1, <1>5, <2>1, <2>2, <2>4, <3>2 DEF ChildAt, N
      <3>3. CASE j \in 1 .. N
        BY <1>1, <1>5, <2>2, <2>4, <3>3 DEF ChildAt, N
      <3>4. QED
        BY <1>1, <3>1, <3>2, <3>3
    <2>7. SlotRecordSize(m.slots[i]) = 0
      BY <1>5, <2>1, <2>2, <2>4
    <2>8. QED
      BY <1>5, <2>2, <2>4, <2>5, <2>6, <2>7 DEF m, N, ChildIndex, SlotInserted, ChildInserted
  <1>6. CASE right /\ i # N + 1
    <2> DEFINE x == NewSlot(n.slots[i].left_child)
               y == [n.slots[i] EXCEPT !.left_child = c]
               q == [n.slots EXCEPT ![i] = y]
               s == InsertAt(q, i, x)
    <2>0. i \in 1 .. N
      BY <1>1, <1>2, <1>6
    <2>1. x \in Slot /\ x.left_child = n.slots[i].left_child /\ SlotRecordSize(x) = 0
      BY <1>1, <2>0, NewSlotFacts
    <2>2. y \in Slot /\ y.left_child = c /\ SamePlace(y, n.slots[i])
      BY <1>1, <2>0, SlotWithChild
    <2>3. m = [n EXCEPT !.slots = s]
      BY <1>6 DEF InsertSlot
    <2> HIDE DEF x, y
    <2>4. /\ q \in Seq(Slot) /\ Len(q) = N /\ q[i] = y
          /\ \A j \in 1 .. N : j # i => q[j] = n.slots[j]
      BY <1>1, <2>0, <2>2
    <2> HIDE DEF q
    <2>5. /\ s \in Seq(Slot) /\ Len(s) = N + 1
          /\ \A j \in 1 .. (N + 1) :
                s[j] = IF j < i THEN q[j] ELSE IF j = i THEN x ELSE q[j - 1]
      <3> HIDE DEF s, N
      <3>1. i \in 1 .. (Len(q) + 1)
        BY <1>2, <2>4
      <3>2. /\ s \in Seq(Slot) /\ Len(s) = Len(q) + 1
            /\ \A j \in 1 .. (Len(q) + 1) :
                  s[j] = IF j < i THEN q[j] ELSE IF j = i THEN x ELSE q[j - 1]
        <4>1. q \in Seq(Slot) /\ x \in Slot
          BY <2>1, <2>4
        <4>2. s \in Seq(Slot) /\ Inserted(s, q, i, x)
          BY <3>1, <4>1, InsertAtFacts DEF s
        <4>3. QED
          BY <4>2 DEF Inserted
      <3>3. QED
        BY <2>4, <3>2
    <2> HIDE DEF s, m
    <2>6. IsPage(m) /\ m.slots = s /\ m.tail_child = n.tail_child /\ SameData(m, n)
      BY <2>5, <2>3, PageWithSlots
    <2> HIDE DEF N
    <2>7. \A j \in 1 .. N : SamePlace(q[j], n.slots[j])
      BY <1>3, <2>2, <2>4
    <2>8. \A j \in 1 .. (N + 1) : /\ j < i => SamePlace(m.slots[j], n.slots[j])
                                  /\ j > i => SamePlace(m.slots[j], n.slots[j - 1])
      <3>1. ASSUME NEW j \in 1 .. (N + 1), j < i
            PROVE  SamePlace(m.slots[j], n.slots[j])
        BY <1>1, <2>0, <2>5, <2>6, <2>7, <3>1
      <3>2. ASSUME NEW j \in 1 .. (N + 1), j > i
            PROVE  SamePlace(m.slots[j], n.slots[j - 1])
        <4>1. j - 1 \in 1 .. N /\ m.slots[j] = q[j - 1]
          BY <1>1, <2>0, <2>5, <2>6, <3>2
        <4>2. QED
          BY <2>7, <4>1
      <3>3. QED
        BY <3>1, <3>2
    <2>9. ASSUME NEW j \in 1 .. (N + 2)
          PROVE  ChildAt(m, j) = IF j < i + 1 THEN ChildAt(n, j)
                                 ELSE IF j = i + 1 THEN c ELSE ChildAt(n, j - 1)
      <3>1. CASE j = N + 2
        <4>1. ChildAt(m, j) = n.tail_child /\ ChildAt(n, j - 1) = n.tail_child
              /\ ~(j < i + 1) /\ j # i + 1
          BY <1>1, <2>0, <2>5, <2>6, <3>1 DEF ChildAt, N
        <4>2. QED
          BY <4>1
      <3>2. CASE j # N + 2
        <4>1. j \in 1 .. (N + 1) /\ ChildAt(m, j) = s[j].left_child
          BY <1>1, <2>5, <2>6, <3>2 DEF ChildAt
        <4>2. CASE j < i
          <5>1. s[j] = n.slots[j] /\ ChildAt(n, j) = n.slots[j].left_child
            BY <1>1, <2>0, <2>4, <2>5, <4>1, <4>2 DEF ChildAt, N
          <5>2. QED
            BY <2>0, <4>1, <4>2, <5>1
        <4>3. CASE j = i
          <5>1. s[j] = x /\ ChildAt(n, j) = n.slots[j].left_child
            BY <1>1, <2>0, <2>5, <4>1, <4>3 DEF ChildAt, N
          <5>2. QED
            BY <2>0, <2>1, <4>1, <4>3, <5>1
        <4>4. CASE j = i + 1
          <5>1. s[j] = q[i]
            BY <1>1, <2>0, <2>5, <4>1, <4>4
          <5>2. QED
            BY <2>0, <2>2, <2>4, <4>1, <4>4, <5>1
        <4>5. CASE j > i + 1
          <5>1. j - 1 \in 1 .. N /\ j - 1 # i
            BY <1>1, <2>0, <4>1, <4>5
          <5>2. s[j] = n.slots[j - 1] /\ ChildAt(n, j - 1) = n.slots[j - 1].left_child
            BY <1>1, <2>0, <2>4, <2>5, <4>1, <4>5, <5>1 DEF ChildAt, N
          <5>3. QED
            BY <2>0, <4>1, <4>5, <5>2
        <4>6. QED
          BY <1>1, <2>0, <4>1, <4>2, <4>3, <4>4, <4>5
      <3>3. QED
        BY <3>1, <3>2
    <2>10. SlotRecordSize(m.slots[i]) = 0
      BY <1>2, <2>0, <2>1, <2>5, <2>6
    <2>11. QED
      BY <1>6, <2>5, <2>6, <2>8, <2>9, <2>10 DEF m, N, ChildIndex, SlotInserted, ChildInserted
  <1>7. QED
    BY <1>4, <1>5, <1>6

LEMMA DeleteSlotFacts ==
    ASSUME NEW n, IsPage(n), NEW i \in 1 .. Len(n.slots), NEW right \in BOOLEAN
    PROVE  LET m == DeleteSlot(n, i, right)
               k == ChildIndex(i, right)
           IN  /\ IsPage(m)
               /\ SameData(m, n)
               /\ SlotRemoved(m, n, i)
               /\ ChildRemoved(m, n, k)
  <1> DEFINE m == DeleteSlot(n, i, right)
             N == Len(n.slots)
  <1>1. /\ n.slots \in Seq(Slot) /\ N \in Nat /\ n.tail_child \in Children \cup {NoChild}
        /\ \A j \in 1 .. N : n.slots[j] \in Slot /\ n.slots[j].left_child \in Children \cup {NoChild}
    BY SlotFacts DEF IsPage
  <1>2. i \in 1 .. N
    OBVIOUS
  <1>3. \A x : SamePlace(x, x)
    BY DEF SamePlace, SameRecord
  <1>4. CASE ~right
    <2> DEFINE s == RemoveAt(n.slots, i)
    <2>1. /\ s \in Seq(Slot) /\ Len(s) = N - 1
          /\ \A j \in 1 .. (N - 1) : s[j] = IF j < i THEN n.slots[j] ELSE n.slots[j + 1]
      <3> HIDE DEF s
      <3>1. QED
        <4>1. s \in Seq(Slot) /\ Removed(s, n.slots, i)
          BY <1>1, RemoveAtFacts DEF s
        <4>2. QED
          BY <4>1 DEF Removed
    <2>2. m = [n EXCEPT !.slots = s]
      BY <1>4 DEF DeleteSlot
    <2> HIDE DEF s, m
    <2>3. IsPage(m) /\ m.slots = s /\ m.tail_child = n.tail_child /\ SameData(m, n)
      BY <2>1, <2>2, PageWithSlots
    <2> HIDE DEF N
    <2>4. ASSUME NEW j \in 1 .. (N - 1)
          PROVE  SamePlace(m.slots[j], n.slots[IF j < i THEN j ELSE j + 1])
      BY <1>3, <2>1, <2>3
    <2>5. ASSUME NEW j \in 1 .. N
          PROVE  ChildAt(m, j) = IF j < i THEN ChildAt(n, j) ELSE ChildAt(n, j + 1)
      <3>1. CASE j = N
        <4>1. ChildAt(m, j) = n.tail_child /\ ChildAt(n, j + 1) = n.tail_child /\ ~(j < i)
          BY <1>1, <1>2, <2>1, <2>3, <3>1 DEF ChildAt, N
        <4>2. QED
          BY <4>1
      <3>2. CASE j # N
        <4>1. j \in 1 .. (N - 1) /\ j + 1 \in 1 .. N /\ ChildAt(m, j) = s[j].left_child
          BY <1>1, <2>1, <2>3, <3>2 DEF ChildAt
        <4>2. /\ ChildAt(n, j) = n.slots[j].left_child
              /\ ChildAt(n, j + 1) = n.slots[j + 1].left_child
          BY <1>1, <4>1 DEF ChildAt, N
        <4>3. QED
          BY <2>1, <4>1, <4>2
      <3>3. QED
        BY <3>1, <3>2
    <2>6. QED
      BY <1>4, <2>1, <2>3, <2>4, <2>5 DEF m, N, ChildIndex, SlotRemoved, ChildRemoved
  <1>5. CASE right /\ i < N
    <2> DEFINE y == [n.slots[i + 1] EXCEPT !.left_child = n.slots[i].left_child]
               q == [n.slots EXCEPT ![i + 1] = y]
               s == RemoveAt(q, i)
    <2>0. i + 1 \in 1 .. N
      BY <1>1, <1>2, <1>5
    <2>1. y \in Slot /\ y.left_child = n.slots[i].left_child /\ SamePlace(y, n.slots[i + 1])
      BY <1>1, <1>2, <2>0, SlotWithChild
    <2>2. m = [n EXCEPT !.slots = s]
      BY <1>5 DEF DeleteSlot
    <2> HIDE DEF y
    <2>3. /\ q \in Seq(Slot) /\ Len(q) = N /\ q[i + 1] = y
          /\ \A j \in 1 .. N : j # i + 1 => q[j] = n.slots[j]
      BY <1>1, <2>0, <2>1
    <2> HIDE DEF q
    <2>4. /\ s \in Seq(Slot) /\ Len(s) = N - 1
          /\ \A j \in 1 .. (N - 1) : s[j] = IF j < i THEN q[j] ELSE q[j + 1]
      <3> HIDE DEF s, N
      <3>1. q \in Seq(Slot) /\ i \in 1 .. Len(q)
        BY <1>2, <2>3
      <3>2. /\ s \in Seq(Slot) /\ Len(s) = Len(q) - 1
            /\ \A j \in 1 .. (Len(q) - 1) : s[j] = IF j < i THEN q[j] ELSE q[j + 1]
        <4>1. s \in Seq(Slot) /\ Removed(s, q, i)
          BY <3>1, RemoveAtFacts DEF s
        <4>2. QED
          BY <4>1 DEF Removed
      <3>3. QED
        BY <2>3, <3>2
    <2> HIDE DEF s, m
    <2>5. IsPage(m) /\ m.slots = s /\ m.tail_child = n.tail_child /\ SameData(m, n)
      BY <2>2, <2>4, PageWithSlots
    <2> HIDE DEF N
    <2>6. \A j \in 1 .. N : SamePlace(q[j], n.slots[j])
      BY <1>3, <2>1, <2>3
    <2>7. ASSUME NEW j \in 1 .. (N - 1)
          PROVE  SamePlace(m.slots[j], n.slots[IF j < i THEN j ELSE j + 1])
      <3>1. j \in 1 .. N /\ j + 1 \in 1 .. N
        BY <1>1
      <3>2. QED
        BY <2>4, <2>5, <2>6, <3>1
    <2>8. ASSUME NEW j \in 1 .. N
          PROVE  ChildAt(m, j) = IF j < i + 1 THEN ChildAt(n, j) ELSE ChildAt(n, j + 1)
      <3>1. CASE j = N
        <4>1. ChildAt(m, j) = n.tail_child /\ ChildAt(n, j + 1) = n.tail_child /\ ~(j < i + 1)
          BY <1>1, <1>2, <1>5, <2>4, <2>5, <3>1 DEF ChildAt, N
        <4>2. QED
          BY <4>1
      <3>2. CASE j # N
        <4>1. j \in 1 .. (N - 1) /\ j + 1 \in 1 .. N /\ ChildAt(m, j) = s[j].left_child
          BY <1>1, <2>4, <2>5, <3>2 DEF ChildAt
        <4>2. /\ ChildAt(n, j) = n.slots[j].left_child
              /\ ChildAt(n, j + 1) = n.slots[j + 1].left_child
          BY <1>1, <4>1 DEF ChildAt, N
        <4>3. CASE j < i
          <5>1. s[j] = n.slots[j] /\ j < i + 1
            BY <1>1, <1>2, <2>3, <2>4, <4>1, <4>3
          <5>2. QED
            BY <4>1, <4>2, <5>1
        <4>4. CASE j = i
          <5>1. s[j] = y /\ j < i + 1
            BY <1>1, <1>2, <2>3, <2>4, <4>1, <4>4
          <5>2. QED
            BY <2>1, <4>1, <4>2, <4>4, <5>1
        <4>5. CASE j > i
          <5>1. s[j] = n.slots[j + 1] /\ ~(j < i + 1)
            BY <1>1, <1>2, <2>3, <2>4, <4>1, <4>5
          <5>2. QED
            BY <4>1, <4>2, <5>1
        <4>6. QED
          BY <1>1, <1>2, <4>1, <4>3, <4>4, <4>5
      <3>3. QED
        BY <3>1, <3>2
    <2>9. QED
      BY <1>5, <2>4, <2>5, <2>7, <2>8 DEF m, N, ChildIndex, SlotRemoved, ChildRemoved
  <1>6. CASE right /\ ~(i < N)
    <2> DEFINE s == Front(n.slots)
               t == n.slots[N].left_child
    <2>0. i = N /\ N \in 1 .. N
      BY <1>1, <1>2, <1>6
    <2>1. /\ s \in Seq(Slot) /\ Len(s) = N - 1
          /\ \A j \in 1 .. (N - 1) : s[j] = n.slots[j]
      BY <1>1, <2>0 DEF Front
    <2>2. m = [n EXCEPT !.slots = s, !.tail_child = t]
      BY <1>6 DEF DeleteSlot, Last
    <2>3. t \in Children \cup {NoChild}
      BY <1>1, <2>0
    <2> HIDE DEF s, m
    <2>4. IsPage(m) /\ m.slots = s /\ m.tail_child = t /\ SameData(m, n)
      <3> HIDE DEF t
      <3>1. s \in Seq(Slot)
        BY <2>1
      <3>2. QED
        BY <2>2, <2>3, <3>1 DEF IsPage, SameData
    <2> HIDE DEF N
    <2>5. ASSUME NEW j \in 1 .. (N - 1)
          PROVE  SamePlace(m.slots[j], n.slots[IF j < i THEN j ELSE j + 1])
      BY <1>1, <1>3, <2>0, <2>1, <2>4
    <2>6. ASSUME NEW j \in 1 .. N
          PROVE  ChildAt(m, j) = IF j < i + 1 THEN ChildAt(n, j) ELSE ChildAt(n, j + 1)
      <3>1. j < i + 1 /\ ChildAt(n, j) = n.slots[j].left_child
        BY <1>1, <2>0 DEF ChildAt, N
      <3>2. CASE j = N
        BY <1>1, <2>0, <2>1, <2>4, <3>1, <3>2 DEF ChildAt
      <3>3. CASE j # N
        BY <1>1, <2>0, <2>1, <2>4, <3>1, <3>3 DEF ChildAt
      <3>4. QED
        BY <3>2, <3>3
    <2>7. QED
      BY <1>6, <2>1, <2>4, <2>5, <2>6 DEF m, N, ChildIndex, SlotRemoved, ChildRemoved
  <1>7. QED
    BY <1>4, <1>5, <1>6

LEMMA SetLeftChildFacts ==
    ASSUME NEW n, IsPage(n), NEW i \in 1 .. (Len(n.slots) + 1), NEW c \in Children \cup {NoChild}
    PROVE  LET m == SetLeftChild(n, i, c)
           IN  /\ IsPage(m)
               /\ SameData(m, n)
               /\ \A j \in 1 .. Len(n.slots) : SamePlace(m.slots[j], n.slots[j])
               /\ ChildReplaced(m, n, i, c)
  <1> DEFINE m == SetLeftChild(n, i, c)
             N == Len(n.slots)
  <1>1. /\ n.slots \in Seq(Slot) /\ N \in Nat
        /\ \A j \in 1 .. N : n.slots[j] \in Slot
    BY DEF IsPage
  <1>2. \A x : SamePlace(x, x)
    BY DEF SamePlace, SameRecord
  <1>3. CASE i > N
    <2>1. m = [n EXCEPT !.tail_child = c]
      BY <1>3 DEF SetLeftChild
    <2> HIDE DEF m
    <2>2. IsPage(m) /\ m.slots = n.slots /\ m.tail_child = c /\ SameData(m, n)
      BY <2>1, PageWithTail
    <2>3. ASSUME NEW j \in 1 .. (N + 1)
          PROVE  ChildAt(m, j) = IF j = i THEN c ELSE ChildAt(n, j)
      BY <1>1, <1>3, <2>2 DEF ChildAt
    <2>4. QED
      BY <1>2, <2>2, <2>3 DEF m, ChildReplaced
  <1>4. CASE ~(i > N)
    <2> DEFINE y == [n.slots[i] EXCEPT !.left_child = c]
               s == [n.slots EXCEPT ![i] = y]
    <2>0. i \in 1 .. N
      BY <1>1, <1>4
    <2>1. y \in Slot /\ y.left_child = c /\ SamePlace(y, n.slots[i])
      BY <1>1, <2>0, SlotWithChild
    <2>2. m = [n EXCEPT !.slots = s]
      BY <1>4 DEF SetLeftChild
    <2> HIDE DEF y
    <2>3. /\ s \in Seq(Slot) /\ Len(s) = N /\ s[i] = y
          /\ \A j \in 1 .. N : j # i => s[j] = n.slots[j]
      BY <1>1, <2>0, <2>1
    <2> HIDE DEF s, m
    <2>4. IsPage(m) /\ m.slots = s /\ m.tail_child = n.tail_child /\ SameData(m, n)
      BY <2>2, <2>3, PageWithSlots
    <2>5. ASSUME NEW j \in 1 .. (N + 1)
          PROVE  ChildAt(m, j) = IF j = i THEN c ELSE ChildAt(n, j)
      BY <1>1, <2>0, <2>1, <2>3, <2>4 DEF ChildAt
    <2>6. \A j \in 1 .. N : SamePlace(m.slots[j], n.slots[j])
      BY <1>2, <2>1, <2>3, <2>4
    <2>7. QED
      BY <2>3, <2>4, <2>5, <2>6 DEF m, ChildReplaced
  <1>5. QED
    BY <1>3, <1>4

\* The record of slot i is taken out, the slot stays.
LEMMA DeleteRecordShape ==
    ASSUME NEW n, IsPage(n), NEW i \in 1 .. Len(n.slots)
    PROVE  LET m == DeleteRecord(n, i)
           IN  /\ IsPage(m)
               /\ SameSlots(m, n)
               /\ m.space_used = n.space_used - SlotRecordSize(n.slots[i])
               /\ m.data_offset = n.data_offset /\ m.mem = n.mem
               /\ \A j \in 1 .. Len(n.slots) : j # i => m.slots[j] = n.slots[j]
               /\ m.slots[i] \in Slot
               /\ m.slots[i].is_overflow = n.slots[i].is_overflow
               /\ ~n.slots[i].is_overflow => m.slots[i].key_size = 0 /\ m.slots[i].value_size = 0
               /\ n.slots[i].is_overflow => m.slots[i] = n.slots[i]
  <1> DEFINE m == DeleteRecord(n, i)
             y == IF n.slots[i].is_overflow THEN n.slots[i]
                  ELSE [n.slots[i] EXCEPT !.key_size = 0, !.value_size = 0]
             s == [n.slots EXCEPT ![i] = y]
             u == n.space_used - SlotRecordSize(n.slots[i])
  <1>1. n.slots \in Seq(Slot) /\ n.slots[i] \in Slot /\ n.space_used \in Int
    BY DEF IsPage
  <1>2. u \in Int
    BY <1>1, SlotFacts
  <1>3. /\ y \in Slot /\ y.left_child = n.slots[i].left_child
        /\ y.is_overflow = n.slots[i].is_overflow
        /\ ~n.slots[i].is_overflow => y.key_size = 0 /\ y.value_size = 0
        /\ n.slots[i].is_overflow => y = n.slots[i]
    BY <1>1 DEF Slot
  <1>4. m = [n EXCEPT !.space_used = u, !.slots = s]
    BY DEF DeleteRecord
  <1> HIDE DEF y, u, m
  <1>5. /\ s \in Seq(Slot) /\ Len(s) = Len(n.slots) /\ s[i] = y
        /\ \A j \in 1 .. Len(n.slots) : j # i => s[j] = n.slots[j]
    BY <1>1, <1>3
  <1> HIDE DEF s
  <1>6. /\ IsPage(m) /\ m.slots = s /\ m.space_used = u
        /\ m.tail_child = n.tail_child /\ m.data_offset = n.data_offset /\ m.mem = n.mem
    <2>1. s \in Seq(Slot)
      BY <1>5
    <2>2. QED
      BY <1>2, <1>4, <2>1 DEF IsPage
  <1>7. SameSlots(m, n)
    BY <1>3, <1>5, <1>6 DEF SameSlots
  <1>8. QED
    BY <1>3, <1>5, <1>6, <1>7 DEF m, u

\* RestoreRecord gives the page back as it was.
LEMMA RestoreRecordFacts ==
    ASSUME NEW n, IsPage(n), NEW i \in 1 .. Len(n.slots)
    PROVE  RestoreRecord(DeleteRecord(n, i), i, n.slots[i]) = n
  <1> DEFINE d == DeleteRecord(n, i)
             x == n.slots[i]
             y == IF x.is_overflow THEN x ELSE [x EXCEPT !.key_size = 0, !.value_size = 0]
             z == IF x.is_overflow THEN y
                  ELSE [y EXCEPT !.key_size = x.key_size, !.value_size = x.value_size]
             m == RestoreRecord(d, i, x)
             k == SlotRecordSize(x)
  <1>1. n.slots \in Seq(Slot) /\ x \in Slot /\ n.space_used \in Int
    BY DEF IsPage
  <1>2. k \in Nat
    BY <1>1, SlotFacts
  <1>3. z = x
    BY <1>1 DEF Slot
  <1>4. d = [n EXCEPT !.space_used = n.space_used - k, !.slots = [n.slots EXCEPT ![i] = y]]
    BY DEF DeleteRecord
  <1>5. d.space_used = n.space_used - k /\ d.slots = [n.slots EXCEPT ![i] = y]
        /\ DOMAIN d = DOMAIN n
    <2> HIDE DEF d, y, k
    <2>1. QED
      BY <1>4 DEF IsPage
  <1>6. d.slots[i] = y
    BY <1>1, <1>5
  <1>7. m = [d EXCEPT !.space_used = d.space_used + k, !.slots = [d.slots EXCEPT ![i] = z]]
    <2> HIDE DEF d, y, x
    <2>1. QED
      BY <1>6 DEF RestoreRecord
  <1>8. (n.space_used - k) + k = n.space_used
    BY <1>1, <1>2
  <1>9. [d.slots EXCEPT ![i] = z] = n.slots
    <2> DEFINE s == [d.slots EXCEPT ![i] = z]
    <2>1. DOMAIN d.slots = DOMAIN n.slots /\ \A j \in DOMAIN n.slots : j # i => d.slots[j] = n.slots[j]
      BY <1>5
    <2>2. \A j \in DOMAIN n.slots : s[j] = n.slots[j]
      <3> HIDE DEF d, y, z
      <3>1. QED
        BY <1>3, <2>1
    <2>3. s = [j \in DOMAIN n.slots |-> s[j]]
      BY <2>1
    <2>4. n.slots = [j \in DOMAIN n.slots |-> n.slots[j]]
      BY <1>1
    <2> HIDE DEF s
    <2>5. QED
      BY <2>2, <2>3, <2>4 DEF s
  <1>10. m = [d EXCEPT !.space_used = n.space_used, !.slots = n.slots]
    BY <1>5, <1>7, <1>8, <1>9
  <1> HIDE DEF m, d, x, y, z, k
  <1>11. DOMAIN m = DOMAIN n /\ m = [f \in DOMAIN n |-> m[f]]
    BY <1>5, <1>10
  <1>12. \A f \in DOMAIN n : m[f] = n[f]
    BY <1>4, <1>5, <1>10 DEF IsPage
  <1>13. n = [f \in DOMAIN n |-> n[f]]
    BY DEF IsPage
  <1>14. m = n
    BY <1>11, <1>12, <1>13
  <1>15. QED
    BY <1>14 DEF m, d, x

-----------------------------------------------------------------------------
(* The children.                                                            *)

TypeInv ==
    /\ type \in {"leaf", "branch"}
    /\ IsPage(node)
    /\ records \in Seq(RecordsOf(type))
    /\ Len(records) = Len(node.slots)

ChildInv ==
    /\ type = "branch" => /\ children \in Seq(Children)
                          /\ Len(children) = Len(node.slots) + 1
                          /\ \A j \in 1 .. (Len(node.slots) + 1) : children[j] = ChildAt(node, j)
    /\ type = "leaf" => \A j \in 1 .. (Len(node.slots) + 1) : ChildAt(node, j) = NoChild

LEMMA RecordFacts ==
    ASSUME NEW t, NEW r \in RecordsOf(t)
    PROVE  r.key_size \in Nat /\ r.value_size \in Nat /\ Size(r) \in Nat
  <1>1. PICK g \in Tags, s \in Sizes :
           r = [tag |-> g, key_size |-> IF t = "leaf" /\ s > 1 THEN 1 ELSE s,
                value_size |-> IF t = "leaf" /\ s > 1 THEN s - 1 ELSE 0]
    BY DEF RecordsOf
  <1>2. s \in Nat
    BY ConstantsAssumption
  <1>3. r.key_size \in Nat /\ r.value_size \in Nat
    BY <1>1, <1>2
  <1>4. QED
    BY <1>3 DEF Size

LEMMA StructureInit ==
    Init => TypeInv /\ ChildInv
  <1> SUFFICES ASSUME Init PROVE TypeInv /\ ChildInv
    OBVIOUS
  <1>1. PICK c \in IF type = "leaf" THEN {NoChild} ELSE Children :
           /\ node = [slots |-> << >>, tail_child |-> c, data_offset |-> PageSize,
                      space_used |-> 0, mem |-> [u \in 0 .. (PageSize - 1) |-> <<>>]]
           /\ children = <<c>>
    BY DEF Init
  <1>2. type \in {"leaf", "branch"} /\ c \in Children \cup {NoChild} /\ records = << >>
    BY DEF Init
  <1>3. IsPage(node) /\ node.slots = << >> /\ node.tail_child = c
    BY <1>1, <1>2, ConstantFacts DEF IsPage
  <1>4. Len(node.slots) = 0
    BY <1>3
  <1>5. \A j \in 1 .. (Len(node.slots) + 1) : j = 1 /\ ChildAt(node, j) = c
    BY <1>3, <1>4 DEF ChildAt
  <1>6. TypeInv
    <2>1. records \in Seq(RecordsOf(type)) /\ Len(records) = 0
      BY <1>2
    <2>2. QED
      BY <1>2, <1>3, <1>4, <2>1 DEF TypeInv
  <1>7. ASSUME type = "branch"
        PROVE  children \in Seq(Children) /\ Len(children) = 1 /\ children[1] = c
    <2>1. c \in Children /\ children = <<c>>
      BY <1>1, <1>7
    <2>2. QED
      BY <2>1
  <1>8. type = "leaf" => c = NoChild
    OBVIOUS
  <1>9. QED
    BY <1>4, <1>5, <1>6, <1>7, <1>8 DEF ChildInv

LEMMA SameSlotsChild ==
    ASSUME NEW m, NEW n, SameSlots(m, n), Len(n.slots) \in Nat
    PROVE  \A j \in 1 .. (Len(n.slots) + 1) : ChildAt(m, j) = ChildAt(n, j)
  BY DEF SameSlots, ChildAt

LEMMA SameSlotsTrans ==
    ASSUME NEW l, NEW m, NEW n, SameSlots(l, m), SameSlots(m, n)
    PROVE  SameSlots(l, n)
  BY DEF SameSlots

\* The page that Insert makes.
LEMMA InsertShape ==
    ASSUME NEW n, IsPage(n), NEW i \in 1 .. (Len(n.slots) + 1), NEW t, NEW r \in RecordsOf(t),
           NEW c \in Children \cup {NoChild}, NEW right \in BOOLEAN
    PROVE  LET m == StoreRecord(InsertSlot(SpaceFor(n, Size(r), TRUE), i, c, right), i, r)
               k == ChildIndex(i, right)
           IN  IsPage(m) /\ ChildInserted(m, n, k, c)
  <1> DEFINE a == SpaceFor(n, Size(r), TRUE)
             b == InsertSlot(a, i, c, right)
             m == StoreRecord(b, i, r)
             k == ChildIndex(i, right)
             N == Len(n.slots)
  <1>1. N \in Nat
    BY SlotSpaceFacts
  <1>2. IsPage(a) /\ SameSlots(a, n)
    BY SpaceForShape
  <1> HIDE DEF a
  <1>4. Len(a.slots) = N /\ \A j \in 1 .. (N + 1) : ChildAt(a, j) = ChildAt(n, j)
    BY <1>1, <1>2, SameSlotsChild DEF SameSlots
  <1>5. /\ IsPage(b)
        /\ Len(b.slots) = N + 1
        /\ \A j \in 1 .. (N + 2) :
              ChildAt(b, j) = IF j < k THEN ChildAt(a, j)
                              ELSE IF j = k THEN c ELSE ChildAt(a, j - 1)
    <2>1. i \in 1 .. (Len(a.slots) + 1)
      BY <1>4
    <2> HIDE DEF b
    <2>2. IsPage(b) /\ ChildInserted(b, a, k, c)
      BY <1>2, <2>1, InsertSlotFacts DEF b
    <2>3. QED
      BY <1>4, <2>2 DEF ChildInserted
  <1> HIDE DEF b
  <1>6. IsPage(m) /\ SameSlots(m, b)
    <2>1. i \in 1 .. Len(b.slots)
      BY <1>1, <1>5
    <2>2. QED
      BY <1>5, <2>1, RecordFacts, StoreRecordShape
  <1> HIDE DEF m
  <1>7. Len(m.slots) = N + 1 /\ \A j \in 1 .. (N + 2) : ChildAt(m, j) = ChildAt(b, j)
    <2>1. (N + 1) + 1 = N + 2 /\ N + 1 \in Nat
      BY <1>1
    <2>2. \A j \in 1 .. (Len(b.slots) + 1) : ChildAt(m, j) = ChildAt(b, j)
      BY <1>5, <1>6, <2>1, SameSlotsChild
    <2>3. Len(m.slots) = Len(b.slots)
      BY <1>6 DEF SameSlots
    <2>4. QED
      BY <1>5, <2>1, <2>2, <2>3
  <1> HIDE DEF N
  <1>8. ASSUME NEW j \in 1 .. (N + 2)
        PROVE  ChildAt(m, j) = IF j < k THEN ChildAt(n, j)
                               ELSE IF j = k THEN c ELSE ChildAt(n, j - 1)
    <2>1. i \in 1 .. (N + 1) /\ k \in 1 .. (N + 2)
      BY <1>1 DEF N, ChildIndex
    <2>2. j < k => j \in 1 .. (N + 1)
      BY <1>1, <2>1
    <2>3. j > k => j - 1 \in 1 .. (N + 1)
      BY <1>1, <2>1
    <2>4. j < k \/ j = k \/ j > k
      BY <1>1, <2>1
    <2> HIDE DEF k
    <2>5. QED
      BY <1>4, <1>5, <1>7, <2>2, <2>3, <2>4
  <1>9. QED
    BY <1>6, <1>7, <1>8 DEF N, m, b, a, ChildInserted

\* The page that Update makes.
LEMMA UpdateShape ==
    ASSUME NEW n, IsPage(n), NEW i \in 1 .. Len(n.slots), NEW t, NEW r \in RecordsOf(t),
           NEW d, d = DeleteRecord(n, i), NEW a, a = SpaceFor(d, Size(r), FALSE),
           NEW u \in Int, NEW b, b = [a EXCEPT !.space_used = u], NEW m, m = StoreRecord(b, i, r)
    PROVE  IsPage(m) /\ SameSlots(m, n)
  <1>1. IsPage(d) /\ SameSlots(d, n)
    BY DeleteRecordShape
  <1>2. IsPage(a) /\ SameSlots(a, d)
    BY <1>1, SpaceForShape
  <1>3. IsPage(b) /\ SameSlots(b, a)
    <2>1. IsPage(b) /\ b.slots = a.slots /\ b.tail_child = a.tail_child
      BY <1>2 DEF IsPage
    <2>2. QED
      BY <2>1 DEF SameSlots
  <1>4. m = StoreRecord(b, i, r) /\ i \in 1 .. Len(b.slots)
    BY <1>1, <1>2, <1>3 DEF SameSlots
  <1>5. IsPage(m) /\ SameSlots(m, b)
    <2>1. r.key_size \in Nat /\ r.value_size \in Nat
      BY RecordFacts
    <2>2. IsPage(StoreRecord(b, i, r)) /\ SameSlots(StoreRecord(b, i, r), b)
      BY <1>3, <1>4, <2>1, StoreRecordShape, Zenon
    <2>3. QED
      BY <1>4, <2>2
  <1>6. QED
    BY <1>1, <1>2, <1>3, <1>5, SameSlotsTrans

\* The page that Delete makes.
LEMMA DeleteShape ==
    ASSUME NEW n, IsPage(n), NEW i \in 1 .. Len(n.slots), NEW right \in BOOLEAN,
           NEW a, a = [n EXCEPT !.space_used = @ - SlotRecordSize(n.slots[i])],
           NEW m, m = DeleteSlot(a, i, right), NEW k, k = ChildIndex(i, right)
    PROVE  /\ IsPage(a)
           /\ a.slots = n.slots /\ a.data_offset = n.data_offset /\ a.mem = n.mem
           /\ a.space_used = n.space_used - SlotRecordSize(n.slots[i])
           /\ IsPage(m)
           /\ SameData(m, a)
           /\ SlotRemoved(m, n, i)
           /\ ChildRemoved(m, n, k)
  <1>1. n.slots[i] \in Slot /\ n.space_used \in Int
    BY DEF IsPage
  <1>2. SlotRecordSize(n.slots[i]) \in Nat
    BY <1>1, SlotFacts
  <1>3. /\ IsPage(a) /\ a.slots = n.slots /\ a.tail_child = n.tail_child
        /\ a.data_offset = n.data_offset /\ a.mem = n.mem
        /\ a.space_used = n.space_used - SlotRecordSize(n.slots[i])
    <2> DEFINE x == SlotRecordSize(n.slots[i])
    <2> HIDE DEF x
    <2>1. a = [n EXCEPT !.space_used = n.space_used - x] /\ x \in Nat
      BY <1>2 DEF x
    <2>2. /\ IsPage(a) /\ a.slots = n.slots /\ a.tail_child = n.tail_child
          /\ a.data_offset = n.data_offset /\ a.mem = n.mem
          /\ a.space_used = n.space_used - x
      BY <1>1, <2>1 DEF IsPage
    <2>3. QED
      BY <2>2 DEF x
  <1>4. IsPage(m) /\ SameData(m, a) /\ SlotRemoved(m, a, i) /\ ChildRemoved(m, a, k)
    <2>1. i \in 1 .. Len(a.slots)
      BY <1>3
    <2>2. QED
      BY <1>3, <2>1, DeleteSlotFacts
  <1>5. \A j : ChildAt(a, j) = ChildAt(n, j)
    BY <1>3 DEF ChildAt
  <1>6. QED
    BY <1>3, <1>4, <1>5 DEF ChildRemoved, SlotRemoved

\* What the operations do, with the page they leave.
LEMMA InsertStructure ==
    ASSUME TypeInv, ChildInv, NEW i \in 1 .. (Len(node.slots) + 1), NEW r \in RecordsOf(type),
           NEW c \in Children \cup {NoChild}, NEW right \in BOOLEAN, c = NoChild <=> type = "leaf",
           Insert(i, r, c, right)
    PROVE  TypeInv' /\ ChildInv'
  <1> DEFINE N == Len(node.slots)
             k == ChildIndex(i, right)
  <1>1. type \in {"leaf", "branch"} /\ IsPage(node) /\ N \in Nat
        /\ records \in Seq(RecordsOf(type)) /\ Len(records) = N
    BY SlotSpaceFacts DEF TypeInv
  <1>3. /\ node' = StoreRecord(InsertSlot(SpaceFor(node, Size(r), TRUE), i, c, right), i, r)
        /\ records' = InsertAt(records, i, r)
        /\ children' = IF type = "leaf" THEN children ELSE InsertAt(children, k, c)
        /\ type' = type
    BY DEF Insert, ChildIndex
  <1>4. /\ IsPage(node')
        /\ Len(node'.slots) = N + 1
        /\ \A j \in 1 .. (N + 2) :
              ChildAt(node', j) = IF j < k THEN ChildAt(node, j)
                                  ELSE IF j = k THEN c ELSE ChildAt(node, j - 1)
    <2>1. LET m == StoreRecord(InsertSlot(SpaceFor(node, Size(r), TRUE), i, c, right), i, r)
              x == ChildIndex(i, right)
          IN  IsPage(m) /\ ChildInserted(m, node, x, c)
      <3>1. IsPage(node)
        BY <1>1
      <3> HIDE DEF N, k
      <3>2. QED
        BY <3>1, InsertShape, Zenon
    <2>2. IsPage(node') /\ ChildInserted(node', node, k, c)
      BY <1>3, <2>1
    <2>3. QED
      BY <2>2 DEF ChildInserted
  <1>5. TypeInv'
    <2>1. records' \in Seq(RecordsOf(type)) /\ Len(records') = N + 1
      <3>1. i \in 1 .. (Len(records) + 1)
        BY <1>1
      <3>2. QED
        BY <1>1, <1>3, <3>1, InsertAtFacts DEF Inserted
    <2>2. QED
      BY <1>1, <1>3, <1>4, <2>1 DEF TypeInv
  <1>6. k \in 1 .. (N + 2)
    BY <1>1 DEF ChildIndex
  <1> HIDE DEF k
  <1>7. CASE type = "leaf"
    <2>1. c = NoChild /\ \A j \in 1 .. (N + 1) : ChildAt(node, j) = NoChild
      BY <1>7 DEF ChildInv
    <2> HIDE DEF N
    <2>2. ASSUME NEW j \in 1 .. (N + 2)
          PROVE  ChildAt(node', j) = NoChild
      <3>1. j < k => j \in 1 .. (N + 1)
        BY <1>1, <1>6
      <3>2. j > k => j - 1 \in 1 .. (N + 1)
        BY <1>1, <1>6
      <3>3. j < k \/ j = k \/ j > k
        BY <1>1, <1>6
      <3>4. QED
        BY <1>4, <2>1, <3>1, <3>2, <3>3
    <2>3. (N + 1) + 1 = N + 2
      BY <1>1
    <2>4. QED
      BY <1>3, <1>4, <1>5, <1>7, <2>2, <2>3 DEF ChildInv
  <1>8. CASE type = "branch"
    <2>1. /\ children \in Seq(Children) /\ Len(children) = N + 1
          /\ \A j \in 1 .. (N + 1) : children[j] = ChildAt(node, j)
          /\ c \in Children
      BY <1>8 DEF ChildInv
    <2>2. children' = InsertAt(children, k, c)
      BY <1>3, <1>8
    <2> HIDE DEF N
    <2>3. Len(children) + 1 = N + 2 /\ (N + 1) + 1 = N + 2
      BY <1>1, <2>1
    <2>4. /\ children' \in Seq(Children) /\ Len(children') = N + 2
          /\ \A j \in 1 .. (N + 2) :
                children'[j] = IF j < k THEN children[j] ELSE IF j = k THEN c ELSE children[j - 1]
      <3>1. k \in 1 .. (Len(children) + 1)
        BY <1>6, <2>3
      <3>2. /\ children' \in Seq(Children) /\ Len(children') = Len(children) + 1
            /\ \A j \in 1 .. (Len(children) + 1) :
                  children'[j] = IF j < k THEN children[j] ELSE IF j = k THEN c ELSE children[j - 1]
        <4>1. children \in Seq(Children) /\ c \in Children
          BY <2>1
        <4>2. children' \in Seq(Children) /\ Inserted(children', children, k, c)
          BY <4>1, <2>2, <3>1, InsertAtFacts
        <4>3. QED
          BY <4>2 DEF Inserted
      <3>3. QED
        BY <2>3, <3>2
    <2>5. ASSUME NEW j \in 1 .. (N + 2)
          PROVE  children'[j] = ChildAt(node', j)
      <3>1. j < k => j \in 1 .. (N + 1)
        BY <1>1, <1>6
      <3>2. j > k => j - 1 \in 1 .. (N + 1)
        BY <1>1, <1>6
      <3>3. j < k \/ j = k \/ j > k
        BY <1>1, <1>6
      <3>4. QED
        BY <1>4, <2>1, <2>4, <3>1, <3>2, <3>3
    <2>6. QED
      BY <1>3, <1>4, <1>5, <1>8, <2>3, <2>4, <2>5 DEF ChildInv
  <1>9. QED
    BY <1>1, <1>7, <1>8

LEMMA DeleteStructure ==
    ASSUME TypeInv, ChildInv, NEW i \in 1 .. (Len(node.slots) + 1),
           NEW right \in IF type = "leaf" THEN {FALSE} ELSE BOOLEAN,
           Delete(i, right)
    PROVE  TypeInv' /\ ChildInv'
  <1> DEFINE N == Len(node.slots)
             k == ChildIndex(i, right)
             a == [node EXCEPT !.space_used = @ - SlotRecordSize(node.slots[i])]
  <1>1. type \in {"leaf", "branch"} /\ IsPage(node) /\ N \in Nat
        /\ records \in Seq(RecordsOf(type)) /\ Len(records) = N
    BY SlotSpaceFacts DEF TypeInv
  <1>2. right \in BOOLEAN /\ i \in 1 .. Len(node.slots)
    <2>1. right \in BOOLEAN
      BY <1>1
    <2>2. i <= Len(node.slots)
      BY DEF Delete
    <2>3. QED
      BY <1>1, <2>1, <2>2
  <1>3. /\ node' = DeleteSlot(a, i, right)
        /\ records' = RemoveAt(records, i)
        /\ children' = IF type = "leaf" THEN children ELSE RemoveAt(children, k)
        /\ type' = type
    BY DEF Delete, ChildIndex
  <1>4. /\ IsPage(node')
        /\ Len(node'.slots) = N - 1
        /\ \A j \in 1 .. N :
              ChildAt(node', j) = IF j < k THEN ChildAt(node, j) ELSE ChildAt(node, j + 1)
    <2>1. k = ChildIndex(i, right) /\ IsPage(node)
          /\ a = [node EXCEPT !.space_used = @ - SlotRecordSize(node.slots[i])]
          /\ node' = DeleteSlot(a, i, right)
      BY <1>1, <1>3
    <2> HIDE DEF k, a
    <2>2. IsPage(node') /\ ChildRemoved(node', node, k)
      BY <1>2, <2>1, DeleteShape
    <2>3. QED
      BY <2>2 DEF ChildRemoved
  <1>5. TypeInv'
    <2>1. records' \in Seq(RecordsOf(type)) /\ Len(records') = N - 1
      <3>1. i \in 1 .. Len(records)
        BY <1>1, <1>2
      <3>2. QED
        BY <1>1, <1>3, <3>1, RemoveAtFacts DEF Removed
    <2>2. QED
      BY <1>1, <1>3, <1>4, <2>1 DEF TypeInv
  <1>6. k \in 1 .. (N + 1)
    BY <1>1, <1>2 DEF ChildIndex
  <1> HIDE DEF k, a
  <1>7. (N - 1) + 1 = N /\ (N + 1) - 1 = N
    BY <1>1
  <1>8. CASE type = "leaf"
    <2>1. \A j \in 1 .. (N + 1) : ChildAt(node, j) = NoChild
      BY <1>8 DEF ChildInv
    <2> HIDE DEF N
    <2>2. ASSUME NEW j \in 1 .. N
          PROVE  ChildAt(node', j) = NoChild
      <3>1. j \in 1 .. (N + 1) /\ j + 1 \in 1 .. (N + 1)
        BY <1>1
      <3>2. QED
        BY <1>4, <2>1, <3>1
    <2>3. QED
      BY <1>3, <1>4, <1>5, <1>7, <1>8, <2>2 DEF ChildInv
  <1>9. CASE type = "branch"
    <2>1. /\ children \in Seq(Children) /\ Len(children) = N + 1
          /\ \A j \in 1 .. (N + 1) : children[j] = ChildAt(node, j)
      BY <1>9 DEF ChildInv
    <2>2. children' = RemoveAt(children, k)
      BY <1>3, <1>9
    <2> HIDE DEF N
    <2>3. /\ children' \in Seq(Children) /\ Len(children') = N
          /\ \A j \in 1 .. N : children'[j] = IF j < k THEN children[j] ELSE children[j + 1]
      <3>1. k \in 1 .. Len(children)
        BY <1>6, <2>1
      <3>2. /\ children' \in Seq(Children) /\ Len(children') = Len(children) - 1
            /\ \A j \in 1 .. (Len(children) - 1) :
                  children'[j] = IF j < k THEN children[j] ELSE children[j + 1]
        BY <2>1, <2>2, <3>1, RemoveAtFacts DEF Removed
      <3>3. QED
        BY <1>7, <2>1, <3>2
    <2>4. ASSUME NEW j \in 1 .. N
          PROVE  children'[j] = ChildAt(node', j)
      <3>1. j \in 1 .. (N + 1) /\ j + 1 \in 1 .. (N + 1)
        BY <1>1
      <3>2. QED
        BY <1>4, <2>1, <2>3, <3>1
    <2>5. QED
      BY <1>3, <1>4, <1>5, <1>7, <1>9, <2>3, <2>4 DEF ChildInv
  <1>10. QED
    BY <1>1, <1>8, <1>9

\* What leaves slots and children as they are.
LEMMA SameStructure ==
    ASSUME TypeInv, ChildInv, IsPage(node'), SameSlots(node', node), type' = type,
           children' = children, records' \in Seq(RecordsOf(type)), Len(records') = Len(records)
    PROVE  TypeInv' /\ ChildInv'
  <1>1. Len(node.slots) \in Nat /\ Len(node'.slots) = Len(node.slots)
    BY SlotSpaceFacts DEF TypeInv, SameSlots
  <1>2. \A j \in 1 .. (Len(node.slots) + 1) : ChildAt(node', j) = ChildAt(node, j)
    BY <1>1, SameSlotsChild
  <1>3. TypeInv'
    BY <1>1 DEF TypeInv
  <1>4. QED
    BY <1>1, <1>2, <1>3 DEF ChildInv

LEMMA UpdateStructure ==
    ASSUME TypeInv, ChildInv, NEW i \in 1 .. (Len(node.slots) + 1), NEW r \in RecordsOf(type),
           Update(i, r)
    PROVE  TypeInv' /\ ChildInv'
  <1> DEFINE d == DeleteRecord(node, i)
             a == SpaceFor(d, Size(r), FALSE)
             x == IF type = "branch" THEN a.slots[i].key_size ELSE 0
             u == a.space_used - x
             b == [a EXCEPT !.space_used = u]
  <1>1. IsPage(node) /\ i \in 1 .. Len(node.slots) /\ Len(node.slots) \in Nat
        /\ records \in Seq(RecordsOf(type)) /\ Len(records) = Len(node.slots)
    BY SlotSpaceFacts DEF TypeInv, Update
  <1>2. /\ node' = StoreRecord(b, i, r)
        /\ records' = [records EXCEPT ![i] = r]
        /\ type' = type /\ children' = children
    BY DEF Update
  <1>3. IsPage(d) /\ SameSlots(d, node)
    BY <1>1, DeleteRecordShape, Zenon
  <1>4. IsPage(a) /\ SameSlots(a, d)
    <2> HIDE DEF d
    <2>1. QED
      BY <1>3, SpaceForShape
  <1> HIDE DEF a
  <1>5. u \in Int
    <2>1. a.space_used \in Int /\ a.slots \in Seq(Slot) /\ i \in 1 .. Len(a.slots)
      BY <1>1, <1>3, <1>4 DEF IsPage, SameSlots
    <2>2. a.slots[i].key_size \in Nat
      BY <2>1, SlotFacts
    <2>3. x \in Nat
      BY <2>2
    <2> HIDE DEF x
    <2>4. QED
      BY <2>1, <2>3
  <1> HIDE DEF u
  <1>6. IsPage(node') /\ SameSlots(node', node)
    BY <1>1, <1>2, <1>5, UpdateShape, Zenon DEF a
  <1>7. records' \in Seq(RecordsOf(type)) /\ Len(records') = Len(records)
    BY <1>1, <1>2
  <1>8. QED
    BY <1>2, <1>6, <1>7, SameStructure

LEMMA SetChildStructure ==
    ASSUME TypeInv, ChildInv, NEW i \in 1 .. (Len(node.slots) + 1), NEW c \in Children,
           SetChild(i, c)
    PROVE  TypeInv' /\ ChildInv'
  <1> DEFINE N == Len(node.slots)
  <1>1. IsPage(node) /\ N \in Nat
    BY SlotSpaceFacts DEF TypeInv
  <1>2. /\ type = "branch" /\ node' = SetLeftChild(node, i, c)
        /\ children' = [children EXCEPT ![i] = c]
        /\ type' = type /\ records' = records
    BY DEF SetChild
  <1>3. /\ IsPage(node') /\ Len(node'.slots) = N
        /\ \A j \in 1 .. (N + 1) : ChildAt(node', j) = IF j = i THEN c ELSE ChildAt(node, j)
    <2>1. c \in Children \cup {NoChild}
      OBVIOUS
    <2>2. IsPage(node') /\ ChildReplaced(node', node, i, c)
      BY <1>1, <1>2, <2>1, SetLeftChildFacts
    <2>3. QED
      BY <2>2 DEF ChildReplaced
  <1>4. /\ children \in Seq(Children) /\ Len(children) = N + 1
        /\ \A j \in 1 .. (N + 1) : children[j] = ChildAt(node, j)
    BY <1>2 DEF ChildInv
  <1>5. /\ children' \in Seq(Children) /\ Len(children') = N + 1
        /\ \A j \in 1 .. (N + 1) : children'[j] = IF j = i THEN c ELSE children[j]
    BY <1>2, <1>4
  <1>6. QED
    BY <1>2, <1>3, <1>4, <1>5 DEF TypeInv, ChildInv

LEMMA UpdateFailsStructure ==
    ASSUME TypeInv, NEW i \in 1 .. (Len(node.slots) + 1), NEW r, UpdateFails(i, r)
    PROVE  UNCHANGED vars
  <1>1. i <= Len(node.slots) /\ IsPage(node) /\ Len(node.slots) \in Nat
    BY SlotSpaceFacts DEF UpdateFails, TypeInv
  <1>2. i \in 1 .. Len(node.slots)
    BY <1>1
  <1>3. node' = RestoreRecord(DeleteRecord(node, i), i, node.slots[i])
    BY DEF UpdateFails
  <1>4. node' = node
    BY <1>1, <1>2, <1>3, RestoreRecordFacts
  <1>5. QED
    BY <1>4 DEF UpdateFails, vars

LEMMA StructureUnchanged ==
    ASSUME TypeInv, ChildInv, UNCHANGED <<type, node, records, children>>
    PROVE  TypeInv' /\ ChildInv'
  BY DEF TypeInv, ChildInv

LEMMA StructureStep ==
    ASSUME TypeInv, ChildInv, [Next]_vars
    PROVE  TypeInv' /\ ChildInv'
  <1>1. CASE UNCHANGED vars
    BY <1>1, StructureUnchanged DEF vars
  <1>2. CASE Next
    <2>1. PICK i \in 1 .. (Len(node.slots) + 1) :
             \/ \E r \in RecordsOf(type) :
                   \/ \E c \in IF type = "leaf" THEN {NoChild} ELSE Children,
                         right \in IF type = "leaf" THEN {FALSE} ELSE BOOLEAN :
                            Insert(i, r, c, right)
                   \/ Update(i, r)
                   \/ UpdateFails(i, r)
                   \/ InsertAborts(r)
                   \/ UpdateAborts(i, r)
             \/ \E right \in IF type = "leaf" THEN {FALSE} ELSE BOOLEAN : Delete(i, right)
             \/ \E c \in Children : SetChild(i, c)
      BY <1>2, Zenon DEF Next
    <2>2. ASSUME NEW r \in RecordsOf(type), NEW c \in IF type = "leaf" THEN {NoChild} ELSE Children,
                 NEW right \in IF type = "leaf" THEN {FALSE} ELSE BOOLEAN,
                 Insert(i, r, c, right)
          PROVE  TypeInv' /\ ChildInv'
      <3>1. c \in Children \cup {NoChild} /\ right \in BOOLEAN /\ (c = NoChild <=> type = "leaf")
        BY ConstantFacts
      <3>2. QED
        BY <2>2, <3>1, InsertStructure
    <2>3. ASSUME NEW r \in RecordsOf(type), Update(i, r)
          PROVE  TypeInv' /\ ChildInv'
      BY <2>3, UpdateStructure
    <2>4. ASSUME NEW r \in RecordsOf(type), UpdateFails(i, r)
          PROVE  TypeInv' /\ ChildInv'
      BY <2>4, UpdateFailsStructure, StructureUnchanged DEF vars
    <2>5. ASSUME NEW right \in IF type = "leaf" THEN {FALSE} ELSE BOOLEAN, Delete(i, right)
          PROVE  TypeInv' /\ ChildInv'
      BY <2>5, DeleteStructure
    <2>6. ASSUME NEW c \in Children, SetChild(i, c)
          PROVE  TypeInv' /\ ChildInv'
      BY <2>6, SetChildStructure
    <2>7. ASSUME NEW r \in RecordsOf(type), InsertAborts(r) \/ UpdateAborts(i, r)
          PROVE  TypeInv' /\ ChildInv'
      <3>1. UNCHANGED <<type, node, records, children>>
        BY <2>7 DEF InsertAborts, UpdateAborts
      <3>2. QED
        BY <3>1, StructureUnchanged
    <2>8. QED
      BY <2>1, <2>2, <2>3, <2>4, <2>5, <2>6, <2>7
  <1>3. QED
    BY <1>1, <1>2

\* The children of a page stay in their order: whatever slots BranchNode::Insert
\* and Delete put in and take out, on the left or on the right of a key, whatever
\* SetLeftChild and SetTailChild change and whether Update succeeds or restores
\* the record, left_child of the slots and tail_child are the sequence of children
\* a branch should have, and a leaf has none.
THEOREM ChildrenInOrderHolds == Spec => []ChildrenInOrder
  <1>1. Init => TypeInv /\ ChildInv
    BY StructureInit
  <1>2. TypeInv /\ ChildInv /\ [Next]_vars => (TypeInv /\ ChildInv)'
    BY StructureStep
  <1>3. TypeInv /\ ChildInv => ChildrenInOrder
    <2> SUFFICES ASSUME TypeInv, ChildInv
                 PROVE  ChildrenInOrder
      OBVIOUS
    <2> DEFINE N == Len(node.slots)
               f == [i \in 1 .. (N + 1) |-> IF i <= N THEN node.slots[i].left_child
                                             ELSE node.tail_child]
    <2>1. N \in Nat /\ type \in {"leaf", "branch"}
      BY SlotSpaceFacts DEF TypeInv
    <2>2. f = [i \in 1 .. (N + 1) |-> ChildAt(node, i)]
      BY DEF ChildAt
    <2>3. CASE type = "branch"
      <3>1. /\ children \in Seq(Children) /\ Len(children) = N + 1
            /\ \A j \in 1 .. (N + 1) : children[j] = ChildAt(node, j)
        BY <2>3 DEF ChildInv
      <3> HIDE DEF N
      <3>2. children = [i \in 1 .. (N + 1) |-> ChildAt(node, i)]
        BY <2>1, <3>1
      <3>3. QED
        BY <2>2, <2>3, <3>2 DEF ChildrenInOrder, N
    <2>4. CASE type = "leaf"
      <3>1. \A j \in 1 .. (N + 1) : ChildAt(node, j) = NoChild
        BY <2>4 DEF ChildInv
      <3>2. f = [i \in 1 .. (N + 1) |-> NoChild]
        BY <2>2, <3>1
      <3>3. QED
        BY <2>4, <3>2 DEF ChildrenInOrder
    <2>5. QED
      BY <2>1, <2>3, <2>4
  <1>4. QED
    BY <1>1, <1>2, <1>3, PTL DEF Spec

-----------------------------------------------------------------------------
(* The records in their places.                                             *)

\* Slot j of m leads to the record that slot i of n leads to.
Carries(m, j, n, i) ==
    /\ SameRecord(m.slots[j], n.slots[i])
    /\ \A h : Reads(n, i, h) => Reads(m, j, h)

\* Slot i leads to r, which was stored last.
Stored(m, i, r) ==
    /\ m.slots[i].key_size = r.key_size
    /\ m.slots[i].value_size = r.value_size
    /\ m.slots[i].is_overflow = ~IsInline(Size(r))
    /\ Reads(m, i, IF IsInline(Size(r)) THEN r.tag ELSE NewPage)

LEMMA SamePlaceFacts ==
    ASSUME NEW a, NEW b, SamePlace(a, b)
    PROVE  SlotRecordSize(a) = SlotRecordSize(b) /\ a.record_offset = b.record_offset
  BY DEF SamePlace, SameRecord, SlotRecordSize, Size

LEMMA SamePlaceCarries ==
    ASSUME NEW m, NEW n, NEW i, NEW j, SamePlace(m.slots[j], n.slots[i]), m.mem = n.mem
    PROVE  Carries(m, j, n, i)
  <1>1. SlotRecordSize(m.slots[j]) = SlotRecordSize(n.slots[i])
        /\ m.slots[j].record_offset = n.slots[i].record_offset
    BY SamePlaceFacts
  <1>2. \A h : Reads(n, i, h) => Reads(m, j, h)
    BY <1>1 DEF Reads
  <1>3. QED
    BY <1>2 DEF Carries, SamePlace

LEMMA CarriesTrans ==
    ASSUME NEW l, NEW m, NEW n, NEW i, NEW j, NEW k, Carries(l, k, m, j), Carries(m, j, n, i)
    PROVE  Carries(l, k, n, i)
  BY DEF Carries, SameRecord

\* Records stay apart if every slot with a record has it where a slot of its
\* own had it before.
LEMMA PlacesKept ==
    ASSUME NEW m, NEW n, InPage(n), Apart(n), m.data_offset = n.data_offset,
           NEW f,
           \A j \in 1 .. Len(m.slots) :
              \/ SlotRecordSize(m.slots[j]) = 0
              \/ f[j] \in 1 .. Len(n.slots) /\ SamePlace(m.slots[j], n.slots[f[j]]),
           \A j, k \in 1 .. Len(m.slots) :
              j # k /\ SlotRecordSize(m.slots[j]) # 0 /\ SlotRecordSize(m.slots[k]) # 0 => f[j] # f[k]
    PROVE  InPage(m) /\ Apart(m)
  <1>1. ASSUME NEW j \in 1 .. Len(m.slots), SlotRecordSize(m.slots[j]) > 0
        PROVE  /\ f[j] \in 1 .. Len(n.slots)
               /\ SlotRecordSize(m.slots[j]) = SlotRecordSize(n.slots[f[j]])
               /\ m.slots[j].record_offset = n.slots[f[j]].record_offset
    <2>1. SlotRecordSize(m.slots[j]) # 0
      BY <1>1
    <2>2. f[j] \in 1 .. Len(n.slots) /\ SamePlace(m.slots[j], n.slots[f[j]])
      BY <2>1
    <2>3. QED
      BY <2>2, SamePlaceFacts
  <1>2. InPage(m)
    BY <1>1 DEF InPage
  <1>3. Apart(m)
    <2> SUFFICES ASSUME NEW j \in 1 .. Len(m.slots), NEW k \in 1 .. Len(m.slots), j # k,
                        SlotRecordSize(m.slots[j]) > 0, SlotRecordSize(m.slots[k]) > 0
                 PROVE  \/ m.slots[j].record_offset + SlotRecordSize(m.slots[j])
                              <= m.slots[k].record_offset
                        \/ m.slots[k].record_offset + SlotRecordSize(m.slots[k])
                              <= m.slots[j].record_offset
      BY DEF Apart
    <2>1. f[j] # f[k]
      OBVIOUS
    <2>2. QED
      BY <1>1, <2>1 DEF Apart
  <1>4. QED
    BY <1>2, <1>3

\* InsertSlot makes room for a slot and leaves the records where they are.
LEMMA InsertSlotPlaced ==
    ASSUME NEW n, Placed(n), NEW i \in 1 .. (Len(n.slots) + 1),
           NEW m, IsPage(m), SameData(m, n), SlotInserted(m, n, i)
    PROVE  /\ Placed(m)
           /\ SlotSpace(m) = SlotSpace(n) + SlotSize
           /\ Exact(n) => ExactBut(m, i)
  <1> DEFINE N == Len(n.slots)
             f == [j \in 1 .. (N + 1) |-> IF j < i THEN j ELSE j - 1]
             s == SlotSizes(n.slots)
             t == SlotSizes(m.slots)
  <1>1. IsPage(n) /\ N \in Nat /\ n.slots \in Seq(Slot) /\ m.slots \in Seq(Slot)
        /\ InPage(n) /\ Apart(n) /\ n.data_offset <= PageSize
        /\ n.data_offset + Total(s) <= PageSize /\ n.space_used \in Int
    BY SlotSpaceFacts DEF Placed, IsPage, RecordSpace
  <1>2. /\ Len(m.slots) = N + 1 /\ SlotRecordSize(m.slots[i]) = 0
        /\ \A j \in 1 .. (N + 1) : /\ j < i => SamePlace(m.slots[j], n.slots[j])
                                   /\ j > i => SamePlace(m.slots[j], n.slots[j - 1])
    BY DEF SlotInserted
  <1>3. m.data_offset = n.data_offset /\ m.space_used = n.space_used
    BY DEF SameData
  <1>4. i \in 1 .. (N + 1)
    OBVIOUS
  <1> HIDE DEF N
  <1>5. ASSUME NEW j \in 1 .. (N + 1)
        PROVE  /\ SlotRecordSize(m.slots[j]) # 0 => j # i
               /\ j # i => f[j] \in 1 .. N /\ SamePlace(m.slots[j], n.slots[f[j]])
    <2>1. SlotRecordSize(m.slots[j]) # 0 => j # i
      BY <1>2
    <2>2. CASE j < i
      BY <1>1, <1>2, <1>4, <2>1, <2>2
    <2>3. CASE j > i
      BY <1>1, <1>2, <1>4, <2>1, <2>3
    <2>4. QED
      BY <1>1, <1>4, <2>1, <2>2, <2>3
  <1>6. ASSUME NEW j \in 1 .. (N + 1), NEW k \in 1 .. (N + 1), j # i, k # i, j # k
        PROVE  f[j] # f[k]
    BY <1>1, <1>4, <1>6
  <1> HIDE DEF f
  <1>7. InPage(m) /\ Apart(m)
    <2>1. \A j \in 1 .. Len(m.slots) :
             \/ SlotRecordSize(m.slots[j]) = 0
             \/ f[j] \in 1 .. Len(n.slots) /\ SamePlace(m.slots[j], n.slots[f[j]])
      BY <1>2, <1>5 DEF N
    <2>2. \A j, k \in 1 .. Len(m.slots) :
             j # k /\ SlotRecordSize(m.slots[j]) # 0 /\ SlotRecordSize(m.slots[k]) # 0
                => f[j] # f[k]
      BY <1>2, <1>5, <1>6
    <2>3. QED
      BY <1>1, <1>3, <2>1, <2>2, PlacesKept
  <1>8. Total(t) = Total(s) /\ Total(s) \in Nat
    <2>1. /\ s \in Seq(Nat) /\ Len(s) = N
          /\ \A j \in 1 .. N : s[j] = SlotRecordSize(n.slots[j])
      BY <1>1, SlotSizesFacts DEF N
    <2>2. /\ t \in Seq(Nat) /\ Len(t) = N + 1
          /\ \A j \in 1 .. (N + 1) : t[j] = SlotRecordSize(m.slots[j])
      BY <1>1, <1>2, SlotSizesFacts
    <2> HIDE DEF s, t
    <2>3. \A j \in 1 .. Len(t) : j < i => t[j] = s[j]
      BY <1>1, <1>2, <1>4, <2>1, <2>2, SamePlaceFacts
    <2>4. \A j \in 1 .. Len(t) : j > i => t[j] = s[j - 1]
      <3>1. ASSUME NEW j \in 1 .. (N + 1), j > i
            PROVE  t[j] = s[j - 1]
        <4>1. j - 1 \in 1 .. N
          BY <1>1, <1>4, <3>1
        <4>2. SlotRecordSize(m.slots[j]) = SlotRecordSize(n.slots[j - 1])
          BY <1>2, <3>1, SamePlaceFacts
        <4>3. QED
          BY <2>1, <2>2, <4>1, <4>2
      <3>2. QED
        BY <2>2, <3>1
    <2>5. i \in 1 .. Len(t) /\ Len(t) = Len(s) + 1
      BY <1>4, <2>1, <2>2
    <2>6. Total(t) = Total(s) + t[i]
      BY <2>1, <2>2, <2>3, <2>4, <2>5, TotalInsert
    <2>7. t[i] = 0 /\ Total(s) \in Nat
      BY <1>2, <1>4, <2>1, <2>2, TotalNat
    <2>8. QED
      BY <2>6, <2>7
  <1>9. Placed(m)
    BY <1>1, <1>3, <1>7, <1>8 DEF Placed, RecordSpace
  <1>10. SlotSpace(m) = SlotSpace(n) + SlotSize
    BY <1>1, <1>2, ConstantFacts DEF SlotSpace, N
  <1>11. Exact(n) => ExactBut(m, i)
    <2> HIDE DEF s, t
    <2>1. Total(t) - 0 = Total(s)
      BY <1>8
    <2>2. QED
      BY <1>2, <1>3, <2>1 DEF Exact, ExactBut, RecordSpace, s, t
  <1>12. QED
    BY <1>9, <1>10, <1>11

\* DeleteSlot, after the record's space was taken off space_used.
LEMMA DeleteSlotPlaced ==
    ASSUME NEW n, Placed(n), NEW i \in 1 .. Len(n.slots),
           NEW m, IsPage(m), m.data_offset = n.data_offset,
           m.space_used = n.space_used - SlotRecordSize(n.slots[i]), SlotRemoved(m, n, i)
    PROVE  /\ Placed(m)
           /\ SlotSpace(m) <= SlotSpace(n)
           /\ Exact(n) => Exact(m)
  <1> DEFINE N == Len(n.slots)
             f == [j \in 1 .. (N - 1) |-> IF j < i THEN j ELSE j + 1]
             s == SlotSizes(m.slots)
             t == SlotSizes(n.slots)
  <1>1. IsPage(n) /\ N \in Nat /\ n.slots \in Seq(Slot) /\ m.slots \in Seq(Slot)
        /\ InPage(n) /\ Apart(n) /\ n.data_offset <= PageSize /\ n.data_offset \in Int
        /\ n.data_offset + Total(t) <= PageSize
    BY SlotSpaceFacts DEF Placed, IsPage, RecordSpace
  <1>2. /\ Len(m.slots) = N - 1
        /\ \A j \in 1 .. (N - 1) : SamePlace(m.slots[j], n.slots[f[j]])
    BY DEF SlotRemoved
  <1>3. i \in 1 .. N
    OBVIOUS
  <1> HIDE DEF N
  <1>4. \A j \in 1 .. (N - 1) : f[j] \in 1 .. N
    BY <1>1, <1>3
  <1>5. \A j, k \in 1 .. (N - 1) : j # k => f[j] # f[k]
    BY <1>1, <1>3
  <1>6. InPage(m) /\ Apart(m)
    <2> HIDE DEF f
    <2>1. \A j \in 1 .. Len(m.slots) :
             \/ SlotRecordSize(m.slots[j]) = 0
             \/ f[j] \in 1 .. Len(n.slots) /\ SamePlace(m.slots[j], n.slots[f[j]])
      BY <1>2, <1>4 DEF N
    <2>2. \A j, k \in 1 .. Len(m.slots) :
             j # k /\ SlotRecordSize(m.slots[j]) # 0 /\ SlotRecordSize(m.slots[k]) # 0
                => f[j] # f[k]
      BY <1>2, <1>5
    <2>3. QED
      BY <1>1, <2>1, <2>2, PlacesKept
  <1>7. m.data_offset + Total(s) <= PageSize /\ (n.space_used = Total(t) => m.space_used = Total(s))
    <2>1. /\ t \in Seq(Nat) /\ Len(t) = N
          /\ \A j \in 1 .. N : t[j] = SlotRecordSize(n.slots[j])
      BY <1>1, SlotSizesFacts DEF N
    <2>2. /\ s \in Seq(Nat) /\ Len(s) = N - 1
          /\ \A j \in 1 .. (N - 1) : s[j] = SlotRecordSize(m.slots[j])
      BY <1>1, <1>2, SlotSizesFacts
    <2>3. \A j \in 1 .. (N - 1) : s[j] = t[f[j]]
      <3> HIDE DEF s, t, f
      <3>1. ASSUME NEW j \in 1 .. (N - 1)
            PROVE  SlotRecordSize(m.slots[j]) = SlotRecordSize(n.slots[f[j]])
        <4>1. SamePlace(m.slots[j], n.slots[f[j]])
          BY <1>2
        <4>2. QED
          BY <4>1, SamePlaceFacts
      <3>2. QED
        BY <1>4, <2>1, <2>2, <3>1
    <2> HIDE DEF s, t
    <2>4. \A j \in 1 .. Len(t) : j < i => t[j] = s[j]
      BY <1>1, <1>3, <2>1, <2>3
    <2>5. \A j \in 1 .. Len(t) : j > i => t[j] = s[j - 1]
      <3>1. ASSUME NEW j \in 1 .. N, j > i
            PROVE  t[j] = s[j - 1]
        <4>1. j - 1 \in 1 .. (N - 1) /\ f[j - 1] = j
          BY <1>1, <1>3, <3>1
        <4> HIDE DEF f
        <4>2. QED
          BY <2>3, <4>1
      <3>2. QED
        BY <2>1, <3>1
    <2>6. i \in 1 .. Len(t) /\ Len(t) = Len(s) + 1
      BY <1>1, <1>3, <2>1, <2>2
    <2>7. Total(t) = Total(s) + t[i]
      BY <2>1, <2>2, <2>4, <2>5, <2>6, TotalInsert
    <2>8. t[i] \in Nat /\ t[i] = SlotRecordSize(n.slots[i]) /\ Total(s) \in Nat
      BY <1>3, <2>1, <2>2, TotalNat
    <2>9. m.space_used = n.space_used - t[i] /\ m.data_offset = n.data_offset
          /\ n.data_offset + Total(t) <= PageSize /\ n.data_offset \in Int
      BY <1>1, <2>8
    <2>10. QED
      BY <2>7, <2>8, <2>9, ConstantFacts
  <1>8. Placed(m)
    BY <1>1, <1>6, <1>7 DEF Placed, RecordSpace
  <1>9. SlotSpace(m) <= SlotSpace(n)
    BY <1>1, <1>2, ConstantFacts DEF SlotSpace, N
  <1>10. QED
    BY <1>7, <1>8, <1>9 DEF Exact, RecordSpace

\* DeleteRecord takes the space off, and the sizes of a record in the page.
LEMMA DeleteRecordPlaced ==
    ASSUME NEW n, Placed(n), NEW i \in 1 .. Len(n.slots), NEW m, m = DeleteRecord(n, i)
    PROVE  /\ Placed(m)
           /\ Len(m.slots) = Len(n.slots) /\ m.data_offset = n.data_offset
           /\ ~n.slots[i].is_overflow =>
                 ~m.slots[i].is_overflow /\ m.slots[i].key_size = 0 /\ m.slots[i].value_size = 0
           /\ \A j \in 1 .. Len(n.slots) : j # i => Carries(m, j, n, j)
           /\ Exact(n) => ExactBut(m, i)
           /\ Exact(n) /\ ~n.slots[i].is_overflow => Exact(m)
  <1> DEFINE N == Len(n.slots)
             f == [j \in 1 .. N |-> j]
             s == SlotSizes(n.slots)
             t == SlotSizes(m.slots)
  <1>1. IsPage(n) /\ N \in Nat /\ n.slots \in Seq(Slot) /\ n.data_offset \in Int
        /\ InPage(n) /\ Apart(n) /\ n.data_offset <= PageSize
        /\ n.data_offset + Total(s) <= PageSize /\ n.space_used \in Int
    BY SlotSpaceFacts DEF Placed, IsPage, RecordSpace
  <1>2. /\ IsPage(m) /\ SameSlots(m, n)
        /\ m.space_used = n.space_used - SlotRecordSize(n.slots[i])
        /\ m.data_offset = n.data_offset /\ m.mem = n.mem
        /\ \A j \in 1 .. Len(n.slots) : j # i => m.slots[j] = n.slots[j]
        /\ m.slots[i] \in Slot
        /\ m.slots[i].is_overflow = n.slots[i].is_overflow
        /\ ~n.slots[i].is_overflow => m.slots[i].key_size = 0 /\ m.slots[i].value_size = 0
        /\ n.slots[i].is_overflow => m.slots[i] = n.slots[i]
    BY <1>1, DeleteRecordShape
  <1>3. Len(m.slots) = N /\ m.slots \in Seq(Slot)
    BY <1>2 DEF SameSlots, IsPage
  <1>4. \/ ~n.slots[i].is_overflow /\ SlotRecordSize(m.slots[i]) = 0
        \/ n.slots[i].is_overflow /\ m.slots[i] = n.slots[i]
    BY <1>2 DEF SlotRecordSize, Size
  <1>5. \A x : SamePlace(x, x)
    BY DEF SamePlace, SameRecord
  <1>6. InPage(m) /\ Apart(m)
    <2>1. \A j \in 1 .. N : f[j] = j
      OBVIOUS
    <2> HIDE DEF f
    <2>2. \A j \in 1 .. Len(m.slots) :
             \/ SlotRecordSize(m.slots[j]) = 0
             \/ f[j] \in 1 .. Len(n.slots) /\ SamePlace(m.slots[j], n.slots[f[j]])
      BY <1>2, <1>3, <1>4, <1>5, <2>1
    <2>3. \A j, k \in 1 .. Len(m.slots) :
             j # k /\ SlotRecordSize(m.slots[j]) # 0 /\ SlotRecordSize(m.slots[k]) # 0
                => f[j] # f[k]
      BY <1>3, <2>1
    <2>4. m.data_offset = n.data_offset /\ InPage(n) /\ Apart(n)
      BY <1>1, <1>2
    <2>5. QED
      BY <2>2, <2>3, <2>4, PlacesKept
  <1>7. /\ m.data_offset + Total(t) <= PageSize
        /\ n.space_used = Total(s) => m.space_used = Total(t) - SlotRecordSize(m.slots[i])
        /\ n.space_used = Total(s) /\ ~n.slots[i].is_overflow => m.space_used = Total(t)
    <2>1. /\ s \in Seq(Nat) /\ Len(s) = N
          /\ \A j \in 1 .. N : s[j] = SlotRecordSize(n.slots[j])
      BY <1>1, SlotSizesFacts
    <2>2. /\ t \in Seq(Nat) /\ Len(t) = N
          /\ \A j \in 1 .. N : t[j] = SlotRecordSize(m.slots[j])
      BY <1>3, SlotSizesFacts
    <2> HIDE DEF s, t
    <2>3. \A j \in 1 .. Len(t) : j # i => t[j] = s[j]
      BY <1>2, <2>1, <2>2
    <2>4. i \in 1 .. Len(t) /\ Len(t) = Len(s)
      BY <2>1, <2>2
    <2>5. Total(t) = (Total(s) - s[i]) + t[i]
      BY <2>1, <2>2, <2>3, <2>4, TotalUpdate
    <2>6. /\ s[i] = SlotRecordSize(n.slots[i]) /\ s[i] \in Nat /\ Total(s) \in Nat
          /\ t[i] = SlotRecordSize(m.slots[i]) /\ t[i] \in Nat
      BY <2>1, <2>2, TotalNat
    <2>7. /\ t[i] <= s[i]
          /\ ~n.slots[i].is_overflow => t[i] = 0
      BY <1>4, <2>6
    <2>8. m.space_used = n.space_used - s[i] /\ m.data_offset = n.data_offset
          /\ n.data_offset \in Int /\ n.data_offset + Total(s) <= PageSize
      BY <1>1, <1>2, <2>6
    <2>9. m.data_offset + Total(t) <= PageSize
      BY <2>5, <2>6, <2>7, <2>8, ConstantFacts
    <2>10. n.space_used = Total(s) => m.space_used = Total(t) - t[i]
      BY <2>5, <2>6, <2>8
    <2>11. n.space_used = Total(s) /\ ~n.slots[i].is_overflow => m.space_used = Total(t)
      BY <2>5, <2>6, <2>7, <2>8
    <2>12. QED
      BY <2>6, <2>9, <2>10, <2>11
  <1>8. Placed(m)
    BY <1>1, <1>2, <1>6, <1>7 DEF Placed, RecordSpace
  <1>9. \A j \in 1 .. N : j # i => Carries(m, j, n, j)
    <2>1. \A j \in 1 .. N : j # i => SamePlace(m.slots[j], n.slots[j])
      BY <1>2, <1>5
    <2>2. QED
      BY <1>2, <2>1, SamePlaceCarries
  <1>10. /\ Exact(n) => ExactBut(m, i)
         /\ Exact(n) /\ ~n.slots[i].is_overflow => Exact(m)
    BY <1>7 DEF Exact, ExactBut, RecordSpace
  <1>11. QED
    BY <1>2, <1>3, <1>8, <1>9, <1>10

\* m has r in slot i: a slot more than n, or the slot n had.
PutAt(m, n, i, r) ==
    /\ Len(m.slots) = Len(n.slots) + 1
    /\ Stored(m, i, r)
    /\ \A j \in 1 .. (Len(n.slots) + 1) :
          /\ j < i => Carries(m, j, n, j)
          /\ j > i => Carries(m, j, n, j - 1)

ReplacedAt(m, n, i, r) ==
    /\ Len(m.slots) = Len(n.slots)
    /\ Stored(m, i, r)
    /\ \A j \in 1 .. Len(n.slots) : j # i => Carries(m, j, n, j)

\* m has the slots of n without slot i.
TakenAt(m, n, i) ==
    /\ Len(m.slots) = Len(n.slots) - 1
    /\ \A j \in 1 .. (Len(n.slots) - 1) : Carries(m, j, n, IF j < i THEN j ELSE j + 1)

\* The slots do not reach the records.
Roomy(n) == SlotSpace(n) <= n.data_offset

LEMMA SpaceForCarries ==
    ASSUME NEW n, Placed(n), NEW size \in Nat, NEW b \in BOOLEAN, HasSpace(n, size, b),
           AssertionsHold(n, size, b)
    PROVE  LET m == SpaceFor(n, size, b)
           IN  /\ Placed(m)
               /\ Len(m.slots) = Len(n.slots)
               /\ SlotSpace(m) + SpaceNeeded(size, b) <= m.data_offset
               /\ \A j \in 1 .. Len(n.slots) : Carries(m, j, n, j)
               /\ Exact(n) => Exact(m)
               /\ \A i \in 1 .. Len(n.slots) : ExactBut(n, i) => ExactBut(m, i)
  <1> DEFINE m == SpaceFor(n, size, b)
  <1>1. /\ Placed(m)
        /\ SlotSpace(m) + SpaceNeeded(size, b) <= m.data_offset
        /\ m.space_used = n.space_used
        /\ SlotSizes(m.slots) = SlotSizes(n.slots)
        /\ \A j \in 1 .. Len(n.slots) : SameRecord(m.slots[j], n.slots[j])
        /\ \A j \in 1 .. Len(n.slots) : \A h : Reads(n, j, h) => Reads(m, j, h)
    BY SpaceForFacts
  <1>2. Len(m.slots) = Len(n.slots)
    BY SpaceForShape DEF SameSlots, Placed
  <1> HIDE DEF m
  <1>3. \A j \in 1 .. Len(n.slots) : Carries(m, j, n, j)
    BY <1>1 DEF Carries
  <1>4. RecordSpace(m) = RecordSpace(n)
    BY <1>1 DEF RecordSpace
  <1>5. \A j \in 1 .. Len(n.slots) : SlotRecordSize(m.slots[j]) = SlotRecordSize(n.slots[j])
    BY <1>1 DEF SameRecord, SlotRecordSize, Size
  <1>6. QED
    BY <1>1, <1>2, <1>3, <1>4, <1>5 DEF m, Exact, ExactBut

LEMMA StoreRecordStored ==
    ASSUME NEW n, Placed(n), NEW i \in 1 .. Len(n.slots),
           NEW r, r.key_size \in Nat, r.value_size \in Nat,
           SlotSpace(n) + StoredSize(Size(r)) <= n.data_offset
    PROVE  LET m == StoreRecord(n, i, r)
           IN  Placed(m) /\ Roomy(m) /\ ReplacedAt(m, n, i, r) /\ (ExactBut(n, i) => Exact(m))
  <1> DEFINE m == StoreRecord(n, i, r)
             o == n.data_offset - StoredSize(Size(r))
  <1>1. /\ Placed(m)
        /\ SlotSpace(m) <= m.data_offset
        /\ ExactBut(n, i) => Exact(m)
        /\ Reads(m, i, IF IsInline(Size(r)) THEN r.tag ELSE NewPage)
        /\ \A j \in 1 .. Len(n.slots) : \A h : j # i /\ Reads(n, j, h) => Reads(m, j, h)
    BY StoreRecordFacts
  <1>2. /\ SameSlots(m, n)
        /\ \A j \in 1 .. Len(n.slots) : j # i => m.slots[j] = n.slots[j]
        /\ m.slots[i] = StoredSlot(n.slots[i], o, r)
    BY StoreRecordShape DEF Placed
  <1> HIDE DEF m
  <1>3. n.slots[i] \in Slot
    BY DEF Placed, IsPage
  <1>4. /\ m.slots[i].key_size = r.key_size /\ m.slots[i].value_size = r.value_size
        /\ m.slots[i].is_overflow = ~IsInline(Size(r))
    <2> HIDE DEF o
    <2>1. QED
      BY <1>2, <1>3 DEF StoredSlot, Slot
  <1>5. Stored(m, i, r)
    BY <1>1, <1>4 DEF Stored
  <1>6. \A j \in 1 .. Len(n.slots) : j # i => Carries(m, j, n, j)
    BY <1>1, <1>2 DEF Carries, SameRecord
  <1>7. QED
    BY <1>1, <1>2, <1>5, <1>6 DEF m, Roomy, ReplacedAt, SameSlots

\* Insert stores the record and keeps the others, if HasSpace says that it fits.
LEMMA InsertPlaced ==
    ASSUME NEW n, Placed(n), NEW i \in 1 .. (Len(n.slots) + 1), NEW t, NEW r \in RecordsOf(t),
           NEW c \in Children \cup {NoChild}, NEW right \in BOOLEAN, HasSpace(n, Size(r), TRUE),
           AssertionsHold(n, Size(r), TRUE)
    PROVE  LET m == StoreRecord(InsertSlot(SpaceFor(n, Size(r), TRUE), i, c, right), i, r)
           IN  Placed(m) /\ Roomy(m) /\ PutAt(m, n, i, r) /\ (Exact(n) => Exact(m))
  <1> DEFINE a == SpaceFor(n, Size(r), TRUE)
             b == InsertSlot(a, i, c, right)
             m == StoreRecord(b, i, r)
             N == Len(n.slots)
  <1>1. N \in Nat /\ r.key_size \in Nat /\ r.value_size \in Nat /\ Size(r) \in Nat
        /\ StoredSize(Size(r)) \in Nat
        /\ SpaceNeeded(Size(r), TRUE) = StoredSize(Size(r)) + SlotSize /\ SlotSize \in Nat
    BY SlotSpaceFacts, RecordFacts, SizeFacts, ConstantFacts DEF Placed
  <1>2. /\ Placed(a) /\ Len(a.slots) = N
        /\ SlotSpace(a) + SpaceNeeded(Size(r), TRUE) <= a.data_offset
        /\ \A j \in 1 .. N : Carries(a, j, n, j)
        /\ Exact(n) => Exact(a)
    BY <1>1, SpaceForCarries
  <1> HIDE DEF a
  <1>3. IsPage(a) /\ i \in 1 .. (Len(a.slots) + 1)
    BY <1>2 DEF Placed
  <1>4. IsPage(b) /\ SameData(b, a) /\ SlotInserted(b, a, i)
    BY <1>3, InsertSlotFacts
  <1> HIDE DEF b
  <1>5. Placed(b) /\ SlotSpace(b) = SlotSpace(a) + SlotSize /\ (Exact(a) => ExactBut(b, i))
    BY <1>2, <1>3, <1>4, InsertSlotPlaced
  <1>6. /\ Len(b.slots) = N + 1 /\ SlotRecordSize(b.slots[i]) = 0
        /\ b.data_offset = a.data_offset /\ b.mem = a.mem
        /\ \A j \in 1 .. (N + 1) : /\ j < i => SamePlace(b.slots[j], a.slots[j])
                                   /\ j > i => SamePlace(b.slots[j], a.slots[j - 1])
    BY <1>2, <1>4 DEF SlotInserted, SameData
  <1>7. Placed(m) /\ Roomy(m) /\ ReplacedAt(m, b, i, r) /\ (ExactBut(b, i) => Exact(m))
    <2>1. i \in 1 .. Len(b.slots)
      BY <1>1, <1>6
    <2>2. SlotSpace(a) \in Nat /\ a.data_offset \in Int
      BY <1>3, SlotSpaceFacts DEF IsPage
    <2>3. SlotSpace(b) + StoredSize(Size(r)) <= b.data_offset
      <3>1. SlotSpace(a) + (StoredSize(Size(r)) + SlotSize) <= a.data_offset
        BY <1>1, <1>2, Zenon
      <3>2. SlotSize \in Nat /\ StoredSize(Size(r)) \in Nat /\ b.data_offset = a.data_offset
            /\ SlotSpace(b) = SlotSpace(a) + SlotSize
        BY <1>1, <1>5, <1>6
      <3>3. QED
        BY <2>2, <3>1, <3>2
    <2>4. QED
      BY <1>1, <1>5, <2>1, <2>3, StoreRecordStored
  <1> HIDE DEF m
  <1>8. /\ Stored(m, i, r) /\ Len(m.slots) = N + 1
        /\ \A j \in 1 .. (N + 1) : j # i => Carries(m, j, b, j)
    BY <1>6, <1>7 DEF ReplacedAt
  <1>9. i \in 1 .. (N + 1)
    OBVIOUS
  <1> HIDE DEF N
  <1>10. ASSUME NEW j \in 1 .. (N + 1), j < i
         PROVE  Carries(m, j, n, j)
    <2>1. j \in 1 .. N /\ j # i
      BY <1>1, <1>9, <1>10
    <2>2. Carries(b, j, a, j)
      BY <1>6, <1>10, SamePlaceCarries
    <2>3. Carries(m, j, b, j) /\ Carries(a, j, n, j)
      BY <1>2, <1>8, <2>1
    <2>4. QED
      BY <2>2, <2>3, CarriesTrans
  <1>11. ASSUME NEW j \in 1 .. (N + 1), j > i
         PROVE  Carries(m, j, n, j - 1)
    <2>1. j - 1 \in 1 .. N /\ j # i
      BY <1>1, <1>9, <1>11
    <2>2. Carries(b, j, a, j - 1)
      BY <1>6, <1>11, SamePlaceCarries
    <2>3. Carries(m, j, b, j) /\ Carries(a, j - 1, n, j - 1)
      BY <1>2, <1>8, <2>1
    <2>4. QED
      BY <2>2, <2>3, CarriesTrans
  <1>12. PutAt(m, n, i, r)
    BY <1>8, <1>10, <1>11 DEF PutAt, N
  <1>13. QED
    BY <1>2, <1>5, <1>7, <1>12 DEF m, b, a

\* x is taken off space_used, as in Update: the records are where they were.
SpaceTaken(b, a, x) == b = [a EXCEPT !.space_used = @ - x]

LEMMA SpaceUsedOnly ==
    ASSUME NEW a, Placed(a), NEW i \in 1 .. Len(a.slots), NEW x \in Nat,
           NEW b, SpaceTaken(b, a, x)
    PROVE  /\ Placed(b) /\ Len(b.slots) = Len(a.slots) /\ b.data_offset = a.data_offset
           /\ SlotSpace(b) = SlotSpace(a)
           /\ \A j : Carries(b, j, a, j)
           /\ x = 0 /\ ExactBut(a, i) => ExactBut(b, i)
  <1>1. IsPage(a) /\ a.space_used \in Int
    BY DEF Placed, IsPage
  <1>2. a.space_used - x \in Int /\ (x = 0 => a.space_used - x = a.space_used)
    BY <1>1
  <1>3. /\ IsPage(b) /\ b.slots = a.slots /\ b.data_offset = a.data_offset /\ b.mem = a.mem
        /\ b.space_used = a.space_used - x
    BY <1>1, <1>2 DEF IsPage, SpaceTaken
  <1>4. Placed(b)
    BY <1>3 DEF Placed, InPage, Apart, RecordSpace
  <1>5. \A j : SamePlace(b.slots[j], a.slots[j])
    BY <1>3 DEF SamePlace, SameRecord
  <1>6. x = 0 /\ ExactBut(a, i) => ExactBut(b, i)
    BY <1>2, <1>3 DEF ExactBut, RecordSpace
  <1>7. QED
    BY <1>3, <1>4, <1>5, <1>6, SamePlaceCarries DEF SlotSpace

\* Update stores the new record and keeps the others.  space_used stays right,
\* unless x, the key size that a branch takes off, is that of an overflow record.
LEMMA UpdatePlaced ==
    ASSUME NEW n, Placed(n), NEW i \in 1 .. Len(n.slots), NEW t, NEW r \in RecordsOf(t),
           NEW d, d = DeleteRecord(n, i), HasSpace(d, Size(r), FALSE),
           AssertionsHold(d, Size(r), FALSE),
           NEW a, a = SpaceFor(d, Size(r), FALSE),
           NEW x, x = a.slots[i].key_size \/ x = 0,
           NEW b, SpaceTaken(b, a, x), NEW m, m = StoreRecord(b, i, r)
    PROVE  /\ Placed(m) /\ Roomy(m) /\ ReplacedAt(m, n, i, r)
           /\ Exact(n) /\ (x = 0 \/ ~n.slots[i].is_overflow) => Exact(m)
  <1> DEFINE N == Len(n.slots)
  <1>1. N \in Nat /\ r.key_size \in Nat /\ r.value_size \in Nat /\ Size(r) \in Nat
        /\ StoredSize(Size(r)) \in Nat
        /\ SpaceNeeded(Size(r), FALSE) = StoredSize(Size(r))
    BY SlotSpaceFacts, RecordFacts, SizeFacts DEF Placed
  <1>2. /\ Placed(d) /\ Len(d.slots) = N
        /\ ~n.slots[i].is_overflow => d.slots[i].key_size = 0
        /\ \A j \in 1 .. N : j # i => Carries(d, j, n, j)
        /\ Exact(n) => ExactBut(d, i)
    BY DeleteRecordPlaced
  <1>3. /\ Placed(a) /\ Len(a.slots) = N
        /\ SlotSpace(a) + SpaceNeeded(Size(r), FALSE) <= a.data_offset
        /\ \A j \in 1 .. N : Carries(a, j, d, j)
        /\ \A j \in 1 .. N : ExactBut(d, j) => ExactBut(a, j)
    <2> HIDE DEF N
    <2>1. Size(r) \in Nat /\ Placed(d) /\ Len(d.slots) = N
      BY <1>1, <1>2
    <2>2. QED
      BY <2>1, SpaceForCarries
  <1>4. i \in 1 .. Len(a.slots)
    BY <1>3, Zenon
  <1>5. x \in Nat /\ (x = 0 \/ ~n.slots[i].is_overflow => x = 0)
    <2>1. a.slots[i].key_size \in Nat
      <3>1. a.slots \in Seq(Slot)
        BY <1>3, Zenon DEF Placed, IsPage
      <3>2. QED
        BY <1>4, <3>1, SlotSizesFacts, SlotFacts, Zenon
    <2>2. a.slots[i].key_size = d.slots[i].key_size
      BY <1>3 DEF Carries, SameRecord
    <2>3. x \in Nat
      <3>1. 0 \in Nat
        OBVIOUS
      <3>2. QED
        BY <2>1, <3>1, Zenon
    <2>4. ~n.slots[i].is_overflow => x = 0
      BY <1>2, <2>2
    <2>5. QED
      BY <2>3, <2>4
  <1>6. /\ Placed(b) /\ Len(b.slots) = N /\ b.data_offset = a.data_offset
        /\ SlotSpace(b) = SlotSpace(a)
        /\ \A j : Carries(b, j, a, j)
        /\ x = 0 /\ ExactBut(a, i) => ExactBut(b, i)
    <2>1. Placed(a) /\ x \in Nat /\ Len(a.slots) = N
      BY <1>3, <1>5, Zenon
    <2> HIDE DEF N
    <2>2. /\ Placed(b) /\ Len(b.slots) = Len(a.slots) /\ b.data_offset = a.data_offset
          /\ SlotSpace(b) = SlotSpace(a)
          /\ \A j : Carries(b, j, a, j)
          /\ x = 0 /\ ExactBut(a, i) => ExactBut(b, i)
      BY <1>4, <2>1, SpaceUsedOnly, Zenon
    <2>3. QED
      BY <2>1, <2>2, Zenon
  <1>7. Placed(m) /\ Roomy(m) /\ ReplacedAt(m, b, i, r) /\ (ExactBut(b, i) => Exact(m))
    <2>1. i \in 1 .. Len(b.slots)
      BY <1>6, Zenon
    <2>2. SlotSpace(b) + StoredSize(Size(r)) <= b.data_offset
      BY <1>1, <1>3, <1>6, Zenon
    <2>3. Placed(b) /\ r.key_size \in Nat /\ r.value_size \in Nat
      BY <1>1, <1>6
    <2>4. QED
      BY <2>1, <2>2, <2>3, StoreRecordStored
  <1>8. ASSUME NEW j \in 1 .. N, j # i
        PROVE  Carries(m, j, n, j)
    <2>1. Carries(m, j, b, j)
      BY <1>6, <1>7, <1>8 DEF ReplacedAt
    <2>2. Carries(b, j, a, j) /\ Carries(a, j, d, j) /\ Carries(d, j, n, j)
      BY <1>2, <1>3, <1>6, <1>8
    <2>3. Carries(a, j, n, j)
      BY <2>2, CarriesTrans
    <2>4. Carries(b, j, n, j)
      BY <2>2, <2>3, CarriesTrans
    <2>5. QED
      BY <2>1, <2>4, CarriesTrans
  <1>9. QED
    BY <1>2, <1>3, <1>5, <1>6, <1>7, <1>8 DEF ReplacedAt

LEMMA DeletePlaced ==
    ASSUME NEW n, Placed(n), Roomy(n), NEW i \in 1 .. Len(n.slots), NEW right \in BOOLEAN,
           NEW a, a = [n EXCEPT !.space_used = @ - SlotRecordSize(n.slots[i])],
           NEW m, m = DeleteSlot(a, i, right)
    PROVE  Placed(m) /\ Roomy(m) /\ TakenAt(m, n, i) /\ (Exact(n) => Exact(m))
  <1> DEFINE N == Len(n.slots)
  <1>1. /\ a.data_offset = n.data_offset /\ a.mem = n.mem
        /\ a.space_used = n.space_used - SlotRecordSize(n.slots[i])
        /\ IsPage(m) /\ SameData(m, a) /\ SlotRemoved(m, n, i)
    <2>1. IsPage(n)
      BY DEF Placed
    <2>2. QED
      BY <2>1, DeleteShape
  <1>2. /\ m.data_offset = n.data_offset /\ m.mem = n.mem
        /\ m.space_used = n.space_used - SlotRecordSize(n.slots[i])
    BY <1>1 DEF SameData
  <1>3. Placed(m) /\ SlotSpace(m) <= SlotSpace(n) /\ (Exact(n) => Exact(m))
    BY <1>1, <1>2, DeleteSlotPlaced
  <1>4. Roomy(m)
    <2>1. SlotSpace(m) \in Nat /\ SlotSpace(n) \in Nat /\ n.data_offset \in Int
      BY <1>3, SlotSpaceFacts DEF Placed, IsPage
    <2>2. QED
      BY <1>2, <1>3, <2>1 DEF Roomy
  <1>5. TakenAt(m, n, i)
    <2>1. ASSUME NEW j \in 1 .. (N - 1)
          PROVE  Carries(m, j, n, IF j < i THEN j ELSE j + 1)
      <3>1. SamePlace(m.slots[j], n.slots[IF j < i THEN j ELSE j + 1])
        BY <1>1 DEF SlotRemoved
      <3>2. QED
        BY <1>2, <3>1, SamePlaceCarries
    <2>2. QED
      BY <1>1, <2>1 DEF TakenAt, SlotRemoved
  <1>6. QED
    BY <1>3, <1>4, <1>5

-----------------------------------------------------------------------------
(* The records the slots lead to.  hs has the first component of what slot j *)
(* reads at hs[j]: the record's tag, or the number of its overflow page.     *)

Inline(r) == IsInline(Size(r))

Leads(n, j, r, h) ==
    /\ n.slots[j].key_size = r.key_size
    /\ n.slots[j].value_size = r.value_size
    /\ n.slots[j].is_overflow = ~Inline(r)
    /\ Reads(n, j, h)

Refers(r, h, ov) == IF Inline(r) THEN h = r.tag ELSE h \in DOMAIN ov /\ ov[h] = r

\* Every slot leads to its record, and every overflow page belongs to one slot or
\* is lost, but not both.
Accounted(n, recs, ov, hs, ls) ==
    /\ \A j \in 1 .. Len(recs) : Leads(n, j, recs[j], hs[j]) /\ Refers(recs[j], hs[j], ov)
    /\ \A j, k \in 1 .. Len(recs) : ~Inline(recs[j]) /\ ~Inline(recs[k]) /\ hs[j] = hs[k] => j = k
    /\ \A p \in DOMAIN ov : p \in ls \/ \E j \in 1 .. Len(recs) : ~Inline(recs[j]) /\ hs[j] = p
    /\ \A p \in ls : p \in DOMAIN ov

NotLost(recs, hs, ls) == \A j \in 1 .. Len(recs) : ~Inline(recs[j]) => hs[j] \notin ls

\* f maps the slots but the new one, x, to the slots before but the old one, y.
IndexMap(f, x, y, M, N) ==
    /\ \A j \in 1 .. M : j # x => f[j] \in 1 .. N /\ f[j] # y
    /\ \A j, k \in 1 .. M : j # x /\ k # x /\ f[j] = f[k] => j = k
    /\ \A l \in 1 .. N : l # y => \E j \in 1 .. M : j # x /\ f[j] = l

Kept(m, rs, n, recs, f, x) ==
    \A j \in 1 .. Len(rs) : j # x => rs[j] = recs[f[j]] /\ Carries(m, j, n, f[j])

Fresh(m, rs, ov, pv, x, h) ==
    x \in 1 .. Len(rs) => /\ Leads(m, x, rs[x], h)
                          /\ Refers(rs[x], h, pv)
                          /\ ~Inline(rs[x]) => h \notin DOMAIN ov

\* p is the overflow page of slot x.
PageOf(p, rs, x, h) == x \in 1 .. Len(rs) /\ ~Inline(rs[x]) /\ p = h

PagesMoved(pv, ov, rs, recs, x, y, h, g, ks, ls) ==
    /\ \A p \in DOMAIN pv : \/ p \in DOMAIN ov /\ ~PageOf(p, recs, y, g)
                            \/ PageOf(p, rs, x, h)
                            \/ p \in ks
    /\ \A p \in DOMAIN ov : (p \in DOMAIN pv /\ pv[p] = ov[p]) \/ PageOf(p, recs, y, g)
    /\ \A p \in ks : p \in DOMAIN pv /\ (p \in ls \/ PageOf(p, recs, y, g))
    /\ \A p \in ls : p \in ks

LEMMA CarriesLeads ==
    ASSUME NEW m, NEW j, NEW n, NEW i, NEW r, NEW h, Carries(m, j, n, i), Leads(n, i, r, h)
    PROVE  Leads(m, j, r, h)
  BY DEF Carries, SameRecord, Leads

\* If the other slots keep their records and a new one brings its own, the
\* accounts are right again.
LEMMA AccountedMoves ==
    ASSUME NEW n, NEW recs, NEW ov, NEW hs, NEW ls, Accounted(n, recs, ov, hs, ls),
           NotLost(recs, hs, ls),
           NEW m, NEW rs, NEW pv, NEW f, NEW x, NEW y, NEW h, NEW ks,
           IndexMap(f, x, y, Len(rs), Len(recs)), Kept(m, rs, n, recs, f, x),
           Fresh(m, rs, ov, pv, x, h), PagesMoved(pv, ov, rs, recs, x, y, h, hs[y], ks, ls)
    PROVE  \E g : Accounted(m, rs, pv, g, ks) /\ NotLost(rs, g, ks)
  <1> DEFINE g == [j \in 1 .. Len(rs) |-> IF j = x THEN h ELSE hs[f[j]]]
  <1>1. /\ \A j \in 1 .. Len(rs) : j # x => g[j] = hs[f[j]]
        /\ x \in 1 .. Len(rs) => g[x] = h
    OBVIOUS
  <1> HIDE DEF g
  <1>2. ASSUME NEW j \in 1 .. Len(rs), j # x
        PROVE  /\ f[j] \in 1 .. Len(recs) /\ f[j] # y
               /\ rs[j] = recs[f[j]] /\ Carries(m, j, n, f[j])
               /\ Leads(n, f[j], rs[j], g[j]) /\ Refers(rs[j], g[j], ov)
               /\ ~Inline(rs[j]) => g[j] \notin ls /\ ~PageOf(g[j], recs, y, hs[y])
    <2>1. f[j] \in 1 .. Len(recs) /\ f[j] # y
      BY <1>2 DEF IndexMap
    <2>2. rs[j] = recs[f[j]] /\ Carries(m, j, n, f[j])
      BY <1>2 DEF Kept
    <2>3. Leads(n, f[j], recs[f[j]], hs[f[j]]) /\ Refers(recs[f[j]], hs[f[j]], ov)
      BY <2>1 DEF Accounted
    <2>4. ASSUME ~Inline(rs[j])
          PROVE  g[j] \notin ls /\ ~PageOf(g[j], recs, y, hs[y])
      <3>1. g[j] = hs[f[j]] /\ ~Inline(recs[f[j]])
        BY <1>1, <1>2, <2>2, <2>4
      <3>2. g[j] \notin ls
        BY <2>1, <3>1 DEF NotLost
      <3>3. ASSUME y \in 1 .. Len(recs), ~Inline(recs[y]), g[j] = hs[y]
            PROVE  FALSE
        BY <2>1, <3>1, <3>3 DEF Accounted
      <3>4. QED
        BY <3>2, <3>3 DEF PageOf
    <2>5. QED
      BY <1>1, <1>2, <2>1, <2>2, <2>3, <2>4
  <1>3. ASSUME NEW j \in 1 .. Len(rs)
        PROVE  Leads(m, j, rs[j], g[j]) /\ Refers(rs[j], g[j], pv)
    <2>1. CASE j = x
      BY <1>1, <2>1 DEF Fresh
    <2>2. CASE j # x
      <3>1. Leads(m, j, rs[j], g[j])
        BY <1>2, <2>2, CarriesLeads
      <3>2. CASE Inline(rs[j])
        <4>1. Refers(rs[j], g[j], pv)
          BY <1>2, <2>2, <3>2 DEF Refers
        <4>2. QED
          BY <3>1, <4>1
      <3>3. CASE ~Inline(rs[j])
        <4>1. g[j] \in DOMAIN ov /\ ov[g[j]] = rs[j]
          BY <1>2, <2>2, <3>3 DEF Refers
        <4>2. ~PageOf(g[j], recs, y, hs[y])
          BY <1>2, <2>2, <3>3
        <4>3. g[j] \in DOMAIN pv /\ pv[g[j]] = ov[g[j]]
          BY <4>1, <4>2 DEF PagesMoved
        <4>4. QED
          BY <3>1, <3>3, <4>1, <4>3 DEF Refers
      <3>4. QED
        BY <3>2, <3>3
    <2>3. QED
      BY <2>1, <2>2
  <1>4. ASSUME NEW j \in 1 .. Len(rs), NEW k \in 1 .. Len(rs), j = x, k # x,
               ~Inline(rs[j]), ~Inline(rs[k])
        PROVE  g[j] # g[k]
    <2>1. g[k] \in DOMAIN ov
      BY <1>2, <1>4 DEF Refers
    <2>2. g[j] \notin DOMAIN ov
      BY <1>1, <1>4 DEF Fresh
    <2>3. QED
      BY <2>1, <2>2
  <1>5. ASSUME NEW j \in 1 .. Len(rs), NEW k \in 1 .. Len(rs), ~Inline(rs[j]), ~Inline(rs[k]),
               g[j] = g[k]
        PROVE  j = k
    <2>1. CASE j # x /\ k # x
      <3>1. hs[f[j]] = hs[f[k]] /\ ~Inline(recs[f[j]]) /\ ~Inline(recs[f[k]])
            /\ f[j] \in 1 .. Len(recs) /\ f[k] \in 1 .. Len(recs)
        BY <1>1, <1>2, <1>5, <2>1
      <3>2. f[j] = f[k]
        BY <3>1 DEF Accounted
      <3>3. QED
        BY <2>1, <3>2 DEF IndexMap
    <2>2. QED
      BY <1>4, <1>5, <2>1
  <1>6. ASSUME NEW p \in DOMAIN pv
        PROVE  p \in ks \/ \E j \in 1 .. Len(rs) : ~Inline(rs[j]) /\ g[j] = p
    <2>1. CASE PageOf(p, rs, x, h)
      BY <1>1, <2>1 DEF PageOf
    <2>2. CASE p \in DOMAIN ov /\ ~PageOf(p, recs, y, hs[y]) /\ p \notin ks
      <3>0. p \notin ls
        BY <2>2 DEF PagesMoved
      <3>1. PICK l \in 1 .. Len(recs) : ~Inline(recs[l]) /\ hs[l] = p
        BY <2>2, <3>0 DEF Accounted
      <3>2. l # y
        BY <2>2, <3>1 DEF PageOf
      <3>3. PICK j \in 1 .. Len(rs) : j # x /\ f[j] = l
        BY <3>2 DEF IndexMap
      <3>4. ~Inline(rs[j]) /\ g[j] = p
        BY <1>1, <1>2, <3>1, <3>3
      <3>5. QED
        BY <3>4
    <2>3. QED
      BY <2>1, <2>2 DEF PagesMoved
  <1>7. \A p \in ks : p \in DOMAIN pv
    BY DEF PagesMoved
  <1>8. ASSUME NEW j \in 1 .. Len(rs), ~Inline(rs[j]), g[j] \in ks
        PROVE  FALSE
    <2>1. g[j] \in ls \/ PageOf(g[j], recs, y, hs[y])
      BY <1>8 DEF PagesMoved
    <2>2. CASE j # x
      BY <1>2, <1>8, <2>1, <2>2
    <2>3. CASE j = x
      <3>1. g[j] \notin DOMAIN ov
        BY <1>1, <1>8, <2>3 DEF Fresh
      <3>2. g[j] \notin ls
        BY <3>1 DEF Accounted
      <3>3. y \in 1 .. Len(recs) /\ ~Inline(recs[y]) /\ g[j] = hs[y]
        BY <2>1, <3>2 DEF PageOf
      <3>4. Refers(recs[y], hs[y], ov)
        BY <3>3 DEF Accounted
      <3>5. QED
        BY <3>1, <3>3, <3>4 DEF Refers
    <2>4. QED
      BY <2>2, <2>3
  <1>9. Accounted(m, rs, pv, g, ks) /\ NotLost(rs, g, ks)
    BY <1>3, <1>5, <1>6, <1>7, <1>8 DEF Accounted, NotLost
  <1>10. QED
    BY <1>9

\* NewPage is not in use.
LEMMA NewPageFacts ==
    ASSUME DOMAIN overflow \subseteq 1 .. MaxPages
    PROVE  NewPage \in 1 .. (MaxPages + 1) /\ NewPage \notin DOMAIN overflow
  <1> DEFINE D == DOMAIN overflow
             P(p) == p \notin D /\ \A q \in 1 .. (p - 1) : q \in D
  <1>1. MaxPages \in Nat
    BY ConstantFacts
  <1>2. \E p \in 1 .. (MaxPages + 1) : P(p)
    <2> SUFFICES ASSUME \A p \in 1 .. (MaxPages + 1) : ~P(p)
                 PROVE  FALSE
      OBVIOUS
    <2> DEFINE T == {k \in 0 .. (MaxPages + 1) : 1 .. k \subseteq D}
    <2>1. 0 \in T
      BY <1>1
    <2>2. ASSUME NEW k \in 0 .. ((MaxPages + 1) - 1), k \in T
          PROVE  k + 1 \in T
      <3>1. k + 1 \in 1 .. (MaxPages + 1) /\ (k + 1) - 1 = k
        BY <1>1
      <3>2. \A q \in 1 .. k : q \in D
        BY <2>2
      <3>3. k + 1 \in D
        BY <3>1, <3>2
      <3>4. \A q \in 1 .. (k + 1) : q \in 1 .. k \/ q = k + 1
        BY <3>1
      <3> HIDE DEF D
      <3>5. QED
        BY <3>1, <3>2, <3>3, <3>4
    <2>3. MaxPages + 1 \in Nat
      BY <1>1
    <2> HIDE DEF T
    <2>4. 0 .. (MaxPages + 1) \subseteq T
      BY <2>1, <2>2, <2>3, RangeInduction
    <2>5. MaxPages + 1 \in T
      BY <1>1, <2>4
    <2>6. MaxPages + 1 \in D
      BY <1>1, <2>5 DEF T
    <2>7. QED
      BY <1>1, <2>6
  <1>3. NewPage = CHOOSE p \in 1 .. (MaxPages + 1) : P(p)
    BY DEF NewPage
  <1> HIDE DEF P
  <1>4. NewPage \in 1 .. (MaxPages + 1) /\ P(NewPage)
    BY <1>2, <1>3, Zenon
  <1>5. QED
    BY <1>4 DEF P

\* StoreRecord's overflow record is the only page that comes in.
LEMMA StoreOverflowFacts ==
    ASSUME DOMAIN overflow \subseteq 1 .. MaxPages, NEW r, RoomForPages(r),
           NEW pv, pv = StoreOverflow(overflow, r), NEW h, h = IF Inline(r) THEN r.tag ELSE NewPage
    PROVE  /\ DOMAIN pv \subseteq 1 .. MaxPages
           /\ Refers(r, h, pv)
           /\ ~Inline(r) => h \notin DOMAIN overflow
           /\ \A p \in DOMAIN pv : p \in DOMAIN overflow \/ (~Inline(r) /\ p = h)
           /\ \A p \in DOMAIN overflow : p \in DOMAIN pv /\ pv[p] = overflow[p]
  <1>1. NewPage \in 1 .. (MaxPages + 1) /\ NewPage \notin DOMAIN overflow /\ MaxPages \in Nat
    BY NewPageFacts, ConstantFacts
  <1>2. CASE Inline(r)
    BY <1>2 DEF StoreOverflow, Inline, Refers
  <1>3. CASE ~Inline(r)
    <2>1. h = NewPage
      BY <1>3
    <2>2. pv = [p \in DOMAIN overflow \cup {h} |-> IF p = h THEN r ELSE overflow[p]]
      BY <1>3, <2>1 DEF StoreOverflow, Inline
    <2>3. h \in 1 .. MaxPages
      BY <1>1, <1>3, <2>1 DEF RoomForPages, Inline
    <2>4. h \notin DOMAIN overflow
      BY <1>1, <2>1
    <2>5. DOMAIN pv = DOMAIN overflow \cup {h} /\ pv[h] = r
          /\ \A p \in DOMAIN overflow : pv[p] = overflow[p]
      BY <2>2, <2>4
    <2>6. QED
      BY <1>3, <2>3, <2>4, <2>5 DEF Refers
  <1>4. QED
    BY <1>2, <1>3

LEMMA StoredLeads ==
    ASSUME NEW m, NEW i, NEW r, Stored(m, i, r), NEW h, h = IF Inline(r) THEN r.tag ELSE NewPage
    PROVE  Leads(m, i, r, h)
  BY DEF Stored, Leads, Inline

\* The invariant for the records and the space, next to TypeInv.
DataInv ==
    /\ Placed(node)
    /\ Roomy(node)
    /\ DOMAIN overflow \subseteq 1 .. MaxPages
    /\ \E hs : /\ Accounted(node, records, overflow, hs, lost)
               /\ ~aborted => NotLost(records, hs, lost)
    /\ lost = {} => ~aborted
    /\ lost = {} \/ type = "leaf" => Exact(node)

LEMMA DataInit ==
    ASSUME Init
    PROVE  DataInv
  <1>1. PICK c \in Children \cup {NoChild} :
           node = [slots |-> << >>, tail_child |-> c, data_offset |-> PageSize,
                   space_used |-> 0, mem |-> [u \in 0 .. (PageSize - 1) |-> <<>>]]
    BY DEF Init
  <1>2. overflow = << >> /\ records = << >> /\ lost = {} /\ ~aborted
    BY DEF Init
  <1>3. /\ node.slots = << >> /\ node.data_offset = PageSize /\ node.space_used = 0
        /\ IsPage(node)
    BY StructureInit, <1>1 DEF TypeInv
  <1>4. Len(node.slots) = 0 /\ node.slots \in Seq(Slot)
    BY <1>3
  <1>5. Total(SlotSizes(node.slots)) = 0
    <2> DEFINE s == SlotSizes(node.slots)
    <2>1. s \in Seq(Nat) /\ Len(s) = 0
      BY <1>4, SlotSizesFacts
    <2> HIDE DEF s
    <2>2. PrefixSum(s, 0)[0] = 0
      <3>1. 0 \in 0 .. Len(s)
        BY <2>1
      <3>2. QED
        BY <2>1, <3>1, PrefixFacts
    <2>3. QED
      BY <2>1, <2>2 DEF Total, s
  <1>6. Placed(node) /\ Roomy(node) /\ Exact(node)
    BY <1>3, <1>4, <1>5, ConstantFacts
       DEF Placed, Exact, RecordSpace, InPage, Apart, Roomy, SlotSpace
  <1>7. Accounted(node, records, overflow, << >>, lost) /\ NotLost(records, << >>, lost)
    BY <1>2 DEF Accounted, NotLost
  <1>8. DOMAIN overflow \subseteq 1 .. MaxPages
    BY <1>2
  <1>9. QED
    BY <1>2, <1>6, <1>7, <1>8 DEF DataInv

LEMMA InsertData ==
    ASSUME TypeInv, DataInv, ~aborted, NEW i \in 1 .. (Len(node.slots) + 1), NEW r \in RecordsOf(type),
           NEW c \in Children \cup {NoChild}, NEW right \in BOOLEAN, RoomForPages(r),
           Insert(i, r, c, right)
    PROVE  DataInv'
  <1> DEFINE N == Len(node.slots)
             h == IF Inline(r) THEN r.tag ELSE NewPage
             f == [j \in 1 .. (N + 1) |-> IF j < i THEN j ELSE j - 1]
  <1>1. N \in Nat /\ Len(records) = N /\ records \in Seq(RecordsOf(type)) /\ i \in 1 .. (N + 1)
        /\ Placed(node) /\ DOMAIN overflow \subseteq 1 .. MaxPages
    BY SlotSpaceFacts DEF TypeInv, DataInv
  <1>2. PICK hs : Accounted(node, records, overflow, hs, lost) /\ NotLost(records, hs, lost)
    BY DEF DataInv
  <1>3. /\ HasSpace(node, Size(r), TRUE)
        /\ AssertionsHold(node, Size(r), TRUE)
        /\ node' = StoreRecord(InsertSlot(SpaceFor(node, Size(r), TRUE), i, c, right), i, r)
        /\ overflow' = StoreOverflow(overflow, r)
        /\ records' = InsertAt(records, i, r)
        /\ aborted' = aborted /\ lost' = lost /\ type' = type
    BY DEF Insert
  <1>4. Placed(node') /\ Roomy(node') /\ PutAt(node', node, i, r)
        /\ (Exact(node) => Exact(node'))
    BY <1>1, <1>3, InsertPlaced
  <1>5. lost' = {} \/ type' = "leaf" => Exact(node')
    BY <1>3, <1>4 DEF DataInv
  <1>6. Inserted(records', records, i, r)
    BY <1>1, <1>3, InsertAtFacts
  <1> HIDE DEF h
  <1>7. /\ DOMAIN overflow' \subseteq 1 .. MaxPages
        /\ Refers(r, h, overflow')
        /\ ~Inline(r) => h \notin DOMAIN overflow
        /\ \A p \in DOMAIN overflow' : p \in DOMAIN overflow \/ (~Inline(r) /\ p = h)
        /\ \A p \in DOMAIN overflow : p \in DOMAIN overflow' /\ overflow'[p] = overflow[p]
    <2>1. h = IF Inline(r) THEN r.tag ELSE NewPage
      BY DEF h
    <2>2. QED
      BY <1>1, <1>3, <2>1, StoreOverflowFacts
  <1> HIDE DEF N
  <1>8. /\ Len(records') = N + 1 /\ records'[i] = r
        /\ \A j \in 1 .. (N + 1) : j # i => records'[j] = records[f[j]]
    <2>1. Len(records') = N + 1
          /\ \A j \in 1 .. (N + 1) : records'[j] = IF j < i THEN records[j]
                                                   ELSE IF j = i THEN r ELSE records[j - 1]
      BY <1>1, <1>6 DEF Inserted
    <2>2. QED
      BY <1>1, <2>1
  <1>9. IndexMap(f, i, 0, N + 1, N)
    <2>1. ASSUME NEW j \in 1 .. (N + 1), j # i
          PROVE  f[j] \in 1 .. N /\ f[j] # 0
      BY <1>1, <2>1
    <2>2. ASSUME NEW j \in 1 .. (N + 1), NEW k \in 1 .. (N + 1), j # i, k # i, f[j] = f[k]
          PROVE  j = k
      BY <1>1, <2>2
    <2>3. ASSUME NEW l \in 1 .. N
          PROVE  \E j \in 1 .. (N + 1) : j # i /\ f[j] = l
      <3>1. CASE l < i
        <4>1. l \in 1 .. (N + 1) /\ l # i /\ f[l] = l
          BY <1>1, <3>1
        <4>2. QED
          BY <4>1
      <3>2. CASE ~(l < i)
        <4>1. l + 1 \in 1 .. (N + 1) /\ l + 1 # i /\ f[l + 1] = l
          BY <1>1, <3>2
        <4>2. QED
          BY <4>1
      <3>3. QED
        BY <3>1, <3>2
    <2> HIDE DEF f
    <2>4. QED
      BY <2>1, <2>2, <2>3 DEF IndexMap
  <1>10. Kept(node', records', node, records, f, i)
    <2>1. ASSUME NEW j \in 1 .. (N + 1), j # i
          PROVE  Carries(node', j, node, f[j])
      <3>1. (j < i => Carries(node', j, node, j)) /\ (j > i => Carries(node', j, node, j - 1))
        BY <1>4 DEF PutAt, N
      <3>2. CASE j < i
        BY <3>1, <3>2
      <3>3. CASE j > i
        <4>1. f[j] = j - 1
          BY <1>1, <3>3
        <4>2. QED
          BY <3>1, <3>3, <4>1
      <3>4. QED
        BY <1>1, <2>1, <3>2, <3>3
    <2> HIDE DEF f
    <2>2. QED
      BY <1>8, <2>1 DEF Kept
  <1> HIDE DEF f
  <1>11. Fresh(node', records', overflow, overflow', i, h)
    <2>1. Stored(node', i, r)
      BY <1>4 DEF PutAt
    <2>2. Leads(node', i, r, h)
      BY <2>1, StoredLeads DEF h
    <2>3. QED
      BY <1>7, <1>8, <2>2 DEF Fresh
  <1>12. PagesMoved(overflow', overflow, records', records, i, 0, h, hs[0], lost, lost)
    BY <1>1, <1>2, <1>7, <1>8 DEF PagesMoved, PageOf, Accounted
  <1>13. \E g : Accounted(node', records', overflow', g, lost) /\ NotLost(records', g, lost)
    <2>1. IndexMap(f, i, 0, Len(records'), Len(records))
      BY <1>1, <1>8, <1>9
    <2>2. QED
      BY <1>2, <1>10, <1>11, <1>12, <2>1, AccountedMoves
  <1>14. QED
    BY <1>3, <1>4, <1>5, <1>7, <1>13 DEF DataInv

\* The overflow page in the slot is the one the accounts name.
LEMMA PgidIsHead ==
    ASSUME NEW n, IsPage(n), NEW i \in 1 .. Len(n.slots), NEW r, NEW h, Leads(n, i, r, h),
           SlotRecordSize(n.slots[i]) > 0
    PROVE  PgidAt(n, i) = h
  <1>1. n.slots[i] \in Slot
    BY DEF IsPage
  <1>2. SlotRecordSize(n.slots[i]) \in Nat /\ n.slots[i].record_offset \in Int
    BY <1>1, SlotFacts
  <1>3. 0 \in 0 .. (SlotRecordSize(n.slots[i]) - 1)
    BY <1>2
  <1>4. n.mem[n.slots[i].record_offset + 0] = <<h, 0>>
    BY <1>3 DEF Leads, Reads
  <1>5. n.slots[i].record_offset + 0 = n.slots[i].record_offset
    BY <1>2
  <1>6. n.mem[n.slots[i].record_offset] = <<h, 0>>
    BY <1>4, <1>5, Zenon
  <1>7. QED
    BY <1>6 DEF PgidAt

LEMMA OverflowPagesFacts ==
    ASSUME NEW n, IsPage(n), NEW i \in 1 .. Len(n.slots), NEW r, NEW h, Leads(n, i, r, h)
    PROVE  /\ n.slots[i].is_overflow = ~Inline(r)
           /\ OverflowPages(n, i) = IF Inline(r) THEN {} ELSE {h}
  <1>1. n.slots[i].is_overflow = ~Inline(r)
    BY DEF Leads
  <1>2. n.slots[i] \in Slot
    BY DEF IsPage
  <1>3. CASE Inline(r)
    BY <1>1, <1>3 DEF OverflowPages
  <1>4. CASE ~Inline(r)
    <2>1. n.slots[i].is_overflow
      BY <1>1, <1>4, Zenon
    <2>2. SlotRecordSize(n.slots[i]) > 0
      BY <1>2, <2>1, SlotFacts, ConstantFacts
    <2>3. PgidAt(n, i) = h
      BY <2>2, PgidIsHead
    <2>4. QED
      BY <1>1, <1>4, <2>1, <2>3 DEF OverflowPages
  <1>5. QED
    BY <1>3, <1>4

LEMMA UpdateData ==
    ASSUME TypeInv, DataInv, ~aborted, NEW i \in 1 .. (Len(node.slots) + 1),
           NEW r \in RecordsOf(type), RoomForPages(r), Update(i, r)
    PROVE  DataInv'
  <1> DEFINE N == Len(node.slots)
             h == IF Inline(r) THEN r.tag ELSE NewPage
             f == [j \in 1 .. N |-> j]
             d == DeleteRecord(node, i)
             a == SpaceFor(d, Size(r), FALSE)
  <1>1. N \in Nat /\ Len(records) = N /\ records \in Seq(RecordsOf(type)) /\ IsPage(node)
        /\ Placed(node) /\ DOMAIN overflow \subseteq 1 .. MaxPages
    BY SlotSpaceFacts DEF TypeInv, DataInv
  <1>2. PICK hs : Accounted(node, records, overflow, hs, lost) /\ NotLost(records, hs, lost)
    BY DEF DataInv
  <1>3. i \in 1 .. Len(node.slots)
    <2>1. i <= Len(node.slots)
      BY DEF Update
    <2>2. QED
      BY <1>1, <2>1
  <1>4. /\ HasSpace(d, Size(r), FALSE)
        /\ AssertionsHold(d, Size(r), FALSE)
        /\ node' = StoreRecord([a EXCEPT !.space_used =
                                   @ - (IF type = "branch" THEN a.slots[i].key_size ELSE 0)], i, r)
        /\ overflow' = StoreOverflow(overflow, r)
        /\ records' = [records EXCEPT ![i] = r]
        /\ lost' = lost \cup OverflowPages(node, i)
        /\ aborted' = aborted /\ type' = type
    BY DEF Update
  <1>5. /\ Placed(node') /\ Roomy(node') /\ ReplacedAt(node', node, i, r)
        /\ Exact(node) /\ (type # "branch" \/ ~node.slots[i].is_overflow) => Exact(node')
    <2>1. d = DeleteRecord(node, i) /\ a = SpaceFor(d, Size(r), FALSE)
      OBVIOUS
    <2> DEFINE x == IF type = "branch" THEN a.slots[i].key_size ELSE 0
               b == [a EXCEPT !.space_used = @ - x]
    <2>2. /\ Placed(node) /\ HasSpace(d, Size(r), FALSE) /\ AssertionsHold(d, Size(r), FALSE)
          /\ node' = StoreRecord(b, i, r)
      BY <1>1, <1>4, Zenon
    <2>3. (x = a.slots[i].key_size \/ x = 0) /\ (type # "branch" => x = 0)
      BY Zenon
    <2> HIDE DEF a, d, N, f, h, x
    <2>4. SpaceTaken(b, a, x)
      BY DEF SpaceTaken
    <2> HIDE DEF b
    <2>5. /\ Placed(node') /\ Roomy(node') /\ ReplacedAt(node', node, i, r)
          /\ Exact(node) /\ (x = 0 \/ ~node.slots[i].is_overflow) => Exact(node')
      BY <1>3, <2>1, <2>2, <2>3, <2>4, UpdatePlaced, Zenon
    <2>6. QED
      BY <2>3, <2>5
  <1>6. /\ node.slots[i].is_overflow = ~Inline(records[i])
        /\ OverflowPages(node, i) = IF Inline(records[i]) THEN {} ELSE {hs[i]}
        /\ ~Inline(records[i]) => hs[i] \in DOMAIN overflow
    <2>1. Leads(node, i, records[i], hs[i]) /\ Refers(records[i], hs[i], overflow)
      BY <1>1, <1>2, <1>3 DEF Accounted
    <2> HIDE DEF a, d, N, f, h
    <2>2. QED
      BY <1>1, <1>3, <2>1, OverflowPagesFacts DEF Refers
  <1> HIDE DEF h, a, d
  <1>7. /\ DOMAIN overflow' \subseteq 1 .. MaxPages
        /\ Refers(r, h, overflow')
        /\ ~Inline(r) => h \notin DOMAIN overflow
        /\ \A p \in DOMAIN overflow' : p \in DOMAIN overflow \/ (~Inline(r) /\ p = h)
        /\ \A p \in DOMAIN overflow : p \in DOMAIN overflow' /\ overflow'[p] = overflow[p]
    <2>1. h = IF Inline(r) THEN r.tag ELSE NewPage
      BY DEF h
    <2>2. overflow' = StoreOverflow(overflow, r)
      BY <1>4
    <2>3. QED
      BY <1>1, <2>1, <2>2, StoreOverflowFacts
  <1>8. lost' = {} \/ type' = "leaf" => Exact(node')
    <2>1. lost' = {} => lost = {} /\ Inline(records[i])
      BY <1>4, <1>6
    <2>2. Inline(records[i]) => ~node.slots[i].is_overflow
      BY <1>6, Zenon
    <2>3. type = "leaf" => type # "branch"
      OBVIOUS
    <2>4. QED
      BY <1>4, <1>5, <2>1, <2>2, <2>3 DEF DataInv
  <1>9. /\ Len(records') = N /\ records'[i] = r
        /\ \A j \in 1 .. N : j # i => records'[j] = records[j]
    BY <1>1, <1>3, <1>4
  <1>10. IndexMap(f, i, i, N, N)
    BY DEF IndexMap
  <1>11. Kept(node', records', node, records, f, i)
    <2>1. ASSUME NEW j \in 1 .. N, j # i
          PROVE  Carries(node', j, node, f[j])
      <3>1. Carries(node', j, node, j)
        BY <1>5, <2>1 DEF ReplacedAt
      <3>2. QED
        BY <3>1
    <2>2. QED
      BY <1>9, <2>1 DEF Kept
  <1> HIDE DEF f, N
  <1>12. Fresh(node', records', overflow, overflow', i, h)
    <2>1. Stored(node', i, r)
      BY <1>5 DEF ReplacedAt
    <2>2. Leads(node', i, r, h)
      BY <2>1, StoredLeads DEF h
    <2>3. QED
      BY <1>7, <1>9, <2>2 DEF Fresh
  <1>13. PagesMoved(overflow', overflow, records', records, i, i, h, hs[i], lost', lost)
    <2>1. i \in 1 .. Len(records) /\ i \in 1 .. Len(records')
      BY <1>1, <1>3, <1>9 DEF N
    <2>2. \A p : PageOf(p, records, i, hs[i]) <=> p \in OverflowPages(node, i)
      BY <1>6, <2>1 DEF PageOf
    <2>3. \A p : PageOf(p, records', i, h) <=> ~Inline(r) /\ p = h
      BY <1>9, <2>1 DEF PageOf
    <2>4. \A p \in lost' : p \in DOMAIN overflow
      BY <1>2, <1>4, <1>6 DEF Accounted
    <2>5. QED
      BY <1>4, <1>7, <2>2, <2>3, <2>4 DEF PagesMoved
  <1>14. \E g : Accounted(node', records', overflow', g, lost') /\ NotLost(records', g, lost')
    <2>1. IndexMap(f, i, i, Len(records'), Len(records))
      BY <1>1, <1>9, <1>10
    <2>2. QED
      BY <1>2, <1>11, <1>12, <1>13, <2>1, AccountedMoves
  <1>15. QED
    BY <1>4, <1>5, <1>7, <1>8, <1>14 DEF DataInv

LEMMA DeleteData ==
    ASSUME TypeInv, DataInv, ~aborted, NEW i \in 1 .. (Len(node.slots) + 1), NEW right \in BOOLEAN,
           Delete(i, right)
    PROVE  DataInv'
  <1> DEFINE N == Len(node.slots)
             f == [j \in 1 .. (N - 1) |-> IF j < i THEN j ELSE j + 1]
             a == [node EXCEPT !.space_used = @ - SlotRecordSize(node.slots[i])]
  <1>1. N \in Nat /\ Len(records) = N /\ records \in Seq(RecordsOf(type)) /\ IsPage(node)
        /\ Placed(node) /\ Roomy(node) /\ DOMAIN overflow \subseteq 1 .. MaxPages
    BY SlotSpaceFacts DEF TypeInv, DataInv
  <1>2. PICK hs : Accounted(node, records, overflow, hs, lost) /\ NotLost(records, hs, lost)
    BY DEF DataInv
  <1>3. i \in 1 .. N
    <2>1. i <= Len(node.slots)
      BY DEF Delete
    <2>2. QED
      BY <1>1, <2>1
  <1>4. /\ node' = DeleteSlot(a, i, right)
        /\ overflow' = FreeOverflow(node, overflow, i)
        /\ records' = RemoveAt(records, i)
        /\ aborted' = aborted /\ lost' = lost /\ type' = type
    BY DEF Delete
  <1>5. Placed(node') /\ Roomy(node') /\ TakenAt(node', node, i) /\ (Exact(node) => Exact(node'))
    <2>1. a = [node EXCEPT !.space_used = @ - SlotRecordSize(node.slots[i])]
      OBVIOUS
    <2>2. i \in 1 .. Len(node.slots)
      BY <1>3
    <2> HIDE DEF a, f, N
    <2>3. QED
      BY <1>1, <1>4, <2>1, <2>2, DeletePlaced
  <1> HIDE DEF a
  <1>6. Removed(records', records, i)
    <2>1. i \in 1 .. Len(records) /\ records \in Seq(RecordsOf(type))
      BY <1>1, <1>3
    <2>2. QED
      BY <1>4, <2>1, RemoveAtFacts
  <1>7. Leads(node, i, records[i], hs[i])
    BY <1>1, <1>2, <1>3 DEF Accounted
  <1>8. OverflowPages(node, i) = IF Inline(records[i]) THEN {} ELSE {hs[i]}
    <2> HIDE DEF f
    <2>1. QED
      BY <1>1, <1>3, <1>7, OverflowPagesFacts
  <1>9. \A p \in lost : p \in DOMAIN overflow /\ (Inline(records[i]) \/ p # hs[i])
    BY <1>1, <1>2, <1>3 DEF Accounted, NotLost
  <1>10. /\ DOMAIN overflow' = {p \in DOMAIN overflow : Inline(records[i]) \/ p # hs[i]}
         /\ \A p \in DOMAIN overflow' : overflow'[p] = overflow[p]
    <2> DEFINE X == OverflowPages(node, i)
    <2>1. overflow' = [p \in DOMAIN overflow \ X |-> overflow[p]]
      BY <1>4 DEF FreeOverflow
    <2>2. X = IF Inline(records[i]) THEN {} ELSE {hs[i]}
      BY <1>8
    <2> HIDE DEF X
    <2>3. QED
      BY <2>1, <2>2
  <1> HIDE DEF N
  <1>11. /\ Len(records') = N - 1
         /\ \A j \in 1 .. (N - 1) : records'[j] = records[f[j]]
    BY <1>1, <1>6 DEF Removed
  <1>12. IndexMap(f, 0, i, N - 1, N)
    <2>1. ASSUME NEW j \in 1 .. (N - 1)
          PROVE  f[j] \in 1 .. N /\ f[j] # i
      BY <1>1, <1>3
    <2>2. ASSUME NEW j \in 1 .. (N - 1), NEW k \in 1 .. (N - 1), f[j] = f[k]
          PROVE  j = k
      BY <1>1, <1>3, <2>2
    <2>3. ASSUME NEW l \in 1 .. N, l # i
          PROVE  \E j \in 1 .. (N - 1) : j # 0 /\ f[j] = l
      <3>1. CASE l < i
        <4>1. l \in 1 .. (N - 1) /\ l # 0 /\ f[l] = l
          BY <1>1, <1>3, <3>1
        <4>2. QED
          BY <4>1
      <3>2. CASE l > i
        <4>1. l - 1 \in 1 .. (N - 1) /\ l - 1 # 0 /\ f[l - 1] = l
          BY <1>1, <1>3, <3>2
        <4>2. QED
          BY <4>1
      <3>3. QED
        BY <1>1, <1>3, <2>3, <3>1, <3>2
    <2> HIDE DEF f
    <2>4. QED
      BY <2>1, <2>2, <2>3 DEF IndexMap
  <1>13. Kept(node', records', node, records, f, 0)
    <2>1. ASSUME NEW j \in 1 .. (N - 1)
          PROVE  Carries(node', j, node, f[j])
      <3>1. Carries(node', j, node, IF j < i THEN j ELSE j + 1)
        BY <1>5 DEF TakenAt, N
      <3>2. QED
        BY <3>1
    <2> HIDE DEF f
    <2>2. QED
      BY <1>11, <2>1 DEF Kept
  <1> HIDE DEF f
  <1>14. \A h : Fresh(node', records', overflow, overflow', 0, h)
    BY <1>1, <1>11 DEF Fresh
  <1>15. \A h : PagesMoved(overflow', overflow, records', records, 0, i, h, hs[i], lost, lost)
    BY <1>1, <1>3, <1>9, <1>10 DEF PagesMoved, PageOf
  <1>16. \E g : Accounted(node', records', overflow', g, lost) /\ NotLost(records', g, lost)
    <2>1. IndexMap(f, 0, i, Len(records'), Len(records))
      BY <1>1, <1>11, <1>12
    <2>2. Fresh(node', records', overflow, overflow', 0, 0)
          /\ PagesMoved(overflow', overflow, records', records, 0, i, 0, hs[i], lost, lost)
      BY <1>14, <1>15
    <2>3. QED
      BY <1>2, <1>13, <2>1, <2>2, AccountedMoves
  <1>17. DOMAIN overflow' \subseteq 1 .. MaxPages
    BY <1>1, <1>10
  <1>18. QED
    BY <1>1, <1>4, <1>5, <1>16, <1>17 DEF DataInv

LEMMA SetChildData ==
    ASSUME TypeInv, DataInv, NEW i \in 1 .. (Len(node.slots) + 1), NEW c \in Children,
           SetChild(i, c)
    PROVE  DataInv'
  <1> DEFINE N == Len(node.slots)
             f == [j \in 1 .. N |-> j]
  <1>1. N \in Nat /\ Len(records) = N /\ IsPage(node) /\ Placed(node) /\ Roomy(node)
    BY SlotSpaceFacts DEF TypeInv, DataInv
  <1>2. PICK hs : /\ Accounted(node, records, overflow, hs, lost)
                  /\ ~aborted => NotLost(records, hs, lost)
    BY DEF DataInv
  <1>3. /\ node' = SetLeftChild(node, i, c)
        /\ overflow' = overflow /\ records' = records /\ aborted' = aborted /\ lost' = lost
        /\ type' = type
    BY DEF SetChild
  <1>4. /\ IsPage(node') /\ SameData(node', node)
        /\ \A j \in 1 .. N : SamePlace(node'.slots[j], node.slots[j])
        /\ Len(node'.slots) = N
    <2>1. c \in Children \cup {NoChild}
      OBVIOUS
    <2>2. QED
      BY <1>1, <1>3, <2>1, SetLeftChildFacts DEF ChildReplaced
  <1>5. /\ node'.data_offset = node.data_offset /\ node'.space_used = node.space_used
        /\ node'.mem = node.mem
    BY <1>4 DEF SameData
  <1>6. InPage(node') /\ Apart(node')
    <2>1. \A j \in 1 .. N : f[j] = j
      OBVIOUS
    <2> HIDE DEF f
    <2>2. \A j \in 1 .. Len(node'.slots) :
             \/ SlotRecordSize(node'.slots[j]) = 0
             \/ f[j] \in 1 .. Len(node.slots) /\ SamePlace(node'.slots[j], node.slots[f[j]])
      BY <1>4, <2>1
    <2>3. \A j, k \in 1 .. Len(node'.slots) :
             j # k /\ SlotRecordSize(node'.slots[j]) # 0 /\ SlotRecordSize(node'.slots[k]) # 0
                => f[j] # f[k]
      BY <1>4, <2>1
    <2>4. InPage(node) /\ Apart(node)
      BY <1>1 DEF Placed
    <2>5. QED
      BY <1>5, <2>2, <2>3, <2>4, PlacesKept
  <1>7. SlotSizes(node'.slots) = SlotSizes(node.slots)
    <2>1. \A j \in 1 .. N : SlotRecordSize(node'.slots[j]) = SlotRecordSize(node.slots[j])
      BY <1>4, SamePlaceFacts
    <2>2. QED
      BY <1>4, <2>1 DEF SlotSizes
  <1>8. Placed(node') /\ Roomy(node') /\ (Exact(node) => Exact(node'))
    BY <1>1, <1>4, <1>5, <1>6, <1>7 DEF Placed, Roomy, SlotSpace, Exact, RecordSpace
  <1>9. \A j \in 1 .. N : Carries(node', j, node, j)
    BY <1>4, <1>5, SamePlaceCarries
  <1>10. Accounted(node', records', overflow', hs, lost')
    <2>1. \A j \in 1 .. Len(records) : Leads(node', j, records[j], hs[j])
      BY <1>1, <1>2, <1>9, CarriesLeads DEF Accounted
    <2>2. QED
      BY <1>2, <1>3, <2>1 DEF Accounted
  <1>11. ~aborted' => NotLost(records', hs, lost')
    BY <1>2, <1>3
  <1>12. QED
    BY <1>3, <1>8, <1>10, <1>11 DEF DataInv

LEMMA DataUnchanged ==
    ASSUME DataInv, UNCHANGED vars
    PROVE  DataInv'
  <1>1. /\ node' = node /\ overflow' = overflow /\ records' = records /\ aborted' = aborted
        /\ lost' = lost /\ type' = type
    BY DEF vars
  <1>2. QED
    BY <1>1 DEF DataInv

\* A failed assertion in Insert: an overflow record was overwritten before.
LEMMA InsertAbortsData ==
    ASSUME TypeInv, DataInv, NEW r \in RecordsOf(type), InsertAborts(r)
    PROVE  DataInv'
  <1>1. /\ node' = node /\ overflow' = overflow /\ records' = records /\ lost' = lost
        /\ type' = type /\ aborted' = TRUE /\ ~AssertionsHold(node, Size(r), TRUE)
    BY DEF InsertAborts
  <1>2. lost # {}
    <2> SUFFICES ASSUME lost = {} PROVE FALSE
      OBVIOUS
    <2>1. Placed(node) /\ Exact(node) /\ SlotSpace(node) <= node.data_offset
      BY DEF DataInv, Roomy
    <2>2. Size(r) \in Nat
      BY RecordFacts
    <2>3. QED
      BY <1>1, <2>1, <2>2, ExactAsserts
  <1>3. QED
    BY <1>1, <1>2 DEF DataInv

\* ... and in Update of slot i, or the slot has an overflow record now.
LEMMA UpdateAbortsData ==
    ASSUME TypeInv, DataInv, NEW i \in 1 .. (Len(node.slots) + 1), NEW r \in RecordsOf(type),
           UpdateAborts(i, r)
    PROVE  DataInv'
  <1>1. /\ node' = node /\ overflow' = overflow /\ records' = records
        /\ lost' = lost \cup OverflowPages(node, i) /\ type' = type /\ aborted' = TRUE
        /\ ~AssertionsHold(DeleteRecord(node, i), Size(r), FALSE) /\ i <= Len(node.slots)
    BY DEF UpdateAborts
  <1>2. IsPage(node) /\ Len(node.slots) \in Nat /\ Len(records) = Len(node.slots)
        /\ Placed(node) /\ SlotSpace(node) <= node.data_offset
    BY SlotSpaceFacts DEF TypeInv, DataInv, Roomy
  <1>3. i \in 1 .. Len(node.slots)
    BY <1>1, <1>2
  <1>4. PICK hs : Accounted(node, records, overflow, hs, lost)
    BY DEF DataInv
  <1>5. /\ node.slots[i].is_overflow = ~Inline(records[i])
        /\ OverflowPages(node, i) = IF Inline(records[i]) THEN {} ELSE {hs[i]}
        /\ ~Inline(records[i]) => hs[i] \in DOMAIN overflow
    <2>1. Leads(node, i, records[i], hs[i]) /\ Refers(records[i], hs[i], overflow)
      BY <1>2, <1>3, <1>4 DEF Accounted
    <2>2. QED
      BY <1>2, <1>3, <2>1, OverflowPagesFacts DEF Refers
  <1>6. lost' # {}
    <2> SUFFICES ASSUME lost' = {} PROVE FALSE
      OBVIOUS
    <2> DEFINE d == DeleteRecord(node, i)
    <2>1. lost = {} /\ Inline(records[i])
      BY <1>1, <1>5
    <2>2. ~node.slots[i].is_overflow
      BY <1>5, <2>1, Zenon
    <2>3. Exact(node)
      BY <2>1 DEF DataInv
    <2>4. Placed(d) /\ Exact(d) /\ Len(d.slots) = Len(node.slots) /\ d.data_offset = node.data_offset
      <3>1. d = DeleteRecord(node, i)
        OBVIOUS
      <3> HIDE DEF d
      <3>2. QED
        BY <1>2, <1>3, <2>2, <2>3, <3>1, DeleteRecordPlaced
    <2>5. Size(r) \in Nat
      BY RecordFacts
    <2>6. ~AssertionsHold(d, Size(r), FALSE)
      BY <1>1
    <2> HIDE DEF d
    <2>7. SlotSpace(d) <= d.data_offset
      BY <1>2, <2>4 DEF SlotSpace
    <2>8. QED
      BY <2>4, <2>5, <2>6, <2>7, ExactAsserts
  <1>7. Accounted(node', records', overflow', hs, lost')
    <2>1. \A p \in lost' : p \in DOMAIN overflow
      BY <1>1, <1>4, <1>5 DEF Accounted
    <2>2. QED
      BY <1>1, <1>4, <2>1 DEF Accounted
  <1>8. lost' = {} \/ type' = "leaf" => Exact(node')
    BY <1>1 DEF DataInv
  <1>9. QED
    BY <1>1, <1>6, <1>7, <1>8 DEF DataInv

LEMMA DataStep ==
    ASSUME TypeInv, DataInv, [Next]_vars
    PROVE  DataInv'
  <1>1. CASE UNCHANGED vars
    BY <1>1, DataUnchanged
  <1>2. CASE Next
    <2>1. PICK i \in 1 .. (Len(node.slots) + 1) :
             \/ \E r \in RecordsOf(type) :
                   \/ /\ RoomForPages(r)
                      /\ \/ \E c \in IF type = "leaf" THEN {NoChild} ELSE Children,
                               right \in IF type = "leaf" THEN {FALSE} ELSE BOOLEAN :
                                  Insert(i, r, c, right)
                         \/ Update(i, r)
                   \/ UpdateFails(i, r)
                   \/ InsertAborts(r)
                   \/ UpdateAborts(i, r)
             \/ \E right \in IF type = "leaf" THEN {FALSE} ELSE BOOLEAN : Delete(i, right)
             \/ \E c \in Children : SetChild(i, c)
      BY <1>2, Zenon DEF Next
    <2>0. ~aborted
      BY <1>2, Zenon DEF Next
    <2>2. ASSUME NEW r \in RecordsOf(type), NEW c \in IF type = "leaf" THEN {NoChild} ELSE Children,
                 NEW right \in IF type = "leaf" THEN {FALSE} ELSE BOOLEAN,
                 RoomForPages(r), Insert(i, r, c, right)
          PROVE  DataInv'
      <3>1. c \in Children \cup {NoChild} /\ right \in BOOLEAN
        BY ConstantFacts
      <3>2. QED
        BY <2>0, <2>2, <3>1, InsertData
    <2>3. ASSUME NEW r \in RecordsOf(type), RoomForPages(r), Update(i, r)
          PROVE  DataInv'
      BY <2>0, <2>3, UpdateData
    <2>4. ASSUME NEW r \in RecordsOf(type), UpdateFails(i, r)
          PROVE  DataInv'
      BY <2>4, UpdateFailsStructure, DataUnchanged
    <2>5. ASSUME NEW right \in IF type = "leaf" THEN {FALSE} ELSE BOOLEAN, Delete(i, right)
          PROVE  DataInv'
      <3>1. right \in BOOLEAN
        OBVIOUS
      <3>2. QED
        BY <2>0, <2>5, <3>1, DeleteData
    <2>6. ASSUME NEW c \in Children, SetChild(i, c)
          PROVE  DataInv'
      BY <2>6, SetChildData
    <2>7. ASSUME NEW r \in RecordsOf(type), InsertAborts(r)
          PROVE  DataInv'
      BY <2>7, InsertAbortsData
    <2>8. ASSUME NEW r \in RecordsOf(type), UpdateAborts(i, r)
          PROVE  DataInv'
      BY <2>8, UpdateAbortsData
    <2>9. QED
      BY <2>1, <2>2, <2>3, <2>4, <2>5, <2>6, <2>7, <2>8
  <1>3. QED
    BY <1>1, <1>2

\* The page as a whole stays in order: the records have their places behind
\* data_offset, the slots lead to the records and overflow pages they should, and
\* the space is counted right as long as the code counts it right.  Compactify
\* runs only if its assertion holds, and then it keeps the records; with no
\* overflow record overwritten the assertion cannot fail.  The next three
\* theorems rest on this.
THEOREM PageInvariance == Spec => [](TypeInv /\ ChildInv /\ DataInv)
  <1>1. Init => TypeInv /\ ChildInv /\ DataInv
    BY StructureInit, DataInit
  <1>2. TypeInv /\ ChildInv /\ DataInv /\ [Next]_vars => (TypeInv /\ ChildInv /\ DataInv)'
    BY StructureStep, DataStep
  <1>3. QED
    BY <1>1, <1>2, PTL DEF Spec

\* What the invariant says of slot i.
LEMMA SlotHolds ==
    ASSUME TypeInv, DataInv
    PROVE  \E hs : /\ Accounted(node, records, overflow, hs, lost)
                   /\ ~aborted => NotLost(records, hs, lost)
                   /\ \A i \in 1 .. Len(node.slots) :
                         SlotRecordSize(node.slots[i]) > 0 => PgidAt(node, i) = hs[i]
  <1>1. PICK hs : /\ Accounted(node, records, overflow, hs, lost)
                  /\ ~aborted => NotLost(records, hs, lost)
    BY DEF DataInv
  <1>2. IsPage(node) /\ Len(records) = Len(node.slots)
    BY DEF TypeInv
  <1>3. \A i \in 1 .. Len(node.slots) :
           SlotRecordSize(node.slots[i]) > 0 => PgidAt(node, i) = hs[i]
    <2> SUFFICES ASSUME NEW i \in 1 .. Len(node.slots), SlotRecordSize(node.slots[i]) > 0
                 PROVE  PgidAt(node, i) = hs[i]
      OBVIOUS
    <2>1. Leads(node, i, records[i], hs[i])
      BY <1>1, <1>2 DEF Accounted
    <2>2. QED
      BY <1>2, <2>1, PgidIsHead
  <1>4. QED
    BY <1>1, <1>3

\* The size of a slot's record, and of the record it should be.
LEMMA SlotHoldsSize ==
    ASSUME TypeInv, NEW i \in 1 .. Len(node.slots), NEW h, Leads(node, i, records[i], h)
    PROVE  /\ node.slots[i] \in Slot /\ records[i] \in RecordsOf(type)
           /\ node.slots[i].is_overflow = ~Inline(records[i])
           /\ SlotRecordSize(node.slots[i]) = StoredSize(Size(records[i]))
           /\ SlotRecordSize(node.slots[i]) \in Nat
           /\ node.slots[i].is_overflow => SlotRecordSize(node.slots[i]) > 0
  <1>1. node.slots \in Seq(Slot) /\ records \in Seq(RecordsOf(type))
        /\ Len(records) = Len(node.slots)
    BY DEF TypeInv, IsPage
  <1>2. node.slots[i] \in Slot /\ records[i] \in RecordsOf(type)
    BY <1>1
  <1>3. /\ node.slots[i].key_size = records[i].key_size
        /\ node.slots[i].value_size = records[i].value_size
        /\ node.slots[i].is_overflow = ~Inline(records[i])
    BY DEF Leads
  <1>4. SlotRecordSize(node.slots[i]) = StoredSize(Size(records[i]))
    BY <1>3 DEF SlotRecordSize, StoredSize, Size, Inline
  <1>5. SlotRecordSize(node.slots[i]) \in Nat
        /\ (node.slots[i].is_overflow => SlotRecordSize(node.slots[i]) > 0)
    BY <1>2, SlotFacts, ConstantFacts
  <1>6. QED
    BY <1>2, <1>3, <1>4, <1>5

\* The unit at offset + c of a record, seen from its cell.
LEMMA CellsReads ==
    ASSUME TypeInv, NEW i \in 1 .. Len(node.slots), NEW h, Leads(node, i, records[i], h),
           NEW c \in Cells(node, i)
    PROVE  /\ node.mem[c] = <<h, c - node.slots[i].record_offset>>
           /\ node.mem[node.slots[i].record_offset][1] = h
  <1> DEFINE o == node.slots[i].record_offset
             z == SlotRecordSize(node.slots[i])
  <1>1. node.slots[i] \in Slot /\ z \in Nat
    BY SlotHoldsSize
  <1>2. o \in Int
    BY <1>1, SlotFacts
  <1>3. c \in o .. (o + z - 1)
    BY DEF Cells
  <1>4. \A u \in 0 .. (z - 1) : node.mem[o + u] = <<h, u>>
    BY DEF Leads, Reads
  <1> HIDE DEF o, z
  <1>5. c - o \in 0 .. (z - 1) /\ o + (c - o) = c /\ 0 \in 0 .. (z - 1) /\ o + 0 = o
    BY <1>1, <1>2, <1>3
  <1>6. node.mem[o + (c - o)] = <<h, c - o>> /\ node.mem[o + 0] = <<h, 0>>
    BY <1>4, <1>5
  <1>7. node.mem[c] = <<h, c - o>> /\ node.mem[o] = <<h, 0>>
    BY <1>5, <1>6, Zenon
  <1>8. QED
    BY <1>7 DEF o

\* Every slot leads to its whole record: after Insert, Update, UpdateFails and
\* Delete in any order, with Compactify moving the records whenever
\* RequestSpaceFor needs it, GetKey and GetValue return what StoreRecord stored
\* last for that slot, unit by unit, inline or in its overflow page.
THEOREM RecordsIntactHolds == Spec => []RecordsIntact
  <1>1. TypeInv /\ DataInv => RecordsIntact
    <2> SUFFICES ASSUME TypeInv, DataInv
                 PROVE  RecordsIntact
      OBVIOUS
    <2>1. PICK hs : /\ Accounted(node, records, overflow, hs, lost)
                    /\ ~aborted => NotLost(records, hs, lost)
                    /\ \A i \in 1 .. Len(node.slots) :
                          SlotRecordSize(node.slots[i]) > 0 => PgidAt(node, i) = hs[i]
      BY SlotHolds
    <2>2. Len(node.slots) = Len(records) /\ DOMAIN records = 1 .. Len(node.slots)
      BY DEF TypeInv
    <2>3. ASSUME NEW i \in 1 .. Len(node.slots)
          PROVE  /\ node.slots[i].is_overflow => PgidAt(node, i) \in DOMAIN overflow
                 /\ RecordAt(i) = records[i]
                 /\ \A c \in Cells(node, i) :
                       node.mem[c] = <<node.mem[node.slots[i].record_offset][1],
                                       c - node.slots[i].record_offset>>
      <3>1. Leads(node, i, records[i], hs[i]) /\ Refers(records[i], hs[i], overflow)
        BY <2>1, <2>2 DEF Accounted
      <3>2. /\ node.slots[i] \in Slot /\ records[i] \in RecordsOf(type)
            /\ node.slots[i].is_overflow = ~Inline(records[i])
            /\ SlotRecordSize(node.slots[i]) \in Nat
            /\ node.slots[i].is_overflow => SlotRecordSize(node.slots[i]) > 0
        BY <3>1, SlotHoldsSize
      <3>3. \A c \in Cells(node, i) :
               node.mem[c] = <<node.mem[node.slots[i].record_offset][1],
                               c - node.slots[i].record_offset>>
        BY <3>1, CellsReads
      <3>4. CASE Inline(records[i])
        <4>1. ~node.slots[i].is_overflow
          BY <3>2, <3>4, Zenon
        <4>2. records[i] = [tag |-> records[i].tag, key_size |-> records[i].key_size,
                            value_size |-> records[i].value_size]
          BY <3>2 DEF RecordsOf
        <4>3. node.slots[i].key_size = records[i].key_size
              /\ node.slots[i].value_size = records[i].value_size
          BY <3>1 DEF Leads
        <4>4. Size(node.slots[i]) # 0 => node.mem[node.slots[i].record_offset][1] = records[i].tag
          <5> SUFFICES ASSUME Size(node.slots[i]) # 0
                       PROVE  node.mem[node.slots[i].record_offset][1] = records[i].tag
            OBVIOUS
          <5>1. SlotRecordSize(node.slots[i]) = Size(node.slots[i])
            BY <4>1 DEF SlotRecordSize
          <5>2. SlotRecordSize(node.slots[i]) > 0
            BY <3>2, <5>1
          <5>3. PgidAt(node, i) = hs[i]
            BY <2>1, <5>2
          <5>4. hs[i] = records[i].tag
            BY <3>1, <3>4 DEF Refers
          <5>5. QED
            BY <5>3, <5>4 DEF PgidAt
        <4>5. RecordAt(i) = [tag |-> records[i].tag, key_size |-> records[i].key_size,
                             value_size |-> records[i].value_size]
          BY <4>1, <4>3, <4>4, Zenon DEF RecordAt
        <4>6. QED
          BY <3>3, <4>1, <4>2, <4>5
      <3>5. CASE ~Inline(records[i])
        <4>1. node.slots[i].is_overflow
          BY <3>2, <3>5, Zenon
        <4>2. PgidAt(node, i) = hs[i]
          BY <2>1, <3>2, <4>1
        <4>3. hs[i] \in DOMAIN overflow /\ overflow[hs[i]] = records[i]
          BY <3>1, <3>5 DEF Refers
        <4>4. RecordAt(i) = records[i]
          BY <4>1, <4>2, <4>3 DEF RecordAt
        <4>5. QED
          BY <3>3, <4>2, <4>3, <4>4
      <3>6. QED
        BY <3>4, <3>5
    <2>4. QED
      BY <2>2, <2>3 DEF RecordsIntact
  <1>2. QED
    BY <1>1, PageInvariance, PTL

\* The overflow pages in use are those the slots refer to, each from one slot,
\* and those of the overflow records that Update has overwritten: Delete frees
\* the page of the record it takes out and of no other, StoreRecord never takes a
\* page that another record is in, and no operation but Update of an overflow
\* record (LeafNode::Update, BranchNode::Update) leaves a page behind.
THEOREM OverflowAccountedForHolds == Spec => []OverflowAccountedFor
  <1>1. TypeInv /\ DataInv => OverflowAccountedFor
    <2> SUFFICES ASSUME TypeInv, DataInv
                 PROVE  OverflowAccountedFor
      OBVIOUS
    <2> DEFINE S == {i \in DOMAIN node.slots : node.slots[i].is_overflow}
    <2>1. PICK hs : /\ Accounted(node, records, overflow, hs, lost)
                    /\ ~aborted => NotLost(records, hs, lost)
                    /\ \A i \in 1 .. Len(node.slots) :
                          SlotRecordSize(node.slots[i]) > 0 => PgidAt(node, i) = hs[i]
      BY SlotHolds
    <2>2. Len(node.slots) = Len(records) /\ DOMAIN node.slots = 1 .. Len(node.slots)
      BY DEF TypeInv, IsPage
    <2>3. ASSUME NEW i \in 1 .. Len(node.slots)
          PROVE  /\ i \in S <=> ~Inline(records[i])
                 /\ i \in S => PgidAt(node, i) = hs[i] /\ hs[i] \in DOMAIN overflow
      <3>1. Leads(node, i, records[i], hs[i]) /\ Refers(records[i], hs[i], overflow)
        BY <2>1, <2>2 DEF Accounted
      <3>2. /\ node.slots[i].is_overflow = ~Inline(records[i])
            /\ node.slots[i].is_overflow => SlotRecordSize(node.slots[i]) > 0
        BY <3>1, SlotHoldsSize
      <3>3. i \in S <=> node.slots[i].is_overflow
        BY <2>2
      <3> HIDE DEF S
      <3>4. i \in S <=> ~Inline(records[i])
        BY <3>2, <3>3, Zenon
      <3>5. i \in S => PgidAt(node, i) = hs[i]
        BY <2>1, <3>2, <3>3
      <3>6. i \in S => hs[i] \in DOMAIN overflow
        BY <3>1, <3>4 DEF Refers
      <3>7. QED
        BY <3>4, <3>5, <3>6
    <2>4. S \subseteq 1 .. Len(node.slots)
      BY <2>2
    <2> HIDE DEF S
    <2>5. ASSUME NEW p \in DOMAIN overflow, p \notin lost
          PROVE  \E i \in S : PgidAt(node, i) = p
      <3>1. PICK i \in 1 .. Len(records) : ~Inline(records[i]) /\ hs[i] = p
        BY <2>1, <2>5 DEF Accounted
      <3>2. QED
        BY <2>2, <2>3, <3>1
    <2>6. /\ DOMAIN overflow = {PgidAt(node, i) : i \in S} \cup lost
          /\ ~aborted => {PgidAt(node, i) : i \in S} \cap lost = {}
      <3>1. \A p \in lost : p \in DOMAIN overflow
        BY <2>1 DEF Accounted
      <3>2. ASSUME ~aborted, NEW i \in S
            PROVE  PgidAt(node, i) \notin lost
        <4>1. i \in 1 .. Len(records) /\ ~Inline(records[i]) /\ PgidAt(node, i) = hs[i]
          BY <2>2, <2>3, <2>4
        <4>2. QED
          BY <2>1, <3>2, <4>1 DEF NotLost
      <3>3. QED
        BY <2>3, <2>4, <2>5, <3>1, <3>2
    <2>7. ASSUME NEW i \in S, NEW j \in S, PgidAt(node, i) = PgidAt(node, j)
          PROVE  i = j
      <3>1. hs[i] = hs[j] /\ ~Inline(records[i]) /\ ~Inline(records[j])
            /\ i \in 1 .. Len(records) /\ j \in 1 .. Len(records)
        BY <2>2, <2>3, <2>4, <2>7
      <3>2. QED
        BY <2>1, <3>1 DEF Accounted
    <2>8. QED
      BY <2>6, <2>7 DEF OverflowAccountedFor, S
  <1>2. QED
    BY <1>1, PageInvariance, PTL

\* UsedSpace adds up the sizes of the slots' records.
LEMMA UsedSpaceFacts ==
    ASSUME TypeInv, DataInv
    PROVE  UsedSpace = Total(SlotSizes(node.slots))
  <1> DEFINE N == Len(records)
             z == SlotSizes(node.slots)
             P == PrefixSum(z, N)
             Is(f) == f = [i \in 0 .. N |-> IF i = 0 THEN 0
                                            ELSE f[i - 1] + StoredSize(Size(records[i]))]
             E == CHOOSE f : Is(f)
  <1>1. node.slots \in Seq(Slot) /\ N \in Nat /\ Len(node.slots) = N
    BY DEF TypeInv, IsPage
  <1>2. PICK hs : Accounted(node, records, overflow, hs, lost)
    BY DEF DataInv
  <1>3. /\ z \in Seq(Nat) /\ Len(z) = N
        /\ \A i \in 1 .. N : z[i] = StoredSize(Size(records[i])) /\ z[i] \in Nat
    <2>1. \A i \in 1 .. N : SlotRecordSize(node.slots[i]) = StoredSize(Size(records[i]))
      <3>1. ASSUME NEW i \in 1 .. N
            PROVE  SlotRecordSize(node.slots[i]) = StoredSize(Size(records[i]))
        <4>1. Leads(node, i, records[i], hs[i]) /\ i \in 1 .. Len(node.slots)
          BY <1>1, <1>2 DEF Accounted
        <4>2. QED
          BY <4>1, SlotHoldsSize
      <3>2. QED
        BY <3>1
    <2>2. QED
      BY <1>1, <2>1, SlotSizesFacts
  <1>4. /\ P \in [0 .. N -> Nat] /\ P[0] = 0
        /\ \A i \in 1 .. N : P[i] = P[i - 1] + z[i]
    <2>1. N \in 0 .. Len(z)
      BY <1>1, <1>3
    <2> HIDE DEF z, N
    <2>2. QED
      BY <1>3, <2>1, PrefixFacts
  <1>5. Total(z) = P[N]
    <2> HIDE DEF z, N
    <2>1. QED
      BY <1>3 DEF Total
  <1>6. UsedSpace = E[N]
    BY DEF UsedSpace
  <1> HIDE DEF P, z, N
  <1>7. Is(P)
    <2>1. ASSUME NEW i \in 0 .. N
          PROVE  P[i] = IF i = 0 THEN 0 ELSE P[i - 1] + StoredSize(Size(records[i]))
      <3>1. CASE i = 0
        BY <1>4, <3>1
      <3>2. CASE i # 0
        <4>1. i \in 1 .. N
          BY <1>1, <3>2
        <4>2. QED
          BY <1>3, <1>4, <3>2, <4>1
      <3>3. QED
        BY <3>1, <3>2
    <2>2. P = [i \in 0 .. N |-> P[i]]
      BY <1>4
    <2>3. QED
      BY <2>1, <2>2
  <1>8. Is(E)
    <2> HIDE DEF Is
    <2>1. QED
      BY <1>7
  <1> HIDE DEF E
  <1>9. E[0] = 0 /\ \A i \in 1 .. N : E[i] = E[i - 1] + z[i]
    BY <1>1, <1>3, <1>8
  <1> HIDE DEF Is
  <1> DEFINE T == {i \in 0 .. N : E[i] = P[i]}
  <1>10. 0 \in T
    BY <1>1, <1>4, <1>9
  <1>11. ASSUME NEW k \in 0 .. (N - 1), k \in T
         PROVE  k + 1 \in T
    <2>1. k + 1 \in 1 .. N /\ (k + 1) - 1 = k /\ k + 1 \in 0 .. N
      BY <1>1
    <2>2. E[k + 1] = E[k] + z[k + 1] /\ P[k + 1] = P[k] + z[k + 1]
      BY <1>4, <1>9, <2>1
    <2>3. QED
      BY <1>11, <2>1, <2>2
  <1>12. 0 .. N \subseteq T
    <2> HIDE DEF T
    <2>1. QED
      BY <1>1, <1>10, <1>11, RangeInduction
  <1>13. E[N] = P[N]
    BY <1>1, <1>12
  <1>14. QED
    BY <1>5, <1>6, <1>13 DEF z

\* The counters tell the truth: records lie side by side between data_offset and
\* the end of the page, and the slots never reach them, whatever Insert and Update
\* are called with.  Until Update has been called on a slot with an overflow
\* record, no assertion of RequestSpaceFor and Compactify fails and space_used is
\* the space of the records that are there, so that RequestSpaceFor refuses only a
\* record that does not fit; in a leaf space_used is right even after that.
THEOREM SpaceIsExactHolds == Spec => []SpaceIsExact
  <1>1. TypeInv /\ DataInv => SpaceIsExact
    <2> SUFFICES ASSUME TypeInv, DataInv
                 PROVE  SpaceIsExact
      OBVIOUS
    <2>1. /\ IsPage(node) /\ node.slots \in Seq(Slot) /\ node.data_offset \in Int
          /\ DOMAIN node.slots = 1 .. Len(node.slots)
      BY DEF TypeInv, IsPage
    <2>2. /\ InPage(node) /\ Apart(node)
          /\ lost = {} => ~aborted
          /\ lost = {} \/ type = "leaf" => node.space_used = Total(SlotSizes(node.slots))
          /\ SlotSpace(node) <= node.data_offset
      BY DEF DataInv, Placed, Roomy, Exact, RecordSpace
    <2>3. lost = {} \/ type = "leaf" => node.space_used = UsedSpace
      BY <2>2, UsedSpaceFacts
    <2>4. ASSUME NEW i \in 1 .. Len(node.slots), NEW c \in Cells(node, i)
          PROVE  /\ node.slots[i].record_offset \in Int /\ SlotRecordSize(node.slots[i]) \in Nat
                 /\ SlotRecordSize(node.slots[i]) > 0 /\ c \in Int
                 /\ node.slots[i].record_offset <= c
                 /\ c < node.slots[i].record_offset + SlotRecordSize(node.slots[i])
      <3>1. node.slots[i].record_offset \in Int /\ SlotRecordSize(node.slots[i]) \in Nat
        BY <2>1, SlotFacts
      <3>2. QED
        BY <3>1 DEF Cells
    <2>5. ASSUME NEW i \in 1 .. Len(node.slots)
          PROVE  Cells(node, i) \subseteq node.data_offset .. (PageSize - 1)
      <3>1. ASSUME NEW c \in Cells(node, i)
            PROVE  c \in node.data_offset .. (PageSize - 1)
        <4>1. node.data_offset <= node.slots[i].record_offset
              /\ node.slots[i].record_offset + SlotRecordSize(node.slots[i]) <= PageSize
          BY <2>2, <2>4 DEF InPage
        <4>2. QED
          BY <2>1, <2>4, <4>1, ConstantFacts
      <3>2. QED
        BY <3>1
    <2>6. ASSUME NEW i \in 1 .. Len(node.slots), NEW j \in 1 .. Len(node.slots), i # j
          PROVE  Cells(node, i) \cap Cells(node, j) = {}
      <3> SUFFICES ASSUME NEW c \in Cells(node, i), c \in Cells(node, j)
                   PROVE  FALSE
        OBVIOUS
      <3>1. \/ node.slots[i].record_offset + SlotRecordSize(node.slots[i])
                  <= node.slots[j].record_offset
            \/ node.slots[j].record_offset + SlotRecordSize(node.slots[j])
                  <= node.slots[i].record_offset
        BY <2>2, <2>4, <2>6 DEF Apart
      <3>2. QED
        BY <2>4, <3>1
    <2>7. QED
      BY <2>1, <2>2, <2>3, <2>5, <2>6 DEF SpaceIsExact
  <1>2. QED
    BY <1>1, PageInvariance, PTL
=============================================================================
