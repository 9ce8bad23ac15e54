---------------------------- MODULE PagerProofs ----------------------------
(***************************************************************************)
(* Proofs about Pager, for files and ranges of any size: no page is held   *)
(* twice, the free list fits and overlaps nothing, and the lists of ranges *)
(* implement PageSets.                                                     *)
(***************************************************************************)
EXTENDS Pager, FiniteSetTheorems, TLAPS

-----------------------------------------------------------------------------
(* The inductive invariant.                                                 *)

\* A map of ranges that lie behind each other and inside the file.
MapOK(f) ==
    /\ DOMAIN f \subseteq PageIds
    /\ f \in [DOMAIN f -> Counts]
    /\ \A p \in DOMAIN f : p + f[p] <= PageMaxCount
    /\ \A p, q \in DOMAIN f : p < q => p + f[p] <= q

\* Different members, or members at different places, do not overlap.
SetApart(S) == \A r, s \in S : r # s => PagesOf(r) \cap PagesOf(s) = {}
SeqApart(s) == \A i, j \in DOMAIN s : i # j => PagesOf(s[i]) \cap PagesOf(s[j]) = {}

FreeMapPages == PagesOfMap(free_map)
UsedPages    == PagesOfSet(in_use)
SavedPages   == PagesOfSet(saved)
RecordPages  == PagesOfSeq(alloc_records)
Pending(t)   == PagesOfSeq(pending_map[t])

TypeInv ==
    /\ TypeOK
    /\ MapOK(free_map)
    /\ 2 <= meta.page_count /\ meta.page_count <= page_count
    /\ phase = "open" => meta.txid < MaxTxId /\ releasable <= meta.txid
    /\ phase # "open" => releasable = 0 /\ before = NoState /\ ops = 0

\* The free map, the tree and the pending lists share no page, nor do two ranges
\* of the tree or of a pending list; nothing is pending for a later transaction.
ApartInv ==
    /\ FreeMapPages \subseteq 2 .. (page_count - 1)
    /\ UsedPages \subseteq 2 .. (page_count - 1)
    /\ FreeMapPages \cap UsedPages = {}
    /\ SetApart(in_use)
    /\ \A t \in TxIds :
          /\ SeqApart(pending_map[t])
          /\ Pending(t) \subseteq 2 .. (page_count - 1)
          /\ Pending(t) \cap FreeMapPages = {}
          /\ Pending(t) \cap UsedPages = {}
          /\ \A u \in TxIds : u # t => Pending(t) \cap Pending(u) = {}
          /\ t > meta.txid + 1 => pending_map[t] = << >>

\* What a rollback would put back is apart from the rest, and was in the file
\* before the transaction began.
RecordsInv ==
    /\ SeqApart(alloc_records)
    /\ RecordPages \subseteq 2 .. (meta.page_count - 1)
    /\ RecordPages \cap FreeMapPages = {}
    /\ RecordPages \cap SavedPages = {}
    /\ \A t \in TxIds : t <= meta.txid => RecordPages \cap Pending(t) = {}

\* The committed tree, while a transaction is open, and what PageSets knows of
\* the beginning of the transaction.
OpenInv ==
    /\ RecordsInv
    /\ SetApart(saved)
    /\ SavedPages \subseteq 2 .. (meta.page_count - 1)
    /\ FreeMapPages \subseteq 2 .. (meta.page_count - 1)
    /\ SavedPages \cap FreeMapPages = {}
    /\ \A t \in TxIds : t <= meta.txid => /\ SavedPages \cap Pending(t) = {}
                                          /\ Pending(t) \subseteq 2 .. (meta.page_count - 1)
    /\ before = [free       |-> FreePages \cup RecordPages,
                 pending    |-> [t \in TxIds |-> IF t < releasable \/ t = meta.txid + 1
                                                 THEN {} ELSE Pending(t)],
                 used       |-> SavedPages,
                 page_count |-> meta.page_count]

\* Between transactions, and while a rollback is running.
IdleInv ==
    /\ saved = in_use
    /\ page_count = meta.page_count
    /\ \A t \in TxIds : t > meta.txid => pending_map[t] = << >>
    /\ phase = "rollback" => RecordsInv

IInv ==
    /\ TypeInv
    /\ ApartInv
    /\ phase = "open" => OpenInv
    /\ phase # "open" => IdleInv

-----------------------------------------------------------------------------
(* Ranges, maps and lists of ranges.                                        *)

LEMMA Consts ==
    /\ MaxTxId \in Nat /\ InitCount \in Nat /\ PageMaxCount \in Nat /\ MaxOps \in Nat
    /\ MaxTxId >= 1 /\ InitCount >= 2 /\ PageMaxCount >= InitCount
    /\ MaxCount \in Nat \ {0} /\ PairsPerPage \in Nat \ {0}
    /\ \A t \in TxIds : t \in Nat
  BY ConstantsAssumption DEF TxIds

\* The pages of a range are those from its first one on.
LEMMA InRange ==
    ASSUME NEW p \in Int, NEW c \in Int, NEW x
    PROVE  x \in PagesOf(<<p, c>>) <=> x \in Int /\ p <= x /\ x < p + c
  BY DEF PagesOf

LEMMA InMap ==
    ASSUME NEW f, MapOK(f), NEW x
    PROVE  x \in PagesOfMap(f) <=> \E p \in DOMAIN f : x \in Int /\ p <= x /\ x < p + f[p]
  <1>1. \A p \in DOMAIN f : p \in Int /\ f[p] \in Int
    BY Consts DEF MapOK, PageIds, Counts
  <1>2. x \in PagesOfMap(f) <=> \E p \in DOMAIN f : x \in PagesOf(<<p, f[p]>>)
    BY DEF PagesOfMap
  <1>3. QED
    BY <1>1, <1>2, InRange

\* A range whose pages are not in the map lies before or behind each of the
\* map's ranges.
LEMMA ApartFromMap ==
    ASSUME NEW f, MapOK(f), NEW p \in PageIds, NEW c \in Counts,
           PagesOf(<<p, c>>) \cap PagesOfMap(f) = {},
           NEW q \in DOMAIN f
    PROVE  q + f[q] <= p \/ p + c <= q
  <1>1. /\ p \in Int /\ c \in Int /\ q \in Int /\ f[q] \in Int /\ c >= 1 /\ f[q] >= 1
    BY Consts DEF MapOK, PageIds, Counts
  <1>2. CASE q <= p
    <2>1. p \in PagesOf(<<p, c>>)
      BY <1>1, InRange
    <2>2. p \notin PagesOfMap(f)
      BY <2>1
    <2>3. QED
      BY <1>1, <1>2, <2>2, InMap
  <1>3. CASE p < q
    <2>1. q \in PagesOfMap(f)
      BY <1>1, InMap
    <2>2. q \notin PagesOf(<<p, c>>)
      BY <2>1
    <2>3. QED
      BY <1>1, <1>3, <2>2, InRange
  <1>4. QED
    BY <1>1, <1>2, <1>3

\* Taking a range out of the map.
LEMMA WithoutOK ==
    ASSUME NEW f, MapOK(f), NEW n \in DOMAIN f
    PROVE  /\ MapOK(Without(f, n))
           /\ DOMAIN Without(f, n) = DOMAIN f \ {n}
           /\ \A q \in DOMAIN f \ {n} : Without(f, n)[q] = f[q]
           /\ PagesOfMap(Without(f, n)) = PagesOfMap(f) \ PagesOf(<<n, f[n]>>)
  <1> DEFINE g == Without(f, n)
  <1>1. DOMAIN g = DOMAIN f \ {n} /\ \A q \in DOMAIN f \ {n} : g[q] = f[q]
    BY DEF Without
  <1>2. MapOK(g)
    BY <1>1 DEF MapOK, Without
  <1>3. n \in Int /\ \A q \in DOMAIN f : q \in Int /\ f[q] \in Int
    BY Consts DEF MapOK, PageIds, Counts
  <1>4. ASSUME NEW x
        PROVE  x \in PagesOfMap(g) <=> x \in PagesOfMap(f) /\ x \notin PagesOf(<<n, f[n]>>)
    <2> HIDE DEF g
    <2>1. \A q \in DOMAIN f : q # n => q + f[q] <= n \/ n + f[n] <= q
      BY <1>3 DEF MapOK
    <2>2. x \in PagesOfMap(g) <=> \E q \in DOMAIN f \ {n} : x \in Int /\ q <= x /\ x < q + f[q]
      BY <1>1, <1>2, InMap
    <2>3. x \in PagesOfMap(f) <=> \E q \in DOMAIN f : x \in Int /\ q <= x /\ x < q + f[q]
      BY InMap
    <2>4. x \in PagesOf(<<n, f[n]>>) <=> x \in Int /\ n <= x /\ x < n + f[n]
      BY <1>3, InRange
    <2>5. QED
      BY <1>3, <2>1, <2>2, <2>3, <2>4
  <1>5. QED
    BY <1>1, <1>2, <1>4

\* The range of c pages from p on is not in the map.
FitsInto(f, p, c) ==
    /\ MapOK(f) /\ p \in PageIds /\ c \in Counts /\ p + c <= PageMaxCount
    /\ PagesOf(<<p, c>>) \cap PagesOfMap(f) = {}

\* Putting a range into the map.
LEMMA InsertOK ==
    ASSUME NEW f, NEW p, NEW c, FitsInto(f, p, c)
    PROVE  /\ MapOK(Insert(f, p, c))
           /\ PagesOfMap(Insert(f, p, c)) = PagesOfMap(f) \cup PagesOf(<<p, c>>)
  <1> DEFINE g == Insert(f, p, c)
  <1>0. /\ MapOK(f) /\ p \in PageIds /\ c \in Counts /\ p + c <= PageMaxCount
        /\ PagesOf(<<p, c>>) \cap PagesOfMap(f) = {}
    BY DEF FitsInto
  <1> USE <1>0
  <1>1. /\ p \in Int /\ c \in Int /\ c >= 1
        /\ \A q \in DOMAIN f : q \in Int /\ f[q] \in Int /\ f[q] >= 1
    BY Consts DEF MapOK, PageIds, Counts
  <1>2. \A q \in DOMAIN f : q + f[q] <= p \/ p + c <= q
    BY ApartFromMap
  <1>3. p \notin DOMAIN f
    BY <1>1, <1>2
  <1>4. /\ DOMAIN g = DOMAIN f \cup {p} /\ g[p] = c
        /\ \A q \in DOMAIN f : g[q] = f[q]
    BY <1>3 DEF Insert
  <1>5. g \in [DOMAIN g -> Counts]
    BY <1>3, <1>4 DEF Insert, MapOK
  <1>6. MapOK(g)
    <2> HIDE DEF g
    <2>1. \A q \in DOMAIN g : q + g[q] <= PageMaxCount
      BY <1>4 DEF MapOK
    <2>2. \A q, s \in DOMAIN g : q < s => q + g[q] <= s
      BY <1>1, <1>2, <1>4 DEF MapOK
    <2>3. QED
      BY <1>4, <1>5, <2>1, <2>2 DEF MapOK
  <1>7. ASSUME NEW x
        PROVE  x \in PagesOfMap(g) <=> x \in PagesOfMap(f) \/ x \in PagesOf(<<p, c>>)
    <2> HIDE DEF g
    <2>1. x \in PagesOfMap(g) <=> \E q \in DOMAIN g : x \in Int /\ q <= x /\ x < q + g[q]
      BY <1>6, InMap
    <2>2. x \in PagesOfMap(f) <=> \E q \in DOMAIN f : x \in Int /\ q <= x /\ x < q + f[q]
      BY InMap
    <2>3. x \in PagesOf(<<p, c>>) <=> x \in Int /\ p <= x /\ x < p + c
      BY <1>1, InRange
    <2>4. QED
      BY <1>4, <2>1, <2>2, <2>3
  <1>8. QED
    BY <1>4, <1>6, <1>7

\* Lengthening the range at q by c.
Lengthen(f, q, c) == [s \in DOMAIN f |-> IF s = q THEN f[s] + c ELSE f[s]]

LEMMA LengthenOK ==
    ASSUME NEW f, MapOK(f), NEW p \in PageIds, NEW c \in Counts, p + c <= PageMaxCount,
           PagesOf(<<p, c>>) \cap PagesOfMap(f) = {},
           NEW q \in DOMAIN f, q + f[q] = p
    PROVE  /\ MapOK(Lengthen(f, q, c))
           /\ PagesOfMap(Lengthen(f, q, c)) = PagesOfMap(f) \cup PagesOf(<<p, c>>)
  <1> DEFINE g == Lengthen(f, q, c)
  <1>1. /\ p \in Int /\ c \in Int /\ c >= 1 /\ p >= 0
        /\ \A s \in DOMAIN f : s \in Int /\ s >= 0 /\ f[s] \in Int /\ f[s] >= 1
    BY Consts DEF MapOK, PageIds, Counts
  <1>2. \A s \in DOMAIN f : s + f[s] <= p \/ p + c <= s
    BY ApartFromMap
  <1>3. DOMAIN g = DOMAIN f /\ g[q] = f[q] + c /\ \A s \in DOMAIN f : s # q => g[s] = f[s]
    BY DEF Lengthen
  <1>4. \A s \in DOMAIN g : g[s] \in Counts /\ s + g[s] <= PageMaxCount
    <2> HIDE DEF g
    <2>1. q + g[q] = p + c /\ g[q] \in Int /\ g[q] >= 1
      BY <1>1, <1>3
    <2>2. g[q] \in Counts
      BY <1>1, <2>1, Consts DEF Counts
    <2>3. QED
      BY <1>3, <2>1, <2>2 DEF MapOK
  <1>5. MapOK(g)
    <2>1. g \in [DOMAIN g -> Counts]
      BY <1>4 DEF Lengthen
    <2> HIDE DEF g
    <2>2. \A s, u \in DOMAIN g : s < u => s + g[s] <= u
      <3> SUFFICES ASSUME NEW s \in DOMAIN f, NEW u \in DOMAIN f, s < u PROVE s + g[s] <= u
        BY <1>3
      <3>1. s + f[s] <= u
        BY DEF MapOK
      <3>2. CASE s = q
        <4>1. u >= p + c
          BY <1>1, <1>2, <3>1, <3>2
        <4>2. QED
          BY <1>1, <1>3, <3>2, <4>1
      <3>3. CASE s # q
        BY <1>3, <3>1, <3>3
      <3>4. QED
        BY <3>2, <3>3
    <2>3. QED
      BY <1>3, <1>4, <2>1, <2>2 DEF MapOK
  <1>6. ASSUME NEW x
        PROVE  x \in PagesOfMap(g) <=> x \in PagesOfMap(f) \/ x \in PagesOf(<<p, c>>)
    <2> HIDE DEF g
    <2>1. x \in PagesOfMap(g) <=> \E s \in DOMAIN f : x \in Int /\ s <= x /\ x < s + g[s]
      BY <1>3, <1>5, InMap
    <2>2. x \in PagesOfMap(f) <=> \E s \in DOMAIN f : x \in Int /\ s <= x /\ x < s + f[s]
      BY InMap
    <2>3. x \in PagesOf(<<p, c>>) <=> x \in Int /\ p <= x /\ x < p + c
      BY <1>1, InRange
    <2>4. QED
      BY <1>1, <1>3, <2>1, <2>2, <2>3
  <1>7. QED
    BY <1>5, <1>6

\* Pager::FreeToMap, whichever neighbours it merges: the range is added to the
\* free pages, and the map stays a map of ranges that do not overlap.
LEMMA FreeToMapOK ==
    ASSUME NEW f, MapOK(f), NEW r \in Ranges, r[1] + r[2] <= PageMaxCount,
           PagesOf(r) \cap PagesOfMap(f) = {}
    PROVE  /\ MapOK(FreeToMap(f, r))
           /\ PagesOfMap(FreeToMap(f, r)) = PagesOfMap(f) \cup PagesOf(r)
  <1> DEFINE p      == r[1]
             next   == p + r[2]
             merges == IsLowerBound(f, p, next)
             rest   == IF merges THEN Without(f, next) ELSE f
             c      == IF merges THEN r[2] + f[next] ELSE r[2]
             looks  == merges \/ \A q \in DOMAIN f : q < p
             prevs  == {q \in DOMAIN f : IsPredecessor(f, p, q) /\ q + f[q] = p}
             merged == [q \in DOMAIN rest |-> IF q \in prevs THEN rest[q] + c ELSE rest[q]]
  <1>1. FreeToMap(f, r) = IF looks /\ prevs # {} THEN merged ELSE Insert(rest, p, c)
    BY DEF FreeToMap
  <1>2. /\ r = <<p, r[2]>> /\ p \in PageIds /\ r[2] \in Counts
        /\ p \in Int /\ r[2] \in Int /\ r[2] >= 1 /\ p >= 0
        /\ \A q \in DOMAIN f : q \in Int /\ q >= 0 /\ f[q] \in Int /\ f[q] >= 1
    BY Consts DEF Ranges, PageIds, Counts, MapOK
  <1>3. /\ MapOK(rest)
        /\ \A q \in DOMAIN f : q < p => q \in DOMAIN rest /\ rest[q] = f[q]
        /\ c \in Counts /\ p + c <= PageMaxCount
        /\ PagesOf(<<p, c>>) \cap PagesOfMap(rest) = {}
        /\ PagesOfMap(rest) \cup PagesOf(<<p, c>>) = PagesOfMap(f) \cup PagesOf(r)
    <2>1. CASE merges
      <3>1. next \in DOMAIN f /\ rest = Without(f, next) /\ c = r[2] + f[next]
        BY <2>1 DEF IsLowerBound
      <3>2. c \in Int /\ c >= 1 /\ p + c = next + f[next]
        BY <1>2, <3>1
      <3>3. p + c <= PageMaxCount /\ c \in Counts
        BY <1>2, <3>1, <3>2, Consts DEF MapOK, Counts
      <3>4. PagesOf(<<p, c>>) = PagesOf(r) \cup PagesOf(<<next, f[next]>>)
        <4>1. ASSUME NEW x
              PROVE  x \in PagesOf(<<p, c>>) <=> x \in PagesOf(r) \/ x \in PagesOf(<<next, f[next]>>)
          <5>1. x \in PagesOf(<<p, c>>) <=> x \in Int /\ p <= x /\ x < p + c
            BY <1>2, <3>2, InRange
          <5>2. x \in PagesOf(<<p, r[2]>>) <=> x \in Int /\ p <= x /\ x < p + r[2]
            BY <1>2, InRange
          <5>3. x \in PagesOf(<<next, f[next]>>) <=> x \in Int /\ next <= x /\ x < next + f[next]
            BY <1>2, <3>1, InRange
          <5>4. QED
            BY <1>2, <3>1, <3>2, <5>1, <5>2, <5>3
        <4>2. QED
          BY <4>1
      <3> HIDE DEF p, next, merges, rest, c
      <3>5. /\ MapOK(rest) /\ DOMAIN rest = DOMAIN f \ {next}
            /\ \A q \in DOMAIN f \ {next} : rest[q] = f[q]
            /\ PagesOfMap(rest) = PagesOfMap(f) \ PagesOf(<<next, f[next]>>)
        BY <3>1, WithoutOK
      <3>6. \A q \in DOMAIN f : q < p => q # next
        BY <1>2 DEF next
      <3>7. PagesOf(<<next, f[next]>>) \subseteq PagesOfMap(f)
        BY <3>1 DEF PagesOfMap
      <3>8. QED
        BY <3>3, <3>4, <3>5, <3>6, <3>7
    <2>2. CASE ~merges
      <3>1. rest = f /\ c = r[2]
        BY <2>2
      <3>2. QED
        BY <1>2, <3>1
    <2>3. QED
      BY <2>1, <2>2
  <1>4. CASE looks /\ prevs # {}
    <2>1. PICK q \in DOMAIN f : IsPredecessor(f, p, q) /\ q + f[q] = p
      BY <1>4
    <2>2. prevs = {q}
      BY <1>2, <2>1 DEF IsPredecessor
    <2>3. q \in DOMAIN rest /\ rest[q] = f[q]
      BY <1>3, <2>1 DEF IsPredecessor
    <2>4. merged = Lengthen(rest, q, c)
      BY <2>2 DEF Lengthen
    <2>5. q + rest[q] = p
      BY <2>1, <2>3
    <2> HIDE DEF p, next, merges, rest, c, prevs, looks
    <2>6. FreeToMap(f, r) = Lengthen(rest, q, c)
      BY <1>1, <1>4, <2>4
    <2>7. QED
      BY <1>2, <1>3, <2>3, <2>5, <2>6, LengthenOK
  <1>5. CASE ~(looks /\ prevs # {})
    <2>1. FreeToMap(f, r) = Insert(rest, p, c)
      BY <1>1, <1>5
    <2> HIDE DEF p, next, merges, rest, c, prevs, looks
    <2>2. FitsInto(rest, p, c)
      BY <1>2, <1>3 DEF FitsInto
    <2>3. /\ MapOK(Insert(rest, p, c))
          /\ PagesOfMap(Insert(rest, p, c)) = PagesOfMap(rest) \cup PagesOf(<<p, c>>)
      BY <2>2, InsertOK
    <2>4. QED
      BY <1>3, <2>1, <2>3
  <1>6. QED
    BY <1>4, <1>5

\* Pager::AllocFromMap: exactly the pages handed out leave the map.
LEMMA TakeFromOK ==
    ASSUME NEW f, MapOK(f), NEW p \in DOMAIN f, NEW c \in Nat \ {0}, c <= f[p]
    PROVE  /\ MapOK(TakeFrom(f, p, c))
           /\ PagesOf(<<p, c>>) \subseteq PagesOfMap(f)
           /\ PagesOfMap(TakeFrom(f, p, c)) = PagesOfMap(f) \ PagesOf(<<p, c>>)
           /\ p \in PageIds /\ c \in Counts /\ p + c <= PageMaxCount
           /\ DOMAIN TakeFrom(f, p, c) = IF c < f[p] THEN (DOMAIN f \ {p}) \cup {p + c}
                                                     ELSE DOMAIN f \ {p}
  <1> DEFINE g == Without(f, p)
  <1>1. /\ p \in PageIds /\ p \in Int /\ p >= 0 /\ f[p] \in Int /\ f[p] >= 1
        /\ f[p] <= PageMaxCount /\ p + f[p] <= PageMaxCount
    BY Consts DEF MapOK, PageIds, Counts
  <1>2. c \in Counts /\ p + c <= PageMaxCount
    BY <1>1, Consts DEF Counts
  <1>3. /\ MapOK(g) /\ DOMAIN g = DOMAIN f \ {p}
        /\ PagesOfMap(g) = PagesOfMap(f) \ PagesOf(<<p, f[p]>>)
    BY WithoutOK
  <1>4. PagesOf(<<p, f[p]>>) \subseteq PagesOfMap(f)
    BY DEF PagesOfMap
  <1>5. CASE c < f[p]
    <2>1. TakeFrom(f, p, c) = Insert(g, p + c, f[p] - c)
      BY <1>5 DEF TakeFrom
    <2>2. p + c \in PageIds /\ f[p] - c \in Counts /\ (p + c) + (f[p] - c) <= PageMaxCount
      BY <1>1, <1>5, Consts DEF PageIds, Counts
    <2>3. /\ PagesOf(<<p, f[p]>>) = PagesOf(<<p, c>>) \cup PagesOf(<<p + c, f[p] - c>>)
          /\ PagesOf(<<p, c>>) \cap PagesOf(<<p + c, f[p] - c>>) = {}
      BY <1>1, <1>5 DEF PagesOf
    <2>4. PagesOf(<<p + c, f[p] - c>>) \cap PagesOfMap(g) = {}
      BY <1>3, <2>3
    <2> DEFINE q == p + c
               d == f[p] - c
    <2> HIDE DEF g, q, d
    <2>5. FitsInto(g, q, d)
      BY <1>3, <2>2, <2>4 DEF q, d, FitsInto
    <2>6. /\ MapOK(Insert(g, q, d))
          /\ PagesOfMap(Insert(g, q, d)) = PagesOfMap(g) \cup PagesOf(<<q, d>>)
      BY <2>5, InsertOK
    <2>7. DOMAIN Insert(g, q, d) = (DOMAIN f \ {p}) \cup {p + c}
      BY <1>3 DEF q, Insert
    <2>8. PagesOfMap(Insert(g, q, d)) = PagesOfMap(f) \ PagesOf(<<p, c>>)
      BY <1>3, <1>4, <2>3, <2>6 DEF q, d
    <2>9. TakeFrom(f, p, c) = Insert(g, q, d)
      BY <2>1 DEF q, d
    <2>10. PagesOf(<<p, c>>) \subseteq PagesOfMap(f)
      BY <1>4, <2>3
    <2>11. QED
      BY <1>1, <1>2, <1>5, <2>6, <2>7, <2>8, <2>9, <2>10
  <1>6. CASE ~(c < f[p])
    <2>1. TakeFrom(f, p, c) = g /\ c = f[p]
      BY <1>1, <1>6 DEF TakeFrom
    <2>2. QED
      BY <1>1, <1>2, <1>3, <1>4, <1>6, <2>1
  <1>7. QED
    BY <1>5, <1>6

\* Lists and sets of ranges.
LEMMA HeadTail ==
    ASSUME NEW s \in Seq(Ranges), s # << >>
    PROVE  /\ Head(s) \in Ranges /\ Tail(s) \in Seq(Ranges)
           /\ PagesOfSeq(s) = PagesOf(Head(s)) \cup PagesOfSeq(Tail(s))
           /\ SeqApart(s) => /\ SeqApart(Tail(s))
                             /\ PagesOf(Head(s)) \cap PagesOfSeq(Tail(s)) = {}
  <1>1. Len(s) \in Nat /\ Len(s) >= 1 /\ DOMAIN s = 1 .. Len(s)
    OBVIOUS
  <1>2. /\ Head(s) = s[1] /\ Head(s) \in Ranges /\ Tail(s) \in Seq(Ranges)
        /\ DOMAIN Tail(s) = 1 .. (Len(s) - 1)
        /\ \A i \in 1 .. (Len(s) - 1) : Tail(s)[i] = s[i + 1]
    BY <1>1
  <1>3. PagesOfSeq(s) = PagesOf(Head(s)) \cup PagesOfSeq(Tail(s))
    <2>1. \A i \in DOMAIN s : i = 1 \/ \E j \in DOMAIN Tail(s) : i = j + 1
      <3> SUFFICES ASSUME NEW i \in DOMAIN s, i # 1 PROVE \E j \in DOMAIN Tail(s) : i = j + 1
        OBVIOUS
      <3>1. i - 1 \in DOMAIN Tail(s) /\ i = (i - 1) + 1
        BY <1>1, <1>2
      <3>2. QED
        BY <3>1
    <2>2. 1 \in DOMAIN s /\ \A j \in DOMAIN Tail(s) : j + 1 \in DOMAIN s
      BY <1>1, <1>2
    <2>3. QED
      BY <1>2, <2>1, <2>2 DEF PagesOfSeq
  <1>4. ASSUME SeqApart(s)
        PROVE  SeqApart(Tail(s)) /\ PagesOf(Head(s)) \cap PagesOfSeq(Tail(s)) = {}
    <2>1. \A i, j \in DOMAIN Tail(s) : i # j => i + 1 \in DOMAIN s /\ j + 1 \in DOMAIN s /\ i + 1 # j + 1
      BY <1>1, <1>2
    <2>2. SeqApart(Tail(s))
      BY <1>2, <1>4, <2>1 DEF SeqApart
    <2>3. \A j \in DOMAIN Tail(s) : j + 1 \in DOMAIN s /\ j + 1 # 1 /\ 1 \in DOMAIN s
      BY <1>1, <1>2
    <2>4. QED
      BY <1>2, <1>4, <2>2, <2>3 DEF SeqApart, PagesOfSeq
  <1>5. QED
    BY <1>2, <1>3, <1>4

LEMMA AppendPages ==
    ASSUME NEW s \in Seq(Ranges), NEW r \in Ranges
    PROVE  /\ Append(s, r) \in Seq(Ranges)
           /\ PagesOfSeq(Append(s, r)) = PagesOfSeq(s) \cup PagesOf(r)
           /\ SeqApart(s) /\ PagesOf(r) \cap PagesOfSeq(s) = {} => SeqApart(Append(s, r))
  <1> DEFINE a == Append(s, r)
             n == Len(s) + 1
  <1>1. /\ a \in Seq(Ranges) /\ Len(s) \in Nat
        /\ DOMAIN s = 1 .. Len(s) /\ DOMAIN a = 1 .. n
        /\ a[n] = r /\ \A i \in DOMAIN s : a[i] = s[i]
    OBVIOUS
  <1>2. n \in DOMAIN a /\ n \notin DOMAIN s /\ DOMAIN a = DOMAIN s \cup {n}
    BY <1>1
  <1> HIDE DEF a, n
  <1>3. PagesOfSeq(a) = PagesOfSeq(s) \cup PagesOf(r)
    BY <1>1, <1>2 DEF PagesOfSeq
  <1>4. ASSUME SeqApart(s), PagesOf(r) \cap PagesOfSeq(s) = {} PROVE SeqApart(a)
    <2>1. \A i \in DOMAIN s : PagesOf(r) \cap PagesOf(s[i]) = {}
      BY <1>4 DEF PagesOfSeq
    <2>2. QED
      BY <1>1, <1>2, <1>4, <2>1 DEF SeqApart
  <1>5. QED
    BY <1>1, <1>3, <1>4 DEF a

LEMMA EmptyLists ==
    /\ PagesOfSeq(<< >>) = {} /\ SeqApart(<< >>) /\ << >> \in Seq(Ranges)
    /\ PagesOfMap(<< >>) = {} /\ MapOK(<< >>)
  <1>1. DOMAIN << >> = {}
    OBVIOUS
  <1>2. << >> \in Seq(Ranges)
    OBVIOUS
  <1>3. << >> \in [{} -> Counts]
    OBVIOUS
  <1>4. PagesOfSeq(<< >>) = {} /\ SeqApart(<< >>) /\ PagesOfMap(<< >>) = {} /\ MapOK(<< >>)
    BY <1>1, <1>3 DEF PagesOfSeq, SeqApart, PagesOfMap, MapOK
  <1>5. QED
    BY <1>2, <1>4

\* A range of a set is inside its pages; taking it out of a set whose members do
\* not overlap takes exactly its pages.
LEMMA SetPages ==
    ASSUME NEW S
    PROVE  /\ \A r \in S : PagesOf(r) \subseteq PagesOfSet(S)
           /\ \A r : PagesOfSet(S \cup {r}) = PagesOfSet(S) \cup PagesOf(r)
           /\ SetApart(S) =>
                 /\ \A r \in S : /\ PagesOfSet(S \ {r}) = PagesOfSet(S) \ PagesOf(r)
                                 /\ SetApart(S \ {r})
                 /\ \A r : PagesOf(r) \cap PagesOfSet(S) = {} => SetApart(S \cup {r})
  BY DEF PagesOfSet, SetApart

\* A range inside 2 .. n - 1 starts behind the meta pages and ends below n.
LEMMA RangeBound ==
    ASSUME NEW r \in Ranges, NEW n \in Int, PagesOf(r) \subseteq 2 .. (n - 1)
    PROVE  r[1] + r[2] <= n /\ r[1] >= 2 /\ r = <<r[1], r[2]>>
  <1>1. r = <<r[1], r[2]>> /\ r[1] \in Int /\ r[2] \in Int /\ r[2] >= 1
    BY Consts DEF Ranges, PageIds, Counts
  <1>2. r[1] \in PagesOf(r) /\ r[1] + r[2] - 1 \in PagesOf(r)
    BY <1>1 DEF PagesOf
  <1>3. QED
    BY <1>1, <1>2

LEMMA RangePages ==
    ASSUME NEW r \in Ranges, NEW n \in Int, n <= PageMaxCount, PagesOf(r) \subseteq 2 .. (n - 1)
    PROVE  \E p, q \in PageIds : PagesOf(r) = p .. q
  <1>1. r[1] \in Int /\ r[2] \in Int /\ r[2] >= 1
    BY Consts DEF Ranges, PageIds, Counts
  <1>2. r[1] >= 2 /\ r[1] + r[2] <= n
    BY RangeBound
  <1>3. r[1] \in PageIds /\ r[1] + r[2] - 1 \in PageIds
    BY <1>1, <1>2, Consts DEF PageIds
  <1>4. QED
    BY <1>3 DEF PagesOf

-----------------------------------------------------------------------------
(* The steps.  Each keeps the invariant and is a step, or a stutter, of     *)
(* PageSets.                                                                *)

\* The pending pages as PageSets sees them.
AbsPending == [t \in TxIds |-> IF phase = "open" /\ t < releasable THEN {} ELSE Pending(t)]

LEMMA InitStep == Init => IInv /\ PS!Init
  <1> SUFFICES ASSUME Init PROVE IInv /\ PS!Init
    OBVIOUS
  <1> USE Consts
  <1>1. in_use \subseteq Ranges
    BY DEF Init, Ranges, PageIds, Counts
  <1>2. UsedPages = 2 .. (InitCount - 1)
    <2>1. \A p \in 2 .. (InitCount - 1) : \A x : x \in PagesOf(<<p, 1>>) <=> x = p
      BY DEF PagesOf
    <2>2. \A x : x \in UsedPages <=> \E p \in 2 .. (InitCount - 1) : x \in PagesOf(<<p, 1>>)
      BY DEF Init, UsedPages, PagesOfSet
    <2>3. ASSUME NEW x \in UsedPages PROVE x \in 2 .. (InitCount - 1)
      <3>1. PICK p \in 2 .. (InitCount - 1) : x \in PagesOf(<<p, 1>>)
        BY <2>2
      <3>2. QED
        BY <2>1, <3>1
    <2>4. ASSUME NEW x \in 2 .. (InitCount - 1) PROVE x \in UsedPages
      BY <2>1, <2>2
    <2>5. QED
      BY <2>3, <2>4
  <1>3. SetApart(in_use)
    BY DEF Init, SetApart, PagesOf
  <1>4. /\ free_map = << >> /\ pending_map = [t \in TxIds |-> << >>] /\ alloc_records = << >>
        /\ phase = "idle" /\ page_count = InitCount /\ meta = [txid |-> 1, page_count |-> InitCount]
        /\ saved = in_use /\ releasable = 0 /\ before = NoState /\ ops = 0
    BY DEF Init
  <1>5. FreeMapPages = {} /\ \A t \in TxIds : Pending(t) = {} /\ SeqApart(pending_map[t])
    BY <1>4, EmptyLists DEF FreeMapPages, Pending
  <1>6. TypeOK
    <2>1. DOMAIN free_map \subseteq PageIds /\ \A p \in DOMAIN free_map : free_map[p] \in Counts
      BY <1>4, EmptyLists DEF MapOK
    <2>2. pending_map \in [TxIds -> Seq(Ranges)] /\ alloc_records \in Seq(PageIds \X Counts)
      BY <1>4, EmptyLists DEF Ranges
    <2>3. QED
      BY <1>1, <1>4, <2>1, <2>2 DEF TypeOK, TxIds
  <1>7. TypeInv
    BY <1>4, <1>6, EmptyLists DEF TypeInv
  <1>8. ApartInv
    BY <1>2, <1>3, <1>4, <1>5 DEF ApartInv
  <1>9. IdleInv
    BY <1>4 DEF IdleInv
  <1>10. PS!Init
    <2>1. FreePages = {}
      BY <1>4, <1>5 DEF FreePages, FreeMapPages
    <2>2. [t \in TxIds |-> IF phase = "open" /\ t < releasable THEN {} ELSE PagesOfSeq(pending_map[t])]
             = [t \in TxIds |-> {}]
      BY <1>4, <1>5 DEF Pending
    <2>3. QED
      BY <1>2, <1>4, <2>1, <2>2 DEF PS!Init, PS!TxIds, TxIds, PS!NoState, NoState, UsedPages
  <1>11. QED
    BY <1>4, <1>7, <1>8, <1>9, <1>10 DEF IInv

\* One turn of the loop of Release moves a range from a pending list to the map.
LEMMA ReleaseNextStep ==
    ASSUME IInv, ReleaseNext
    PROVE  IInv' /\ UNCHANGED PS!vars
  <1> USE Consts
  <1>1. PICK t \in TxIds :
          /\ t < releasable /\ pending_map[t] # << >>
          /\ free_map' = FreeToMap(free_map, Head(pending_map[t]))
          /\ pending_map' = [pending_map EXCEPT ![t] = Tail(@)]
    BY DEF ReleaseNext
  <1>2. /\ phase = "open"
        /\ UNCHANGED <<meta, phase, page_count, alloc_records, releasable, free_list,
                       in_use, saved, before, ops>>
    BY DEF ReleaseNext
  <1> DEFINE H == PagesOf(Head(pending_map[t]))
             T == PagesOfSeq(Tail(pending_map[t]))
  <1>3. TypeInv /\ TypeOK /\ ApartInv /\ OpenInv /\ RecordsInv
    BY <1>2 DEF IInv, TypeInv, OpenInv
  <1>4. pending_map[t] \in Seq(Ranges) /\ t <= meta.txid /\ page_count \in Int
        /\ page_count <= PageMaxCount
    BY <1>1, <1>2, <1>3 DEF TypeInv, TypeOK, TxIds
  <1>5. /\ Head(pending_map[t]) \in Ranges /\ Tail(pending_map[t]) \in Seq(Ranges)
        /\ Pending(t) = H \cup T /\ H \cap T = {} /\ SeqApart(Tail(pending_map[t]))
    BY <1>1, <1>3, <1>4, HeadTail DEF ApartInv, Pending
  <1>6. MapOK(free_map') /\ FreeMapPages' = FreeMapPages \cup H
    <2>1. H \subseteq 2 .. (page_count - 1) /\ H \cap FreeMapPages = {}
      BY <1>3, <1>5 DEF ApartInv
    <2>2. Head(pending_map[t])[1] + Head(pending_map[t])[2] <= PageMaxCount
      <3>1. Head(pending_map[t])[1] + Head(pending_map[t])[2] <= page_count
        BY <1>4, <1>5, <2>1, RangeBound
      <3>2. Head(pending_map[t])[1] \in Int /\ Head(pending_map[t])[2] \in Int
        BY <1>5 DEF Ranges, PageIds, Counts
      <3>3. QED
        BY <1>4, <3>1, <3>2
    <2>3. MapOK(free_map) /\ PagesOf(Head(pending_map[t])) \cap PagesOfMap(free_map) = {}
      BY <1>3, <2>1 DEF TypeInv, FreeMapPages
    <2>4. QED
      BY <1>1, <1>5, <2>2, <2>3, FreeToMapOK DEF FreeMapPages
  <1>7. /\ pending_map' \in [TxIds -> Seq(Ranges)]
        /\ pending_map'[t] = Tail(pending_map[t]) /\ Pending(t)' = T
        /\ \A u \in TxIds : u # t => pending_map'[u] = pending_map[u] /\ Pending(u)' = Pending(u)
    BY <1>1, <1>3, <1>5 DEF TypeOK, Pending
  <1>8. UsedPages' = UsedPages /\ SavedPages' = SavedPages /\ RecordPages' = RecordPages
    BY <1>2 DEF UsedPages, SavedPages, RecordPages
  <1> HIDE DEF H, T
  <1>9. TypeInv'
    <2>1. TypeOK'
      BY <1>2, <1>3, <1>6, <1>7 DEF TypeOK, MapOK
    <2>2. QED
      BY <1>2, <1>3, <1>6, <2>1 DEF TypeInv
  <1>10. ApartInv'
    <2>1. \A u \in TxIds : u > meta.txid + 1 => u # t
      BY <1>3, <1>4 DEF TypeOK, TxIds
    <2>2. /\ FreeMapPages' \subseteq 2 .. (page_count - 1)
          /\ FreeMapPages' \cap UsedPages = {}
      BY <1>3, <1>5, <1>6 DEF ApartInv
    <2>3. ASSUME NEW u \in TxIds
          PROVE  /\ SeqApart(pending_map'[u])
                 /\ Pending(u)' \subseteq 2 .. (page_count - 1)
                 /\ Pending(u)' \cap FreeMapPages' = {}
                 /\ Pending(u)' \cap UsedPages = {}
                 /\ \A w \in TxIds : w # u => Pending(u)' \cap Pending(w)' = {}
                 /\ u > meta.txid + 1 => pending_map'[u] = << >>
      <3>1. CASE u = t
        BY <1>3, <1>5, <1>6, <1>7, <2>1, <3>1 DEF ApartInv
      <3>2. CASE u # t
        BY <1>3, <1>5, <1>6, <1>7, <3>2 DEF ApartInv
      <3>3. QED
        BY <3>1, <3>2
    <2>4. QED
      BY <1>2, <1>3, <1>8, <2>2, <2>3 DEF ApartInv
  <1>11. FreePages' = FreePages
    <2>1. FreePages = FreeMapPages \cup UNION {Pending(u) : u \in {w \in TxIds : w < releasable}}
      BY <1>2 DEF FreePages, FreeMapPages, Pending
    <2>2. FreePages' = FreeMapPages' \cup UNION {Pending(u)' : u \in {w \in TxIds : w < releasable}}
      BY <1>2 DEF FreePages, FreeMapPages, Pending
    <2>3. QED
      BY <1>1, <1>5, <1>6, <1>7, <2>1, <2>2
  <1>12. OpenInv'
    <2>1. RecordsInv'
      BY <1>2, <1>3, <1>4, <1>5, <1>6, <1>7, <1>8 DEF RecordsInv
    <2>2. [u \in TxIds |-> IF u < releasable \/ u = meta.txid + 1 THEN {} ELSE Pending(u)']
            = [u \in TxIds |-> IF u < releasable \/ u = meta.txid + 1 THEN {} ELSE Pending(u)]
      BY <1>1, <1>7
    <2>3. /\ SavedPages' \cap FreeMapPages' = {}
          /\ FreeMapPages' \subseteq 2 .. (meta.page_count - 1)
          /\ \A u \in TxIds : u <= meta.txid => /\ SavedPages \cap Pending(u)' = {}
                                                /\ Pending(u)' \subseteq 2 .. (meta.page_count - 1)
      BY <1>3, <1>4, <1>5, <1>6, <1>7, <1>8 DEF OpenInv
    <2>4. before' = [free       |-> FreePages' \cup RecordPages',
                     pending    |-> [u \in TxIds |-> IF u < releasable' \/ u = meta'.txid + 1
                                                     THEN {} ELSE Pending(u)'],
                     used       |-> SavedPages',
                     page_count |-> meta'.page_count]
      BY <1>2, <1>3, <1>8, <1>11, <2>2 DEF OpenInv
    <2>5. QED
      BY <1>2, <1>3, <1>8, <2>1, <2>3, <2>4 DEF OpenInv
  <1>13. UNCHANGED PS!vars
    <2>1. [u \in TxIds |-> IF phase = "open" /\ u < releasable THEN {} ELSE PagesOfSeq(pending_map'[u])]
            = [u \in TxIds |-> IF phase = "open" /\ u < releasable THEN {} ELSE PagesOfSeq(pending_map[u])]
      BY <1>1, <1>2, <1>7
    <2>2. QED
      BY <1>2, <1>11, <2>1 DEF PS!vars
  <1>14. QED
    BY <1>2, <1>9, <1>10, <1>12, <1>13 DEF IInv

\* When the loop of Release is through, the lists it went over are empty.
LEMMA Released ==
    ASSUME IInv, IsOpen
    PROVE  /\ phase = "open" /\ TypeInv /\ TypeOK /\ ApartInv /\ OpenInv /\ RecordsInv
           /\ FreePages = FreeMapPages
           /\ \A t \in TxIds : t < releasable => pending_map[t] = << >> /\ Pending(t) = {}
           /\ AbsPending = [t \in TxIds |-> Pending(t)]
           /\ meta.txid \in Nat /\ meta.txid + 1 \in TxIds /\ releasable <= meta.txid
           /\ releasable \in Nat
           /\ page_count \in Int /\ page_count <= PageMaxCount
           /\ meta.page_count \in Int /\ 2 <= meta.page_count /\ meta.page_count <= page_count
  <1> USE Consts
  <1>1. phase = "open" /\ TypeInv /\ TypeOK /\ ApartInv /\ OpenInv /\ RecordsInv
    BY DEF IInv, IsOpen, TypeInv, OpenInv
  <1>2. \A t \in TxIds : t < releasable => pending_map[t] = << >> /\ Pending(t) = {}
    BY EmptyLists DEF IsOpen, Releasing, Pending
  <1>3. FreePages = FreeMapPages
    BY <1>1, <1>2 DEF FreePages, FreeMapPages, Pending
  <1>4. AbsPending = [t \in TxIds |-> Pending(t)]
    BY <1>2 DEF AbsPending
  <1>5. /\ meta.txid \in Nat /\ meta.txid + 1 \in TxIds /\ releasable <= meta.txid
        /\ releasable \in Nat
        /\ page_count \in Int /\ page_count <= PageMaxCount
        /\ meta.page_count \in Int /\ 2 <= meta.page_count /\ meta.page_count <= page_count
    BY <1>1 DEF TypeInv, TypeOK, TxIds
  <1>6. QED
    BY <1>1, <1>2, <1>3, <1>4, <1>5

\* Update() remembers the beginning: nothing has moved yet.
LEMMA UpdateStep ==
    ASSUME IInv, NEW r \in TxIds, Update(r)
    PROVE  IInv' /\ PS!Update(r)
  <1> USE Consts
  <1>1. /\ phase # "open" /\ ~RollingBack /\ meta.txid < MaxTxId /\ r < meta.txid
        /\ phase' = "open" /\ page_count' = meta.page_count /\ alloc_records' = << >>
        /\ releasable' = r /\ ops' = 0
        /\ UNCHANGED <<meta, free_map, pending_map, free_list, in_use, saved>>
    BY DEF Update, IsIdle
  <1>2. TypeInv /\ TypeOK /\ ApartInv /\ IdleInv
    BY <1>1 DEF IInv, TypeInv
  <1>3. /\ FreeMapPages' = FreeMapPages /\ UsedPages' = UsedPages /\ SavedPages' = UsedPages
        /\ RecordPages' = {} /\ SeqApart(alloc_records')
        /\ \A t \in TxIds : Pending(t)' = Pending(t) /\ pending_map'[t] = pending_map[t]
        /\ page_count' = page_count /\ saved = in_use
        /\ \A t \in TxIds : t > meta.txid => Pending(t) = {}
    BY <1>1, <1>2, EmptyLists
       DEF FreeMapPages, UsedPages, SavedPages, RecordPages, Pending, IdleInv
  <1> DEFINE R == UNION {Pending(t) : t \in {u \in TxIds : u < r}}
  <1>4. /\ before' = [free       |-> FreeMapPages \cup R,
                      pending    |-> [t \in TxIds |-> IF t < r THEN {} ELSE Pending(t)],
                      used       |-> UsedPages,
                      page_count |-> page_count]
    BY <1>1, <1>3 DEF Update, FreeMapPages, Pending, UsedPages
  <1>5. FreePages' = FreeMapPages \cup R
    BY <1>1, <1>3 DEF FreePages, FreeMapPages, Pending
  <1>6. FreePages = FreeMapPages
    <2>1. phase = "rollback" => PagesOfSeq(alloc_records) = {}
      BY <1>1, EmptyLists DEF RollingBack
    <2>2. QED
      BY <1>1, <2>1 DEF FreePages, FreeMapPages
  <1> HIDE DEF R
  <1>7. TypeInv'
    <2>1. TypeOK'
      BY <1>1, <1>2, EmptyLists DEF TypeOK, Ranges, TxIds
    <2>2. QED
      BY <1>1, <1>2, <1>3, <2>1 DEF TypeInv, TypeOK, TxIds
  <1>8. ApartInv'
    BY <1>1, <1>2, <1>3 DEF ApartInv
  <1>9. OpenInv'
    <2>1. RecordsInv'
      BY <1>3 DEF RecordsInv
    <2>2. [t \in TxIds |-> IF t < r THEN {} ELSE Pending(t)]
            = [t \in TxIds |-> IF t < r \/ t = meta.txid + 1 THEN {} ELSE Pending(t)]
      <3>1. meta.txid \in Int
        BY <1>2 DEF TypeOK, TxIds
      <3>2. \A t \in TxIds : t = meta.txid + 1 => Pending(t) = {}
        BY <1>3, <3>1
      <3>3. QED
        BY <3>2
    <2>3. before' = [free       |-> FreePages' \cup RecordPages',
                     pending    |-> [t \in TxIds |-> IF t < releasable' \/ t = meta'.txid + 1
                                                     THEN {} ELSE Pending(t)'],
                     used       |-> SavedPages',
                     page_count |-> meta'.page_count]
      BY <1>1, <1>3, <1>4, <1>5, <2>2
    <2>4. SetApart(saved') /\ page_count = meta.page_count
      BY <1>1, <1>2, <1>3 DEF ApartInv, IdleInv
    <2>5. QED
      BY <1>1, <1>2, <1>3, <2>1, <2>3, <2>4 DEF OpenInv, ApartInv
  <1>10. PS!Update(r)
    <2> DEFINE P == [t \in TxIds |-> Pending(t)]
               Q == [t \in TxIds |-> IF t < r THEN {} ELSE Pending(t)]
    <2>1. [t \in TxIds |-> IF phase = "open" /\ t < releasable THEN {} ELSE PagesOfSeq(pending_map[t])]
            = P
      BY <1>1 DEF Pending
    <2>2. [t \in TxIds |-> IF phase = "open" /\ t < releasable THEN {} ELSE PagesOfSeq(pending_map[t])]'
            = Q
      BY <1>1, <1>3 DEF Pending
    <2>3. /\ UNION {P[t] : t \in {u \in TxIds : u < r}} = R
          /\ Q = [t \in TxIds |-> IF t < r THEN {} ELSE P[t]]
      BY DEF R
    <2> HIDE DEF P, Q
    <2>4. UsedPages = PagesOfSet(in_use)
      BY DEF UsedPages
    <2>5. [PS!State EXCEPT !.free = FreePages', !.pending = Q]
            = [free |-> FreePages', pending |-> Q, used |-> UsedPages, page_count |-> page_count]
      <3> DEFINE s == [free |-> FreePages, pending |-> P, used |-> UsedPages,
                       page_count |-> page_count]
                 t == [free |-> FreePages', pending |-> P, used |-> UsedPages,
                       page_count |-> page_count]
      <3>1. PS!State = s
        BY <2>1, <2>4 DEF PS!State
      <3>2. [s EXCEPT !.free = FreePages', !.pending = Q]
              = [[s EXCEPT !.free = FreePages'] EXCEPT !.pending = Q]
        OBVIOUS
      <3>3. [s EXCEPT !.free = FreePages'] = t
        OBVIOUS
      <3>4. [t EXCEPT !.pending = Q]
              = [free |-> FreePages', pending |-> Q, used |-> UsedPages, page_count |-> page_count]
        OBVIOUS
      <3>5. QED
        BY <3>1, <3>2, <3>3, <3>4
    <2>6. before' = [free |-> FreePages', pending |-> Q, used |-> UsedPages, page_count |-> page_count]
      BY <1>4, <1>5 DEF Q
    <2>7. FreePages' = FreePages \cup UNION {P[t] : t \in {u \in TxIds : u < r}}
      BY <1>5, <1>6, <2>3
    <2>8. (phase = "open")' = TRUE /\ ~(phase = "open")
      BY <1>1
    <2>9. UNCHANGED <<meta.txid, PagesOfSet(in_use), page_count>>
      BY <1>1, <1>3
    <2> DEFINE pend ==
           [t \in TxIds |-> IF phase = "open" /\ t < releasable THEN {} ELSE PagesOfSeq(pending_map[t])]
    <2>10. pend = P /\ pend' = Q
      BY <2>1, <2>2
    <2> HIDE DEF pend
    <2>11. /\ FreePages' = FreePages \cup UNION {pend[t] : t \in {u \in TxIds : u < r}}
           /\ pend' = [t \in TxIds |-> IF t < r THEN {} ELSE pend[t]]
           /\ before' = [PS!State EXCEPT !.free = FreePages', !.pending = pend']
      BY <2>3, <2>5, <2>6, <2>7, <2>10
    <2>12. PS!TxIds = TxIds
      BY DEF PS!TxIds, TxIds
    <2>13. QED
      BY <2>8, <2>9, <2>11, <2>12 DEF PS!Update, pend
  <1>11. QED
    BY <1>1, <1>7, <1>8, <1>9, <1>10 DEF IInv

\* Pages that were free, or lie behind the last one, are added to the tree.
LEMMA AllocStep ==
    ASSUME IInv, NEW c \in 1 .. MaxCount, Alloc(c)
    PROVE  IInv' /\ \E p, q \in PageIds : PS!Alloc(p .. q)
  <1> USE Consts
  <1>1. PICK p \in PageIds :
          /\ Allocates(c, p, free_map', alloc_records', page_count')
          /\ in_use' = in_use \cup {<<p, c>>}
    BY DEF Alloc
  <1>2. /\ IsOpen /\ ops < MaxOps /\ ops' = ops + 1
        /\ UNCHANGED <<meta, phase, pending_map, releasable, free_list, saved, before>>
    BY DEF Alloc
  <1> USE <1>2, Released
  <1> DEFINE R == PagesOf(<<p, c>>)
  <1>3. c \in Nat \ {0} /\ c \in Int /\ p \in Int /\ p >= 0
    BY DEF PageIds
  <1>4. /\ MapOK(free_map') /\ c \in Counts /\ p + c <= PageMaxCount
        /\ alloc_records' \in Seq(Ranges) /\ SeqApart(alloc_records')
        /\ page_count' \in Int /\ page_count <= page_count' /\ page_count' <= PageMaxCount
        /\ R \cap UsedPages = {} /\ R \cap SavedPages = {} /\ R \subseteq 2 .. (page_count' - 1)
        /\ \A t \in TxIds : Pending(t) \cap R = {}
        /\ FreeMapPages' = FreeMapPages \ R
        /\ \/ /\ R \subseteq FreeMapPages /\ page_count' = page_count
              /\ RecordPages' = RecordPages \cup R
           \/ /\ page_count' = page_count + c /\ p = page_count
              /\ FreeMapPages \cap R = {} /\ RecordPages' = RecordPages
    <2>0. alloc_records \in Seq(Ranges) /\ SeqApart(alloc_records) /\ MapOK(free_map)
      BY DEF TypeOK, TypeInv, Ranges, RecordsInv
    <2>1. CASE /\ FirstFit(free_map, c, p) /\ free_map' = TakeFrom(free_map, p, c)
               /\ alloc_records' = Append(alloc_records, <<p, c>>) /\ page_count' = page_count
      <3>1. p \in DOMAIN free_map /\ c <= free_map[p]
        BY <1>3, <2>0, <2>1 DEF FirstFit, MapOK, Counts
      <3>2. /\ MapOK(free_map') /\ c \in Counts /\ p + c <= PageMaxCount
            /\ R \subseteq FreeMapPages /\ FreeMapPages' = FreeMapPages \ R
        BY <1>3, <2>0, <2>1, <3>1, TakeFromOK DEF FreeMapPages
      <3>3. R \cap RecordPages = {}
        BY <3>2 DEF RecordsInv
      <3>4. /\ alloc_records' \in Seq(Ranges) /\ SeqApart(alloc_records')
            /\ RecordPages' = RecordPages \cup R
        <4>1. <<p, c>> \in Ranges
          BY <3>2 DEF Ranges
        <4>2. QED
          BY <2>0, <2>1, <3>3, <4>1, AppendPages DEF RecordPages
      <3> HIDE DEF R
      <3>5. QED
        BY <2>1, <3>2, <3>4 DEF ApartInv, OpenInv
    <2>2. CASE /\ p = page_count /\ page_count + c <= PageMaxCount /\ free_map' = free_map
               /\ alloc_records' = alloc_records /\ page_count' = page_count + c
      <3>1. c \in Counts /\ p + c <= PageMaxCount /\ page_count' \in Int
        BY <1>3, <2>2 DEF Counts
      <3>2. R = page_count .. (page_count + c - 1)
        BY <2>2 DEF PagesOf
      <3>3. R \cap (2 .. (page_count - 1)) = {} /\ R \subseteq 2 .. (page_count' - 1)
        BY <1>3, <2>2, <3>2
      <3>4. SavedPages \subseteq 2 .. (page_count - 1)
        BY DEF OpenInv
      <3>5. FreeMapPages' = FreeMapPages /\ RecordPages' = RecordPages
        BY <2>2 DEF FreeMapPages, RecordPages
      <3> HIDE DEF R
      <3>6. QED
        BY <1>3, <2>0, <2>2, <3>1, <3>3, <3>4, <3>5 DEF ApartInv
    <2>3. QED
      BY <1>1, <2>1, <2>2 DEF Allocates
  <1>5. /\ UsedPages' = UsedPages \cup R /\ SetApart(in_use')
        /\ SavedPages' = SavedPages
        /\ \A t \in TxIds : Pending(t)' = Pending(t) /\ pending_map'[t] = pending_map[t]
        /\ in_use' \subseteq Ranges
    <2>1. UsedPages' = UsedPages \cup R
      BY <1>1, SetPages DEF UsedPages
    <2>2. SetApart(in_use')
      BY <1>1, <1>4, SetPages DEF UsedPages, ApartInv
    <2>3. <<p, c>> \in Ranges /\ in_use \subseteq Ranges
      BY <1>4 DEF Ranges, TypeOK
    <2>4. QED
      BY <1>1, <2>1, <2>2, <2>3 DEF SavedPages, Pending
  <1>6. p + c - 1 \in PageIds /\ R = p .. (p + c - 1) /\ R # {}
    BY <1>3, <1>4 DEF PageIds, PagesOf
  <1> HIDE DEF R
  <1>7. TypeInv'
    <2>1. TypeOK'
      <3>1. ops' \in 0 .. MaxOps
        BY DEF TypeOK
      <3>2. page_count' \in 0 .. PageMaxCount
        BY <1>4
      <3>3. DOMAIN free_map' \subseteq PageIds /\ \A x \in DOMAIN free_map' : free_map'[x] \in Counts
        BY <1>4 DEF MapOK
      <3>4. QED
        BY <1>4, <1>5, <3>1, <3>2, <3>3 DEF TypeOK, Ranges
    <2>2. QED
      BY <1>4, <2>1 DEF TypeInv
  <1>8. ApartInv'
    <2>1. /\ FreeMapPages' \subseteq 2 .. (page_count' - 1)
          /\ UsedPages' \subseteq 2 .. (page_count' - 1)
          /\ FreeMapPages' \cap UsedPages' = {}
      <3>1. 2 .. (page_count - 1) \subseteq 2 .. (page_count' - 1)
        BY <1>4
      <3>2. QED
        BY <1>4, <1>5, <3>1 DEF ApartInv
    <2>2. ASSUME NEW t \in TxIds
          PROVE  /\ SeqApart(pending_map'[t])
                 /\ Pending(t)' \subseteq 2 .. (page_count' - 1)
                 /\ Pending(t)' \cap FreeMapPages' = {}
                 /\ Pending(t)' \cap UsedPages' = {}
                 /\ \A u \in TxIds : u # t => Pending(t)' \cap Pending(u)' = {}
                 /\ t > meta'.txid + 1 => pending_map'[t] = << >>
      BY <1>4, <1>5 DEF ApartInv
    <2>3. QED
      BY <1>5, <2>1, <2>2 DEF ApartInv
  <1>9. FreePages' = FreeMapPages'
    <2>1. \A t \in TxIds : t < releasable => Pending(t)' = {}
      BY <1>5
    <2>2. FreePages' = FreeMapPages' \cup UNION {Pending(t)' : t \in {u \in TxIds : u < releasable}}
      BY DEF FreePages, FreeMapPages, Pending
    <2>3. QED
      BY <2>1, <2>2
  <1>10. OpenInv'
    <2>1. RecordsInv'
      BY <1>4, <1>5 DEF RecordsInv, OpenInv
    <2>2. FreePages' \cup RecordPages' = FreePages \cup RecordPages
      BY <1>4, <1>9
    <2>3. [t \in TxIds |-> IF t < releasable \/ t = meta.txid + 1 THEN {} ELSE Pending(t)']
            = [t \in TxIds |-> IF t < releasable \/ t = meta.txid + 1 THEN {} ELSE Pending(t)]
      BY <1>5
    <2>4. before' = [free       |-> FreePages' \cup RecordPages',
                     pending    |-> [t \in TxIds |-> IF t < releasable' \/ t = meta'.txid + 1
                                                     THEN {} ELSE Pending(t)'],
                     used       |-> SavedPages',
                     page_count |-> meta'.page_count]
      BY <1>5, <2>2, <2>3 DEF OpenInv
    <2>5. QED
      BY <1>4, <1>5, <2>1, <2>4 DEF OpenInv
  <1>11. PS!Alloc(p .. (p + c - 1))
    <2>1. FreePages' = FreePages \ R
      BY <1>4, <1>9
    <2>2. AbsPending' = AbsPending
      BY <1>5 DEF AbsPending
    <2>3. \/ R \subseteq FreePages /\ page_count' = page_count
          \/ /\ \A x \in R : x >= page_count
             /\ page_count' \in PageIds \cup {PageMaxCount}
             /\ R = page_count .. (page_count' - 1)
      <3>1. page_count' \in PageIds \cup {PageMaxCount}
        <4>1. page_count' \in Int /\ 0 <= page_count' /\ page_count' <= PageMaxCount
          BY <1>4
        <4>2. QED
          BY <4>1 DEF PageIds
      <3>2. CASE R \subseteq FreeMapPages /\ page_count' = page_count
        BY <3>2
      <3>3. CASE page_count' = page_count + c /\ p = page_count
        <4>1. R = page_count .. (page_count' - 1)
          BY <1>3, <1>6, <3>3
        <4>2. \A x \in R : x >= page_count
          BY <4>1
        <4>3. QED
          BY <3>1, <4>1, <4>2
      <3>4. QED
        BY <1>4, <3>2, <3>3
    <2>4. PS!PageIds = PageIds
      BY DEF PS!PageIds, PageIds
    <2>5. R \cap PagesOfSet(in_use) = {} /\ PagesOfSet(in_use)' = PagesOfSet(in_use) \cup R
      BY <1>4, <1>5 DEF UsedPages
    <2>6. QED
      BY <1>6, <2>1, <2>2, <2>3, <2>4, <2>5 DEF PS!Alloc, AbsPending, Pending
  <1>12. QED
    BY <1>6, <1>7, <1>8, <1>10, <1>11 DEF IInv

\* A range of the tree becomes pending.
LEMMA FreeStep ==
    ASSUME IInv, NEW r \in in_use, Free(r)
    PROVE  IInv' /\ \E p, q \in PageIds : PS!Free(p .. q)
  <1> USE Consts
  <1>1. /\ IsOpen /\ ops < MaxOps /\ in_use' = in_use \ {r}
        /\ pending_map' = [pending_map EXCEPT ![meta.txid + 1] = Append(@, r)]
        /\ ops' = ops + 1
        /\ UNCHANGED <<meta, phase, page_count, free_map, alloc_records, releasable,
                       free_list, saved, before>>
    BY DEF Free
  <1> USE <1>1, Released
  <1> DEFINE R == PagesOf(r)
  <1>0. PICK n \in TxIds : n = meta.txid + 1
    OBVIOUS
  <1>2. /\ r \in Ranges /\ R \subseteq UsedPages
        /\ UsedPages' = UsedPages \ R /\ SetApart(in_use')
    BY SetPages DEF TypeOK, UsedPages, ApartInv
  <1>3. /\ pending_map' \in [TxIds -> Seq(Ranges)]
        /\ Pending(n)' = Pending(n) \cup R /\ SeqApart(pending_map'[n])
        /\ \A t \in TxIds : t # n => pending_map'[t] = pending_map[t] /\ Pending(t)' = Pending(t)
    <2>1. pending_map \in [TxIds -> Seq(Ranges)] /\ SeqApart(pending_map[n])
          /\ R \cap Pending(n) = {}
      BY <1>2 DEF TypeOK, ApartInv
    <2>2. pending_map'[n] = Append(pending_map[n], r) /\ pending_map[n] \in Seq(Ranges)
      BY <1>0, <2>1
    <2>3. /\ Append(pending_map[n], r) \in Seq(Ranges)
          /\ PagesOfSeq(Append(pending_map[n], r)) = PagesOfSeq(pending_map[n]) \cup R
          /\ SeqApart(Append(pending_map[n], r))
      BY <1>2, <2>1, <2>2, AppendPages DEF Pending
    <2>4. QED
      BY <1>0, <2>1, <2>2, <2>3 DEF Pending
  <1>4. FreeMapPages' = FreeMapPages /\ SavedPages' = SavedPages /\ RecordPages' = RecordPages
    BY DEF FreeMapPages, SavedPages, RecordPages
  <1>5. \E p, q \in PageIds : R = p .. q
    <2>1. R \subseteq 2 .. (page_count - 1)
      BY <1>2 DEF ApartInv
    <2>2. page_count \in Int /\ page_count <= PageMaxCount
      OBVIOUS
    <2>3. QED
      BY <1>2, <2>1, <2>2, RangePages
  <1>6. ~(n < releasable) /\ \A t \in TxIds : t <= meta.txid => t # n
    BY <1>0
  <1> HIDE DEF R
  <1>7. TypeInv'
    <2>1. TypeOK'
      <3>1. in_use \subseteq Ranges /\ ops \in 0 .. MaxOps
        BY DEF TypeOK
      <3>2. in_use' \subseteq Ranges
        BY <3>1
      <3>3. ops' \in 0 .. MaxOps
        BY <3>1
      <3>4. QED
        BY <1>3, <3>2, <3>3 DEF TypeOK
    <2>2. QED
      BY <2>1 DEF TypeInv
  <1>8. ApartInv'
    <2>1. ASSUME NEW t \in TxIds
          PROVE  /\ SeqApart(pending_map'[t])
                 /\ Pending(t)' \subseteq 2 .. (page_count' - 1)
                 /\ Pending(t)' \cap FreeMapPages' = {}
                 /\ Pending(t)' \cap UsedPages' = {}
                 /\ \A u \in TxIds : u # t => Pending(t)' \cap Pending(u)' = {}
                 /\ t > meta'.txid + 1 => pending_map'[t] = << >>
      <3>1. CASE t = n
        <4>1. /\ Pending(t)' = Pending(t) \cup R /\ SeqApart(pending_map'[t])
              /\ \A u \in TxIds : u # t => Pending(u)' = Pending(u)
          BY <1>3, <3>1
        <4>2. /\ Pending(t)' \subseteq 2 .. (page_count' - 1)
              /\ Pending(t)' \cap FreeMapPages' = {}
          BY <1>2, <1>4, <4>1 DEF ApartInv
        <4>3. Pending(t)' \cap UsedPages' = {}
          BY <1>2, <4>1 DEF ApartInv
        <4>4. \A u \in TxIds : u # t => Pending(t)' \cap Pending(u)' = {}
          BY <1>2, <4>1 DEF ApartInv
        <4>5. QED
          BY <1>0, <3>1, <4>1, <4>2, <4>3, <4>4
      <3>2. CASE t # n
        <4>1. Pending(t)' = Pending(t) /\ pending_map'[t] = pending_map[t]
          BY <1>3, <3>2
        <4>2. /\ SeqApart(pending_map'[t])
              /\ Pending(t)' \subseteq 2 .. (page_count' - 1)
              /\ Pending(t)' \cap FreeMapPages' = {}
              /\ Pending(t)' \cap UsedPages' = {}
              /\ t > meta'.txid + 1 => pending_map'[t] = << >>
          BY <1>2, <1>4, <4>1 DEF ApartInv
        <4>3. ASSUME NEW u \in TxIds, u # t PROVE Pending(t)' \cap Pending(u)' = {}
          <5>1. Pending(t) \cap Pending(u) = {} /\ Pending(t) \cap R = {}
            BY <1>2, <4>3 DEF ApartInv
          <5>2. Pending(u)' \subseteq Pending(u) \cup R
            BY <1>3
          <5>3. QED
            BY <4>1, <5>1, <5>2
        <4>4. QED
          BY <4>2, <4>3
      <3>3. QED
        BY <3>1, <3>2
    <2>2. QED
      BY <1>2, <1>4, <2>1 DEF ApartInv
  <1>9. FreePages' = FreeMapPages'
    <2>1. \A t \in TxIds : t < releasable => Pending(t)' = {}
      BY <1>3, <1>6
    <2>2. QED
      BY <2>1 DEF FreePages, FreeMapPages, Pending
  <1>10. OpenInv'
    <2>1. RecordsInv'
      BY <1>3, <1>4, <1>6 DEF RecordsInv
    <2>2. [t \in TxIds |-> IF t < releasable \/ t = meta.txid + 1 THEN {} ELSE Pending(t)']
            = [t \in TxIds |-> IF t < releasable \/ t = meta.txid + 1 THEN {} ELSE Pending(t)]
      BY <1>0, <1>3
    <2>3. before' = [free       |-> FreePages' \cup RecordPages',
                     pending    |-> [t \in TxIds |-> IF t < releasable' \/ t = meta'.txid + 1
                                                     THEN {} ELSE Pending(t)'],
                     used       |-> SavedPages',
                     page_count |-> meta'.page_count]
      BY <1>4, <1>9, <2>2 DEF OpenInv
    <2>4. QED
      BY <1>3, <1>4, <1>6, <2>1, <2>3 DEF OpenInv
  <1>11. PS!Free(R)
    <2>1. AbsPending' = [AbsPending EXCEPT ![n] = @ \cup R]
      BY <1>3, <1>6 DEF AbsPending
    <2>2. /\ R \subseteq PagesOfSet(in_use) /\ PagesOfSet(in_use)' = PagesOfSet(in_use) \ R
      BY <1>2 DEF UsedPages
    <2>3. FreePages' = FreePages
      BY <1>4, <1>9
    <2>4. QED
      BY <1>0, <2>1, <2>2, <2>3 DEF PS!Free, AbsPending, Pending
  <1>12. QED
    BY <1>5, <1>7, <1>8, <1>10, <1>11 DEF IInv

\* A rollback begins: the writer's list is dropped, the tree is the committed
\* one, and what was taken from the free map counts as free again.
LEMMA RollBackStep ==
    ASSUME IInv, RollBack
    PROVE  IInv' /\ PS!RollBack
  <1> USE Consts
  <1>1. /\ IsOpen /\ phase' = "rollback"
        /\ pending_map' = [pending_map EXCEPT ![meta.txid + 1] = << >>]
        /\ page_count' = meta.page_count /\ in_use' = saved
        /\ releasable' = 0 /\ before' = NoState /\ ops' = 0
        /\ UNCHANGED <<meta, free_map, alloc_records, free_list, saved>>
    BY DEF RollBack, EndOfTransaction
  <1> USE <1>1, Released
  <1>2. PICK n \in TxIds : n = meta.txid + 1
    OBVIOUS
  <1>3. /\ pending_map' \in [TxIds -> Seq(Ranges)]
        /\ pending_map'[n] = << >> /\ Pending(n)' = {}
        /\ \A t \in TxIds : t # n => pending_map'[t] = pending_map[t] /\ Pending(t)' = Pending(t)
        /\ \A t \in TxIds : t > meta.txid => pending_map'[t] = << >> /\ Pending(t)' = {}
    <2>1. pending_map \in [TxIds -> Seq(Ranges)]
      BY DEF TypeOK
    <2>2. /\ pending_map' \in [TxIds -> Seq(Ranges)] /\ pending_map'[n] = << >>
          /\ \A t \in TxIds : t # n => pending_map'[t] = pending_map[t]
      BY <1>2, <2>1, EmptyLists
    <2>3. \A t \in TxIds : t > meta.txid /\ t # n => pending_map[t] = << >>
      BY <1>2 DEF ApartInv
    <2>4. QED
      BY <2>2, <2>3, EmptyLists DEF Pending
  <1>4. /\ FreeMapPages' = FreeMapPages /\ SavedPages' = SavedPages /\ RecordPages' = RecordPages
        /\ UsedPages' = SavedPages
    BY DEF FreeMapPages, SavedPages, RecordPages, UsedPages
  <1>5. \A t \in TxIds : t # n => t <= meta.txid \/ t > meta.txid
    BY <1>2
  <1>6. TypeInv'
    <2>1. TypeOK'
      <3>1. page_count' \in 0 .. PageMaxCount /\ releasable' \in TxIds /\ ops' \in 0 .. MaxOps
        BY DEF TxIds
      <3>2. in_use' \subseteq Ranges
        BY DEF TypeOK
      <3>3. QED
        BY <1>3, <3>1, <3>2 DEF TypeOK
    <2>2. QED
      BY <2>1 DEF TypeInv
  <1>7. ApartInv'
    <2>1. ASSUME NEW t \in TxIds
          PROVE  /\ SeqApart(pending_map'[t])
                 /\ Pending(t)' \subseteq 2 .. (page_count' - 1)
                 /\ Pending(t)' \cap FreeMapPages' = {}
                 /\ Pending(t)' \cap UsedPages' = {}
                 /\ \A u \in TxIds : u # t => Pending(t)' \cap Pending(u)' = {}
                 /\ t > meta'.txid + 1 => pending_map'[t] = << >>
      <3>1. CASE t = n
        BY <1>3, <3>1, EmptyLists
      <3>2. CASE t # n
        <4>1. Pending(t)' = Pending(t) /\ pending_map'[t] = pending_map[t]
          BY <1>3, <3>2
        <4>2. /\ SeqApart(pending_map'[t])
              /\ Pending(t)' \cap FreeMapPages' = {}
              /\ t > meta'.txid + 1 => pending_map'[t] = << >>
          BY <1>4, <4>1 DEF ApartInv
        <4>3. /\ Pending(t)' \subseteq 2 .. (page_count' - 1)
              /\ Pending(t)' \cap UsedPages' = {}
          <5>1. CASE t <= meta.txid
            BY <1>4, <4>1, <5>1 DEF OpenInv
          <5>2. CASE t > meta.txid
            BY <1>3, <5>2
          <5>3. QED
            BY <1>5, <3>2, <5>1, <5>2
        <4>4. ASSUME NEW u \in TxIds, u # t PROVE Pending(t)' \cap Pending(u)' = {}
          <5>1. Pending(t) \cap Pending(u) = {}
            BY <4>4 DEF ApartInv
          <5>2. Pending(u)' \subseteq Pending(u)
            BY <1>3
          <5>3. QED
            BY <4>1, <5>1, <5>2
        <4>5. QED
          BY <4>2, <4>3, <4>4
      <3>3. QED
        BY <3>1, <3>2
    <2>2. QED
      BY <1>4, <2>1 DEF ApartInv, OpenInv
  <1>8. IdleInv'
    <2>1. RecordsInv'
      <3>1. \A t \in TxIds : t <= meta.txid => Pending(t)' = Pending(t)
        BY <1>2, <1>3
      <3>2. QED
        BY <1>4, <3>1 DEF RecordsInv
    <2>2. QED
      BY <1>3, <2>1 DEF IdleInv
  <1>9. PS!RollBack
    <2>1. FreePages' = FreeMapPages \cup RecordPages
      BY <1>4 DEF FreePages, FreeMapPages, RecordPages
    <2>2. AbsPending' = [t \in TxIds |-> Pending(t)']
      BY DEF AbsPending
    <2>3. [t \in TxIds |-> Pending(t)']
            = [t \in TxIds |-> IF t < releasable \/ t = meta.txid + 1 THEN {} ELSE Pending(t)]
      <3>1. ASSUME NEW t \in TxIds
            PROVE  Pending(t)' = IF t < releasable \/ t = meta.txid + 1 THEN {} ELSE Pending(t)
        BY <1>2, <1>3
      <3>2. QED
        BY <3>1
    <2>4. /\ before.free = FreePages' /\ before.pending = AbsPending'
          /\ before.used = SavedPages /\ before.page_count = meta.page_count
      <3> DEFINE Q == [t \in TxIds |-> IF t < releasable \/ t = meta.txid + 1
                                      THEN {} ELSE Pending(t)]
      <3> HIDE DEF Q
      <3>1. before = [free |-> FreePages \cup RecordPages, pending |-> Q, used |-> SavedPages,
                      page_count |-> meta.page_count]
        BY DEF OpenInv, Q
      <3>2. FreePages = FreeMapPages /\ AbsPending' = Q
        BY <2>2, <2>3 DEF Q
      <3>3. QED
        BY <2>1, <3>1, <3>2
    <2>5. SavedPages = PagesOfSet(in_use)'
      BY DEF SavedPages
    <2>6. PS!NoState = NoState
      BY DEF PS!NoState, NoState, PS!TxIds, TxIds
    <2>7. QED
      BY <2>4, <2>5, <2>6 DEF PS!RollBack, AbsPending, Pending
  <1>10. QED
    BY <1>6, <1>7, <1>8, <1>9 DEF IInv

\* One turn of the loop of Rollback puts a range back into the map.
LEMMA RollBackNextStep ==
    ASSUME IInv, RollBackNext
    PROVE  IInv' /\ UNCHANGED PS!vars
  <1> USE Consts
  <1>1. /\ phase = "rollback" /\ alloc_records # << >>
        /\ free_map' = FreeToMap(free_map, Head(alloc_records))
        /\ alloc_records' = Tail(alloc_records)
        /\ UNCHANGED <<meta, phase, page_count, pending_map, releasable, free_list,
                       in_use, saved, before, ops>>
    BY DEF RollBackNext, RollingBack
  <1>2. TypeInv /\ TypeOK /\ ApartInv /\ IdleInv /\ RecordsInv
    BY <1>1 DEF IInv, TypeInv, IdleInv
  <1>3. alloc_records \in Seq(Ranges) /\ page_count \in Int /\ page_count <= PageMaxCount
        /\ page_count = meta.page_count
    BY <1>2 DEF TypeOK, IdleInv, Ranges
  <1> DEFINE H == PagesOf(Head(alloc_records))
             T == PagesOfSeq(Tail(alloc_records))
  <1>4. /\ Head(alloc_records) \in Ranges /\ Tail(alloc_records) \in Seq(Ranges)
        /\ RecordPages = H \cup T /\ H \cap T = {} /\ SeqApart(Tail(alloc_records))
    BY <1>1, <1>2, <1>3, HeadTail DEF RecordsInv, RecordPages
  <1>5. MapOK(free_map') /\ FreeMapPages' = FreeMapPages \cup H
    <2>1. H \subseteq 2 .. (page_count - 1) /\ H \cap FreeMapPages = {}
      BY <1>2, <1>3, <1>4 DEF RecordsInv
    <2>2. Head(alloc_records)[1] + Head(alloc_records)[2] <= PageMaxCount
      <3>1. Head(alloc_records)[1] + Head(alloc_records)[2] <= page_count
        BY <1>3, <1>4, <2>1, RangeBound
      <3>2. Head(alloc_records)[1] \in Int /\ Head(alloc_records)[2] \in Int
        BY <1>4 DEF Ranges, PageIds, Counts
      <3>3. QED
        BY <1>3, <3>1, <3>2
    <2>3. MapOK(free_map) /\ PagesOf(Head(alloc_records)) \cap PagesOfMap(free_map) = {}
      BY <1>2, <2>1 DEF TypeInv, FreeMapPages
    <2>4. QED
      BY <1>1, <1>4, <2>2, <2>3, FreeToMapOK DEF FreeMapPages
  <1>6. /\ UsedPages' = UsedPages /\ SavedPages' = SavedPages /\ RecordPages' = T
        /\ UsedPages = SavedPages
        /\ \A t \in TxIds : Pending(t)' = Pending(t) /\ pending_map'[t] = pending_map[t]
    BY <1>1, <1>2 DEF UsedPages, SavedPages, RecordPages, Pending, IdleInv
  <1>7. \A t \in TxIds : Pending(t) \cap H = {}
    <2> SUFFICES ASSUME NEW t \in TxIds PROVE Pending(t) \cap H = {}
      OBVIOUS
    <2>1. CASE t <= meta.txid
      BY <1>2, <1>4, <2>1 DEF RecordsInv
    <2>2. CASE t > meta.txid
      BY <1>2, <2>2, EmptyLists DEF IdleInv, Pending
    <2>3. QED
      BY <1>2, <2>1, <2>2 DEF TypeOK, TxIds
  <1> HIDE DEF H, T
  <1>8. TypeInv'
    <2>1. TypeOK'
      BY <1>1, <1>2, <1>4, <1>5 DEF TypeOK, MapOK, Ranges
    <2>2. QED
      BY <1>1, <1>2, <1>5, <2>1 DEF TypeInv
  <1>9. ApartInv'
    <2>1. /\ FreeMapPages' \subseteq 2 .. (page_count - 1)
          /\ FreeMapPages' \cap UsedPages = {}
      BY <1>2, <1>3, <1>4, <1>5, <1>6 DEF ApartInv, RecordsInv
    <2>2. \A t \in TxIds : Pending(t) \cap FreeMapPages' = {}
      BY <1>2, <1>5, <1>7 DEF ApartInv
    <2>3. QED
      BY <1>1, <1>2, <1>6, <2>1, <2>2 DEF ApartInv
  <1>10. IdleInv'
    <2>1. RecordsInv'
      BY <1>1, <1>2, <1>4, <1>5, <1>6 DEF RecordsInv
    <2>2. QED
      BY <1>1, <1>2, <2>1 DEF IdleInv
  <1>11. UNCHANGED PS!vars
    <2>1. FreePages = FreeMapPages \cup RecordPages /\ FreePages' = FreeMapPages' \cup RecordPages'
      BY <1>1 DEF FreePages, FreeMapPages, RecordPages
    <2>2. FreePages' = FreePages
      BY <1>4, <1>5, <1>6, <2>1
    <2>3. QED
      BY <1>1, <2>2 DEF PS!vars
  <1>12. QED
    BY <1>1, <1>8, <1>9, <1>10, <1>11 DEF IInv

\* The lists are forgotten when the database is closed.
LEMMA CloseAndOpenStep ==
    ASSUME IInv, CloseAndOpen
    PROVE  IInv' /\ PS!Reopen
  <1> USE Consts
  <1>1. /\ phase # "open" /\ phase' = "idle" /\ free_map' = << >>
        /\ pending_map' = [t \in TxIds |-> << >>] /\ alloc_records' = << >>
        /\ page_count' = meta.page_count
        /\ UNCHANGED <<meta, releasable, free_list, in_use, saved, before, ops>>
    BY DEF CloseAndOpen, IsIdle
  <1>2. TypeInv /\ TypeOK /\ ApartInv /\ IdleInv
    BY <1>1 DEF IInv, TypeInv
  <1>3. /\ FreeMapPages' = {} /\ MapOK(free_map') /\ UsedPages' = UsedPages
        /\ \A t \in TxIds : /\ Pending(t)' = {} /\ SeqApart(pending_map'[t])
                            /\ pending_map'[t] = << >>
        /\ page_count' = page_count
    BY <1>1, <1>2, EmptyLists DEF FreeMapPages, UsedPages, Pending, IdleInv
  <1>4. TypeInv'
    <2>1. TypeOK'
      BY <1>1, <1>2, <1>3, EmptyLists DEF TypeOK, Ranges, MapOK
    <2>2. QED
      BY <1>1, <1>2, <1>3, <2>1 DEF TypeInv
  <1>5. ApartInv'
    BY <1>1, <1>2, <1>3 DEF ApartInv
  <1>6. IdleInv'
    BY <1>1, <1>2, <1>3 DEF IdleInv
  <1>7. PS!Reopen
    <2>1. FreePages' = {}
      BY <1>1, <1>3 DEF FreePages, FreeMapPages
    <2>2. AbsPending' = [t \in TxIds |-> {}]
      BY <1>1, <1>3 DEF AbsPending
    <2>3. PS!TxIds = TxIds
      BY DEF PS!TxIds, TxIds
    <2>4. QED
      BY <1>1, <1>3, <2>1, <2>2, <2>3 DEF PS!Reopen, AbsPending, Pending
  <1>8. QED
    BY <1>1, <1>4, <1>5, <1>6, <1>7 DEF IInv

\* Pager::GetPageCount rounds up: the pairs fit into the pages.
LEMMA ListPagesOK ==
    ASSUME NEW n \in Nat
    PROVE  /\ ListPages(n) \in Nat
           /\ n <= ListPages(n) * PairsPerPage
           /\ n # 0 => ListPages(n) # 0
           /\ n = 0 => ListPages(n) = 0
  <1> DEFINE k == PairsPerPage
             a == n + k - 1
             q == a \div k
  <1>1. k \in Nat /\ k >= 1 /\ a \in Nat
    BY Consts
  <1>2. q \in Int /\ a = k * q + (a % k) /\ 0 <= a % k /\ a % k < k
    BY <1>1
  <1>3. ListPages(n) = q
    BY DEF ListPages
  <1> HIDE DEF k, a, q
  <1>4. QED
    BY <1>1, <1>2, <1>3 DEF a, k

\* The image of a finite set under a function is finite and no larger.
LEMMA ImageSize ==
    ASSUME NEW S, IsFiniteSet(S), NEW f, DOMAIN f = S, NEW T, T = {f[x] : x \in S},
           f \in [S -> T]
    PROVE  IsFiniteSet(T) /\ Cardinality(T) <= Cardinality(S)
  <1>1. f \in Surjection(S, T)
    BY DEF Surjection
  <1>2. QED
    BY <1>1, FS_Surjection

LEMMA MapSize ==
    ASSUME NEW f, MapOK(f)
    PROVE  /\ IsFiniteSet(DOMAIN f) /\ Cardinality(DOMAIN f) \in Nat
           /\ DOMAIN f # {} => Cardinality(DOMAIN f) # 0
           /\ IsFiniteSet(Pairs(f)) /\ Cardinality(Pairs(f)) <= Cardinality(DOMAIN f)
           /\ PagesOfSet(Pairs(f)) = PagesOfMap(f)
           /\ SetApart(Pairs(f))
  <1> USE Consts
  <1>1. IsFiniteSet(PageIds)
    BY FS_Interval DEF PageIds
  <1>2. IsFiniteSet(DOMAIN f)
    BY <1>1, FS_Subset DEF MapOK
  <1>3. Cardinality(DOMAIN f) \in Nat /\ (DOMAIN f # {} => Cardinality(DOMAIN f) # 0)
    BY <1>2, FS_CardinalityType, FS_EmptySet
  <1>4. IsFiniteSet(Pairs(f)) /\ Cardinality(Pairs(f)) <= Cardinality(DOMAIN f)
    <2> DEFINE g == [p \in DOMAIN f |-> <<p, f[p]>>]
    <2>1. g \in [DOMAIN f -> Pairs(f)] /\ DOMAIN g = DOMAIN f /\ Pairs(f) = {g[x] : x \in DOMAIN f}
      BY DEF Pairs
    <2> HIDE DEF g
    <2>2. QED
      BY <1>2, <2>1, ImageSize
  <1>5. PagesOfSet(Pairs(f)) = PagesOfMap(f)
    BY DEF PagesOfSet, Pairs, PagesOfMap
  <1>6. SetApart(Pairs(f))
    <2> SUFFICES ASSUME NEW p \in DOMAIN f, NEW q \in DOMAIN f, p < q
                 PROVE  PagesOf(<<p, f[p]>>) \cap PagesOf(<<q, f[q]>>) = {}
      <3>1. \A p, q \in DOMAIN f : <<p, f[p]>> # <<q, f[q]>> => p < q \/ q < p
        BY DEF MapOK, PageIds
      <3>2. QED
        BY <3>1 DEF SetApart, Pairs
    <2>1. p \in Int /\ q \in Int /\ f[p] \in Int /\ f[q] \in Int /\ p + f[p] <= q
      BY DEF MapOK, PageIds, Counts
    <2>2. QED
      BY <2>1, InRange
  <1>7. QED
    BY <1>2, <1>3, <1>4, <1>5, <1>6

\* Taking pages from the map does not make it larger.
LEMMA TakeFromSize ==
    ASSUME NEW f, MapOK(f), NEW p \in DOMAIN f, NEW c \in Nat \ {0}, c <= f[p]
    PROVE  Cardinality(DOMAIN TakeFrom(f, p, c)) <= Cardinality(DOMAIN f)
  <1> DEFINE D == DOMAIN f \ {p}
  <1>1. IsFiniteSet(DOMAIN f) /\ Cardinality(DOMAIN f) \in Nat
    BY MapSize
  <1>2. IsFiniteSet(D) /\ Cardinality(D) = Cardinality(DOMAIN f) - 1
    BY <1>1, FS_RemoveElement
  <1>3. Cardinality(D \cup {p + c}) <= Cardinality(D) + 1
    <2> DEFINE x == p + c
    <2> HIDE DEF x, D
    <2>1. Cardinality(D \cup {x}) = IF x \in D THEN Cardinality(D) ELSE Cardinality(D) + 1
      BY <1>2, FS_AddElement
    <2>2. Cardinality(D) \in Int
      BY <1>1, <1>2
    <2>3. QED
      BY <2>1, <2>2 DEF x
  <1>4. DOMAIN TakeFrom(f, p, c) = D \cup {p + c} \/ DOMAIN TakeFrom(f, p, c) = D
    BY TakeFromOK
  <1>5. QED
    BY <1>1, <1>2, <1>3, <1>4

\* The ranges of all pending lists.
PendingRanges == {pending_map[x[1]][x[2]] : x \in PendingIndices}

LEMMA PendingSize ==
    ASSUME TypeOK, ApartInv
    PROVE  /\ IsFiniteSet(PendingIndices) /\ Cardinality(PendingIndices) \in Nat
           /\ IsFiniteSet(PendingRanges)
           /\ Cardinality(PendingRanges) <= Cardinality(PendingIndices)
           /\ SetApart(PendingRanges)
           /\ \A r \in PendingRanges : \E t \in TxIds : PagesOf(r) \subseteq Pending(t)
  <1> USE Consts
  <1>1. IsFiniteSet(PendingIndices)
    <2> DEFINE g == [t \in TxIds |-> {t} \X DOMAIN pending_map[t]]
               G == {g[t] : t \in TxIds}
    <2>1. IsFiniteSet(TxIds)
      BY FS_Interval DEF TxIds
    <2>2. IsFiniteSet(G)
      <3>1. g \in [TxIds -> G] /\ DOMAIN g = TxIds
        OBVIOUS
      <3> HIDE DEF g
      <3>2. QED
        BY <2>1, <3>1, ImageSize
    <2>3. ASSUME NEW t \in TxIds PROVE IsFiniteSet({t} \X DOMAIN pending_map[t])
      <3>1. DOMAIN pending_map[t] = 1 .. Len(pending_map[t]) /\ Len(pending_map[t]) \in Nat
        BY DEF TypeOK
      <3>2. IsFiniteSet(DOMAIN pending_map[t])
        BY <3>1, FS_Interval
      <3>3. QED
        BY <3>2, FS_Singleton, FS_Product
    <2>4. \A X \in G : IsFiniteSet(X)
      BY <2>3
    <2>5. PendingIndices = UNION G
      BY DEF PendingIndices
    <2> HIDE DEF G, g
    <2>6. QED
      BY <2>2, <2>4, <2>5, FS_UNION
  <1>2. Cardinality(PendingIndices) \in Nat
    BY <1>1, FS_CardinalityType
  <1>3. IsFiniteSet(PendingRanges) /\ Cardinality(PendingRanges) <= Cardinality(PendingIndices)
    <2> DEFINE g == [x \in PendingIndices |-> pending_map[x[1]][x[2]]]
    <2>1. /\ g \in [PendingIndices -> PendingRanges] /\ DOMAIN g = PendingIndices
          /\ PendingRanges = {g[x] : x \in PendingIndices}
      BY DEF PendingRanges
    <2> HIDE DEF g
    <2>2. QED
      BY <1>1, <2>1, ImageSize
  <1>4. \A x \in PendingIndices : /\ x[1] \in TxIds /\ x[2] \in DOMAIN pending_map[x[1]]
                                  /\ x = <<x[1], x[2]>>
    BY DEF PendingIndices
  <1>5. \A r \in PendingRanges : \E t \in TxIds : PagesOf(r) \subseteq Pending(t)
    BY <1>4 DEF PendingRanges, Pending, PagesOfSeq
  <1>6. SetApart(PendingRanges)
    <2> SUFFICES ASSUME NEW x \in PendingIndices, NEW y \in PendingIndices,
                        pending_map[x[1]][x[2]] # pending_map[y[1]][y[2]]
                 PROVE  PagesOf(pending_map[x[1]][x[2]]) \cap PagesOf(pending_map[y[1]][y[2]]) = {}
      BY DEF SetApart, PendingRanges
    <2>1. CASE x[1] = y[1]
      <3>1. x[2] # y[2]
        BY <2>1
      <3>2. QED
        BY <1>4, <2>1, <3>1 DEF ApartInv, SeqApart
    <2>2. CASE x[1] # y[1]
      <3>1. Pending(x[1]) \cap Pending(y[1]) = {}
        BY <1>4, <2>2 DEF ApartInv
      <3>2. /\ PagesOf(pending_map[x[1]][x[2]]) \subseteq Pending(x[1])
            /\ PagesOf(pending_map[y[1]][y[2]]) \subseteq Pending(y[1])
        BY <1>4 DEF Pending, PagesOfSeq
      <3>3. QED
        BY <3>1, <3>2
    <2>3. QED
      BY <2>1, <2>2
  <1>7. QED
    BY <1>1, <1>2, <1>3, <1>5, <1>6

\* A commit: the pages of the free list come from the free map or from behind
\* the last page.  Counting the pairs before Alloc is enough, because Alloc
\* does not make the map larger.
LEMMA CommitStep ==
    ASSUME IInv, Commit
    PROVE  /\ IInv' /\ FreeListSound'
           /\ \E p, q \in PageIds : PS!Commit(p .. q)
  <1> USE Consts
  <1> DEFINE c == ListPages(PairCount)
  <1>1. PICK p \in 0 .. PageMaxCount, m \in 0 .. PageMaxCount :
          /\ Allocates(c, p, free_map', alloc_records', m)
          /\ free_list' = [pairs |-> Pairs(free_map') \cup PendingRanges,
                           pgid  |-> p,
                           count |-> c]
    BY DEF Commit, PendingRanges
  <1>2. /\ IsOpen /\ phase' = "idle" /\ meta' = [txid |-> meta.txid + 1, page_count |-> page_count]
        /\ saved' = in_use /\ releasable' = 0 /\ before' = NoState /\ ops' = 0
        /\ UNCHANGED <<page_count, pending_map, in_use>>
    BY DEF Commit, EndOfTransaction
  <1> USE <1>2, Released
  <1> DEFINE L == PagesOf(<<p, c>>)
             k == Cardinality(DOMAIN free_map)
             u == Cardinality(PendingIndices)
  <1>3. /\ MapOK(free_map) /\ alloc_records \in Seq(Ranges)
        /\ k \in Nat /\ u \in Nat /\ PairCount = k + u
        /\ DOMAIN free_map # {} => k # 0
    <2>1. MapOK(free_map) /\ alloc_records \in Seq(Ranges)
      BY DEF TypeInv, TypeOK, Ranges
    <2>2. QED
      BY <2>1, MapSize, PendingSize DEF PairCount
  <1>4. /\ c \in Nat /\ k + u <= c * PairsPerPage
        /\ k + u # 0 => c # 0
    BY <1>3, ListPagesOK
  <1> HIDE DEF c, k, u
  <1>5. /\ MapOK(free_map') /\ alloc_records' \in Seq(Ranges)
        /\ Cardinality(DOMAIN free_map') <= k
        /\ L \cap UsedPages = {}
        /\ \A t \in TxIds : Pending(t) \cap L = {}
        /\ FreeMapPages' = FreeMapPages \ L
        /\ \/ L \subseteq FreeMapPages /\ p \in PageIds /\ p + c - 1 \in PageIds
           \/ FreeMapPages' = FreeMapPages
    <2>1. CASE /\ FirstFit(free_map, c, p) /\ free_map' = TakeFrom(free_map, p, c)
               /\ alloc_records' = Append(alloc_records, <<p, c>>)
      <3>1. p \in DOMAIN free_map /\ c <= free_map[p] /\ c \in Nat \ {0}
        <4>1. p \in DOMAIN free_map /\ free_map[p] >= c /\ free_map[p] \in Int
          BY <1>3, <2>1 DEF FirstFit, MapOK, Counts
        <4>2. k # 0
          BY <1>3, <4>1
        <4>3. c # 0
          BY <1>3, <1>4, <4>2
        <4>4. QED
          BY <1>4, <4>1, <4>3
      <3>2. /\ MapOK(free_map') /\ c \in Counts /\ p \in PageIds /\ p + c <= PageMaxCount
            /\ L \subseteq FreeMapPages /\ FreeMapPages' = FreeMapPages \ L
        BY <1>3, <2>1, <3>1, TakeFromOK DEF FreeMapPages
      <3>3. Cardinality(DOMAIN free_map') <= k
        BY <1>3, <2>1, <3>1, TakeFromSize DEF k
      <3>4. alloc_records' \in Seq(Ranges)
        <4>1. <<p, c>> \in Ranges
          BY <3>2 DEF Ranges
        <4>2. QED
          BY <1>3, <2>1, <4>1
      <3>5. p + c - 1 \in PageIds
        BY <3>1, <3>2 DEF PageIds
      <3> HIDE DEF L
      <3>6. L \cap UsedPages = {} /\ \A t \in TxIds : Pending(t) \cap L = {}
        BY <3>2 DEF ApartInv
      <3>7. QED
        BY <3>2, <3>3, <3>4, <3>5, <3>6
    <2>2. CASE p = page_count /\ free_map' = free_map /\ alloc_records' = alloc_records
      <3>1. L \cap (2 .. (page_count - 1)) = {}
        BY <1>4, <2>2 DEF PagesOf
      <3>2. FreeMapPages' = FreeMapPages
        BY <2>2 DEF FreeMapPages
      <3>3. MapOK(free_map') /\ alloc_records' \in Seq(Ranges) /\ Cardinality(DOMAIN free_map') <= k
        BY <1>3, <2>2 DEF k
      <3> HIDE DEF L
      <3>4. /\ L \cap UsedPages = {} /\ L \cap FreeMapPages = {}
            /\ \A t \in TxIds : Pending(t) \cap L = {}
        BY <3>1 DEF ApartInv
      <3>5. FreeMapPages' = FreeMapPages \ L
        BY <3>2, <3>4
      <3>6. QED
        BY <3>2, <3>3, <3>4, <3>5
    <2>3. QED
      BY <1>1, <2>1, <2>2 DEF Allocates
  <1>6. /\ UsedPages' = UsedPages /\ SavedPages' = UsedPages
        /\ \A t \in TxIds : Pending(t)' = Pending(t) /\ pending_map'[t] = pending_map[t]
    BY DEF UsedPages, SavedPages, Pending
  <1>7. FreeMapPages' \subseteq FreeMapPages
    BY <1>5
  <1>8. TypeInv'
    <2>1. TypeOK'
      <3>1. meta' \in [txid : TxIds, page_count : 0 .. PageMaxCount]
        BY DEF TypeOK
      <3>2. DOMAIN free_map' \subseteq PageIds /\ \A x \in DOMAIN free_map' : free_map'[x] \in Counts
        BY <1>5 DEF MapOK
      <3>3. ops' \in 0 .. MaxOps /\ releasable' \in TxIds
        BY DEF TxIds
      <3>4. QED
        BY <1>5, <3>1, <3>2, <3>3 DEF TypeOK, Ranges
    <2>2. QED
      BY <1>5, <2>1 DEF TypeInv
  <1>9. ApartInv'
    <2>1. \A t \in TxIds : t > meta'.txid + 1 => t > meta.txid + 1
      OBVIOUS
    <2>2. QED
      BY <1>6, <1>7, <2>1 DEF ApartInv
  <1>10. IdleInv'
    BY DEF IdleInv, ApartInv
  <1>11. FreeListSound'
    <2> DEFINE P == Pairs(free_map')
    <2>1. /\ IsFiniteSet(P) /\ Cardinality(P) <= k /\ SetApart(P) /\ PagesOfSet(P) = FreeMapPages'
      <3>1. /\ Cardinality(DOMAIN free_map') \in Nat /\ IsFiniteSet(P)
            /\ Cardinality(P) <= Cardinality(DOMAIN free_map')
            /\ SetApart(P) /\ PagesOfSet(P) = PagesOfMap(free_map')
        BY <1>5, MapSize
      <3>2. Cardinality(P) \in Nat
        BY <3>1, FS_CardinalityType
      <3>3. QED
        BY <1>3, <1>5, <3>1, <3>2 DEF FreeMapPages
    <2>2. /\ IsFiniteSet(PendingRanges) /\ Cardinality(PendingRanges) <= u
          /\ SetApart(PendingRanges)
          /\ \A r \in PendingRanges : \E t \in TxIds : PagesOf(r) \subseteq Pending(t)
      BY PendingSize DEF u
    <2> HIDE DEF P
    <2>3. Cardinality(P \cup PendingRanges) <= c * PairsPerPage
      <3>1. Cardinality(P \cup PendingRanges)
              = Cardinality(P) + Cardinality(PendingRanges) - Cardinality(P \cap PendingRanges)
        BY <2>1, <2>2, FS_Union
      <3>2. IsFiniteSet(P \cap PendingRanges)
        BY <2>1, FS_Intersection
      <3>3. /\ Cardinality(P) \in Nat /\ Cardinality(PendingRanges) \in Nat
            /\ Cardinality(P \cap PendingRanges) \in Nat
        BY <2>1, <2>2, <3>2, FS_CardinalityType
      <3>4. Cardinality(P \cup PendingRanges) <= k + u
        BY <1>3, <2>1, <2>2, <3>1, <3>3
      <3>5. c * PairsPerPage \in Int /\ Cardinality(P \cup PendingRanges) \in Int
        BY <1>4, <3>1, <3>3
      <3>6. QED
        BY <1>3, <1>4, <3>4, <3>5
    <2>4. \A r \in P : PagesOf(r) \subseteq FreeMapPages'
      BY <2>1 DEF PagesOfSet
    <2>5. \A r \in P, s \in PendingRanges : PagesOf(r) \cap PagesOf(s) = {}
      BY <1>7, <2>2, <2>4 DEF ApartInv
    <2>6. \A r, s \in P \cup PendingRanges : r # s => PagesOf(r) \cap PagesOf(s) = {}
      BY <2>1, <2>2, <2>5 DEF SetApart
    <2>7. \A r \in P \cup PendingRanges : PagesOf(r) \cap L = {}
      BY <1>5, <2>2, <2>4
    <2>8. PagesOfSet(P \cup PendingRanges) \cap L = {}
      BY <2>7 DEF PagesOfSet
    <2>9. L = p .. (p + c - 1)
      BY DEF PagesOf
    <2>10. PagesOfSet(saved') \cap L = {}
      BY <1>5, <1>6 DEF SavedPages
    <2> HIDE DEF L
    <2>11. /\ free_list'.pairs = P \cup PendingRanges
           /\ free_list'.pgid = p /\ free_list'.count = c
      BY <1>1 DEF P
    <2>12. QED
      BY <2>3, <2>6, <2>8, <2>9, <2>10, <2>11 DEF FreeListSound
  <1>12. FreePages' = FreeMapPages'
    BY DEF FreePages, FreeMapPages
  <1>13. AbsPending' = AbsPending
    <2>1. AbsPending' = [t \in TxIds |-> Pending(t)']
      BY DEF AbsPending
    <2>2. [t \in TxIds |-> Pending(t)'] = [t \in TxIds |-> Pending(t)]
      BY <1>6
    <2>3. QED
      BY <2>1, <2>2
  <1>14. PS!NoState = NoState
    BY DEF PS!NoState, NoState, PS!TxIds, TxIds
  <1>15. \E q, r \in PageIds : PS!Commit(q .. r)
    <2> HIDE DEF L
    <2>1. \A X : X \subseteq FreePages /\ FreePages' = FreePages \ X => PS!Commit(X)
      BY <1>13, <1>14 DEF PS!Commit, AbsPending, Pending
    <2>2. CASE L \subseteq FreeMapPages /\ p \in PageIds /\ p + c - 1 \in PageIds
      <3>1. L = p .. (p + c - 1)
        BY DEF L, PagesOf
      <3>2. PS!Commit(p .. (p + c - 1))
        BY <1>5, <1>12, <2>1, <2>2, <3>1
      <3>3. QED
        BY <2>2, <3>2
    <2>3. CASE FreeMapPages' = FreeMapPages
      <3>1. 1 .. 0 = {} /\ 0 \in PageIds /\ 1 \in PageIds
        BY DEF PageIds
      <3>2. PS!Commit({})
        BY <1>12, <2>1, <2>3
      <3>3. QED
        BY <3>1, <3>2
    <2>4. QED
      BY <1>5, <2>2, <2>3
  <1>16. QED
    BY <1>8, <1>9, <1>10, <1>11, <1>15 DEF IInv

\* The free list is that of the last commit, and so is the tree it must not
\* overlap: only a commit changes them.
LEMMA FreeListKept ==
    ASSUME FreeListSound, UNCHANGED <<free_list, saved>>
    PROVE  FreeListSound'
  BY DEF FreeListSound

LEMMA FirstList ==
    ASSUME Init
    PROVE  FreeListSound
  <1>1. /\ free_list.pairs = {} /\ free_list.pgid = 0 /\ free_list.count = 0
    BY DEF Init, NoList
  <1>2. 0 .. (0 + 0 - 1) = {} /\ Cardinality({}) = 0 /\ 0 * PairsPerPage = 0
    BY Consts, FS_EmptySet
  <1>3. PagesOfSet({}) = {}
    BY DEF PagesOfSet
  <1>4. QED
    BY <1>1, <1>2, <1>3 DEF FreeListSound

\* One step of the pager keeps the invariants, and is a step of PageSets or
\* changes nothing there.
LEMMA NextStep ==
    ASSUME IInv, FreeListSound, [Next]_vars
    PROVE  IInv' /\ FreeListSound' /\ [PS!Next]_(PS!vars)
  <1>0. PS!TxIds = TxIds /\ PS!PageIds = PageIds
    BY DEF PS!TxIds, TxIds, PS!PageIds, PageIds
  <1>1. ASSUME NEW r \in TxIds, Update(r) PROVE IInv' /\ FreeListSound' /\ [PS!Next]_(PS!vars)
    <2>1. IInv' /\ PS!Update(r)
      BY <1>1, UpdateStep
    <2>2. FreeListSound'
      BY <1>1, FreeListKept DEF Update
    <2>3. QED
      BY <1>0, <2>1, <2>2 DEF PS!Next
  <1>2. CASE ReleaseNext
    <2>1. IInv' /\ UNCHANGED PS!vars
      BY <1>2, ReleaseNextStep
    <2>2. FreeListSound'
      BY <1>2, FreeListKept DEF ReleaseNext
    <2>3. QED
      BY <2>1, <2>2
  <1>3. ASSUME NEW c \in 1 .. MaxCount, Alloc(c)
        PROVE  IInv' /\ FreeListSound' /\ [PS!Next]_(PS!vars)
    <2>1. IInv' /\ \E p, q \in PageIds : PS!Alloc(p .. q)
      BY <1>3, AllocStep
    <2>2. FreeListSound'
      BY <1>3, FreeListKept DEF Alloc
    <2>3. QED
      BY <1>0, <2>1, <2>2 DEF PS!Next
  <1>4. ASSUME NEW r \in in_use, Free(r) PROVE IInv' /\ FreeListSound' /\ [PS!Next]_(PS!vars)
    <2>1. IInv' /\ \E p, q \in PageIds : PS!Free(p .. q)
      BY <1>4, FreeStep
    <2>2. FreeListSound'
      BY <1>4, FreeListKept DEF Free
    <2>3. QED
      BY <1>0, <2>1, <2>2 DEF PS!Next
  <1>5. CASE RollBack
    <2>1. IInv' /\ PS!RollBack
      BY <1>5, RollBackStep
    <2>2. FreeListSound'
      BY <1>5, FreeListKept DEF RollBack
    <2>3. QED
      BY <2>1, <2>2 DEF PS!Next
  <1>6. CASE RollBackNext
    <2>1. IInv' /\ UNCHANGED PS!vars
      BY <1>6, RollBackNextStep
    <2>2. FreeListSound'
      BY <1>6, FreeListKept DEF RollBackNext
    <2>3. QED
      BY <2>1, <2>2
  <1>7. CASE Commit
    <2>1. IInv' /\ FreeListSound' /\ \E p, q \in PageIds : PS!Commit(p .. q)
      BY <1>7, CommitStep
    <2>2. QED
      BY <1>0, <2>1 DEF PS!Next
  <1>8. CASE CloseAndOpen
    <2>1. IInv' /\ PS!Reopen
      BY <1>8, CloseAndOpenStep
    <2>2. FreeListSound'
      BY <1>8, FreeListKept DEF CloseAndOpen
    <2>3. QED
      BY <2>1, <2>2 DEF PS!Next
  <1>9. CASE UNCHANGED vars
    <2>1. UNCHANGED <<meta, phase, page_count, free_map, pending_map, alloc_records, releasable,
                      free_list, in_use, saved, before, ops>>
      BY <1>9 DEF vars
    <2>2. FreeListSound'
      BY <2>1, FreeListKept
    <2>3. UNCHANGED <<FreeMapPages, UsedPages, SavedPages, RecordPages, FreePages>>
      BY <2>1 DEF FreeMapPages, UsedPages, SavedPages, RecordPages, FreePages
    <2>4. \A t \in TxIds : Pending(t)' = Pending(t)
      BY <2>1 DEF Pending
    <2>5. TypeInv'
      BY <2>1 DEF IInv, TypeInv, TypeOK
    <2>6. ApartInv'
      BY <2>1, <2>3, <2>4 DEF IInv, ApartInv
    <2>7. RecordsInv' = RecordsInv
      BY <2>1, <2>3, <2>4 DEF RecordsInv
    <2>8. phase = "open" => OpenInv'
      <3> SUFFICES ASSUME phase = "open", OpenInv PROVE OpenInv'
        BY DEF IInv
      <3>1. [t \in TxIds |-> IF t < releasable \/ t = meta.txid + 1 THEN {} ELSE Pending(t)']
              = [t \in TxIds |-> IF t < releasable \/ t = meta.txid + 1 THEN {} ELSE Pending(t)]
        BY <2>4
      <3>2. before' = [free       |-> FreePages' \cup RecordPages',
                       pending    |-> [t \in TxIds |-> IF t < releasable' \/ t = meta'.txid + 1
                                                       THEN {} ELSE Pending(t)'],
                       used       |-> SavedPages',
                       page_count |-> meta'.page_count]
        BY <2>1, <2>3, <3>1 DEF OpenInv
      <3>3. QED
        BY <2>1, <2>3, <2>4, <2>7, <3>2 DEF OpenInv
    <2>9. phase # "open" => IdleInv'
      BY <2>1, <2>7 DEF IInv, IdleInv
    <2>10. UNCHANGED PS!vars
      BY <2>1, <2>3 DEF PS!vars
    <2>11. QED
      BY <2>1, <2>2, <2>5, <2>6, <2>8, <2>9, <2>10 DEF IInv
  <1>10. QED
    BY <1>1, <1>2, <1>3, <1>4, <1>5, <1>6, <1>7, <1>8, <1>9 DEF Next

-----------------------------------------------------------------------------
(* The theorems.                                                            *)

\* In every state of the pager, whatever transactions were run: the ranges of
\* Pager::free_map_ do not overlap, the free map, the pending lists and the tree
\* share no page, and the list written by SaveFreeList is sound.
THEOREM Invariance == Spec => [](IInv /\ FreeListSound)
  <1>1. Init => IInv /\ FreeListSound
    BY InitStep, FirstList
  <1>2. IInv /\ FreeListSound /\ [Next]_vars => (IInv /\ FreeListSound)'
    BY NextStep
  <1>3. QED
    BY <1>1, <1>2, PTL DEF Spec

\* The maps and lists of Pager hold page ranges and transaction ids of the
\* file: no list is kept for an id out of range, and no count is zero.
THEOREM TypeCorrect == Spec => []TypeOK
  <1>1. IInv => TypeOK
    BY DEF IInv, TypeInv
  <1>2. QED
    BY <1>1, Invariance, PTL

\* The list of free pages written by TxManager::SaveFreeList fits into the
\* pages Pager::Alloc returned for it, lists no page twice, and overlaps neither
\* the committed tree nor itself, for lists of any length.
THEOREM FreeListSoundHolds == Spec => []FreeListSound
  BY Invariance, PTL

\* Pager::FreeToMap, AllocFromMap, Release and Rollback, which walk and merge
\* ranges, implement the sets of single pages that transactions rely on; in
\* particular Rollback restores the free pages of the beginning exactly.
THEOREM ImplementsPageSetsHolds == Spec => ImplementsPageSets
  <1>1. Init => PS!Init
    BY InitStep
  <1>2. IInv /\ FreeListSound /\ [Next]_vars => [PS!Next]_(PS!vars)
    BY NextStep
  <1>3. QED
    BY <1>1, <1>2, Invariance, PTL DEF Spec, ImplementsPageSets, PS!Spec

\* The families of ranges that NoPageHeldTwice compares.
FreeHolders      == {<<"free", p, PagesOf(<<p, free_map[p]>>)>> : p \in DOMAIN free_map}
AllocatedHolders == {<<"allocated", i, PagesOf(alloc_records[i])>> :
                         i \in {j \in DOMAIN alloc_records : RollingBack}}
UsedHolders      == {<<"used", r, PagesOf(r)>> : r \in in_use}
PendingHolders(t) == {<<"pending", <<t, i>>, PagesOf(pending_map[t][i])>> :
                          i \in DOMAIN pending_map[t]}

LEMMA HoldersApart == IInv => NoPageHeldTwice
  <1> USE Consts
  <1> SUFFICES ASSUME IInv PROVE NoPageHeldTwice
    OBVIOUS
  <1>1. TypeInv /\ TypeOK /\ ApartInv /\ MapOK(free_map)
    BY DEF IInv, TypeInv
  <1> DEFINE PH  == UNION {PendingHolders(t) : t \in TxIds}
             bnd == 2 .. (page_count - 1)
  <1>2. Holders = FreeHolders \cup AllocatedHolders \cup UsedHolders \cup PH
    BY DEF Holders, FreeHolders, AllocatedHolders, UsedHolders, PendingHolders
  <1>3. /\ \A h \in FreeHolders : h[3] \subseteq FreeMapPages
        /\ \A h, k \in FreeHolders : h # k => h[3] \cap k[3] = {}
    <2>1. \A h \in FreeHolders : h[3] \subseteq FreeMapPages
      BY DEF FreeHolders, FreeMapPages, PagesOfMap
    <2>2. ASSUME NEW p \in DOMAIN free_map, NEW q \in DOMAIN free_map, p # q
          PROVE  PagesOf(<<p, free_map[p]>>) \cap PagesOf(<<q, free_map[q]>>) = {}
      <3>1. SetApart(Pairs(free_map))
        BY <1>1, MapSize
      <3>2. QED
        BY <2>2, <3>1 DEF SetApart, Pairs
    <2>3. ASSUME NEW h \in FreeHolders, NEW k \in FreeHolders, h # k
          PROVE  h[3] \cap k[3] = {}
      <3>1. PICK p \in DOMAIN free_map : h = <<"free", p, PagesOf(<<p, free_map[p]>>)>>
        BY DEF FreeHolders
      <3>2. PICK q \in DOMAIN free_map : k = <<"free", q, PagesOf(<<q, free_map[q]>>)>>
        BY DEF FreeHolders
      <3>3. p # q
        BY <2>3, <3>1, <3>2
      <3>4. QED
        BY <2>2, <3>1, <3>2, <3>3
    <2>4. QED
      BY <2>1, <2>3
  <1>4. /\ \A h \in UsedHolders : h[3] \subseteq UsedPages
        /\ \A h, k \in UsedHolders : h # k => h[3] \cap k[3] = {}
    BY <1>1 DEF UsedHolders, UsedPages, PagesOfSet, ApartInv, SetApart
  <1>5. /\ \A t \in TxIds : \A h \in PendingHolders(t) : h[3] \subseteq Pending(t)
        /\ \A h, k \in PH : h # k => h[3] \cap k[3] = {}
    <2>1. \A t \in TxIds : \A h \in PendingHolders(t) : h[3] \subseteq Pending(t)
      BY DEF PendingHolders, Pending, PagesOfSeq
    <2>2. ASSUME NEW t \in TxIds, NEW h \in PendingHolders(t), NEW k \in PendingHolders(t), h # k
          PROVE  h[3] \cap k[3] = {}
      <3>1. SeqApart(pending_map[t])
        BY <1>1 DEF ApartInv
      <3>2. QED
        BY <2>2, <3>1 DEF PendingHolders, SeqApart
    <2>3. ASSUME NEW t \in TxIds, NEW w \in TxIds, t # w,
                 NEW h \in PendingHolders(t), NEW k \in PendingHolders(w)
          PROVE  h[3] \cap k[3] = {}
      <3>1. Pending(t) \cap Pending(w) = {}
        BY <1>1, <2>3 DEF ApartInv
      <3>2. QED
        BY <2>1, <3>1
    <2>4. QED
      BY <2>1, <2>2, <2>3
  <1>6. \A h \in AllocatedHolders : RollingBack
    BY DEF AllocatedHolders
  <1>7. ASSUME RollingBack
        PROVE  /\ RecordsInv /\ UsedPages = SavedPages /\ meta.page_count = page_count
               /\ \A t \in TxIds : RecordPages \cap Pending(t) = {}
    <2>1. RecordsInv /\ IdleInv
      BY <1>7 DEF IInv, IdleInv, RollingBack
    <2>2. UsedPages = SavedPages /\ meta.page_count = page_count
      BY <2>1 DEF IdleInv, UsedPages, SavedPages
    <2>3. ASSUME NEW t \in TxIds PROVE RecordPages \cap Pending(t) = {}
      <3>1. CASE t <= meta.txid
        BY <2>1, <3>1 DEF RecordsInv
      <3>2. CASE t > meta.txid
        BY <2>1, <3>2, EmptyLists DEF IdleInv, Pending
      <3>3. QED
        BY <1>1, <3>1, <3>2 DEF TypeOK, TxIds
    <2>4. QED
      BY <2>1, <2>2, <2>3
  <1>8. ASSUME RollingBack
        PROVE  /\ \A h \in AllocatedHolders : h[3] \subseteq RecordPages
               /\ \A h, k \in AllocatedHolders : h # k => h[3] \cap k[3] = {}
    <2>1. SeqApart(alloc_records)
      BY <1>7, <1>8 DEF RecordsInv
    <2>2. QED
      BY <2>1 DEF AllocatedHolders, RecordPages, PagesOfSeq, SeqApart
  <1>9. \A h \in AllocatedHolders :
           /\ h[3] \cap FreeMapPages = {} /\ h[3] \cap UsedPages = {} /\ h[3] \subseteq bnd
           /\ \A t \in TxIds : h[3] \cap Pending(t) = {}
           /\ \A k \in AllocatedHolders : h # k => h[3] \cap k[3] = {}
    <2> SUFFICES ASSUME NEW h \in AllocatedHolders, RollingBack
                 PROVE  /\ h[3] \cap FreeMapPages = {} /\ h[3] \cap UsedPages = {}
                        /\ h[3] \subseteq bnd
                        /\ \A t \in TxIds : h[3] \cap Pending(t) = {}
                        /\ \A k \in AllocatedHolders : h # k => h[3] \cap k[3] = {}
      BY <1>6
    <2>1. /\ RecordPages \cap FreeMapPages = {} /\ RecordPages \cap UsedPages = {}
          /\ RecordPages \subseteq bnd /\ \A t \in TxIds : RecordPages \cap Pending(t) = {}
      BY <1>7 DEF RecordsInv
    <2>2. h[3] \subseteq RecordPages
      BY <1>8
    <2>3. QED
      BY <1>8, <2>1, <2>2
  <1>10. /\ FreeMapPages \subseteq bnd /\ UsedPages \subseteq bnd /\ FreeMapPages \cap UsedPages = {}
         /\ \A t \in TxIds : /\ Pending(t) \subseteq bnd /\ Pending(t) \cap FreeMapPages = {}
                             /\ Pending(t) \cap UsedPages = {}
    BY <1>1 DEF ApartInv
  <1>11. \A h \in PH : /\ h[3] \subseteq bnd /\ h[3] \cap FreeMapPages = {}
                       /\ h[3] \cap UsedPages = {}
                       /\ \A k \in AllocatedHolders : h[3] \cap k[3] = {}
    <2> SUFFICES ASSUME NEW t \in TxIds, NEW h \in PendingHolders(t)
                 PROVE  /\ h[3] \subseteq bnd /\ h[3] \cap FreeMapPages = {}
                        /\ h[3] \cap UsedPages = {}
                        /\ \A k \in AllocatedHolders : h[3] \cap k[3] = {}
      OBVIOUS
    <2>1. h[3] \subseteq Pending(t)
      BY <1>5
    <2>2. QED
      BY <1>9, <1>10, <2>1
  <1> HIDE DEF PH, bnd
  <1>12. \A h \in Holders : h[3] \subseteq bnd
    BY <1>2, <1>3, <1>4, <1>9, <1>10, <1>11
  <1>13. ASSUME NEW h \in Holders, NEW k \in Holders, h # k PROVE h[3] \cap k[3] = {}
    <2>1. CASE h \in FreeHolders
      BY <1>2, <1>3, <1>4, <1>9, <1>10, <1>11, <1>13, <2>1
    <2>2. CASE h \in AllocatedHolders
      BY <1>2, <1>3, <1>4, <1>9, <1>11, <1>13, <2>2
    <2>3. CASE h \in UsedHolders
      BY <1>2, <1>3, <1>4, <1>9, <1>10, <1>11, <1>13, <2>3
    <2>4. CASE h \in PH
      BY <1>2, <1>3, <1>4, <1>5, <1>11, <1>13, <2>4
    <2>5. QED
      BY <1>2, <2>1, <2>2, <2>3, <2>4
  <1>14. QED
    BY <1>12, <1>13 DEF NoPageHeldTwice, bnd

\* No page is in two ranges of Pager::free_map_, of the pending lists, of the
\* tree or of the records a running Rollback still has to give back, and all
\* lie behind the meta pages and below the page count (what the assertions on
\* debug_free_set_ in FreeToMap and AllocFromMap watch for).
THEOREM NoPageHeldTwiceHolds == Spec => []NoPageHeldTwice
  BY HoldersApart, Invariance, PTL
=============================================================================
