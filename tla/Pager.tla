------------------------------- MODULE Pager -------------------------------
(***************************************************************************)
(* Pager: page ranges.  free_map_ maps the first page of a free range to   *)
(* its length; pending_map_ and alloc_records_ are lists of ranges.  The   *)
(* module follows FreeToMap and AllocFromMap as they walk the map, and     *)
(* shows that they implement the page sets of PageSets.                    *)
(*                                                                         *)
(* Only the writer touches the pager.  The loops of Release and Rollback   *)
(* hand one range after the other to FreeToMap; each turn is a step, and   *)
(* nothing else happens before the loop ends.                              *)
(* The file has no linked free list (see SaveFreeList in TxManager), so    *)
(* LoadFreeList returns at once when the database is opened.               *)
(***************************************************************************)
EXTENDS Integers, Sequences, FiniteSets

CONSTANTS
    MaxTxId,       \* bound on transaction ids
    InitCount,     \* page_count of the file that is opened
    PageMaxCount,  \* bound on the number of pages, where Alloc throws
    MaxCount,      \* longest range asked for (an overflow record)
    PairsPerPage,  \* ranges of the free list that fit into a page
    MaxOps         \* bound on Alloc and Free in a transaction

ASSUME ConstantsAssumption ==
    /\ MaxTxId \in Nat /\ MaxTxId >= 1
    /\ InitCount \in Nat /\ InitCount >= 2
    /\ PageMaxCount \in Nat /\ PageMaxCount >= InitCount
    /\ MaxCount \in Nat \ {0}
    /\ PairsPerPage \in Nat \ {0}
    /\ MaxOps \in Nat

TxIds   == 0 .. MaxTxId
PageIds == 0 .. (PageMaxCount - 1)
Counts  == 1 .. PageMaxCount
Ranges  == PageIds \X Counts

VARIABLES
    meta,           \* txid and page_count of the committed meta struct
    phase,          \* of the writer: "idle", "open", "rollback"
    page_count,     \* page_count of the writer's meta struct
    free_map,       \* Pager::free_map_
    pending_map,    \* Pager::pending_map_
    alloc_records,  \* Pager::alloc_records_
    releasable,     \* what the last Update() passed to Release
    free_list,      \* the ranges the last SaveFreeList wrote, and where
    in_use,         \* auxiliary: the ranges the writer's tree consists of
    saved,          \* auxiliary: in_use of the last commit
    before,         \* auxiliary: what PageSets remembers of the beginning
    ops             \* auxiliary: Alloc and Free calls in this transaction

vars == <<meta, phase, page_count, free_map, pending_map, alloc_records, releasable,
          free_list, in_use, saved, before, ops>>

-----------------------------------------------------------------------------
(* Ranges and the pages in them.                                            *)

PagesOf(r)     == r[1] .. (r[1] + r[2] - 1)
PagesOfSet(S)  == UNION {PagesOf(r) : r \in S}
PagesOfSeq(s)  == UNION {PagesOf(s[i]) : i \in DOMAIN s}
PagesOfMap(f)  == UNION {PagesOf(<<p, f[p]>>) : p \in DOMAIN f}
Pairs(f)       == {<<p, f[p]>> : p \in DOMAIN f}
Without(f, p)   == [q \in DOMAIN f \ {p} |-> f[q]]
\* std::map::insert, which changes nothing when the key is there
Insert(f, p, c) == IF p \in DOMAIN f THEN f
                   ELSE [q \in DOMAIN f \cup {p} |-> IF q = p THEN c ELSE f[q]]

-----------------------------------------------------------------------------
(* The free map.                                                            *)

\* The first range at or above p starts at n (lower_bound(p)).
IsLowerBound(f, p, n) ==
    /\ n \in DOMAIN f /\ n >= p
    /\ \A q \in DOMAIN f : q >= p => n <= q

\* The last range below p starts at n.
IsPredecessor(f, p, n) ==
    /\ n \in DOMAIN f /\ n < p
    /\ \A q \in DOMAIN f : q < p => q <= n

\* Mutant of FreeToMap: the merge with the range behind does not take it out.
FreeToMapKeepsNext(f, r) ==
    LET p == r[1]
        c == IF p + r[2] \in DOMAIN f THEN r[2] + f[p + r[2]] ELSE r[2]
    IN  Insert(f, p, c)

\* Pager::FreeToMap.  A range that starts right behind is merged.  The
\* iterator then looks at the range before, and merges it too when it is
\* adjacent, but only if the one behind was merged or there is none: otherwise
\* the iterator stands at the range behind.  (The decrement of begin() at line
\* 270 leads to end() or to the node just erased; neither is adjacent.)
FreeToMap(f, r) ==
    LET p      == r[1]
        next   == p + r[2]
        merges == IsLowerBound(f, p, next)
        rest   == IF merges THEN Without(f, next) ELSE f
        c      == IF merges THEN r[2] + f[next] ELSE r[2]
        looks  == merges \/ \A q \in DOMAIN f : q < p
        prevs  == {q \in DOMAIN f : IsPredecessor(f, p, q) /\ q + f[q] = p}
    IN  IF looks /\ prevs # {}
        THEN [q \in DOMAIN rest |-> IF q \in prevs THEN rest[q] + c ELSE rest[q]]
        ELSE Insert(rest, p, c)

\* The first range of the map with room for c pages (the loop of AllocFromMap).
FirstFit(f, c, p) ==
    /\ p \in DOMAIN f /\ f[p] >= c
    /\ \A q \in DOMAIN f : f[q] >= c => p <= q

NoFit(f, c) == \A q \in DOMAIN f : f[q] < c

\* Mutant of TakeFrom: a range that is used up stays in the map.
TakeFromKeepsEmpty(f, p, c) == Insert(Without(f, p), p + c, f[p] - c)

\* Pager::AllocFromMap takes the front of the range and puts the rest back.
TakeFrom(f, p, c) ==
    IF c < f[p] THEN Insert(Without(f, p), p + c, f[p] - c) ELSE Without(f, p)

\* Pager::Alloc(c) on the state of the writer returns p: the free map, the
\* records and the page count after it are f, a and n.  The code throws when
\* page_count would wrap in 32 bits; PageMaxCount stands for that limit.  (Half
\* of it is kPageMaxCount, which only an assertion of Pager::Reference looks at.)
Allocates(c, p, f, a, n) ==
    \/ /\ FirstFit(free_map, c, p)
       /\ f = TakeFrom(free_map, p, c)
       /\ a = Append(alloc_records, <<p, c>>)
       /\ n = page_count
    \/ /\ NoFit(free_map, c)
       /\ p = page_count
       /\ page_count + c <= PageMaxCount
       /\ f = free_map
       /\ a = alloc_records
       /\ n = page_count + c

-----------------------------------------------------------------------------
(* Transactions.                                                            *)

NoState == [free |-> {}, pending |-> [t \in TxIds |-> {}], used |-> {}, page_count |-> InitCount]
NoList  == [pairs |-> {}, pgid |-> 0, count |-> 0]

\* DB::Open on a file whose pages all belong to the tree.
Init ==
    /\ meta = [txid |-> 1, page_count |-> InitCount]
    /\ phase = "idle"
    /\ page_count = InitCount
    /\ free_map = << >>
    /\ pending_map = [t \in TxIds |-> << >>]
    /\ alloc_records = << >>
    /\ releasable = 0
    /\ free_list = NoList
    /\ in_use = {<<p, 1>> : p \in 2 .. (InitCount - 1)}
    /\ saved = in_use
    /\ before = NoState
    /\ ops = 0

\* The loop of Release, or of Rollback, is still running.
Releasing   == \E t \in TxIds : t < releasable /\ pending_map[t] # << >>
RollingBack == phase = "rollback" /\ alloc_records # << >>

IsOpen == phase = "open" /\ ~Releasing
IsIdle == phase # "open" /\ ~RollingBack

\* TxManager::Update with Pager::Release(r).  Views decide on r, which is
\* never above the committed txid less one.
Update(r) ==
    /\ IsIdle
    /\ meta.txid < MaxTxId
    /\ r < meta.txid
    /\ phase' = "open"
    /\ page_count' = meta.page_count
    /\ alloc_records' = << >>
    /\ releasable' = r
    /\ before' =
          [free |-> PagesOfMap(free_map) \cup
                       UNION {PagesOfSeq(pending_map[t]) : t \in {u \in TxIds : u < r}},
           pending |-> [t \in TxIds |-> IF t < r THEN {} ELSE PagesOfSeq(pending_map[t])],
           used |-> PagesOfSet(saved),
           page_count |-> meta.page_count]
    /\ ops' = 0
    /\ UNCHANGED <<meta, free_map, pending_map, free_list, in_use, saved>>

\* One turn of the loops in Pager::Release: the next range of the oldest list.
ReleaseNext ==
    /\ phase = "open"
    /\ \E t \in TxIds :
          /\ t < releasable /\ pending_map[t] # << >>
          /\ \A u \in TxIds : u < t => pending_map[u] = << >>
          /\ free_map' = FreeToMap(free_map, Head(pending_map[t]))
          /\ pending_map' = [pending_map EXCEPT ![t] = Tail(@)]
    /\ UNCHANGED <<meta, phase, page_count, alloc_records, releasable, free_list,
                   in_use, saved, before, ops>>

\* Pager::Alloc, for a node or an overflow record.
Alloc(c) ==
    /\ IsOpen /\ ops < MaxOps
    /\ \E p \in PageIds :
          /\ Allocates(c, p, free_map', alloc_records', page_count')
          /\ in_use' = in_use \cup {<<p, c>>}
    /\ ops' = ops + 1
    /\ UNCHANGED <<meta, phase, pending_map, releasable, free_list, saved, before>>

\* Pager::Free of a range the tree was given.
Free(r) ==
    /\ IsOpen /\ ops < MaxOps
    /\ r \in in_use
    /\ in_use' = in_use \ {r}
    /\ pending_map' = [pending_map EXCEPT ![meta.txid + 1] = Append(@, r)]
    /\ ops' = ops + 1
    /\ UNCHANGED <<meta, phase, page_count, free_map, alloc_records, releasable,
                   free_list, saved, before>>

\* Update's local variable and the auxiliary ones are of no use any more.
EndOfTransaction ==
    /\ releasable' = 0
    /\ before' = NoState
    /\ ops' = 0

\* Mutant of RollBack: what was allocated is not given back.
RollBackForgetsAllocs ==
    /\ IsOpen
    /\ phase' = "idle"
    /\ pending_map' = [pending_map EXCEPT ![meta.txid + 1] = << >>]
    /\ page_count' = meta.page_count
    /\ in_use' = saved
    /\ EndOfTransaction
    /\ UNCHANGED <<meta, free_map, alloc_records, free_list, saved>>

\* TxManager::RollBack with Pager::Rollback, up to its loop.
RollBack ==
    /\ IsOpen
    /\ phase' = "rollback"
    /\ pending_map' = [pending_map EXCEPT ![meta.txid + 1] = << >>]
    /\ page_count' = meta.page_count
    /\ in_use' = saved
    /\ EndOfTransaction
    /\ UNCHANGED <<meta, free_map, alloc_records, free_list, saved>>

\* One turn of the loop in Pager::Rollback.
RollBackNext ==
    /\ RollingBack
    /\ free_map' = FreeToMap(free_map, Head(alloc_records))
    /\ alloc_records' = Tail(alloc_records)
    /\ UNCHANGED <<meta, phase, page_count, pending_map, releasable, free_list,
                   in_use, saved, before, ops>>

\* Pager::GetPageCount, for a list of n pairs.
ListPages(n) == (n + PairsPerPage - 1) \div PairsPerPage

\* The places of all pending lists.
PendingIndices == UNION {{t} \X DOMAIN pending_map[t] : t \in TxIds}

\* Mutant of PairCount: the pending ranges are forgotten.
PairCountOfFreeMap == Cardinality(DOMAIN free_map)

\* The pairs SaveFreeList counts before it allocates the list.
PairCount == Cardinality(DOMAIN free_map) + Cardinality(PendingIndices)

\* TxManager::Commit: Meta::Reset, then SaveFreeList on the writer's meta
\* struct, which is thrown away.
Commit ==
    /\ IsOpen
    /\ phase' = "idle"
    /\ meta' = [txid |-> meta.txid + 1, page_count |-> page_count]
    /\ saved' = in_use
    /\ \E p, n \in 0 .. PageMaxCount :
          /\ Allocates(ListPages(PairCount), p, free_map', alloc_records', n)
          /\ free_list' = [pairs |-> Pairs(free_map') \cup
                                       {pending_map[x[1]][x[2]] : x \in PendingIndices},
                           pgid  |-> p,
                           count |-> ListPages(PairCount)]
    /\ EndOfTransaction
    /\ UNCHANGED <<page_count, pending_map, in_use>>

\* DBImpl::~DBImpl, DB::Open.
CloseAndOpen ==
    /\ IsIdle
    /\ phase' = "idle"
    /\ free_map' = << >>
    /\ pending_map' = [t \in TxIds |-> << >>]
    /\ alloc_records' = << >>
    /\ page_count' = meta.page_count
    /\ UNCHANGED <<meta, releasable, free_list, in_use, saved, before, ops>>

Next ==
    \/ \E r \in TxIds : Update(r)
    \/ ReleaseNext
    \/ \E c \in 1 .. MaxCount : Alloc(c)
    \/ \E r \in in_use : Free(r)
    \/ RollBack
    \/ RollBackNext
    \/ Commit
    \/ CloseAndOpen

Spec == Init /\ [][Next]_vars

-----------------------------------------------------------------------------
(* Properties.                                                              *)

TypeOK ==
    /\ meta \in [txid : TxIds, page_count : 0 .. PageMaxCount]
    /\ phase \in {"idle", "open", "rollback"}
    /\ page_count \in 0 .. PageMaxCount
    /\ DOMAIN free_map \subseteq PageIds
    /\ \A p \in DOMAIN free_map : free_map[p] \in Counts
    /\ pending_map \in [TxIds -> Seq(Ranges)]
    /\ alloc_records \in Seq(PageIds \X Counts)
    /\ releasable \in TxIds
    /\ in_use \subseteq Ranges /\ saved \subseteq Ranges
    /\ ops \in 0 .. MaxOps

\* Every list of ranges, as one family: a page may be in one of them only.
Holders ==
    {<<"free", p, PagesOf(<<p, free_map[p]>>)>> : p \in DOMAIN free_map}
    \cup {<<"allocated", i, PagesOf(alloc_records[i])>> :
              i \in {j \in DOMAIN alloc_records : RollingBack}}
    \cup {<<"used", r, PagesOf(r)>> : r \in in_use}
    \cup UNION {{<<"pending", <<t, i>>, PagesOf(pending_map[t][i])>> :
                    i \in DOMAIN pending_map[t]} : t \in TxIds}

\* No page is held twice: after any history of allocations, frees, releases,
\* merges and rollbacks the ranges of the free map, of the pending lists and of
\* the tree do not overlap, and they lie behind the meta pages and below the
\* page count.  (The assertions on debug_free_set_ in FreeToMap and
\* AllocFromMap, and more.)
NoPageHeldTwice ==
    /\ \A h, k \in Holders : h # k => h[3] \cap k[3] = {}
    /\ \A h \in Holders : h[3] \subseteq 2 .. (page_count - 1)

\* The free list written by a commit holds each free or pending page of the
\* moment once, fits into the pages allocated for it although Alloc changed the
\* free map after the pairs were counted, and does not overlap the tree or
\* itself list the pages it is written to.
FreeListSound ==
    LET list == free_list.pgid .. (free_list.pgid + free_list.count - 1)
    IN  /\ Cardinality(free_list.pairs) <= free_list.count * PairsPerPage
        /\ \A r, s \in free_list.pairs : r # s => PagesOf(r) \cap PagesOf(s) = {}
        /\ PagesOfSet(free_list.pairs) \cap list = {}
        /\ PagesOfSet(saved) \cap list = {}

\* What a running loop has still to go through counts as free.
FreePages ==
    PagesOfMap(free_map)
    \cup (IF phase = "rollback" THEN PagesOfSeq(alloc_records) ELSE {})
    \cup UNION {PagesOfSeq(pending_map[t]) :
                    t \in {u \in TxIds : phase = "open" /\ u < releasable}}

\* The refinement mapping.
PS == INSTANCE PageSets WITH
    txid       <- meta.txid,
    is_open    <- phase = "open",
    free       <- FreePages,
    pending    <- [t \in TxIds |->
                      IF phase = "open" /\ t < releasable THEN {} ELSE PagesOfSeq(pending_map[t])],
    used       <- PagesOfSet(in_use),
    page_count <- page_count

\* The ranges, walked and merged by the code one at a time, do what PageSets
\* says of single pages: in particular a rollback gives back exactly the pages
\* that were free when the transaction began.
ImplementsPageSets == PS!Spec
=============================================================================
