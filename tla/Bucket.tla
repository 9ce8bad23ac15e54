------------------------------- MODULE Bucket -------------------------------
(***************************************************************************)
(* Buckets in buckets: BucketImpl, and the part of TxImpl that keeps the   *)
(* sub-buckets a transaction has opened.                                   *)
(*                                                                         *)
(* The root page of a sub-bucket is an entry of its parent's tree.  While  *)
(* a transaction is open it is in the parent object's sub_bucket_map_,     *)
(* where the tree of the sub-bucket changes it; Commit() puts it back into *)
(* the parent's tree.                                                      *)
(*                                                                         *)
(* A bucket's tree is one leaf; free pages are sets of pages; nothing is   *)
(* synced or lost in a crash (BTree, Pager and TxManager treat these).  An *)
(* application opens Names as buckets and puts Keys, and does not mix them *)
(* up; it reads through a view only buckets that exist.  The module is     *)
(* about DbMode::kUpdateInPlace: kWal lets CopyNeeded overwrite committed  *)
(* pages and puts the calls into a log (WalMode, Logger).                  *)
(***************************************************************************)
EXTENDS Integers, FiniteSets, SequencesExt

CONSTANTS
    Readers,       \* threads that open view transactions
    Names,         \* keys of sub-buckets
    Keys,          \* keys of plain entries
    Values,        \* values of plain entries
    NoValue,       \* a key that is not there
    MaxDepth,      \* how deep buckets are nested
    MaxTxId,       \* bound on transaction ids
    PageMaxCount,  \* bound on the number of pages
    MaxOps         \* bound on the calls that change something in a transaction

ASSUME ConstantsAssumption ==
    /\ Names \cap Keys = {}
    /\ NoValue \notin Values
    /\ {MaxDepth, MaxOps} \subseteq Nat
    /\ MaxTxId \in Nat \ {0}
    /\ PageMaxCount \in Nat /\ PageMaxCount >= 4

TxIds          == 0 .. MaxTxId
PageIds        == 0 .. (PageMaxCount - 1)
kPageInvalidId == PageMaxCount
\* The user bucket; the ids of cached sub-buckets start at one.
kUserRootBucketId == 0
BucketIds      == kUserRootBucketId .. MaxOps
Paths          == UNION {[1 .. n -> Names] : n \in 0 .. MaxDepth}

VARIABLES
    meta,              \* the committed meta struct
    update_tx,         \* the meta struct of the writer
    writer,            \* "idle", "open", or "storing": in TxImpl::Commit
    sub_bucket_map,    \* BucketImpl::sub_bucket_map_ of each bucket object
    sub_bucket_cache,  \* TxImpl::sub_bucket_cache_
    stored,            \* the entries of the maps Commit has put into trees
    views,             \* the open view transactions, and what they should see
    free_map, pending_map, alloc_records,   \* of the pager, as sets of pages
    page,              \* the mapped file
    work,              \* auxiliary: what the writer put, by path
    committed,         \* auxiliary: what the last transaction committed
    ops                \* auxiliary: calls in this transaction

pagerVars == <<free_map, pending_map, alloc_records>>
txVars    == <<update_tx, writer, sub_bucket_map, sub_bucket_cache, stored, work, ops>>
vars      == <<meta, txVars, views, pagerVars, page, committed>>

-----------------------------------------------------------------------------
(* Trees and what is in them.                                               *)

Plain(v)       == [is_bucket |-> FALSE, value |-> v]
SubRoot(p)     == [is_bucket |-> TRUE, value |-> p]
LeafNode(t, e) == [last_modified_txid |-> t, entries |-> e]
Blank          == LeafNode(0, << >>)

Entries(pg, root) == IF root = kPageInvalidId THEN << >> ELSE pg[root].entries

With(e, k, x)  == [j \in DOMAIN e \cup {k} |-> IF j = k THEN x ELSE e[j]]
Without(e, k)  == [j \in DOMAIN e \ {k} |-> e[j]]

NoBucket == kPageInvalidId + 1   \* in place of a root: no such bucket

SubRootAt(pg, root, n) ==
    IF root # NoBucket /\ n \in DOMAIN Entries(pg, root)
    THEN Entries(pg, root)[n].value
    ELSE NoBucket

\* The root of the bucket at a path, below the user bucket with this root.
RootAt(pg, root, path) ==
    LET below[i \in 0 .. Len(path)] ==
            IF i = 0 THEN root ELSE SubRootAt(pg, below[i - 1], path[i])
    IN  below[Len(path)]

Content(pg, root) ==
    [k \in Keys |-> IF k \in DOMAIN Entries(pg, root) THEN Entries(pg, root)[k].value
                                                       ELSE NoValue]

Empty   == [exists |-> TRUE, content |-> [k \in Keys |-> NoValue]]
Missing == [exists |-> FALSE, content |-> [k \in Keys |-> NoValue]]

\* What a reader finds at each path.
BucketsAt(pg, root) ==
    [path \in Paths |->
        LET r == RootAt(pg, root, path)
        IN  IF r = NoBucket THEN Missing ELSE [exists |-> TRUE, content |-> Content(pg, r)]]

NoBuckets == [path \in Paths |-> IF path = << >> THEN Empty ELSE Missing]

-----------------------------------------------------------------------------
(* Init: a database with one sub-bucket has been opened.                    *)

InitMeta   == [txid |-> 1, user_root |-> 2, page_count |-> 4]
NoUpdateTx == [txid |-> 0, user_root |-> kPageInvalidId, page_count |-> 0]
NoView     == [txid |-> 0, user_root |-> kPageInvalidId, seen |-> NoBuckets]
NoMaps     == [o \in BucketIds |-> << >>]

Init ==
    /\ meta = InitMeta
    /\ update_tx = NoUpdateTx
    /\ writer = "idle"
    /\ sub_bucket_map = NoMaps
    /\ sub_bucket_cache = << >>
    /\ stored = {}
    /\ views = [r \in Readers |-> NoView]
    /\ free_map = {}
    /\ pending_map = [t \in TxIds |-> {}]
    /\ alloc_records = {}
    /\ \E n \in Names, v \in Values :
          page = [p \in PageIds |->
             CASE p = 2 -> LeafNode(1, [j \in {n} |-> SubRoot(3)])
               [] p = 3 -> LeafNode(1, [k \in Keys |-> Plain(v)])
               [] OTHER -> Blank]
    /\ work = NoBuckets
    /\ committed = BucketsAt(page, 2)
    /\ ops = 0

-----------------------------------------------------------------------------
(* Transactions begin and end.                                              *)

OpenViews == {r \in Readers : views[r] # NoView}

\* Mutant of MinView: the open views are not looked at.
MinViewIgnoresViews == meta.txid

MinView == Min({meta.txid} \cup {views[r].txid : r \in OpenViews})

\* TxManager::Update with Pager::Release.
Update ==
    /\ writer = "idle" /\ meta.txid < MaxTxId
    /\ writer' = "open"
    /\ update_tx' = [meta EXCEPT !.txid = @ + 1]
    /\ LET released == {t \in TxIds : t < MinView - 1}
       IN  /\ free_map' = free_map \cup UNION {pending_map[t] : t \in released}
           /\ pending_map' = [t \in TxIds |-> IF t \in released THEN {} ELSE pending_map[t]]
    /\ alloc_records' = {}
    /\ work' = committed
    /\ UNCHANGED <<meta, sub_bucket_map, sub_bucket_cache, stored, views, page, committed, ops>>

View(r) ==
    /\ views[r] = NoView
    /\ views' = [views EXCEPT ![r] =
          [txid |-> meta.txid, user_root |-> meta.user_root, seen |-> committed]]
    /\ UNCHANGED <<meta, txVars, pagerVars, page, committed>>

RollBackView(r) ==
    /\ views[r] # NoView
    /\ views' = [views EXCEPT ![r] = NoView]
    /\ UNCHANGED <<meta, txVars, pagerVars, page, committed>>

\* The TxImpl of the writer is destroyed.
EndOfTransaction ==
    /\ writer' = "idle"
    /\ update_tx' = NoUpdateTx
    /\ sub_bucket_map' = NoMaps
    /\ sub_bucket_cache' = << >>
    /\ stored' = {}
    /\ work' = NoBuckets
    /\ ops' = 0

\* Mutant of RollBack: what was freed stays pending.
RollBackKeepsPending ==
    /\ writer = "open"
    /\ free_map' = free_map \cup alloc_records
    /\ alloc_records' = {}
    /\ EndOfTransaction
    /\ UNCHANGED <<meta, views, pending_map, page, committed>>

\* TxImpl::RollBack, TxManager::RollBack, Pager::Rollback.
RollBack ==
    /\ writer = "open"
    /\ pending_map' = [pending_map EXCEPT ![update_tx.txid] = {}]
    /\ free_map' = free_map \cup alloc_records
    /\ alloc_records' = {}
    /\ EndOfTransaction
    /\ UNCHANGED <<meta, views, page, committed>>

-----------------------------------------------------------------------------
(* Bucket objects.                                                          *)

Objects   == kUserRootBucketId .. Len(sub_bucket_cache)
PathOf(o) == IF o = kUserRootBucketId THEN << >> ELSE sub_bucket_cache[o].path

\* The page id the tree of object o refers to: the root_pgid_ reference of BTree.
RootOf(o) ==
    IF o = kUserRootBucketId THEN update_tx.user_root
    ELSE LET b == sub_bucket_cache[o] IN sub_bucket_map[b.parent][b.key].pgid

\* Pager::Alloc(1).
NextPage == IF free_map = {} THEN update_tx.page_count ELSE Min(free_map)

\* TxImpl::CopyNeeded in DbMode::kUpdateInPlace, where persisted_txid_ is invalid
\* and the branch for kWal is not taken.
CopyNeeded(txid) == txid < update_tx.txid

\* Mutant of SetRoot: the map of the parent is not told.
SetRootOfUserBucket(o, p, maps) ==
    /\ sub_bucket_map' = maps
    /\ update_tx' = [update_tx EXCEPT
          !.user_root = IF o = kUserRootBucketId THEN p ELSE @,
          !.page_count = IF p \in free_map THEN @ ELSE @ + 1]

\* The tree of object o has the new root p; the maps were maps.
SetRoot(o, p, maps) ==
    /\ sub_bucket_map' =
          IF o = kUserRootBucketId THEN maps
          ELSE [maps EXCEPT ![sub_bucket_cache[o].parent][sub_bucket_cache[o].key].pgid = p]
    /\ update_tx' = [update_tx EXCEPT
          !.user_root = IF o = kUserRootBucketId THEN p ELSE @,
          !.page_count = IF p \in free_map THEN @ ELSE @ + 1]

\* The tree of object o gets the entries e, in a page of this transaction:
\* the old root, a copy of it, or a new page if there was no root.  maps is
\* the value of the maps, as changed by the caller.
BTreeWrite(o, e, maps) ==
    LET root == RootOf(o)
    IN  \/ /\ root # kPageInvalidId
           /\ ~CopyNeeded(page[root].last_modified_txid)
           /\ page' = [page EXCEPT ![root].entries = e]
           /\ sub_bucket_map' = maps
           /\ UNCHANGED <<update_tx, pagerVars>>
        \/ /\ root # kPageInvalidId => CopyNeeded(page[root].last_modified_txid)
           /\ NextPage \in PageIds
           /\ page' = [page EXCEPT ![NextPage] = LeafNode(update_tx.txid, e)]
           /\ SetRoot(o, NextPage, maps)
           /\ free_map' = free_map \ {NextPage}
           /\ alloc_records' = alloc_records \cup ({NextPage} \cap free_map)
           /\ pending_map' = [pending_map EXCEPT
                 ![update_tx.txid] = @ \cup ({root} \ {kPageInvalidId})]

\* BucketImpl::Put
Put(o, k, v) ==
    /\ writer = "open" /\ ops < MaxOps
    /\ BTreeWrite(o, With(Entries(page, RootOf(o)), k, Plain(v)), sub_bucket_map)
    /\ work' = [work EXCEPT ![PathOf(o)].content[k] = v]
    /\ ops' = ops + 1
    /\ UNCHANGED <<meta, writer, sub_bucket_cache, stored, views, committed>>

\* BucketImpl::Delete of a key that is there.
Delete(o, k) ==
    /\ writer = "open" /\ ops < MaxOps
    /\ k \in DOMAIN Entries(page, RootOf(o))
    /\ BTreeWrite(o, Without(Entries(page, RootOf(o)), k), sub_bucket_map)
    /\ work' = [work EXCEPT ![PathOf(o)].content[k] = NoValue]
    /\ ops' = ops + 1
    /\ UNCHANGED <<meta, writer, sub_bucket_cache, stored, views, committed>>

\* Mutant of MapsWith: the id is that of the object added before.
MapsWithLastId(o, n, p) ==
    [sub_bucket_map EXCEPT ![o] = With(@, n, [id |-> Len(sub_bucket_cache), pgid |-> p])]

\* The maps with an entry for n in that of object o; the id is that of the
\* object NewSubBucket is about to add to the cache.
MapsWith(o, n, p) ==
    [sub_bucket_map EXCEPT ![o] = With(@, n, [id |-> Len(sub_bucket_cache) + 1, pgid |-> p])]

\* BucketImpl::SubBucket, when the bucket is not in the map; if it is, it
\* only looks up the object.  A bucket that is not in the tree gets a place there.
SubBucket(o, n) ==
    /\ writer = "open" /\ ops < MaxOps
    /\ Len(PathOf(o)) < MaxDepth
    /\ n \notin DOMAIN sub_bucket_map[o]
    /\ LET e == Entries(page, RootOf(o))
           path == Append(PathOf(o), n)
       IN  /\ \/ /\ n \in DOMAIN e
                 /\ sub_bucket_map' = MapsWith(o, n, e[n].value)
                 /\ UNCHANGED <<update_tx, pagerVars, page, work>>
              \/ /\ n \notin DOMAIN e
                 /\ BTreeWrite(o, With(e, n, SubRoot(kPageInvalidId)),
                               MapsWith(o, n, kPageInvalidId))
                 /\ work' = [work EXCEPT ![path] = Empty]
           /\ sub_bucket_cache' =
                 Append(sub_bucket_cache, [parent |-> o, key |-> n, path |-> path])
    /\ ops' = ops + 1
    /\ UNCHANGED <<meta, writer, stored, views, committed>>

-----------------------------------------------------------------------------
(* TxImpl::Commit.                                                          *)

BeginCommit ==
    /\ writer = "open"
    /\ writer' = "storing"
    /\ UNCHANGED <<meta, update_tx, sub_bucket_map, sub_bucket_cache, stored, views,
                   pagerVars, page, work, committed, ops>>

ToStore(o) == {n \in DOMAIN sub_bucket_map[o] : <<o, n>> \notin stored}

\* One turn of the loops: the user bucket comes first, then the cached
\* buckets in the order in which they were opened.
StoreNext ==
    /\ writer = "storing"
    /\ \E o \in Objects :
          /\ \A q \in Objects : q < o => ToStore(q) = {}
          /\ \E n \in ToStore(o) :
                /\ BTreeWrite(o, With(Entries(page, RootOf(o)), n,
                                      SubRoot(sub_bucket_map[o][n].pgid)), sub_bucket_map)
                /\ stored' = stored \cup {<<o, n>>}
    /\ UNCHANGED <<meta, writer, sub_bucket_cache, views, work, committed, ops>>

\* Mutant of AllStored: the buckets of the user bucket are forgotten.
AllStoredButUserBuckets == \A o \in Objects \ {kUserRootBucketId} : ToStore(o) = {}

AllStored == \A o \in Objects : ToStore(o) = {}

\* TxManager::Commit: Meta::Reset; SaveFreeList takes a page for its list from
\* the free map, if there is one, or else behind the pages the meta counts.
Commit ==
    /\ writer = "storing"
    /\ AllStored
    /\ meta' = update_tx
    /\ committed' = work
    /\ free_map' = free_map \ {NextPage}
    /\ alloc_records' = alloc_records \cup ({NextPage} \cap free_map)
    /\ page' = [p \in PageIds |-> IF p = NextPage THEN Blank ELSE page[p]]
    /\ EndOfTransaction
    /\ UNCHANGED <<views, pending_map>>

Next ==
    \/ Update \/ RollBack
    \/ \E r \in Readers : View(r) \/ RollBackView(r)
    \/ \E o \in Objects : \/ \E k \in Keys : (\E v \in Values : Put(o, k, v)) \/ Delete(o, k)
                          \/ \E n \in Names : SubBucket(o, n)
    \/ BeginCommit \/ StoreNext \/ Commit

Spec == Init /\ [][Next]_vars

-----------------------------------------------------------------------------
(* Properties.                                                              *)

TypeOK ==
    /\ meta \in [txid : TxIds, user_root : 0 .. kPageInvalidId, page_count : 0 .. PageMaxCount]
    /\ update_tx \in [txid : TxIds, user_root : 0 .. kPageInvalidId, page_count : 0 .. PageMaxCount]
    /\ writer \in {"idle", "open", "storing"}
    /\ \A o \in BucketIds : \A n \in DOMAIN sub_bucket_map[o] :
          sub_bucket_map[o][n] \in [id : 1 .. Len(sub_bucket_cache), pgid : 0 .. kPageInvalidId]
    /\ stored \subseteq Objects \X Names
    /\ \A r \in Readers : views[r].txid \in TxIds /\ views[r].user_root \in 0 .. kPageInvalidId
    /\ free_map \subseteq PageIds /\ alloc_records \subseteq PageIds
    /\ pending_map \in [TxIds -> SUBSET PageIds]
    /\ \A p \in PageIds : DOMAIN page[p].entries \subseteq Keys \cup Names

\* What a commit stored in buckets, at every depth, is what a reader of the
\* committed state finds, whatever later writers have done so far to their
\* copies, and whichever buckets the committing transaction had opened.
CommittedBucketsReadable == BucketsAt(page, meta.user_root) = committed

\* A view finds in every bucket what was committed when it began.
ViewsSeeTheirBuckets ==
    \A r \in OpenViews : BucketsAt(page, views[r].user_root) = views[r].seen

\* A bucket object of the writer shows the writer's own puts and deletes, also
\* after the trees above and beside it have been copied, and SubBucket on a
\* name it has seen before finds that very object.
HandlesReadOwnWrites ==
    writer # "idle" =>
        \A o \in Objects :
           /\ Content(page, RootOf(o)) = work[PathOf(o)].content
           /\ \A n \in DOMAIN sub_bucket_map[o] :
                 sub_bucket_cache[sub_bucket_map[o][n].id].path = Append(PathOf(o), n)

ReachedFrom(root) ==
    {RootAt(page, root, path) : path \in Paths} \ {kPageInvalidId, NoBucket}

Pending == UNION {pending_map[t] : t \in TxIds}

\* Between transactions a page of the committed buckets is neither free nor
\* about to be, and belongs to one bucket only.
BucketPagesNotFree ==
    writer = "idle" =>
        /\ ReachedFrom(meta.user_root) \cap (free_map \cup Pending) = {}
        /\ \A s, t \in Paths :
              /\ RootAt(page, meta.user_root, s) = RootAt(page, meta.user_root, t)
              /\ RootAt(page, meta.user_root, s) \in PageIds
              => s = t
=============================================================================
