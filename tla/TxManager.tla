----------------------------- MODULE TxManager -----------------------------
(***************************************************************************)
(* The transaction core of atomkv in its default mode                      *)
(* (DbMode::kUpdateInPlace): one writer, many readers, copy-on-write pages,*)
(* page reclamation and the two meta pages on disk.                        *)
(*                                                                         *)
(* The module composes TxManager, TxImpl, Pager and Meta, which share one  *)
(* state in the program.  What is abstracted:                              *)
(*   - the B-tree has a root branch and one leaf per member of Leaves; a   *)
(*     Put or Delete is a change of the contents of one leaf that neither  *)
(*     splits nor merges nodes (BTree.tla treats the shape);               *)
(*   - free_map_, pending_map_ and alloc_records_ are sets of pages, not   *)
(*     of ranges;                                                          *)
(*   - the free list fits in one page.                                     *)
(* Every handler runs under meta_lock or update_lock, so one action is one *)
(* handler; only Commit is cut in three, where a crash tells the difference*)
(* and where meta_lock keeps everybody else out.                           *)
(***************************************************************************)
EXTENDS Integers, FiniteSets

CONSTANTS
    Readers,       \* threads that open view transactions
    Leaves,        \* leaf nodes of the tree
    Values,        \* contents a leaf can have
    InitVal,       \* contents of every leaf when the database is opened
    MaxTxId,       \* bound on transaction ids (kTxInvalidId - 1 in the code)
    PageMaxCount,  \* bound on the number of pages, where Alloc throws
    MaxCrashes     \* bound on crashes in a behaviour

kPageInitCount == 2                            \* the two meta pages
InitRoot       == kPageInitCount
InitPageCount  == kPageInitCount + 1 + Cardinality(Leaves)
InitTxId       == 3

ASSUME ConstantsAssumption ==
    /\ IsFiniteSet(Leaves)
    /\ InitVal \in Values
    /\ MaxTxId \in Nat /\ MaxTxId >= InitTxId
    /\ PageMaxCount \in Nat /\ PageMaxCount >= InitPageCount
    /\ MaxCrashes \in Nat

TxIds          == 0 .. MaxTxId
kTxInvalidId   == MaxTxId + 1
PageIds        == 0 .. (PageMaxCount - 1)
kPageInvalidId == PageMaxCount

VARIABLES
    meta,            \* Meta::meta_struct_, shared by all transactions
    slots,           \* the two copies of the meta struct in the file
    cur_meta_index,  \* Meta::cur_meta_index_
    update_tx,       \* TxManager::update_tx_: the writer's private meta struct
    writer,          \* how far the writer is: "idle", "open", "sync", "save"
    views,           \* the open view transactions; view_tx_map_ counts them
    min_view_txid,   \* TxManager::min_view_txid_
    persisted_txid,  \* TxManager::persisted_txid_
    free_map,        \* Pager::free_map_
    pending_map,     \* Pager::pending_map_
    alloc_records,   \* Pager::alloc_records_
    page,            \* the mapped file, as every thread sees it
    disk,            \* what of it is known to be on disk
    work,            \* auxiliary: what the writer has put so far
    committed,       \* auxiliary: what each transaction committed
    acked,           \* auxiliary: the last txid whose Commit() returned
    crashes          \* auxiliary: how often the program has crashed

pagerVars == <<free_map, pending_map, alloc_records>>
metaVars  == <<meta, slots, cur_meta_index>>
vars == <<meta, slots, cur_meta_index, update_tx, writer, views, min_view_txid,
          persisted_txid, free_map, pending_map, alloc_records, page, disk,
          work, committed, acked, crashes>>

-----------------------------------------------------------------------------
(* Pages and meta structs.                                                  *)

LeafNode(txid, v)   == [type |-> "leaf", last_modified_txid |-> txid, value |-> v]
BranchNode(txid, c) == [type |-> "branch", last_modified_txid |-> txid, child |-> c]
FreeListPage(S)     == [type |-> "free_list", pages |-> S]
BlankPage           == [type |-> "blank"]

PageType ==
         [type : {"leaf"}, last_modified_txid : TxIds, value : Values]
    \cup [type : {"branch"}, last_modified_txid : TxIds, child : [Leaves -> PageIds]]
    \cup [type : {"free_list"}, pages : SUBSET PageIds]
    \cup {BlankPage}

MetaStruct == [txid : TxIds, user_root : PageIds, page_count : 0 .. PageMaxCount,
               free_list_pgid : PageIds \cup {kPageInvalidId}]

\* A meta struct as Meta::Save writes it; crc is what Load's check will find.
Slot(m, c) == [meta |-> m, crc |-> c]

NoUpdateTx == [txid |-> kTxInvalidId, user_root |-> kPageInvalidId,
               page_count |-> 0, free_list_pgid |-> kPageInvalidId]
NoView     == [txid |-> kTxInvalidId, user_root |-> kPageInvalidId]
NoWork     == [l \in Leaves |-> InitVal]

OpenViews == {r \in Readers : views[r] # NoView}

\* meta_lock is held by the writer from the start of Commit() to its end.
MetaLockFree == writer \in {"idle", "open"}

\* root is the root of a complete tree in the pages pg.
IsTree(pg, root) ==
    /\ root \in PageIds
    /\ pg[root].type = "branch"
    /\ \A l \in Leaves : pg[pg[root].child[l]].type = "leaf"

TreePages(pg, root) == {root} \cup {pg[root].child[l] : l \in Leaves}
Contents(pg, root)  == [l \in Leaves |-> pg[pg[root].child[l]].value]

-----------------------------------------------------------------------------
(* Init: a populated database that has just been opened.  Transaction 2     *)
(* built the tree, transaction 3 was empty, so both meta pages are valid;   *)
(* LoadFreeList found no free list.                                         *)

InitMeta(txid) == [txid |-> txid, user_root |-> InitRoot,
                   page_count |-> InitPageCount, free_list_pgid |-> kPageInvalidId]

InitPage(c) ==
    [p \in PageIds |->
        IF p = InitRoot THEN BranchNode(InitTxId - 1, c)
        ELSE IF \E l \in Leaves : c[l] = p THEN LeafNode(InitTxId - 1, InitVal)
        ELSE BlankPage]

Init ==
    /\ meta = InitMeta(InitTxId)
    /\ slots = [i \in {0, 1} |-> Slot(InitMeta(InitTxId - i), "good")]
    /\ cur_meta_index = 0
    /\ update_tx = NoUpdateTx
    /\ writer = "idle"
    /\ views = [r \in Readers |-> NoView]
    /\ min_view_txid = InitTxId
    /\ persisted_txid = kTxInvalidId
    /\ free_map = {}
    /\ pending_map = [t \in TxIds |-> {}]
    /\ alloc_records = {}
    /\ \E c \in [Leaves -> (InitRoot + 1) .. (InitPageCount - 1)] :
          /\ \A k, l \in Leaves : c[k] = c[l] => k = l
          /\ page = InitPage(c)
    /\ disk = page
    /\ work = NoWork
    /\ committed = [t \in TxIds |-> NoWork]
    /\ acked = InitTxId
    /\ crashes = 0

-----------------------------------------------------------------------------
(* Beginning and ending transactions.                                       *)

\* Mutant of IsMinView: the open views are not looked at.
IsMinViewCommitted(m) == m = meta.txid

\* The txid of the oldest open view, or of the committed meta (m is it).
IsMinView(m) ==
    IF OpenViews = {}
    THEN m = meta.txid
    ELSE /\ \E r \in OpenViews : views[r].txid = m
         /\ \A r \in OpenViews : m <= views[r].txid

\* Mutant of Releasable: what the last commit set free is released at once.
ReleasableTooEarly(m, t) == t <= m

\* Pager::Release frees what the transactions below this id set free.
Releasable(m, t) == t < m - 1

\* TxManager::Update: the new writer starts from the committed meta, and the
\* pages that no view can reach any more go back to the free map.
Update ==
    /\ writer = "idle"
    /\ meta.txid < MaxTxId
    /\ writer' = "open"
    /\ update_tx' = [meta EXCEPT !.txid = @ + 1]
    /\ \E m \in TxIds :
          /\ IsMinView(m)
          /\ min_view_txid' = m
          /\ free_map' = free_map \cup
                UNION {pending_map[t] : t \in {u \in TxIds : Releasable(m, u)}}
          /\ pending_map' = [t \in TxIds |-> IF Releasable(m, t) THEN {} ELSE pending_map[t]]
    /\ alloc_records' = {}
    /\ work' = committed[meta.txid]
    /\ UNCHANGED <<metaVars, views, persisted_txid, page, disk, committed, acked, crashes>>

\* TxManager::View
View(r) ==
    /\ MetaLockFree
    /\ views[r] = NoView
    /\ views' = [views EXCEPT ![r] = [txid |-> meta.txid, user_root |-> meta.user_root]]
    /\ UNCHANGED <<metaVars, update_tx, writer, min_view_txid, persisted_txid,
                   pagerVars, page, disk, work, committed, acked, crashes>>

\* ViewTx::~ViewTx, TxManager::RollBack(view_txid)
RollBackView(r) ==
    /\ MetaLockFree
    /\ views[r] # NoView
    /\ views' = [views EXCEPT ![r] = NoView]
    /\ UNCHANGED <<metaVars, update_tx, writer, min_view_txid, persisted_txid,
                   pagerVars, page, disk, work, committed, acked, crashes>>

\* Mutant of PagerRollback: the pending list of the writer is kept.
PagerRollbackKeepsPending ==
    /\ free_map' = free_map \cup alloc_records
    /\ alloc_records' = {}
    /\ UNCHANGED pending_map

\* Pager::Rollback: what the writer set free stays in use, what it took from
\* the free map goes back.
PagerRollback ==
    /\ pending_map' = [pending_map EXCEPT ![update_tx.txid] = {}]
    /\ free_map' = free_map \cup alloc_records
    /\ alloc_records' = {}

\* TxManager::RollBack, also run by the destructor of an open UpdateTx.
RollBack ==
    /\ writer = "open"
    /\ PagerRollback
    /\ update_tx' = NoUpdateTx
    /\ writer' = "idle"
    /\ work' = NoWork
    /\ UNCHANGED <<metaVars, views, min_view_txid, persisted_txid, page, disk,
                   committed, acked, crashes>>

-----------------------------------------------------------------------------
(* Writing.                                                                 *)

\* Mutant of Allocates: the last page is handed out again.
AllocatesLastPage(f, n, p) ==
    IF f = {} THEN p = n - 1 /\ n < PageMaxCount
              ELSE p \in f /\ \A q \in f : p <= q

\* Pager::Alloc(1) on free map f and page count n may return p: the lowest
\* free page, or the first page behind the last one.
Allocates(f, n, p) ==
    IF f = {} THEN p = n /\ n < PageMaxCount
              ELSE p \in f /\ \A q \in f : p <= q

\* Mutant of PageCountAfter: a page of the free map is counted as new.
PageCountAlwaysGrows(n, p) == n + 1

PageCountAfter(n, p) == IF p \in free_map THEN n ELSE n + 1

\* Pager::Alloc and Pager::Free for the pages taken and the pages replaced.
AllocAndFree(taken, replaced) ==
    /\ free_map' = free_map \ taken
    /\ alloc_records' = alloc_records \cup (taken \cap free_map)
    /\ pending_map' = [pending_map EXCEPT ![update_tx.txid] = @ \cup replaced]

\* Mutant of CopyNeeded: the pages of the last commit are taken for the writer's
\* own.
CopyNeededOffByOne(txid) == txid + 1 < update_tx.txid

\* TxImpl::CopyNeeded
CopyNeeded(txid) ==
    /\ ~(txid < min_view_txid /\ txid > persisted_txid)
    /\ txid < update_tx.txid

Root    == update_tx.user_root
Leaf(l) == page[Root].child[l]

\* BTreeIterator::CopyAllPagesByPath stops at the leaf: nothing is copied.
PutInPlace(l, v) ==
    /\ ~CopyNeeded(page[Leaf(l)].last_modified_txid)
    /\ page' = [page EXCEPT ![Leaf(l)].value = v]
    /\ UNCHANGED <<update_tx, pagerVars>>

\* The leaf is copied, the root is not: the root gets the new child.
PutCopyLeaf(l, v) ==
    /\ CopyNeeded(page[Leaf(l)].last_modified_txid)
    /\ ~CopyNeeded(page[Root].last_modified_txid)
    /\ \E p \in PageIds :
          /\ Allocates(free_map, update_tx.page_count, p)
          /\ page' = [page EXCEPT ![p] = LeafNode(update_tx.txid, v),
                                  ![Root].child[l] = p]
          /\ AllocAndFree({p}, {Leaf(l)})
          /\ update_tx' = [update_tx EXCEPT !.page_count = PageCountAfter(@, p)]

\* Leaf and root are copied, bottom to top, and the copy is the new root.
PutCopyPath(l, v) ==
    /\ CopyNeeded(page[Leaf(l)].last_modified_txid)
    /\ CopyNeeded(page[Root].last_modified_txid)
    /\ \E p, q \in PageIds :
          /\ Allocates(free_map, update_tx.page_count, p)
          /\ Allocates(free_map \ {p}, PageCountAfter(update_tx.page_count, p), q)
          /\ page' = [page EXCEPT ![p] = LeafNode(update_tx.txid, v),
                                  ![q] = BranchNode(update_tx.txid,
                                            [page[Root].child EXCEPT ![l] = p])]
          /\ AllocAndFree({p, q}, {Leaf(l), Root})
          /\ update_tx' = [update_tx EXCEPT
                !.user_root = q,
                !.page_count = PageCountAfter(PageCountAfter(@, p), q)]

\* BucketImpl::Put and BucketImpl::Delete on an entry of leaf l.
Put(l, v) ==
    /\ writer = "open"
    /\ PutInPlace(l, v) \/ PutCopyLeaf(l, v) \/ PutCopyPath(l, v)
    /\ work' = [work EXCEPT ![l] = v]
    /\ UNCHANGED <<metaVars, writer, views, min_view_txid, persisted_txid, disk,
                   committed, acked, crashes>>

-----------------------------------------------------------------------------
(* Committing.                                                              *)

AllPending(pm) == UNION {pm[t] : t \in TxIds}

\* Pager::SaveFreeList, with its effect on the meta of the update transaction.
\* With nothing to save it allocates zero pages.
SaveFreeList ==
    LET freed   == {update_tx.free_list_pgid} \ {kPageInvalidId}
        pending == [pending_map EXCEPT ![update_tx.txid] = @ \cup freed]
    IN  IF free_map = {} /\ AllPending(pending) = {}
        THEN /\ update_tx' = [update_tx EXCEPT !.free_list_pgid = update_tx.page_count]
             /\ UNCHANGED <<pagerVars, page>>
        ELSE \E p \in PageIds :
                /\ Allocates(free_map, update_tx.page_count, p)
                /\ AllocAndFree({p}, freed)
                /\ page' = [page EXCEPT ![p] =
                      FreeListPage((free_map \ {p}) \cup AllPending(pending))]
                /\ update_tx' = [update_tx EXCEPT
                      !.free_list_pgid = p, !.page_count = PageCountAfter(@, p)]

\* TxManager::Commit up to the sync: Meta::Reset, then SaveFreeList.
Commit ==
    /\ writer = "open"
    /\ meta' = update_tx
    /\ SaveFreeList
    /\ writer' = "sync"
    /\ committed' = [committed EXCEPT ![update_tx.txid] = work]
    /\ UNCHANGED <<slots, cur_meta_index, views, min_view_txid, persisted_txid,
                   disk, work, acked, crashes>>

\* Mutant of WriteAllDirtyPages: nothing is synced.
WriteNothing ==
    /\ writer = "sync"
    /\ writer' = "save"
    /\ UNCHANGED <<metaVars, update_tx, views, min_view_txid, persisted_txid,
                   pagerVars, page, disk, work, committed, acked, crashes>>

\* Pager::WriteAllDirtyPages
WriteAllDirtyPages ==
    /\ writer = "sync"
    /\ disk' = page
    /\ writer' = "save"
    /\ UNCHANGED <<metaVars, update_tx, views, min_view_txid, persisted_txid,
                   pagerVars, page, work, committed, acked, crashes>>

\* Meta::Switch, Meta::Save, and the end of TxManager::Commit.
SwitchAndSave ==
    /\ writer = "save"
    /\ cur_meta_index' = 1 - cur_meta_index
    /\ slots' = [slots EXCEPT ![1 - cur_meta_index] = Slot(meta, "good")]
    /\ update_tx' = NoUpdateTx
    /\ writer' = "idle"
    /\ acked' = meta.txid
    /\ work' = NoWork
    /\ UNCHANGED <<meta, views, min_view_txid, persisted_txid, pagerVars, page,
                   disk, committed, crashes>>

-----------------------------------------------------------------------------
(* Opening and closing, crashes.                                            *)

\* Mutant of Newer: the comparison is the wrong way round.
NewerSwapped(s) == IF s[0].meta.txid < s[1].meta.txid THEN 0 ELSE 1

\* Meta::Load: the newer struct, or the other one when its crc is wrong.
Newer(s)     == IF s[0].meta.txid < s[1].meta.txid THEN 1 ELSE 0
LoadIndex(s) == IF s[Newer(s)].crc = "good" THEN Newer(s) ELSE 1 - Newer(s)

\* Pager::LoadFreeList
LoadFreeList(m, pg) ==
    IF m.free_list_pgid = kPageInvalidId THEN {} ELSE pg[m.free_list_pgid].pages

\* DB::Open on a file with meta pages s and pages pg.
Open(s, pg) ==
    /\ s[LoadIndex(s)].crc = "good"
    /\ slots' = s
    /\ cur_meta_index' = LoadIndex(s)
    /\ meta' = s[LoadIndex(s)].meta
    /\ page' = pg
    /\ free_map' = LoadFreeList(s[LoadIndex(s)].meta, pg)
    /\ pending_map' = [t \in TxIds |-> {}]
    /\ alloc_records' = {}
    /\ min_view_txid' = s[LoadIndex(s)].meta.txid
    /\ persisted_txid' = kTxInvalidId
    /\ update_tx' = NoUpdateTx
    /\ writer' = "idle"
    /\ views' = [r \in Readers |-> NoView]
    /\ work' = NoWork

\* DBImpl::~DBImpl with no transaction open, then DB::Open: the file is cut
\* to page_count pages.
CloseAndOpen ==
    /\ writer = "idle"
    /\ OpenViews = {}
    /\ LET cut(pg) == [p \in PageIds |-> IF p < meta.page_count THEN pg[p] ELSE BlankPage]
       IN  /\ Open(slots, cut(page))
           /\ disk' = cut(disk)
    /\ UNCHANGED <<committed, acked, crashes>>

\* What a crash can leave of the two meta pages: while Save is writing, the
\* struct behind is the old one, the new one, or torn, with either txid.
SlotsAfterCrash ==
    IF writer # "save"
    THEN {slots}
    ELSE {slots} \cup
         {[slots EXCEPT ![1 - cur_meta_index] = s] :
              s \in {Slot(meta, "good"), Slot(meta, "bad"),
                     Slot(slots[1 - cur_meta_index].meta, "bad")}}

\* A crash, of the process or of the machine, and DB::Open: of the pages
\* written since the last sync any subset has reached the disk.
Crash ==
    /\ crashes < MaxCrashes
    /\ crashes' = crashes + 1
    /\ UNCHANGED <<committed, acked>>
    /\ \E s \in SlotsAfterCrash, lost \in SUBSET {p \in PageIds : page[p] # disk[p]} :
        LET left == [p \in PageIds |-> IF p \in lost THEN disk[p] ELSE page[p]]
        IN  /\ Open(s, left)
            /\ disk' = left

-----------------------------------------------------------------------------

Next ==
    \/ Update
    \/ \E r \in Readers : View(r) \/ RollBackView(r)
    \/ RollBack
    \/ \E l \in Leaves, v \in Values : Put(l, v)
    \/ Commit
    \/ WriteAllDirtyPages
    \/ SwitchAndSave
    \/ CloseAndOpen
    \/ Crash

Spec == Init /\ [][Next]_vars

-----------------------------------------------------------------------------
(* Properties.                                                              *)

TypeOK ==
    /\ meta \in MetaStruct
    /\ slots \in [{0, 1} -> [meta : MetaStruct, crc : {"good", "bad"}]]
    /\ cur_meta_index \in {0, 1}
    /\ update_tx \in MetaStruct \cup {NoUpdateTx}
    /\ writer \in {"idle", "open", "sync", "save"}
    /\ views \in [Readers -> [txid : TxIds, user_root : PageIds] \cup {NoView}]
    /\ min_view_txid \in TxIds
    /\ persisted_txid \in TxIds \cup {kTxInvalidId}
    /\ free_map \subseteq PageIds
    /\ pending_map \in [TxIds -> SUBSET PageIds]
    /\ alloc_records \subseteq PageIds
    /\ page \in [PageIds -> PageType]
    /\ disk \in [PageIds -> PageType]
    /\ work \in [Leaves -> Values]
    /\ committed \in [TxIds -> [Leaves -> Values]]
    /\ acked \in TxIds
    /\ crashes \in Nat

\* The versions somebody may still read: those of the open views, and those
\* the two meta pages would bring back after a crash.
ViewVersions == {views[r] : r \in OpenViews}
SlotVersions == {[txid |-> slots[i].meta.txid, user_root |-> slots[i].meta.user_root] :
                    i \in {j \in {0, 1} : slots[j].crc = "good"}}
LiveVersions == ViewVersions \cup SlotVersions

\* Snapshot isolation: an open view reads exactly what the transaction it
\* started from committed, whatever the writer copies, overwrites in place,
\* frees, reuses or rolls back meanwhile (TxImpl::CopyNeeded, Pager::Release).
SnapshotIsolation ==
    \A v \in ViewVersions :
        /\ IsTree(page, v.user_root)
        /\ Contents(page, v.user_root) = committed[v.txid]

\* Atomicity of commit and rollback: whenever View() can run, the meta struct
\* it copies leads to exactly what the last commit put, no more and no less.
CommittedStateReadable ==
    MetaLockFree =>
        /\ IsTree(page, meta.user_root)
        /\ Contents(page, meta.user_root) = committed[meta.txid]

\* The writer reads its own writes: path copying never lets a Put on one leaf
\* disturb another one.
WriterSeesItsWrites ==
    writer = "open" => IsTree(page, Root) /\ Contents(page, Root) = work

\* Crash atomicity: every valid meta page leads, on the disk alone and in any
\* mixture of synced and unsynced pages, to what its transaction committed.
DurableVersionsIntact ==
    /\ slots[LoadIndex(slots)].crc = "good"
    /\ \A v \in SlotVersions :
          /\ IsTree(disk, v.user_root)
          /\ Contents(disk, v.user_root) = committed[v.txid]
          /\ \A p \in TreePages(disk, v.user_root) : page[p] = disk[p]

\* Durability: once Commit() has returned no crash, torn meta page or reopening
\* brings back an older version (Meta::Switch, Meta::Save, Meta::Load).
AckedCommitSurvives == MetaLockFree => meta.txid >= acked

\* Reclamation is safe: a page of a live version is not on the free list, and
\* is waiting to be freed only for a transaction younger than that version.
LivePagesNotFree ==
    \A v \in LiveVersions : \A p \in TreePages(page, v.user_root) :
        /\ p \notin free_map
        /\ \A t \in TxIds : p \in pending_map[t] => t > v.txid

\* No page is freed twice: the free map and the pending lists are disjoint
\* (the assertion on debug_free_set_ in Pager::FreeToMap).
NoDoubleFree ==
    \A t \in TxIds :
        /\ pending_map[t] \cap free_map = {}
        /\ \A u \in TxIds : u # t => pending_map[t] \cap pending_map[u] = {}

\* No step, a crash included, changes a page of a live version.
LivePagesNeverOverwritten ==
    [][\A v \in LiveVersions : \A p \in TreePages(page, v.user_root) : page'[p] = page[p]]_vars
=============================================================================
