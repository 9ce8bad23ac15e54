# A TLA+ verification project for atomkv

atomkv is an embedded key-value store in C++: one file, mapped into memory,
copy-on-write B+ trees, one writer and many readers, and an optional
write-ahead log. This directory holds TLA+ modules translated from its source,
the TLC configurations that check them on small instances, and TLAPS proofs for
the transaction core, the pager, the log, the locks, the pages in kWal mode, the
inside of a page and buckets.
`PROJECT.json` lists the components, the runs, the mutants
that show each property can fail, the source lines behind each definition, the
findings and the hazards.

    tlc -workers 2 -config TxManagerCore.cfg MCTxManager      # a run
    tlapm TxManagerProofs.tla                                 # proofs; also the
        # modules Locks-, Pager-, Logger-, WalMode-, Node-, Bucket- and
        # TxManagerRefinementProofs

## 1. The system

### Components

| Component | State | Operations | Used by / uses |
|---|---|---|---|
| `TxManager` (tx_manager.cpp) | `update_tx_`, `view_tx_map_`, `min_view_txid_`, `persisted_txid_`, `update_lock`, `meta_lock` | Update, View, RollBack (writer, view), Commit, Append*Log | called by `DBImpl`; calls Pager, Meta, Logger |
| `TxImpl`, `UpdateTx`, `ViewTx` (tx_impl.cpp) | a private copy of the meta struct, a cache of sub-buckets, a shared `db_mmap_lock_` | CopyNeeded, Commit, destructors that roll back | hold the user bucket |
| `Pager` (pager.cpp) | `free_map_`, `pending_map_`, `alloc_records_`, dirty pages through the mapping | Alloc, Free, Copy, Release, Rollback, Load/SaveFreeList, WriteAllDirtyPages | used by nodes and TxManager |
| `Meta` (meta.cpp) | `meta_struct_`, `cur_meta_index_`, two pages of the file | Init, Load, Save, Switch, Reset | read by View and Update |
| `Logger` (logger.cpp) | the log file, `checkpoint_needed_` | AppendLog, FlushLog, Checkpoint, Reset, Recover, destructor | called by TxManager in kWal mode |
| `DBImpl` (db_impl.cpp) | the mapping `db_mmap_`, `db_mmap_pending_`, `db_mmap_lock_`, shared memory | Open, Update, View, Remmap, ClearPendingMmap, InitLogFile | owns everything |
| `BTree`, `Node` (btree.cpp, node.cpp) | nodes in pages | Get, LowerBound, Put, Delete with splits, borrowing and merges | called by BucketImpl |
| `BTreeIterator` (btree_iterator.cpp) | a stack of (page, slot) | First, Next, Last, Prev, Down, CopyAllPagesByPath | used by BTree |
| `BucketImpl` (bucket_impl.cpp) | a tree, whose root page is kept by the parent; `sub_bucket_map_` with ids and roots of the open sub-buckets | Put, Delete, Update, SubBucket, DeleteSubBucket | user interface |
| `wal`, with `tinyio` | log records, files | | external: a submodule, not in the repository |
| `mio` (third_party/mio) | a mapping of a file | map, sync, unmap | vendored, third party; used by DBImpl and Pager |

### Interaction and what is hard

A write transaction copies the meta struct, changes pages by copying every page
on the path from the leaf to the root, and publishes a new meta struct at
commit. Pages it replaces go to its pending list; they return to the free map
when no view can need them. Readers hold no lock while they read: they rely on
the pages of their version not being touched. Hard to test are

* reclamation against views of any age, and rollback after reuse;
* crashes between the steps of a commit, lost page writes and torn meta pages;
* in kWal mode, checkpoints in the middle of the life of views and transactions,
  and crashes of every phase of log, checkpoint, closing and recovery;
* three locks, one of them held by each view for its lifetime, and a mapping
  that moves;
* rare shapes of the tree: a split that has to retry, a merge that has to fit,
  a separator that grows;
* ranges of free pages that are cut, merged and given back in any order;
* roots of nested buckets that change while Commit is storing them;
* the inside of a page after many insertions and deletions: holes, compaction,
  overflow pages, and children that move with the slots.

`hazards` in PROJECT.json has them line by line.

## 2. Modules

| Module | Models | Role |
|---|---|---|
| `KVStore` | the promise of readme.md lines 13-14 | abstract specification |
| `TxManager` | TxManager, TxImpl, Pager, Meta, path copying, DB::Open, in kUpdateInPlace mode | core |
| `TxManagerRefinement` | | the mapping from TxManager to KVStore |
| `TxManagerInv`, `TxManagerProofs` | | inductive invariant and TLAPS proofs |
| `TxManagerRefinementProofs` | | proof that TxManager implements KVStore |
| `PagerProofs`, `LoggerProofs`, `LocksProofs`, `WalModeProofs`, `NodeProofs`, `BucketProofs` | | inductive invariants and proofs of those components |
| `WalMode` (extends TxManager) | the pages in kWal mode, with checkpoints | composition of pager, transactions and checkpoints |
| `Logger` | log, checkpoint, closing, crash, recovery | component |
| `Locks` | threads, the three locks, Remmap | component |
| `BTree` | BTree, forward iteration, nodes as sequences | component (uses RECURSIVE, TLC only) |
| `Node` | the inside of a page: slots, records, compaction, overflow pages | component |
| `PageSets` | what TxManager assumes of the pager, page by page | abstract specification |
| `Pager` | the pager's ranges: FreeToMap, AllocFromMap, Release, Rollback, SaveFreeList | component, implements PageSets |
| `Bucket` | BucketImpl, the sub-bucket cache of TxImpl, the loops of TxImpl::Commit | component |
| `MC...` | | constants, symmetry, view for TLC |

### TxManager

State and code correspond one to one; see the comments at VARIABLES. `page` is
the mapping, which every thread sees at once; `disk` is what the last sync made
durable. `work`, `committed`, `acked` and `crashes` are auxiliary.

* `Update` is TxManager::Update with Pager::Release; `View`, `RollBackView`,
  `RollBack` (with Pager::Rollback) are the handlers of those names.
* `Put` is a Put or Delete of a bucket: it copies the path from the leaf up to
  the first page that needs no copy (`PutInPlace`, `PutCopyLeaf`,
  `PutCopyPath` are the three places where CopyAllPagesByPath can stop).
* `Commit` (Meta::Reset, SaveFreeList), `WriteAllDirtyPages` (sync) and
  `SwitchAndSave` (Meta::Switch, Meta::Save) are TxManager::Commit, cut where a
  crash tells the difference. The writer has meta_lock meanwhile.
* `CloseAndOpen` is a clean restart; `Crash` loses any subset of the pages that
  were not synced, and may leave the meta page being written old, new or torn.

Abstractions: the tree has a root and one leaf per member of `Leaves`, and no
splits (BTree has them); page sets instead of ranges (Pager shows that the
ranges implement them); a free list that fits in a page; sync and write do not fail. `Init` is an existing database, opened.

### WalMode

TxManager's actions, with `CommitToLog` (no page is written) and a checkpoint at
any commit or rollback: in the code it is due when the log has reached
`max_wal_size`, which can be at any of them. A checkpoint during RollBack runs
before Pager::Rollback, with the pages and the free list of the transaction
being undone; the model keeps that order.

After a checkpoint CopyNeeded lets the writer overwrite pages of the committed
version in place (finding 1). If it overwrites a leaf, the committed tree has
other contents but the same pages. If it overwrites the committed root, because
the leaf below had to be copied, the committed root has got a child the writer
allocated (`relinked`); a rollback then gives that child back to the pager while
the committed tree still has it (`dangling`). No action depends on the two
auxiliary variables: the program goes on, reuses the page and frees it again.
The properties about pages say that this is the one thing that breaks them: they
are stated for `~dangling`.

### Logger

A database is a txid and contents; a record is kWalTxId, kBegin, kPut, kCommit
or kRollback. The file (`log_file`), the writer's buffer and the synced prefix
are separate; a crash leaves any prefix that has at least the synced records
(a torn record ends the log). A transaction's end and the checkpoint after it
are separate actions because a crash can fall between them, and so are the two
halves of ~Logger, whose transaction is begun by the action `Update`. `Replay` is
the loop body of Recover, errors included; `Recover` keeps the fact that
`raw_txid` is a reference, and appends the kRollback of a transaction that is
still open, which can make a checkpoint due (`RecoverCheckpoint`).

The pages are those of WalMode; here `pages` says what became of them:

* "sound": those of the version on disk are in place;
* "released": Release, which does not look at `persisted_txid_`, may have handed
  out pages of the version on disk (from the third transaction after the
  checkpoint on); `DisksAfterCrash` then has any contents;
* "lost": a crash has found such pages overwritten, or a rollback has left what
  its transaction overwrote (finding 1, `StoresAfterRollBack`). This is for ever.

So `disk` is the last checkpoint's version only while `pages` is "sound".
FirstCrashRecovers is stated for "sound", RecoveredStateFaithful for not "lost".

Logger opens the log with the same call in its constructor and in Reset. After
the first RecoverNeeded looks at what the file holds, after the second Checkpoint
relies on an empty file; the wal library is not in the repository, so the model
assumes both.

### Locks

One action per stretch of code between two points where a thread can wait or
another can look. A thread may have a view and a write transaction at the same
time, in either order, as tx_manager_test.cpp does. `prefers_writers` is the
policy of std::shared_mutex, which the standard leaves open: `Init` chooses it.

### BTree

A tree is `[root, node, own, freed, failed]`: pages, those the writer allocated,
those it freed, and whether an assertion of the code failed. `PutTree` and
`DeleteTree` are BTree::Put and BTree::Delete as functions of the tree, with the
same order of splitting, copying, borrowing and merging as the code; `PutKey`,
`DeleteKey`, `Commit` and `RollBack` are the steps of a writer. Space is counted
in units: a record takes `KeySize` (with its slot) plus `ValueSize`.

### Node

One page without its header, `mem` unit by unit, so that a record that was moved
or overwritten wrongly is seen. `Insert`, `Update`, `Delete` and `SetChild` are
the operations of LeafNode and BranchNode of those names (Append is Insert at
the end, Pop is Delete of the last). `SpaceFor` is RequestSpaceFor with
Compactify; `UpdateFails` is Update with RestoreRecord. Overflow records are a
function from page numbers to records; NewPage stands for Pager::Alloc.
`records`, `children` and `lost` are auxiliary. A record has a tag and sizes; its
n-th unit is (tag, n).

The model is of a build with assertions. `InsertAborts` and `UpdateAborts` are the
calls in which one fails, which ends the program (`aborted`). It can happen only
after Update was called on an overflow record, whose page is then in `lost` (see
the observations); in a build without assertions Compactify would go on at the
same point, with a `space_used` that is not the space of what it has copied.

BTree treats a node as sequences of keys and data with a total space: Node's
`ChildrenInOrder`, `RecordsIntact` and `SpaceIsExact` are what justifies that.

### Pager and PageSets

`free_map` is std::map from first page to length, `pending_map` and
`alloc_records` are sequences of ranges. FreeToMap keeps the code's iterator: it
looks at the range before only when it has merged the one behind, or when there
is none. One turn of the loops of Release and Rollback is one step
(`ReleaseNext`, `RollBackNext`). `Commit` has SaveFreeList with the number of
pages computed before Alloc changes the map. `in_use` is what the application of
the pager, a tree, holds: it frees the ranges it was given. Two meta pages and
InitCount - 2 single pages are in use when the file is opened.

PageSets is the same in sets of pages, each handler one step: what TxManager
assumes. The mapping counts the ranges a running loop has still to go through as
free; then every turn of a loop is a stuttering step, and a rollback must give
back exactly the pages that were free when the transaction began.

### Bucket

The mode is kUpdateInPlace. Every bucket is a tree of one page; page 2 is the user bucket's when the
database is opened, with one sub-bucket in page 3. An object of the writer is
the user bucket (0) or an element of `sub_bucket_cache`, in the order of
SubBucket calls; the root of a sub-bucket's tree is in `sub_bucket_map` of its
parent's object, as in the code, where BTree has a pointer to it.
`BTreeWrite` writes entries in place or, if the page is of an earlier
transaction, in a copy that becomes the root. Commit is `BeginCommit`, one
`StoreNext` per turn of the two loops, user bucket first, and `Commit`
(TxManager::Commit). Within one map the order of keys is left open.
`work`, `committed` and `views[r].seen` are auxiliary: contents by path.

## 3. Runs

| Run | Shows | Bounds |
|---|---|---|
| `txmanager_core` | TypeOK, SnapshotIsolation, CommittedStateReadable, WriterSeesItsWrites, DurableVersionsIntact, AckedCommitSurvives, LivePagesNotFree, NoDoubleFree, LivePagesNeverOverwritten, ImplementsKVStore | 2 readers, 2 leaves, 2 values, txids 3 to 8, 10 pages, 1 crash |
| `pager_ranges` | TypeOK, NoPageHeldTwice, FreeListSound, ImplementsPageSets | txids to 5, 8 pages, 4 of them in use at first, ranges of 1 and 2 pages, 2 pairs per page of a free list, 3 calls per transaction |
| `bucket_commit` | TypeOK, CommittedBucketsReadable, ViewsSeeTheirBuckets, HandlesReadOwnWrites, BucketPagesNotFree | 1 reader, 2 names, 1 key, 1 level, txids to 5, 8 pages, 3 calls per transaction |
| `bucket_nested` | violation of CommittedBucketsReadable | 2 levels, 1 name, txids to 3 |
| `node_layout` | RecordsIntact, SpaceIsExact, OverflowAccountedFor, ChildrenInOrder | a page of 8 units, slots of 1, page numbers of 2, records of 1, 3 and 4 units of 2 kinds, 2 children, 2 overflow records at a time |
| `walmode_checkpoint` | ViewPagesNotFree, WalNoDoubleFree | 2 readers, 2 leaves, txids 3 to 8, 13 pages |
| `walmode_rollback` | violation of RollBackRestores | 1 reader, 1 leaf, 2 values, txids to 7 |
| `logger_crash` | TypeOK, FirstCrashRecovers, RecoveredStateFaithful, LogShorterThanMax | 2 keys, 2 records per transaction, txids 3 to 7, log of 8 records, 1 crash |
| `logger_second_crash` | violation of EveryCrashRecovers | the same, txids 3 to 6, log of 6 records |
| `locks_live` | TypeOK, PointersStayMapped, PendingClearedByUpdate, EveryCallReturns | 3 threads, 2 calls each, 3 mappings, a lock of either policy |
| `btree_shape` | AssertionsHold, SearchIsExact, ScanIsSorted, Balanced, CommittedVersionIntact, PagesAccountedFor | 6 keys of one size, 2 records per page, 3 operations per transaction |
| `btree_split` | violation of SearchIsExact | 8 keys of sizes 1 and 2, pages of 4 |

Why the bounds are enough to be interesting:

* In TxManager a page freed by transaction t can be reused from t + 3 on
  (`Release(min_view_txid_ - 1)`), so five transactions after the initial one
  let pages be freed, released, reused, and rolled back after reuse. Two readers
  give views of different ages. With two leaves a Put finds the leaf and the
  root, the root alone, or neither already copied. Ten pages force reuse and meet
  the limit of the file.
* In WalMode one value is enough, since the properties are about pages. Pages
  freed by the first transaction are released when the fourth begins, so with
  txids up to 8 they are reused by two transactions, under views of two ages,
  before or after checkpoints.
* In Pager four single pages in use can be freed in any order: releases and
  rollbacks then merge with the range behind, before, both, and skip the merge
  with the one before; a free list of more than two pairs takes two pages.
* In Bucket a transaction can open the existing bucket, create another and write
  into one of them, in any order; five transactions reuse the pages of the first.
* In Node a page has room for four short records, two long ones, or a mixture;
  a record of four units goes to overflow pages. Compaction happens with holes
  before, between and behind the records that stay.
* In Logger a log of eight records is reached in the middle of a transaction, at
  its end and by a rollback, also by the one at the end of Recover. With txids up
  to 7 there are transactions after a checkpoint, or after Init, that get pages of
  the version on disk, and rollbacks that leave what was overwritten.
* In Locks two calls per thread are enough for a view and a write transaction in
  one thread, two Remmaps with views in between, and both deadlocks.
* In BTree pages of two records give three levels with six keys, merges that
  shrink the tree by a level and borrowing between branches. The run stores one
  value per key, since records of one size behave alike.

Symmetry is used for readers, leaves and keys only where they are model values
that nothing orders. `BTreeShape.cfg` and `BTreeSplit.cfg` use a VIEW
(`PagesUnnamed`): states are told apart by the shape of the writer's and the
committed tree, by which pages are the writer's or freed, and by the number of
pages in use and freed, not by page numbers. Nothing in the module or its
properties depends on a page number: Alloc could return any unused page. Pages
shared by the two trees are those the writer does not own.

`TxManagerCore.cfg`, `WalModeCheckpoint.cfg`, `BucketCommit.cfg` and
`NodeLayout.cfg` also have a VIEW: the
state without pages that are in no tree of the writer, of a view or of a meta
page (`LiveState`), or without the units of the page that belong to no record
(`LivePage`). Nothing reads them before they have been written as a whole: Alloc
is followed by Build or Copy, a record is stored before its slot leads to it,
and LoadFreeList finds no list (`TypeInv` in section 4 has the proof). So two
states with the same view have the same successors up to the view, and the
properties do not mention what is hidden. The one of WalMode leaves out the file
as well, which no action there reads. It does not tell states apart in which
`dangling` is true, and that of `LoggerCrash.cfg` (`Relevant`) leaves out contents
once they are lost: both are for ever, and nothing is promised afterwards.
`Relevant` also leaves out what was committed before the version on disk.

Deadlock checking is off in the Logger and Locks runs, where the bounds on txids
and calls end every behaviour (EveryCallReturns speaks of the deadlocks of the
locks), and in the Node run, where a failed assertion ends the program.

Fairness: Locks assumes weak fairness of `Proceed(t)` for each thread. Threads
are scheduled by the operating system and applications end the transactions they
begin; beginning a transaction is never forced. A view that is never closed
blocks Update() after a Remmap, by design. The other modules state safety only.

## 4. What is proved

All theorems hold for every value of the constants that satisfies the ASSUME of
the component's module: any number of readers, threads, leaves, keys, pages and
transactions, logs and ranges of any length. The assumptions say that the
constants are finite sets and numbers in the range the code starts from.

| Module | Theorems |
|---|---|
| `TxManagerProofs` | `Invariance`, `TypeCorrect`, `SnapshotIsolationHolds`, `CommittedStateReadableHolds`, `WriterSeesItsWritesHolds`, `DurableVersionsIntactHolds`, `AckedCommitSurvivesHolds`, `LivePagesNotFreeHolds`, `NoDoubleFreeHolds`, and the action property `LivePagesNeverOverwrittenHolds` |
| `TxManagerRefinementProofs` | `ImplementsKVStoreHolds`: Spec => KV!Spec |
| `PagerProofs` | `Invariance`, `TypeCorrect`, `NoPageHeldTwiceHolds`, `FreeListSoundHolds`, `ImplementsPageSetsHolds`: Spec => PS!Spec |
| `LoggerProofs` | `Invariance`, `TypeCorrect`, `FirstCrashRecoversHolds`, `RecoveredStateFaithfulHolds` (up to the second crash), `LogShorterThanMaxHolds` |
| `LocksProofs` | `Invariance`, `TypeCorrect`, `PointersStayMappedHolds`, and the action property `PendingClearedByUpdateHolds` |
| `WalModeProofs` | `WalInvariance`, `ViewPagesNotFreeHolds`, `WalNoDoubleFreeHolds` |
| `NodeProofs` | `ChildrenInOrderHolds`, `PageInvariance`, `RecordsIntactHolds`, `SpaceIsExactHolds`, `OverflowAccountedForHolds` |
| `BucketProofs` | if MaxDepth = 1: `BucketInvariance`, `TypeOKHolds`, `CommittedBucketsReadableHolds`, `ViewsSeeTheirBucketsHolds`, `HandlesReadOwnWritesHolds`, `BucketPagesNotFreeHolds` |

The condition is where the code stops doing what the properties say: buckets in
buckets (section 5). Elsewhere such conditions are part of the properties, over
specifications that do not stop there: a page handed out or overwritten too early
in kWal mode (`pages`, `dangling`) and an overwritten overflow record (`lost`).

In each of them an inductive invariant is shown to hold initially and to be
preserved by each action, part by part, and the properties follow from it. TLC
checked every such invariant on the bounds of the component's run before it was
proved.

### TxManager

The properties are not inductive: that a view reads its snapshot after a Put
depends on where the new page came from, which depends on what Release put into
the free map long before. `IInv` has five parts:

* `TypeInv`: types, and what never happens in this mode (no persisted_txid_, no
  linked free list);
* `SlotInv`: the current meta page is valid and is the committed meta struct;
  the other is the version before it, or torn;
* `PagerInv`: an unused page is in one place only, below the page count;
  pending lists belong to transactions that have begun;
* `VersionInv`: every page of every live version (of a view or a valid meta
  page) is older than the version, neither free nor allocated by the writer,
  pending only for younger transactions, and the same on disk;
* `WriterInv`: the writer's tree is complete, has its writes, and its pages are
  in no list.

The key step is `Update`: what it releases is pending for transactions no
younger than every view and both meta pages, so by `VersionInv` it is in no live
version. Lemmas state what path copying, releasing and crashes do to trees.

The refinement of KVStore follows from the same invariant: a Put changes the
contents of the writer's tree at one leaf, `SwitchAndSave` is the moment a
commit takes effect, and a crash maps to a loss of what was not acknowledged.

### Pager

The lemmas say what FreeToMap, AllocFromMap and the lists do to the set of pages
they stand for: `FreeToMapOK` (with and without each of the two merges),
`TakeFromOK`, and counts of pairs for SaveFreeList. `ApartInv` keeps the ranges
of the free map, the tree and the pending lists apart; `RecordsInv` is what
makes Rollback right (what it puts back was in the file before the transaction,
and is in no list of an earlier one); `OpenInv` says that the state at the
beginning of the transaction, which PageSets remembers, can be computed from the
present one. From these every turn of a loop is a stuttering step of PageSets
and every handler is a step of it. The free list fits because Alloc, whatever it
takes, leaves at most as many ranges as were counted.

### Logger

What Recover computes is defined by a recursive function on the records.
`NatMin`, that a set of naturals has a least element, allows the inductions: a
least number of turns for which the claim fails cannot exist. `RecoveredAppend`
then says that one more record is one more turn of the loop. `LogInv` says that
every prefix of the log is accepted over any database that is not newer than the
log, and ignored over a newer one; so no crash, whatever it leaves of the pages,
makes Recover throw while the log is written or count past the txids handed out
(`Replayable`). `FirstInv`, before any crash and with contents that are not lost,
says that replaying leads through committed states only, from the database on
disk to the one in memory, and gets to the last synced commit within the synced
records. A crash leaves a prefix and, with sound pages, the database on disk, so
FirstCrashRecovers follows. After the second crash nothing
like it holds (finding 2), so the theorem about RecoveredStateFaithful is
`[](crashes <= 1 => RecoveredStateFaithful)`; the run has one crash.

### Locks

`IInv` says which threads hold which lock at each point of their program, that
a view shares `db_mmap_lock_` whenever it can have a pointer, and that mappings
are numbered in the order in which they are made. ClearPendingMmap has the lock
exclusively, so no view has a pointer into what it unmaps.

### WalMode

CopyNeeded may let the writer change any page that is younger than the last
checkpoint and older than every view, so a version that can be read is not kept
as it was; what is invariant is that it stays a tree whose pages are in use. A
root that was overwritten has got children the writer allocated: `WalKept` puts
pages of the writer in a version only if `relinked`, and it is exactly then that
a rollback would free them. The invariant is `~dangling => WalIInv`, for a
specification that goes on in any case. `WalVersionInv` needs nothing about
`persisted_txid_`: the pages are safe wherever the checkpoints fall.

### Node

`ChildrenInOrder` needs only the order of slots and children (`TypeInv`,
`ChildInv`). The other three depend on each other: that a record is intact
depends on no record having been stored over it, hence on the space counters,
and these on what Compactify does with the records. `DataInv` says that

* the records lie within the page, behind `data_offset`, and apart (`Placed`:
  `InPage`, `Apart`);
* the slots end before `data_offset` (`Roomy`);
* every slot leads to the units of its record or to the overflow page that has
  it; no overflow page belongs to two slots, and one that belongs to none is in
  `lost` (`Accounted`, `NotLost`);
* `space_used` is the sum of the sizes (`Exact`), in a leaf always, in a branch
  until an overflow record has been overwritten; until then nothing has aborted.

Where Compactify puts the records is a recursive function of the slots; lemmas by
induction on the number of records (`RangeInduction`, from the well-foundedness
of the naturals) say that the new places are apart and end where the sum of the
sizes says. Compactify runs to its end only if its assertion holds, and then this
is where `space_used` says. An operation then removes, inserts or replaces one
element of these sums.

### Bucket

With one level, `RootsOf` gives the roots a version's user root leads to, and
`WorkRoots` those of the writer: the root in `sub_bucket_map` if the bucket has
been opened, else the one in the tree. `IInv` says that

* `WorkInv`: the writer's roots lead to what it put, are pages of different
  trees, and are neither free nor pending;
* `VersionInv`: the committed version and that of each view are what they were,
  through pages that are older than the writer, not free, and pending for later
  transactions only;
* `HandleInv`: map and cache agree on objects, and what Commit has stored in the
  user bucket's tree is what the map says;
* `PagerInv`: the sets of pages are apart and lie below the page count.

`BTreeWrite` is treated once (`WriteFacts`): it writes one page, which is in no
version, and makes at most the old root pending. Put, Delete, SubBucket and
StoreNext differ in what becomes of `WorkRoots`. When all is stored, `WorkRoots`
and `RootsOf` are the same (`StoredRoots`), so the commit publishes what was
put. It is this lemma that fails with two levels, where storing a root moves a
page whose root is stored already (finding 4).

### What the proofs changed in the models

* Logger: two arms of the CASE in `Replay` overlapped, so what they said of a
  record could not be proved; they are alternatives in order now, as the `if`s of
  the code are.
* WalMode: ViewPagesNotFree was checked with one leaf only, where it holds
  without a condition. The attempt to find an inductive invariant showed that
  with two leaves it fails after a rollback that undoes too little; see section 2.
* Node and Bucket: the offsets Compactify computes, the sum of the records' sizes
  and the root at a path were folds; they are recursive functions now, of which
  the prover knows what a turn computes.

### Only model-checked

* Liveness (`EveryCallReturns`): fairness and ENABLED are outside this prover.
* BTree: its definitions are RECURSIVE operators, which disable the SMT backend,
  and what they compute is a matter of induction over trees of any depth.
* Bucket with deeper nesting: the properties do not hold there.

## 5. Findings

Each has a run that shows it.

1. `walmode_rollback`: after a checkpoint CopyNeeded returns false for pages of
   the committed version; the writer changes them in place and a rollback does
   not undo that: the trace ends with the rollback and a committed state that has
   the writes of the transaction that was rolled back. If the page was a root that
   got a new child, the rollback also frees the child while the committed tree
   still has it (`dangling` in WalMode).
2. `logger_second_crash`: `auto& raw_txid` is a reference; the recovered meta
   is not saved and the log is cut, so a second crash loses what was recovered.
3. `btree_split`: a branch split that has to retry gives the left half the wrong
   child; a subtree becomes unreachable.
4. `bucket_nested`: TxImpl::Commit stores the roots in the user bucket first. If
   a transaction changed only a bucket inside another, storing the inner root
   copies the outer bucket's page after the outer root has been stored: the
   change is lost, and the committed tree refers to a page that is pending.

Observations made while modelling, without a run of their own:

* Commit copies the meta struct before SaveFreeList sets `free_list_pgid` in the
  writer's copy, so the list is written and never linked, against the comment in
  LoadFreeList (pager.cpp:148-149): a restart loses all free and pending pages.
  That `free_list_pgid` stays invalid is part of the proved invariant.
* View waits for `db_mmap_lock_` with meta_lock held while ClearPendingMmap waits
  for views that need meta_lock to end. With a shared_mutex that prefers writers
  nobody goes on (`ViewBehindWriter` of Locks). A thread that holds a view and
  calls Update(), as tx_manager_test.cpp:78-94 does, waits for itself after a
  Remmap (`UpdateUnderView`). EveryCallReturns says that these are the only ways
  to wait for ever.
* Overwriting an overflow record: DeleteRecord leaves the slot as it is, so its
  pages are never freed, Compactify counts the record once more and its assertion
  (node.cpp:191) fails, and BranchNode::Update takes the key's size off a second
  time. BTree::Put makes the call (btree.cpp:494), and so does db_test.cpp:207-226.
  Node follows it: `lost` has the pages, `aborted` says that an assertion failed.
* StoreRecord checks the sizes of key and value after Insert has added the slot.
* DeleteSubBucket calls itself on `this` instead of the sub-bucket, deletes
  records in pages it has not copied, and leaves the map entry, whose freed root
  Commit stores again. SubBucket on a plain key throws after it has added an
  entry with id 0. SubViewBucket of a missing key calls Put in a view.
* AppendSubBucketLog is never called: a log with writes to sub-buckets cannot be
  replayed.
* The first commit of a new database in kUpdateInPlace mode writes txid 2 to the
  second meta page while the first has txid 2 from Meta::Init; Load prefers the
  first, so the commit is gone after a restart.
* BTree::Merge of branches can exceed the page: a node below 0.4, a sibling of
  0.5 and the parent's key. With the constants of `btree_split` and even keys
  large, `AssertionsHold` fails after seven operations.
* BTree::Put ignores that LeafNode::Update can return false: a larger value for
  an existing key in a full leaf is dropped without notice (`PutLeaf` models it).
* Meta::Init leaves txid 1 in memory and 2 on disk; the log of a new database
  starts at 1 and Recover takes it for an old one.
* A crash at the end of ~Logger leaves kWalTxId, kCommit without kBegin, which
  Recover refuses (phase "damaged" of Logger).
* In kWal mode Release is not bounded by `persisted_txid_`: pages of the version
  on disk are reused before the next checkpoint, and a replay then starts from a
  damaged tree (`pages` and `DisksAfterCrash` of Logger).
* When sync, Save or Alloc in SaveFreeList throws, the transaction has been
  published by Meta::Reset and is rolled back by its destructor.
* Remmap leaves `db_mmap_` empty until the file is mapped again, while readers
  may look up pages (`GetPtr` of Locks then yields None).
* Pager::Alloc throws only when page_count wraps in 32 bits (pager.cpp:85), while
  Pager::Reference asserts that page numbers are below kPageMaxCount, half of that
  (pager.cpp:214). PageMaxCount of the modules is the limit at which Alloc throws.
* pager_test.cpp:86-88 expects freed pages one transaction earlier than Release
  allows.
* BTreeIterator::Last descends to the left child of the last key, not to the tail
  child; backward scans miss keys in trees of more than one level.
* Pager::FreeToMap does not merge with the range before when there is a range
  after that is not adjacent, and decrements begin() when the range behind is the
  first of the map.
* When Meta::Save fails after Switch, cur_meta_index_ stays switched and the next
  commit overwrites the only valid meta page.

## 6. Not modelled, and the plan

| Part | Why / when |
|---|---|
| A commit that throws | the published version is rolled back and its pages are freed; an action that says so breaks SnapshotIsolation at once, so it is kept out of the proved Next |
| Pages and log in one module, in kWal mode | Logger has of the pages only whether they are in place, not which; after findings 1 and 2 and the reuse of pages on disk there is little more to hold |
| Creation of the file (Meta::Init) | crashes in it, and the txids it leaves |
| DeleteSubBucket, Update through an iterator | the code does not do what its loop is meant for (observations); there is nothing to state about it |
| Sub-buckets in the log | never logged |
| Prev, Last | see the observation on Last; forward iteration is in BTree |
| Several processes over shared memory | InitShmFile recreates it at every opening; the code has no protocol to model |
| wal, with tinyio | external; assumptions stated in Logger |
| mio | third party; TxManager and Locks model the mapping and the sync it gives |

Left to prove: BTree, with trees as functions on page ids instead of recursive
operators. AssertionsHold and PagesAccountedFor, which look at one path at a
time, would come first.
