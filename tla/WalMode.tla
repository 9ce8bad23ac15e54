------------------------------ MODULE WalMode ------------------------------
(***************************************************************************)
(* The pages in DbMode::kWal.  Transactions, path copying and the pager are*)
(* those of TxManager; commits write no page, and a checkpoint, when the   *)
(* log has grown to max_wal_size, writes them all and sets persisted_txid_.*)
(* What the log itself holds, and its replay, is the subject of Logger; so *)
(* there are no crashes here.                                              *)
(*                                                                         *)
(* CopyNeeded lets the writer overwrite pages of the committed version, and*)
(* no rollback brings them back.  When the writer has given a committed    *)
(* root a new child, a rollback returns the child's page to the pager and  *)
(* leaves the root pointing to it.  Two auxiliary variables record this;   *)
(* the program goes on, and so does the model, but nothing is promised     *)
(* about it then.                                                          *)
(***************************************************************************)
EXTENDS TxManager

VARIABLES
    relinked,    \* auxiliary: the writer has given a committed root a new child
    dangling     \* auxiliary: the committed root leads to a page given back

walVars == <<vars, relinked, dangling>>

\* TxManager::Commit when no checkpoint is due: only the log is written.
CommitToLog ==
    /\ writer = "open"
    /\ meta' = update_tx
    /\ update_tx' = NoUpdateTx
    /\ writer' = "idle"
    /\ committed' = [committed EXCEPT ![update_tx.txid] = work]
    /\ acked' = update_tx.txid
    /\ work' = NoWork
    /\ UNCHANGED <<slots, cur_meta_index, views, min_view_txid, persisted_txid,
                   pagerVars, page, disk, crashes>>

\* The end of a commit with a checkpoint: Meta::Switch, Meta::Save and
\* set_persisted_txid.  It follows TxManager's Commit and WriteAllDirtyPages.
CheckpointSave ==
    /\ writer = "save"
    /\ cur_meta_index' = 1 - cur_meta_index
    /\ slots' = [slots EXCEPT ![1 - cur_meta_index] = Slot(meta, "good")]
    /\ persisted_txid' = meta.txid
    /\ update_tx' = NoUpdateTx
    /\ writer' = "idle"
    /\ acked' = meta.txid
    /\ work' = NoWork
    /\ UNCHANGED <<meta, views, min_view_txid, pagerVars, page, disk, committed, crashes>>

\* TxManager::RollBack when a checkpoint is due: Checkpoint saves the free list
\* of the transaction that is about to be rolled back ...
CheckpointInRollBack ==
    /\ writer = "open"
    /\ SaveFreeList
    /\ writer' = "rollback"
    /\ UNCHANGED <<metaVars, views, min_view_txid, persisted_txid, disk, work,
                   committed, acked, crashes>>

\* ... and the pages and the committed meta, then Pager::Rollback runs.
RollBackAfterCheckpoint ==
    /\ writer = "rollback"
    /\ disk' = page
    /\ cur_meta_index' = 1 - cur_meta_index
    /\ slots' = [slots EXCEPT ![1 - cur_meta_index] = Slot(meta, "good")]
    /\ persisted_txid' = meta.txid
    /\ PagerRollback
    /\ update_tx' = NoUpdateTx
    /\ writer' = "idle"
    /\ work' = NoWork
    /\ UNCHANGED <<meta, views, min_view_txid, page, committed, acked, crashes>>

WalInit ==
    /\ Init
    /\ relinked = FALSE
    /\ dangling = FALSE

\* Does CopyNeeded let the writer change the page of an older transaction?
Overwrites(p) ==
    /\ ~CopyNeeded(page[p].last_modified_txid)
    /\ page[p].last_modified_txid < update_tx.txid

\* Put, with a record of a committed root that gets the copy of the leaf.  A
\* leaf overwritten in place has other contents, but the trees keep their pages.
WalPut(l, v) ==
    /\ Put(l, v)
    /\ relinked' = \/ relinked
                   \/ Overwrites(Root) /\ CopyNeeded(page[Leaf(l)].last_modified_txid)
    /\ UNCHANGED dangling

WalNext ==
    \/ Update /\ relinked' = FALSE /\ UNCHANGED dangling
    \/ \E l \in Leaves, v \in Values : WalPut(l, v)
    \/ /\ RollBack \/ RollBackAfterCheckpoint
       /\ dangling' = (dangling \/ relinked)
       /\ UNCHANGED relinked
    \/ /\ \/ \E r \in Readers : View(r) \/ RollBackView(r)
          \/ CommitToLog
          \/ Commit
          \/ WriteAllDirtyPages
          \/ CheckpointSave
          \/ CheckpointInRollBack
       /\ UNCHANGED <<relinked, dangling>>

\* The log reaches max_wal_size at any commit or rollback.
WalSpec == WalInit /\ [][WalNext]_walVars

-----------------------------------------------------------------------------
(* Properties.                                                              *)

\* Reclamation is safe for readers: with checkpoints at any moment, and with
\* the writer changing pages under a view, no page that an open view reaches is
\* free, or pending for a transaction the view saw (Pager::Release,
\* TxImpl::CopyNeeded), as long as no rollback has left a committed root with a
\* child it gave back.
ViewPagesNotFree ==
    ~dangling => \A v \in ViewVersions :
        /\ IsTree(page, v.user_root)
        /\ \A p \in TreePages(page, v.user_root) :
              /\ p \notin free_map
              /\ \A t \in TxIds : p \in pending_map[t] => t > v.txid

\* No page is freed twice in kWal mode either, also when a checkpoint saves the
\* free list of a transaction that is then rolled back (Pager::FreeToMap), and
\* when leaves were overwritten in place; the one thing that ends this is a
\* rollback that leaves a committed root with a child it gave back.
WalNoDoubleFree == ~dangling => NoDoubleFree

\* Atomicity of a rollback: between transactions the committed meta struct leads
\* to exactly what the last commit put (readme.md: transactions are atomic).
RollBackRestores ==
    writer = "idle" =>
        /\ IsTree(page, meta.user_root)
        /\ Contents(page, meta.user_root) = committed[meta.txid]
=============================================================================
