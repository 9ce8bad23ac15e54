---------------------------- MODULE TxManagerInv ----------------------------
(* The inductive invariant of TxManager, in the parts its proof goes by.    *)
EXTENDS TxManager

CurSlot   == slots[cur_meta_index]
OtherSlot == slots[1 - cur_meta_index]

\* Types, and what never changes in this mode: the writer's meta struct is a
\* proper one while it is in use, no meta struct but the one a commit is about
\* to drop refers to a free list, and nothing sets persisted_txid_.
TypeInv ==
    /\ TypeOK
    /\ writer # "idle" => update_tx \in MetaStruct
    /\ persisted_txid = kTxInvalidId
    /\ meta.free_list_pgid = kPageInvalidId
    /\ \A i \in {0, 1} : slots[i].meta.free_list_pgid = kPageInvalidId
    /\ writer = "open" => update_tx.free_list_pgid = kPageInvalidId

\* The current meta page is valid and is the committed meta, the other one is
\* the version before it or torn.
SlotInv ==
    /\ CurSlot.crc = "good"
    /\ MetaLockFree => meta = CurSlot.meta
    /\ ~MetaLockFree => /\ meta.txid = CurSlot.meta.txid + 1
                        /\ meta.page_count >= CurSlot.meta.page_count
    /\ OtherSlot.crc = "good" => OtherSlot.meta.txid + 1 = CurSlot.meta.txid
    /\ acked <= CurSlot.meta.txid
    /\ \A r \in OpenViews : views[r].txid <= CurSlot.meta.txid

\* Where pages that are not in use can be: below the page count, in one place
\* only, and in no pending list of a transaction still to come.
PagerInv ==
    /\ \A p \in free_map : p < meta.page_count
    /\ \A t \in TxIds : \A p \in pending_map[t] :
          /\ p \notin free_map
          /\ t <= meta.txid => p < meta.page_count
          /\ t > meta.txid => /\ writer = "open"
                              /\ t = update_tx.txid
                              /\ p < update_tx.page_count
          /\ \A u \in TxIds : p \in pending_map[u] => u = t
    /\ writer = "open" =>
          \A p \in alloc_records :
              /\ p < meta.page_count
              /\ p \notin free_map
              /\ \A t \in TxIds : p \in pending_map[t] => t = update_tx.txid

\* A page that version v can rely on.
Kept(v, p) ==
    /\ p < CurSlot.meta.page_count
    /\ page[p].last_modified_txid <= v.txid
    /\ p \notin free_map
    /\ \A t \in TxIds : p \in pending_map[t] => t > v.txid
    /\ writer = "open" => p \notin alloc_records
    /\ disk[p] = page[p]

Injective(c) == \A k, l \in Leaves : c[k] = c[l] => k = l

Intact(v) ==
    /\ IsTree(page, v.user_root)
    /\ Injective(page[v.user_root].child)
    /\ Contents(page, v.user_root) = committed[v.txid]
    /\ Kept(v, v.user_root)
    /\ \A l \in Leaves : Kept(v, page[v.user_root].child[l])

VersionInv == \A v \in LiveVersions : Intact(v)

\* A page of the tree the writer is building or has just committed.
Owned(p) ==
    /\ p < update_tx.page_count
    /\ writer # "open" => p < meta.page_count
    /\ page[p].last_modified_txid <= update_tx.txid
    /\ p \notin free_map
    /\ \A t \in TxIds : p \notin pending_map[t]

WriterInv ==
    writer # "idle" =>
        /\ writer = "open" => /\ update_tx.txid = meta.txid + 1
                              /\ update_tx.page_count >= meta.page_count
                              /\ Contents(page, Root) = work
        /\ writer # "open" => /\ meta.txid = update_tx.txid
                              /\ meta.user_root = Root
                              /\ Contents(page, Root) = committed[meta.txid]
        /\ writer = "save" => disk = page
        /\ IsTree(page, Root)
        /\ Injective(page[Root].child)
        /\ Owned(Root)
        /\ \A l \in Leaves : Owned(page[Root].child[l])

\* The inductive invariant: TypeOK, SnapshotIsolation, crash atomicity and the
\* rest follow from it, and every handler preserves it.
IInv == TypeInv /\ SlotInv /\ PagerInv /\ VersionInv /\ WriterInv
=============================================================================
