---------------------------- MODULE MCTxManager ----------------------------
(* TxManager and its refinement of KVStore, for TLC.                        *)
EXTENDS TxManagerRefinement, TLC

Symmetry == Permutations(Readers) \cup Permutations(Leaves)

-----------------------------------------------------------------------------
(* What of a state the rest of a behaviour depends on.  A page that is in   *)
(* no tree of the writer, of a view or of a meta page is written as a whole *)
(* before it is read again; what a version that nobody can reach contained  *)
(* is compared with nothing.                                                *)

Roots == ({meta.user_root, update_tx.user_root}
             \cup {views[r].user_root : r \in Readers}
             \cup {slots[i].meta.user_root : i \in {0, 1}}) \ {kPageInvalidId}

InTrees(pg) ==
    [p \in UNION {IF IsTree(pg, r) THEN TreePages(pg, r) ELSE {r} : r \in Roots} |-> pg[p]]

ReachableTxIds ==
    {meta.txid, acked} \cup {views[r].txid : r \in OpenViews}
        \cup {slots[i].meta.txid : i \in {0, 1}}

LiveState ==
    <<metaVars, update_tx, writer, views, min_view_txid, persisted_txid, pagerVars,
      InTrees(page), InTrees(disk), work, [t \in ReachableTxIds |-> committed[t]], acked, crashes>>
=============================================================================
