----------------------------- MODULE MCWalMode -----------------------------
(* WalMode for TLC.                                                         *)
EXTENDS WalMode, TLC

Symmetry == Permutations(Readers) \cup Permutations(Leaves)

\* The state without what no action here reads: the file, the auxiliary record
\* of contents, and the pages in no tree of the writer, of a view or of the
\* committed meta struct.  Once dangling, which is for ever, the properties
\* promise nothing and the states are not told apart.
Roots == ({Root, meta.user_root} \cup {v.user_root : v \in ViewVersions}) \ {kPageInvalidId}
InTrees == UNION {IF IsTree(page, r) THEN TreePages(page, r) ELSE {r} : r \in Roots}
LiveState ==
    IF dangling
    THEN <<dangling>>
    ELSE <<meta, update_tx, writer, views, min_view_txid, persisted_txid, pagerVars,
           [p \in InTrees |-> page[p]], relinked, dangling>>
=============================================================================
