------------------------ MODULE TxManagerRefinement ------------------------
(* TxManager implements KVStore: the abstract contents are what is read     *)
(* from the pages, through the meta page a crash would bring back for the   *)
(* store, through the update transaction's root for the write transaction,  *)
(* and through each view's root for its snapshot.  None of TxManager's      *)
(* auxiliary variables is used.                                             *)
EXTENDS TxManager

Phase == IF writer = "idle" THEN "none"
         ELSE IF writer = "open" THEN "active"
         ELSE "committing"

StoreContents == Contents(page, slots[cur_meta_index].meta.user_root)
WorkContents  == IF writer = "idle" THEN NoWork ELSE Contents(page, Root)
ViewContents  == [r \in OpenViews |-> Contents(page, views[r].user_root)]

KV == INSTANCE KVStore WITH
        Keys  <- Leaves,
        store <- StoreContents,
        phase <- Phase,
        work  <- WorkContents,
        snap  <- ViewContents

\* Every behaviour of the page level, with copying, in-place updates, page
\* reuse, the three steps of Commit, crashes and torn meta pages, is one of
\* the store its users are promised.
ImplementsKVStore == KV!Spec
=============================================================================
