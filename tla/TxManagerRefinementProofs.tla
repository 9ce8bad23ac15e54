--------------------- MODULE TxManagerRefinementProofs ---------------------
(***************************************************************************)
(* TxManager implements KVStore, for any tree, any readers and any bounds. *)
(* The inductive invariant ties the contents of the pages to the auxiliary *)
(* variables work and committed in every state, so each step of KVStore is *)
(* a matter of what the step does to those.                                *)
(***************************************************************************)
EXTENDS TxManagerProofs, TxManagerRefinement

\* The abstract state, by the auxiliary variables.
AbstractIs ==
    /\ StoreContents = committed[CurSlot.meta.txid]
    /\ writer = "open" => WorkContents = work
    /\ writer \in {"sync", "save"} => WorkContents = committed[meta.txid]
    /\ writer = "idle" => WorkContents = NoWork
    /\ ViewContents = [r \in OpenViews |-> committed[views[r].txid]]

LEMMA AbstractState == IInv => AbstractIs
  <1> SUFFICES ASSUME IInv PROVE AbstractIs
    OBVIOUS
  <1>1. StoreContents = committed[CurSlot.meta.txid]
    <2> DEFINE v == [txid |-> CurSlot.meta.txid, user_root |-> CurSlot.meta.user_root]
    <2>1. v \in LiveVersions
      BY CurVersion DEF IInv
    <2>2. Intact(v)
      BY <2>1 DEF IInv, VersionInv
    <2>3. QED
      BY <2>2 DEF Intact, StoreContents, CurSlot
  <1>2. ASSUME NEW r \in OpenViews
        PROVE  Contents(page, views[r].user_root) = committed[views[r].txid]
    <2>1. views[r] \in LiveVersions
      BY DEF LiveVersions, ViewVersions
    <2>2. QED
      BY <2>1 DEF IInv, VersionInv, Intact
  <1>3. ViewContents = [r \in OpenViews |-> committed[views[r].txid]]
    BY <1>2 DEF ViewContents
  <1>4. writer = "idle" => WorkContents = NoWork
    BY DEF WorkContents
  <1>5. writer # "idle" => WorkContents = Contents(page, Root)
    BY DEF WorkContents
  <1>6. /\ writer = "open" => WorkContents = work
        /\ writer \in {"sync", "save"} => WorkContents = committed[meta.txid]
    BY <1>5 DEF IInv, WriterInv
  <1>7. QED
    BY <1>1, <1>3, <1>4, <1>6 DEF AbstractIs

\* What the steps below need to know of the types.
LEMMA AbstractTypes ==
    ASSUME IInv
    PROVE  /\ committed \in [TxIds -> [Leaves -> Values]]
           /\ CurSlot.meta.txid \in TxIds /\ CurSlot.meta.txid \in Nat
           /\ \A r \in OpenViews : /\ views[r].txid \in TxIds /\ views[r].txid \in Nat
                                   /\ views[r].txid <= CurSlot.meta.txid
           /\ meta.txid \in TxIds /\ meta.user_root \in PageIds
           /\ MetaLockFree => meta = CurSlot.meta
           /\ writer = "open" => /\ update_tx.txid \in TxIds
                                 /\ update_tx.txid = CurSlot.meta.txid + 1
           /\ views \in [Readers -> [txid : TxIds, user_root : PageIds] \cup {NoView}]
           /\ work \in [Leaves -> Values]
           /\ writer \in {"idle", "open", "sync", "save"}
           /\ cur_meta_index \in {0, 1} /\ 1 - cur_meta_index \in {0, 1}
           /\ slots \in [{0, 1} -> [meta : MetaStruct, crc : {"good", "bad"}]]
  <1> USE SlotTypes, Consts
  <1>1. TypeInv /\ SlotInv /\ WriterInv
    BY DEF IInv
  <1>2. /\ CurSlot.meta.txid \in TxIds /\ meta.txid \in TxIds /\ meta.user_root \in PageIds
        /\ MetaLockFree => meta = CurSlot.meta
    BY <1>1 DEF MetaStruct, SlotInv
  <1>3. \A r \in OpenViews : /\ views[r].txid \in TxIds /\ views[r].txid \in Nat
                             /\ views[r].txid <= CurSlot.meta.txid
    BY <1>1 DEF TypeInv, TypeOK, SlotInv, OpenViews
  <1>4. writer = "open" => /\ update_tx.txid \in TxIds
                           /\ update_tx.txid = CurSlot.meta.txid + 1
    BY <1>1, <1>2 DEF WriterInv, TypeInv, MetaStruct, MetaLockFree
  <1>5. QED
    BY <1>1, <1>2, <1>3, <1>4 DEF TypeInv, TypeOK

\* The database that is opened holds the initial value everywhere.
LEMMA InitRefines == Init => KV!Init
  <1> SUFFICES ASSUME Init PROVE KV!Init
    OBVIOUS
  <1>1. AbstractIs
    BY InitIInv, AbstractState
  <1>2. CurSlot.meta.txid \in TxIds
    BY InitIInv, AbstractTypes
  <1>3. OpenViews = {} /\ writer = "idle" /\ committed = [t \in TxIds |-> NoWork]
    BY DEF Init, OpenViews
  <1>4. QED
    BY <1>1, <1>2, <1>3 DEF AbstractIs, Phase, KV!Init, KV!NoWork, NoWork, KV!NoSnap

\* Update() starts from the committed contents.
LEMMA UpdateRefines ==
    ASSUME IInv, AbstractIs, AbstractIs', Update
    PROVE  KV!Update
  <1> USE AbstractTypes DEF AbstractIs
  <1>1. /\ writer = "idle" /\ writer' = "open" /\ work' = committed[meta.txid]
        /\ UNCHANGED <<slots, cur_meta_index, committed, views>>
    BY DEF Update, metaVars
  <1>2. CurSlot' = CurSlot /\ OpenViews' = OpenViews /\ meta = CurSlot.meta
    BY <1>1 DEF CurSlot, OpenViews, MetaLockFree
  <1>3. QED
    BY <1>1, <1>2 DEF KV!Update, Phase

\* View() takes a snapshot of the committed contents.
LEMMA ViewRefines ==
    ASSUME IInv, AbstractIs, AbstractIs', NEW r \in Readers, View(r)
    PROVE  KV!View(r)
  <1> USE AbstractTypes DEF AbstractIs
  <1>1. /\ views[r] = NoView /\ MetaLockFree
        /\ views' = [views EXCEPT ![r] = [txid |-> meta.txid, user_root |-> meta.user_root]]
        /\ UNCHANGED <<slots, cur_meta_index, meta, writer, work, committed>>
    BY DEF View, metaVars
  <1>2. CurSlot' = CurSlot /\ meta = CurSlot.meta
    BY <1>1 DEF CurSlot
  <1>3. [txid |-> meta.txid, user_root |-> meta.user_root] # NoView
    BY Consts DEF NoView
  <1>4. OpenViews' = OpenViews \cup {r} /\ r \notin OpenViews
    BY <1>1, <1>3 DEF OpenViews
  <1>5. /\ views'[r].txid = CurSlot.meta.txid
        /\ \A x \in OpenViews : views'[x] = views[x]
    BY <1>1, <1>2, <1>4
  <1>6. WorkContents' = WorkContents /\ Phase' = Phase /\ StoreContents' = StoreContents
    BY <1>1, <1>2 DEF Phase
  <1>7. ViewContents' = [x \in DOMAIN ViewContents \cup {r} |->
                            IF x = r THEN StoreContents ELSE ViewContents[x]]
    BY <1>1, <1>4, <1>5
  <1>8. QED
    BY <1>4, <1>6, <1>7 DEF KV!View

\* Ending a view forgets its snapshot and nothing else.
LEMMA RollBackViewRefines ==
    ASSUME IInv, AbstractIs, AbstractIs', NEW r \in Readers, RollBackView(r)
    PROVE  KV!RollBackView(r)
  <1> USE AbstractTypes DEF AbstractIs
  <1>1. /\ views[r] # NoView
        /\ views' = [views EXCEPT ![r] = NoView]
        /\ UNCHANGED <<slots, cur_meta_index, meta, writer, work, committed>>
    BY DEF RollBackView, metaVars
  <1>2. CurSlot' = CurSlot
    BY <1>1 DEF CurSlot
  <1>3. /\ OpenViews' = OpenViews \ {r} /\ r \in OpenViews
        /\ \A x \in OpenViews' : views'[x] = views[x]
    BY <1>1 DEF OpenViews
  <1>4. WorkContents' = WorkContents /\ Phase' = Phase /\ StoreContents' = StoreContents
    BY <1>1, <1>2 DEF Phase
  <1>5. QED
    BY <1>1, <1>3, <1>4 DEF KV!RollBackView

\* A rollback leaves the store as it was.
LEMMA RollBackRefines ==
    ASSUME IInv, AbstractIs, AbstractIs', RollBack
    PROVE  KV!RollBack
  <1> USE AbstractTypes DEF AbstractIs
  <1>1. /\ writer = "open" /\ writer' = "idle"
        /\ UNCHANGED <<slots, cur_meta_index, committed, views>>
    BY DEF RollBack, metaVars
  <1>2. CurSlot' = CurSlot /\ OpenViews' = OpenViews
    BY <1>1 DEF CurSlot, OpenViews
  <1>3. QED
    BY <1>1, <1>2 DEF KV!RollBack, Phase, KV!NoWork, NoWork

\* A Put, whatever pages it copies, changes one value of the write transaction.
LEMMA PutRefines ==
    ASSUME IInv, AbstractIs, AbstractIs', NEW l \in Leaves, NEW v \in Values, Put(l, v)
    PROVE  KV!Put(l, v)
  <1> USE AbstractTypes DEF AbstractIs
  <1>1. /\ writer = "open" /\ writer' = "open" /\ work' = [work EXCEPT ![l] = v]
        /\ UNCHANGED <<slots, cur_meta_index, committed, views>>
    BY DEF Put, metaVars
  <1>2. CurSlot' = CurSlot /\ OpenViews' = OpenViews
    BY <1>1 DEF CurSlot, OpenViews
  <1>3. QED
    BY <1>1, <1>2 DEF KV!Put, Phase

\* Until the meta page is written a commit changes nothing for anybody.
LEMMA CommitRefines ==
    ASSUME IInv, AbstractIs, AbstractIs', Commit
    PROVE  KV!BeginCommit
  <1> USE AbstractTypes DEF AbstractIs
  <1>1. /\ writer = "open" /\ writer' = "sync" /\ meta' = update_tx
        /\ committed' = [committed EXCEPT ![update_tx.txid] = work]
        /\ UNCHANGED <<slots, cur_meta_index, views>>
    BY DEF Commit
  <1>2. CurSlot' = CurSlot /\ OpenViews' = OpenViews
    BY <1>1 DEF CurSlot, OpenViews
  <1>3. /\ committed'[meta'.txid] = work
        /\ committed'[CurSlot.meta.txid] = committed[CurSlot.meta.txid]
        /\ \A r \in OpenViews : committed'[views[r].txid] = committed[views[r].txid]
    BY <1>1
  <1>4. ViewContents' = ViewContents
    BY <1>1, <1>2, <1>3
  <1>5. QED
    BY <1>1, <1>2, <1>3, <1>4 DEF KV!BeginCommit, Phase

\* Syncing the pages changes nothing that is read.
LEMMA WriteAllDirtyPagesRefines ==
    ASSUME IInv, AbstractIs, AbstractIs', WriteAllDirtyPages
    PROVE  UNCHANGED KV!vars
  <1> USE AbstractTypes DEF AbstractIs
  <1>1. /\ writer = "sync" /\ writer' = "save"
        /\ UNCHANGED <<slots, cur_meta_index, meta, committed, views>>
    BY DEF WriteAllDirtyPages, metaVars
  <1>2. CurSlot' = CurSlot /\ OpenViews' = OpenViews
    BY <1>1 DEF CurSlot, OpenViews
  <1>3. QED
    BY <1>1, <1>2 DEF KV!vars, Phase

\* The commit takes effect as a whole when the meta page is switched.
LEMMA SwitchAndSaveRefines ==
    ASSUME IInv, AbstractIs, AbstractIs', SwitchAndSave
    PROVE  KV!EndCommit
  <1> USE AbstractTypes DEF AbstractIs
  <1>1. /\ writer = "save" /\ writer' = "idle" /\ cur_meta_index' = 1 - cur_meta_index
        /\ slots' = [slots EXCEPT ![1 - cur_meta_index] = Slot(meta, "good")]
        /\ UNCHANGED <<committed, views>>
    BY DEF SwitchAndSave
  <1>2. CurSlot' = Slot(meta, "good") /\ OpenViews' = OpenViews
    BY <1>1 DEF CurSlot, OpenViews
  <1>3. CurSlot'.meta.txid = meta.txid
    BY <1>2 DEF Slot
  <1>4. QED
    BY <1>1, <1>2, <1>3 DEF KV!EndCommit, Phase, KV!NoWork, NoWork

\* Opening the file after s is left of the meta pages: the contents are the
\* committed ones, or those of the commit under way.
LEMMA OpenRefines ==
    ASSUME IInv, AbstractIs, AbstractIs', NEW s \in SlotsAfterCrash, NEW pg, Open(s, pg), committed' = committed
    PROVE  KV!Crash
  <1> USE AbstractTypes DEF AbstractIs
  <1>1. /\ writer' = "idle" /\ OpenViews' = {}
        /\ CurSlot' = s[LoadIndex(s)]
    BY DEF Open, OpenViews, CurSlot
  <1>2. \/ CurSlot' = CurSlot
        \/ writer = "save" /\ CurSlot' = Slot(meta, "good")
    BY <1>1, CrashSlots DEF IInv, CurSlot
  <1>3. \/ StoreContents' = StoreContents
        \/ writer = "save" /\ StoreContents' = WorkContents
    BY <1>2 DEF Slot
  <1>4. QED
    BY <1>1, <1>3 DEF KV!Crash, Phase, KV!NoWork, NoWork, KV!NoSnap

\* Every step of TxManager is a step of KVStore or changes nothing of it.
LEMMA NextRefines == IInv /\ IInv' /\ [Next]_vars => [KV!Next]_(KV!vars)
  <1> SUFFICES ASSUME IInv, IInv', [Next]_vars PROVE [KV!Next]_(KV!vars)
    OBVIOUS
  <1>0. AbstractIs /\ AbstractIs'
    <2>1. AbstractIs
      BY AbstractState
    <2>2. IInv' => AbstractIs'
      BY AbstractState, PTL
    <2>3. QED
      BY <2>1, <2>2
  <1> USE <1>0
  <1>1. CASE Update
    BY <1>1, UpdateRefines DEF KV!Next
  <1>2. ASSUME NEW r \in Readers, View(r) \/ RollBackView(r) PROVE KV!Next
    BY <1>2, ViewRefines, RollBackViewRefines DEF KV!Next
  <1>3. CASE RollBack
    BY <1>3, RollBackRefines DEF KV!Next
  <1>4. ASSUME NEW l \in Leaves, NEW v \in Values, Put(l, v) PROVE KV!Next
    BY <1>4, PutRefines DEF KV!Next
  <1>5. CASE Commit
    BY <1>5, CommitRefines DEF KV!Next
  <1>6. CASE WriteAllDirtyPages
    BY <1>6, WriteAllDirtyPagesRefines
  <1>7. CASE SwitchAndSave
    BY <1>7, SwitchAndSaveRefines DEF KV!Next
  <1>8. CASE CloseAndOpen
    <2>1. slots \in SlotsAfterCrash
      BY <1>8 DEF CloseAndOpen, SlotsAfterCrash
    <2>2. committed' = committed /\ \E pg : Open(slots, pg)
      BY <1>8 DEF CloseAndOpen
    <2>3. QED
      BY <2>1, <2>2, OpenRefines DEF KV!Next
  <1>9. CASE Crash
    <2>1. committed' = committed /\ \E s \in SlotsAfterCrash : \E pg : Open(s, pg)
      BY <1>9 DEF Crash
    <2>2. QED
      BY <2>1, OpenRefines DEF KV!Next
  <1>10. CASE UNCHANGED vars
    BY <1>10 DEF vars, KV!vars, StoreContents, WorkContents, ViewContents, Phase, Contents,
                 OpenViews, Root
  <1>11. QED
    BY <1>1, <1>2, <1>3, <1>4, <1>5, <1>6, <1>7, <1>8, <1>9, <1>10 DEF Next

\* The page level keeps what readme.md promises of transactions: whatever pages
\* TxImpl::CopyNeeded copies or not, Pager reuses, and Meta::Save tears in a
\* crash, its behaviours are those of a store with one writer, readers that each
\* see one committed state, and commits that happen as a whole or not at all.
THEOREM ImplementsKVStoreHolds == Spec => ImplementsKVStore
  <1>1. Init => KV!Init
    BY InitRefines
  <1>2. IInv /\ IInv' /\ [Next]_vars => [KV!Next]_(KV!vars)
    BY NextRefines
  <1>3. QED
    BY <1>1, <1>2, Invariance, PTL DEF Spec, ImplementsKVStore, KV!Spec
=============================================================================
