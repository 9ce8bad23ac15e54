--------------------------- MODULE WalModeProofs ---------------------------
(* Proofs about WalMode: reclamation is safe for the views with checkpoints *)
(* at any moment, although the writer overwrites pages they read.           *)
EXTENDS WalMode, TxManagerProofs

InTx == writer \in {"open", "rollback"}

\* The meta struct that counts all pages in use.
Top == IF InTx THEN update_tx ELSE meta

WalTypeInv ==
    /\ meta \in MetaStruct
    /\ meta.free_list_pgid = kPageInvalidId
    /\ writer \in {"idle", "open", "sync", "save", "rollback"}
    /\ writer # "idle" => update_tx \in MetaStruct
    /\ writer = "open" => update_tx.free_list_pgid = kPageInvalidId
    /\ views \in [Readers -> [txid : TxIds, user_root : PageIds] \cup {NoView}]
    /\ free_map \subseteq PageIds
    /\ pending_map \in [TxIds -> SUBSET PageIds]
    /\ alloc_records \subseteq PageIds
    /\ page \in [PageIds -> PageType]
    /\ relinked \in BOOLEAN
    /\ dangling \in BOOLEAN

\* The writer is one transaction ahead until it publishes its meta struct.
TxInv ==
    /\ InTx => /\ update_tx.txid = meta.txid + 1
               /\ update_tx.page_count >= meta.page_count
    /\ writer \in {"sync", "save"} => meta.txid = update_tx.txid /\ meta.user_root = Root
    /\ \A r \in OpenViews : views[r].txid <= meta.txid

\* An unused page is in one place, and the pages of a rolled back transaction
\* can go back to where they came from.
WalPagerInv ==
    /\ \A p \in free_map : p < meta.page_count
    /\ \A t \in TxIds : \A p \in pending_map[t] :
          /\ p \notin free_map
          /\ t <= Top.txid
          /\ p < Top.page_count
          /\ t <= meta.txid => p < meta.page_count
          /\ \A u \in TxIds : p \in pending_map[u] => u = t
    /\ InTx => \A p \in alloc_records :
          /\ p < meta.page_count
          /\ p \notin free_map
          /\ \A t \in TxIds : p \in pending_map[t] => t = update_tx.txid

Shaped(root) == IsTree(page, root) /\ Injective(page[root].child)

\* A page version v can rely on.  As long as the writer has given no committed
\* root a new child, it is none of the pages the writer has allocated.
WalKept(v, p) ==
    /\ p < Top.page_count
    /\ page[p].last_modified_txid <= Top.txid
    /\ p \notin free_map
    /\ \A t \in TxIds : p \in pending_map[t] => t > v.txid
    /\ InTx /\ ~relinked => /\ p < meta.page_count
                            /\ p \notin alloc_records
                            /\ page[p].last_modified_txid <= meta.txid

Sound(v) ==
    /\ Shaped(v.user_root)
    /\ \A p \in TreePages(page, v.user_root) : WalKept(v, p)

\* The versions of the views and, but for the end of a commit, the one a view
\* would begin with.
CommittedVersion == [txid |-> meta.txid, user_root |-> meta.user_root]
WalVersions == ViewVersions \cup IF writer \in {"sync", "save"} THEN {} ELSE {CommittedVersion}

WalVersionInv == \A v \in WalVersions : Sound(v)

\* A page of the tree the writer builds or has just committed.
WalOwned(p) ==
    /\ p < Top.page_count
    /\ page[p].last_modified_txid <= Top.txid
    /\ p \notin free_map
    /\ \A t \in TxIds : p \notin pending_map[t]

WalWriterInv ==
    writer \in {"open", "sync", "save"} =>
        Shaped(Root) /\ \A p \in TreePages(page, Root) : WalOwned(p)

WalIInv == WalTypeInv /\ TxInv /\ WalPagerInv /\ WalVersionInv /\ WalWriterInv

\* All this, until a rollback leaves a committed root with a child it gave back.
WalInv == ~dangling => WalIInv

-----------------------------------------------------------------------------
(* What the parts of the invariant say.                                     *)

LEMMA TopTypes ==
    ASSUME WalTypeInv, TxInv
    PROVE  /\ meta.txid \in TxIds /\ meta.txid \in Nat /\ meta.page_count \in 0 .. PageMaxCount
           /\ meta.page_count \in Nat /\ meta.user_root \in PageIds
           /\ Top.txid \in TxIds /\ Top.txid \in Nat /\ Top.page_count \in Nat
           /\ Top.txid >= meta.txid /\ Top.page_count >= meta.page_count
           /\ writer # "idle" => /\ update_tx.txid \in TxIds /\ update_tx.txid \in Nat
                                 /\ update_tx.page_count \in 0 .. PageMaxCount
                                 /\ update_tx.page_count \in Nat /\ Root \in PageIds
<1> USE Consts
<1>1. /\ meta.txid \in TxIds /\ meta.page_count \in 0 .. PageMaxCount /\ meta.user_root \in PageIds
      /\ writer # "idle" => /\ update_tx.txid \in TxIds /\ update_tx.page_count \in 0 .. PageMaxCount
                            /\ Root \in PageIds
  BY DEF WalTypeInv, MetaStruct, Root
<1>2. \A n \in 0 .. PageMaxCount : n \in Nat
  BY ConstantsAssumption
<1>3. InTx => writer # "idle"
  BY DEF InTx
<1>4. QED
  BY <1>1, <1>2, <1>3 DEF Top, TxInv

LEMMA ShapedPages ==
    ASSUME WalTypeInv, NEW root, Shaped(root)
    PROVE  /\ root \in PageIds /\ page[root] \in BranchPages
           /\ page[root].child \in [Leaves -> PageIds]
           /\ \A l \in Leaves : /\ page[root].child[l] \in PageIds
                                /\ page[root].child[l] # root
                                /\ page[page[root].child[l]] \in LeafPages
           /\ TreePages(page, root) \subseteq PageIds
           /\ \A p \in TreePages(page, root) : page[p].last_modified_txid \in TxIds
<1>1. /\ root \in PageIds /\ page[root] \in BranchPages
      /\ page[root].child \in [Leaves -> PageIds]
      /\ \A l \in Leaves : /\ page[root].child[l] \in PageIds
                           /\ page[root].child[l] # root
                           /\ page[page[root].child[l]] \in LeafPages
  BY TreeTypes DEF Shaped, WalTypeInv
<1>2. \A p \in TreePages(page, root) : p = root \/ \E l \in Leaves : p = page[root].child[l]
  BY DEF TreePages
<1>3. QED
  BY <1>1, <1>2 DEF BranchPages, LeafPages

\* A tree whose pages are left alone stays what it is.
LEMMA SameShape ==
    ASSUME NEW root, Shaped(root), \A p \in TreePages(page, root) : page'[p] = page[p]
    PROVE  Shaped(root)' /\ TreePages(page', root) = TreePages(page, root)
<1>1. /\ page'[root] = page[root]
      /\ \A l \in Leaves : page'[page[root].child[l]] = page[page[root].child[l]]
  BY DEF TreePages
<1>2. IsTree(page, root)' /\ Injective(page[root].child)'
  BY <1>1 DEF Shaped, IsTree, Injective
<1>3. TreePages(page', root) = TreePages(page, root)
  BY <1>1 DEF TreePages
<1>4. QED
  BY <1>2, <1>3 DEF Shaped

LEMMA VersionTypes ==
    ASSUME WalTypeInv, TxInv, NEW v \in WalVersions
    PROVE  v.txid \in TxIds /\ v.txid \in Nat /\ v.txid <= meta.txid /\ v.user_root \in PageIds
<1> USE TopTypes, Consts
<1>1. CASE v = CommittedVersion
  BY <1>1 DEF CommittedVersion
<1>2. CASE v \in ViewVersions
  <2>1. PICK r \in OpenViews : v = views[r]
    BY <1>2 DEF ViewVersions
  <2>2. v \in [txid : TxIds, user_root : PageIds] /\ v.txid <= meta.txid
    BY <2>1 DEF OpenViews, WalTypeInv, TxInv
  <2>3. QED
    BY <2>2
<1>3. QED
  BY <1>1, <1>2 DEF WalVersions

\* A page of a version that is sound.
LEMMA VersionPage ==
    ASSUME WalTypeInv, TxInv, NEW v \in WalVersions, Sound(v),
           NEW p \in TreePages(page, v.user_root)
    PROVE  p \in PageIds /\ p \in Nat /\ page[p].last_modified_txid \in TxIds
           /\ page[p].last_modified_txid \in Nat /\ WalKept(v, p)
  BY ShapedPages, Consts DEF Sound

-----------------------------------------------------------------------------
(* Initial states.                                                          *)

LEMMA WalInitInv == WalInit => WalIInv
<1> SUFFICES ASSUME WalInit PROVE WalIInv
  OBVIOUS
<1> USE Consts
<1>0. Init /\ relinked = FALSE /\ dangling = FALSE
  BY DEF WalInit
<1>1. TypeInv
  BY <1>0, InitTypeInv
<1>2. WalTypeInv
  BY <1>0, <1>1 DEF TypeInv, TypeOK, WalTypeInv, Init
<1>3. ~InTx /\ Top = meta /\ OpenViews = {} /\ writer = "idle"
  BY <1>0 DEF Init, InTx, Top, OpenViews
<1>4. TxInv
  BY <1>0, <1>3 DEF TxInv
<1>5. /\ free_map = {} /\ \A t \in TxIds : pending_map[t] = {}
  BY <1>0 DEF Init
<1>6. WalPagerInv
  BY <1>3, <1>5 DEF WalPagerInv
<1>7. IInv /\ CurSlot.meta = meta
  BY <1>0, InitIInv DEF Init, CurSlot, Slot
<1>8. CommittedVersion \in LiveVersions /\ Intact(CommittedVersion)
  BY <1>7, CurVersion DEF IInv, CommittedVersion, VersionInv
<1>9. /\ Shaped(meta.user_root)
      /\ \A p \in TreePages(page, meta.user_root) : Kept(CommittedVersion, p)
  BY <1>8 DEF Intact, CommittedVersion, Shaped, TreePages
<1>10. \A p \in TreePages(page, meta.user_root) : WalKept(CommittedVersion, p)
  BY <1>3, <1>5, <1>7, <1>9 DEF Kept, WalKept, CommittedVersion
<1>11. WalVersionInv
  BY <1>3, <1>9, <1>10
  DEF WalVersionInv, WalVersions, ViewVersions, Sound, CommittedVersion
<1>12. WalWriterInv
  BY <1>3 DEF WalWriterInv
<1>13. QED
  BY <1>2, <1>4, <1>6, <1>11, <1>12 DEF WalIInv

-----------------------------------------------------------------------------
(* Steps that change no page and nothing in the pager.                      *)

\* A version stays sound when nothing but the meta structs change, and the
\* pages in use stay counted.
LEMMA StillSound ==
    ASSUME NEW v, Sound(v), UNCHANGED <<pagerVars, page, relinked>>,
           Top' = Top, InTx' => InTx /\ meta' = meta
    PROVE  Sound(v)'
<1>1. /\ free_map' = free_map /\ pending_map' = pending_map /\ alloc_records' = alloc_records
      /\ page' = page /\ relinked' = relinked
  BY DEF pagerVars
<1>2. Shaped(v.user_root)' /\ TreePages(page', v.user_root) = TreePages(page, v.user_root)
  BY <1>1 DEF Sound, Shaped
<1>3. \A p : WalKept(v, p) => WalKept(v, p)'
  BY <1>1 DEF WalKept
<1>4. QED
  BY <1>2, <1>3 DEF Sound

LEMMA ViewKeeps ==
    ASSUME WalIInv, UNCHANGED <<relinked, dangling>>, NEW r \in Readers,
           View(r) \/ RollBackView(r)
    PROVE  WalIInv'
<1> USE TopTypes, Consts
<1>0. WalTypeInv /\ TxInv /\ WalPagerInv /\ WalVersionInv /\ WalWriterInv
  BY DEF WalIInv
<1>1. /\ writer \in {"idle", "open"} /\ writer' = writer /\ meta' = meta /\ update_tx' = update_tx
      /\ UNCHANGED <<pagerVars, page, relinked>> /\ dangling' = dangling
      /\ \/ views' = [views EXCEPT ![r] = CommittedVersion]
         \/ views' = [views EXCEPT ![r] = NoView]
  BY DEF View, RollBackView, metaVars, MetaLockFree, CommittedVersion
<1>2. /\ free_map' = free_map /\ pending_map' = pending_map /\ alloc_records' = alloc_records
      /\ page' = page /\ relinked' = relinked
  BY <1>1 DEF pagerVars
<1>3. InTx' = InTx /\ Top' = Top /\ Root' = Root
  BY <1>1 DEF InTx, Top, Root
<1>4. CommittedVersion \in [txid : TxIds, user_root : PageIds] /\ CommittedVersion.txid = meta.txid
  BY <1>0 DEF CommittedVersion
<1>5. views' \in [Readers -> [txid : TxIds, user_root : PageIds] \cup {NoView}]
  BY <1>0, <1>1, <1>4 DEF WalTypeInv
<1>6. WalTypeInv'
  BY <1>0, <1>1, <1>2, <1>5 DEF WalTypeInv
<1>7. \A s \in Readers : views'[s] = views[s] \/ views'[s] = CommittedVersion \/ views'[s] = NoView
  BY <1>0, <1>1 DEF WalTypeInv
<1>8. TxInv'
  <2>1. \A s \in OpenViews' : views'[s].txid <= meta'.txid
    BY <1>0, <1>1, <1>4, <1>7 DEF OpenViews, TxInv
  <2>2. QED
    BY <1>0, <1>1, <1>3, <2>1 DEF TxInv
<1>9. WalPagerInv'
  BY <1>0, <1>1, <1>2, <1>3 DEF WalPagerInv
<1>10. WalVersions' \subseteq WalVersions
  BY <1>1, <1>7 DEF WalVersions, ViewVersions, OpenViews, CommittedVersion
<1>11. \A v : Sound(v) => Sound(v)'
  BY <1>1, <1>3, StillSound
<1>12. WalVersionInv'
  BY <1>0, <1>1, <1>10, <1>11 DEF WalVersionInv
<1>13. WalWriterInv'
  BY <1>0, <1>1, <1>2, <1>3 DEF WalWriterInv, WalOwned, Shaped
<1>14. QED
  BY <1>6, <1>8, <1>9, <1>12, <1>13 DEF WalIInv

\* What the writer built becomes a version that can be read.
LEMMA OwnedIsSound ==
    ASSUME WalTypeInv, Shaped(Root), \A p \in TreePages(page, Root) : WalOwned(p),
           UNCHANGED <<pagerVars, page>>, Top'.txid = Top.txid,
           Top'.page_count = Top.page_count, ~InTx', meta'.user_root = Root
    PROVE  Sound(CommittedVersion)'
<1>1. /\ free_map' = free_map /\ pending_map' = pending_map /\ page' = page
  BY DEF pagerVars
<1>2. CommittedVersion'.user_root = Root
  BY DEF CommittedVersion
<1>3. Shaped(CommittedVersion.user_root)'
      /\ TreePages(page', CommittedVersion'.user_root) = TreePages(page, Root)
  BY <1>1, <1>2 DEF Shaped
<1>4. \A p : WalOwned(p) => WalKept(CommittedVersion, p)'
  BY <1>1 DEF WalOwned, WalKept
<1>5. QED
  BY <1>3, <1>4 DEF Sound

LEMMA WriteAllKeeps ==
    ASSUME WalIInv, UNCHANGED <<relinked, dangling>>, WriteAllDirtyPages
    PROVE  WalIInv'
<1>0. WalTypeInv /\ TxInv /\ WalPagerInv /\ WalVersionInv /\ WalWriterInv
  BY DEF WalIInv
<1>1. /\ writer = "sync" /\ writer' = "save" /\ meta' = meta /\ update_tx' = update_tx
      /\ UNCHANGED <<pagerVars, page, relinked>> /\ dangling' = dangling /\ views' = views
  BY DEF WriteAllDirtyPages, metaVars
<1>2. /\ free_map' = free_map /\ pending_map' = pending_map /\ alloc_records' = alloc_records
      /\ page' = page /\ relinked' = relinked
  BY <1>1 DEF pagerVars
<1>3. ~InTx /\ ~InTx' /\ Top' = Top /\ Root' = Root /\ OpenViews' = OpenViews
  BY <1>1 DEF InTx, Top, Root, OpenViews
<1>4. WalTypeInv'
  BY <1>0, <1>1, <1>2 DEF WalTypeInv
<1>5. TxInv'
  BY <1>0, <1>1, <1>3 DEF TxInv
<1>6. WalPagerInv'
  BY <1>0, <1>1, <1>2, <1>3 DEF WalPagerInv
<1>7. WalVersions' = WalVersions
  BY <1>1, <1>3 DEF WalVersions, ViewVersions
<1>8. \A v : Sound(v) => Sound(v)'
  BY <1>1, <1>3, StillSound
<1>9. WalVersionInv'
  BY <1>0, <1>1, <1>7, <1>8 DEF WalVersionInv
<1>10. WalWriterInv'
  BY <1>0, <1>1, <1>2, <1>3 DEF WalWriterInv, WalOwned, Shaped
<1>11. QED
  BY <1>4, <1>5, <1>6, <1>9, <1>10 DEF WalIInv

LEMMA CommitToLogKeeps ==
    ASSUME WalIInv, UNCHANGED <<relinked, dangling>>, CommitToLog
    PROVE  WalIInv'
<1> USE TopTypes, Consts
<1>0. WalTypeInv /\ TxInv /\ WalPagerInv /\ WalVersionInv /\ WalWriterInv
  BY DEF WalIInv
<1>1. /\ writer = "open" /\ writer' = "idle" /\ meta' = update_tx
      /\ UNCHANGED <<pagerVars, page, relinked>> /\ dangling' = dangling /\ views' = views
  BY DEF CommitToLog
<1>2. /\ free_map' = free_map /\ pending_map' = pending_map /\ alloc_records' = alloc_records
      /\ page' = page /\ relinked' = relinked
  BY <1>1 DEF pagerVars
<1>3. InTx /\ ~InTx' /\ Top' = Top /\ Top = update_tx /\ OpenViews' = OpenViews
  BY <1>1 DEF InTx, Top, OpenViews
<1>4. WalTypeInv'
  BY <1>0, <1>1, <1>2 DEF WalTypeInv
<1>5. TxInv'
  <2>1. \A r \in OpenViews : views[r].txid \in TxIds /\ views[r].txid <= meta.txid
    BY <1>0 DEF TxInv, OpenViews, WalTypeInv
  <2>2. meta.txid <= meta'.txid
    BY <1>0, <1>1, <1>3 DEF TxInv
  <2>3. \A r \in OpenViews' : views'[r].txid <= meta'.txid
    BY <1>0, <1>1, <1>3, <2>1, <2>2
  <2>4. QED
    BY <1>0, <1>1, <1>3, <2>3 DEF TxInv
<1>6. WalPagerInv'
  <2>1. \A p \in free_map' : p < meta'.page_count
    <3>1. \A p \in free_map : p \in Nat /\ p < meta.page_count
      BY <1>0 DEF WalPagerInv, WalTypeInv
    <3>2. meta.page_count <= meta'.page_count
      BY <1>0, <1>1, <1>3 DEF TxInv
    <3>3. QED
      BY <1>0, <1>1, <1>2, <3>1, <3>2
  <2>2. QED
    BY <1>0, <1>1, <1>2, <1>3, <2>1 DEF WalPagerInv
<1>7. \A v : Sound(v) => Sound(v)'
  BY <1>1, <1>3, StillSound
<1>8. Sound(CommittedVersion)'
  BY <1>0, <1>1, <1>3, OwnedIsSound DEF WalWriterInv, Root
<1>9. WalVersions' \subseteq ViewVersions \cup {CommittedVersion'} /\ ViewVersions \subseteq WalVersions
  BY <1>1, <1>3 DEF WalVersions, ViewVersions
<1>10. WalVersionInv'
  BY <1>0, <1>1, <1>7, <1>8, <1>9 DEF WalVersionInv
<1>11. WalWriterInv'
  BY <1>1 DEF WalWriterInv
<1>12. QED
  BY <1>4, <1>5, <1>6, <1>10, <1>11 DEF WalIInv

LEMMA CheckpointSaveKeeps ==
    ASSUME WalIInv, UNCHANGED <<relinked, dangling>>, CheckpointSave
    PROVE  WalIInv'
<1>0. WalTypeInv /\ TxInv /\ WalPagerInv /\ WalVersionInv /\ WalWriterInv
  BY DEF WalIInv
<1>1. /\ writer = "save" /\ writer' = "idle" /\ meta' = meta
      /\ UNCHANGED <<pagerVars, page, relinked>> /\ dangling' = dangling /\ views' = views
  BY DEF CheckpointSave
<1>2. /\ free_map' = free_map /\ pending_map' = pending_map /\ alloc_records' = alloc_records
      /\ page' = page /\ relinked' = relinked
  BY <1>1 DEF pagerVars
<1>3. ~InTx /\ ~InTx' /\ Top' = Top /\ OpenViews' = OpenViews
  BY <1>1 DEF InTx, Top, OpenViews
<1>4. WalTypeInv'
  BY <1>0, <1>1, <1>2 DEF WalTypeInv
<1>5. TxInv'
  BY <1>0, <1>1, <1>3 DEF TxInv
<1>6. WalPagerInv'
  BY <1>0, <1>1, <1>2, <1>3 DEF WalPagerInv
<1>7. \A v : Sound(v) => Sound(v)'
  BY <1>1, <1>3, StillSound
<1>8. Sound(CommittedVersion)'
  BY <1>0, <1>1, <1>3, OwnedIsSound DEF WalWriterInv, TxInv
<1>9. WalVersions' \subseteq ViewVersions \cup {CommittedVersion'} /\ ViewVersions \subseteq WalVersions
  BY <1>1, <1>3 DEF WalVersions, ViewVersions
<1>10. WalVersionInv'
  BY <1>0, <1>1, <1>7, <1>8, <1>9 DEF WalVersionInv
<1>11. WalWriterInv'
  BY <1>1 DEF WalWriterInv
<1>12. QED
  BY <1>4, <1>5, <1>6, <1>10, <1>11 DEF WalIInv

-----------------------------------------------------------------------------
(* Beginning a transaction and rolling it back.                             *)

\* TxManager::Update computes a lower bound of the versions that can be read.
LEMMA WalMinView ==
    ASSUME WalTypeInv, TxInv, NEW m \in TxIds, IsMinView(m), NEW v \in WalVersions
    PROVE  m <= v.txid
<1> USE TopTypes, Consts
<1>1. \A r \in OpenViews : views[r].txid \in Nat /\ views[r].txid <= meta.txid
  BY DEF WalTypeInv, OpenViews, TxInv
<1>2. m <= meta.txid /\ \A r \in OpenViews : m <= views[r].txid
  BY <1>1 DEF IsMinView
<1>3. QED
  BY <1>2 DEF WalVersions, ViewVersions, CommittedVersion

LEMMA UpdateKeeps ==
    ASSUME WalIInv, Update, relinked' = FALSE, dangling' = dangling
    PROVE  WalIInv'
<1> USE TopTypes, Consts
<1>0. WalTypeInv /\ TxInv /\ WalPagerInv /\ WalVersionInv /\ WalWriterInv
  BY DEF WalIInv
<1>1. PICK m \in TxIds :
        /\ IsMinView(m)
        /\ free_map' = free_map \cup
              UNION {pending_map[t] : t \in {u \in TxIds : Releasable(m, u)}}
        /\ pending_map' = [t \in TxIds |-> IF Releasable(m, t) THEN {} ELSE pending_map[t]]
  BY DEF Update
<1>2. /\ writer = "idle" /\ writer' = "open" /\ meta' = meta /\ meta.txid < MaxTxId
      /\ update_tx' = [meta EXCEPT !.txid = @ + 1] /\ alloc_records' = {}
      /\ page' = page /\ views' = views
  BY DEF Update, metaVars
<1>3. meta \in MetaStruct /\ meta.txid + 1 \in TxIds
  <2>1. meta \in MetaStruct /\ meta.txid \in Nat /\ MaxTxId \in Nat
    BY <1>0, ConstantsAssumption DEF WalTypeInv
  <2>2. meta.txid + 1 \in 0 .. MaxTxId
    BY <1>2, <2>1
  <2>3. QED
    BY <2>1, <2>2 DEF TxIds
<1>4. /\ update_tx' \in MetaStruct /\ update_tx'.txid = meta.txid + 1
      /\ update_tx'.page_count = meta.page_count /\ update_tx'.user_root = meta.user_root
      /\ update_tx'.free_list_pgid = kPageInvalidId
  BY <1>0, <1>2, <1>3 DEF MetaStruct, WalTypeInv
<1>5. ~InTx /\ InTx' /\ Top = meta /\ Top' = update_tx' /\ OpenViews' = OpenViews
      /\ Root' = meta.user_root
  BY <1>2, <1>4 DEF InTx, Top, OpenViews, Root
<1>6. WalTypeInv'
  <2>1. free_map' \subseteq PageIds /\ pending_map' \in [TxIds -> SUBSET PageIds]
    BY <1>0, <1>1 DEF WalTypeInv
  <2>2. QED
    BY <1>0, <1>2, <1>4, <2>1 DEF WalTypeInv
<1>7. TxInv'
  BY <1>0, <1>2, <1>4, <1>5 DEF TxInv
<1>8. /\ \A p \in free_map' : p \in free_map \/ \E t \in TxIds : p \in pending_map[t] /\ Releasable(m, t)
      /\ \A t \in TxIds : \A p \in pending_map'[t] : p \in pending_map[t] /\ ~Releasable(m, t)
  BY <1>1
<1>9. WalPagerInv'
  <2>1. \A p \in free_map' : p < meta'.page_count
    BY <1>0, <1>2, <1>5, <1>8 DEF WalPagerInv
  <2>2. ASSUME NEW t \in TxIds, NEW p \in pending_map'[t]
        PROVE  /\ p \notin free_map'
               /\ t <= Top'.txid
               /\ p < Top'.page_count
               /\ t <= meta'.txid => p < meta'.page_count
               /\ \A u \in TxIds : p \in pending_map'[u] => u = t
    <3>1. p \in pending_map[t] /\ ~Releasable(m, t)
      BY <1>8, <2>2
    <3>2. /\ p \notin free_map /\ t <= meta.txid /\ p < meta.page_count
          /\ \A u \in TxIds : p \in pending_map[u] => u = t
      BY <1>0, <1>5, <3>1 DEF WalPagerInv
    <3>3. p \notin free_map' /\ \A u \in TxIds : p \in pending_map'[u] => u = t
      BY <1>8, <3>1, <3>2
    <3>4. t <= Top'.txid
      BY <1>0, <1>4, <1>5, <3>2
    <3>5. QED
      BY <1>2, <1>4, <1>5, <3>2, <3>3, <3>4
  <2>3. QED
    BY <1>2, <2>1, <2>2 DEF WalPagerInv
<1>10. WalVersions' = WalVersions
  BY <1>2, <1>5 DEF WalVersions, ViewVersions, CommittedVersion
<1>11. ASSUME NEW v \in WalVersions
       PROVE  /\ Shaped(v.user_root)' /\ TreePages(page', v.user_root) = TreePages(page, v.user_root)
              /\ \A p \in TreePages(page, v.user_root) : WalKept(v, p)'
  <2>1. Sound(v) /\ v.txid \in Nat /\ m <= v.txid
    BY <1>0, <1>1, VersionTypes, WalMinView DEF WalVersionInv
  <2>2. Shaped(v.user_root)' /\ TreePages(page', v.user_root) = TreePages(page, v.user_root)
    BY <1>2, <2>1 DEF Sound, Shaped
  <2>3. ASSUME NEW p \in TreePages(page, v.user_root) PROVE WalKept(v, p)'
    <3>1. WalKept(v, p) /\ p \in Nat /\ page[p].last_modified_txid \in Nat
      BY <1>0, <2>1, <2>3, VersionPage
    <3>2. /\ p < meta.page_count /\ page[p].last_modified_txid <= meta.txid /\ p \notin free_map
          /\ \A t \in TxIds : p \in pending_map[t] => t > v.txid
      BY <1>5, <3>1 DEF WalKept
    <3>3. p \notin free_map' /\ \A t \in TxIds : p \in pending_map'[t] => t > v.txid
      BY <1>8, <2>1, <3>2 DEF Releasable
    <3>4. page'[p].last_modified_txid <= Top'.txid /\ p < Top'.page_count
      BY <1>0, <1>2, <1>4, <1>5, <3>1, <3>2
    <3>5. QED
      BY <1>2, <3>2, <3>3, <3>4 DEF WalKept
  <2>4. QED
    BY <2>2, <2>3
<1>12. WalVersionInv'
  BY <1>10, <1>11 DEF WalVersionInv, Sound
<1>13. WalWriterInv'
  <2>1. CommittedVersion \in WalVersions /\ CommittedVersion.user_root = meta.user_root
        /\ CommittedVersion.txid = meta.txid
    BY <1>2 DEF WalVersions, CommittedVersion
  <2>2. PICK v \in WalVersions : v.user_root = meta.user_root /\ v.txid = meta.txid
    BY <2>1
  <2>3. ASSUME NEW p \in TreePages(page, v.user_root) PROVE WalOwned(p)'
    <3>1. WalKept(v, p)' /\ WalKept(v, p)
      BY <1>0, <1>11, <2>3 DEF WalVersionInv, Sound
    <3>2. \A t \in TxIds : p \notin pending_map[t]
      <4>1. \A t \in TxIds : p \in pending_map[t] => t > meta.txid /\ t <= meta.txid
        BY <1>0, <1>5, <2>2, <3>1 DEF WalKept, WalPagerInv
      <4>2. QED
        BY <1>0, <4>1
    <3>3. QED
      BY <1>8, <3>1, <3>2 DEF WalKept, WalOwned
  <2>4. QED
    BY <1>5, <1>11, <2>2, <2>3 DEF WalWriterInv
<1>14. QED
  BY <1>6, <1>7, <1>9, <1>12, <1>13 DEF WalIInv

\* TxManager::RollBack, with or without a checkpoint: as long as the writer has
\* given no committed root a new child, all pages are as if it had never begun.
LEMMA RollBackKeeps ==
    ASSUME WalIInv, RollBack \/ RollBackAfterCheckpoint,
           dangling' = (dangling \/ relinked), relinked' = relinked, ~dangling'
    PROVE  WalIInv'
<1> USE TopTypes, Consts
<1>0. WalTypeInv /\ TxInv /\ WalPagerInv /\ WalVersionInv /\ WalWriterInv
  BY DEF WalIInv
<1>1. /\ InTx /\ writer \in {"open", "rollback"} /\ writer' = "idle" /\ meta' = meta
      /\ page' = page /\ views' = views /\ PagerRollback
  BY DEF RollBack, RollBackAfterCheckpoint, metaVars, InTx
<1>2. /\ ~InTx' /\ Top = update_tx /\ Top' = meta /\ OpenViews' = OpenViews
      /\ update_tx.txid \in TxIds /\ update_tx.txid = meta.txid + 1
  BY <1>0, <1>1 DEF InTx, Top, OpenViews, TxInv
<1>3. /\ free_map' = free_map \cup alloc_records /\ alloc_records' = {}
      /\ \A t \in TxIds : pending_map'[t] = IF t = update_tx.txid THEN {} ELSE pending_map[t]
  BY <1>0, <1>1 DEF PagerRollback, WalTypeInv
<1>4. WalTypeInv'
  <2>1. free_map' \subseteq PageIds /\ pending_map' \in [TxIds -> SUBSET PageIds]
    BY <1>0, <1>1, <1>3 DEF WalTypeInv, PagerRollback
  <2>2. dangling' \in BOOLEAN /\ relinked' \in BOOLEAN
    BY <1>0 DEF WalTypeInv
  <2>3. QED
    BY <1>0, <1>1, <1>3, <2>1, <2>2 DEF WalTypeInv
<1>5. TxInv'
  BY <1>0, <1>1, <1>2 DEF TxInv
<1>6. WalPagerInv'
  <2>1. \A p \in free_map' : p < meta'.page_count
    BY <1>0, <1>1, <1>3 DEF WalPagerInv
  <2>2. ASSUME NEW t \in TxIds, NEW p \in pending_map'[t]
        PROVE  /\ p \notin free_map'
               /\ t <= Top'.txid
               /\ p < Top'.page_count
               /\ t <= meta'.txid => p < meta'.page_count
               /\ \A u \in TxIds : p \in pending_map'[u] => u = t
    <3>1. p \in pending_map[t] /\ t # update_tx.txid
      BY <1>3, <2>2
    <3>2. /\ p \notin free_map /\ t <= update_tx.txid
          /\ t <= meta.txid => p < meta.page_count
          /\ \A u \in TxIds : p \in pending_map[u] => u = t
      BY <1>0, <1>2, <3>1 DEF WalPagerInv
    <3>3. t <= meta.txid
      BY <1>0, <1>2, <3>1, <3>2
    <3>4. p \notin alloc_records
      BY <1>0, <1>1, <3>1 DEF WalPagerInv
    <3>5. \A u \in TxIds : p \in pending_map'[u] => u = t
      BY <1>3, <3>2
    <3>6. QED
      BY <1>1, <1>2, <1>3, <3>2, <3>3, <3>4, <3>5
  <2>3. QED
    BY <1>2, <2>1, <2>2 DEF WalPagerInv
<1>7. WalVersions' = WalVersions
  BY <1>1, <1>2 DEF WalVersions, ViewVersions, CommittedVersion
<1>8. ASSUME NEW v \in WalVersions PROVE Sound(v)'
  <2>1. Sound(v) /\ ~relinked
    BY <1>0, <1>8 DEF WalVersionInv
  <2>2. Shaped(v.user_root)' /\ TreePages(page', v.user_root) = TreePages(page, v.user_root)
    BY <1>1, <2>1 DEF Sound, Shaped
  <2>3. ASSUME NEW p \in TreePages(page, v.user_root) PROVE WalKept(v, p)'
    <3>1. /\ p < meta.page_count /\ page[p].last_modified_txid <= meta.txid
          /\ p \notin free_map /\ p \notin alloc_records
          /\ \A t \in TxIds : p \in pending_map[t] => t > v.txid
      BY <1>1, <2>1, <2>3 DEF Sound, WalKept
    <3>2. QED
      BY <1>1, <1>2, <1>3, <3>1 DEF WalKept
  <2>4. QED
    BY <2>2, <2>3 DEF Sound
<1>9. WalVersionInv'
  BY <1>7, <1>8 DEF WalVersionInv
<1>10. WalWriterInv'
  BY <1>1 DEF WalWriterInv
<1>11. QED
  BY <1>4, <1>5, <1>6, <1>9, <1>10 DEF WalIInv

-----------------------------------------------------------------------------
(* What the writer allocates and frees.                                     *)

LEMMA PendingAfter ==
    ASSUME WalTypeInv, NEW taken, NEW replaced, AllocAndFree(taken, replaced)
    PROVE  \A t \in TxIds : pending_map'[t] = IF t = update_tx.txid
                                              THEN pending_map[t] \cup replaced
                                              ELSE pending_map[t]
  BY DEF AllocAndFree, WalTypeInv

\* One or two pages from Pager::Alloc: they were in use nowhere, they are
\* different, and the page count covers them.
LEMMA AllocOneOrTwo ==
    ASSUME free_map \subseteq PageIds, update_tx.page_count \in 0 .. PageMaxCount,
           \A x \in free_map : x < update_tx.page_count,
           NEW p \in PageIds, Allocates(free_map, update_tx.page_count, p)
    PROVE  LET n == PageCountAfter(update_tx.page_count, p)
           IN  /\ n \in 0 .. PageMaxCount /\ n >= update_tx.page_count /\ p < n /\ Fresh(p)
               /\ \A q \in PageIds : Allocates(free_map \ {p}, n, q) =>
                     /\ PageCountAfter(n, q) \in 0 .. PageMaxCount /\ PageCountAfter(n, q) >= n
                     /\ p < PageCountAfter(n, q) /\ q < PageCountAfter(n, q)
                     /\ q # p /\ Fresh(q)
<1> DEFINE n == PageCountAfter(update_tx.page_count, p)
<1>1. /\ update_tx.page_count \in Nat /\ PageMaxCount \in Nat /\ p \in Nat
      /\ update_tx.page_count <= PageMaxCount
      /\ \A x \in free_map : x \in Nat /\ x < update_tx.page_count
  BY Consts, ConstantsAssumption
<1>2. \/ p \in free_map /\ n = update_tx.page_count
      \/ /\ p \notin free_map /\ p = update_tx.page_count /\ n = update_tx.page_count + 1
         /\ free_map = {} /\ n <= PageMaxCount
  BY <1>1 DEF Allocates, PageCountAfter
<1>3. /\ n \in Nat /\ n <= PageMaxCount /\ n >= update_tx.page_count /\ p < n
  BY <1>1, <1>2
<1>4. Fresh(p)
  BY <1>1, <1>2 DEF Fresh
<1>5. ASSUME NEW q \in PageIds, Allocates(free_map \ {p}, n, q)
      PROVE  /\ PageCountAfter(n, q) \in 0 .. PageMaxCount /\ PageCountAfter(n, q) >= n
             /\ p < PageCountAfter(n, q) /\ q < PageCountAfter(n, q)
             /\ q # p /\ Fresh(q)
  <2> HIDE DEF n
  <2>1. q \in Nat
    BY Consts
  <2>2. CASE q \in free_map \ {p}
    <3>1. PageCountAfter(n, q) = n /\ q < n /\ q # p
      BY <1>1, <1>3, <2>1, <2>2 DEF PageCountAfter
    <3>2. QED
      BY <1>1, <1>3, <2>2, <3>1 DEF Fresh
  <2>3. CASE q \notin free_map \ {p}
    <3>1. q = n /\ n < PageMaxCount
      BY <1>5, <2>3 DEF Allocates
    <3>2. q \notin free_map /\ PageCountAfter(n, q) = n + 1
      BY <1>1, <1>3, <3>1 DEF PageCountAfter
    <3>3. QED
      BY <1>1, <1>3, <2>1, <3>1, <3>2 DEF Fresh
  <2>4. QED
    BY <2>2, <2>3
<1>6. QED
  BY <1>1, <1>3, <1>4, <1>5

\* A page of the writer's or of a version that can be read is not one that
\* Pager::Alloc returns, and one that it returns is in no list.
LEMMA FreshApart ==
    ASSUME WalTypeInv, TxInv, WalPagerInv, writer = "open", NEW p \in PageIds
    PROVE  /\ WalOwned(p) => ~Fresh(p)
           /\ \A v : WalKept(v, p) => ~Fresh(p)
           /\ Fresh(p) => \A t \in TxIds : p \notin pending_map[t]
<1>1. Top = update_tx /\ update_tx.page_count \in Nat /\ p \in Nat
  BY Consts, TopTypes DEF Top, InTx
<1>2. QED
  BY <1>1 DEF WalOwned, WalKept, Fresh, WalPagerInv

\* Pager::Alloc and Pager::Free keep the pager consistent, in the middle of a
\* transaction and while its meta struct is published.
LEMMA WalAllocPager ==
    ASSUME WalTypeInv, TxInv, WalPagerInv, writer = "open",
           NEW taken \in SUBSET PageIds, NEW replaced \in SUBSET PageIds,
           AllocAndFree(taken, replaced), \A p \in replaced : WalOwned(p),
           update_tx'.txid = update_tx.txid, update_tx'.page_count \in Nat,
           update_tx'.page_count >= update_tx.page_count,
           \/ writer' \in {"open", "rollback"} /\ meta' = meta
           \/ writer' = "sync" /\ meta' = update_tx
    PROVE  WalPagerInv'
<1> USE Consts, TopTypes
<1>1. /\ update_tx.txid \in TxIds /\ update_tx.txid = meta.txid + 1
      /\ update_tx.page_count \in Nat /\ update_tx.page_count >= meta.page_count
      /\ meta.txid \in Nat /\ meta.page_count \in Nat /\ Top = update_tx /\ InTx
  BY DEF TxInv, Top, InTx
<1>2. \A t \in TxIds : pending_map'[t] = IF t = update_tx.txid THEN pending_map[t] \cup replaced
                                                              ELSE pending_map[t]
  BY PendingAfter
<1>3. free_map' = free_map \ taken /\ alloc_records' = alloc_records \cup (taken \cap free_map)
  BY DEF AllocAndFree
<1>4. free_map \subseteq PageIds /\ pending_map \in [TxIds -> SUBSET PageIds]
  BY DEF WalTypeInv
<1>5. /\ Top'.txid = update_tx.txid /\ Top'.page_count >= update_tx.page_count
      /\ Top'.page_count \in Nat /\ meta'.page_count \in Nat
      /\ meta' = meta \/ meta' = update_tx
      /\ meta'.page_count >= meta.page_count
  BY <1>1 DEF Top, InTx
<1>6. \A p \in free_map' : p < meta'.page_count
  <2>1. \A p \in free_map : p \in Nat /\ p < meta.page_count
    BY <1>4 DEF WalPagerInv
  <2>2. QED
    BY <1>1, <1>3, <1>5, <2>1
<1>7. ASSUME NEW t \in TxIds, NEW p \in pending_map'[t]
      PROVE  /\ p \notin free_map'
             /\ t <= Top'.txid
             /\ p < Top'.page_count
             /\ t <= meta'.txid => p < meta'.page_count
             /\ \A u \in TxIds : p \in pending_map'[u] => u = t
  <2>1. CASE p \in pending_map[t]
    <3>1. /\ p \in PageIds /\ p \notin replaced
      BY <1>4, <2>1 DEF WalOwned
    <3>2. /\ p \notin free_map /\ t <= update_tx.txid /\ p < update_tx.page_count
          /\ t <= meta.txid => p < meta.page_count
          /\ \A u \in TxIds : p \in pending_map[u] => u = t
      BY <1>1, <2>1 DEF WalPagerInv
    <3>3. \A u \in TxIds : p \in pending_map'[u] => u = t
      BY <1>2, <3>1, <3>2
    <3>4. p < Top'.page_count
      BY <1>1, <1>5, <3>1, <3>2
    <3>5. t <= meta'.txid => p < meta'.page_count
      BY <1>5, <3>2
    <3>6. QED
      BY <1>3, <1>5, <3>2, <3>3, <3>4, <3>5
  <2>2. CASE p \notin pending_map[t]
    <3>1. t = update_tx.txid /\ p \in replaced /\ p \in PageIds /\ WalOwned(p)
      BY <1>2, <1>7, <2>2
    <3>2. /\ p \notin free_map' /\ p < update_tx.page_count
          /\ \A u \in TxIds : p \in pending_map'[u] => u = t
      BY <1>1, <1>2, <1>3, <3>1 DEF WalOwned
    <3>3. p < Top'.page_count /\ t <= Top'.txid
      BY <1>1, <1>5, <3>1, <3>2
    <3>4. t <= meta'.txid => p < meta'.page_count
      <4>1. CASE meta' = meta
        BY <1>1, <3>1, <4>1
      <4>2. CASE meta' = update_tx
        BY <3>2, <4>2
      <4>3. QED
        BY <1>5, <4>1, <4>2
    <3>5. QED
      BY <3>2, <3>3, <3>4
  <2>3. QED
    BY <2>1, <2>2
<1>8. ASSUME InTx', NEW p \in alloc_records'
      PROVE  /\ p < meta'.page_count
             /\ p \notin free_map'
             /\ \A t \in TxIds : p \in pending_map'[t] => t = update_tx'.txid
  <2>1. meta' = meta
    BY <1>8 DEF InTx
  <2>2. p < meta.page_count /\ \A t \in TxIds : p \in pending_map[t] => t = update_tx.txid
    BY <1>1, <1>3, <1>8 DEF WalPagerInv
  <2>3. p \notin free_map'
    BY <1>1, <1>3, <1>8 DEF WalPagerInv
  <2>4. QED
    BY <1>2, <2>1, <2>2, <2>3
<1>9. QED
  BY <1>6, <1>7, <1>8 DEF WalPagerInv

-----------------------------------------------------------------------------
(* Checkpoints: the free list is saved.                                     *)

\* Pager::SaveFreeList writes at most one page, which was in use nowhere.
SaveStep(taken) ==
    /\ AllocAndFree(taken, {})
    /\ \A p \in taken : Fresh(p)
    /\ \A p \in PageIds \ taken : page'[p] = page[p]
    /\ page' \in [PageIds -> PageType]
    /\ update_tx' \in MetaStruct
    /\ update_tx'.txid = update_tx.txid
    /\ update_tx'.user_root = update_tx.user_root
    /\ update_tx'.page_count \in Nat
    /\ update_tx'.page_count >= update_tx.page_count

LEMMA SaveEffect ==
    ASSUME WalTypeInv, TxInv, WalPagerInv, writer = "open", SaveFreeList
    PROVE  \E taken \in SUBSET PageIds : SaveStep(taken)
<1> USE Consts
<1>1. /\ update_tx \in MetaStruct /\ update_tx.txid \in TxIds
      /\ update_tx.page_count \in 0 .. PageMaxCount /\ update_tx.page_count \in Nat
      /\ update_tx.free_list_pgid = kPageInvalidId
      /\ update_tx.page_count >= meta.page_count /\ meta.page_count \in Nat
  BY TopTypes DEF WalTypeInv, TxInv, InTx
<1>2. /\ free_map \subseteq PageIds /\ pending_map \in [TxIds -> SUBSET PageIds]
      /\ page \in [PageIds -> PageType]
  BY DEF WalTypeInv
<1>3. CASE /\ update_tx' = [update_tx EXCEPT !.free_list_pgid = update_tx.page_count]
           /\ UNCHANGED <<pagerVars, page>>
  <2>1. update_tx.page_count \in PageIds \cup {kPageInvalidId}
    BY <1>1, ConstantsAssumption DEF PageIds, kPageInvalidId
  <2>2. /\ update_tx' \in MetaStruct /\ update_tx'.txid = update_tx.txid
        /\ update_tx'.user_root = update_tx.user_root
        /\ update_tx'.page_count = update_tx.page_count
    BY <1>1, <1>3, <2>1 DEF MetaStruct
  <2>3. AllocAndFree({}, {})
    BY <1>1, <1>2, <1>3 DEF AllocAndFree, pagerVars
  <2>4. SaveStep({})
    BY <1>1, <1>2, <1>3, <2>2, <2>3 DEF SaveStep
  <2>5. QED
    BY <2>4
<1>4. ASSUME NEW p \in PageIds, NEW S \in SUBSET PageIds,
             Allocates(free_map, update_tx.page_count, p), AllocAndFree({p}, {}),
             page' = [page EXCEPT ![p] = FreeListPage(S)],
             update_tx' = [update_tx EXCEPT
                  !.free_list_pgid = p, !.page_count = PageCountAfter(@, p)]
      PROVE  SaveStep({p})
  <2>1. \A x \in free_map : x < update_tx.page_count
    <3>1. \A x \in free_map : x \in Nat /\ x < meta.page_count
      BY <1>2 DEF WalPagerInv
    <3>2. QED
      BY <1>1, <3>1
  <2>2. /\ PageCountAfter(update_tx.page_count, p) \in 0 .. PageMaxCount
        /\ PageCountAfter(update_tx.page_count, p) >= update_tx.page_count /\ Fresh(p)
    BY <1>1, <1>2, <1>4, <2>1, AllocOneOrTwo
  <2>3. PageCountAfter(update_tx.page_count, p) \in Nat
    BY <2>2, ConstantsAssumption
  <2>4. /\ update_tx' \in MetaStruct /\ update_tx'.txid = update_tx.txid
        /\ update_tx'.user_root = update_tx.user_root
        /\ update_tx'.page_count = PageCountAfter(update_tx.page_count, p)
    BY <1>1, <1>4, <2>2 DEF MetaStruct
  <2>5. /\ page' \in [PageIds -> PageType]
        /\ \A q \in PageIds \ {p} : page'[q] = page[q]
    BY <1>1, <1>2, <1>4, NodeTypes
  <2>6. QED
    BY <1>4, <2>2, <2>3, <2>4, <2>5 DEF SaveStep
<1>5. \/ /\ update_tx' = [update_tx EXCEPT !.free_list_pgid = update_tx.page_count]
         /\ UNCHANGED <<pagerVars, page>>
      \/ \E p \in PageIds, S \in SUBSET PageIds :
            /\ Allocates(free_map, update_tx.page_count, p)
            /\ AllocAndFree({p}, {})
            /\ page' = [page EXCEPT ![p] = FreeListPage(S)]
            /\ update_tx' = [update_tx EXCEPT
                  !.free_list_pgid = p, !.page_count = PageCountAfter(@, p)]
  BY <1>1, <1>2, SaveFreeListCases
<1>6. \A p \in PageIds : {p} \in SUBSET PageIds
  OBVIOUS
<1>7. QED
  BY <1>3, <1>4, <1>5, <1>6

\* What a checkpoint, in a commit or in a rollback, keeps.
LEMMA SaveKeeps ==
    ASSUME WalIInv, writer = "open", NEW taken \in SUBSET PageIds, SaveStep(taken),
           views' = views, relinked' = relinked, dangling' = dangling,
           \/ writer' = "rollback" /\ meta' = meta
           \/ writer' = "sync" /\ meta' = update_tx
    PROVE  WalIInv'
<1> USE TopTypes, Consts
<1>0. WalTypeInv /\ TxInv /\ WalPagerInv /\ WalVersionInv /\ WalWriterInv
  BY DEF WalIInv
<1>1. /\ update_tx.txid \in TxIds /\ update_tx.txid = meta.txid + 1
      /\ update_tx.page_count \in Nat /\ update_tx.page_count >= meta.page_count
      /\ meta.txid \in Nat /\ meta.page_count \in Nat /\ Top = update_tx /\ InTx
  BY <1>0 DEF TxInv, Top, InTx
<1>2. /\ Top'.txid = update_tx.txid /\ Top'.page_count >= update_tx.page_count
      /\ Top'.page_count \in Nat /\ OpenViews' = OpenViews
      /\ InTx' => meta' = meta
  BY <1>1 DEF Top, InTx, SaveStep, OpenViews
<1>3. /\ free_map' = free_map \ taken /\ alloc_records' = alloc_records \cup (taken \cap free_map)
      /\ \A t \in TxIds : pending_map'[t] = pending_map[t]
  BY <1>0, PendingAfter DEF SaveStep, AllocAndFree
<1>4. WalTypeInv'
  <2>1. /\ free_map' \subseteq PageIds /\ alloc_records' \subseteq PageIds
        /\ pending_map' \in [TxIds -> SUBSET PageIds]
    BY <1>0, <1>1, <1>3 DEF WalTypeInv, SaveStep, AllocAndFree
  <2>2. /\ meta' \in MetaStruct /\ meta'.free_list_pgid = kPageInvalidId
    BY <1>0 DEF WalTypeInv
  <2>3. QED
    BY <1>0, <2>1, <2>2 DEF WalTypeInv, SaveStep
<1>5. TxInv'
  <2>1. \A r \in OpenViews : views[r].txid \in TxIds /\ views[r].txid <= meta.txid
    BY <1>0 DEF TxInv, OpenViews, WalTypeInv
  <2>2. meta.txid <= meta'.txid /\ meta'.txid \in Nat
    BY <1>1
  <2>3. \A r \in OpenViews' : views'[r].txid <= meta'.txid
    BY <1>1, <1>2, <2>1, <2>2
  <2>4. InTx' => update_tx'.txid = meta'.txid + 1 /\ update_tx'.page_count >= meta'.page_count
    BY <1>1, <1>2 DEF SaveStep
  <2>5. writer' \in {"sync", "save"} => meta'.txid = update_tx'.txid /\ meta'.user_root = Root'
    BY DEF SaveStep, Root
  <2>6. QED
    BY <2>3, <2>4, <2>5 DEF TxInv
<1>6. WalPagerInv'
  BY <1>0, WalAllocPager DEF SaveStep
<1>7. WalVersions' \subseteq WalVersions
  BY <1>2 DEF WalVersions, ViewVersions, CommittedVersion
<1>8. ASSUME NEW root, Shaped(root), \A p \in TreePages(page, root) : p \in PageIds /\ ~Fresh(p)
      PROVE  /\ Shaped(root)' /\ TreePages(page', root) = TreePages(page, root)
             /\ \A p \in TreePages(page, root) : p \notin taken /\ page'[p] = page[p]
  BY <1>8, SameShape DEF SaveStep
<1>9. ASSUME NEW v \in WalVersions PROVE Sound(v)'
  <2>1. Sound(v) /\ \A p \in TreePages(page, v.user_root) :
           p \in PageIds /\ p \in Nat /\ WalKept(v, p) /\ page[p].last_modified_txid \in TxIds
    BY <1>0, <1>9, VersionPage DEF WalVersionInv
  <2>2. \A p \in TreePages(page, v.user_root) : ~Fresh(p)
    BY <1>0, <2>1, FreshApart
  <2>3. /\ Shaped(v.user_root)' /\ TreePages(page', v.user_root) = TreePages(page, v.user_root)
        /\ \A p \in TreePages(page, v.user_root) : p \notin taken /\ page'[p] = page[p]
    BY <1>8, <2>1, <2>2 DEF Sound
  <2>4. ASSUME NEW p \in TreePages(page, v.user_root) PROVE WalKept(v, p)'
    <3>1. WalKept(v, p) /\ p \in Nat /\ p \notin taken /\ page'[p] = page[p]
      BY <2>1, <2>3, <2>4
    <3>2. /\ p < update_tx.page_count /\ page[p].last_modified_txid <= update_tx.txid
          /\ p \notin free_map /\ \A t \in TxIds : p \in pending_map[t] => t > v.txid
          /\ ~relinked => /\ p < meta.page_count /\ p \notin alloc_records
                          /\ page[p].last_modified_txid <= meta.txid
      BY <1>1, <3>1 DEF WalKept
    <3>3. p < Top'.page_count
      BY <1>1, <1>2, <3>1, <3>2
    <3>4. QED
      BY <1>2, <1>3, <3>1, <3>2, <3>3 DEF WalKept
  <2>5. QED
    BY <2>3, <2>4 DEF Sound
<1>10. WalVersionInv'
  BY <1>7, <1>9 DEF WalVersionInv
<1>11. WalWriterInv'
  <2>1. PICK root : root = Root
    OBVIOUS
  <2>2. Root' = root
    BY <2>1 DEF SaveStep, Root
  <2>3. Shaped(root) /\ \A p \in TreePages(page, root) : p \in PageIds /\ WalOwned(p)
    BY <1>0, <2>1, ShapedPages DEF WalWriterInv
  <2>4. \A p \in TreePages(page, root) : ~Fresh(p)
    BY <1>0, <2>3, FreshApart
  <2>5. /\ Shaped(root)' /\ TreePages(page', root) = TreePages(page, root)
        /\ \A p \in TreePages(page, root) : p \notin taken /\ page'[p] = page[p]
    BY <1>8, <2>3, <2>4
  <2>6. ASSUME NEW p \in TreePages(page, root) PROVE WalOwned(p)'
    <3>1. WalOwned(p) /\ p \in Nat /\ page'[p] = page[p]
      BY <2>3, <2>5, <2>6
    <3>2. /\ p < update_tx.page_count /\ page[p].last_modified_txid <= update_tx.txid
          /\ p \notin free_map /\ \A t \in TxIds : p \notin pending_map[t]
      BY <1>1, <3>1 DEF WalOwned
    <3>3. p < Top'.page_count
      BY <1>1, <1>2, <3>1, <3>2
    <3>4. QED
      BY <1>2, <1>3, <3>1, <3>2, <3>3 DEF WalOwned
  <2>7. QED
    BY <2>2, <2>5, <2>6 DEF WalWriterInv
<1>12. QED
  BY <1>4, <1>5, <1>6, <1>10, <1>11 DEF WalIInv

LEMMA CheckpointKeeps ==
    ASSUME WalIInv, UNCHANGED <<relinked, dangling>>, Commit \/ CheckpointInRollBack
    PROVE  WalIInv'
<1>1. /\ writer = "open" /\ SaveFreeList /\ views' = views
      /\ \/ writer' = "rollback" /\ meta' = meta
         \/ writer' = "sync" /\ meta' = update_tx
  BY DEF Commit, CheckpointInRollBack, metaVars
<1>2. PICK taken \in SUBSET PageIds : SaveStep(taken)
  BY <1>1, SaveEffect DEF WalIInv
<1>3. QED
  BY <1>1, <1>2, SaveKeeps

-----------------------------------------------------------------------------
(* Writing.                                                                 *)

\* A tree that uses none of the pages taken is still one afterwards; what it
\* has gained, if the writer relinked its root, is a page just taken.
KeepsTree(taken, root) ==
    Shaped(root) /\ TreePages(page, root) \cap taken = {} =>
        /\ Shaped(root)'
        /\ \A p \in TreePages(page', root) :
              \/ /\ p \in TreePages(page, root)
                 /\ page'[p].last_modified_txid = page[p].last_modified_txid
              \/ /\ p \in taken
                 /\ page'[p].last_modified_txid = update_tx.txid

\* A tree of older transactions only, none of whose pages is taken, keeps its
\* pages.
SameOldTree(taken, root) ==
    /\ Shaped(root)
    /\ \A p \in TreePages(page, root) :
          p \notin taken /\ page[p].last_modified_txid < update_tx.txid
    => TreePages(page', root) = TreePages(page, root)

\* The writer's tree has lost the pages replaced and gained pages just taken.
NextTree(taken, replaced) ==
    /\ Shaped(Root)'
    /\ \A p \in TreePages(page', Root') :
          \/ /\ p \in TreePages(page, Root) \ replaced
             /\ page'[p].last_modified_txid = page[p].last_modified_txid
          \/ /\ p \in taken
             /\ page'[p].last_modified_txid = update_tx.txid

\* What BucketImpl::Put does, whichever pages it copies.
PutStep(taken, replaced) ==
    /\ AllocAndFree(taken, replaced)
    /\ replaced \subseteq TreePages(page, Root)
    /\ \A p \in taken : Fresh(p) /\ p < update_tx'.page_count
    /\ page' \in [PageIds -> PageType]
    /\ update_tx' \in MetaStruct
    /\ update_tx'.free_list_pgid = kPageInvalidId
    /\ update_tx'.txid = update_tx.txid
    /\ update_tx'.page_count \in Nat
    /\ update_tx'.page_count >= update_tx.page_count
    /\ \A root \in PageIds : KeepsTree(taken, root)
    /\ NextTree(taken, replaced)

\* A tree the writer does not change at all.
LEMMA Untouched ==
    ASSUME NEW taken, NEW root, \A p \in TreePages(page, root) : p \notin taken => page'[p] = page[p]
    PROVE  KeepsTree(taken, root)
<1> SUFFICES ASSUME Shaped(root), TreePages(page, root) \cap taken = {}
             PROVE  /\ Shaped(root)'
                    /\ \A p \in TreePages(page', root) :
                          /\ p \in TreePages(page, root)
                          /\ page'[p].last_modified_txid = page[p].last_modified_txid
  BY DEF KeepsTree
<1>1. \A p \in TreePages(page, root) : page'[p] = page[p]
  OBVIOUS
<1>2. QED
  BY <1>1, SameShape

LEMMA UntouchedOld ==
    ASSUME NEW taken, NEW root,
           \A p \in TreePages(page, root) :
              \/ p \in taken
              \/ page'[p] = page[p]
              \/ ~(page[p].last_modified_txid < update_tx.txid)
    PROVE  SameOldTree(taken, root)
<1> SUFFICES ASSUME Shaped(root),
                    \A p \in TreePages(page, root) :
                       p \notin taken /\ page[p].last_modified_txid < update_tx.txid
             PROVE  TreePages(page', root) = TreePages(page, root)
  BY DEF SameOldTree
<1>1. \A p \in TreePages(page, root) : page'[p] = page[p]
  OBVIOUS
<1>2. QED
  BY <1>1, SameShape

LEMMA PutEffect ==
    ASSUME WalTypeInv, TxInv, WalPagerInv, WalWriterInv,
           NEW l \in Leaves, NEW x \in Values, WalPut(l, x)
    PROVE  \E taken, replaced \in SUBSET PageIds :
              /\ PutStep(taken, replaced)
              /\ ~relinked' => \A root \in PageIds : SameOldTree(taken, root)
<1> USE Consts
<1>0. /\ free_map \subseteq PageIds /\ pending_map \in [TxIds -> SUBSET PageIds]
      /\ page \in [PageIds -> PageType]
  BY DEF WalTypeInv
<1>1. /\ Put(l, x) /\ writer = "open" /\ update_tx \in MetaStruct /\ update_tx.txid \in TxIds
      /\ update_tx.page_count \in 0 .. PageMaxCount /\ update_tx.page_count \in Nat
      /\ update_tx.free_list_pgid = kPageInvalidId
      /\ ~relinked' => ~(Overwrites(Root) /\ CopyNeeded(page[Leaf(l)].last_modified_txid))
  BY TopTypes DEF WalPut, Put, WalTypeInv
<1>2. PICK r, c : r = Root /\ c = page[Root].child
  OBVIOUS
<1>3. /\ Shaped(r) /\ \A p \in TreePages(page, r) : WalOwned(p)
  BY <1>1, <1>2 DEF WalWriterInv
<1>4. /\ r \in PageIds /\ page[r] \in BranchPages /\ c \in [Leaves -> PageIds] /\ Injective(c)
      /\ \A k \in Leaves : c[k] = Leaf(k) /\ c[k] \in PageIds /\ c[k] # r /\ page[c[k]] \in LeafPages
      /\ page[r].type = "branch" /\ page[r].child = c
  <2>1. /\ r \in PageIds /\ page[r] \in BranchPages /\ page[r].child \in [Leaves -> PageIds]
        /\ \A k \in Leaves : /\ page[r].child[k] \in PageIds /\ page[r].child[k] # r
                             /\ page[page[r].child[k]] \in LeafPages
    BY <1>3, ShapedPages
  <2>2. page[r].type = "branch" /\ Injective(page[r].child)
    BY <1>3 DEF Shaped, IsTree
  <2>3. QED
    BY <1>2, <2>1, <2>2 DEF Leaf
<1>5. TreePages(page, r) = {r} \cup {c[k] : k \in Leaves}
  BY <1>4 DEF TreePages
<1>6. \A root : Shaped(root) => /\ root \in PageIds /\ page[root].type = "branch"
                                /\ page[root].child \in [Leaves -> PageIds]
                                /\ \A k \in Leaves : /\ page[root].child[k] \in PageIds
                                                     /\ page[page[root].child[k]].type = "leaf"
                                /\ TreePages(page, root) \subseteq PageIds
  BY ShapedPages DEF Shaped, IsTree
<1>7. \A x1 \in free_map : x1 < update_tx.page_count
  <2>1. \A x1 \in free_map : x1 \in Nat /\ x1 < meta.page_count
    BY <1>0 DEF WalPagerInv
  <2>2. update_tx.page_count >= meta.page_count /\ meta.page_count \in Nat
    BY <1>1, TopTypes DEF TxInv, InTx
  <2>3. QED
    BY <1>1, <2>1, <2>2
<1>8. \A p \in PageIds : Fresh(p) => p # r /\ \A k \in Leaves : p # c[k]
  BY <1>1, <1>3, <1>4, <1>5, FreshApart
<1>9. CASE PutInPlace(l, x)
  <2>1. /\ page' = [page EXCEPT ![c[l]] = [page[c[l]] EXCEPT !.value = x]]
        /\ update_tx' = update_tx /\ ~CopyNeeded(page[c[l]].last_modified_txid)
        /\ UNCHANGED pagerVars
    BY <1>4, <1>9 DEF PutInPlace
  <2>2. AllocAndFree({}, {})
    BY <1>0, <1>1, <2>1 DEF AllocAndFree, pagerVars
  <2>3. [page[c[l]] EXCEPT !.value = x] \in PageType
    BY <1>4 DEF PageType, LeafPages
  <2>4. /\ page' \in [PageIds -> PageType] /\ page'[c[l]].type = "leaf" /\ page[c[l]].type = "leaf"
        /\ page'[c[l]].last_modified_txid = page[c[l]].last_modified_txid
        /\ \A p \in PageIds : p # c[l] => page'[p] = page[p]
    BY <1>0, <1>4, <2>1, <2>3 DEF LeafPages
  <2>5. ASSUME NEW root, Shaped(root)
        PROVE  /\ Shaped(root)' /\ TreePages(page', root) = TreePages(page, root)
               /\ \A p \in TreePages(page, root) :
                     page'[p].last_modified_txid = page[p].last_modified_txid
    <3>1. root # c[l] /\ page'[root] = page[root]
      BY <1>6, <2>4, <2>5
    <3>2. IsTree(page', root) /\ Injective(page'[root].child)
      BY <1>6, <2>4, <2>5, <3>1 DEF Shaped, IsTree
    <3>3. TreePages(page', root) = TreePages(page, root)
      BY <3>1 DEF TreePages
    <3>4. QED
      BY <1>6, <2>4, <2>5, <3>2, <3>3 DEF Shaped
  <2>6. \A root \in PageIds : KeepsTree({}, root)
    BY <2>5 DEF KeepsTree
  <2>7. Root' = r
    BY <1>2, <2>1 DEF Root
  <2>8. NextTree({}, {})
    BY <1>2, <1>3, <2>5, <2>7 DEF NextTree
  <2>9. PutStep({}, {})
    BY <1>1, <2>1, <2>2, <2>4, <2>6, <2>8 DEF PutStep
  <2>10. \A root \in PageIds : SameOldTree({}, root)
    BY <2>5 DEF SameOldTree
  <2>11. QED
    BY <2>9, <2>10
<1>10. CASE PutCopyLeaf(l, x)
  <2>1. PICK p \in PageIds :
           /\ Allocates(free_map, update_tx.page_count, p)
           /\ page' = [page EXCEPT ![p] = LeafNode(update_tx.txid, x), ![r].child[l] = p]
           /\ AllocAndFree({p}, {c[l]})
           /\ update_tx' = [update_tx EXCEPT !.page_count = PageCountAfter(@, p)]
    BY <1>2, <1>4, <1>10 DEF PutCopyLeaf
  <2>2. /\ PageCountAfter(update_tx.page_count, p) \in 0 .. PageMaxCount
        /\ PageCountAfter(update_tx.page_count, p) >= update_tx.page_count
        /\ p < PageCountAfter(update_tx.page_count, p) /\ Fresh(p)
    BY <1>0, <1>1, <1>7, <2>1, AllocOneOrTwo
  <2>3. p # r /\ \A k \in Leaves : p # c[k]
    BY <1>8, <2>2
  <2>4. /\ update_tx' \in MetaStruct /\ update_tx'.txid = update_tx.txid
        /\ update_tx'.free_list_pgid = kPageInvalidId /\ update_tx'.user_root = r
        /\ update_tx'.page_count = PageCountAfter(update_tx.page_count, p)
        /\ update_tx'.page_count \in Nat
    <3>1. PageCountAfter(update_tx.page_count, p) \in Nat
      BY <2>2, ConstantsAssumption
    <3>2. QED
      BY <1>1, <1>2, <2>1, <2>2, <3>1 DEF MetaStruct, Root
  <2>5. PICK d \in [Leaves -> PageIds] : d = [c EXCEPT ![l] = p]
    BY <1>4
  <2>6. Injective(d) /\ \A k \in Leaves : d[k] = IF k = l THEN p ELSE c[k]
    BY <1>4, <2>3, <2>5 DEF Injective
  <2>7. [page[r] EXCEPT !.child[l] = p] = [page[r] EXCEPT !.child = d]
    BY <1>4, <2>5 DEF BranchPages
  <2>8. /\ [page[r] EXCEPT !.child = d] \in PageType
        /\ LeafNode(update_tx.txid, x) \in PageType
    BY <1>1, <1>4, NodeTypes DEF PageType, BranchPages
  <2>9. /\ page' \in [PageIds -> PageType]
        /\ page'[p] = LeafNode(update_tx.txid, x)
        /\ page'[r] = [page[r] EXCEPT !.child = d]
        /\ \A q \in PageIds : q # p /\ q # r => page'[q] = page[q]
    BY <1>0, <1>4, <2>1, <2>3, <2>7, <2>8
  <2>10. /\ page'[r].type = "branch" /\ page'[r].child = d
         /\ page'[r].last_modified_txid = page[r].last_modified_txid
         /\ page'[p].type = "leaf" /\ page'[p].last_modified_txid = update_tx.txid
         /\ \A k \in Leaves : k # l => page'[c[k]] = page[c[k]]
    BY <1>4, <2>3, <2>9 DEF BranchPages, LeafNode
  <2>11. Shaped(r)'
    <3>1. \A k \in Leaves : page'[d[k]].type = "leaf"
      BY <1>4, <2>6, <2>10 DEF LeafPages
    <3>2. QED
      BY <1>4, <2>6, <2>10, <3>1 DEF Shaped, IsTree
  <2>12. ASSUME NEW q \in TreePages(page', r)
         PROVE  \/ q = p
                \/ /\ q \in TreePages(page, r) \ {c[l]}
                   /\ page'[q].last_modified_txid = page[q].last_modified_txid
    <3>1. q = r \/ \E k \in Leaves : q = d[k]
      BY <2>10, <2>12 DEF TreePages
    <3>2. CASE q = r
      BY <1>4, <1>5, <2>10, <3>2
    <3>3. ASSUME NEW k \in Leaves, q = d[k], k # l
          PROVE  q \in TreePages(page, r) \ {c[l]} /\ page'[q] = page[q]
      BY <1>4, <1>5, <2>6, <2>10, <3>3 DEF Injective
    <3>4. QED
      BY <2>6, <3>1, <3>2, <3>3
  <2>13. ASSUME NEW root \in PageIds PROVE KeepsTree({p}, root)
    <3>1. CASE root = r
      BY <2>10, <2>11, <2>12, <3>1 DEF KeepsTree
    <3>2. ASSUME root # r, Shaped(root) PROVE KeepsTree({p}, root)
      <4>1. \A q \in TreePages(page, root) : q \in PageIds /\ q # r
        BY <1>4, <1>6, <3>2 DEF TreePages
      <4>2. \A q \in TreePages(page, root) : q \notin {p} => page'[q] = page[q]
        BY <2>9, <4>1
      <4>3. QED
        BY <4>2, Untouched
    <3>3. ~Shaped(root) => KeepsTree({p}, root)
      BY DEF KeepsTree
    <3>4. QED
      BY <3>1, <3>2, <3>3
  <2>14. Root' = r
    BY <2>4 DEF Root
  <2>15. NextTree({p}, {c[l]}) /\ {c[l]} \subseteq TreePages(page, Root)
    BY <1>2, <1>5, <2>10, <2>11, <2>12, <2>14 DEF NextTree
  <2>16. PutStep({p}, {c[l]})
    BY <2>1, <2>2, <2>4, <2>9, <2>13, <2>15 DEF PutStep
  <2>17. ~relinked' => ~(page[r].last_modified_txid < update_tx.txid)
    BY <1>1, <1>2, <1>4, <1>10 DEF Overwrites, PutCopyLeaf
  <2>18. {p} \in SUBSET PageIds /\ {c[l]} \in SUBSET PageIds
    BY <1>4
  <2>19. ASSUME ~relinked', NEW root \in PageIds PROVE SameOldTree({p}, root)
    <3>1. CASE Shaped(root)
      <4>1. \A y \in TreePages(page, root) : \/ y \in {p} \/ page'[y] = page[y]
                                             \/ ~(page[y].last_modified_txid < update_tx.txid)
        BY <1>6, <2>9, <2>17, <2>19, <3>1
      <4>2. QED
        BY <4>1, UntouchedOld
    <3>2. CASE ~Shaped(root)
      BY <3>2 DEF SameOldTree
    <3>3. QED
      BY <3>1, <3>2
  <2>20. QED
    BY <2>16, <2>18, <2>19
<1>11. CASE PutCopyPath(l, x)
  <2>1. PICK p \in PageIds, q \in PageIds :
           /\ Allocates(free_map, update_tx.page_count, p)
           /\ Allocates(free_map \ {p}, PageCountAfter(update_tx.page_count, p), q)
           /\ page' = [page EXCEPT ![p] = LeafNode(update_tx.txid, x),
                                   ![q] = BranchNode(update_tx.txid, [c EXCEPT ![l] = p])]
           /\ AllocAndFree({p, q}, {c[l], r})
           /\ update_tx' = [update_tx EXCEPT
                 !.user_root = q,
                 !.page_count = PageCountAfter(PageCountAfter(@, p), q)]
    BY <1>2, <1>4, <1>11 DEF PutCopyPath
  <2>2. PICK n : n = PageCountAfter(PageCountAfter(update_tx.page_count, p), q)
    OBVIOUS
  <2>3. /\ n \in 0 .. PageMaxCount /\ n >= update_tx.page_count /\ p < n /\ q < n
        /\ Fresh(p) /\ Fresh(q) /\ p # q
    <3>1. /\ PageCountAfter(update_tx.page_count, p) \in 0 .. PageMaxCount
          /\ PageCountAfter(update_tx.page_count, p) >= update_tx.page_count
          /\ n \in 0 .. PageMaxCount /\ n >= PageCountAfter(update_tx.page_count, p)
          /\ p < n /\ q < n /\ Fresh(p) /\ Fresh(q) /\ p # q
      BY <1>0, <1>1, <1>7, <2>1, <2>2, AllocOneOrTwo
    <3>2. QED
      BY <1>1, <3>1, ConstantsAssumption
  <2>4. p # r /\ q # r /\ \A k \in Leaves : p # c[k] /\ q # c[k]
    BY <1>8, <2>3
  <2>5. /\ update_tx' \in MetaStruct /\ update_tx'.txid = update_tx.txid
        /\ update_tx'.free_list_pgid = kPageInvalidId /\ update_tx'.user_root = q
        /\ update_tx'.page_count = n /\ n \in Nat
    <3>1. n \in Nat
      BY <2>3, ConstantsAssumption
    <3>2. QED
      BY <1>1, <2>1, <2>2, <2>3, <3>1 DEF MetaStruct
  <2>6. PICK d \in [Leaves -> PageIds] : d = [c EXCEPT ![l] = p]
    BY <1>4
  <2>7. Injective(d) /\ \A k \in Leaves : d[k] = IF k = l THEN p ELSE c[k]
    BY <1>4, <2>4, <2>6 DEF Injective
  <2>8. BranchNode(update_tx.txid, d) \in PageType /\ LeafNode(update_tx.txid, x) \in PageType
    BY <1>1, NodeTypes
  <2>9. /\ page' \in [PageIds -> PageType]
        /\ page'[p] = LeafNode(update_tx.txid, x)
        /\ page'[q] = BranchNode(update_tx.txid, d)
        /\ \A y \in PageIds \ {p, q} : page'[y] = page[y]
    BY <1>0, <2>1, <2>3, <2>6, <2>8
  <2>10. /\ page'[q].type = "branch" /\ page'[q].child = d
         /\ page'[q].last_modified_txid = update_tx.txid
         /\ page'[p].type = "leaf" /\ page'[p].last_modified_txid = update_tx.txid
         /\ \A k \in Leaves : page'[c[k]] = page[c[k]]
    BY <1>4, <2>4, <2>9 DEF BranchNode, LeafNode
  <2>11. Root' = q
    BY <2>5 DEF Root
  <2>12. Shaped(Root)'
    <3>1. \A k \in Leaves : page'[d[k]].type = "leaf"
      BY <1>4, <2>7, <2>10 DEF LeafPages
    <3>2. QED
      BY <2>7, <2>10, <2>11, <3>1 DEF Shaped, IsTree
  <2>13. ASSUME NEW y \in TreePages(page', q)
         PROVE  \/ y \in {p, q}
                \/ y \in TreePages(page, r) \ {c[l], r} /\ page'[y] = page[y]
    <3>1. y = q \/ \E k \in Leaves : y = d[k]
      BY <2>10, <2>13 DEF TreePages
    <3>2. ASSUME NEW k \in Leaves, y = d[k], k # l
          PROVE  y \in TreePages(page, r) \ {c[l], r} /\ page'[y] = page[y]
      BY <1>4, <1>5, <2>7, <2>10, <3>2 DEF Injective
    <3>3. QED
      BY <2>7, <3>1, <3>2
  <2>14. ASSUME NEW root \in PageIds PROVE KeepsTree({p, q}, root)
    <3>1. CASE Shaped(root)
      <4>1. \A y \in TreePages(page, root) : y \notin {p, q} => page'[y] = page[y]
        BY <1>6, <2>9, <3>1
      <4>2. QED
        BY <4>1, Untouched
    <3>2. CASE ~Shaped(root)
      BY <3>2 DEF KeepsTree
    <3>3. QED
      BY <3>1, <3>2
  <2>15. NextTree({p, q}, {c[l], r}) /\ {c[l], r} \subseteq TreePages(page, Root)
    BY <1>2, <1>5, <2>10, <2>11, <2>12, <2>13 DEF NextTree
  <2>16. PutStep({p, q}, {c[l], r})
    BY <2>1, <2>3, <2>5, <2>9, <2>14, <2>15 DEF PutStep
  <2>17. {p, q} \in SUBSET PageIds /\ {c[l], r} \in SUBSET PageIds
    BY <1>4
  <2>18. ASSUME NEW root \in PageIds PROVE SameOldTree({p, q}, root)
    <3>1. CASE Shaped(root)
      <4>1. \A y \in TreePages(page, root) : y \in {p, q} \/ page'[y] = page[y]
        BY <1>6, <2>9, <3>1
      <4>2. QED
        BY <4>1, UntouchedOld
    <3>2. CASE ~Shaped(root)
      BY <3>2 DEF SameOldTree
    <3>3. QED
      BY <3>1, <3>2
  <2>19. QED
    BY <2>16, <2>17, <2>18
<1>12. QED
  BY <1>1, <1>9, <1>10, <1>11 DEF Put

LEMMA WalPutKeeps ==
    ASSUME WalIInv, NEW l \in Leaves, NEW x \in Values, WalPut(l, x)
    PROVE  WalIInv'
<1> USE TopTypes, Consts
<1>0. WalTypeInv /\ TxInv /\ WalPagerInv /\ WalVersionInv /\ WalWriterInv
  BY DEF WalIInv
<1>1. /\ writer = "open" /\ writer' = "open" /\ meta' = meta /\ views' = views /\ dangling' = dangling
      /\ ~relinked' => ~relinked
  BY DEF WalPut, Put, metaVars
<1>2. PICK taken \in SUBSET PageIds, replaced \in SUBSET PageIds :
        /\ PutStep(taken, replaced)
        /\ ~relinked' => \A root \in PageIds : SameOldTree(taken, root)
  BY <1>0, PutEffect
<1>3. /\ update_tx.txid \in TxIds /\ update_tx.txid = meta.txid + 1
      /\ update_tx.page_count \in Nat /\ update_tx.page_count >= meta.page_count
      /\ meta.txid \in Nat /\ meta.page_count \in Nat /\ Top = update_tx /\ InTx
  BY <1>0, <1>1 DEF TxInv, Top, InTx
<1>4. /\ Top' = update_tx' /\ InTx' /\ OpenViews' = OpenViews
      /\ update_tx'.txid = update_tx.txid /\ update_tx'.page_count \in Nat
      /\ update_tx'.page_count >= update_tx.page_count
  BY <1>1, <1>2 DEF Top, InTx, OpenViews, PutStep
<1>5. /\ free_map' = free_map \ taken /\ alloc_records' = alloc_records \cup (taken \cap free_map)
      /\ \A t \in TxIds : pending_map'[t] = IF t = update_tx.txid THEN pending_map[t] \cup replaced
                                                                 ELSE pending_map[t]
  BY <1>0, <1>2, PendingAfter DEF PutStep, AllocAndFree
<1>6. \A p \in TreePages(page, Root) : p \in PageIds /\ WalOwned(p) /\ ~Fresh(p)
  <2>1. PICK root : root = Root
    OBVIOUS
  <2>2. Shaped(root) /\ \A p \in TreePages(page, root) : WalOwned(p)
    BY <1>0, <1>1, <2>1 DEF WalWriterInv
  <2>3. \A p \in TreePages(page, root) : p \in PageIds
    BY <1>0, <2>2, ShapedPages
  <2>4. QED
    BY <1>0, <1>1, <2>1, <2>2, <2>3, FreshApart
<1>7. \A p \in replaced : p \in TreePages(page, Root) /\ WalOwned(p) /\ ~Fresh(p)
  BY <1>2, <1>6 DEF PutStep
<1>8. ASSUME NEW p \in taken
      PROVE  /\ p < Top'.page_count /\ p \notin free_map' /\ p \in PageIds
             /\ \A t \in TxIds : p \notin pending_map'[t]
  <2>1. p \in PageIds /\ Fresh(p) /\ p < update_tx'.page_count
    BY <1>2, <1>8 DEF PutStep
  <2>2. \A t \in TxIds : p \notin pending_map[t]
    BY <1>0, <1>1, <2>1, FreshApart
  <2>3. p \notin replaced
    BY <1>7, <2>1
  <2>4. QED
    BY <1>4, <1>5, <1>8, <2>1, <2>2, <2>3
<1>9. WalTypeInv'
  <2>1. /\ free_map' \subseteq PageIds /\ alloc_records' \subseteq PageIds
        /\ pending_map' \in [TxIds -> SUBSET PageIds]
    BY <1>0, <1>2, <1>3, <1>5 DEF WalTypeInv, PutStep, AllocAndFree
  <2>2. relinked' \in BOOLEAN
    BY DEF WalPut
  <2>3. QED
    BY <1>0, <1>1, <1>2, <2>1, <2>2 DEF WalTypeInv, PutStep
<1>10. TxInv'
  <2>1. update_tx'.page_count >= meta'.page_count
    BY <1>1, <1>3, <1>4
  <2>2. QED
    BY <1>0, <1>1, <1>3, <1>4, <2>1 DEF TxInv
<1>11. WalPagerInv'
  BY <1>0, <1>1, <1>2, <1>4, <1>7, WalAllocPager DEF PutStep
<1>12. WalVersions' = WalVersions
  BY <1>1, <1>4 DEF WalVersions, ViewVersions, CommittedVersion
<1>13. ASSUME NEW v \in WalVersions PROVE Sound(v)'
  <2>1. /\ Sound(v) /\ Shaped(v.user_root) /\ v.user_root \in PageIds
        /\ v.txid \in Nat /\ v.txid <= meta.txid
    BY <1>0, <1>13, VersionTypes DEF WalVersionInv, Sound
  <2>2. \A p \in TreePages(page, v.user_root) :
           p \in PageIds /\ p \in Nat /\ WalKept(v, p) /\ page[p].last_modified_txid \in Nat
    BY <1>0, <1>13, <2>1, VersionPage
  <2>3. \A p \in TreePages(page, v.user_root) : ~Fresh(p) /\ p \notin taken
    BY <1>0, <1>1, <1>2, <2>2, FreshApart DEF PutStep
  <2>4. /\ Shaped(v.user_root)'
        /\ \A p \in TreePages(page', v.user_root) :
              \/ /\ p \in TreePages(page, v.user_root)
                 /\ page'[p].last_modified_txid = page[p].last_modified_txid
              \/ /\ p \in taken
                 /\ page'[p].last_modified_txid = update_tx.txid
    <3>1. KeepsTree(taken, v.user_root)
      BY <1>2, <2>1 DEF PutStep
    <3>2. QED
      BY <2>1, <2>3, <3>1 DEF KeepsTree
  <2>5. ~relinked' => TreePages(page', v.user_root) = TreePages(page, v.user_root)
    <3>1. SUFFICES ASSUME ~relinked'
                   PROVE  TreePages(page', v.user_root) = TreePages(page, v.user_root)
      OBVIOUS
    <3>2. \A p \in TreePages(page, v.user_root) : page[p].last_modified_txid <= meta.txid
      BY <1>1, <1>3, <2>2, <3>1 DEF WalKept
    <3>3. \A p \in TreePages(page, v.user_root) : page[p].last_modified_txid < update_tx.txid
      BY <1>3, <2>2, <3>2
    <3>4. SameOldTree(taken, v.user_root)
      BY <1>2, <2>1, <3>1
    <3>5. QED
      BY <2>1, <2>3, <3>3, <3>4 DEF SameOldTree
  <2>6. ASSUME NEW p \in TreePages(page, v.user_root),
               page'[p].last_modified_txid = page[p].last_modified_txid
        PROVE  WalKept(v, p)'
    <3>1. /\ p < update_tx.page_count /\ page[p].last_modified_txid <= update_tx.txid
          /\ p \notin free_map /\ \A t \in TxIds : p \in pending_map[t] => t > v.txid
          /\ ~relinked => /\ p < meta.page_count /\ p \notin alloc_records
                          /\ page[p].last_modified_txid <= meta.txid
          /\ p \in Nat /\ p \notin taken
      BY <1>3, <2>2, <2>3, <2>6 DEF WalKept
    <3>2. p < Top'.page_count /\ page'[p].last_modified_txid <= Top'.txid
      BY <1>3, <1>4, <2>6, <3>1
    <3>3. update_tx.txid > v.txid
      BY <1>3, <2>1
    <3>4. p \notin free_map' /\ \A t \in TxIds : p \in pending_map'[t] => t > v.txid
      BY <1>5, <3>1, <3>3
    <3>5. InTx' /\ ~relinked' => /\ p < meta'.page_count /\ p \notin alloc_records'
                                 /\ page'[p].last_modified_txid <= meta'.txid
      BY <1>1, <1>5, <2>6, <3>1
    <3>6. QED
      BY <3>2, <3>4, <3>5 DEF WalKept
  <2>7. ASSUME NEW p \in TreePages(page', v.user_root), p \in taken,
               page'[p].last_modified_txid = update_tx.txid
        PROVE  WalKept(v, p)'
    <3>1. relinked'
      BY <2>3, <2>5, <2>7
    <3>2. page'[p].last_modified_txid <= Top'.txid
      BY <1>3, <1>4, <2>7
    <3>3. QED
      BY <1>8, <2>7, <3>1, <3>2 DEF WalKept
  <2>8. QED
    BY <2>4, <2>6, <2>7 DEF Sound
<1>14. WalVersionInv'
  BY <1>1, <1>12, <1>13 DEF WalVersionInv
<1>15. WalWriterInv'
  <2>1. NextTree(taken, replaced)
    BY <1>2 DEF PutStep
  <2>2. ASSUME NEW p \in TreePages(page, Root), p \notin replaced,
               page'[p].last_modified_txid = page[p].last_modified_txid
        PROVE  WalOwned(p)'
    <3>1. /\ p \in Nat /\ p < update_tx.page_count /\ page[p].last_modified_txid <= update_tx.txid
          /\ p \notin free_map /\ \A t \in TxIds : p \notin pending_map[t]
      BY <1>3, <1>6, <2>2 DEF WalOwned
    <3>2. p < Top'.page_count /\ page'[p].last_modified_txid <= Top'.txid
      BY <1>3, <1>4, <2>2, <3>1
    <3>3. QED
      BY <1>5, <2>2, <3>1, <3>2 DEF WalOwned
  <2>3. ASSUME NEW p \in taken, page'[p].last_modified_txid = update_tx.txid PROVE WalOwned(p)'
    <3>1. page'[p].last_modified_txid <= Top'.txid
      BY <1>3, <1>4, <2>3
    <3>2. QED
      BY <1>8, <2>3, <3>1 DEF WalOwned
  <2>4. QED
    BY <2>1, <2>2, <2>3 DEF WalWriterInv, NextTree
<1>16. QED
  BY <1>9, <1>10, <1>11, <1>14, <1>15 DEF WalIInv

-----------------------------------------------------------------------------

LEMMA WalStutter == WalIInv /\ UNCHANGED walVars => WalIInv'
<1> SUFFICES ASSUME WalIInv, UNCHANGED walVars PROVE WalIInv'
  OBVIOUS
<1>1. /\ writer' = writer /\ meta' = meta /\ update_tx' = update_tx /\ views' = views
      /\ free_map' = free_map /\ pending_map' = pending_map /\ alloc_records' = alloc_records
      /\ page' = page /\ relinked' = relinked /\ dangling' = dangling
  BY DEF walVars, vars
<1>2. InTx' = InTx /\ Top' = Top /\ Root' = Root /\ OpenViews' = OpenViews
  BY <1>1 DEF InTx, Top, Root, OpenViews
<1>3. WalTypeInv' /\ TxInv' /\ WalPagerInv'
  BY <1>1, <1>2 DEF WalIInv, WalTypeInv, TxInv, WalPagerInv
<1>4. WalVersions' = WalVersions /\ \A v : Sound(v) => Sound(v)'
  BY <1>1, <1>2, StillSound DEF WalVersions, ViewVersions, CommittedVersion, pagerVars
<1>5. WalVersionInv' /\ WalWriterInv'
  BY <1>1, <1>2, <1>4 DEF WalIInv, WalVersionInv, WalWriterInv, WalOwned, Shaped
<1>6. QED
  BY <1>3, <1>5 DEF WalIInv

\* In kWal mode, with a checkpoint at any commit or rollback, the types, the
\* pager's lists, the versions that can be read and the writer's tree stay
\* consistent until a rollback leaves a committed root, which CopyNeeded let the
\* writer overwrite, with a child it gave back.
THEOREM WalInvariance == WalSpec => []WalInv
<1>1. WalIInv /\ ~dangling' /\ [WalNext]_walVars => WalIInv'
  <2> SUFFICES ASSUME WalIInv, ~dangling', [WalNext]_walVars PROVE WalIInv'
    OBVIOUS
  <2>1. CASE Update /\ relinked' = FALSE /\ UNCHANGED dangling
    BY <2>1, UpdateKeeps
  <2>2. CASE \E l \in Leaves, v \in Values : WalPut(l, v)
    BY <2>2, WalPutKeeps
  <2>3. CASE /\ RollBack \/ RollBackAfterCheckpoint
             /\ dangling' = (dangling \/ relinked)
             /\ UNCHANGED relinked
    BY <2>3, RollBackKeeps
  <2>4. CASE /\ \/ \E r \in Readers : View(r) \/ RollBackView(r)
                \/ CommitToLog
                \/ Commit
                \/ WriteAllDirtyPages
                \/ CheckpointSave
                \/ CheckpointInRollBack
             /\ UNCHANGED <<relinked, dangling>>
    BY <2>4, ViewKeeps, CommitToLogKeeps, CheckpointKeeps, WriteAllKeeps, CheckpointSaveKeeps
  <2>5. CASE UNCHANGED walVars
    BY <2>5, WalStutter
  <2>6. QED
    BY <2>1, <2>2, <2>3, <2>4, <2>5 DEF WalNext
<1>2. dangling /\ [WalNext]_walVars => dangling'
  BY DEF WalNext, walVars, WalPut
<1>3. WalInv /\ [WalNext]_walVars => WalInv'
  BY <1>1, <1>2 DEF WalInv
<1>4. WalInit => WalInv
  BY WalInitInv DEF WalInv
<1>5. QED
  BY <1>3, <1>4, PTL DEF WalSpec

\* Until then no page that an open view reaches is free, or pending for a
\* transaction the view saw, although CopyNeeded lets the writer change pages
\* under the view and checkpoints move persisted_txid_ at any moment.
THEOREM ViewPagesNotFreeHolds == WalSpec => []ViewPagesNotFree
<1>1. WalIInv => \A v \in ViewVersions :
        /\ IsTree(page, v.user_root)
        /\ \A p \in TreePages(page, v.user_root) :
              /\ p \notin free_map
              /\ \A t \in TxIds : p \in pending_map[t] => t > v.txid
  BY DEF WalIInv, WalVersionInv, WalVersions, Sound, Shaped, WalKept
<1>2. WalInv => ViewPagesNotFree
  BY <1>1 DEF WalInv, ViewPagesNotFree
<1>3. QED
  BY <1>2, WalInvariance, PTL

\* Until then free map and pending lists stay disjoint in kWal mode, also when a
\* checkpoint saves the free list of a transaction that is being rolled back
\* (Pager::SaveFreeList, Pager::Rollback).
THEOREM WalNoDoubleFreeHolds == WalSpec => []WalNoDoubleFree
<1>1. WalIInv => NoDoubleFree
  BY DEF WalIInv, WalPagerInv, NoDoubleFree
<1>2. WalInv => WalNoDoubleFree
  BY <1>1 DEF WalInv, WalNoDoubleFree
<1>3. QED
  BY <1>2, WalInvariance, PTL
=============================================================================
