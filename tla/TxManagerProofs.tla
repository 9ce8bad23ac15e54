-------------------------- MODULE TxManagerProofs --------------------------
(* Proofs about TxManager for every set of readers, leaves and values and   *)
(* every bound: IInv is inductive, and the safety properties follow.        *)
EXTENDS TxManagerInv, FiniteSetTheorems, TLAPS

LEMMA Consts ==
    /\ InitPageCount \in Nat /\ InitPageCount >= 3
    /\ InitTxId \in TxIds /\ InitTxId - 1 \in TxIds
    /\ InitRoot \in PageIds
    /\ \A p \in InitRoot .. (InitPageCount - 1) : p \in PageIds
    /\ kTxInvalidId \in Nat /\ kTxInvalidId \notin TxIds
    /\ kPageInvalidId \in Nat /\ kPageInvalidId \notin PageIds
    /\ NoWork \in [Leaves -> Values]
    /\ \A p \in PageIds : p \in Nat
    /\ \A t \in TxIds : t \in Nat /\ t < kTxInvalidId
<1>1. Cardinality(Leaves) \in Nat
  BY FS_CardinalityType, ConstantsAssumption
<1>2. QED
  BY <1>1, ConstantsAssumption
  DEF InitPageCount, kPageInitCount, InitTxId, TxIds, InitRoot, PageIds, kTxInvalidId,
      kPageInvalidId, NoWork

\* The members of PageType, told apart by their type field.
LEMMA LeafPage ==
    ASSUME NEW x \in PageType, x.type = "leaf"
    PROVE  x \in [type : {"leaf"}, last_modified_txid : TxIds, value : Values]
  BY DEF PageType, BlankPage

LEMMA BranchPage ==
    ASSUME NEW x \in PageType, x.type = "branch"
    PROVE  x \in [type : {"branch"}, last_modified_txid : TxIds, child : [Leaves -> PageIds]]
  BY DEF PageType, BlankPage

LEMMA NodeTypes ==
    ASSUME NEW t \in TxIds
    PROVE  /\ \A v \in Values : LeafNode(t, v) \in PageType
           /\ \A c \in [Leaves -> PageIds] : BranchNode(t, c) \in PageType
           /\ \A S \in SUBSET PageIds : FreeListPage(S) \in PageType
           /\ BlankPage \in PageType
  BY DEF PageType, LeafNode, BranchNode, FreeListPage, BlankPage

-----------------------------------------------------------------------------

LEMMA InitTypeInv == Init => TypeInv
<1> SUFFICES ASSUME Init PROVE TypeInv
  OBVIOUS
<1> USE Consts
<1>1. InitMeta(InitTxId) \in MetaStruct /\ InitMeta(InitTxId - 1) \in MetaStruct
  BY ConstantsAssumption DEF InitMeta, MetaStruct
<1>2. slots \in [{0, 1} -> [meta : MetaStruct, crc : {"good", "bad"}]]
  BY <1>1 DEF Init, Slot
<1>3. page \in [PageIds -> PageType]
  <2>1. PICK c \in [Leaves -> (InitRoot + 1) .. (InitPageCount - 1)] : page = InitPage(c)
    BY DEF Init
  <2>2. c \in [Leaves -> PageIds]
    BY Consts DEF InitRoot, kPageInitCount
  <2>3. /\ BranchNode(InitTxId - 1, c) \in PageType
        /\ LeafNode(InitTxId - 1, InitVal) \in PageType
        /\ BlankPage \in PageType
    BY <2>2, NodeTypes, ConstantsAssumption
  <2>4. QED
    BY <2>1, <2>3 DEF InitPage
<1>4. TypeOK
  <2>1. NoView \in {NoView} /\ 0 \in Nat
    OBVIOUS
  <2>2. QED
    BY <1>1, <1>2, <1>3 DEF Init, TypeOK
<1>5. \A i \in {0, 1} : slots[i].meta.free_list_pgid = kPageInvalidId
  BY DEF Init, Slot, InitMeta
<1>6. QED
  BY <1>4, <1>5 DEF Init, TypeInv, InitMeta

\* A pair of meta pages of the right type that refers to no free list.
SlotPairs ==
    {s \in [{0, 1} -> [meta : MetaStruct, crc : {"good", "bad"}]] :
        \A i \in {0, 1} : s[i].meta.free_list_pgid = kPageInvalidId}

LEMMA OpenTypeInv ==
    ASSUME NEW s \in SlotPairs, NEW pg \in [PageIds -> PageType], Open(s, pg),
           disk' \in [PageIds -> PageType],
           committed' \in [TxIds -> [Leaves -> Values]], acked' \in TxIds, crashes' \in Nat
    PROVE  TypeInv'
<1> USE Consts
<1>1. LoadIndex(s) \in {0, 1}
  BY DEF LoadIndex, Newer
<1>2. /\ s[LoadIndex(s)].meta \in MetaStruct
      /\ s[LoadIndex(s)].meta.free_list_pgid = kPageInvalidId
  BY <1>1 DEF SlotPairs
<1>3. free_map' = {}
  BY <1>2 DEF Open, LoadFreeList
<1>4. s[LoadIndex(s)].meta.txid \in TxIds
  BY <1>2 DEF MetaStruct
<1>5. TypeOK'
  BY <1>1, <1>2, <1>3, <1>4 DEF Open, TypeOK, SlotPairs
<1>6. QED
  BY <1>1, <1>2, <1>5 DEF Open, TypeInv, SlotPairs

\* Pager::Alloc returns a page, and the page count stays within its bound.
LEMMA AllocTypes ==
    ASSUME TypeOK, NEW f \in SUBSET PageIds, NEW n \in 0 .. PageMaxCount,
           NEW p \in PageIds, Allocates(f, n, p), f \subseteq free_map
    PROVE  PageCountAfter(n, p) \in 0 .. PageMaxCount
  BY Consts, ConstantsAssumption DEF Allocates, PageCountAfter, PageIds

\* SaveFreeList, when the meta refers to no old free list: nothing to save, or
\* one page p taken for the list S.
LEMMA SaveFreeListCases ==
    ASSUME free_map \subseteq PageIds, pending_map \in [TxIds -> SUBSET PageIds],
           update_tx.free_list_pgid = kPageInvalidId, SaveFreeList
    PROVE  \/ /\ update_tx' = [update_tx EXCEPT !.free_list_pgid = update_tx.page_count]
              /\ UNCHANGED <<pagerVars, page>>
           \/ \E p \in PageIds, S \in SUBSET PageIds :
                /\ Allocates(free_map, update_tx.page_count, p)
                /\ AllocAndFree({p}, {})
                /\ page' = [page EXCEPT ![p] = FreeListPage(S)]
                /\ update_tx' = [update_tx EXCEPT
                      !.free_list_pgid = p, !.page_count = PageCountAfter(@, p)]
<1> DEFINE freed   == {update_tx.free_list_pgid} \ {kPageInvalidId}
           pending == [pending_map EXCEPT ![update_tx.txid] = @ \cup freed]
<1>1. freed = {}
  OBVIOUS
<1>2. AllPending(pending) \subseteq PageIds
  BY <1>1 DEF AllPending
<1>3. CASE free_map = {} /\ AllPending(pending) = {}
  BY <1>3 DEF SaveFreeList
<1>4. CASE ~(free_map = {} /\ AllPending(pending) = {})
  <2>1. PICK p \in PageIds :
           /\ Allocates(free_map, update_tx.page_count, p)
           /\ AllocAndFree({p}, freed)
           /\ page' = [page EXCEPT ![p] =
                 FreeListPage((free_map \ {p}) \cup AllPending(pending))]
           /\ update_tx' = [update_tx EXCEPT
                 !.free_list_pgid = p, !.page_count = PageCountAfter(@, p)]
    BY <1>4 DEF SaveFreeList
  <2>2. (free_map \ {p}) \cup AllPending(pending) \in SUBSET PageIds
    BY <1>2
  <2> HIDE DEF pending, freed
  <2>3. QED
    BY <1>1, <2>1, <2>2
<1>5. QED
  BY <1>3, <1>4

BranchPages == [type : {"branch"}, last_modified_txid : TxIds, child : [Leaves -> PageIds]]
LeafPages   == [type : {"leaf"}, last_modified_txid : TxIds, value : Values]

\* What IsTree says of typed pages.
LEMMA TreeTypes ==
    ASSUME NEW pg \in [PageIds -> PageType], NEW root, IsTree(pg, root)
    PROVE  /\ root \in PageIds
           /\ pg[root] \in BranchPages
           /\ pg[root].child \in [Leaves -> PageIds]
           /\ \A l \in Leaves : /\ pg[root].child[l] \in PageIds
                                /\ pg[root].child[l] # root
                                /\ pg[pg[root].child[l]] \in LeafPages
<1>1. root \in PageIds /\ pg[root] \in BranchPages
  BY BranchPage DEF IsTree, BranchPages
<1>2. pg[root].child \in [Leaves -> PageIds] /\ pg[root].type = "branch"
  BY <1>1 DEF BranchPages
<1>3. \A l \in Leaves : pg[pg[root].child[l]] \in LeafPages
  BY <1>2, LeafPage DEF IsTree, LeafPages
<1>4. \A l \in Leaves : pg[pg[root].child[l]].type = "leaf"
  BY DEF IsTree
<1>5. QED
  BY <1>1, <1>2, <1>3, <1>4

LEMMA WriterTree ==
    ASSUME TypeInv, WriterInv, writer # "idle"
    PROVE  /\ Root \in PageIds
           /\ page[Root] \in BranchPages
           /\ page[Root].child \in [Leaves -> PageIds]
           /\ \A l \in Leaves : /\ Leaf(l) \in PageIds
                                /\ Leaf(l) # Root
                                /\ page[Leaf(l)] \in LeafPages
  BY TreeTypes DEF TypeInv, TypeOK, WriterInv, Leaf

\* A page Pager::Alloc returns is not in the writer's tree.
LEMMA AllocFresh ==
    ASSUME TypeInv, WriterInv, writer = "open", NEW p \in PageIds,
           Allocates(free_map, update_tx.page_count, p)
    PROVE  p # Root /\ \A l \in Leaves : p # Leaf(l)
  BY Consts, WriterTree DEF Allocates, WriterInv, Owned, Leaf, TypeInv, MetaStruct

LEMMA TypeStep == TypeInv /\ WriterInv /\ [Next]_vars => TypeInv'
<1> SUFFICES ASSUME TypeInv, WriterInv, [Next]_vars PROVE TypeInv'
  OBVIOUS
<1> USE Consts
<1>0. TypeOK
  BY DEF TypeInv
<1>1. CASE Update
  <2>0. meta \in MetaStruct /\ meta.txid + 1 \in TxIds
    <3>1. meta \in MetaStruct /\ meta.txid \in TxIds /\ meta.txid < MaxTxId
      BY <1>0, <1>1 DEF TypeOK, Update, MetaStruct
    <3>2. QED
      BY <3>1, ConstantsAssumption DEF TxIds
  <2>1. update_tx' \in MetaStruct
    BY <2>0, <1>1 DEF Update, MetaStruct
  <2>2. /\ free_map' \subseteq PageIds
        /\ pending_map' \in [TxIds -> SUBSET PageIds]
        /\ min_view_txid' \in TxIds
    BY <1>0, <1>1 DEF TypeOK, Update
  <2>3. work' \in [Leaves -> Values]
    BY <1>0, <1>1 DEF TypeOK, Update, MetaStruct
  <2>4. TypeOK'
    BY <1>0, <1>1, <2>1, <2>2, <2>3 DEF TypeOK, Update, metaVars
  <2>5. update_tx'.free_list_pgid = kPageInvalidId
    BY <1>0, <1>1 DEF TypeInv, Update, TypeOK, MetaStruct
  <2>6. QED
    BY <1>1, <2>1, <2>4, <2>5 DEF TypeInv, Update, metaVars
<1>2. ASSUME NEW r \in Readers, View(r) PROVE TypeInv'
  <2>1. TypeOK'
    BY <1>0, <1>2 DEF TypeOK, View, metaVars, pagerVars, MetaStruct
  <2>2. QED
    BY <1>2, <2>1 DEF TypeInv, View, metaVars, pagerVars
<1>3. ASSUME NEW r \in Readers, RollBackView(r) PROVE TypeInv'
  <2>1. TypeOK'
    BY <1>0, <1>3 DEF TypeOK, RollBackView, metaVars, pagerVars
  <2>2. QED
    BY <1>3, <2>1 DEF TypeInv, RollBackView, metaVars, pagerVars
<1>4. CASE RollBack
  <2>1. TypeOK'
    BY <1>0, <1>4 DEF TypeOK, RollBack, PagerRollback, metaVars
  <2>2. QED
    BY <1>4, <2>1 DEF TypeInv, RollBack, metaVars
<1>5. ASSUME NEW l \in Leaves, NEW v \in Values, Put(l, v) PROVE TypeInv'
  <2>0. /\ Root \in PageIds
        /\ page[Root] \in BranchPages
        /\ page[Root].child \in [Leaves -> PageIds]
        /\ Leaf(l) \in PageIds
        /\ page[Leaf(l)] \in LeafPages
    BY <1>5, WriterTree DEF Put
  <2>1. /\ update_tx \in MetaStruct
        /\ update_tx.free_list_pgid = kPageInvalidId
    BY <1>5 DEF TypeInv, Put
  <2>2. /\ update_tx' \in MetaStruct
        /\ update_tx'.free_list_pgid = kPageInvalidId
        /\ free_map' \subseteq PageIds
        /\ pending_map' \in [TxIds -> SUBSET PageIds]
        /\ alloc_records' \subseteq PageIds
        /\ page' \in [PageIds -> PageType]
    <3>1. CASE PutInPlace(l, v)
      <4>1. page' = [page EXCEPT ![Leaf(l)].value = v]
        BY <3>1 DEF PutInPlace
      <4>2. [page[Leaf(l)] EXCEPT !.value = v] \in PageType
        BY <2>0 DEF PageType, LeafPages
      <4>3. page' \in [PageIds -> PageType]
        BY <1>0, <2>0, <4>1, <4>2 DEF TypeOK
      <4>4. QED
        BY <1>0, <2>1, <3>1, <4>3 DEF PutInPlace, TypeOK, pagerVars
    <3>2. CASE PutCopyLeaf(l, v)
      <4>1. PICK p \in PageIds :
                /\ Allocates(free_map, update_tx.page_count, p)
                /\ page' = [page EXCEPT ![p] = LeafNode(update_tx.txid, v), ![Root].child[l] = p]
                /\ AllocAndFree({p}, {Leaf(l)})
                /\ update_tx' = [update_tx EXCEPT !.page_count = PageCountAfter(@, p)]
        BY <3>2 DEF PutCopyLeaf
      <4>2. p # Root => [page[Root] EXCEPT !.child[l] = p] \in PageType
        BY <2>0 DEF PageType, BranchPages
      <4>3. CASE p # Root
        <5>1. page' \in [PageIds -> PageType]
          BY <1>0, <2>0, <2>1, <4>1, <4>2, <4>3, NodeTypes DEF TypeOK, MetaStruct
        <5>2. update_tx' \in MetaStruct /\ update_tx'.free_list_pgid = kPageInvalidId
          BY <1>0, <2>1, <4>1, AllocTypes DEF TypeOK, MetaStruct
        <5>3. QED
          BY <1>0, <2>0, <2>1, <4>1, <5>1, <5>2 DEF TypeOK, AllocAndFree, MetaStruct
      <4>4. QED
        BY <1>5, <4>1, <4>3, AllocFresh DEF Put
    <3>3. CASE PutCopyPath(l, v)
      <4>1. PICK p \in PageIds, q \in PageIds :
                /\ Allocates(free_map, update_tx.page_count, p)
                /\ Allocates(free_map \ {p}, PageCountAfter(update_tx.page_count, p), q)
                /\ page' = [page EXCEPT ![p] = LeafNode(update_tx.txid, v),
                                        ![q] = BranchNode(update_tx.txid,
                                                  [page[Root].child EXCEPT ![l] = p])]
                /\ AllocAndFree({p, q}, {Leaf(l), Root})
                /\ update_tx' = [update_tx EXCEPT
                      !.user_root = q,
                      !.page_count = PageCountAfter(PageCountAfter(@, p), q)]
        BY <3>3 DEF PutCopyPath
      <4>2. /\ LeafNode(update_tx.txid, v) \in PageType
            /\ BranchNode(update_tx.txid, [page[Root].child EXCEPT ![l] = p]) \in PageType
        BY <2>0, <2>1, NodeTypes DEF MetaStruct
      <4>3. page' \in [PageIds -> PageType]
        BY <1>0, <4>1, <4>2 DEF TypeOK
      <4>4. PageCountAfter(PageCountAfter(update_tx.page_count, p), q) \in 0 .. PageMaxCount
        <5>1. PageCountAfter(update_tx.page_count, p) \in 0 .. PageMaxCount
          BY <1>0, <2>1, <4>1, AllocTypes DEF TypeOK, MetaStruct
        <5>2. QED
          BY <1>0, <4>1, <5>1, AllocTypes DEF TypeOK
      <4>5. update_tx' \in MetaStruct /\ update_tx'.free_list_pgid = kPageInvalidId
        BY <2>1, <4>1, <4>4 DEF MetaStruct
      <4>6. QED
        BY <1>0, <2>0, <2>1, <4>1, <4>3, <4>5 DEF TypeOK, AllocAndFree, MetaStruct
    <3>4. QED
      BY <1>5, <3>1, <3>2, <3>3 DEF Put
  <2>3. work' \in [Leaves -> Values]
    BY <1>0, <1>5 DEF TypeOK, Put
  <2>4. TypeOK'
    BY <1>0, <1>5, <2>2, <2>3 DEF TypeOK, Put, metaVars
  <2>5. QED
    BY <1>5, <2>2, <2>4 DEF TypeInv, Put, metaVars
<1>6. CASE Commit
  <2>1. /\ update_tx \in MetaStruct
        /\ update_tx.free_list_pgid = kPageInvalidId
    BY <1>6 DEF TypeInv, Commit
  <2> DEFINE Good == /\ update_tx' \in MetaStruct
                     /\ free_map' \subseteq PageIds
                     /\ pending_map' \in [TxIds -> SUBSET PageIds]
                     /\ alloc_records' \subseteq PageIds
                     /\ page' \in [PageIds -> PageType]
  <2>2. Good
    <3>1. CASE UNCHANGED <<pagerVars, page>> /\ update_tx' = [update_tx EXCEPT !.free_list_pgid = update_tx.page_count]
      <4>1. update_tx.page_count \in PageIds \cup {kPageInvalidId}
        BY <2>1, ConstantsAssumption DEF MetaStruct, PageIds, kPageInvalidId
      <4>2. update_tx' \in MetaStruct
        BY <2>1, <3>1, <4>1 DEF MetaStruct
      <4>3. QED
        BY <1>0, <3>1, <4>2 DEF TypeOK, pagerVars
    <3>2. ASSUME NEW p \in PageIds, NEW S \in SUBSET PageIds,
                 Allocates(free_map, update_tx.page_count, p),
                 AllocAndFree({p}, {}),
                 page' = [page EXCEPT ![p] = FreeListPage(S)],
                 update_tx' = [update_tx EXCEPT
                      !.free_list_pgid = p, !.page_count = PageCountAfter(@, p)]
          PROVE  Good
      <4>1. page' \in [PageIds -> PageType]
        BY <1>0, <2>1, <3>2, NodeTypes DEF TypeOK, MetaStruct
      <4>2. update_tx' \in MetaStruct
        BY <1>0, <2>1, <3>2, AllocTypes DEF TypeOK, MetaStruct
      <4>3. QED
        BY <1>0, <2>1, <3>2, <4>1, <4>2 DEF TypeOK, AllocAndFree, MetaStruct
    <3>3. QED
      BY <1>0, <1>6, <2>1, <3>1, <3>2, SaveFreeListCases DEF Commit, TypeOK
  <2>3. committed' \in [TxIds -> [Leaves -> Values]]
    BY <1>0, <1>6 DEF TypeOK, Commit
  <2>4. TypeOK'
    BY <1>0, <1>6, <2>1, <2>2, <2>3 DEF TypeOK, Commit
  <2>5. QED
    BY <1>6, <2>1, <2>2, <2>4 DEF TypeInv, Commit
<1>7. CASE WriteAllDirtyPages
  <2>1. TypeOK'
    BY <1>0, <1>7 DEF TypeOK, WriteAllDirtyPages, metaVars, pagerVars
  <2>2. QED
    BY <1>7, <2>1 DEF TypeInv, WriteAllDirtyPages, metaVars, pagerVars
<1>8. CASE SwitchAndSave
  <2>1. TypeOK'
    BY <1>0, <1>8 DEF TypeOK, SwitchAndSave, Slot, pagerVars, MetaStruct
  <2>2. QED
    BY <1>0, <1>8, <2>1 DEF TypeInv, TypeOK, SwitchAndSave, Slot, pagerVars
<1>9. CASE CloseAndOpen
  <2> DEFINE cut(pg) == [p \in PageIds |-> IF p < meta.page_count THEN pg[p] ELSE BlankPage]
  <2>1. Open(slots, cut(page)) /\ disk' = cut(disk)
    BY <1>9 DEF CloseAndOpen
  <2>2. cut(page) \in [PageIds -> PageType] /\ cut(disk) \in [PageIds -> PageType]
    BY <1>0, NodeTypes DEF TypeOK
  <2>3. slots \in SlotPairs
    BY <1>0 DEF TypeOK, TypeInv, SlotPairs
  <2> HIDE DEF cut
  <2>4. QED
    BY <1>0, <1>9, <2>1, <2>2, <2>3, OpenTypeInv DEF CloseAndOpen, TypeOK
<1>10. CASE Crash
  <2>1. PICK s \in SlotsAfterCrash, lost \in SUBSET {p \in PageIds : page[p] # disk[p]} :
            LET left == [p \in PageIds |-> IF p \in lost THEN disk[p] ELSE page[p]]
            IN  Open(s, left) /\ disk' = left
    BY <1>10 DEF Crash
  <2> DEFINE left == [p \in PageIds |-> IF p \in lost THEN disk[p] ELSE page[p]]
  <2>2. left \in [PageIds -> PageType]
    BY <1>0 DEF TypeOK
  <2>3. s \in SlotPairs
    <3>1. slots \in SlotPairs
      BY <1>0 DEF TypeOK, TypeInv, SlotPairs
    <3>2. \A m \in MetaStruct, c \in {"good", "bad"} :
             m.free_list_pgid = kPageInvalidId =>
                [slots EXCEPT ![1 - cur_meta_index] = Slot(m, c)] \in SlotPairs
      BY <1>0, <3>1 DEF SlotPairs, Slot, TypeOK
    <3>3. meta \in MetaStruct /\ meta.free_list_pgid = kPageInvalidId
      BY <1>0 DEF TypeOK, TypeInv
    <3>4. slots[1 - cur_meta_index].meta \in MetaStruct
          /\ slots[1 - cur_meta_index].meta.free_list_pgid = kPageInvalidId
      BY <1>0, <3>1 DEF TypeOK, SlotPairs
    <3>5. QED
      BY <2>1, <3>1, <3>2, <3>3, <3>4 DEF SlotsAfterCrash
  <2> HIDE DEF left
  <2>4. disk' = left /\ Open(s, left)
    BY <2>1 DEF left
  <2>5. QED
    BY <1>0, <1>10, <2>2, <2>3, <2>4, OpenTypeInv DEF Crash, TypeOK
<1>11. CASE UNCHANGED vars
  BY <1>11 DEF TypeInv, TypeOK, vars
<1>12. QED
  BY <1>1, <1>2, <1>3, <1>4, <1>5, <1>6, <1>7, <1>8, <1>9, <1>10, <1>11 DEF Next

-----------------------------------------------------------------------------
(* The meta pages.                                                          *)

LEMMA SlotTypes ==
    ASSUME TypeInv
    PROVE  /\ cur_meta_index \in {0, 1} /\ 1 - cur_meta_index \in {0, 1}
           /\ 1 - cur_meta_index # cur_meta_index
           /\ 1 - (1 - cur_meta_index) = cur_meta_index
           /\ meta \in MetaStruct /\ meta.txid \in Nat /\ meta.page_count \in Nat
           /\ CurSlot.meta \in MetaStruct /\ CurSlot.meta.txid \in Nat /\ CurSlot.meta.page_count \in Nat
           /\ OtherSlot.meta \in MetaStruct /\ OtherSlot.meta.txid \in Nat
           /\ OtherSlot.crc \in {"good", "bad"}
<1>1. cur_meta_index \in {0, 1} /\ 1 - cur_meta_index \in {0, 1}
  BY DEF TypeInv, TypeOK
<1>2. meta \in MetaStruct /\ CurSlot.meta \in MetaStruct /\ OtherSlot.meta \in MetaStruct
      /\ OtherSlot.crc \in {"good", "bad"}
  BY <1>1 DEF TypeInv, TypeOK, CurSlot, OtherSlot
<1>3. QED
  BY <1>1, <1>2, Consts DEF MetaStruct

\* What DB::Open finds after a crash: the current meta page, or the one that
\* the interrupted Save had completed.
LEMMA CrashSlots ==
    ASSUME TypeInv, SlotInv, NEW s \in SlotsAfterCrash
    PROVE  /\ s[cur_meta_index] = CurSlot
           /\ \/ /\ LoadIndex(s) = cur_meta_index
                 /\ s[1 - cur_meta_index].crc = "good" => s[1 - cur_meta_index] = OtherSlot
              \/ /\ writer = "save"
                 /\ LoadIndex(s) = 1 - cur_meta_index
                 /\ s[1 - cur_meta_index] = Slot(meta, "good")
<1> USE SlotTypes
<1> DEFINE o == 1 - cur_meta_index
<1>1. CurSlot.crc = "good" /\ (OtherSlot.crc = "good" => OtherSlot.meta.txid < CurSlot.meta.txid)
  BY DEF SlotInv
<1>2. CASE s = slots
  <2>1. s[cur_meta_index] = CurSlot /\ s[o] = OtherSlot
    BY <1>2 DEF CurSlot, OtherSlot
  <2>2. LoadIndex(s) = cur_meta_index
    BY <1>1, <2>1 DEF LoadIndex, Newer
  <2>3. QED
    BY <2>1, <2>2
<1>3. ASSUME writer = "save", NEW x, s = [slots EXCEPT ![o] = x],
             x = Slot(meta, "bad") \/ x = Slot(OtherSlot.meta, "bad")
      PROVE  /\ s[cur_meta_index] = CurSlot
             /\ LoadIndex(s) = cur_meta_index
             /\ s[o].crc # "good"
  <2>1. s[cur_meta_index] = CurSlot /\ s[o] = x
    BY <1>3 DEF CurSlot, TypeInv, TypeOK
  <2>2. s[o].crc = "bad"
    BY <1>3, <2>1 DEF Slot
  <2>3. LoadIndex(s) = cur_meta_index
    BY <1>1, <2>1, <2>2 DEF LoadIndex, Newer
  <2>4. QED
    BY <2>1, <2>2, <2>3
<1>4. ASSUME writer = "save", s = [slots EXCEPT ![o] = Slot(meta, "good")]
      PROVE  /\ s[cur_meta_index] = CurSlot
             /\ LoadIndex(s) = o
             /\ s[o] = Slot(meta, "good")
  <2>1. s[cur_meta_index] = CurSlot /\ s[o] = Slot(meta, "good")
    BY <1>4 DEF CurSlot, TypeInv, TypeOK
  <2>2. /\ s[o].crc = "good"
        /\ s[cur_meta_index].meta.txid < s[o].meta.txid
        /\ ~(s[o].meta.txid < s[cur_meta_index].meta.txid)
    BY <1>4, <2>1 DEF Slot, SlotInv, MetaLockFree
  <2>3. LoadIndex(s) = o
    BY <2>1, <2>2 DEF LoadIndex, Newer
  <2>4. QED
    BY <2>1, <2>3
<1>5. QED
  BY <1>2, <1>3, <1>4 DEF SlotsAfterCrash, OtherSlot

\* CloseAndOpen and Crash, seen as opening the meta pages s and the pages pg.
LEMMA OpenSlotInv ==
    ASSUME TypeInv, SlotInv, NEW s \in SlotsAfterCrash, NEW pg, Open(s, pg), acked' = acked
    PROVE  SlotInv'
<1> USE SlotTypes, CrashSlots
<1>1. /\ slots' = s /\ cur_meta_index' = LoadIndex(s)
      /\ meta' = s[LoadIndex(s)].meta /\ writer' = "idle"
      /\ s[LoadIndex(s)].crc = "good"
      /\ OpenViews' = {}
  BY DEF Open, OpenViews
<1>2. CASE LoadIndex(s) = cur_meta_index
  <2>1. CurSlot' = CurSlot /\ (OtherSlot'.crc = "good" => OtherSlot' = OtherSlot)
    BY <1>1, <1>2 DEF CurSlot, OtherSlot
  <2>2. meta' = CurSlot'.meta
    BY <1>1 DEF CurSlot
  <2>3. QED
    BY <1>1, <2>1, <2>2 DEF SlotInv, MetaLockFree
<1>3. CASE LoadIndex(s) = 1 - cur_meta_index /\ LoadIndex(s) # cur_meta_index
  <2>1. CurSlot' = Slot(meta, "good") /\ OtherSlot' = CurSlot /\ writer = "save"
    BY <1>1, <1>3 DEF CurSlot, OtherSlot
  <2>2. meta' = CurSlot'.meta
    BY <1>1 DEF CurSlot
  <2>3. CurSlot'.meta = meta /\ CurSlot'.crc = "good"
    BY <2>1 DEF Slot
  <2>4. meta.txid = CurSlot.meta.txid + 1 /\ acked <= meta.txid
    BY <2>1 DEF SlotInv, MetaLockFree, TypeInv, TypeOK, TxIds
  <2>5. OtherSlot'.meta.txid + 1 = CurSlot'.meta.txid /\ acked' <= CurSlot'.meta.txid
    BY <2>1, <2>3, <2>4
  <2>6. QED
    BY <1>1, <2>2, <2>3, <2>5 DEF SlotInv, MetaLockFree
<1>4. QED
  BY <1>2, <1>3

LEMMA SlotStep == IInv /\ [Next]_vars => SlotInv'
<1> SUFFICES ASSUME TypeInv, SlotInv, WriterInv, [Next]_vars PROVE SlotInv'
  BY DEF IInv
<1> USE SlotTypes
<1>1. CASE Update
  BY <1>1 DEF Update, SlotInv, CurSlot, OtherSlot, MetaLockFree, OpenViews, metaVars
<1>2. ASSUME NEW r \in Readers, View(r) PROVE SlotInv'
  <2>1. \A x \in OpenViews' : x = r \/ (x \in OpenViews /\ views'[x] = views[x])
    BY <1>2 DEF View, OpenViews, TypeInv, TypeOK
  <2>2. views'[r].txid = CurSlot.meta.txid
    BY <1>2 DEF View, SlotInv, TypeInv, TypeOK
  <2>3. \A x \in OpenViews' : views'[x].txid <= CurSlot.meta.txid
    BY <2>1, <2>2 DEF SlotInv
  <2>4. QED
    BY <1>2, <2>3 DEF View, SlotInv, CurSlot, OtherSlot, MetaLockFree, metaVars
<1>3. ASSUME NEW r \in Readers, RollBackView(r) PROVE SlotInv'
  <2>1. \A x \in OpenViews' : x \in OpenViews /\ views'[x] = views[x]
    BY <1>3 DEF RollBackView, OpenViews, TypeInv, TypeOK
  <2>2. QED
    BY <1>3, <2>1 DEF RollBackView, SlotInv, CurSlot, OtherSlot, MetaLockFree, metaVars
<1>4. CASE RollBack
  BY <1>4 DEF RollBack, SlotInv, CurSlot, OtherSlot, MetaLockFree, OpenViews, metaVars
<1>5. ASSUME NEW l \in Leaves, NEW v \in Values, Put(l, v) PROVE SlotInv'
  BY <1>5 DEF Put, SlotInv, CurSlot, OtherSlot, MetaLockFree, OpenViews, metaVars
<1>6. CASE Commit
  <2>1. meta = CurSlot.meta /\ update_tx.txid = meta.txid + 1 /\ update_tx.page_count >= meta.page_count
    BY <1>6 DEF Commit, SlotInv, WriterInv, MetaLockFree
  <2>2. QED
    BY <1>6, <2>1 DEF Commit, SlotInv, CurSlot, OtherSlot, MetaLockFree, OpenViews
<1>7. CASE WriteAllDirtyPages
  BY <1>7 DEF WriteAllDirtyPages, SlotInv, CurSlot, OtherSlot, MetaLockFree, OpenViews, metaVars
<1>8. CASE SwitchAndSave
  <2>1. CurSlot' = Slot(meta, "good") /\ OtherSlot' = CurSlot
    BY <1>8 DEF SwitchAndSave, CurSlot, OtherSlot, TypeInv, TypeOK
  <2>2. CurSlot'.meta = meta /\ CurSlot'.crc = "good"
    BY <2>1 DEF Slot
  <2>3. meta.txid = CurSlot.meta.txid + 1
    BY <1>8 DEF SwitchAndSave, SlotInv, MetaLockFree
  <2>4. OtherSlot'.meta.txid + 1 = CurSlot'.meta.txid /\ acked' <= CurSlot'.meta.txid
    BY <1>8, <2>1, <2>2, <2>3 DEF SwitchAndSave
  <2>5. \A r \in OpenViews' : views'[r].txid <= CurSlot'.meta.txid
    <3>1. \A r \in OpenViews : views[r].txid \in Nat
      BY Consts DEF TypeInv, TypeOK, OpenViews
    <3>2. QED
      BY <1>8, <2>2, <2>3, <3>1 DEF SwitchAndSave, SlotInv, OpenViews
  <2>6. QED
    BY <1>8, <2>1, <2>2, <2>4, <2>5 DEF SwitchAndSave, SlotInv, MetaLockFree
<1>9. CASE CloseAndOpen
  BY <1>9, OpenSlotInv DEF CloseAndOpen, SlotsAfterCrash
<1>10. CASE Crash
  BY <1>10, OpenSlotInv DEF Crash
<1>11. CASE UNCHANGED vars
  BY <1>11 DEF vars, SlotInv, CurSlot, OtherSlot, MetaLockFree, OpenViews
<1>12. QED
  BY <1>1, <1>2, <1>3, <1>4, <1>5, <1>6, <1>7, <1>8, <1>9, <1>10, <1>11 DEF Next

-----------------------------------------------------------------------------
(* The pager: free, pending and allocated pages.                            *)

LEMMA MinView ==
    ASSUME TypeInv, SlotInv, MetaLockFree, NEW m \in TxIds, IsMinView(m)
    PROVE  /\ m <= meta.txid
           /\ \A r \in OpenViews : m <= views[r].txid
<1> USE SlotTypes, Consts
<1>1. \A r \in OpenViews : views[r].txid \in Nat /\ views[r].txid <= meta.txid
  BY DEF TypeInv, TypeOK, OpenViews, SlotInv
<1>2. QED
  BY <1>1 DEF IsMinView

\* Pager::Alloc and Pager::Free keep the pager consistent if the pages set
\* free were in use.
LEMMA AllocAndFreePagerInv ==
    ASSUME TypeInv, PagerInv, writer = "open", update_tx.txid = meta.txid + 1,
           update_tx.page_count >= meta.page_count,
           NEW taken \in SUBSET PageIds, NEW replaced \in SUBSET PageIds,
           AllocAndFree(taken, replaced),
           \A p \in replaced : /\ p \notin free_map
                               /\ \A t \in TxIds : p \notin pending_map[t]
                               /\ p < update_tx.page_count,
           meta' = meta, writer' = writer, update_tx'.txid = update_tx.txid,
           update_tx'.page_count \in Nat,
           update_tx'.page_count >= update_tx.page_count
    PROVE  PagerInv'
<1> USE SlotTypes, Consts
<1>1. update_tx.txid \in TxIds /\ update_tx.txid > meta.txid /\ update_tx.page_count \in Nat
  BY DEF TypeInv, MetaStruct
<1>2. \A t \in TxIds : pending_map'[t] = IF t = update_tx.txid THEN pending_map[t] \cup replaced
                                                              ELSE pending_map[t]
  BY DEF AllocAndFree, TypeInv, TypeOK
<1>3. free_map' = free_map \ taken /\ alloc_records' = alloc_records \cup (taken \cap free_map)
  BY DEF AllocAndFree
<1>4. free_map \subseteq PageIds /\ pending_map \in [TxIds -> SUBSET PageIds]
  BY DEF TypeInv, TypeOK
<1>5. \A p \in free_map' : p < meta'.page_count
  BY <1>3 DEF PagerInv
<1>6. ASSUME NEW t \in TxIds, NEW p \in pending_map'[t]
      PROVE  /\ p \notin free_map'
             /\ t <= meta'.txid => p < meta'.page_count
             /\ t > meta'.txid => /\ writer' = "open"
                                  /\ t = update_tx'.txid
                                  /\ p < update_tx'.page_count
             /\ \A u \in TxIds : p \in pending_map'[u] => u = t
  <2>1. CASE p \in pending_map[t]
    <3>1. p \notin replaced /\ p \in PageIds
      BY <1>4, <2>1
    <3>2. /\ p \notin free_map'
          /\ t <= meta.txid => p < meta.page_count
          /\ t > meta.txid => t = update_tx.txid /\ p < update_tx.page_count
      BY <1>3, <2>1 DEF PagerInv
    <3>3. \A u \in TxIds : p \in pending_map'[u] => u = t
      <4>1. \A u \in TxIds : p \in pending_map[u] => u = t
        BY <2>1 DEF PagerInv
      <4>2. \A u \in TxIds : p \in pending_map'[u] => p \in pending_map[u]
        BY <1>2, <3>1
      <4>3. QED
        BY <4>1, <4>2
    <3>4. update_tx.page_count <= update_tx'.page_count /\ update_tx.page_count \in Nat
      BY <1>1
    <3>5. QED
      BY <1>1, <3>1, <3>2, <3>3, <3>4
  <2>2. CASE p \notin pending_map[t]
    <3>1. t = update_tx.txid /\ p \in replaced /\ p \in PageIds
      BY <1>2, <1>6, <2>2
    <3>2. p \notin free_map' /\ p < update_tx'.page_count
      BY <1>1, <1>3, <3>1
    <3>3. \A u \in TxIds : p \in pending_map'[u] => u = t
      BY <1>2, <3>1
    <3>4. ~(t <= meta.txid)
      BY <1>1, <3>1
    <3>5. QED
      BY <3>1, <3>2, <3>3, <3>4
  <2>3. QED
    BY <2>1, <2>2
<1>7. ASSUME NEW p \in alloc_records'
      PROVE  /\ p < meta'.page_count
             /\ p \notin free_map'
             /\ \A t \in TxIds : p \in pending_map'[t] => t = update_tx'.txid
  BY <1>2, <1>3, <1>7 DEF PagerInv
<1>8. QED
  BY <1>5, <1>6, <1>7 DEF PagerInv

\* The effect of DB::Open on the pager: nothing is free, nothing is pending.
LEMMA OpenPager ==
    ASSUME TypeInv, SlotInv, NEW s \in SlotsAfterCrash, NEW pg, Open(s, pg)
    PROVE  /\ free_map' = {} /\ pending_map' = [t \in TxIds |-> {}] /\ alloc_records' = {}
           /\ writer' = "idle" /\ OpenViews' = {}
           /\ PagerInv' /\ WriterInv'
<1> USE SlotTypes
<1>1. s[LoadIndex(s)].meta.free_list_pgid = kPageInvalidId
  <2>1. meta.free_list_pgid = kPageInvalidId /\ CurSlot.meta.free_list_pgid = kPageInvalidId
    BY DEF TypeInv, CurSlot
  <2>2. QED
    BY <2>1, CrashSlots DEF Slot
<1>2. /\ free_map' = {} /\ pending_map' = [t \in TxIds |-> {}] /\ alloc_records' = {}
      /\ writer' = "idle" /\ OpenViews' = {}
  BY <1>1 DEF Open, LoadFreeList, OpenViews
<1>3. QED
  BY <1>2 DEF PagerInv, WriterInv

LEMMA PagerStep == IInv /\ [Next]_vars => PagerInv'
<1> SUFFICES ASSUME TypeInv, SlotInv, PagerInv, WriterInv, [Next]_vars PROVE PagerInv'
  BY DEF IInv
<1> USE SlotTypes, Consts
<1>0. free_map \subseteq PageIds /\ pending_map \in [TxIds -> SUBSET PageIds]
  BY DEF TypeInv, TypeOK
<1>1. CASE Update
  <2>1. PICK m \in TxIds :
          /\ IsMinView(m)
          /\ free_map' = free_map \cup
                UNION {pending_map[t] : t \in {u \in TxIds : Releasable(m, u)}}
          /\ pending_map' = [t \in TxIds |-> IF Releasable(m, t) THEN {} ELSE pending_map[t]]
    BY <1>1 DEF Update
  <2>2. m <= meta.txid
    BY <1>1, <2>1, MinView DEF Update, MetaLockFree
  <2>3. \A t \in TxIds : Releasable(m, t) => t <= meta.txid
    BY <2>2 DEF Releasable
  <2>4. \A p : p \in free_map' <=> p \in free_map \/ \E t \in TxIds : Releasable(m, t) /\ p \in pending_map[t]
    BY <2>1
  <2>5. \A p \in free_map' : p < meta'.page_count
    BY <1>1, <2>3, <2>4 DEF PagerInv, Update, metaVars
  <2>6. ASSUME NEW t \in TxIds, NEW p \in pending_map'[t]
        PROVE  /\ p \notin free_map'
               /\ t <= meta.txid /\ p < meta.page_count
               /\ \A u \in TxIds : p \in pending_map'[u] => u = t
    <3>1. ~Releasable(m, t) /\ p \in pending_map[t]
      BY <2>1, <2>6
    <3>2. \A u \in TxIds : p \in pending_map[u] => u = t
      BY <3>1 DEF PagerInv
    <3>3. p \notin free_map'
      BY <2>4, <3>1, <3>2 DEF PagerInv
    <3>4. t <= meta.txid /\ p < meta.page_count
      BY <1>1, <3>1 DEF PagerInv, Update
    <3>5. QED
      BY <2>1, <3>2, <3>3, <3>4
  <2>7. QED
    BY <1>1, <2>5, <2>6 DEF Update, PagerInv, metaVars
<1>2. ASSUME NEW r \in Readers, View(r) PROVE PagerInv'
  BY <1>2 DEF View, PagerInv, metaVars, pagerVars
<1>3. ASSUME NEW r \in Readers, RollBackView(r) PROVE PagerInv'
  BY <1>3 DEF RollBackView, PagerInv, metaVars, pagerVars
<1>4. CASE RollBack
  <2>1. update_tx.txid \in TxIds /\ update_tx.txid = meta.txid + 1 /\ writer = "open"
    BY <1>4 DEF RollBack, WriterInv, TypeInv, MetaStruct
  <2>2. free_map' = free_map \cup alloc_records /\ meta' = meta /\ writer' = "idle"
    BY <1>4 DEF RollBack, PagerRollback, metaVars
  <2>3. \A t \in TxIds : pending_map'[t] = IF t = update_tx.txid THEN {} ELSE pending_map[t]
    BY <1>0, <1>4 DEF RollBack, PagerRollback
  <2>4. \A p \in free_map' : p < meta'.page_count
    BY <2>1, <2>2 DEF PagerInv
  <2>5. ASSUME NEW t \in TxIds, NEW p \in pending_map'[t]
        PROVE  /\ p \notin free_map'
               /\ t <= meta.txid /\ p < meta.page_count
               /\ \A u \in TxIds : p \in pending_map'[u] => u = t
    BY <2>1, <2>2, <2>3, <2>5 DEF PagerInv
  <2>6. QED
    BY <2>2, <2>4, <2>5 DEF PagerInv
<1>5. ASSUME NEW l \in Leaves, NEW v \in Values, Put(l, v) PROVE PagerInv'
  <2>1. /\ writer = "open" /\ meta' = meta /\ writer' = writer
        /\ update_tx.txid = meta.txid + 1
        /\ update_tx \in MetaStruct
        /\ update_tx.page_count \in 0 .. PageMaxCount
        /\ update_tx.page_count >= meta.page_count
    BY <1>5 DEF Put, WriterInv, TypeInv, metaVars, MetaStruct
  <2>2. \A p \in {Leaf(l), Root} :
           /\ p \in PageIds /\ p \notin free_map /\ p < update_tx.page_count
           /\ \A t \in TxIds : p \notin pending_map[t]
    BY <2>1, WriterTree DEF WriterInv, Owned, Leaf
  <2>3. CASE PutInPlace(l, v)
    BY <2>1, <2>3 DEF PutInPlace, PagerInv, pagerVars
  <2>4. CASE PutCopyLeaf(l, v)
    <3>1. PICK p \in PageIds :
            /\ AllocAndFree({p}, {Leaf(l)})
            /\ update_tx' = [update_tx EXCEPT !.page_count = PageCountAfter(@, p)]
      BY <2>4 DEF PutCopyLeaf
    <3>2. /\ update_tx'.txid = update_tx.txid
          /\ update_tx'.page_count \in Nat /\ update_tx'.page_count >= update_tx.page_count
      BY <2>1, <3>1 DEF MetaStruct, PageCountAfter
    <3>3. QED
      BY <2>1, <2>2, <3>1, <3>2, AllocAndFreePagerInv
  <2>5. CASE PutCopyPath(l, v)
    <3>1. PICK p \in PageIds, q \in PageIds :
            /\ AllocAndFree({p, q}, {Leaf(l), Root})
            /\ update_tx' = [update_tx EXCEPT !.user_root = q,
                  !.page_count = PageCountAfter(PageCountAfter(@, p), q)]
      BY <2>5 DEF PutCopyPath
    <3>2. /\ update_tx'.txid = update_tx.txid
          /\ update_tx'.page_count \in Nat /\ update_tx'.page_count >= update_tx.page_count
      BY <2>1, <3>1 DEF MetaStruct, PageCountAfter
    <3>3. QED
      BY <2>1, <2>2, <3>1, <3>2, AllocAndFreePagerInv
  <2>6. QED
    BY <1>5, <2>3, <2>4, <2>5 DEF Put
<1>6. CASE Commit
  <2>1. /\ writer = "open" /\ meta' = update_tx /\ writer' = "sync"
        /\ update_tx.txid = meta.txid + 1
        /\ update_tx \in MetaStruct
        /\ update_tx.page_count \in Nat /\ update_tx.page_count >= meta.page_count
        /\ update_tx.free_list_pgid = kPageInvalidId
    BY <1>6 DEF Commit, WriterInv, TypeInv, MetaStruct
  <2>2. \E p \in PageIds : free_map' \subseteq free_map /\ pending_map' = pending_map
    <3>1. CASE UNCHANGED <<pagerVars, page>>
      BY <3>1 DEF pagerVars
    <3>2. CASE \E p \in PageIds : AllocAndFree({p}, {})
      BY <1>0, <2>1, <3>2 DEF AllocAndFree, MetaStruct
    <3>3. QED
      BY <1>6, <2>1, <3>1, <3>2, SaveFreeListCases DEF Commit, TypeInv, TypeOK
  <2>3. \A p \in PageIds : p < meta.page_count => p < update_tx.page_count
    BY <2>1
  <2>4. \A t \in TxIds : \A p \in pending_map[t] :
           p < update_tx.page_count /\ t <= update_tx.txid
    BY <1>0, <2>1, <2>3 DEF PagerInv
  <2>5. QED
    BY <1>0, <2>1, <2>2, <2>3, <2>4 DEF PagerInv
<1>7. CASE WriteAllDirtyPages
  BY <1>7 DEF WriteAllDirtyPages, PagerInv, metaVars, pagerVars
<1>8. CASE SwitchAndSave
  BY <1>8 DEF SwitchAndSave, PagerInv, pagerVars
<1>9. CASE CloseAndOpen
  BY <1>9, OpenPager DEF CloseAndOpen, SlotsAfterCrash
<1>10. CASE Crash
  BY <1>10, OpenPager DEF Crash
<1>11. CASE UNCHANGED vars
  BY <1>11 DEF vars, PagerInv
<1>12. QED
  BY <1>1, <1>2, <1>3, <1>4, <1>5, <1>6, <1>7, <1>8, <1>9, <1>10, <1>11 DEF Next

-----------------------------------------------------------------------------
(* The versions that can still be read.                                     *)

PageOf(v, p) == p = v.user_root \/ \E l \in Leaves : p = page[v.user_root].child[l]

LEMMA LiveVersion ==
    ASSUME TypeInv, SlotInv, VersionInv, NEW v \in LiveVersions
    PROVE  /\ Intact(v)
           /\ v.txid \in TxIds /\ v.txid <= CurSlot.meta.txid
           /\ \A p : PageOf(v, p) => p \in PageIds /\ Kept(v, p)
                                     /\ page[p].last_modified_txid \in TxIds
<1> USE SlotTypes, Consts
<1>1. Intact(v)
  BY DEF VersionInv
<1>2. v.txid \in TxIds /\ v.txid <= CurSlot.meta.txid
  <2>1. CASE v \in ViewVersions
    BY <2>1 DEF ViewVersions, OpenViews, TypeInv, TypeOK, SlotInv
  <2>2. CASE v \in SlotVersions
    <3>1. PICK i \in {0, 1} : slots[i].crc = "good" /\ v.txid = slots[i].meta.txid
      BY <2>2 DEF SlotVersions
    <3>2. slots[i].meta.txid \in TxIds
      BY DEF TypeInv, TypeOK, MetaStruct
    <3>3. slots[i] = CurSlot \/ slots[i] = OtherSlot
      BY DEF CurSlot, OtherSlot
    <3>4. QED
      BY <3>1, <3>2, <3>3 DEF SlotInv
  <2>3. QED
    BY <2>1, <2>2 DEF LiveVersions
<1>3. page \in [PageIds -> PageType]
  BY DEF TypeInv, TypeOK
<1>4. \A p : PageOf(v, p) => p \in PageIds /\ Kept(v, p)
  BY <1>1, <1>3, TreeTypes DEF PageOf, Intact
<1>5. \A p : PageOf(v, p) => page[p].last_modified_txid \in TxIds
  BY <1>1, <1>3, TreeTypes DEF PageOf, Intact, BranchPages, LeafPages
<1>6. QED
  BY <1>1, <1>2, <1>4, <1>5

LEMMA CurVersion ==
    ASSUME TypeInv, SlotInv
    PROVE  [txid |-> CurSlot.meta.txid, user_root |-> CurSlot.meta.user_root] \in LiveVersions
  BY SlotTypes DEF LiveVersions, SlotVersions, SlotInv, CurSlot

\* The tree of a version, when the next state keeps its pages.
LEMMA SameTree ==
    ASSUME NEW v, IsTree(page, v.user_root), Injective(page[v.user_root].child),
           \A p : PageOf(v, p) => page'[p] = page[p] /\ Kept(v, p)',
           Contents(page, v.user_root) = committed'[v.txid]
    PROVE  Intact(v)'
<1>1. /\ page'[v.user_root] = page[v.user_root] /\ Kept(v, v.user_root)'
      /\ \A l \in Leaves : /\ page'[page[v.user_root].child[l]] = page[page[v.user_root].child[l]]
                           /\ Kept(v, page[v.user_root].child[l])'
  BY DEF PageOf
<1>2. IsTree(page, v.user_root)' /\ Injective(page[v.user_root].child)'
  BY <1>1 DEF IsTree, Injective
<1>3. Contents(page, v.user_root)' = Contents(page, v.user_root)
  BY <1>1 DEF Contents
<1>4. QED
  BY <1>1, <1>2, <1>3 DEF Intact

\* A version stays intact if its pages do.
LEMMA Frame ==
    ASSUME NEW v, Intact(v),
           \A p : PageOf(v, p) => page'[p] = page[p] /\ Kept(v, p)',
           committed'[v.txid] = committed[v.txid]
    PROVE  Intact(v)'
  BY SameTree DEF Intact

\* A page of a live version is none of those the writer may change.
LEMMA LivePagesApart ==
    ASSUME TypeInv, SlotInv, VersionInv, WriterInv, writer = "open",
           NEW v \in LiveVersions, NEW p, PageOf(v, p)
    PROVE  /\ v.txid < update_tx.txid /\ update_tx.txid \in TxIds
           /\ \A q \in PageIds : Allocates(free_map, update_tx.page_count, q) => q # p
           /\ page[p].last_modified_txid < update_tx.txid
<1> USE SlotTypes, Consts
<1>1. update_tx.txid \in TxIds /\ update_tx.txid = CurSlot.meta.txid + 1
      /\ update_tx.page_count >= CurSlot.meta.page_count /\ update_tx.page_count \in Nat
  BY DEF WriterInv, SlotInv, MetaLockFree, TypeInv, MetaStruct
<1>2. v.txid \in TxIds /\ v.txid <= CurSlot.meta.txid /\ p \in PageIds /\ Kept(v, p)
      /\ page[p].last_modified_txid \in TxIds
  BY LiveVersion
<1>3. p < CurSlot.meta.page_count /\ p \notin free_map /\ page[p].last_modified_txid <= v.txid
  BY <1>2 DEF Kept
<1>4. p < update_tx.page_count
  BY <1>1, <1>2, <1>3
<1>5. QED
  BY <1>1, <1>2, <1>3, <1>4 DEF Allocates

\* Pager::Alloc and Pager::Free leave the pages of older versions alone.
LEMMA KeptByAlloc ==
    ASSUME TypeInv, NEW v, NEW p, Kept(v, p), writer = "open",
           v.txid < update_tx.txid,
           NEW taken, NEW replaced, AllocAndFree(taken, replaced),
           page'[p] = page[p], disk' = disk, CurSlot' = CurSlot
    PROVE  Kept(v, p)'
<1>1. \A t \in TxIds : p \in pending_map'[t] => p \in pending_map[t] \/ t = update_tx.txid
  BY DEF AllocAndFree, TypeInv, TypeOK
<1>2. QED
  BY <1>1 DEF Kept, AllocAndFree

\* CloseAndOpen and Crash: pg agrees with the pages of the versions on disk.
LEMMA OpenVersionInv ==
    ASSUME TypeInv, SlotInv, VersionInv, WriterInv, NEW s \in SlotsAfterCrash,
           NEW pg \in [PageIds -> PageType], Open(s, pg),
           committed' = committed,
           \A p \in PageIds : /\ disk[p] = page[p] /\ p < meta.page_count
                              => pg[p] = page[p] /\ disk'[p] = page[p]
    PROVE  VersionInv'
<1> USE SlotTypes, Consts
<1>1. /\ slots' = s /\ cur_meta_index' = LoadIndex(s) /\ page' = pg
      /\ free_map' = {} /\ pending_map' = [t \in TxIds |-> {}] /\ writer' = "idle"
      /\ OpenViews' = {}
  BY OpenPager DEF Open
<1>2. CurSlot'.meta.page_count >= CurSlot.meta.page_count /\ CurSlot'.meta.page_count \in Nat
      /\ CurSlot.meta.page_count <= meta.page_count
  <2>1. CurSlot.meta.page_count <= meta.page_count
    BY DEF SlotInv
  <2>2. CurSlot' = CurSlot \/ CurSlot' = Slot(meta, "good")
    BY <1>1, CrashSlots DEF CurSlot
  <2>3. QED
    BY <2>1, <2>2 DEF Slot
<1>3. ASSUME NEW v \in LiveVersions PROVE Intact(v)'
  <2>1. \A p : PageOf(v, p) => p \in PageIds /\ Kept(v, p)
    BY LiveVersion
  <2>2. ASSUME NEW p, PageOf(v, p) PROVE page'[p] = page[p] /\ Kept(v, p)'
    <3>1. p \in PageIds /\ p < CurSlot.meta.page_count /\ disk[p] = page[p]
      BY <2>1, <2>2 DEF Kept
    <3>2. p < meta.page_count /\ p < CurSlot'.meta.page_count
      BY <1>2, <3>1
    <3>3. page'[p] = page[p] /\ disk'[p] = page[p]
      BY <1>1, <3>1, <3>2
    <3>4. QED
      BY <1>1, <2>1, <2>2, <3>2, <3>3 DEF Kept
  <2>3. QED
    BY <2>2, LiveVersion, Frame
<1>4. ASSUME NEW v, writer = "save", v = [txid |-> meta.txid, user_root |-> meta.user_root],
             CurSlot' = Slot(meta, "good")
      PROVE  Intact(v)'
  <2>1. /\ meta.user_root = Root /\ meta.txid = update_tx.txid /\ disk = page
        /\ IsTree(page, Root) /\ Injective(page[Root].child)
        /\ Contents(page, Root) = committed[meta.txid]
        /\ Owned(Root) /\ \A l \in Leaves : Owned(page[Root].child[l])
    BY <1>4 DEF WriterInv
  <2>2. ASSUME NEW p \in PageIds, Owned(p)
        PROVE  page'[p] = page[p] /\ Kept(v, p)'
    <3>1. p < meta.page_count /\ page[p].last_modified_txid <= meta.txid
      BY <1>4, <2>1, <2>2 DEF Owned
    <3>2. page'[p] = page[p] /\ disk'[p] = page[p]
      BY <1>1, <2>1, <3>1
    <3>3. CurSlot'.meta.page_count = meta.page_count /\ v.txid = meta.txid
      BY <1>4 DEF Slot
    <3>4. QED
      BY <1>1, <3>1, <3>2, <3>3 DEF Kept
  <2>3. v.user_root = Root /\ v.txid = meta.txid
    BY <1>4, <2>1
  <2>4. \A p : PageOf(v, p) => p \in PageIds /\ Owned(p)
    BY <1>4, <2>1, <2>3, WriterTree DEF Leaf, PageOf
  <2>5. \A p : PageOf(v, p) => page'[p] = page[p] /\ Kept(v, p)'
    BY <2>2, <2>4
  <2>6. QED
    BY <2>1, <2>3, <2>5, SameTree
<1>5. \A v \in LiveVersions' :
        \/ v \in LiveVersions
        \/ /\ writer = "save" /\ v = [txid |-> meta.txid, user_root |-> meta.user_root]
           /\ CurSlot' = Slot(meta, "good")
  <2>1. LiveVersions' = {[txid |-> s[i].meta.txid, user_root |-> s[i].meta.user_root] :
                            i \in {j \in {0, 1} : s[j].crc = "good"}}
    BY <1>1 DEF LiveVersions, ViewVersions, SlotVersions
  <2>2. ASSUME NEW i \in {0, 1}, s[i].crc = "good"
        PROVE  \/ [txid |-> s[i].meta.txid, user_root |-> s[i].meta.user_root] \in LiveVersions
               \/ writer = "save" /\ s[i] = Slot(meta, "good") /\ CurSlot' = Slot(meta, "good")
    <3>1. i = cur_meta_index \/ i = 1 - cur_meta_index
      OBVIOUS
    <3>2. CASE i = cur_meta_index
      BY <3>2, CrashSlots, CurVersion
    <3>3. CASE i = 1 - cur_meta_index /\ s[i] = OtherSlot
      BY <2>2, <3>3 DEF LiveVersions, SlotVersions, OtherSlot
    <3>4. CASE i = 1 - cur_meta_index /\ s[i] # OtherSlot
      BY <1>1, <2>2, <3>4, CrashSlots DEF CurSlot
    <3>5. QED
      BY <3>1, <3>2, <3>3, <3>4
  <2>3. QED
    BY <2>1, <2>2 DEF Slot
<1>6. QED
  BY <1>3, <1>4, <1>5 DEF VersionInv

\* What Pager::Alloc may return.
Fresh(p) == p \in free_map \/ p >= update_tx.page_count

LEMMA AllocatedFresh ==
    ASSUME TypeInv, writer = "open", NEW p \in PageIds, NEW q \in PageIds
    PROVE  /\ Allocates(free_map, update_tx.page_count, p) => Fresh(p)
           /\ Allocates(free_map \ {p}, PageCountAfter(update_tx.page_count, p), q) => Fresh(q)
<1>1. update_tx.page_count \in Nat
  BY Consts, ConstantsAssumption DEF TypeInv, MetaStruct
<1>2. QED
  BY <1>1 DEF Allocates, PageCountAfter, Fresh

\* The pages of a live version are none of those a writer may change.
LEMMA LivePagesOffLimits ==
    ASSUME TypeInv, SlotInv, VersionInv, WriterInv, writer = "open",
           NEW v \in LiveVersions, NEW p, PageOf(v, p)
    PROVE  p \in PageIds /\ ~Fresh(p) /\ CopyNeeded(page[p].last_modified_txid)
<1> USE SlotTypes, Consts
<1>1. update_tx.txid \in TxIds /\ page[p].last_modified_txid < update_tx.txid
  BY LivePagesApart
<1>2. p \in PageIds /\ p \notin free_map /\ p < CurSlot.meta.page_count
      /\ page[p].last_modified_txid \in TxIds
  BY LiveVersion DEF Kept
<1>3. update_tx.page_count >= CurSlot.meta.page_count /\ update_tx.page_count \in Nat
  BY DEF WriterInv, SlotInv, MetaLockFree, TypeInv, MetaStruct
<1>4. ~Fresh(p)
  BY <1>2, <1>3 DEF Fresh
<1>5. CopyNeeded(page[p].last_modified_txid)
  BY <1>1, <1>2 DEF CopyNeeded, TypeInv
<1>6. QED
  BY <1>2, <1>4, <1>5

\* A writer that changes only pages Alloc gave it, or pages CopyNeeded lets it
\* change, leaves every live version intact.
LEMMA WriterChange ==
    ASSUME TypeInv, SlotInv, VersionInv, WriterInv, writer = "open",
           NEW taken, NEW replaced, AllocAndFree(taken, replaced),
           \A p \in PageIds : \/ page'[p] = page[p]
                              \/ Fresh(p)
                              \/ ~CopyNeeded(page[p].last_modified_txid),
           disk' = disk, slots' = slots, cur_meta_index' = cur_meta_index, views' = views,
           \A t \in TxIds : t < update_tx.txid => committed'[t] = committed[t]
    PROVE  VersionInv'
<1> USE SlotTypes, Consts
<1>1. LiveVersions' = LiveVersions /\ CurSlot' = CurSlot
  BY DEF LiveVersions, ViewVersions, OpenViews, SlotVersions, CurSlot
<1>2. ASSUME NEW v \in LiveVersions PROVE Intact(v)'
  <2>1. /\ Intact(v) /\ v.txid \in TxIds
        /\ \A p : PageOf(v, p) => p \in PageIds /\ Kept(v, p)
    BY LiveVersion
  <2>2. ASSUME NEW p, PageOf(v, p) PROVE page'[p] = page[p] /\ v.txid < update_tx.txid
    BY <2>2, LivePagesApart, LivePagesOffLimits
  <2>3. \A p : PageOf(v, p) => Kept(v, p)'
    BY <1>1, <2>1, <2>2, KeptByAlloc
  <2>4. v.txid < update_tx.txid
    BY <2>2 DEF PageOf
  <2>5. QED
    BY <2>1, <2>2, <2>3, <2>4, Frame
<1>3. QED
  BY <1>1, <1>2 DEF VersionInv

\* What Put and Commit do to the pager and to the pages.
WriterStepOn(taken, replaced) ==
    /\ AllocAndFree(taken, replaced)
    /\ \A p \in PageIds : \/ page'[p] = page[p]
                          \/ Fresh(p)
                          \/ ~CopyNeeded(page[p].last_modified_txid)

LEMMA PutPages ==
    ASSUME TypeInv, WriterInv, NEW l \in Leaves, NEW x \in Values, Put(l, x)
    PROVE  \E taken, replaced \in SUBSET PageIds : WriterStepOn(taken, replaced)
<1>0. page \in [PageIds -> PageType] /\ pending_map \in [TxIds -> SUBSET PageIds]
  BY DEF TypeInv, TypeOK
<1>1. writer = "open"
  BY DEF Put
<1>2. Root \in PageIds /\ Leaf(l) \in PageIds /\ update_tx.txid \in TxIds
  BY <1>1, WriterTree DEF TypeInv, MetaStruct
<1>3. CASE PutInPlace(l, x)
  <2>1. AllocAndFree({}, {})
    BY <1>0, <1>2, <1>3 DEF PutInPlace, AllocAndFree, pagerVars
  <2>2. WriterStepOn({}, {})
    BY <1>0, <1>3, <2>1 DEF PutInPlace, WriterStepOn
  <2>3. QED
    BY <2>2
<1>4. CASE PutCopyLeaf(l, x)
  BY <1>0, <1>1, <1>2, <1>4, AllocatedFresh DEF PutCopyLeaf, WriterStepOn
<1>5. CASE PutCopyPath(l, x)
  BY <1>0, <1>1, <1>2, <1>5, AllocatedFresh DEF PutCopyPath, WriterStepOn
<1>6. QED
  BY <1>3, <1>4, <1>5 DEF Put

LEMMA CommitPages ==
    ASSUME TypeInv, Commit
    PROVE  \E taken, replaced \in SUBSET PageIds : WriterStepOn(taken, replaced)
<1>0. page \in [PageIds -> PageType] /\ pending_map \in [TxIds -> SUBSET PageIds]
  BY DEF TypeInv, TypeOK
<1>1. writer = "open" /\ update_tx.txid \in TxIds /\ update_tx.free_list_pgid = kPageInvalidId
  BY DEF Commit, TypeInv, MetaStruct
<1>2. CASE UNCHANGED <<pagerVars, page>>
  <2>1. AllocAndFree({}, {})
    BY <1>0, <1>1, <1>2 DEF AllocAndFree, pagerVars
  <2>2. QED
    BY <1>2, <2>1 DEF WriterStepOn
<1>3. CASE \E p \in PageIds, S \in SUBSET PageIds :
             /\ Allocates(free_map, update_tx.page_count, p)
             /\ AllocAndFree({p}, {})
             /\ page' = [page EXCEPT ![p] = FreeListPage(S)]
  BY <1>0, <1>1, <1>3, AllocatedFresh DEF WriterStepOn
<1>4. QED
  BY <1>1, <1>2, <1>3, SaveFreeListCases DEF Commit, TypeInv, TypeOK

LEMMA VersionStep == IInv /\ [Next]_vars => VersionInv'
<1> SUFFICES ASSUME TypeInv, SlotInv, PagerInv, VersionInv, WriterInv, [Next]_vars
             PROVE  VersionInv'
  BY DEF IInv
<1> USE SlotTypes, Consts
<1>0. /\ free_map \subseteq PageIds /\ pending_map \in [TxIds -> SUBSET PageIds]
      /\ page \in [PageIds -> PageType] /\ disk \in [PageIds -> PageType]
  BY DEF TypeInv, TypeOK
<1>1. CASE Update
  <2>1. PICK m \in TxIds :
          /\ IsMinView(m)
          /\ free_map' = free_map \cup
                UNION {pending_map[t] : t \in {u \in TxIds : Releasable(m, u)}}
          /\ pending_map' = [t \in TxIds |-> IF Releasable(m, t) THEN {} ELSE pending_map[t]]
    BY <1>1 DEF Update
  <2>2. m <= meta.txid /\ (\A r \in OpenViews : m <= views[r].txid) /\ meta = CurSlot.meta
    BY <1>1, <2>1, MinView DEF Update, MetaLockFree, SlotInv
  <2>3. ASSUME NEW v \in LiveVersions PROVE v.txid >= m - 1
    <3>1. CASE v \in ViewVersions
      <4>1. PICK r \in OpenViews : v = views[r]
        BY <3>1 DEF ViewVersions
      <4>2. views[r].txid \in Nat /\ m \in Nat
        BY DEF OpenViews, TypeInv, TypeOK
      <4>3. QED
        BY <2>2, <4>1, <4>2
    <3>2. CASE v \in SlotVersions
      <4>1. PICK i \in {0, 1} : slots[i].crc = "good" /\ v.txid = slots[i].meta.txid
        BY <3>2 DEF SlotVersions
      <4>2. slots[i] = CurSlot \/ slots[i] = OtherSlot
        BY DEF CurSlot, OtherSlot
      <4>3. QED
        BY <2>2, <4>1, <4>2 DEF SlotInv
    <3>3. QED
      BY <3>1, <3>2 DEF LiveVersions
  <2>4. LiveVersions' = LiveVersions /\ CurSlot' = CurSlot
    BY <1>1 DEF Update, LiveVersions, ViewVersions, OpenViews, SlotVersions, CurSlot, metaVars
  <2>5. ASSUME NEW v \in LiveVersions, NEW p, PageOf(v, p) PROVE Kept(v, p)'
    <3>1. Kept(v, p) /\ v.txid \in TxIds
      BY <2>5, LiveVersion
    <3>2. \A t \in TxIds : Releasable(m, t) => p \notin pending_map[t]
      <4>1. \A t \in TxIds : p \in pending_map[t] => t > v.txid
        BY <3>1 DEF Kept
      <4>2. v.txid >= m - 1 /\ v.txid \in Nat /\ m \in Nat
        BY <2>3, <3>1
      <4>3. \A t \in TxIds : Releasable(m, t) => ~(t > v.txid)
        BY <4>2 DEF Releasable
      <4>4. QED
        BY <4>1, <4>3
    <3>3. p \notin free_map'
      BY <2>1, <3>1, <3>2 DEF Kept
    <3>4. \A t \in TxIds : p \in pending_map'[t] => t > v.txid
      BY <2>1, <3>1 DEF Kept
    <3>5. QED
      BY <1>1, <2>4, <3>1, <3>3, <3>4 DEF Kept, Update
  <2>6. ASSUME NEW v \in LiveVersions PROVE Intact(v)'
    BY <1>1, <2>5, LiveVersion, Frame DEF Update
  <2>7. QED
    BY <2>4, <2>6 DEF VersionInv
<1>2. ASSUME NEW r \in Readers, View(r) PROVE VersionInv'
  <2>1. LiveVersions' \subseteq LiveVersions
    <3>1. [txid |-> meta.txid, user_root |-> meta.user_root] \in LiveVersions
      BY <1>2, CurVersion DEF View, SlotInv
    <3>2. SlotVersions' = SlotVersions
      BY <1>2 DEF View, SlotVersions, metaVars
    <3>3. ASSUME NEW k \in Readers, views'[k] # NoView PROVE views'[k] \in LiveVersions
      <4>1. views' = [views EXCEPT ![r] = [txid |-> meta.txid, user_root |-> meta.user_root]]
        BY <1>2 DEF View
      <4>2. views \in [Readers -> [txid : TxIds, user_root : PageIds] \cup {NoView}]
        BY DEF TypeInv, TypeOK
      <4>3. CASE k = r
        BY <3>1, <4>1, <4>2, <4>3
      <4>4. CASE k # r
        BY <3>3, <4>1, <4>2, <4>4 DEF LiveVersions, ViewVersions, OpenViews
      <4>5. QED
        BY <4>3, <4>4
    <3>4. QED
      BY <3>2, <3>3 DEF LiveVersions, ViewVersions, OpenViews
  <2>2. ASSUME NEW v \in LiveVersions PROVE Intact(v)'
    BY <1>2 DEF View, VersionInv, Intact, Kept, CurSlot, metaVars, pagerVars
  <2>3. QED
    BY <2>1, <2>2 DEF VersionInv
<1>3. ASSUME NEW r \in Readers, RollBackView(r) PROVE VersionInv'
  <2>1. LiveVersions' \subseteq LiveVersions
    <3>1. SlotVersions' = SlotVersions
      BY <1>3 DEF RollBackView, SlotVersions, metaVars
    <3>2. \A k \in Readers : views'[k] # NoView => views[k] = views'[k]
      BY <1>3 DEF RollBackView, TypeInv, TypeOK
    <3>3. QED
      BY <3>1, <3>2 DEF LiveVersions, ViewVersions, OpenViews
  <2>2. ASSUME NEW v \in LiveVersions PROVE Intact(v)'
    BY <1>3 DEF RollBackView, VersionInv, Intact, Kept, CurSlot, metaVars, pagerVars
  <2>3. QED
    BY <2>1, <2>2 DEF VersionInv
<1>4. CASE RollBack
  <2>1. LiveVersions' = LiveVersions /\ CurSlot' = CurSlot
    BY <1>4 DEF RollBack, LiveVersions, ViewVersions, OpenViews, SlotVersions, CurSlot, metaVars
  <2>2. ASSUME NEW v \in LiveVersions, NEW p, PageOf(v, p) PROVE Kept(v, p)'
    <3>1. Kept(v, p)
      BY <2>2, LiveVersion
    <3>2. \A t \in TxIds : pending_map'[t] \subseteq pending_map[t]
      BY <1>0, <1>4 DEF RollBack, PagerRollback
    <3>3. QED
      BY <1>4, <2>1, <3>1, <3>2 DEF RollBack, PagerRollback, Kept
  <2>3. ASSUME NEW v \in LiveVersions PROVE Intact(v)'
    BY <1>4, <2>2, LiveVersion, Frame DEF RollBack
  <2>4. QED
    BY <2>1, <2>3 DEF VersionInv
<1>5. ASSUME NEW l \in Leaves, NEW x \in Values, Put(l, x) PROVE VersionInv'
  <2>1. /\ writer = "open" /\ disk' = disk /\ slots' = slots /\ cur_meta_index' = cur_meta_index
        /\ views' = views /\ committed' = committed
    BY <1>5 DEF Put, metaVars
  <2>2. \E taken, replaced \in SUBSET PageIds : WriterStepOn(taken, replaced)
    BY <1>5, PutPages
  <2>3. QED
    BY <2>1, <2>2, WriterChange DEF WriterStepOn
<1>6. CASE Commit
  <2>1. /\ writer = "open" /\ disk' = disk /\ slots' = slots /\ cur_meta_index' = cur_meta_index
        /\ views' = views /\ update_tx.txid \in TxIds /\ update_tx.free_list_pgid = kPageInvalidId
    BY <1>6 DEF Commit, TypeInv, MetaStruct
  <2>2. \A t \in TxIds : t < update_tx.txid => committed'[t] = committed[t]
    BY <1>6, <2>1 DEF Commit, TypeInv, TypeOK
  <2>3. \E taken, replaced \in SUBSET PageIds : WriterStepOn(taken, replaced)
    BY <1>6, CommitPages
  <2>4. QED
    BY <2>1, <2>2, <2>3, WriterChange DEF WriterStepOn
<1>7. CASE WriteAllDirtyPages
  <2>1. LiveVersions' = LiveVersions
    BY <1>7 DEF WriteAllDirtyPages, LiveVersions, ViewVersions, OpenViews, SlotVersions, metaVars
  <2>2. ASSUME NEW v \in LiveVersions PROVE Intact(v)'
    BY <1>7 DEF WriteAllDirtyPages, VersionInv, Intact, Kept, CurSlot, metaVars, pagerVars
  <2>3. QED
    BY <2>1, <2>2 DEF VersionInv
<1>8. CASE SwitchAndSave
  <2>1. /\ CurSlot' = Slot(meta, "good") /\ OtherSlot' = CurSlot /\ writer = "save"
        /\ CurSlot'.meta.page_count = meta.page_count /\ meta.page_count >= CurSlot.meta.page_count
    <3>1. slots \in [{0, 1} -> [meta : MetaStruct, crc : {"good", "bad"}]]
      BY DEF TypeInv, TypeOK
    <3>2. QED
      BY <1>8, <3>1 DEF SwitchAndSave, CurSlot, OtherSlot, Slot, SlotInv, MetaLockFree
  <2>2. \A v \in LiveVersions' :
           v \in LiveVersions \/ v = [txid |-> meta.txid, user_root |-> meta.user_root]
    <3>1. ViewVersions' = ViewVersions
      BY <1>8 DEF SwitchAndSave, ViewVersions, OpenViews
    <3>2. \A i \in {0, 1} : slots'[i] = Slot(meta, "good") \/ slots'[i] = slots[i]
      BY <1>8 DEF SwitchAndSave, TypeInv, TypeOK
    <3>3. QED
      BY <3>1, <3>2 DEF LiveVersions, SlotVersions, Slot
  <2>3. ASSUME NEW v \in LiveVersions PROVE Intact(v)'
    <3>1. ASSUME NEW p, PageOf(v, p) PROVE Kept(v, p)'
      <4>1. Kept(v, p) /\ p \in PageIds
        BY <3>1, LiveVersion
      <4>2. p < CurSlot'.meta.page_count
        BY <2>1, <4>1 DEF Kept
      <4>3. QED
        BY <1>8, <4>1, <4>2 DEF Kept, SwitchAndSave, pagerVars
    <3>2. QED
      BY <1>8, <3>1, LiveVersion, Frame DEF SwitchAndSave
  <2>4. ASSUME NEW v, v = [txid |-> meta.txid, user_root |-> meta.user_root] PROVE Intact(v)'
    <3>1. /\ v.user_root = Root /\ v.txid = meta.txid /\ meta.txid = update_tx.txid /\ disk = page
          /\ IsTree(page, Root) /\ Injective(page[Root].child)
          /\ Contents(page, Root) = committed[meta.txid]
          /\ \A p : PageOf(v, p) => p \in PageIds /\ Owned(p)
      BY <2>1, <2>4, WriterTree DEF WriterInv, PageOf, Leaf
    <3>2. ASSUME NEW p, PageOf(v, p) PROVE page'[p] = page[p] /\ Kept(v, p)'
      <4>1. /\ p < meta.page_count /\ page[p].last_modified_txid <= v.txid
            /\ p \notin free_map /\ \A t \in TxIds : p \notin pending_map[t]
        BY <2>1, <3>1, <3>2 DEF Owned
      <4>2. QED
        BY <1>8, <2>1, <3>1, <4>1 DEF Kept, SwitchAndSave, pagerVars
    <3>3. QED
      BY <1>8, <3>1, <3>2, SameTree DEF SwitchAndSave
  <2>5. QED
    BY <2>2, <2>3, <2>4 DEF VersionInv
<1>9. CASE CloseAndOpen
  <2> DEFINE cut(pg) == [p \in PageIds |-> IF p < meta.page_count THEN pg[p] ELSE BlankPage]
  <2>1. Open(slots, cut(page)) /\ disk' = cut(disk) /\ committed' = committed
    BY <1>9 DEF CloseAndOpen
  <2>2. slots \in SlotsAfterCrash /\ cut(page) \in [PageIds -> PageType]
    BY <1>0, <1>9 DEF SlotsAfterCrash, CloseAndOpen, PageType
  <2>3. \A p \in PageIds : disk[p] = page[p] /\ p < meta.page_count
                           => cut(page)[p] = page[p] /\ disk'[p] = page[p]
    BY <2>1
  <2> HIDE DEF cut
  <2>4. QED
    BY <2>1, <2>2, <2>3, OpenVersionInv
<1>10. CASE Crash
  <2>1. PICK s \in SlotsAfterCrash, lost \in SUBSET PageIds :
          LET left == [p \in PageIds |-> IF p \in lost THEN disk[p] ELSE page[p]]
          IN  Open(s, left) /\ disk' = left
    BY <1>10 DEF Crash
  <2> DEFINE left == [p \in PageIds |-> IF p \in lost THEN disk[p] ELSE page[p]]
  <2>2. left \in [PageIds -> PageType] /\ committed' = committed
    BY <1>0, <1>10 DEF Crash
  <2>3. Open(s, left) /\ disk' = left
    BY <2>1
  <2>4. \A p \in PageIds : disk[p] = page[p] /\ p < meta.page_count
                           => left[p] = page[p] /\ disk'[p] = page[p]
    BY <2>3
  <2> HIDE DEF left
  <2>5. QED
    BY <2>2, <2>3, <2>4, OpenVersionInv
<1>11. CASE UNCHANGED vars
  BY <1>11 DEF vars, VersionInv, LiveVersions, ViewVersions, OpenViews, SlotVersions,
               Intact, Kept, CurSlot
<1>12. QED
  BY <1>1, <1>2, <1>3, <1>4, <1>5, <1>6, <1>7, <1>8, <1>9, <1>10, <1>11 DEF Next

-----------------------------------------------------------------------------
(* The tree the writer builds.                                              *)

\* Pages that are neither replaced nor overwritten stay the writer's.
LEMMA OwnedByAlloc ==
    ASSUME TypeInv, PagerInv, writer = "open",
           NEW taken, NEW replaced, AllocAndFree(taken, replaced),
           update_tx'.txid = update_tx.txid,
           update_tx'.page_count \in Nat, update_tx'.page_count >= update_tx.page_count,
           writer' # "open" => meta'.page_count = update_tx.page_count,
           NEW p \in PageIds, Owned(p), p \notin replaced,
           page'[p].last_modified_txid = page[p].last_modified_txid
    PROVE  Owned(p)'
<1> USE Consts
<1>1. update_tx.page_count \in Nat
  BY ConstantsAssumption DEF TypeInv, MetaStruct
<1>2. \A t \in TxIds : p \notin pending_map'[t]
  BY DEF AllocAndFree, TypeInv, TypeOK, Owned
<1>3. p \notin free_map' /\ p < update_tx'.page_count
  BY <1>1 DEF AllocAndFree, Owned
<1>4. QED
  BY <1>2, <1>3 DEF Owned

\* A page that Alloc has just returned is the writer's.
LEMMA OwnedWhenTaken ==
    ASSUME TypeInv, PagerInv, WriterInv, writer = "open", writer' = "open",
           NEW taken, NEW replaced, AllocAndFree(taken, replaced),
           update_tx'.txid = update_tx.txid,
           NEW p \in PageIds, Fresh(p), p \in taken, p \notin replaced,
           p < update_tx'.page_count,
           page'[p].last_modified_txid = update_tx.txid
    PROVE  Owned(p)'
<1> USE Consts, SlotTypes
<1>1. update_tx.page_count \in Nat /\ update_tx.txid \in TxIds
      /\ update_tx.page_count >= meta.page_count
  BY ConstantsAssumption DEF TypeInv, MetaStruct, WriterInv
<1>2. \A t \in TxIds : p \notin pending_map[t]
  <2>1. CASE p \in free_map
    BY <2>1 DEF PagerInv
  <2>2. CASE p >= update_tx.page_count
    <3>1. \A t \in TxIds : t <= meta.txid \/ t > meta.txid
      OBVIOUS
    <3>2. ~(p < update_tx.page_count) /\ ~(p < meta.page_count)
      BY <1>1, <2>2
    <3>3. QED
      BY <3>1, <3>2 DEF PagerInv
  <2>3. QED
    BY <2>1, <2>2 DEF Fresh
<1>3. \A t \in TxIds : p \notin pending_map'[t]
  BY <1>2 DEF AllocAndFree, TypeInv, TypeOK
<1>4. p \notin free_map'
  BY DEF AllocAndFree
<1>5. QED
  BY <1>1, <1>3, <1>4 DEF Owned

\* The page count covers the pages Alloc returned.
LEMMA AllocBelowCount ==
    ASSUME TypeInv, PagerInv, WriterInv, writer = "open", NEW p \in PageIds,
           Allocates(free_map, update_tx.page_count, p)
    PROVE  LET n == PageCountAfter(update_tx.page_count, p)
           IN  /\ n \in Nat /\ n >= update_tx.page_count /\ p < n
               /\ \A q \in PageIds : Allocates(free_map \ {p}, n, q) =>
                     /\ PageCountAfter(n, q) \in Nat /\ PageCountAfter(n, q) >= n
                     /\ p < PageCountAfter(n, q) /\ q < PageCountAfter(n, q) /\ q # p
<1> USE Consts, SlotTypes
<1>1. update_tx.page_count \in Nat /\ update_tx.page_count >= meta.page_count
  BY ConstantsAssumption DEF TypeInv, MetaStruct, WriterInv
<1>2. \A x \in free_map : x \in Nat /\ x < update_tx.page_count
  BY <1>1 DEF PagerInv, TypeInv, TypeOK
<1>3. QED
  BY <1>1, <1>2 DEF Allocates, PageCountAfter

\* The tree with root r and children c is the writer's in the next state.
LEMMA WriterTreeNext ==
    ASSUME NEW r \in PageIds, NEW c \in [Leaves -> PageIds], Injective(c),
           writer' = "open", update_tx'.txid = meta'.txid + 1,
           update_tx'.page_count >= meta'.page_count, update_tx'.user_root = r,
           page'[r].type = "branch", page'[r].child = c,
           \A k \in Leaves : page'[c[k]].type = "leaf" /\ page'[c[k]].value = work'[k],
           work' \in [Leaves -> Values],
           \A p \in PageIds : p = r \/ (\E k \in Leaves : p = c[k]) => Owned(p)'
    PROVE  WriterInv'
<1>1. Root' = r
  BY DEF Root
<1>2. IsTree(page', Root') /\ Injective(page'[Root'].child)
  BY <1>1 DEF IsTree
<1>3. Contents(page', Root') = work'
  BY <1>1 DEF Contents
<1>4. Owned(Root)' /\ \A l \in Leaves : Owned(page[Root].child[l])'
  BY <1>1
<1>5. QED
  BY <1>2, <1>3, <1>4 DEF WriterInv

LEMMA WriterStep == IInv /\ [Next]_vars => WriterInv'
<1> SUFFICES ASSUME TypeInv, SlotInv, PagerInv, VersionInv, WriterInv, [Next]_vars
             PROVE  WriterInv'
  BY DEF IInv
<1> USE SlotTypes, Consts
<1>0. /\ free_map \subseteq PageIds /\ pending_map \in [TxIds -> SUBSET PageIds]
      /\ page \in [PageIds -> PageType]
  BY DEF TypeInv, TypeOK
<1>1. CASE Update
  <2> DEFINE v == [txid |-> CurSlot.meta.txid, user_root |-> CurSlot.meta.user_root]
  <2>1. /\ writer = "idle" /\ writer' = "open" /\ page' = page /\ meta' = meta
        /\ meta = CurSlot.meta /\ v.user_root = meta.user_root /\ v.txid = meta.txid
        /\ update_tx' = [meta EXCEPT !.txid = @ + 1] /\ work' = committed[meta.txid]
    BY <1>1 DEF Update, metaVars, SlotInv, MetaLockFree
  <2>2. Root' = meta.user_root /\ update_tx'.txid = meta.txid + 1
        /\ update_tx'.page_count = meta.page_count
    BY <2>1 DEF Root, MetaStruct
  <2>3. v \in LiveVersions
    BY CurVersion
  <2>4. /\ Intact(v)
        /\ \A p : PageOf(v, p) => p \in PageIds /\ Kept(v, p) /\ page[p].last_modified_txid \in TxIds
    BY <2>3, LiveVersion
  <2> HIDE DEF v
  <2>5. ASSUME NEW p, PageOf(v, p) PROVE Owned(p)'
    <3>1. p \in PageIds /\ Kept(v, p) /\ page[p].last_modified_txid \in TxIds
      BY <2>4, <2>5
    <3>2. \A t \in TxIds : p \notin pending_map[t]
      BY <2>1, <3>1 DEF Kept, PagerInv
    <3>3. p \notin free_map' /\ \A t \in TxIds : p \notin pending_map'[t]
      BY <1>1, <3>1, <3>2 DEF Update, Kept
    <3>4. p < meta.page_count /\ page[p].last_modified_txid <= meta.txid
      BY <2>1, <3>1 DEF Kept
    <3>5. QED
      BY <2>1, <2>2, <3>1, <3>3, <3>4 DEF Owned
  <2>6. /\ IsTree(page', Root') /\ Injective(page'[Root'].child)
        /\ Contents(page', Root') = work'
    BY <2>1, <2>2, <2>4 DEF Intact
  <2>7. Owned(Root)' /\ \A l \in Leaves : Owned(page[Root].child[l])'
    BY <2>1, <2>2, <2>5 DEF PageOf
  <2>8. QED
    BY <2>1, <2>2, <2>6, <2>7 DEF WriterInv
<1>2. ASSUME NEW r \in Readers, View(r) PROVE WriterInv'
  BY <1>2 DEF View, WriterInv, Owned, Root, metaVars, pagerVars
<1>3. ASSUME NEW r \in Readers, RollBackView(r) PROVE WriterInv'
  BY <1>3 DEF RollBackView, WriterInv, Owned, Root, metaVars, pagerVars
<1>4. CASE RollBack
  BY <1>4 DEF RollBack, WriterInv
<1>5. ASSUME NEW l \in Leaves, NEW x \in Values, Put(l, x) PROVE WriterInv'
  <2>1. /\ writer = "open" /\ writer' = "open" /\ meta' = meta
        /\ work' = [work EXCEPT ![l] = x] /\ work' \in [Leaves -> Values]
        /\ update_tx \in MetaStruct /\ update_tx.txid \in TxIds /\ update_tx.page_count \in Nat
        /\ update_tx.txid = meta.txid + 1 /\ update_tx.page_count >= meta.page_count
    BY <1>5, ConstantsAssumption DEF Put, metaVars, TypeInv, TypeOK, MetaStruct, WriterInv
  <2>2. PICK c \in [Leaves -> PageIds] : c = page[Root].child
    BY <2>1, WriterTree
  <2>3. /\ Root \in PageIds /\ page[Root] \in BranchPages
        /\ \A k \in Leaves : c[k] = Leaf(k) /\ c[k] \in PageIds /\ c[k] # Root /\ page[c[k]] \in LeafPages
    BY <2>1, <2>2, WriterTree DEF Leaf
  <2>4. /\ Injective(c) /\ Owned(Root) /\ \A k \in Leaves : Owned(c[k])
    BY <2>1, <2>2 DEF WriterInv
  <2>5. \A k \in Leaves : page[c[k]].value = work[k]
    BY <2>1, <2>2 DEF WriterInv, Contents
  <2>6. work'[l] = x /\ \A k \in Leaves : k # l => work'[k] = work[k]
    BY <2>1 DEF TypeInv, TypeOK
  <2>7. CASE PutInPlace(l, x)
    <3>1. /\ page' = [page EXCEPT ![c[l]] = [page[c[l]] EXCEPT !.value = x]]
          /\ update_tx' = update_tx
      BY <2>3, <2>7 DEF PutInPlace
    <3>2. AllocAndFree({}, {})
      BY <1>0, <2>1, <2>7 DEF PutInPlace, AllocAndFree, pagerVars
    <3>3. page'[Root] = page[Root] /\ \A k \in Leaves : k # l => page'[c[k]] = page[c[k]]
      BY <1>0, <2>3, <2>4, <3>1 DEF Injective
    <3>4. /\ page'[c[l]].type = "leaf" /\ page'[c[l]].value = x
          /\ page'[c[l]].last_modified_txid = page[c[l]].last_modified_txid
      BY <1>0, <2>3, <3>1 DEF LeafPages
    <3>5. \A k \in Leaves : page'[c[k]].type = "leaf" /\ page'[c[k]].value = work'[k]
      BY <2>3, <2>5, <2>6, <3>3, <3>4 DEF LeafPages
    <3>6. \A p \in PageIds : p = Root \/ (\E k \in Leaves : p = c[k])
             => page'[p].last_modified_txid = page[p].last_modified_txid /\ Owned(p)
      BY <2>3, <2>4, <3>3, <3>4
    <3>7. \A p \in PageIds : p = Root \/ (\E k \in Leaves : p = c[k]) => Owned(p)'
      BY <2>1, <3>1, <3>2, <3>6, OwnedByAlloc
    <3>8. page'[Root].type = "branch" /\ page'[Root].child = c
      BY <2>2, <2>3, <3>3 DEF BranchPages
    <3>9. QED
      BY <2>1, <2>3, <2>4, <3>1, <3>5, <3>7, <3>8, WriterTreeNext DEF Root
  <2>8. CASE PutCopyLeaf(l, x)
    <3>1. PICK p \in PageIds :
             /\ Allocates(free_map, update_tx.page_count, p)
             /\ page' = [page EXCEPT ![p] = LeafNode(update_tx.txid, x), ![Root].child[l] = p]
             /\ AllocAndFree({p}, {c[l]})
             /\ update_tx' = [update_tx EXCEPT !.page_count = PageCountAfter(@, p)]
      BY <2>3, <2>8 DEF PutCopyLeaf
    <3>2. p # Root /\ (\A k \in Leaves : p # c[k]) /\ Fresh(p)
      BY <2>1, <2>3, <3>1, AllocFresh, AllocatedFresh
    <3>3. /\ update_tx'.txid = update_tx.txid /\ update_tx'.user_root = Root
          /\ update_tx'.page_count \in Nat /\ update_tx'.page_count >= update_tx.page_count
          /\ p < update_tx'.page_count
      BY <2>1, <3>1, AllocBelowCount DEF MetaStruct, Root
    <3>4. /\ page'[p] = LeafNode(update_tx.txid, x)
          /\ page'[Root] = [page[Root] EXCEPT !.child[l] = p]
          /\ \A k \in Leaves : page'[c[k]] = page[c[k]]
      BY <1>0, <2>3, <3>1, <3>2
    <3>5. PICK d \in [Leaves -> PageIds] : d = [c EXCEPT ![l] = p]
      OBVIOUS
    <3>6. /\ d[l] = p /\ \A k \in Leaves : k # l => d[k] = c[k]
          /\ Injective(d)
      BY <2>4, <3>2, <3>5 DEF Injective
    <3>7. /\ page'[Root].type = "branch" /\ page'[Root].child = d
          /\ page'[Root].last_modified_txid = page[Root].last_modified_txid
      BY <2>2, <2>3, <3>4, <3>5 DEF BranchPages
    <3>8. \A k \in Leaves : page'[d[k]].type = "leaf" /\ page'[d[k]].value = work'[k]
      BY <2>3, <2>5, <2>6, <3>4, <3>6 DEF LeafPages, LeafNode
    <3>9. \A y \in PageIds : y = Root \/ (\E k \in Leaves : k # l /\ y = c[k]) => Owned(y)'
      <4>1. \A k \in Leaves : k # l => c[k] # c[l]
        BY <2>4 DEF Injective
      <4>2. \A y \in PageIds : y = Root \/ (\E k \in Leaves : k # l /\ y = c[k])
               => y \notin {c[l]} /\ Owned(y)
                  /\ page'[y].last_modified_txid = page[y].last_modified_txid
        BY <2>3, <2>4, <3>4, <3>7, <4>1
      <4>3. QED
        BY <2>1, <3>1, <3>3, <4>2, OwnedByAlloc
    <3>10. Owned(p)'
      <4>1. p \in {p} /\ p \notin {c[l]} /\ page'[p].last_modified_txid = update_tx.txid
        BY <3>2, <3>4 DEF LeafNode
      <4>2. QED
        BY <2>1, <3>1, <3>2, <3>3, <4>1, OwnedWhenTaken
    <3>11. \A y \in PageIds : y = Root \/ (\E k \in Leaves : y = d[k]) => Owned(y)'
      BY <3>6, <3>9, <3>10
    <3>12. QED
      BY <2>1, <2>3, <3>3, <3>6, <3>7, <3>8, <3>11, WriterTreeNext
  <2>9. CASE PutCopyPath(l, x)
    <3>1. PICK p \in PageIds, q \in PageIds :
             /\ Allocates(free_map, update_tx.page_count, p)
             /\ Allocates(free_map \ {p}, PageCountAfter(update_tx.page_count, p), q)
             /\ page' = [page EXCEPT ![p] = LeafNode(update_tx.txid, x),
                                     ![q] = BranchNode(update_tx.txid, [c EXCEPT ![l] = p])]
             /\ AllocAndFree({p, q}, {c[l], Root})
             /\ update_tx' = [update_tx EXCEPT
                   !.user_root = q,
                   !.page_count = PageCountAfter(PageCountAfter(@, p), q)]
      BY <2>2, <2>3, <2>9 DEF PutCopyPath
    <3>2. /\ p # Root /\ (\A k \in Leaves : p # c[k]) /\ Fresh(p) /\ Fresh(q)
      BY <2>1, <2>3, <3>1, AllocFresh, AllocatedFresh
    <3>3. /\ update_tx'.txid = update_tx.txid /\ update_tx'.user_root = q
          /\ update_tx'.page_count \in Nat /\ update_tx'.page_count >= update_tx.page_count
          /\ p < update_tx'.page_count /\ q < update_tx'.page_count /\ p # q
      BY <2>1, <3>1, AllocBelowCount DEF MetaStruct
    <3>4. \A k \in Leaves : q # c[k] /\ q # Root
      BY <2>1, <2>3, <2>4, <3>2 DEF Fresh, Owned
    <3>5. /\ page'[p] = LeafNode(update_tx.txid, x)
          /\ page'[q] = BranchNode(update_tx.txid, [c EXCEPT ![l] = p])
          /\ \A k \in Leaves : page'[c[k]] = page[c[k]]
      BY <1>0, <2>3, <3>1, <3>2, <3>3, <3>4
    <3>6. PICK d \in [Leaves -> PageIds] : d = [c EXCEPT ![l] = p]
      OBVIOUS
    <3>7. /\ d[l] = p /\ \A k \in Leaves : k # l => d[k] = c[k]
          /\ Injective(d)
      BY <2>4, <3>2, <3>6 DEF Injective
    <3>8. /\ page'[q].type = "branch" /\ page'[q].child = d
          /\ page'[q].last_modified_txid = update_tx.txid
      BY <3>5, <3>6 DEF BranchNode
    <3>9. \A k \in Leaves : page'[d[k]].type = "leaf" /\ page'[d[k]].value = work'[k]
      BY <2>3, <2>5, <2>6, <3>5, <3>7 DEF LeafPages, LeafNode
    <3>10. \A y \in PageIds : (\E k \in Leaves : k # l /\ y = c[k]) => Owned(y)'
      <4>1. \A k \in Leaves : k # l => c[k] # c[l]
        BY <2>4 DEF Injective
      <4>2. \A y \in PageIds : (\E k \in Leaves : k # l /\ y = c[k])
               => y \notin {c[l], Root} /\ Owned(y)
                  /\ page'[y].last_modified_txid = page[y].last_modified_txid
        BY <2>3, <2>4, <3>5, <4>1
      <4>3. QED
        BY <2>1, <3>1, <3>3, <4>2, OwnedByAlloc
    <3>11. Owned(p)' /\ Owned(q)'
      <4>1. /\ p \in {p, q} /\ p \notin {c[l], Root} /\ page'[p].last_modified_txid = update_tx.txid
            /\ q \in {p, q} /\ q \notin {c[l], Root}
        BY <3>2, <3>4, <3>5 DEF LeafNode
      <4>2. QED
        BY <2>1, <3>1, <3>2, <3>3, <3>8, <4>1, OwnedWhenTaken
    <3>12. \A y \in PageIds : y = q \/ (\E k \in Leaves : y = d[k]) => Owned(y)'
      BY <3>7, <3>10, <3>11
    <3>13. QED
      BY <2>1, <3>3, <3>7, <3>8, <3>9, <3>12, WriterTreeNext
  <2>10. QED
    BY <1>5, <2>7, <2>8, <2>9 DEF Put
<1>6. CASE Commit
  <2>1. /\ writer = "open" /\ writer' = "sync" /\ meta' = update_tx
        /\ update_tx \in MetaStruct /\ update_tx.free_list_pgid = kPageInvalidId
        /\ update_tx.txid \in TxIds /\ update_tx.page_count \in Nat
        /\ committed'[update_tx.txid] = work
    BY <1>6, ConstantsAssumption DEF Commit, TypeInv, TypeOK, MetaStruct
  <2> DEFINE Kind(taken) ==
           /\ AllocAndFree(taken, {})
           /\ \A p \in PageIds : p = Root \/ (\E l \in Leaves : p = Leaf(l)) => page'[p] = page[p]
           /\ update_tx'.txid = update_tx.txid /\ update_tx'.user_root = Root
           /\ update_tx'.page_count \in Nat /\ update_tx'.page_count >= update_tx.page_count
  <2>2. \E taken \in SUBSET PageIds : Kind(taken)
    <3>1. CASE /\ UNCHANGED <<pagerVars, page>>
               /\ update_tx' = [update_tx EXCEPT !.free_list_pgid = update_tx.page_count]
      <4>1. AllocAndFree({}, {})
        BY <1>0, <2>1, <3>1 DEF AllocAndFree, pagerVars
      <4>2. Kind({})
        BY <2>1, <3>1, <4>1 DEF MetaStruct, Root
      <4>3. QED
        BY <4>2
    <3>2. ASSUME NEW p \in PageIds, NEW S \in SUBSET PageIds,
                 Allocates(free_map, update_tx.page_count, p),
                 AllocAndFree({p}, {}),
                 page' = [page EXCEPT ![p] = FreeListPage(S)],
                 update_tx' = [update_tx EXCEPT
                      !.free_list_pgid = p, !.page_count = PageCountAfter(@, p)]
          PROVE  \E taken \in SUBSET PageIds : Kind(taken)
      <4>1. p # Root /\ \A l \in Leaves : p # Leaf(l)
        BY <2>1, <3>2, AllocFresh
      <4>2. /\ PageCountAfter(update_tx.page_count, p) \in Nat
            /\ PageCountAfter(update_tx.page_count, p) >= update_tx.page_count
        BY <2>1, <3>2, AllocBelowCount
      <4>3. Kind({p})
        BY <1>0, <2>1, <3>2, <4>1, <4>2 DEF MetaStruct, Root
      <4>4. QED
        BY <4>3
    <3> HIDE DEF Kind
    <3>3. QED
      BY <1>6, <2>1, <3>1, <3>2, SaveFreeListCases DEF Commit, TypeInv, TypeOK
  <2>3. PICK taken \in SUBSET PageIds : Kind(taken)
    BY <2>2
  <2>4. /\ Root \in PageIds /\ page'[Root] = page[Root]
        /\ \A l \in Leaves : Leaf(l) \in PageIds /\ page'[Leaf(l)] = page[Leaf(l)]
    BY <2>1, <2>3, WriterTree
  <2>5. \A p \in PageIds : p = Root \/ (\E l \in Leaves : p = Leaf(l)) => Owned(p)'
    <3>1. ASSUME NEW p \in PageIds, p = Root \/ (\E l \in Leaves : p = Leaf(l))
          PROVE  Owned(p)'
      <4>1. Owned(p)
        BY <2>1, <3>1 DEF WriterInv, Leaf
      <4>2. QED
        BY <2>1, <2>3, <3>1, <4>1, OwnedByAlloc
    <3>2. QED
      BY <3>1
  <2>6. Root' = Root /\ page'[Root'] = page[Root]
    BY <2>3, <2>4 DEF Root
  <2>7. /\ IsTree(page', Root') /\ Injective(page'[Root'].child)
        /\ Contents(page', Root') = committed'[meta'.txid]
    BY <2>1, <2>4, <2>6 DEF WriterInv, IsTree, Contents, Leaf
  <2>8. Owned(Root)' /\ \A l \in Leaves : Owned(page[Root].child[l])'
    BY <2>4, <2>5, <2>6 DEF Leaf
  <2>9. meta'.txid = update_tx'.txid /\ meta'.user_root = Root'
    BY <2>1, <2>3 DEF Root
  <2>10. QED
    BY <2>1, <2>7, <2>8, <2>9 DEF WriterInv
<1>7. CASE WriteAllDirtyPages
  BY <1>7 DEF WriteAllDirtyPages, WriterInv, Owned, Root, metaVars, pagerVars
<1>8. CASE SwitchAndSave
  BY <1>8 DEF SwitchAndSave, WriterInv
<1>9. CASE CloseAndOpen
  BY <1>9, OpenPager DEF CloseAndOpen, SlotsAfterCrash
<1>10. CASE Crash
  BY <1>10, OpenPager DEF Crash
<1>11. CASE UNCHANGED vars
  BY <1>11 DEF vars, WriterInv, Owned, Root
<1>12. QED
  BY <1>1, <1>2, <1>3, <1>4, <1>5, <1>6, <1>7, <1>8, <1>9, <1>10, <1>11 DEF Next

-----------------------------------------------------------------------------
(* The inductive invariant and its consequences.                            *)

LEMMA InitIInv == Init => IInv
<1> SUFFICES ASSUME Init PROVE IInv
  OBVIOUS
<1> USE Consts
<1>1. TypeInv
  BY InitTypeInv
<1>2. /\ meta = InitMeta(InitTxId) /\ cur_meta_index = 0 /\ writer = "idle" /\ OpenViews = {}
      /\ CurSlot = Slot(InitMeta(InitTxId), "good") /\ OtherSlot = Slot(InitMeta(InitTxId - 1), "good")
      /\ free_map = {} /\ pending_map = [t \in TxIds |-> {}] /\ acked = InitTxId
  BY DEF Init, CurSlot, OtherSlot, OpenViews
<1>3. SlotInv
  BY <1>2 DEF SlotInv, MetaLockFree, Slot, InitMeta, InitTxId
<1>4. PagerInv /\ WriterInv
  BY <1>2 DEF PagerInv, WriterInv
<1>5. VersionInv
  <2>1. PICK c \in [Leaves -> (InitRoot + 1) .. (InitPageCount - 1)] :
           page = InitPage(c) /\ \A k, l \in Leaves : c[k] = c[l] => k = l
    BY DEF Init
  <2>2. /\ \A l \in Leaves : c[l] \in PageIds /\ c[l] # InitRoot /\ c[l] < InitPageCount
        /\ InitRoot < InitPageCount
    BY <2>1, Consts DEF InitRoot, kPageInitCount
  <2>3. /\ page[InitRoot] = BranchNode(InitTxId - 1, c)
        /\ \A l \in Leaves : page[c[l]] = LeafNode(InitTxId - 1, InitVal)
    BY <2>1, <2>2 DEF InitPage
  <2>4. page[InitRoot].child = c /\ page[InitRoot].type = "branch"
    BY <2>3 DEF BranchNode
  <2>5. ASSUME NEW v \in LiveVersions
        PROVE  v.user_root = InitRoot /\ v.txid \in TxIds /\ v.txid >= InitTxId - 1
    BY <1>2 DEF LiveVersions, ViewVersions, SlotVersions, Init, Slot, InitMeta, InitTxId
  <2>6. ASSUME NEW v \in LiveVersions PROVE Intact(v)
    <3>1. IsTree(page, InitRoot) /\ Injective(page[InitRoot].child)
      BY <2>1, <2>2, <2>3, <2>4 DEF IsTree, Injective, LeafNode
    <3>2. Contents(page, InitRoot) = committed[v.txid]
      BY <2>3, <2>4, <2>5 DEF Contents, LeafNode, Init, NoWork
    <3>3. \A p \in PageIds : p < InitPageCount /\ page[p].last_modified_txid = InitTxId - 1 => Kept(v, p)
      BY <1>2, <2>5 DEF Kept, Slot, InitMeta, Init
    <3>4. Kept(v, InitRoot) /\ \A l \in Leaves : Kept(v, c[l])
      BY <2>2, <2>3, <3>3 DEF BranchNode, LeafNode
    <3>5. QED
      BY <2>4, <2>5, <3>1, <3>2, <3>4 DEF Intact
  <2>7. QED
    BY <2>6 DEF VersionInv
<1>6. QED
  BY <1>1, <1>3, <1>4, <1>5 DEF IInv

\* IInv is inductive: the types, the meta pages, the pager, the versions that
\* can be read and the writer's tree are consistent after every handler, every
\* reopening and every crash.
THEOREM Invariance == Spec => []IInv
<1>1. IInv /\ [Next]_vars => IInv'
  BY TypeStep, SlotStep, PagerStep, VersionStep, WriterStep DEF IInv
<1>2. QED
  BY <1>1, InitIInv, PTL DEF Spec

\* Every variable keeps its type; page ids and the page count stay within
\* kPageMaxCount, transaction ids below kTxInvalidId.
THEOREM TypeCorrect == Spec => []TypeOK
<1>1. IInv => TypeOK
  BY DEF IInv, TypeInv
<1>2. QED
  BY <1>1, Invariance, PTL

\* Snapshot isolation (TxManager::View, TxImpl::CopyNeeded, Pager::Release):
\* an open view reads what the transaction it began from committed.
THEOREM SnapshotIsolationHolds == Spec => []SnapshotIsolation
<1>1. IInv => SnapshotIsolation
  BY DEF IInv, VersionInv, LiveVersions, Intact, SnapshotIsolation
<1>2. QED
  BY <1>1, Invariance, PTL

\* Atomic commit and rollback (TxManager::Commit, TxManager::RollBack): the
\* committed meta struct leads to what the last commit put.
THEOREM CommittedStateReadableHolds == Spec => []CommittedStateReadable
<1>1. IInv => CommittedStateReadable
  <2> SUFFICES ASSUME IInv, MetaLockFree
               PROVE  /\ IsTree(page, meta.user_root)
                      /\ Contents(page, meta.user_root) = committed[meta.txid]
    BY DEF CommittedStateReadable
  <2>1. Intact([txid |-> CurSlot.meta.txid, user_root |-> CurSlot.meta.user_root])
    BY CurVersion DEF IInv, VersionInv
  <2>2. meta = CurSlot.meta
    BY DEF IInv, SlotInv
  <2>3. QED
    BY <2>1, <2>2 DEF Intact
<1>2. QED
  BY <1>1, Invariance, PTL

\* The writer reads its own writes (BTreeIterator::CopyAllPagesByPath): path
\* copying disturbs no other leaf.
THEOREM WriterSeesItsWritesHolds == Spec => []WriterSeesItsWrites
<1>1. IInv => WriterSeesItsWrites
  BY DEF IInv, WriterInv, WriterSeesItsWrites
<1>2. QED
  BY <1>1, Invariance, PTL

\* Crash atomicity (Pager::WriteAllDirtyPages before Meta::Save): the versions
\* of both meta pages are whole on disk and untouched in memory.
THEOREM DurableVersionsIntactHolds == Spec => []DurableVersionsIntact
<1>1. IInv => DurableVersionsIntact
  <2> SUFFICES ASSUME IInv PROVE DurableVersionsIntact
    OBVIOUS
  <2>0. TypeInv /\ SlotInv /\ VersionInv
    BY DEF IInv
  <2>1. slots[LoadIndex(slots)].crc = "good"
    BY <2>0, SlotTypes DEF SlotInv, LoadIndex, Newer, CurSlot, OtherSlot
  <2>2. ASSUME NEW v \in SlotVersions
        PROVE  /\ IsTree(disk, v.user_root)
               /\ Contents(disk, v.user_root) = committed[v.txid]
               /\ \A p \in TreePages(disk, v.user_root) : page[p] = disk[p]
    <3>1. /\ Intact(v)
          /\ \A p : PageOf(v, p) => disk[p] = page[p]
      BY <2>0, LiveVersion DEF LiveVersions, Kept
    <3>2. /\ disk[v.user_root] = page[v.user_root]
          /\ \A l \in Leaves : disk[page[v.user_root].child[l]] = page[page[v.user_root].child[l]]
      BY <3>1 DEF PageOf
    <3>3. QED
      BY <3>1, <3>2 DEF Intact, IsTree, Contents, TreePages
  <2>3. QED
    BY <2>1, <2>2 DEF DurableVersionsIntact
<1>2. QED
  BY <1>1, Invariance, PTL

\* Durability (Meta::Switch, Meta::Save, Meta::Load): a commit that returned is
\* never older than what a crash and DB::Open bring back.
THEOREM AckedCommitSurvivesHolds == Spec => []AckedCommitSurvives
<1>1. IInv => AckedCommitSurvives
  <2> SUFFICES ASSUME IInv, MetaLockFree PROVE meta.txid >= acked
    BY DEF AckedCommitSurvives
  <2>1. acked <= CurSlot.meta.txid /\ meta = CurSlot.meta
    BY DEF IInv, SlotInv
  <2>2. acked \in Nat /\ CurSlot.meta.txid \in Nat
    BY Consts, SlotTypes DEF IInv, TypeInv, TypeOK
  <2>3. QED
    BY <2>1, <2>2
<1>2. QED
  BY <1>1, Invariance, PTL

\* Reclamation is safe (Pager::Free, Pager::Release): no page of a version that
\* can still be read is free, or pending for a transaction the version saw.
THEOREM LivePagesNotFreeHolds == Spec => []LivePagesNotFree
<1>1. IInv => LivePagesNotFree
  <2>1. ASSUME IInv, NEW v \in LiveVersions, NEW p \in TreePages(page, v.user_root)
        PROVE  Kept(v, p)
    BY <2>1 DEF IInv, VersionInv, Intact, TreePages
  <2>2. QED
    BY <2>1 DEF LivePagesNotFree, Kept
<1>2. QED
  BY <1>1, Invariance, PTL

\* No page is freed twice (the assertion in Pager::FreeToMap): free map and
\* pending lists are disjoint.
THEOREM NoDoubleFreeHolds == Spec => []NoDoubleFree
<1>1. IInv => NoDoubleFree
  BY DEF IInv, PagerInv, NoDoubleFree
<1>2. QED
  BY <1>1, Invariance, PTL

\* No step overwrites a page of a version that can still be read, whatever the
\* writer reuses, whatever the file is cut to, whatever a crash loses.
THEOREM LivePagesNeverOverwrittenHolds == Spec => LivePagesNeverOverwritten
<1> DEFINE Kept1 == \A v \in LiveVersions : \A p \in TreePages(page, v.user_root) : page'[p] = page[p]
<1>1. IInv /\ [Next]_vars => [Kept1]_vars
  <2> SUFFICES ASSUME TypeInv, SlotInv, VersionInv, WriterInv, Next,
                      NEW v \in LiveVersions, NEW p \in TreePages(page, v.user_root)
               PROVE  page'[p] = page[p]
    BY DEF IInv
  <2> USE Consts, SlotTypes
  <2>1. PageOf(v, p)
    BY DEF TreePages, PageOf
  <2>2. p \in PageIds /\ p < CurSlot.meta.page_count /\ disk[p] = page[p]
    BY <2>1, LiveVersion DEF Kept
  <2>3. ASSUME writer = "open",
               \E taken, replaced \in SUBSET PageIds : WriterStepOn(taken, replaced)
        PROVE  page'[p] = page[p]
    BY <2>1, <2>3, LivePagesOffLimits DEF WriterStepOn
  <2>4. CASE \E l \in Leaves, x \in Values : Put(l, x)
    BY <2>3, <2>4, PutPages DEF Put
  <2>5. CASE Commit
    BY <2>3, <2>5, CommitPages DEF Commit
  <2>6. CASE CloseAndOpen
    BY <2>2, <2>6 DEF CloseAndOpen, Open, SlotInv, MetaLockFree
  <2>7. CASE Crash
    BY <2>2, <2>7 DEF Crash, Open
  <2>8. QED
    BY <2>4, <2>5, <2>6, <2>7
    DEF Next, Update, View, RollBackView, RollBack, WriteAllDirtyPages, SwitchAndSave
<1>2. QED
  BY <1>1, Invariance, PTL DEF Spec, LivePagesNeverOverwritten

=============================================================================
