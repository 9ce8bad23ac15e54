---------------------------- MODULE LocksProofs ----------------------------
(***************************************************************************)
(* Proofs about Locks, for any set of threads and any bounds: the locks    *)
(* exclude each other's holders, a reader's pointers stay mapped and       *)
(* Update() leaves no old mapping behind.  That every call returns is      *)
(* liveness and stays with TLC.                                            *)
(***************************************************************************)
EXTENDS Locks, FiniteSetTheorems, TLAPS

\* The points of Update(), Remmap() and Commit() or RollBack() where the thread
\* has update_lock; between the calls of its transaction it is "idle".
Writes(t) == pc[t] \in {"clear", "update_meta", "remmap", "ending"}

\* The thread may be held up, or be looked at, while it holds meta_lock.
InMeta(t) == pc[t] \in {"view_share", "ending"}

\* One writer: a thread that writes is the holder of update_lock, and one that
\* waits for it is not.
OneWriter ==
    /\ \A t, u \in update_lock : t = u
    /\ \A t \in Threads : /\ Writes(t) => t \in update_lock
                          /\ pc[t] = "update" => t \notin update_lock

\* One thread changes or reads the meta information and the table of views.
OneInMeta ==
    /\ meta_lock = {t \in Threads : InMeta(t)}
    /\ \A t, u \in Threads : InMeta(t) /\ InMeta(u) => t = u

\* A view shares db_mmap_lock_ from the end of its constructor on, and a thread
\* has a page pointer only while it has such a view.
ViewsShare ==
    \A t \in Threads :
        /\ t \in views => \/ pc[t] = "view_share"
                          \/ pc[t] \notin {"view", "unshare"} /\ t \in mmap_shared
        /\ ptr[t] # None => t \in views /\ t \in mmap_shared /\ pc[t] # "view_share"

\* db_mmap_ is empty only in the middle of Remmap; the mappings that wait were
\* made before it, and one of them is the latest.
MapsInOrder ==
    /\ db_mmap = None <=> \E t \in Threads : pc[t] = "remmap"
    /\ db_mmap = None => pending # {}
    /\ db_mmap # None => \A m \in pending : m < db_mmap
    /\ \A m \in pending : m < MaxMaps
    /\ pending # {} => \E m \in pending : \A n \in pending : n <= m

\* Nothing waits to be unmapped when Update() goes on to copy the meta struct.
ClearedInUpdate == \A t \in Threads : pc[t] = "update_meta" => pending = {}

IInv ==
    /\ TypeOK
    /\ OneWriter
    /\ OneInMeta
    /\ ViewsShare
    /\ MapsInOrder
    /\ ClearedInUpdate
    /\ PointersStayMapped

-----------------------------------------------------------------------------

\* The empty set and sets of one element have at most one element.
LEMMA AtMostOne ==
    /\ Cardinality({}) <= 1
    /\ \A t \in Threads : Cardinality({t}) <= 1
  BY FS_EmptySet, FS_Singleton

\* The initial state satisfies the inductive invariant.
LEMMA InitInv == Init => IInv
  <1> SUFFICES ASSUME Init PROVE IInv
    OBVIOUS
  <1> USE DEF Init, None, Mappings, Writes, InMeta
  <1>1. TypeOK
    BY LocksAssumption, AtMostOne DEF TypeOK
  <1>2. OneWriter /\ OneInMeta /\ ViewsShare /\ ClearedInUpdate /\ PointersStayMapped
    BY DEF OneWriter, OneInMeta, ViewsShare, ClearedInUpdate, PointersStayMapped
  <1>3. MapsInOrder
    BY DEF MapsInOrder
  <1>4. QED
    BY <1>1, <1>2, <1>3 DEF IInv

\* A view is asked for.
LEMMA CallViewInv ==
    ASSUME IInv, NEW t \in Threads, CallView(t)
    PROVE  IInv'
  <1> USE DEF IInv, TypeOK, CallView, Goto, lockVars, mmapVars, None, Mappings, Begin
  <1>1. TypeOK'
    BY LocksAssumption, AtMostOne
  <1>2. OneWriter'
    BY DEF OneWriter, Writes
  <1>3. OneInMeta'
    BY DEF OneInMeta, InMeta
  <1>4. ViewsShare'
    BY DEF ViewsShare
  <1>5. MapsInOrder' /\ ClearedInUpdate' /\ PointersStayMapped'
    BY DEF OneWriter, Writes, MapsInOrder, ClearedInUpdate, PointersStayMapped, ViewsShare
  <1>6. QED
    BY <1>1, <1>2, <1>3, <1>4, <1>5

\* The view is entered under meta_lock.
LEMMA ViewLockMetaInv ==
    ASSUME IInv, NEW t \in Threads, ViewLockMeta(t)
    PROVE  IInv'
  <1> USE DEF IInv, TypeOK, ViewLockMeta, Goto, lockVars, mmapVars, None, Mappings
  <1>1. TypeOK'
    BY LocksAssumption, AtMostOne
  <1>2. OneInMeta'
    BY DEF OneInMeta, InMeta
  <1>3. ViewsShare'
    BY DEF ViewsShare
  <1>4. OneWriter' /\ MapsInOrder' /\ ClearedInUpdate' /\ PointersStayMapped'
    BY DEF OneWriter, Writes, MapsInOrder, ClearedInUpdate, PointersStayMapped, ViewsShare
  <1>5. QED
    BY <1>1, <1>2, <1>3, <1>4

\* The view shares the mappings and lets go of meta_lock.
LEMMA ViewShareMmapInv ==
    ASSUME IInv, NEW t \in Threads, ViewShareMmap(t)
    PROVE  IInv'
  <1> USE DEF IInv, TypeOK, ViewShareMmap, Goto, lockVars, mmapVars, None, Mappings, WantExclusive
  <1>1. TypeOK'
    BY LocksAssumption, AtMostOne
  <1>2. OneInMeta'
    BY DEF OneInMeta, InMeta
  <1>3. ViewsShare'
    BY DEF ViewsShare
  <1>4. OneWriter' /\ MapsInOrder' /\ ClearedInUpdate' /\ PointersStayMapped'
    BY DEF OneWriter, Writes, MapsInOrder, ClearedInUpdate, PointersStayMapped, ViewsShare
  <1>5. QED
    BY <1>1, <1>2, <1>3, <1>4

\* A reader's pointer is into the mapping of the moment.
LEMMA GetPtrInv ==
    ASSUME IInv, NEW t \in Threads, GetPtr(t)
    PROVE  IInv'
  <1> USE DEF IInv, TypeOK, GetPtr, Goto, lockVars, mmapVars, None, Mappings
  <1>1. TypeOK'
    BY LocksAssumption, AtMostOne
  <1>2. ViewsShare'
    BY DEF ViewsShare
  <1>3. PointersStayMapped'
    BY DEF PointersStayMapped, ViewsShare, MapsInOrder
  <1>4. OneWriter' /\ OneInMeta' /\ MapsInOrder' /\ ClearedInUpdate'
    BY DEF OneWriter, Writes, OneInMeta, InMeta, MapsInOrder, ClearedInUpdate
  <1>5. QED
    BY <1>1, <1>2, <1>3, <1>4

\* A view is to end.
LEMMA CallEndViewInv ==
    ASSUME IInv, NEW t \in Threads, CallEndView(t)
    PROVE  IInv'
  <1> USE DEF IInv, TypeOK, CallEndView, Goto, lockVars, mmapVars, None, Mappings
  <1>1. TypeOK'
    BY LocksAssumption, AtMostOne
  <1>2. ViewsShare'
    BY DEF ViewsShare
  <1>3. OneWriter' /\ OneInMeta' /\ MapsInOrder' /\ ClearedInUpdate' /\ PointersStayMapped'
    BY DEF OneWriter, Writes, OneInMeta, InMeta, MapsInOrder, ClearedInUpdate, PointersStayMapped, ViewsShare
  <1>4. QED
    BY <1>1, <1>2, <1>3

\* The view leaves the table, and its pointer is gone.
LEMMA EndViewLockMetaInv ==
    ASSUME IInv, NEW t \in Threads, EndViewLockMeta(t)
    PROVE  IInv'
  <1> USE DEF IInv, TypeOK, EndViewLockMeta, Goto, lockVars, mmapVars, None, Mappings
  <1>1. TypeOK'
    BY LocksAssumption, AtMostOne
  <1>2. ViewsShare'
    BY DEF ViewsShare
  <1>3. PointersStayMapped'
    BY DEF PointersStayMapped, ViewsShare, MapsInOrder
  <1>4. OneWriter' /\ OneInMeta' /\ MapsInOrder' /\ ClearedInUpdate'
    BY DEF OneWriter, Writes, OneInMeta, InMeta, MapsInOrder, ClearedInUpdate
  <1>5. QED
    BY <1>1, <1>2, <1>3, <1>4

\* No pointer is left that needs the mappings.
LEMMA UnshareMmapInv ==
    ASSUME IInv, NEW t \in Threads, UnshareMmap(t)
    PROVE  IInv'
  <1> USE DEF IInv, TypeOK, UnshareMmap, Goto, lockVars, mmapVars, None, Mappings
  <1>1. TypeOK'
    BY LocksAssumption, AtMostOne
  <1>2. ViewsShare'
    BY DEF ViewsShare
  <1>3. OneWriter' /\ OneInMeta' /\ MapsInOrder' /\ ClearedInUpdate' /\ PointersStayMapped'
    BY DEF OneWriter, Writes, OneInMeta, InMeta, MapsInOrder, ClearedInUpdate, PointersStayMapped, ViewsShare
  <1>4. QED
    BY <1>1, <1>2, <1>3

\* A write transaction is asked for.
LEMMA CallUpdateInv ==
    ASSUME IInv, NEW t \in Threads, CallUpdate(t)
    PROVE  IInv'
  <1> USE DEF IInv, TypeOK, CallUpdate, Goto, lockVars, mmapVars, None, Mappings, Begin
  <1>1. TypeOK'
    BY LocksAssumption, AtMostOne
  <1>2. OneWriter'
    BY DEF OneWriter, Writes
  <1>3. ViewsShare'
    BY DEF ViewsShare
  <1>4. OneInMeta' /\ MapsInOrder' /\ ClearedInUpdate' /\ PointersStayMapped'
    BY DEF OneInMeta, InMeta, OneWriter, Writes, MapsInOrder, ClearedInUpdate, PointersStayMapped, ViewsShare
  <1>5. QED
    BY <1>1, <1>2, <1>3, <1>4

\* The writer goes by ClearPendingMmap only if nothing waits.
LEMMA UpdateLockInv ==
    ASSUME IInv, NEW t \in Threads, UpdateLock(t)
    PROVE  IInv'
  <1> USE DEF IInv, TypeOK, UpdateLock, Goto, lockVars, mmapVars, None, Mappings
  <1>1. TypeOK'
    BY LocksAssumption, AtMostOne
  <1>2. OneWriter'
    BY DEF OneWriter, Writes
  <1>3. ClearedInUpdate'
    BY DEF ClearedInUpdate, OneWriter, Writes
  <1>4. OneInMeta' /\ ViewsShare' /\ MapsInOrder' /\ PointersStayMapped'
    BY DEF OneInMeta, InMeta, ViewsShare, OneWriter, Writes, MapsInOrder, PointersStayMapped
  <1>5. QED
    BY <1>1, <1>2, <1>3, <1>4

\* Nobody has a pointer when the old mappings are unmapped.
LEMMA ClearPendingMmapInv ==
    ASSUME IInv, NEW t \in Threads, ClearPendingMmap(t)
    PROVE  IInv'
  <1> USE DEF IInv, TypeOK, ClearPendingMmap, Goto, lockVars, mmapVars, None, Mappings
  <1>1. TypeOK'
    BY LocksAssumption, AtMostOne
  <1>2. MapsInOrder'
    BY LocksAssumption DEF OneWriter, Writes, MapsInOrder
  <1>3. ClearedInUpdate'
    BY DEF ClearedInUpdate, OneWriter, Writes
  <1>4. PointersStayMapped'
    BY DEF PointersStayMapped, ViewsShare, MapsInOrder
  <1>5. OneWriter' /\ OneInMeta' /\ ViewsShare'
    BY DEF OneWriter, Writes, OneInMeta, InMeta, ViewsShare
  <1>6. QED
    BY <1>1, <1>2, <1>3, <1>4, <1>5

\* The meta struct is copied.
LEMMA UpdateLockMetaInv ==
    ASSUME IInv, NEW t \in Threads, UpdateLockMeta(t)
    PROVE  IInv'
  <1> USE DEF IInv, TypeOK, UpdateLockMeta, Goto, lockVars, mmapVars, None, Mappings
  <1>1. TypeOK'
    BY LocksAssumption, AtMostOne
  <1>2. OneWriter'
    BY DEF OneWriter, Writes
  <1>3. OneInMeta' /\ ViewsShare' /\ MapsInOrder' /\ ClearedInUpdate' /\ PointersStayMapped'
    BY DEF OneInMeta, InMeta, ViewsShare, OneWriter, Writes, MapsInOrder, ClearedInUpdate, PointersStayMapped
  <1>4. QED
    BY <1>1, <1>2, <1>3

\* The mapping of the moment becomes the latest that waits.
LEMMA RemmapMoveInv ==
    ASSUME IInv, NEW t \in Threads, RemmapMove(t)
    PROVE  IInv'
  <1> USE DEF IInv, TypeOK, RemmapMove, Goto, lockVars, mmapVars, None, Mappings
  <1>0. db_mmap # None
    BY DEF OneWriter, Writes, MapsInOrder
  <1>1. TypeOK'
    BY <1>0, LocksAssumption, AtMostOne
  <1>2. OneWriter'
    BY DEF OneWriter, Writes
  <1>3. MapsInOrder'
    BY LocksAssumption DEF OneWriter, Writes, MapsInOrder
  <1>4. PointersStayMapped'
    BY DEF PointersStayMapped, ViewsShare, MapsInOrder
  <1>5. OneInMeta' /\ ViewsShare' /\ ClearedInUpdate'
    BY DEF OneInMeta, InMeta, ViewsShare, ClearedInUpdate, OneWriter, Writes
  <1>6. QED
    BY <1>1, <1>2, <1>3, <1>4, <1>5

\* A new mapping is made.
LEMMA RemmapMapInv ==
    ASSUME IInv, NEW t \in Threads, RemmapMap(t)
    PROVE  IInv'
  <1> DEFINE max == CHOOSE m \in pending : \A n \in pending : n <= m
  <1>1. max \in pending /\ \A n \in pending : n <= max
    <2>1. \E m \in pending : \A n \in pending : n <= m
      BY DEF IInv, MapsInOrder, RemmapMap, Goto
    <2>2. QED
      BY <2>1
  <1>2. db_mmap' = 1 + max
    BY DEF RemmapMap
  <1>3. /\ Goto(t, "remmap", "idle")
        /\ UNCHANGED <<calls, lockVars, views, ptr, pending, prefers_writers>>
    BY DEF RemmapMap
  <1> HIDE DEF max
  <1> USE <1>3 DEF IInv, TypeOK, Goto, lockVars, None, Mappings
  <1>4. max \in Int /\ max < MaxMaps
    BY <1>1, LocksAssumption DEF MapsInOrder
  <1>5. TypeOK'
    BY <1>1, <1>2, <1>4, LocksAssumption, AtMostOne
  <1>6. OneWriter'
    BY DEF OneWriter, Writes
  <1>7. MapsInOrder'
    <2>1. db_mmap' # None /\ ~ \E u \in Threads : pc'[u] = "remmap"
      BY <1>2, <1>4, <1>5, <1>1 DEF OneWriter, Writes
    <2>2. \A m \in pending : m < db_mmap'
      BY <1>1, <1>2, <1>4, LocksAssumption
    <2>3. QED
      BY <2>1, <2>2 DEF MapsInOrder
  <1>8. PointersStayMapped'
    BY DEF PointersStayMapped, MapsInOrder
  <1>9. OneInMeta' /\ ViewsShare' /\ ClearedInUpdate'
    BY DEF OneInMeta, InMeta, ViewsShare, ClearedInUpdate, OneWriter, Writes
  <1>10. QED
    BY <1>5, <1>6, <1>7, <1>8, <1>9

\* Commit() and RollBack() wait for meta_lock.
LEMMA EndLockMetaInv ==
    ASSUME IInv, NEW t \in Threads, EndLockMeta(t)
    PROVE  IInv'
  <1> USE DEF IInv, TypeOK, EndLockMeta, Goto, lockVars, mmapVars, None, Mappings
  <1>1. TypeOK'
    BY LocksAssumption, AtMostOne
  <1>2. OneWriter'
    BY DEF OneWriter, Writes
  <1>3. OneInMeta'
    BY DEF OneInMeta, InMeta
  <1>4. ViewsShare' /\ MapsInOrder' /\ ClearedInUpdate' /\ PointersStayMapped'
    BY DEF ViewsShare, OneWriter, Writes, MapsInOrder, ClearedInUpdate, PointersStayMapped
  <1>5. QED
    BY <1>1, <1>2, <1>3, <1>4

\* Both locks are given back.
LEMMA EndUnlockInv ==
    ASSUME IInv, NEW t \in Threads, EndUnlock(t)
    PROVE  IInv'
  <1> USE DEF IInv, TypeOK, EndUnlock, Goto, lockVars, mmapVars, None, Mappings
  <1>1. TypeOK'
    BY LocksAssumption, AtMostOne
  <1>2. OneWriter'
    BY DEF OneWriter, Writes
  <1>3. OneInMeta'
    BY DEF OneInMeta, InMeta
  <1>4. ViewsShare' /\ MapsInOrder' /\ ClearedInUpdate' /\ PointersStayMapped'
    BY DEF ViewsShare, OneWriter, Writes, MapsInOrder, ClearedInUpdate, PointersStayMapped
  <1>5. QED
    BY <1>1, <1>2, <1>3, <1>4

\* Every step of a thread preserves the inductive invariant.
LEMMA NextInv == IInv /\ [Next]_vars => IInv'
  <1> SUFFICES ASSUME IInv, [Next]_vars PROVE IInv'
    OBVIOUS
  <1>1. CASE UNCHANGED vars
    BY <1>1 DEF IInv, TypeOK, OneWriter, Writes, OneInMeta, InMeta, ViewsShare, MapsInOrder,
                ClearedInUpdate, PointersStayMapped, vars
  <1>2. CASE Next
    <2>1. PICK t \in Threads :
             \/ Proceed(t) \/ CallView(t) \/ CallUpdate(t) \/ GetPtr(t) \/ RemmapMove(t)
      BY <1>2 DEF Next
    <2>2. CASE Proceed(t)
      BY <2>2, ViewLockMetaInv, ViewShareMmapInv, CallEndViewInv, EndViewLockMetaInv,
         UnshareMmapInv, UpdateLockInv, ClearPendingMmapInv, UpdateLockMetaInv, RemmapMapInv,
         EndLockMetaInv, EndUnlockInv
         DEF Proceed
    <2>3. QED
      BY <2>1, <2>2, CallViewInv, CallUpdateInv, GetPtrInv, RemmapMoveInv
  <1>3. QED
    BY <1>1, <1>2

\* The inductive invariant holds throughout: in particular update_lock and
\* meta_lock, which TxManager's functions take by hand, each have one holder,
\* and a view shares db_mmap_lock_ for as long as it can have a pointer.
THEOREM Invariance == Spec => []IInv
  <1>1. QED
    BY InitInv, NextInv, PTL DEF Spec

\* The locks and mappings of TxManager and DBImpl have their types.
THEOREM TypeCorrect == Spec => []TypeOK
  <1>1. IInv => TypeOK
    BY DEF IInv
  <1>2. QED
    BY <1>1, Invariance, PTL

\* No mapping is unmapped by DBImpl::ClearPendingMmap while a reader's page
\* pointer (Pager::GetPtr) points into it, for any number of threads, views and
\* calls of DBImpl::Remmap.
THEOREM PointersStayMappedHolds == Spec => []PointersStayMapped
  <1>1. IInv => PointersStayMapped
    BY DEF IInv
  <1>2. QED
    BY <1>1, Invariance, PTL

\* When TxManager::Update returns, all the mappings that earlier transactions
\* left in db_mmap_pending_ have been unmapped.
THEOREM PendingClearedByUpdateHolds == Spec => PendingClearedByUpdate
  <1> DEFINE Cleared == \A t \in Threads :
                           pc[t] = "update_meta" /\ pc'[t] = "idle" => pending' = {}
  <1>1. IInv /\ [Next]_vars => [Cleared]_vars
    <2> SUFFICES ASSUME IInv, Next,
                        NEW t \in Threads, pc[t] = "update_meta", pc'[t] = "idle"
                 PROVE  pending' = {}
      OBVIOUS
    <2>1. pending = {}
      BY DEF IInv, ClearedInUpdate
    <2>2. PICK u \in Threads :
             \/ Proceed(u) \/ CallView(u) \/ CallUpdate(u) \/ GetPtr(u) \/ RemmapMove(u)
      BY DEF Next
    <2>3. pc' = pc \/ \E q : pc' = [pc EXCEPT ![u] = q]
      BY <2>2 DEF Proceed, ViewLockMeta, ViewShareMmap, CallEndView, EndViewLockMeta, UnshareMmap,
                  UpdateLock, ClearPendingMmap, UpdateLockMeta, RemmapMap, EndLockMeta, EndUnlock,
                  CallView, CallUpdate, GetPtr, RemmapMove, Goto, Begin
    <2>4. u = t
      BY <2>3 DEF IInv, TypeOK
    <2>5. QED
      BY <2>1, <2>2, <2>4
         DEF Proceed, ViewLockMeta, ViewShareMmap, CallEndView, EndViewLockMeta, UnshareMmap,
             UpdateLock, ClearPendingMmap, UpdateLockMeta, RemmapMap, EndLockMeta, EndUnlock,
             CallView, CallUpdate, GetPtr, RemmapMove, Goto, Begin, mmapVars
  <1>2. QED
    BY <1>1, Invariance, PTL DEF Spec, PendingClearedByUpdate
=============================================================================
