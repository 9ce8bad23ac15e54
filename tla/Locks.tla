------------------------------- MODULE Locks -------------------------------
(***************************************************************************)
(* The threads of a process, the three locks they share and the mappings   *)
(* of the database file:                                                   *)
(*   update_lock   held from Update() to the end of Commit() or RollBack();*)
(*   meta_lock     held inside View(), ~ViewTx, Update(), Commit() and     *)
(*                 RollBack();                                             *)
(*   db_mmap_lock_ shared by every view for its lifetime, exclusive while  *)
(*                 Update() unmaps the mappings that Remmap has replaced.  *)
(* One action is what a thread does between two points where it can be     *)
(* held up, or where another thread can look at what it is changing.       *)
(* What the transactions do to pages is the subject of TxManager.          *)
(*                                                                         *)
(* Between calls a thread is "idle", with a view, a write transaction, both*)
(* or neither: tx_manager_test.cpp opens a view in a write transaction and *)
(* begins a write transaction with a view open, all in one thread.         *)
(***************************************************************************)
EXTENDS Integers, FiniteSets

CONSTANTS
    Threads,
    MaxCalls,   \* bound on the transactions a thread begins
    MaxMaps     \* bound on the mappings ever made

ASSUME LocksAssumption == MaxCalls \in Nat /\ MaxMaps \in Nat \ {0}

None     == 0
Mappings == 1 .. MaxMaps

VARIABLES
    pc,           \* where each thread is
    calls,        \* auxiliary: transactions each thread has begun
    update_lock,  \* the set of its holders
    meta_lock,
    mmap_shared,  \* the threads that share db_mmap_lock_
    views,        \* the threads in view_tx_map_
    ptr,          \* the mapping a reader's page pointer points into
    db_mmap,      \* DBImpl::db_mmap_
    pending,      \* DBImpl::db_mmap_pending_
    prefers_writers  \* does a thread that waits for db_mmap_lock_ exclusively
                     \* keep out those that want to share it?  The standard
                     \* leaves that to the library.

vars == <<pc, calls, update_lock, meta_lock, mmap_shared, views, ptr, db_mmap, pending,
          prefers_writers>>

lockVars == <<update_lock, meta_lock, mmap_shared>>
mmapVars == <<db_mmap, pending, prefers_writers>>

Init ==
    /\ pc = [t \in Threads |-> "idle"]
    /\ calls = [t \in Threads |-> 0]
    /\ update_lock = {} /\ meta_lock = {} /\ mmap_shared = {}
    /\ views = {}
    /\ ptr = [t \in Threads |-> None]
    /\ db_mmap = 1
    /\ pending = {}
    /\ prefers_writers \in BOOLEAN

Goto(t, from, to) == pc[t] = from /\ pc' = [pc EXCEPT ![t] = to]

Begin(t, to) ==
    /\ Goto(t, "idle", to)
    /\ calls[t] < MaxCalls
    /\ calls' = [calls EXCEPT ![t] = @ + 1]
    /\ UNCHANGED <<lockVars, views, ptr, mmapVars>>

-----------------------------------------------------------------------------
(* TxManager::View: meta_lock, then the constructor of ViewTx shares        *)
(* db_mmap_lock_ while meta_lock is still held.                             *)

CallView(t) == t \notin mmap_shared /\ Begin(t, "view")

\* Mutant of ViewLockMeta: meta_lock is not waited for.
ViewTakeMeta(t) ==
    /\ Goto(t, "view", "view_share")
    /\ meta_lock' = meta_lock \cup {t}
    /\ views' = views \cup {t}
    /\ UNCHANGED <<calls, update_lock, mmap_shared, ptr, mmapVars>>

ViewLockMeta(t) ==
    /\ Goto(t, "view", "view_share")
    /\ meta_lock = {}
    /\ meta_lock' = {t}
    /\ views' = views \cup {t}
    /\ UNCHANGED <<calls, update_lock, mmap_shared, ptr, mmapVars>>

WantExclusive == {t \in Threads : pc[t] = "clear"}

ViewShareMmap(t) ==
    /\ Goto(t, "view_share", "idle")
    /\ prefers_writers => WantExclusive = {}
    /\ mmap_shared' = mmap_shared \cup {t}
    /\ meta_lock' = {}
    /\ UNCHANGED <<calls, update_lock, views, ptr, mmapVars>>

\* Pager::GetPtr: a reader takes the address of a page from db_mmap_.
GetPtr(t) ==
    /\ pc[t] = "idle" /\ t \in views
    /\ ptr[t] # db_mmap
    /\ ptr' = [ptr EXCEPT ![t] = db_mmap]
    /\ UNCHANGED <<pc, calls, lockVars, views, mmapVars>>

\* ~ViewTx: RollBack under meta_lock, then mmap_lock_ is destroyed.
CallEndView(t) ==
    /\ Goto(t, "idle", "end_view")
    /\ t \in views
    /\ UNCHANGED <<calls, lockVars, views, ptr, mmapVars>>

EndViewLockMeta(t) ==
    /\ Goto(t, "end_view", "unshare")
    /\ meta_lock = {}
    /\ views' = views \ {t}
    /\ ptr' = [ptr EXCEPT ![t] = None]
    /\ UNCHANGED <<calls, lockVars, mmapVars>>

UnshareMmap(t) ==
    /\ Goto(t, "unshare", "idle")
    /\ mmap_shared' = mmap_shared \ {t}
    /\ UNCHANGED <<calls, update_lock, meta_lock, views, ptr, mmapVars>>

-----------------------------------------------------------------------------
(* TxManager::Update, writing, TxManager::Commit and TxManager::RollBack.   *)

\* A second Update() in the same write transaction is the caller's error.
CallUpdate(t) == t \notin update_lock /\ Begin(t, "update")

\* Mutant of UpdateLock: ClearPendingMmap is not called.
UpdateLockWithoutClear(t) ==
    /\ Goto(t, "update", "update_meta")
    /\ update_lock = {}
    /\ update_lock' = {t}
    /\ UNCHANGED <<calls, meta_lock, mmap_shared, views, ptr, mmapVars>>

UpdateLock(t) ==
    /\ Goto(t, "update", IF pending = {} THEN "update_meta" ELSE "clear")
    /\ update_lock = {}
    /\ update_lock' = {t}
    /\ UNCHANGED <<calls, meta_lock, mmap_shared, views, ptr, mmapVars>>

\* Mutant of ClearPendingMmap: the lock is not taken.
ClearPendingMmapUnlocked(t) ==
    /\ Goto(t, "clear", "update_meta")
    /\ pending' = {}
    /\ UNCHANGED <<calls, lockVars, views, ptr, db_mmap, prefers_writers>>

\* DBImpl::ClearPendingMmap: wait for every view to end, then unmap.
ClearPendingMmap(t) ==
    /\ Goto(t, "clear", "update_meta")
    /\ mmap_shared = {}
    /\ pending' = {}
    /\ UNCHANGED <<calls, lockVars, views, ptr, db_mmap, prefers_writers>>

UpdateLockMeta(t) ==
    /\ Goto(t, "update_meta", "idle")
    /\ meta_lock = {}
    /\ UNCHANGED <<calls, lockVars, views, ptr, mmapVars>>

\* DBImpl::Remmap moves the mapping to db_mmap_pending_, which leaves db_mmap_
\* empty ...
RemmapMove(t) ==
    /\ Goto(t, "idle", "remmap")
    /\ t \in update_lock
    /\ db_mmap < MaxMaps
    /\ db_mmap' = None
    /\ pending' = pending \cup {db_mmap}
    /\ UNCHANGED <<calls, lockVars, views, ptr, prefers_writers>>

\* ... and maps the file again.
RemmapMap(t) ==
    /\ Goto(t, "remmap", "idle")
    /\ db_mmap' = 1 + CHOOSE m \in pending : \A n \in pending : n <= m
    /\ UNCHANGED <<calls, lockVars, views, ptr, pending, prefers_writers>>

\* Commit() or RollBack() takes meta_lock ...
EndLockMeta(t) ==
    /\ Goto(t, "idle", "ending")
    /\ t \in update_lock
    /\ meta_lock = {}
    /\ meta_lock' = {t}
    /\ UNCHANGED <<calls, update_lock, mmap_shared, views, ptr, mmapVars>>

\* Mutant of EndUnlock: update_lock is kept.
EndUnlockMetaOnly(t) ==
    /\ Goto(t, "ending", "idle")
    /\ meta_lock' = {}
    /\ UNCHANGED <<calls, update_lock, mmap_shared, views, ptr, mmapVars>>

\* ... and lets go of update_lock, then of meta_lock.
EndUnlock(t) ==
    /\ Goto(t, "ending", "idle")
    /\ update_lock' = {}
    /\ meta_lock' = {}
    /\ UNCHANGED <<calls, mmap_shared, views, ptr, mmapVars>>

-----------------------------------------------------------------------------

\* What a thread goes on with by itself once a call has begun; an application
\* also ends the views and the write transactions it has begun.
Proceed(t) ==
    \/ ViewLockMeta(t) \/ ViewShareMmap(t)
    \/ CallEndView(t) \/ EndViewLockMeta(t) \/ UnshareMmap(t)
    \/ UpdateLock(t) \/ ClearPendingMmap(t) \/ UpdateLockMeta(t)
    \/ RemmapMap(t)
    \/ EndLockMeta(t) \/ EndUnlock(t)

Next ==
    \E t \in Threads :
        \/ Proceed(t)
        \/ CallView(t) \/ CallUpdate(t)
        \/ GetPtr(t) \/ RemmapMove(t)

Spec == Init /\ [][Next]_vars /\ \A t \in Threads : WF_vars(Proceed(t))

-----------------------------------------------------------------------------
(* Properties.                                                              *)

TypeOK ==
    /\ pc \in [Threads -> {"idle", "view", "view_share", "end_view", "unshare",
                           "update", "clear", "update_meta", "remmap", "ending"}]
    /\ calls \in [Threads -> 0 .. MaxCalls]
    /\ update_lock \subseteq Threads /\ Cardinality(update_lock) <= 1
    /\ meta_lock \subseteq Threads /\ Cardinality(meta_lock) <= 1
    /\ mmap_shared \subseteq Threads
    /\ views \subseteq Threads
    /\ ptr \in [Threads -> Mappings \cup {None}]
    /\ db_mmap \in Mappings \cup {None}
    /\ pending \subseteq Mappings
    /\ prefers_writers \in BOOLEAN

\* A reader's page pointer stays valid: the mapping it points into is unmapped
\* only when the view has ended, however often the writer has mapped the file
\* again meanwhile (DBImpl::Remmap, DBImpl::ClearPendingMmap, ViewTx::mmap_lock_).
PointersStayMapped ==
    \A t \in Threads : ptr[t] # None => ptr[t] = db_mmap \/ ptr[t] \in pending

\* Mappings do not pile up: when a writer is through Update(), nothing but the
\* mappings made during its own transaction is waiting to be unmapped.
PendingClearedByUpdate ==
    [][\A t \in Threads : pc[t] = "update_meta" /\ pc'[t] = "idle" => pending' = {}]_vars

\* A writer in ClearPendingMmap waits for a view whose thread is in Update()
\* itself: it is the same thread, or one that waits for the writer.
UpdateUnderView ==
    \E t \in Threads, u \in mmap_shared : pc[t] = "clear" /\ pc[u] \in {"clear", "update"}

\* With a lock that prefers writers: a writer in ClearPendingMmap waits for a
\* view, the view's end for meta_lock, and its holder, in View(), for the writer.
ViewBehindWriter ==
    /\ prefers_writers
    /\ \E t, u \in Threads : pc[t] = "clear" /\ pc[u] = "view_share"
    /\ views \cap mmap_shared # {}

\* Every call returns, or threads wait for each other in one of these two ways:
\* there is no other way to wait for ever on update_lock, meta_lock and
\* db_mmap_lock_ (TxManager::View, TxManager::Update, TxManager::Commit, ~ViewTx,
\* DBImpl::ClearPendingMmap).  So no call is held up for ever if nobody calls
\* Update() with a view open and the lock does not prefer writers.
EveryCallReturns ==
    \A t \in Threads :
        pc[t] # "idle" ~> pc[t] = "idle" \/ UpdateUnderView \/ ViewBehindWriter
=============================================================================
