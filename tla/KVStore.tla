------------------------------ MODULE KVStore ------------------------------
(***************************************************************************)
(* What atomkv promises its users ("支持事务，遵循ACID特性", "基于MVCC的读写    *)
(* 事务并发", readme.md): one write transaction at a time, read transactions*)
(* that each see the store as it was when they began, commits that take    *)
(* effect as a whole, and crashes that lose nothing that was committed.    *)
(* There are no pages, no meta structs and no locks here.                  *)
(***************************************************************************)
CONSTANTS
    Readers,
    Keys,
    Values,
    InitVal

VARIABLES
    store,   \* the committed contents
    phase,   \* of the write transaction: "none", "active", "committing"
    work,    \* the contents as the write transaction sees them
    snap     \* the contents each open read transaction sees

vars == <<store, phase, work, snap>>

NoWork == [k \in Keys |-> InitVal]
NoSnap == [r \in {} |-> NoWork]

Init ==
    /\ store = NoWork
    /\ phase = "none"
    /\ work = NoWork
    /\ snap = NoSnap

Update ==
    /\ phase = "none"
    /\ phase' = "active"
    /\ work' = store
    /\ UNCHANGED <<store, snap>>

Put(k, v) ==
    /\ phase = "active"
    /\ work' = [work EXCEPT ![k] = v]
    /\ UNCHANGED <<store, phase, snap>>

RollBack ==
    /\ phase = "active"
    /\ phase' = "none"
    /\ work' = NoWork
    /\ UNCHANGED <<store, snap>>

\* From here on the transaction either takes effect or is lost in a crash.
BeginCommit ==
    /\ phase = "active"
    /\ phase' = "committing"
    /\ UNCHANGED <<store, work, snap>>

EndCommit ==
    /\ phase = "committing"
    /\ store' = work
    /\ phase' = "none"
    /\ work' = NoWork
    /\ UNCHANGED snap

View(r) ==
    /\ r \notin DOMAIN snap
    /\ snap' = [x \in DOMAIN snap \cup {r} |-> IF x = r THEN store ELSE snap[x]]
    /\ UNCHANGED <<store, phase, work>>

RollBackView(r) ==
    /\ r \in DOMAIN snap
    /\ snap' = [x \in DOMAIN snap \ {r} |-> snap[x]]
    /\ UNCHANGED <<store, phase, work>>

\* A crash ends all transactions; a commit under way may have taken effect.
Crash ==
    /\ store' = store \/ (phase = "committing" /\ store' = work)
    /\ phase' = "none"
    /\ work' = NoWork
    /\ snap' = NoSnap

Next ==
    \/ Update
    \/ \E k \in Keys, v \in Values : Put(k, v)
    \/ RollBack
    \/ BeginCommit
    \/ EndCommit
    \/ \E r \in Readers : View(r) \/ RollBackView(r)
    \/ Crash

Spec == Init /\ [][Next]_vars
=============================================================================
