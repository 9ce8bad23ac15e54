------------------------------ MODULE PageSets ------------------------------
(***************************************************************************)
(* What the pager promises to transactions, in terms of single pages: a    *)
(* page handed out is used by nobody else, a page set free comes back only *)
(* when it is released, and a rollback leaves everything as it was when    *)
(* the transaction began.  TxManager treats pages this way; Pager shows    *)
(* that the code's lists of page ranges implement it.                      *)
(***************************************************************************)
EXTENDS Integers

CONSTANTS MaxTxId, InitCount, PageMaxCount

VARIABLES
    txid,        \* the last committed transaction
    is_open,     \* a write transaction is open
    free,        \* pages that may be handed out
    pending,     \* pages set free by each transaction, not yet released
    used,        \* pages of the tree, as the writer or the last commit has it
    page_count,  \* pages below are used, free, pending, or lost to free lists
    before       \* the other variables when the open transaction began, if any

vars == <<txid, is_open, free, pending, used, page_count, before>>

TxIds   == 0 .. MaxTxId
PageIds == 0 .. (PageMaxCount - 1)
NoState == [free |-> {}, pending |-> [t \in TxIds |-> {}], used |-> {}, page_count |-> InitCount]
State   == [free |-> free, pending |-> pending, used |-> used, page_count |-> page_count]

Init ==
    /\ txid = 1
    /\ is_open = FALSE
    /\ free = {}
    /\ pending = [t \in TxIds |-> {}]
    /\ used = 2 .. (InitCount - 1)
    /\ page_count = InitCount
    /\ before = NoState

\* Everything set free by transactions below r is released.
Update(r) ==
    /\ ~is_open
    /\ is_open' = TRUE
    /\ free' = free \cup UNION {pending[t] : t \in {u \in TxIds : u < r}}
    /\ pending' = [t \in TxIds |-> IF t < r THEN {} ELSE pending[t]]
    /\ before' = [State EXCEPT !.free = free', !.pending = pending']
    /\ UNCHANGED <<txid, used, page_count>>

\* S, a stretch of pages, is free or lies behind the last page.
Alloc(S) ==
    /\ is_open
    /\ S # {} /\ S \cap used = {}
    /\ \/ S \subseteq free /\ UNCHANGED page_count
       \/ /\ \A p \in S : p >= page_count
          /\ page_count' \in PageIds \cup {PageMaxCount}
          /\ S = page_count .. (page_count' - 1)
    /\ free' = free \ S
    /\ used' = used \cup S
    /\ UNCHANGED <<txid, is_open, pending, before>>

Free(S) ==
    /\ is_open
    /\ S \subseteq used
    /\ used' = used \ S
    /\ pending' = [pending EXCEPT ![txid + 1] = @ \cup S]
    /\ UNCHANGED <<txid, is_open, free, page_count, before>>

\* The list of free pages may itself take pages from the free ones.
Commit(L) ==
    /\ is_open
    /\ is_open' = FALSE
    /\ txid' = txid + 1
    /\ L \subseteq free
    /\ free' = free \ L
    /\ before' = NoState
    /\ UNCHANGED <<pending, used, page_count>>

RollBack ==
    /\ is_open
    /\ is_open' = FALSE
    /\ free' = before.free
    /\ pending' = before.pending
    /\ used' = before.used
    /\ page_count' = before.page_count
    /\ before' = NoState
    /\ UNCHANGED txid

\* Free and pending pages are forgotten when the database is closed.
Reopen ==
    /\ ~is_open
    /\ free' = {}
    /\ pending' = [t \in TxIds |-> {}]
    /\ UNCHANGED <<txid, is_open, used, page_count, before>>

Next ==
    \/ \E r \in TxIds : Update(r)
    \/ \E p, q \in PageIds : Alloc(p .. q) \/ Free(p .. q) \/ Commit(p .. q)
    \/ RollBack
    \/ Reopen

Spec == Init /\ [][Next]_vars
=============================================================================
