------------------------------ MODULE MCLogger ------------------------------
(* Logger for TLC.                                                          *)
EXTENDS Logger, TLC

Symmetry == Permutations(Keys)

\* The state, without what no action and no property reads any more: what was
\* committed before the version on disk, and, once contents are lost, which is
\* for ever, all contents.
Outline(log) ==
    [i \in 1 .. Len(log) |-> IF log[i].type = "kPut" THEN [type |-> "kPut"] ELSE log[i]]
Process == <<synced, checkpoint_needed, sync, persisted_txid, pages, phase, puts, crashes>>
Relevant ==
    IF pages = "lost"
    THEN <<Process, meta.txid, disk.txid, Outline(log_file), Outline(log_buffer)>>
    ELSE <<Process, meta, disk, log_file, log_buffer, work, acked,
           [t \in disk.txid .. (MaxTxId + 1) |-> history[t]]>>
=============================================================================
