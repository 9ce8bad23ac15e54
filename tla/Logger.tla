------------------------------- MODULE Logger -------------------------------
(***************************************************************************)
(* The write-ahead log of DbMode::kWal: what Logger and the transaction    *)
(* manager append, flush, cut off and replay.                              *)
(*                                                                         *)
(* A database is its txid and its contents, in memory and on disk.  Its    *)
(* pages are those of WalMode, and kWal mode does not always keep them:    *)
(*   - Release looks at the views, not at persisted_txid_, so three        *)
(*     transactions after a checkpoint pages of the version on disk are    *)
(*     handed out again, and a crash may find them overwritten;            *)
(*   - CopyNeeded lets a transaction overwrite what was committed since the*)
(*     checkpoint, and a rollback does not bring it back.                  *)
(* The variable pages says which of the two has happened; contents that    *)
(* are lost may be anything afterwards.                                    *)
(*                                                                         *)
(* Three records of the file (header, key, value) are one record here; a   *)
(* Put record also stands for a Delete, whose contents are a value too,    *)
(* and buckets are part of the key.                                        *)
(*                                                                         *)
(* The wal library is external, and not in the repository.  A flush moves  *)
(* the buffer to the file (some of it may get there earlier), a sync makes *)
(* the file durable, and the reader ends at the first torn record.  Logger *)
(* opens the file with one and the same call in its constructor, where     *)
(* RecoverNeeded needs what is in the file, and in Reset, where Checkpoint *)
(* needs an empty one.  The source cannot tell how Open does both; the     *)
(* module assumes what the two callers need.                               *)
(***************************************************************************)
EXTENDS Integers, Sequences

CONSTANTS
    Keys,
    Values,
    InitVal,
    MaxTxId,      \* bound on transaction ids
    MaxRecords,   \* bound on the records a transaction puts
    MaxWalSize,   \* Options::max_wal_size, in records
    MaxCrashes    \* bound on crashes in a behaviour

InitTxId == 3

ASSUME LoggerAssumption ==
    /\ InitVal \in Values
    /\ MaxTxId \in Nat /\ MaxTxId >= InitTxId
    /\ MaxRecords \in Nat
    /\ MaxWalSize \in Nat /\ MaxWalSize > 2    \* the two records of ~Logger fit
    /\ MaxCrashes \in Nat

VARIABLES
    meta,               \* the committed database, as this process sees it
    work,               \* the contents as the update transaction sees them
    disk,               \* the database that Meta::Load finds
    log_file,           \* the records handed to the operating system
    log_buffer,         \* the records in the writer's buffer
    synced,             \* how many records of log_file are durable
    checkpoint_needed,  \* Logger::checkpoint_needed_
    sync,               \* Options::sync
    persisted_txid,     \* TxManager::persisted_txid_
    pages,              \* "sound", "released" (those on disk) or "lost"
    phase,              \* where the process is, see TypeOK
    history,            \* auxiliary: what each transaction committed
    acked,              \* auxiliary: the last txid whose Commit() returned
    puts,               \* auxiliary: records put by the update transaction
    crashes             \* auxiliary: how often the program has crashed

logVars  == <<log_file, log_buffer, synced, checkpoint_needed, sync>>
pageVars == <<persisted_txid, pages>>
vars == <<meta, work, disk, log_file, log_buffer, synced, checkpoint_needed,
          sync, persisted_txid, pages, phase, history, acked, puts, crashes>>

TxIds        == 1 .. (MaxTxId + 1)
kTxInvalidId == MaxTxId + 2
Stores       == [Keys -> Values]
NoWork       == [k \in Keys |-> InitVal]
Database     == [txid : TxIds, store : Stores]

kWalTxId(t) == [type |-> "kWalTxId", txid |-> t]
kBegin      == [type |-> "kBegin"]
kRollback   == [type |-> "kRollback"]
kCommit     == [type |-> "kCommit"]
kPut(k, v)  == [type |-> "kPut", key |-> k, value |-> v]

Log == log_file \o log_buffer

-----------------------------------------------------------------------------
(* Init: a database that existed before has been opened; InitLogFile has    *)
(* found no log and has appended its first record.                         *)

Init ==
    /\ meta = [txid |-> InitTxId, store |-> NoWork]
    /\ disk = [txid |-> InitTxId, store |-> NoWork]
    /\ work = NoWork
    /\ log_file = <<>>
    /\ log_buffer = <<kWalTxId(InitTxId)>>
    /\ synced = 0
    /\ checkpoint_needed = FALSE
    /\ sync \in BOOLEAN
    /\ persisted_txid = kTxInvalidId
    /\ pages = "sound"
    /\ phase = "idle"
    /\ history = [t \in TxIds |-> NoWork]
    /\ acked = InitTxId
    /\ puts = 0
    /\ crashes = 0

-----------------------------------------------------------------------------
(* Appending, flushing and cutting off.                                     *)

\* Mutant of AppendLog: the size is looked at before the records are added.
AppendLogAfterCheck(recs) ==
    /\ log_buffer' = log_buffer \o recs
    /\ checkpoint_needed' = (checkpoint_needed \/ Len(Log) >= MaxWalSize)
    /\ UNCHANGED <<log_file, synced, sync>>

\* Logger::AppendLog
AppendLog(recs) ==
    /\ log_buffer' = log_buffer \o recs
    /\ checkpoint_needed' = (checkpoint_needed \/ Len(Log \o recs) >= MaxWalSize)
    /\ UNCHANGED <<log_file, synced, sync>>

\* Mutant of AppendAndFlush: FlushLog is not called.
AppendWithoutFlush(recs) == AppendLog(recs)

\* Logger::AppendLog and Logger::FlushLog, as AppendCommitLog calls them.
AppendAndFlush(recs) ==
    /\ log_file' = Log \o recs
    /\ log_buffer' = <<>>
    /\ synced' = IF sync THEN Len(log_file') ELSE synced
    /\ checkpoint_needed' = (checkpoint_needed \/ Len(log_file') >= MaxWalSize)
    /\ UNCHANGED sync

\* Mutant of ResetLog: the position of the sync is kept.
ResetLogKeepsSynced(t) ==
    /\ log_file' = <<>>
    /\ log_buffer' = <<kWalTxId(t)>>
    /\ checkpoint_needed' = FALSE
    /\ UNCHANGED <<synced, sync>>

\* Logger::Reset and Logger::AppendWalTxIdLog: the log starts again at txid t.
\* That Open finds an empty file here is an assumption on the wal library.
ResetLog(t) ==
    /\ log_file' = <<>>
    /\ log_buffer' = <<kWalTxId(t)>>
    /\ synced' = 0
    /\ checkpoint_needed' = FALSE
    /\ UNCHANGED sync

-----------------------------------------------------------------------------
(* What becomes of the pages.                                               *)

\* Pager::Release in the Update of the transaction after txid: what the one
\* after disk.txid set free, pages of the version on disk, is handed out again
\* (Releasable in TxManager), unless there was nothing or a view is open.
PagesAfterRelease(txid) ==
    IF pages = "sound" /\ txid >= disk.txid + 3 THEN {"sound", "released"} ELSE {pages}

\* The contents a rollback may leave: TxImpl::CopyNeeded lets the transaction
\* change pages that are younger than the checkpoint and older than every view.
StoresAfterRollBack ==
    IF puts > 0 /\ meta.txid > persisted_txid + 1 THEN Stores ELSE {meta.store}

\* Pager::WriteAllDirtyPages, Meta::Save and set_persisted_txid.
SaveMeta ==
    /\ disk' = meta
    /\ persisted_txid' = meta.txid
    /\ pages' = IF pages = "lost" THEN "lost" ELSE "sound"

-----------------------------------------------------------------------------
(* Transactions.  A commit or rollback is "ending" until its checkpoint, if *)
(* one is due, is done.                                                     *)

Update ==
    /\ phase = "idle"
    /\ meta.txid < MaxTxId
    /\ phase' = "open"
    /\ AppendLog(<<kBegin>>)
    /\ pages' \in PagesAfterRelease(meta.txid)
    /\ work' = meta.store
    /\ puts' = 0
    /\ UNCHANGED <<meta, disk, persisted_txid, history, acked, crashes>>

Put(k, v) ==
    /\ phase = "open"
    /\ puts < MaxRecords
    /\ puts' = puts + 1
    /\ AppendLog(<<kPut(k, v)>>)
    /\ work' = [work EXCEPT ![k] = v]
    /\ UNCHANGED <<meta, disk, pageVars, phase, history, acked, crashes>>

RollBack ==
    /\ phase = "open"
    /\ AppendLog(<<kRollback>>)
    /\ \E s \in StoresAfterRollBack :
          /\ meta' = [meta EXCEPT !.store = s]
          /\ pages' = IF s = meta.store THEN pages ELSE "lost"
    /\ phase' = "ending"
    /\ UNCHANGED <<work, disk, persisted_txid, history, acked, puts, crashes>>

\* Meta::Reset, AppendCommitLog
Commit ==
    /\ phase = "open"
    /\ meta' = [txid |-> meta.txid + 1, store |-> work]
    /\ AppendAndFlush(<<kCommit>>)
    /\ phase' = "ending"
    /\ history' = [history EXCEPT ![meta.txid + 1] = work]
    /\ UNCHANGED <<work, disk, pageVars, acked, puts, crashes>>

\* Commit() or RollBack() returns.
End ==
    /\ phase = "ending"
    /\ ~checkpoint_needed
    /\ phase' = "idle"
    /\ acked' = meta.txid
    /\ work' = NoWork
    /\ puts' = 0
    /\ UNCHANGED <<meta, disk, logVars, pageVars, history, crashes>>

\* Logger::Checkpoint up to Meta::Save.
CheckpointSave ==
    /\ phase = "ending"
    /\ checkpoint_needed
    /\ SaveMeta
    /\ phase' = "saved"
    /\ UNCHANGED <<meta, work, logVars, history, acked, puts, crashes>>

\* The rest of Logger::Checkpoint.
CheckpointReset ==
    /\ phase = "saved"
    /\ ResetLog(meta.txid)
    /\ phase' = "ending"
    /\ UNCHANGED <<meta, work, disk, pageVars, history, acked, puts, crashes>>

-----------------------------------------------------------------------------
(* Closing: Logger::~Logger.                                                *)

\* Checkpoint() up to Meta::Save, in the transaction that db_->Update() has
\* begun (the action Update) and that puts nothing.
CloseSave ==
    /\ phase = "open"
    /\ puts = 0
    /\ SaveMeta
    /\ phase' = "closing"
    /\ UNCHANGED <<meta, work, logVars, history, acked, puts, crashes>>

\* The rest of Checkpoint(), and tx.Commit() of the empty transaction.
CloseCommit ==
    /\ phase = "closing"
    /\ log_file' = <<kWalTxId(meta.txid), kCommit>>
    /\ log_buffer' = <<>>
    /\ synced' = IF sync THEN 2 ELSE 0
    /\ checkpoint_needed' = (2 >= MaxWalSize)
    /\ meta' = [meta EXCEPT !.txid = @ + 1]
    /\ history' = [history EXCEPT ![meta.txid + 1] = meta.store]
    /\ phase' = "closed"
    /\ UNCHANGED <<work, disk, pageVars, sync, acked, puts, crashes>>

\* The log is removed; later DB::Open loads the meta page.
CloseAndOpen ==
    /\ phase = "closed"
    /\ meta' = disk
    /\ ResetLog(disk.txid)
    /\ persisted_txid' = kTxInvalidId
    /\ phase' = "idle"
    /\ UNCHANGED <<work, disk, pages, history, acked, puts, crashes>>

-----------------------------------------------------------------------------
(* Crashes and recovery.                                                    *)

\* What a crash can leave of the log.
LogsAfterCrash == {SubSeq(Log, 1, n) : n \in synced .. Len(Log)}

\* What a crash can leave of the database: pages of the version on disk that
\* were released may have been overwritten through the mapping since.
DisksAfterCrash ==
    IF pages = "released" THEN {[disk EXCEPT !.store = s] : s \in Stores} ELSE {disk}

\* In phase "closed" the log is that of ~Logger, without a kBegin: Recover will
\* refuse it, and the database stays "damaged".
Crash ==
    /\ phase # "damaged"
    /\ crashes < MaxCrashes
    /\ crashes' = crashes + 1
    /\ log_file' \in LogsAfterCrash
    /\ log_buffer' = <<>>
    /\ synced' = Len(log_file')
    /\ checkpoint_needed' = FALSE
    /\ disk' \in DisksAfterCrash
    /\ meta' = disk'
    /\ pages' = IF pages = "lost" \/ disk' # disk THEN "lost" ELSE "sound"
    /\ persisted_txid' = kTxInvalidId
    /\ work' = NoWork
    /\ puts' = 0
    /\ phase' = "recover"
    /\ UNCHANGED <<sync, history, acked>>

\* Mutant of Replay: a log older than the checkpoint is replayed.
ReplayAnyLog(s, rec) ==
    LET Throw == [s EXCEPT !.thrown = TRUE]
    IN  IF rec.type = "kWalTxId" THEN IF s.init THEN Throw ELSE [s EXCEPT !.init = TRUE]
        ELSE IF ~s.init \/ (rec.type = "kBegin") = s.open THEN Throw
        ELSE CASE rec.type = "kBegin"    -> [s EXCEPT !.open = TRUE, !.work = s.meta.store]
               [] rec.type = "kRollback" -> [s EXCEPT !.open = FALSE]
               [] rec.type = "kCommit"   -> [s EXCEPT !.open = FALSE,
                                               !.meta = [txid |-> @.txid + 1, store |-> s.work]]
               [] rec.type = "kPut"      -> [s EXCEPT !.work[rec.key] = rec.value]

\* One turn of the loop in Logger::Recover.  Every record but the first needs
\* init, kBegin needs no transaction, the others need one.
Replay(s, rec) ==
    LET Throw == [s EXCEPT !.thrown = TRUE]
    IN  IF rec.type = "kWalTxId"
        THEN IF s.init THEN Throw
                       ELSE [s EXCEPT !.init = TRUE, !.end = s.meta.txid > rec.txid]
        ELSE IF ~s.init \/ (rec.type = "kBegin") = s.open THEN Throw
        ELSE CASE rec.type = "kBegin"    -> [s EXCEPT !.open = TRUE, !.work = s.meta.store]
               [] rec.type = "kRollback" -> [s EXCEPT !.open = FALSE]
               [] rec.type = "kCommit"   -> [s EXCEPT !.open = FALSE,
                                               !.meta = [txid |-> @.txid + 1, store |-> s.work]]
               [] rec.type = "kPut"      -> [s EXCEPT !.work[rec.key] = rec.value]

\* The state of Logger::Recover after it has read log, starting from m.
Recovered(m, log) ==
    LET start == [meta |-> m, work |-> NoWork, open |-> FALSE, init |-> FALSE,
                  end |-> FALSE, thrown |-> FALSE]
        after[i \in 0 .. Len(log)] ==
            IF i = 0 THEN start
            ELSE LET s == after[i - 1]
                 IN  IF s.end \/ s.thrown THEN s ELSE Replay(s, log[i])
    IN  after[Len(log)]

\* Logger::Recover.  raw_txid is a reference to the txid in the meta struct, so
\* it has the value of the recovered txid when the two are compared.  Writing is
\* enabled again before a transaction that is still open is rolled back.
Recover ==
    LET r == Recovered(meta, log_file)
        raw_txid == r.meta.txid
    IN  /\ phase = "recover"
        /\ IF r.thrown
           THEN /\ phase' = "damaged"
                /\ UNCHANGED <<meta, disk, logVars, pages>>
           ELSE /\ phase' = "recovered"
                /\ meta' = r.meta
                /\ disk' = IF r.meta.txid > raw_txid THEN r.meta ELSE disk
                /\ pages' \in PagesAfterRelease(r.meta.txid)
                /\ IF r.open THEN AppendLog(<<kRollback>>) ELSE UNCHANGED logVars
        /\ UNCHANGED <<work, persisted_txid, history, acked, puts, crashes>>

\* The checkpoint of that rollback, when the log had grown to max_wal_size.
\* Checkpoint's own Reset is followed by that of InitLogFile.
RecoverCheckpoint ==
    /\ phase = "recovered"
    /\ checkpoint_needed
    /\ SaveMeta
    /\ checkpoint_needed' = FALSE
    /\ UNCHANGED <<meta, work, log_file, log_buffer, synced, sync, phase, history,
                   acked, puts, crashes>>

\* The end of InitLogFile.
ResetAfterRecover ==
    /\ phase = "recovered"
    /\ ~checkpoint_needed
    /\ ResetLog(meta.txid)
    /\ phase' = "idle"
    /\ UNCHANGED <<meta, work, disk, pageVars, history, acked, puts, crashes>>

-----------------------------------------------------------------------------

Next ==
    \/ Update
    \/ \E k \in Keys, v \in Values : Put(k, v)
    \/ RollBack
    \/ Commit
    \/ End
    \/ CheckpointSave
    \/ CheckpointReset
    \/ CloseSave
    \/ CloseCommit
    \/ CloseAndOpen
    \/ Crash
    \/ Recover
    \/ RecoverCheckpoint
    \/ ResetAfterRecover

Spec == Init /\ [][Next]_vars

-----------------------------------------------------------------------------
(* Properties.                                                              *)

TypeOK ==
    /\ meta \in Database
    /\ disk \in Database
    /\ work \in Stores
    /\ synced \in 0 .. Len(log_file)
    /\ checkpoint_needed \in BOOLEAN
    /\ sync \in BOOLEAN
    /\ persisted_txid \in TxIds \cup {kTxInvalidId}
    /\ pages \in {"sound", "released", "lost"}
    /\ phase \in {"idle", "open", "ending", "saved",       \* transactions
                  "closing", "closed",                     \* ~Logger
                  "recover", "recovered", "damaged"}       \* DB::Open
    /\ history \in [TxIds -> Stores]
    /\ acked \in TxIds
    /\ puts \in 0 .. MaxRecords
    /\ crashes \in 0 .. MaxCrashes

\* m is what some transaction committed, and with Options::sync none whose
\* Commit() returned is missing.
Faithful(m) == m.store = history[m.txid] /\ (sync => m.txid >= acked)

CrashNowRecovers ==
    \A d \in DisksAfterCrash, log \in LogsAfterCrash :
        LET r == Recovered(d, log) IN ~r.thrown /\ Faithful(r.meta)

\* Crash consistency: whatever a first crash leaves of the log, at any moment of
\* a commit, a rollback, a checkpoint or the first half of ~Logger, replaying it
\* over the meta page on disk gives a committed state, whole transactions only,
\* and nothing acknowledged is lost (Logger::Checkpoint saves the meta page
\* before it cuts the log, Logger::Recover skips a log that is older).  This
\* needs sound pages: no page of the version on disk has been released since
\* the checkpoint, and no rollback has left what its transaction overwrote.
FirstCrashRecovers ==
    crashes = 0 /\ phase # "closed" /\ pages = "sound" => CrashNowRecovers

\* Recovery: once DB::Open is through, the process works on such a state, unless
\* the crash has found pages of the version on disk overwritten, or a rollback
\* has left what its transaction overwrote.
RecoveredStateFaithful ==
    phase \in {"recovered", "idle", "open"} /\ pages # "lost" => Faithful(meta)

\* The log is bounded: between transactions it is shorter than max_wal_size.
LogShorterThanMax ==
    phase = "idle" => Len(Log) < MaxWalSize

\* What the readme promises (durability): any crash, also one after a recovery,
\* is recovered from, here with the pages on disk all in place.
EveryCrashRecovers == phase = "idle" /\ pages = "sound" => CrashNowRecovers
=============================================================================
