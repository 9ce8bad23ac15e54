---------------------------- MODULE LoggerProofs ----------------------------
(***************************************************************************)
(* Proofs about Logger, for logs, transactions and stores of any size: the *)
(* log that a first crash leaves is replayed to a committed state, the     *)
(* recovered state is one, and the log stays below its bound.              *)
(***************************************************************************)
EXTENDS Logger, SequenceTheorems, WellFoundedInduction, TLAPS

-----------------------------------------------------------------------------
(* The loop of Logger::Recover.                                             *)

Start(m) == [meta |-> m, work |-> NoWork, open |-> FALSE, init |-> FALSE,
             end |-> FALSE, thrown |-> FALSE]

Turn(s, rec) == IF s.end \/ s.thrown THEN s ELSE Replay(s, rec)

\* f lists the states of the loop over the first n records of log.
IsRun(f, m, log, n) ==
    f = [i \in 0 .. n |-> IF i = 0 THEN Start(m) ELSE Turn(f[i - 1], log[i])]

\* A set of naturals has a least element; with this, what Recover does is
\* proved by induction on the length of the log.
LEMMA NatMin ==
    ASSUME NEW T, T \subseteq Nat, T # {}
    PROVE  \E x \in T : \A y \in T : x <= y
  <1> DEFINE R == OpToRel(<, Nat)
  <1>1. \E x \in T : \A y \in T : ~(<<y, x>> \in R)
    <2>1. IsWellFoundedOn(R, Nat)
      BY NatLessThanWellFounded
    <2> HIDE DEF R
    <2>2. QED
      BY <2>1, WFMin
  <1>2. \A x, y \in Nat : <<y, x>> \in R <=> y < x
    BY DEF OpToRel
  <1> HIDE DEF R
  <1>3. PICK x \in T : \A y \in T : ~(<<y, x>> \in R)
    BY <1>1
  <1>4. ASSUME NEW y \in T PROVE x <= y
    <2>1. x \in Nat /\ y \in Nat
      OBVIOUS
    <2>2. ~(y < x)
      BY <1>2, <1>3, <2>1
    <2>3. QED
      BY <2>1, <2>2
  <1>5. QED
    BY <1>4

\* The recursion of Recovered defines a function, whatever the log.
LEMMA RunExists ==
    ASSUME NEW m, NEW log, NEW k \in Nat
    PROVE  \E f : IsRun(f, m, log, k)
  <1> DEFINE Bad == {n \in Nat : ~ \E f : IsRun(f, m, log, n)}
  <1>1. Bad = {}
    <2> SUFFICES ASSUME Bad # {} PROVE FALSE
      OBVIOUS
    <2>1. PICK n \in Bad : \A j \in Bad : n <= j
      <3>1. Bad \subseteq Nat
        OBVIOUS
      <3> HIDE DEF Bad
      <3>2. QED
        BY <3>1, NatMin
    <2>2. n \in Nat /\ ~ \E f : IsRun(f, m, log, n)
      OBVIOUS
    <2>3. n # 0
      <3>1. IsRun([i \in 0 .. 0 |-> Start(m)], m, log, 0)
        BY DEF IsRun
      <3>2. QED
        BY <2>2, <3>1
    <2>4. n - 1 \in Nat /\ n - 1 \notin Bad
      <3> HIDE DEF Bad
      <3>1. QED
        BY <2>1, <2>2, <2>3
    <2>5. PICK f : IsRun(f, m, log, n - 1)
      BY <2>4
    <2> DEFINE g == [i \in 0 .. n |-> IF i = n THEN Turn(f[n - 1], log[n]) ELSE f[i]]
    <2>6. \A i \in 0 .. (n - 1) : f[i] = IF i = 0 THEN Start(m) ELSE Turn(f[i - 1], log[i])
      BY <2>5 DEF IsRun
    <2>7. \A i \in 0 .. (n - 1) : g[i] = f[i]
      BY <2>2
    <2>8. ASSUME NEW i \in 0 .. n
          PROVE  g[i] = IF i = 0 THEN Start(m) ELSE Turn(g[i - 1], log[i])
      <3>1. CASE i = n
        <4>1. g[i] = Turn(f[n - 1], log[n]) /\ g[n - 1] = f[n - 1]
          BY <2>2, <2>3, <2>7, <3>1
        <4>2. QED
          BY <2>3, <3>1, <4>1
      <3>2. CASE i # n
        <4>1. i \in 0 .. (n - 1) /\ (i # 0 => i - 1 \in 0 .. (n - 1))
          BY <2>2, <3>2
        <4>2. g[i] = f[i] /\ (i # 0 => g[i - 1] = f[i - 1])
          BY <2>7, <4>1
        <4>3. QED
          BY <2>6, <4>1, <4>2
      <3>3. QED
        BY <3>1, <3>2
    <2>9. IsRun(g, m, log, n)
      BY <2>8 DEF IsRun
    <2>10. QED
      BY <2>2, <2>9
  <1>2. QED
    BY <1>1

LEMMA RecoveredIsRun ==
    ASSUME NEW m, NEW log, Len(log) \in Nat
    PROVE  \E f : IsRun(f, m, log, Len(log)) /\ Recovered(m, log) = f[Len(log)]
  <1> DEFINE after == CHOOSE f : IsRun(f, m, log, Len(log))
  <1>1. Recovered(m, log) = after[Len(log)]
    BY DEF Recovered, IsRun, Start, Turn
  <1>2. IsRun(after, m, log, Len(log))
    BY RunExists
  <1> HIDE DEF after
  <1>3. QED
    BY <1>1, <1>2

LEMMA RecoveredEmpty ==
    ASSUME NEW m
    PROVE  Recovered(m, << >>) = Start(m)
  <1>1. Len(<< >>) = 0
    OBVIOUS
  <1>2. PICK f : IsRun(f, m, << >>, 0) /\ Recovered(m, << >>) = f[0]
    BY <1>1, RecoveredIsRun
  <1>3. f[0] = Start(m)
    BY <1>2 DEF IsRun
  <1>4. QED
    BY <1>2, <1>3

\* A log that is longer by one record takes one more turn of the loop.
LEMMA RecoveredAppend ==
    ASSUME NEW S, NEW m, NEW log \in Seq(S), NEW r \in S
    PROVE  Recovered(m, Append(log, r)) = Turn(Recovered(m, log), r)
  <1> DEFINE n == Len(log)
             longer == Append(log, r)
  <1>1. /\ n \in Nat /\ Len(longer) = n + 1 /\ longer[n + 1] = r
        /\ \A i \in 1 .. n : longer[i] = log[i]
    OBVIOUS
  <1> HIDE DEF n, longer
  <1>2. PICK f : IsRun(f, m, log, n) /\ Recovered(m, log) = f[n]
    BY <1>1, RecoveredIsRun DEF n
  <1>3. PICK g : IsRun(g, m, longer, n + 1) /\ Recovered(m, longer) = g[n + 1]
    <2>1. Len(longer) \in Nat
      BY <1>1
    <2>2. QED
      BY <1>1, <2>1, RecoveredIsRun
  <1>4. \A i \in 0 .. n : f[i] = IF i = 0 THEN Start(m) ELSE Turn(f[i - 1], log[i])
    BY <1>2 DEF IsRun
  <1>5. \A i \in 0 .. (n + 1) : g[i] = IF i = 0 THEN Start(m) ELSE Turn(g[i - 1], longer[i])
    BY <1>3 DEF IsRun
  <1> DEFINE Bad == {i \in 0 .. n : f[i] # g[i]}
  <1>6. Bad = {}
    <2> SUFFICES ASSUME Bad # {} PROVE FALSE
      OBVIOUS
    <2>1. PICK i \in Bad : \A j \in Bad : i <= j
      <3>1. Bad \subseteq Nat
        BY <1>1
      <3> HIDE DEF Bad
      <3>2. QED
        BY <3>1, NatMin
    <2>2. i \in 0 .. n /\ f[i] # g[i]
      OBVIOUS
    <2>3. i # 0
      BY <1>1, <1>4, <1>5, <2>2
    <2>4. i - 1 \in 0 .. n /\ i \in 1 .. n /\ i \in 0 .. (n + 1)
      BY <1>1, <2>2, <2>3
    <2>5. i - 1 \notin Bad
      <3> HIDE DEF Bad
      <3>1. QED
        BY <1>1, <2>1, <2>4
    <2>6. f[i - 1] = g[i - 1]
      BY <2>4, <2>5
    <2>7. QED
      BY <1>1, <1>4, <1>5, <2>2, <2>3, <2>4, <2>6
  <1>7. f[n] = g[n]
    BY <1>1, <1>6
  <1>8. g[n + 1] = Turn(g[n], r)
    <2>1. n + 1 \in 0 .. (n + 1) /\ n + 1 # 0 /\ (n + 1) - 1 = n
      BY <1>1
    <2>2. QED
      BY <1>1, <1>5, <2>1
  <1>9. QED
    BY <1>2, <1>3, <1>7, <1>8 DEF longer

-----------------------------------------------------------------------------
(* The inductive invariant.                                                 *)

Records == {kWalTxId(t) : t \in TxIds} \cup {kBegin, kRollback, kCommit}
           \cup {kPut(k, v) : k \in Keys, v \in Values}

\* The states of the loop of Recover.
ReplayStates == [meta : [txid : Nat \ {0}, store : Stores], work : Stores,
                 open : BOOLEAN, init : BOOLEAN, end : BOOLEAN, thrown : BOOLEAN]

Prefix(log, n) == SubSeq(log, 1, n)

\* s is a state of the loop in which it reads on.
ReadsOn(s) == s \in ReplayStates /\ ~s.thrown /\ ~s.end

\* Recover accepts each prefix of the log, whatever database it finds: one that
\* is not newer than the log is brought forward by the commits in it, at most
\* to top; one that is newer is left alone.  After the whole log a transaction
\* is open or not.
Begins(log, base)      == log # << >> /\ base \in TxIds /\ log[1] = kWalTxId(base)
Accepts(log, base, top, open) ==
    \A m \in Database : m.txid <= base =>
        /\ \A n \in 0 .. Len(log) :
              LET s == Recovered(m, Prefix(log, n))
              IN  ReadsOn(s) /\ s.meta.txid + base <= m.txid + top
        /\ Recovered(m, log).init
        /\ Recovered(m, log).open <=> open
Skips(log, base) ==
    \A m \in Database : m.txid > base =>
        \A n \in 1 .. Len(log) : LET s == Recovered(m, Prefix(log, n))
                                 IN  s \in ReplayStates /\ s.end /\ ~s.thrown /\ s.meta = m
LogOK(log, base, top, open) ==
    /\ log \in Seq(Records) /\ Begins(log, base)
    /\ Accepts(log, base, top, open) /\ Skips(log, base)

\* Replaying the log over d leads through committed states of hist only, and
\* in the end to m and to the contents w of the open transaction.
Tracks(d, log, hist, m, open, w) ==
    /\ \A n \in 0 .. Len(log) : LET s == Recovered(d, Prefix(log, n))
                                IN  s.meta.store = hist[s.meta.txid]
    /\ Recovered(d, log).meta = m
    /\ open => Recovered(d, log).work = w

\* From the first n records on, the replay has come to txid t.
Reaches(d, log, n, t) ==
    \A i \in n .. Len(log) : Recovered(d, Prefix(log, i)).meta.txid = t

\* The contents of the database are what its pages say.
Whole == pages # "lost"

Active   == phase \in {"idle", "open", "ending", "saved", "closing"}
HasBegun == phase \in {"open", "closing"}

TypeInv ==
    /\ TypeOK
    /\ log_file \in Seq(Records) /\ log_buffer \in Seq(Records)
    /\ meta.txid <= MaxTxId /\ disk.txid <= MaxTxId
    /\ HasBegun => meta.txid < MaxTxId
    /\ phase \in {"recover", "recovered", "damaged"} => crashes # 0

\* The log bears the txid of the moment it was begun.
LogInv ==
    Active => \E base \in TxIds : base <= meta.txid /\ LogOK(Log, base, meta.txid, HasBegun)

\* Before any crash the log leads from the database on disk to that in memory.
FirstInv ==
    Active /\ crashes = 0 /\ Whole =>
        \/ /\ Log[1].txid < disk.txid
           /\ phase \in {"saved", "closing"} /\ disk = meta
        \/ /\ Log[1].txid = disk.txid
           /\ phase \in {"saved", "closing"} => disk = meta
           /\ Tracks(disk, Log, history, meta, phase = "open", work)
           /\ sync => Reaches(disk, Log, synced, meta.txid)

\* Recover throws at each prefix of the log, or stays within the txids handed
\* out, whatever database it finds.
Outcome(m, log) ==
    LET r == Recovered(m, log)
    IN  ~r.thrown => r \in ReplayStates /\ r.meta.txid <= MaxTxId
Replayable(log) ==
    \A m \in Database : m.txid <= MaxTxId => \A n \in 0 .. Len(log) : Outcome(m, Prefix(log, n))

\* What a crash left: Recover throws, or finds a committed state.
RecoverInv ==
    /\ phase \in {"recover", "recovered"} => Replayable(Log)
    /\ phase = "recover" =>
          /\ log_buffer = << >> /\ meta = disk
          /\ LET r == Recovered(disk, log_file)
             IN  ~r.thrown /\ crashes <= 1 /\ Whole => Faithful(r.meta)

CommittedInv ==
    crashes <= 1 /\ Whole =>
        /\ phase \notin {"recover", "damaged"} => Faithful(meta)
        /\ phase \in {"closing", "closed"} => Faithful(disk)

ClosingInv ==
    /\ phase = "closing" => disk = meta
    /\ phase = "closed" => /\ disk.txid < meta.txid /\ log_buffer = << >>
                           /\ log_file = <<kWalTxId(disk.txid), kCommit>>

LengthInv ==
    /\ phase \in {"idle", "open", "ending"} => checkpoint_needed \/ Len(Log) < MaxWalSize
    /\ phase = "idle" => ~checkpoint_needed

IInv ==
    /\ TypeInv /\ LogInv /\ FirstInv /\ RecoverInv /\ CommittedInv /\ ClosingInv /\ LengthInv

-----------------------------------------------------------------------------
(* Logs that grow by a record.                                              *)

LEMMA Consts ==
    /\ InitVal \in Values /\ NoWork \in Stores
    /\ MaxTxId \in Nat /\ MaxTxId >= 3 /\ MaxRecords \in Nat /\ MaxCrashes \in Nat
    /\ MaxWalSize \in Nat /\ MaxWalSize > 1
    /\ \A t : t \in TxIds <=> t \in Nat /\ 1 <= t /\ t <= MaxTxId + 1
    /\ kBegin \in Records /\ kRollback \in Records /\ kCommit \in Records
    /\ \A t \in TxIds : kWalTxId(t) \in Records
    /\ \A k \in Keys, v \in Values : kPut(k, v) \in Records
  BY LoggerAssumption DEF NoWork, Stores, TxIds, InitTxId, Records

LEMMA Prefixes ==
    ASSUME NEW S, NEW log \in Seq(S), NEW r \in S
    PROVE  /\ Append(log, r) \in Seq(S) /\ Append(log, r) # << >>
           /\ Len(log) \in Nat /\ Len(Append(log, r)) = Len(log) + 1
           /\ \A n \in 0 .. Len(log) : Prefix(Append(log, r), n) = Prefix(log, n)
           /\ Prefix(Append(log, r), Len(log) + 1) = Append(log, r)
           /\ Prefix(log, Len(log)) = log
           /\ Prefix(log, 0) = << >>
           /\ log # << >> => 1 \in 1 .. Len(log) /\ Append(log, r)[1] = log[1]
  <1> DEFINE longer == Append(log, r)
  <1>1. longer \in Seq(S) /\ longer # << >> /\ Len(log) \in Nat /\ Len(longer) = Len(log) + 1
    BY AppendProperties
  <1>2. /\ Prefix(longer, Len(log) + 1) = longer /\ Prefix(log, Len(log)) = log
    BY <1>1, SubSeqFull DEF Prefix
  <1>3. Prefix(log, 0) = << >> /\ Prefix(longer, 0) = << >>
    BY SubSeqEmpty DEF Prefix
  <1>4. ASSUME NEW n \in 1 .. Len(log) PROVE Prefix(longer, n) = Prefix(log, n)
    <2>1. longer = log \o <<r>> /\ <<r>> \in Seq(S)
      BY AppendIsConcat
    <2>2. 1 \in 1 .. Len(log) /\ n \in 1 .. Len(log)
      BY <1>1
    <2> HIDE DEF longer
    <2>3. QED
      BY <2>1, <2>2, SubSeqOfConcat1 DEF Prefix
  <1>5. \A n \in 0 .. Len(log) : n = 0 \/ n \in 1 .. Len(log)
    BY <1>1
  <1>6. log # << >> => 1 \in 1 .. Len(log) /\ longer[1] = log[1]
    BY <1>1, AppendProperties
  <1> HIDE DEF longer
  <1>7. \A n \in 0 .. Len(log) : Prefix(longer, n) = Prefix(log, n)
    BY <1>3, <1>4, <1>5
  <1>8. QED
    BY <1>1, <1>2, <1>3, <1>6, <1>7 DEF longer

\* The state of the loop before it reads.
LEMMA StartState ==
    ASSUME NEW m \in Database
    PROVE  /\ Start(m) \in ReplayStates /\ ReadsOn(Start(m)) /\ Start(m).meta = m
           /\ ~Start(m).init /\ ~Start(m).open
  BY Consts DEF Start, ReplayStates, ReadsOn, Database

\* The turns of the loop, one record after the other.
LEMMA ReplayFirst ==
    ASSUME NEW s \in ReplayStates, ~s.init, NEW t \in TxIds
    PROVE  Replay(s, kWalTxId(t)) = [s EXCEPT !.init = TRUE, !.end = (s.meta.txid > t)]
  <1> DEFINE r == kWalTxId(t)
  <1>1. r.type = "kWalTxId" /\ r.txid = t
    BY DEF kWalTxId
  <1> HIDE DEF r
  <1>2. Replay(s, r) = [s EXCEPT !.init = TRUE, !.end = (s.meta.txid > r.txid)]
    <2>1. Replay(s, r) = IF s.init THEN [s EXCEPT !.thrown = TRUE]
                         ELSE [s EXCEPT !.init = TRUE, !.end = s.meta.txid > r.txid]
      BY <1>1 DEF Replay
    <2>2. QED
      BY <2>1
  <1>3. QED
    BY <1>1, <1>2, Zenon DEF r

LEMMA ReplayBegin ==
    ASSUME NEW s \in ReplayStates, s.init, ~s.open
    PROVE  Replay(s, kBegin) = [s EXCEPT !.open = TRUE, !.work = s.meta.store]
  BY DEF Replay, kBegin, ReplayStates

LEMMA ReplayRollback ==
    ASSUME NEW s \in ReplayStates, s.init, s.open
    PROVE  Replay(s, kRollback) = [s EXCEPT !.open = FALSE]
  BY DEF Replay, kRollback, ReplayStates

LEMMA ReplayCommit ==
    ASSUME NEW s \in ReplayStates, s.init, s.open
    PROVE  Replay(s, kCommit) = [s EXCEPT !.open = FALSE,
                                   !.meta = [txid |-> s.meta.txid + 1, store |-> s.work]]
  BY DEF Replay, kCommit, ReplayStates

LEMMA ReplayPut ==
    ASSUME NEW s \in ReplayStates, s.init, s.open, NEW k \in Keys, NEW v \in Values
    PROVE  Replay(s, kPut(k, v)) = [s EXCEPT !.work = [s.work EXCEPT ![k] = v]]
  BY DEF Replay, kPut, ReplayStates

\* What a record does to the state of the loop: it reads on, a transaction is
\* open or not, and the txid grows by d at most.
Leads(r, open, open2, d) ==
    \A s \in ReplayStates : ReadsOn(s) /\ s.init /\ (s.open <=> open) =>
        LET u == Replay(s, r)
        IN  ReadsOn(u) /\ u.init /\ (u.open <=> open2) /\ u.meta.txid <= s.meta.txid + d

LEMMA LogGrows ==
    ASSUME NEW log, NEW base, NEW top \in Nat, NEW open \in BOOLEAN, LogOK(log, base, top, open),
           NEW r \in Records, NEW open2 \in BOOLEAN, NEW d \in Nat, Leads(r, open, open2, d)
    PROVE  LogOK(Append(log, r), base, top + d, open2)
  <1> DEFINE longer == Append(log, r)
             n == Len(log)
  <1>1. log \in Seq(Records) /\ Begins(log, base) /\ log # << >> /\ base \in Nat
    BY Consts DEF LogOK, Begins
  <1>2. /\ longer \in Seq(Records) /\ longer # << >> /\ n \in Nat /\ Len(longer) = n + 1
        /\ \A i \in 0 .. n : Prefix(longer, i) = Prefix(log, i)
        /\ Prefix(longer, n + 1) = longer /\ Prefix(log, n) = log
        /\ longer[1] = log[1] /\ n >= 1
    BY <1>1, Prefixes
  <1>3. \A m : Recovered(m, longer) = Turn(Recovered(m, log), r)
    BY <1>1, RecoveredAppend
  <1> HIDE DEF longer, n
  <1>4. Begins(longer, base)
    BY <1>1, <1>2 DEF Begins
  <1>5. Accepts(longer, base, top + d, open2)
    <2> SUFFICES ASSUME NEW m \in Database, m.txid <= base
                 PROVE  /\ \A i \in 0 .. Len(longer) :
                              /\ ReadsOn(Recovered(m, Prefix(longer, i)))
                              /\ Recovered(m, Prefix(longer, i)).meta.txid + base
                                    <= m.txid + (top + d)
                        /\ Recovered(m, longer).init
                        /\ Recovered(m, longer).open <=> open2
      BY DEF Accepts
    <2>1. /\ \A i \in 0 .. n : /\ ReadsOn(Recovered(m, Prefix(log, i)))
                               /\ Recovered(m, Prefix(log, i)).meta.txid + base <= m.txid + top
          /\ Recovered(m, log).init /\ (Recovered(m, log).open <=> open)
      BY DEF LogOK, Accepts, n
    <2>2. m.txid \in Nat /\ \A s : ReadsOn(s) => s.meta.txid \in Nat
      BY Consts DEF Database, ReadsOn, ReplayStates
    <2> DEFINE s == Recovered(m, log)
               u == Recovered(m, longer)
    <2>3. ReadsOn(s) /\ s.init /\ (s.open <=> open) /\ s.meta.txid + base <= m.txid + top
      <3>1. n \in 0 .. n
        BY <1>2
      <3>2. QED
        BY <1>2, <2>1, <3>1
    <2>4. u = Replay(s, r)
      BY <1>3, <2>3 DEF Turn, ReadsOn
    <2> HIDE DEF s, u
    <2>5. ReadsOn(u) /\ u.init /\ (u.open <=> open2) /\ u.meta.txid <= s.meta.txid + d
      BY <2>3, <2>4 DEF Leads, ReadsOn
    <2>6. u.meta.txid + base <= m.txid + (top + d)
      <3>1. u.meta.txid \in Nat /\ s.meta.txid \in Nat
        BY <2>2, <2>3, <2>5
      <3>2. u.meta.txid <= s.meta.txid + d /\ s.meta.txid + base <= m.txid + top
        BY <2>3, <2>5
      <3>3. m.txid \in Nat /\ base \in Nat
        BY <1>1, <2>2
      <3>4. QED
        BY <3>1, <3>2, <3>3
    <2>7. ASSUME NEW i \in 0 .. n
          PROVE  /\ ReadsOn(Recovered(m, Prefix(longer, i)))
                 /\ Recovered(m, Prefix(longer, i)).meta.txid + base <= m.txid + (top + d)
      <3>1. Prefix(longer, i) = Prefix(log, i)
        BY <1>2
      <3>2. /\ ReadsOn(Recovered(m, Prefix(log, i)))
            /\ Recovered(m, Prefix(log, i)).meta.txid + base <= m.txid + top
        BY <2>1
      <3>3. Recovered(m, Prefix(log, i)).meta.txid \in Nat
        BY <2>2, <3>2
      <3>4. QED
        BY <1>1, <2>2, <3>1, <3>2, <3>3
    <2>8. \A i \in 0 .. Len(longer) : i \in 0 .. n \/ i = n + 1
      BY <1>2
    <2>9. QED
      BY <1>2, <2>5, <2>6, <2>7, <2>8 DEF u
  <1>6. Skips(longer, base)
    <2> SUFFICES ASSUME NEW m \in Database, m.txid > base, NEW i \in 1 .. Len(longer)
                 PROVE  LET s == Recovered(m, Prefix(longer, i))
                        IN  s \in ReplayStates /\ s.end /\ ~s.thrown /\ s.meta = m
      BY DEF Skips
    <2>1. \A j \in 1 .. n : LET s == Recovered(m, Prefix(log, j))
                            IN  s \in ReplayStates /\ s.end /\ ~s.thrown /\ s.meta = m
      BY DEF LogOK, Skips, n
    <2>2. CASE i \in 1 .. n
      <3>1. Prefix(longer, i) = Prefix(log, i)
        BY <1>2, <2>2
      <3>2. QED
        BY <2>1, <2>2, <3>1
    <2>3. CASE i = n + 1
      <3>1. n \in 1 .. n
        BY <1>2
      <3>2. /\ Recovered(m, log) \in ReplayStates /\ Recovered(m, log).end
            /\ ~Recovered(m, log).thrown /\ Recovered(m, log).meta = m
        BY <1>2, <2>1, <3>1
      <3>3. Recovered(m, longer) = Recovered(m, log)
        BY <1>3, <3>2 DEF Turn
      <3>4. QED
        BY <1>2, <2>3, <3>2, <3>3
    <2>4. QED
      BY <1>2, <2>2, <2>3
  <1>7. QED
    BY <1>2, <1>4, <1>5, <1>6 DEF LogOK, longer

\* A log begins with its txid.
LEMMA FirstRecordOK ==
    ASSUME NEW t \in TxIds
    PROVE  /\ LogOK(<<kWalTxId(t)>>, t, t, FALSE)
           /\ \A m \in Database : /\ Recovered(m, << >>) = Start(m)
                                  /\ Recovered(m, <<kWalTxId(t)>>).meta = m
                                  /\ ~Recovered(m, <<kWalTxId(t)>>).thrown
  <1> DEFINE r == kWalTxId(t)
             log == <<r>>
             none == << >>
  <1>1. /\ r \in Records /\ log \in Seq(Records) /\ log # << >> /\ log[1] = r /\ Len(log) = 1
        /\ log = Append(none, r) /\ none \in Seq(Records) /\ Len(none) = 0
    BY Consts
  <1>2. Prefix(log, 0) = << >> /\ Prefix(log, 1) = log
    <2> HIDE DEF log, r, none
    <2>0. none \in Seq(Records) /\ r \in Records
      BY <1>1
    <2>1. /\ \A n \in 0 .. Len(none) : Prefix(Append(none, r), n) = Prefix(none, n)
          /\ Prefix(Append(none, r), Len(none) + 1) = Append(none, r)
          /\ Prefix(none, 0) = << >>
      BY <2>0, Prefixes
    <2>2. Prefix(Append(none, r), 0) = << >> /\ Prefix(Append(none, r), 1) = Append(none, r)
      BY <1>1, <2>1
    <2>3. QED
      BY <1>1, <2>2
  <1>3. ASSUME NEW m \in Database
        PROVE  /\ Recovered(m, << >>) = Start(m)
               /\ Recovered(m, log) = [Start(m) EXCEPT !.init = TRUE, !.end = (m.txid > t)]
    <2>1. Recovered(m, << >>) = Start(m)
      BY RecoveredEmpty
    <2>2. Recovered(m, log) = Turn(Start(m), r)
      <3> HIDE DEF log, r, none
      <3>0. none \in Seq(Records) /\ r \in Records
        BY <1>1
      <3>1. Recovered(m, Append(none, r)) = Turn(Recovered(m, none), r)
        BY <3>0, RecoveredAppend
      <3>2. QED
        BY <1>1, <2>1, <3>1 DEF none
    <2>3. Turn(Start(m), r) = Replay(Start(m), r)
      BY StartState DEF Turn, ReadsOn
    <2>4. QED
      BY <2>1, <2>2, <2>3, StartState, ReplayFirst
  <1>4. ASSUME NEW m \in Database
        PROVE  LET u == Recovered(m, log)
               IN  /\ u \in ReplayStates /\ u.init /\ ~u.open /\ ~u.thrown /\ u.meta = m
                   /\ u.end <=> m.txid > t
    <2> HIDE DEF r, log
    <2> DEFINE u == Recovered(m, log)
               s == Start(m)
    <2>1. /\ s \in ReplayStates /\ ~s.thrown /\ ~s.open /\ s.meta = m
          /\ u = [s EXCEPT !.init = TRUE, !.end = (m.txid > t)]
      BY <1>3, StartState DEF ReadsOn
    <2> HIDE DEF u, s
    <2>2. (m.txid > t) \in BOOLEAN
      OBVIOUS
    <2>3. u.init /\ u.open = s.open /\ u.thrown = s.thrown /\ u.meta = s.meta
          /\ u.end = (m.txid > t) /\ u.work = s.work
      BY <2>1 DEF ReplayStates
    <2>4. u \in ReplayStates
      BY <2>1, <2>2 DEF ReplayStates
    <2>5. QED
      BY <2>1, <2>3, <2>4 DEF u
  <1> HIDE DEF r, log
  <1>5. \A i \in 0 .. Len(log) : i = 0 \/ i = 1
    BY <1>1
  <1>6. Accepts(log, t, t, FALSE)
    <2> SUFFICES ASSUME NEW m \in Database, m.txid <= t
                 PROVE  /\ ReadsOn(Start(m)) /\ Start(m).meta.txid + t <= m.txid + t
                        /\ ReadsOn(Recovered(m, log))
                        /\ Recovered(m, log).meta.txid + t <= m.txid + t
                        /\ Recovered(m, log).init /\ ~Recovered(m, log).open
      BY <1>2, <1>3, <1>5 DEF Accepts
    <2>1. m.txid \in Nat /\ t \in Nat
      BY Consts DEF Database
    <2>2. QED
      BY <1>4, <2>1, StartState DEF ReadsOn
  <1>7. Skips(log, t)
    BY <1>1, <1>2, <1>4 DEF Skips
  <1>8. Begins(log, t)
    BY <1>1 DEF Begins, r
  <1>9. LogOK(log, t, t, FALSE)
    BY <1>1, <1>6, <1>7, <1>8 DEF LogOK
  <1>10. QED
    BY <1>3, <1>4, <1>9 DEF log, r

LEMMA RecordsLead ==
    /\ Leads(kBegin, FALSE, TRUE, 0)
    /\ Leads(kRollback, TRUE, FALSE, 0)
    /\ Leads(kCommit, TRUE, FALSE, 1)
    /\ \A k \in Keys, v \in Values : Leads(kPut(k, v), TRUE, TRUE, 0)
  <1>0. ASSUME NEW s \in ReplayStates, NEW k \in Keys, NEW v \in Values
        PROVE  /\ s.meta.txid \in Nat \ {0} /\ s.meta.store \in Stores
               /\ s.work \in Stores /\ [s.work EXCEPT ![k] = v] \in Stores
    BY DEF ReplayStates, Stores
  <1>1. ASSUME NEW s \in ReplayStates, ReadsOn(s), s.init, ~s.open
        PROVE  LET u == Replay(s, kBegin)
               IN  ReadsOn(u) /\ u.init /\ u.open /\ u.meta.txid <= s.meta.txid + 0
    <2> DEFINE u == Replay(s, kBegin)
    <2>1. u = [s EXCEPT !.open = TRUE, !.work = s.meta.store]
      BY <1>1, ReplayBegin
    <2> HIDE DEF u
    <2>2. u.meta = s.meta /\ u.init /\ u.open /\ u.end = s.end /\ u.thrown = s.thrown
      BY <1>1, <2>1 DEF ReplayStates
    <2>3. u \in ReplayStates /\ s.meta.txid \in Nat
      BY <2>1 DEF ReplayStates
    <2>4. QED
      BY <1>1, <2>2, <2>3 DEF ReadsOn, u
  <1>2. ASSUME NEW s \in ReplayStates, ReadsOn(s), s.init, s.open
        PROVE  LET u == Replay(s, kRollback)
               IN  ReadsOn(u) /\ u.init /\ ~u.open /\ u.meta.txid <= s.meta.txid + 0
    <2> DEFINE u == Replay(s, kRollback)
    <2>1. u = [s EXCEPT !.open = FALSE]
      BY <1>2, ReplayRollback
    <2> HIDE DEF u
    <2>2. u.meta = s.meta /\ u.init /\ ~u.open /\ u.end = s.end /\ u.thrown = s.thrown
      BY <1>2, <2>1 DEF ReplayStates
    <2>3. u \in ReplayStates /\ s.meta.txid \in Nat
      BY <2>1 DEF ReplayStates
    <2>4. QED
      BY <1>2, <2>2, <2>3 DEF ReadsOn, u
  <1>3. ASSUME NEW s \in ReplayStates, ReadsOn(s), s.init, s.open
        PROVE  LET u == Replay(s, kCommit)
               IN  ReadsOn(u) /\ u.init /\ ~u.open /\ u.meta.txid <= s.meta.txid + 1
    <2> DEFINE u == Replay(s, kCommit)
               m == [txid |-> s.meta.txid + 1, store |-> s.work]
    <2>1. u = [s EXCEPT !.open = FALSE, !.meta = m]
      BY <1>3, ReplayCommit
    <2>2. s.meta.txid \in Nat \ {0} /\ s.work \in Stores
      BY DEF ReplayStates
    <2>3. m \in [txid : Nat \ {0}, store : Stores] /\ m.txid = s.meta.txid + 1
      BY <2>2
    <2> HIDE DEF u, m
    <2>4. u.meta = m /\ u.init /\ ~u.open /\ u.end = s.end /\ u.thrown = s.thrown
      BY <1>3, <2>1 DEF ReplayStates
    <2>5. u \in ReplayStates
      BY <2>1, <2>3 DEF ReplayStates
    <2>6. QED
      BY <1>3, <2>2, <2>3, <2>4, <2>5 DEF ReadsOn, u
  <1>4. ASSUME NEW k \in Keys, NEW v \in Values,
               NEW s \in ReplayStates, ReadsOn(s), s.init, s.open
        PROVE  LET u == Replay(s, kPut(k, v))
               IN  ReadsOn(u) /\ u.init /\ u.open /\ u.meta.txid <= s.meta.txid + 0
    <2> DEFINE u == Replay(s, kPut(k, v))
               w == [s.work EXCEPT ![k] = v]
    <2>1. u = [s EXCEPT !.work = w] /\ w \in Stores
      BY <1>0, <1>4, ReplayPut
    <2> HIDE DEF u, w
    <2>2. u.meta = s.meta /\ u.init /\ u.open /\ u.end = s.end /\ u.thrown = s.thrown
      BY <1>4, <2>1 DEF ReplayStates
    <2>3. u \in ReplayStates /\ s.meta.txid \in Nat
      BY <2>1 DEF ReplayStates
    <2>4. QED
      BY <1>4, <2>2, <2>3 DEF ReadsOn, u
  <1>5. QED
    BY <1>1, <1>2, <1>3, <1>4 DEF Leads

\* The last turn of the loop over a log that has grown.
LEMMA LastTurn ==
    ASSUME NEW log, NEW base, NEW top, NEW open \in BOOLEAN, LogOK(log, base, top, open),
           NEW m \in Database, m.txid <= base, NEW r \in Records
    PROVE  /\ Recovered(m, log) \in ReplayStates
           /\ Recovered(m, log).init
           /\ Recovered(m, log).open <=> open
           /\ Recovered(m, Append(log, r)) = Replay(Recovered(m, log), r)
  <1> DEFINE s == Recovered(m, log)
  <1>1. log \in Seq(Records) /\ Len(log) \in Nat /\ Prefix(log, Len(log)) = log
    BY Prefixes DEF LogOK
  <1>2. /\ \A n \in 0 .. Len(log) : ReadsOn(Recovered(m, Prefix(log, n)))
        /\ s.init /\ (s.open <=> open)
    BY DEF LogOK, Accepts
  <1>3. Len(log) \in 0 .. Len(log)
    BY <1>1
  <1>4. ReadsOn(s)
    BY <1>1, <1>2, <1>3
  <1>5. Recovered(m, Append(log, r)) = Turn(s, r)
    BY <1>1, RecoveredAppend
  <1> HIDE DEF s
  <1>6. Turn(s, r) = Replay(s, r)
    BY <1>4 DEF Turn, ReadsOn
  <1>7. QED
    BY <1>2, <1>4, <1>5, <1>6 DEF ReadsOn, s

LEMMA TracksGrows ==
    ASSUME NEW d, NEW log \in Seq(Records), NEW hist, NEW m, NEW open, NEW w,
           Tracks(d, log, hist, m, open, w),
           NEW r \in Records, NEW m2, NEW open2, NEW w2,
           Recovered(d, Append(log, r)).meta = m2, m2.store = hist[m2.txid],
           open2 => Recovered(d, Append(log, r)).work = w2
    PROVE  Tracks(d, Append(log, r), hist, m2, open2, w2)
  <1>1. /\ Len(log) \in Nat /\ Len(Append(log, r)) = Len(log) + 1
        /\ \A n \in 0 .. Len(log) : Prefix(Append(log, r), n) = Prefix(log, n)
        /\ Prefix(Append(log, r), Len(log) + 1) = Append(log, r)
    BY Prefixes
  <1>2. \A n \in 0 .. Len(Append(log, r)) : n \in 0 .. Len(log) \/ n = Len(log) + 1
    BY <1>1
  <1>3. ASSUME NEW n \in 0 .. Len(Append(log, r))
        PROVE  Recovered(d, Prefix(Append(log, r), n)).meta.store
                 = hist[Recovered(d, Prefix(Append(log, r), n)).meta.txid]
    <2>1. CASE n \in 0 .. Len(log)
      <3>1. Prefix(Append(log, r), n) = Prefix(log, n)
        BY <1>1, <2>1
      <3>2. Recovered(d, Prefix(log, n)).meta.store = hist[Recovered(d, Prefix(log, n)).meta.txid]
        BY <2>1 DEF Tracks
      <3>3. QED
        BY <3>1, <3>2
    <2>2. CASE n = Len(log) + 1
      BY <1>1, <2>2
    <2>3. QED
      BY <1>2, <2>1, <2>2
  <1>4. QED
    BY <1>3 DEF Tracks

\* A commit adds to the history behind what the log leads through.
LEMMA TracksHistory ==
    ASSUME NEW d \in Database, NEW log, NEW hist, NEW m, NEW open, NEW w,
           Tracks(d, log, hist, m, open, w),
           NEW base, NEW top \in Nat, LogOK(log, base, top, open), d.txid = base,
           NEW hist2, \A t \in TxIds : t <= top => hist2[t] = hist[t], top \in TxIds
    PROVE  Tracks(d, log, hist2, m, open, w)
  <1>1. ASSUME NEW n \in 0 .. Len(log)
        PROVE  LET s == Recovered(d, Prefix(log, n))
               IN  s.meta.store = hist2[s.meta.txid]
    <2> DEFINE s == Recovered(d, Prefix(log, n))
    <2>1. d.txid \in Nat /\ d.txid <= base /\ base \in Nat
      BY Consts DEF Database
    <2>2. ReadsOn(s) /\ s.meta.txid + base <= d.txid + top
      BY <2>1 DEF LogOK, Accepts
    <2>3. s.meta.store = hist[s.meta.txid]
      BY DEF Tracks
    <2> HIDE DEF s
    <2>4. s.meta.txid \in Nat \ {0}
      BY <2>2 DEF ReadsOn, ReplayStates
    <2>5. s.meta.txid <= top
      BY <2>1, <2>2, <2>4
    <2>6. s.meta.txid \in TxIds
      BY <2>4, <2>5, Consts
    <2>7. QED
      BY <2>3, <2>5, <2>6 DEF s
  <1>2. QED
    BY <1>1 DEF Tracks

LEMMA ReachesGrows ==
    ASSUME NEW d, NEW log \in Seq(Records), NEW n \in 0 .. Len(log), NEW t, Reaches(d, log, n, t),
           NEW r \in Records, Recovered(d, Append(log, r)).meta.txid = t
    PROVE  Reaches(d, Append(log, r), n, t)
  <1>1. /\ Len(log) \in Nat /\ Len(Append(log, r)) = Len(log) + 1
        /\ \A i \in 0 .. Len(log) : Prefix(Append(log, r), i) = Prefix(log, i)
        /\ Prefix(Append(log, r), Len(log) + 1) = Append(log, r)
    BY Prefixes
  <1>2. ASSUME NEW i \in n .. Len(Append(log, r))
        PROVE  Recovered(d, Prefix(Append(log, r), i)).meta.txid = t
    <2>1. CASE i \in n .. Len(log)
      <3>1. Prefix(Append(log, r), i) = Prefix(log, i)
        BY <1>1, <2>1
      <3>2. Recovered(d, Prefix(log, i)).meta.txid = t
        BY <2>1 DEF Reaches
      <3>3. QED
        BY <3>1, <3>2
    <2>2. CASE i = Len(log) + 1
      BY <1>1, <2>2
    <2>3. i \in n .. Len(log) \/ i = Len(log) + 1
      BY <1>1
    <2>4. QED
      BY <2>1, <2>2, <2>3
  <1>3. QED
    BY <1>2 DEF Reaches

\* A log that has just begun leads nowhere else.
LEMMA FirstRecordTracks ==
    ASSUME NEW m \in Database, NEW hist, m.store = hist[m.txid], NEW w
    PROVE  LET log == <<kWalTxId(m.txid)>>
           IN  Tracks(m, log, hist, m, FALSE, w) /\ Reaches(m, log, 0, m.txid)
  <1> DEFINE log == <<kWalTxId(m.txid)>>
  <1>1. /\ Recovered(m, << >>) = Start(m) /\ Recovered(m, log).meta = m
    BY FirstRecordOK DEF Database
  <1>2. log \in Seq(Records) /\ Len(log) = 1
    BY Consts DEF Database
  <1> HIDE DEF log
  <1>3. Prefix(log, 0) = << >> /\ Prefix(log, 1) = log
    <2>1. kBegin \in Records
      BY Consts
    <2>2. Prefix(log, 0) = << >> /\ Prefix(log, Len(log)) = log
      BY <1>2, <2>1, Prefixes
    <2>3. QED
      BY <1>2, <2>2
  <1>4. \A n \in 0 .. Len(log) : n = 0 \/ n = 1
    BY <1>2
  <1>5. Start(m).meta = m
    BY StartState
  <1>6. \A n \in 0 .. Len(log) : Recovered(m, Prefix(log, n)).meta = m
    BY <1>1, <1>3, <1>4, <1>5
  <1>7. Tracks(m, log, hist, m, FALSE, w) /\ Reaches(m, log, 0, m.txid)
    BY <1>1, <1>6 DEF Tracks, Reaches
  <1>8. QED
    BY <1>7 DEF log

-----------------------------------------------------------------------------
(* The steps of the program.                                                *)

LEMMA LogType ==
    ASSUME TypeInv
    PROVE  /\ Log \in Seq(Records) /\ Len(Log) \in Nat /\ synced \in 0 .. Len(Log)
           /\ Len(Log) = Len(log_file) + Len(log_buffer)
           /\ meta.txid \in TxIds /\ disk.txid \in TxIds /\ meta \in Database /\ disk \in Database
           /\ meta.txid \in Nat /\ disk.txid \in Nat
  <1>1. log_file \in Seq(Records) /\ log_buffer \in Seq(Records) /\ synced \in 0 .. Len(log_file)
    BY DEF TypeInv, TypeOK
  <1>2. Len(log_file) \in Nat /\ Len(log_buffer) \in Nat
    BY <1>1, LenProperties
  <1>3. Log \in Seq(Records) /\ Len(Log) = Len(log_file) + Len(log_buffer)
    BY <1>1, ConcatProperties DEF Log
  <1>4. meta \in Database /\ disk \in Database
    BY DEF TypeInv, TypeOK
  <1>5. meta.txid \in TxIds /\ disk.txid \in TxIds
    BY <1>4 DEF Database
  <1>6. QED
    BY <1>1, <1>2, <1>3, <1>4, <1>5, Consts

\* Logger::AppendLog with one record.
LEMMA AppendLogStep ==
    ASSUME TypeInv, NEW r \in Records, AppendLog(<<r>>)
    PROVE  /\ Log' = Append(Log, r)
           /\ log_buffer' \in Seq(Records) /\ UNCHANGED <<log_file, synced, sync>>
           /\ checkpoint_needed' \in BOOLEAN
           /\ checkpoint_needed' \/ Len(Log') < MaxWalSize
  <1>1. log_file \in Seq(Records) /\ log_buffer \in Seq(Records) /\ <<r>> \in Seq(Records)
    BY DEF TypeInv
  <1>2. log_buffer' = log_buffer \o <<r>> /\ UNCHANGED <<log_file, synced, sync>>
        /\ checkpoint_needed' = (checkpoint_needed \/ Len(Log \o <<r>>) >= MaxWalSize)
    BY DEF AppendLog
  <1>3. log_buffer' \in Seq(Records)
    BY <1>1, <1>2, ConcatProperties
  <1>4. Log' = Log \o <<r>>
    <2>1. log_file \o (log_buffer \o <<r>>) = (log_file \o log_buffer) \o <<r>>
      BY <1>1, ConcatAssociative
    <2>2. QED
      BY <1>2, <2>1 DEF Log
  <1>5. Log \in Seq(Records) /\ Log \o <<r>> = Append(Log, r)
    BY LogType, AppendIsConcat
  <1>6. Len(Append(Log, r)) = Len(Log) + 1 /\ Len(Log) \in Nat
    BY <1>5, Prefixes
  <1>7. checkpoint_needed' \/ Len(Log') < MaxWalSize
    <2>1. Len(Log') \in Nat
      BY <1>4, <1>5, <1>6
    <2>2. CASE Len(Log') >= MaxWalSize
      BY <1>2, <1>4, <2>2
    <2>3. CASE ~(Len(Log') >= MaxWalSize)
      BY <2>1, <2>3, Consts
    <2>4. QED
      BY <2>2, <2>3
  <1>8. checkpoint_needed' \in BOOLEAN
    BY <1>2
  <1>9. QED
    BY <1>2, <1>3, <1>4, <1>5, <1>7, <1>8

\* Logger::AppendLog and Logger::FlushLog with one record.
LEMMA FlushLogStep ==
    ASSUME TypeInv, NEW r \in Records, AppendAndFlush(<<r>>)
    PROVE  /\ Log' = Append(Log, r) /\ log_file' = Append(Log, r)
           /\ log_file' \in Seq(Records) /\ log_buffer' = << >> /\ log_buffer' \in Seq(Records)
           /\ sync' = sync
           /\ synced' \in 0 .. Len(log_file')
           /\ sync => synced' = Len(Log) + 1
           /\ checkpoint_needed' \in BOOLEAN
           /\ checkpoint_needed' \/ Len(Log') < MaxWalSize
  <1>1. /\ log_file' = Log \o <<r>> /\ log_buffer' = << >> /\ sync' = sync
        /\ synced' = IF sync THEN Len(log_file') ELSE synced
        /\ checkpoint_needed' = (checkpoint_needed \/ Len(log_file') >= MaxWalSize)
    BY DEF AppendAndFlush
  <1>2. /\ Log \in Seq(Records) /\ Log \o <<r>> = Append(Log, r)
        /\ Append(Log, r) \in Seq(Records) /\ Len(Append(Log, r)) = Len(Log) + 1 /\ Len(Log) \in Nat
    BY LogType, AppendIsConcat, Prefixes
  <1>3. Log' = log_file' /\ << >> \in Seq(Records)
    <2>1. Append(Log, r) \o << >> = Append(Log, r)
      BY <1>2, ConcatEmptySeq
    <2>2. QED
      BY <1>1, <1>2, <2>1 DEF Log
  <1>4. synced \in 0 .. Len(Log)
    BY LogType
  <1>5. synced' \in 0 .. Len(log_file') /\ (sync => synced' = Len(Log) + 1)
    BY <1>1, <1>2, <1>4
  <1>6. checkpoint_needed' \/ Len(Log') < MaxWalSize
    <2>1. Len(Log') \in Nat
      BY <1>1, <1>2, <1>3
    <2>2. CASE Len(Log') >= MaxWalSize
      BY <1>1, <1>3, <2>2
    <2>3. CASE ~(Len(Log') >= MaxWalSize)
      BY <2>1, <2>3, Consts
    <2>4. QED
      BY <2>2, <2>3
  <1>7. checkpoint_needed' \in BOOLEAN
    BY <1>1
  <1>8. QED
    BY <1>1, <1>2, <1>3, <1>5, <1>6, <1>7

\* Logger::Reset and the first record.
LEMMA ResetLogStep ==
    ASSUME NEW t \in TxIds, ResetLog(t)
    PROVE  /\ Log' = <<kWalTxId(t)>> /\ log_file' \in Seq(Records) /\ log_buffer' \in Seq(Records)
           /\ synced' = 0 /\ synced' \in 0 .. Len(log_file') /\ sync' = sync
           /\ ~checkpoint_needed' /\ checkpoint_needed' \in BOOLEAN
           /\ Len(Log') < MaxWalSize
  <1>1. /\ log_file' = << >> /\ log_buffer' = <<kWalTxId(t)>> /\ synced' = 0
        /\ checkpoint_needed' = FALSE /\ sync' = sync
    BY DEF ResetLog
  <1>2. kWalTxId(t) \in Records
    BY Consts
  <1>3. << >> \in Seq(Records) /\ <<kWalTxId(t)>> \in Seq(Records) /\ Len(<<kWalTxId(t)>>) = 1
        /\ Len(<< >>) = 0
    BY <1>2
  <1>4. << >> \o <<kWalTxId(t)>> = <<kWalTxId(t)>>
    BY <1>3, ConcatEmptySeq
  <1>5. Log' = <<kWalTxId(t)>>
    BY <1>1, <1>4 DEF Log
  <1>6. synced' \in 0 .. Len(log_file')
    BY <1>1, <1>3
  <1>7. Len(Log') < MaxWalSize
    BY <1>3, <1>5, Consts
  <1>8. QED
    BY <1>1, <1>3, <1>5, <1>6, <1>7

\* The step leaves the contents as lost or not lost as they are.
PagesKept ==
    /\ Whole' <=> Whole
    /\ persisted_txid' \in TxIds \cup {kTxInvalidId}
    /\ pages' \in {"sound", "released", "lost"}

LEMMA PagesUnchanged ==
    ASSUME TypeOK, UNCHANGED pageVars
    PROVE  PagesKept
  BY DEF TypeOK, pageVars, PagesKept, Whole

LEMMA PagesReleased ==
    ASSUME TypeOK, NEW t, pages' \in PagesAfterRelease(t), persisted_txid' = persisted_txid
    PROVE  PagesKept
  BY DEF TypeOK, PagesAfterRelease, PagesKept, Whole

LEMMA PagesSaved ==
    ASSUME TypeOK, SaveMeta
    PROVE  PagesKept /\ disk' = meta
  <1>1. meta.txid \in TxIds
    BY DEF TypeOK, Database
  <1>2. QED
    BY <1>1 DEF TypeOK, SaveMeta, PagesKept, Whole

\* What is known in the phases in which the log is written.
LEMMA ActiveFacts ==
    ASSUME IInv, Active
    PROVE  /\ TypeInv /\ TypeOK
           /\ \E base \in TxIds : /\ base <= meta.txid /\ LogOK(Log, base, meta.txid, HasBegun)
                                  /\ Log[1].txid = base
           /\ crashes <= 1 /\ Whole => Faithful(meta)
           /\ checkpoint_needed \in BOOLEAN /\ sync \in BOOLEAN
  <1>1. TypeInv /\ TypeOK
    BY DEF IInv, TypeInv
  <1>2. PICK base \in TxIds : base <= meta.txid /\ LogOK(Log, base, meta.txid, HasBegun)
    BY DEF IInv, LogInv
  <1>3. Log[1].txid = base
    BY <1>2 DEF LogOK, Begins, kWalTxId
  <1>4. crashes <= 1 /\ Whole => Faithful(meta)
    BY DEF IInv, CommittedInv, Active
  <1>5. QED
    BY <1>1, <1>2, <1>3, <1>4 DEF TypeOK

LEMMA InitStep == Init => IInv
  <1> SUFFICES ASSUME Init PROVE IInv
    OBVIOUS
  <1> DEFINE m == [txid |-> InitTxId, store |-> NoWork]
  <1>1. /\ meta = m /\ disk = m /\ work = NoWork /\ log_file = << >>
        /\ log_buffer = <<kWalTxId(InitTxId)>> /\ synced = 0 /\ checkpoint_needed = FALSE
        /\ sync \in BOOLEAN /\ phase = "idle" /\ history = [t \in TxIds |-> NoWork]
        /\ persisted_txid = kTxInvalidId /\ pages = "sound"
        /\ acked = InitTxId /\ puts = 0 /\ crashes = 0
    BY DEF Init
  <1>2. InitTxId \in TxIds /\ InitTxId = 3 /\ kWalTxId(InitTxId) \in Records
    BY Consts DEF InitTxId
  <1>3. m \in Database /\ m.txid = InitTxId /\ m.store = NoWork
    BY <1>2, Consts DEF Database
  <1>4. /\ << >> \in Seq(Records) /\ <<kWalTxId(InitTxId)>> \in Seq(Records)
        /\ Len(<<kWalTxId(InitTxId)>>) = 1 /\ Len(<< >>) = 0
        /\ << >> \o <<kWalTxId(InitTxId)>> = <<kWalTxId(InitTxId)>>
    BY <1>2, ConcatEmptySeq
  <1>5. Log = <<kWalTxId(InitTxId)>>
    BY <1>1, <1>4 DEF Log
  <1> HIDE DEF m
  <1>6. Faithful(meta)
    BY <1>1, <1>2, <1>3 DEF Faithful
  <1>7. TypeInv
    <2>1. TypeOK
      <3>1. history \in [TxIds -> Stores]
        BY <1>1, Consts
      <3>2. synced \in 0 .. Len(log_file) /\ puts \in 0 .. MaxRecords /\ crashes \in 0 .. MaxCrashes
        BY <1>1, <1>4, Consts
      <3>3. QED
        BY <1>1, <1>2, <1>3, <3>1, <3>2, Consts DEF TypeOK
    <2>2. meta.txid <= MaxTxId /\ disk.txid <= MaxTxId
      BY <1>1, <1>2, <1>3, Consts
    <2>3. QED
      BY <1>1, <1>4, <2>1, <2>2 DEF TypeInv, HasBegun
  <1>8. LogInv
    <2>1. LogOK(Log, InitTxId, meta.txid, FALSE) /\ InitTxId <= meta.txid
      <3>1. LogOK(<<kWalTxId(InitTxId)>>, InitTxId, InitTxId, FALSE)
        BY <1>2, FirstRecordOK
      <3>2. meta.txid = InitTxId /\ InitTxId <= InitTxId
        BY <1>1, <1>2, <1>3
      <3>3. QED
        BY <1>5, <3>1, <3>2
    <2>2. HasBegun = FALSE
      BY <1>1 DEF HasBegun
    <2>3. QED
      BY <1>2, <2>1, <2>2 DEF LogInv
  <1>9. FirstInv
    <2>1. Tracks(m, <<kWalTxId(m.txid)>>, history, m, FALSE, work)
          /\ Reaches(m, <<kWalTxId(m.txid)>>, 0, m.txid)
      BY <1>1, <1>3, <1>6, FirstRecordTracks DEF Faithful
    <2>2. Log[1].txid = disk.txid
      BY <1>1, <1>3, <1>5 DEF kWalTxId
    <2>3. (phase = "open") = FALSE
      BY <1>1
    <2>4. QED
      BY <1>1, <1>3, <1>5, <2>1, <2>2, <2>3 DEF FirstInv
  <1>10. RecoverInv /\ CommittedInv /\ ClosingInv
    BY <1>1, <1>6 DEF RecoverInv, CommittedInv, ClosingInv
  <1>11. LengthInv
    BY <1>1, <1>4, <1>5, Consts DEF LengthInv
  <1>12. QED
    BY <1>7, <1>8, <1>9, <1>10, <1>11 DEF IInv

\* A record that leaves the database as it is, appended by a transaction.
LEMMA FirstGrows ==
    ASSUME TypeInv, NEW base, LogOK(Log, base, meta.txid, HasBegun), Log[1].txid = disk.txid,
           meta.store = history[meta.txid],
           Tracks(disk, Log, history, meta, phase = "open", work),
           sync => Reaches(disk, Log, synced, meta.txid),
           NEW r \in Records, Recovered(disk, Append(Log, r)).meta = meta,
           NEW open, NEW w, open => Recovered(disk, Append(Log, r)).work = w
    PROVE  /\ Append(Log, r)[1].txid = disk.txid
           /\ Tracks(disk, Append(Log, r), history, meta, open, w)
           /\ sync => Reaches(disk, Append(Log, r), synced, meta.txid)
  <1>1. Log \in Seq(Records) /\ Log # << >> /\ synced \in 0 .. Len(Log)
    BY LogType DEF LogOK, Begins
  <1>2. Append(Log, r)[1] = Log[1]
    BY <1>1, Prefixes
  <1>3. Tracks(disk, Append(Log, r), history, meta, open, w)
    BY <1>1, TracksGrows
  <1>4. sync => Reaches(disk, Append(Log, r), synced, meta.txid)
    BY <1>1, ReachesGrows
  <1>5. QED
    BY <1>2, <1>3, <1>4

\* What Recover would make of the log before the first crash, and of the next
\* record.
LEMMA FirstTurn ==
    ASSUME IInv, phase \in {"idle", "open"}, crashes = 0, Whole, NEW r \in Records
    PROVE  LET s == Recovered(disk, Log)
               u == Recovered(disk, Append(Log, r))
           IN  /\ s \in ReplayStates /\ s.init
               /\ s.open <=> phase = "open"
               /\ s.meta = meta
               /\ phase = "open" => s.work = work
               /\ u = Replay(s, r)
               /\ Log[1].txid = disk.txid
               /\ Tracks(disk, Log, history, meta, phase = "open", work)
               /\ sync => Reaches(disk, Log, synced, meta.txid)
               /\ meta.store = history[meta.txid]
  <1> DEFINE s == Recovered(disk, Log)
             u == Recovered(disk, Append(Log, r))
  <1>1. Active /\ TypeInv /\ HasBegun = (phase = "open")
    BY DEF IInv, Active, HasBegun
  <1>2. PICK base \in TxIds : LogOK(Log, base, meta.txid, phase = "open") /\ Log[1].txid = base
    BY <1>1, ActiveFacts
  <1>3. /\ Log[1].txid = disk.txid /\ Tracks(disk, Log, history, meta, phase = "open", work)
        /\ sync => Reaches(disk, Log, synced, meta.txid)
    BY <1>1 DEF IInv, FirstInv
  <1>4. /\ s \in ReplayStates /\ s.init
        /\ s.open <=> phase = "open"
        /\ u = Replay(s, r)
    <2>1. disk \in Database /\ disk.txid <= base /\ (phase = "open") \in BOOLEAN
      BY <1>1, <1>2, <1>3, LogType
    <2>2. QED
      BY <1>2, <2>1, LastTurn
  <1>5. s.meta = meta /\ (phase = "open" => s.work = work)
    BY <1>3 DEF Tracks
  <1>6. meta.store = history[meta.txid]
    <2>1. crashes <= 1
      OBVIOUS
    <2>2. QED
      BY <1>1, <2>1, ActiveFacts DEF Faithful
  <1>7. QED
    BY <1>3, <1>4, <1>5, <1>6

\* Update() appends kBegin.
LEMMA UpdateStep ==
    ASSUME IInv, Update
    PROVE  IInv'
  <1>0. PagesKept
    <2>1. TypeOK
      BY DEF IInv, TypeInv
    <2>2. QED
      BY <2>1, PagesReleased DEF Update
  <1>1. /\ phase = "idle" /\ meta.txid < MaxTxId /\ phase' = "open" /\ AppendLog(<<kBegin>>)
        /\ work' = meta.store /\ puts' = 0
        /\ UNCHANGED <<meta, disk, history, acked, crashes>>
    BY DEF Update
  <1>2. Active /\ HasBegun = FALSE /\ HasBegun' = TRUE /\ TypeInv /\ TypeOK
    BY <1>1 DEF Active, HasBegun, IInv, TypeInv
  <1>3. PICK base \in TxIds : /\ base <= meta.txid /\ LogOK(Log, base, meta.txid, FALSE)
                              /\ Log[1].txid = base
    BY <1>2, ActiveFacts
  <1>4. /\ Log' = Append(Log, kBegin) /\ log_buffer' \in Seq(Records)
        /\ UNCHANGED <<log_file, synced, sync>> /\ checkpoint_needed' \in BOOLEAN
        /\ checkpoint_needed' \/ Len(Log') < MaxWalSize
    BY <1>1, <1>2, Consts, AppendLogStep
  <1>5. meta.store \in Stores /\ meta.txid \in Nat
    BY <1>2, LogType DEF Database
  <1>6. TypeInv'
    <2>1. TypeOK'
      BY <1>0, <1>1, <1>2, <1>4, <1>5, Consts DEF TypeOK, PagesKept
    <2>2. QED
      BY <1>1, <1>2, <1>4, <2>1 DEF TypeInv
  <1>7. LogInv'
    <2>1. LogOK(Append(Log, kBegin), base, meta.txid + 0, TRUE)
      BY <1>3, <1>5, Consts, RecordsLead, LogGrows
    <2>2. meta.txid + 0 = meta.txid
      BY <1>5
    <2>3. QED
      BY <1>1, <1>2, <1>3, <1>4, <2>1, <2>2 DEF LogInv
  <1>8. FirstInv'
    <2> SUFFICES ASSUME crashes = 0, Whole PROVE FirstInv'
      BY <1>0, <1>1 DEF FirstInv, PagesKept
    <2> DEFINE s == Recovered(disk, Log)
               u == Recovered(disk, Append(Log, kBegin))
    <2>1. /\ Log[1].txid = disk.txid /\ Tracks(disk, Log, history, meta, phase = "open", work)
          /\ sync => Reaches(disk, Log, synced, meta.txid)
          /\ meta.store = history[meta.txid]
          /\ s \in ReplayStates /\ s.init /\ ~s.open /\ s.meta = meta
          /\ u = Replay(s, kBegin)
      BY <1>1, Consts, FirstTurn
    <2> HIDE DEF s, u
    <2>2. u.meta = meta /\ u.work = meta.store
      BY <2>1, ReplayBegin DEF ReplayStates
    <2>3. /\ Append(Log, kBegin)[1].txid = disk.txid
          /\ Tracks(disk, Append(Log, kBegin), history, meta, TRUE, meta.store)
          /\ sync => Reaches(disk, Append(Log, kBegin), synced, meta.txid)
      BY <1>2, <1>3, <2>1, <2>2, Consts, FirstGrows DEF u
    <2>4. (phase' = "open") = TRUE
      BY <1>1
    <2>5. QED
      BY <1>1, <1>4, <2>3, <2>4 DEF FirstInv
  <1>9. RecoverInv' /\ ClosingInv'
    BY <1>1 DEF RecoverInv, ClosingInv
  <1>10. CommittedInv'
    BY <1>0, <1>1, <1>4 DEF IInv, CommittedInv, Faithful, PagesKept
  <1>11. LengthInv'
    BY <1>1, <1>4 DEF LengthInv
  <1>12. QED
    BY <1>6, <1>7, <1>8, <1>9, <1>10, <1>11 DEF IInv

\* Put appends a record and changes the contents of the transaction.
LEMMA PutStep ==
    ASSUME IInv, NEW k \in Keys, NEW v \in Values, Put(k, v)
    PROVE  IInv'
  <1>0. PagesKept
    <2>1. TypeOK
      BY DEF IInv, TypeInv
    <2>2. UNCHANGED pageVars
      BY DEF Put
    <2>3. QED
      BY <2>1, <2>2, PagesUnchanged
  <1> DEFINE r == kPut(k, v)
  <1>1. /\ phase = "open" /\ puts < MaxRecords /\ puts' = puts + 1 /\ AppendLog(<<r>>)
        /\ work' = [work EXCEPT ![k] = v]
        /\ UNCHANGED <<meta, disk, phase, history, acked, crashes>>
    BY DEF Put
  <1>2. /\ Active /\ HasBegun = TRUE /\ HasBegun' = TRUE /\ TypeInv /\ TypeOK
        /\ r \in Records
    BY <1>1, Consts DEF Active, HasBegun, IInv, TypeInv
  <1>3. Leads(r, TRUE, TRUE, 0)
    BY RecordsLead
  <1>4. \A s \in ReplayStates : s.init /\ s.open =>
          Replay(s, r) = [s EXCEPT !.work = [s.work EXCEPT ![k] = v]]
    BY ReplayPut
  <1> HIDE DEF r
  <1>5. PICK base \in TxIds : /\ base <= meta.txid /\ LogOK(Log, base, meta.txid, TRUE)
                              /\ Log[1].txid = base
    BY <1>2, ActiveFacts
  <1>6. /\ Log' = Append(Log, r) /\ log_buffer' \in Seq(Records)
        /\ UNCHANGED <<log_file, synced, sync>> /\ checkpoint_needed' \in BOOLEAN
        /\ checkpoint_needed' \/ Len(Log') < MaxWalSize
    BY <1>1, <1>2, AppendLogStep
  <1>7. meta.txid \in Nat
    BY <1>2, LogType
  <1>8. TypeInv'
    <2>1. TypeOK'
      <3>1. work' \in Stores
        BY <1>1, <1>2 DEF TypeOK, Stores
      <3>2. puts' \in 0 .. MaxRecords
        BY <1>1, <1>2, Consts DEF TypeOK
      <3>3. QED
        BY <1>0, <1>1, <1>2, <1>6, <3>1, <3>2 DEF TypeOK, PagesKept
    <2>2. QED
      BY <1>1, <1>2, <1>6, <2>1 DEF TypeInv
  <1>9. LogInv'
    <2>1. LogOK(Append(Log, r), base, meta.txid + 0, TRUE)
      BY <1>2, <1>3, <1>5, <1>7, LogGrows
    <2>2. meta.txid + 0 = meta.txid
      BY <1>7
    <2>3. QED
      BY <1>1, <1>2, <1>5, <1>6, <2>1, <2>2 DEF LogInv
  <1>10. FirstInv'
    <2> SUFFICES ASSUME crashes = 0, Whole PROVE FirstInv'
      BY <1>0, <1>1 DEF FirstInv, PagesKept
    <2> DEFINE s == Recovered(disk, Log)
               u == Recovered(disk, Append(Log, r))
    <2>1. /\ Log[1].txid = disk.txid /\ Tracks(disk, Log, history, meta, phase = "open", work)
          /\ sync => Reaches(disk, Log, synced, meta.txid)
          /\ meta.store = history[meta.txid]
          /\ s \in ReplayStates /\ s.init /\ s.open /\ s.meta = meta /\ s.work = work
          /\ u = Replay(s, r)
      BY <1>1, <1>2, FirstTurn
    <2> HIDE DEF s, u
    <2>2. u.meta = meta /\ u.work = work'
      BY <1>1, <1>4, <2>1 DEF ReplayStates
    <2>3. /\ Append(Log, r)[1].txid = disk.txid
          /\ Tracks(disk, Append(Log, r), history, meta, TRUE, work')
          /\ sync => Reaches(disk, Append(Log, r), synced, meta.txid)
      BY <1>2, <1>5, <2>1, <2>2, FirstGrows DEF u
    <2>4. (phase' = "open") = TRUE
      BY <1>1
    <2>5. QED
      BY <1>1, <1>6, <2>3, <2>4 DEF FirstInv
  <1>11. RecoverInv' /\ ClosingInv'
    BY <1>1 DEF RecoverInv, ClosingInv
  <1>12. CommittedInv'
    BY <1>0, <1>1, <1>6 DEF IInv, CommittedInv, Faithful, PagesKept
  <1>13. LengthInv'
    BY <1>1, <1>6 DEF LengthInv
  <1>14. QED
    BY <1>8, <1>9, <1>10, <1>11, <1>12, <1>13 DEF IInv

\* RollBack appends kRollback.
LEMMA RollBackStep ==
    ASSUME IInv, RollBack
    PROVE  IInv'
  <1>1. /\ phase = "open" /\ AppendLog(<<kRollback>>) /\ phase' = "ending"
        /\ UNCHANGED <<work, disk, persisted_txid, history, acked, puts, crashes>>
    BY DEF RollBack
  <1>0. /\ meta' \in Database /\ meta'.txid = meta.txid
        /\ Whole' => Whole /\ meta' = meta
        /\ pages' \in {"sound", "released", "lost"}
    <2>1. PICK c \in StoresAfterRollBack :
            /\ meta' = [meta EXCEPT !.store = c]
            /\ pages' = IF c = meta.store THEN pages ELSE "lost"
      BY DEF RollBack
    <2>2. meta \in Database /\ pages \in {"sound", "released", "lost"}
      BY DEF IInv, TypeInv, TypeOK
    <2>3. c \in Stores
      BY <2>2 DEF StoresAfterRollBack, Database
    <2>4. /\ meta' \in Database /\ meta'.txid = meta.txid
          /\ c = meta.store => meta' = meta
      BY <2>1, <2>2, <2>3 DEF Database
    <2>5. QED
      BY <2>1, <2>2, <2>4 DEF Whole
  <1>2. /\ Active /\ HasBegun = TRUE /\ HasBegun' = FALSE /\ TypeInv /\ TypeOK
        /\ kRollback \in Records
    BY <1>1, Consts DEF Active, HasBegun, IInv, TypeInv
  <1>3. PICK base \in TxIds : /\ base <= meta.txid /\ LogOK(Log, base, meta.txid, TRUE)
                              /\ Log[1].txid = base
    BY <1>2, ActiveFacts
  <1>4. /\ Log' = Append(Log, kRollback) /\ log_buffer' \in Seq(Records)
        /\ UNCHANGED <<log_file, synced, sync>> /\ checkpoint_needed' \in BOOLEAN
        /\ checkpoint_needed' \/ Len(Log') < MaxWalSize
    BY <1>1, <1>2, AppendLogStep
  <1>5. meta.txid \in Nat
    BY <1>2, LogType
  <1>6. TypeInv'
    <2>1. TypeOK'
      BY <1>0, <1>1, <1>2, <1>4 DEF TypeOK
    <2>2. QED
      BY <1>0, <1>1, <1>2, <1>4, <2>1 DEF TypeInv
  <1>7. LogInv'
    <2>1. LogOK(Append(Log, kRollback), base, meta.txid + 0, FALSE)
      BY <1>2, <1>3, <1>5, RecordsLead, LogGrows
    <2>2. meta.txid + 0 = meta.txid
      BY <1>5
    <2>3. QED
      BY <1>0, <1>1, <1>2, <1>3, <1>4, <2>1, <2>2 DEF LogInv
  <1>8. FirstInv'
    <2> SUFFICES ASSUME crashes = 0, Whole, meta' = meta PROVE FirstInv'
      BY <1>0, <1>1 DEF FirstInv
    <2> DEFINE s == Recovered(disk, Log)
               u == Recovered(disk, Append(Log, kRollback))
    <2>1. /\ Log[1].txid = disk.txid /\ Tracks(disk, Log, history, meta, phase = "open", work)
          /\ sync => Reaches(disk, Log, synced, meta.txid)
          /\ meta.store = history[meta.txid]
          /\ s \in ReplayStates /\ s.init /\ s.open /\ s.meta = meta
          /\ u = Replay(s, kRollback)
      BY <1>1, <1>2, FirstTurn
    <2> HIDE DEF s, u
    <2>2. u.meta = meta
      BY <2>1, ReplayRollback DEF ReplayStates
    <2>3. /\ Append(Log, kRollback)[1].txid = disk.txid
          /\ Tracks(disk, Append(Log, kRollback), history, meta, FALSE, work)
          /\ sync => Reaches(disk, Append(Log, kRollback), synced, meta.txid)
      BY <1>2, <1>3, <2>1, <2>2, FirstGrows DEF u
    <2>4. (phase' = "open") = FALSE
      BY <1>1
    <2>5. QED
      BY <1>1, <1>4, <2>3, <2>4 DEF FirstInv
  <1>9. RecoverInv' /\ ClosingInv'
    BY <1>1 DEF RecoverInv, ClosingInv
  <1>10. CommittedInv'
    BY <1>0, <1>1, <1>4 DEF IInv, CommittedInv, Faithful
  <1>11. LengthInv'
    BY <1>1, <1>4 DEF LengthInv
  <1>12. QED
    BY <1>6, <1>7, <1>8, <1>9, <1>10, <1>11 DEF IInv

\* A commit appends kCommit and flushes: the log now leads to the new state.
LEMMA CommitStep ==
    ASSUME IInv, Commit
    PROVE  IInv'
  <1>0. PagesKept
    <2>1. TypeOK
      BY DEF IInv, TypeInv
    <2>2. UNCHANGED pageVars
      BY DEF Commit
    <2>3. QED
      BY <2>1, <2>2, PagesUnchanged
  <1>1. /\ phase = "open" /\ meta' = [txid |-> meta.txid + 1, store |-> work]
        /\ AppendAndFlush(<<kCommit>>) /\ phase' = "ending"
        /\ history' = [history EXCEPT ![meta.txid + 1] = work]
        /\ UNCHANGED <<work, disk, acked, puts, crashes>>
    BY DEF Commit
  <1>2. /\ Active /\ HasBegun = TRUE /\ HasBegun' = FALSE /\ TypeInv /\ TypeOK
        /\ kCommit \in Records /\ meta.txid < MaxTxId
    BY <1>1, Consts DEF Active, HasBegun, IInv, TypeInv
  <1>3. PICK base \in TxIds : /\ base <= meta.txid /\ LogOK(Log, base, meta.txid, TRUE)
                              /\ Log[1].txid = base
    BY <1>2, ActiveFacts
  <1>4. /\ Log' = Append(Log, kCommit) /\ log_file' = Append(Log, kCommit)
        /\ log_file' \in Seq(Records) /\ log_buffer' = << >> /\ log_buffer' \in Seq(Records)
        /\ sync' = sync /\ synced' \in 0 .. Len(log_file')
        /\ sync => synced' = Len(Log) + 1
        /\ checkpoint_needed' \in BOOLEAN
        /\ checkpoint_needed' \/ Len(Log') < MaxWalSize
    BY <1>1, <1>2, FlushLogStep
  <1>5. /\ meta.txid \in Nat /\ meta.txid \in TxIds /\ meta.txid + 1 \in TxIds
        /\ meta.txid + 1 <= MaxTxId
        /\ work \in Stores /\ history \in [TxIds -> Stores]
    <2>1. meta.txid \in Nat /\ meta.txid \in TxIds
      BY <1>2, LogType
    <2>2. meta.txid + 1 <= MaxTxId /\ meta.txid + 1 \in Nat /\ 1 <= meta.txid + 1
      BY <1>2, <2>1, Consts
    <2>3. meta.txid + 1 \in TxIds
      BY <2>2, Consts
    <2>4. QED
      BY <1>2, <2>1, <2>2, <2>3 DEF TypeOK
  <1>6. /\ meta' \in Database /\ meta'.txid = meta.txid + 1 /\ meta'.store = work
        /\ history' \in [TxIds -> Stores] /\ history'[meta.txid + 1] = work
        /\ \A t \in TxIds : t <= meta.txid => history'[t] = history[t]
    BY <1>1, <1>5, Consts DEF Database
  <1>7. TypeInv'
    <2>1. TypeOK'
      BY <1>0, <1>1, <1>2, <1>4, <1>6 DEF TypeOK, PagesKept
    <2>2. QED
      BY <1>1, <1>2, <1>4, <1>5, <1>6, <2>1 DEF TypeInv
  <1>8. LogInv'
    <2>1. LogOK(Append(Log, kCommit), base, meta.txid + 1, FALSE)
      BY <1>2, <1>3, <1>5, RecordsLead, LogGrows
    <2>2. base <= meta.txid + 1
      BY <1>3, <1>5, Consts
    <2>3. QED
      BY <1>1, <1>2, <1>3, <1>4, <1>6, <2>1, <2>2 DEF LogInv
  <1>9. FirstInv'
    <2> SUFFICES ASSUME crashes = 0, Whole PROVE FirstInv'
      BY <1>0, <1>1 DEF FirstInv, PagesKept
    <2> DEFINE s == Recovered(disk, Log)
               u == Recovered(disk, Append(Log, kCommit))
               longer == Append(Log, kCommit)
    <2>1. /\ Log[1].txid = disk.txid /\ Tracks(disk, Log, history, meta, phase = "open", work)
          /\ s \in ReplayStates /\ s.init /\ s.open /\ s.meta = meta /\ s.work = work
          /\ u = Replay(s, kCommit)
      BY <1>1, <1>2, FirstTurn
    <2>2. /\ Log \in Seq(Records) /\ Log # << >> /\ Len(Log) \in Nat /\ Len(longer) = Len(Log) + 1
          /\ Prefix(longer, Len(Log) + 1) = longer /\ longer[1] = Log[1]
      BY <1>2, <1>3, LogType, Prefixes DEF LogOK, Begins
    <2> HIDE DEF s, u
    <2>3. u.meta = meta'
      BY <1>1, <2>1, ReplayCommit DEF ReplayStates
    <2>4. Tracks(disk, Log, history', meta, TRUE, work)
      <3>1. Tracks(disk, Log, history, meta, TRUE, work) /\ disk.txid = base /\ disk \in Database
        BY <1>1, <1>2, <1>3, <2>1, LogType
      <3>2. QED
        BY <1>3, <1>5, <1>6, <3>1, TracksHistory
    <2>5. Tracks(disk, longer, history', meta', FALSE, work)
      BY <1>2, <1>6, <2>2, <2>3, <2>4, TracksGrows DEF u
    <2>6. sync => Reaches(disk, longer, Len(Log) + 1, meta'.txid)
      <3>1. \A i \in (Len(Log) + 1) .. Len(longer) : i = Len(Log) + 1
        BY <2>2
      <3>2. \A i \in (Len(Log) + 1) .. Len(longer) : Recovered(disk, Prefix(longer, i)).meta = meta'
        BY <2>2, <2>3, <3>1 DEF u
      <3>3. QED
        BY <3>2 DEF Reaches
    <2>7. (phase' = "open") = FALSE
      BY <1>1
    <2> HIDE DEF longer
    <2>8. /\ Log' = longer /\ longer[1].txid = disk.txid
          /\ sync => synced' = Len(Log) + 1
      BY <1>4, <2>1, <2>2 DEF longer
    <2>9. QED
      BY <1>1, <1>4, <2>5, <2>6, <2>7, <2>8 DEF FirstInv
  <1>10. RecoverInv' /\ ClosingInv'
    BY <1>1 DEF RecoverInv, ClosingInv
  <1>11. CommittedInv'
    <2> SUFFICES ASSUME crashes <= 1, Whole PROVE Faithful(meta)'
      BY <1>0, <1>1 DEF CommittedInv, PagesKept
    <2>1. Faithful(meta)
      BY <1>2, ActiveFacts
    <2>2. acked \in Nat
      BY <1>2, Consts DEF TypeOK
    <2>3. sync => meta.txid + 1 >= acked
      BY <1>5, <2>1, <2>2 DEF Faithful
    <2>4. QED
      BY <1>1, <1>4, <1>6, <2>3 DEF Faithful
  <1>12. LengthInv'
    BY <1>1, <1>4 DEF LengthInv
  <1>13. QED
    BY <1>7, <1>8, <1>9, <1>10, <1>11, <1>12 DEF IInv

\* A commit or rollback returns.
LEMMA EndStep ==
    ASSUME IInv, End
    PROVE  IInv'
  <1>0. PagesKept
    <2>1. TypeOK
      BY DEF IInv, TypeInv
    <2>2. UNCHANGED pageVars
      BY DEF End
    <2>3. QED
      BY <2>1, <2>2, PagesUnchanged
  <1>1. /\ phase = "ending" /\ ~checkpoint_needed /\ phase' = "idle" /\ acked' = meta.txid
        /\ work' = NoWork /\ puts' = 0
        /\ UNCHANGED <<meta, disk, log_file, log_buffer, synced, checkpoint_needed, sync,
                       history, crashes>>
    BY DEF End, logVars
  <1>2. /\ Active /\ HasBegun = FALSE /\ HasBegun' = FALSE /\ TypeInv /\ TypeOK
        /\ (phase = "open") = FALSE /\ (phase' = "open") = FALSE /\ Log' = Log
    BY <1>1 DEF Active, HasBegun, IInv, TypeInv, Log
  <1>3. meta.txid \in TxIds /\ meta.txid \in Nat
    BY <1>2, LogType
  <1>4. TypeInv'
    <2>1. TypeOK'
      BY <1>0, <1>1, <1>2, <1>3, Consts DEF TypeOK, PagesKept
    <2>2. QED
      BY <1>1, <1>2, <2>1 DEF TypeInv
  <1>5. LogInv'
    BY <1>1, <1>2 DEF IInv, LogInv
  <1>6. FirstInv'
    <2> SUFFICES ASSUME crashes = 0, Whole PROVE FirstInv'
      BY <1>0, <1>1 DEF FirstInv, PagesKept
    <2>1. /\ Log[1].txid = disk.txid /\ Tracks(disk, Log, history, meta, FALSE, work)
          /\ sync => Reaches(disk, Log, synced, meta.txid)
      BY <1>1, <1>2 DEF IInv, FirstInv
    <2>2. Tracks(disk, Log, history, meta, FALSE, work')
      BY <2>1 DEF Tracks
    <2>3. QED
      BY <1>1, <1>2, <2>1, <2>2 DEF FirstInv
  <1>7. RecoverInv' /\ ClosingInv'
    BY <1>1 DEF RecoverInv, ClosingInv
  <1>8. CommittedInv'
    <2> SUFFICES ASSUME crashes <= 1, Whole PROVE Faithful(meta)'
      BY <1>0, <1>1 DEF CommittedInv, PagesKept
    <2>1. Faithful(meta)
      BY <1>2, ActiveFacts
    <2>2. QED
      BY <1>1, <1>3, <2>1 DEF Faithful
  <1>9. LengthInv'
    BY <1>1, <1>2 DEF IInv, LengthInv
  <1>10. QED
    BY <1>4, <1>5, <1>6, <1>7, <1>8, <1>9 DEF IInv

\* The meta page is saved while the log is as it was: either the log is older
\* than the page now and will be skipped, or nothing was committed since it began.
LEMMA SavedDisk ==
    ASSUME IInv, crashes = 0, Whole, phase \in {"idle", "open", "ending"}
    PROVE  /\ Log[1].txid <= meta.txid
           /\ Log[1].txid = meta.txid => disk = meta
  <1>1. Active /\ TypeInv
    BY DEF IInv, Active
  <1>2. PICK base \in TxIds : base <= meta.txid /\ Log[1].txid = base
    BY <1>1, ActiveFacts
  <1>3. Log[1].txid = disk.txid /\ Tracks(disk, Log, history, meta, phase = "open", work)
    BY <1>1 DEF IInv, FirstInv
  <1>4. disk.store = history[disk.txid]
    <2>1. Log \in Seq(Records) /\ Len(Log) \in Nat /\ disk \in Database /\ kBegin \in Records
      BY <1>1, LogType, Consts
    <2>2. Prefix(Log, 0) = << >> /\ 0 \in 0 .. Len(Log)
      BY <2>1, Prefixes
    <2>3. Recovered(disk, << >>).meta = disk
      BY <2>1, RecoveredEmpty, StartState
    <2>4. QED
      BY <1>3, <2>2, <2>3 DEF Tracks
  <1>5. meta.store = history[meta.txid]
    <2>1. crashes <= 1
      OBVIOUS
    <2>2. QED
      BY <1>1, <2>1, ActiveFacts DEF Faithful
  <1>6. ASSUME disk.txid = meta.txid PROVE disk = meta
    BY <1>1, <1>4, <1>5, <1>6 DEF TypeInv, TypeOK, Database
  <1>7. QED
    BY <1>2, <1>3, <1>6

\* Logger::Checkpoint saves the meta page first.
LEMMA CheckpointSaveStep ==
    ASSUME IInv, CheckpointSave
    PROVE  IInv'
  <1>0. PagesKept
    <2>1. TypeOK
      BY DEF IInv, TypeInv
    <2>2. QED
      BY <2>1, PagesSaved DEF CheckpointSave
  <1>1. /\ phase = "ending" /\ checkpoint_needed /\ disk' = meta /\ phase' = "saved"
        /\ UNCHANGED <<meta, work, log_file, log_buffer, synced, checkpoint_needed, sync,
                       history, acked, puts, crashes>>
    BY DEF CheckpointSave, SaveMeta, logVars
  <1>2. /\ Active /\ HasBegun = FALSE /\ HasBegun' = FALSE /\ TypeInv /\ TypeOK
        /\ (phase = "open") = FALSE /\ (phase' = "open") = FALSE /\ Log' = Log
    BY <1>1 DEF Active, HasBegun, IInv, TypeInv, Log
  <1>3. TypeInv'
    <2>1. TypeOK'
      BY <1>0, <1>1, <1>2 DEF TypeOK, PagesKept
    <2>2. QED
      BY <1>1, <1>2, <2>1 DEF TypeInv
  <1>4. LogInv'
    BY <1>1, <1>2 DEF IInv, LogInv
  <1>5. FirstInv'
    <2> SUFFICES ASSUME crashes = 0, Whole PROVE FirstInv'
      BY <1>0, <1>1 DEF FirstInv, PagesKept
    <2>1. /\ Tracks(disk, Log, history, meta, FALSE, work)
          /\ sync => Reaches(disk, Log, synced, meta.txid)
      BY <1>1, <1>2 DEF IInv, FirstInv
    <2>2. Log[1].txid <= meta.txid /\ (Log[1].txid = meta.txid => disk = meta)
      BY <1>1, SavedDisk
    <2>3. PICK base \in TxIds : Log[1].txid = base
      BY <1>2, ActiveFacts
    <2>4. CASE Log[1].txid = meta.txid
      <3>1. disk' = disk /\ disk = meta
        BY <1>1, <2>2, <2>4
      <3>2. QED
        BY <1>1, <1>2, <2>1, <2>4, <3>1 DEF FirstInv
    <2>5. CASE Log[1].txid < meta.txid
      BY <1>1, <1>2, <2>5 DEF FirstInv
    <2>6. QED
      <3>1. meta.txid \in Nat /\ base \in Nat
        BY <1>2, LogType, Consts
      <3>2. Log[1].txid = meta.txid \/ Log[1].txid < meta.txid
        BY <2>2, <2>3, <3>1
      <3>3. QED
        BY <2>4, <2>5, <3>2
  <1>6. RecoverInv' /\ ClosingInv' /\ LengthInv'
    BY <1>1 DEF RecoverInv, ClosingInv, LengthInv
  <1>7. CommittedInv'
    BY <1>0, <1>1 DEF IInv, CommittedInv, Faithful, PagesKept
  <1>8. QED
    BY <1>3, <1>4, <1>5, <1>6, <1>7 DEF IInv

\* A log that begins anew with the txid of the database in memory, which is
\* also on disk if there was no crash.
LEMMA NewLog ==
    ASSUME NEW t \in TxIds, Log' = <<kWalTxId(t)>>, meta'.txid = t,
           phase' \in {"idle", "ending"}, synced' = 0, meta' \in Database,
           crashes' = 0 /\ Whole' => disk' = meta' /\ meta'.store = history'[t]
    PROVE  LogInv' /\ FirstInv'
  <1>1. HasBegun' = FALSE /\ Active' = TRUE /\ (phase' = "open") = FALSE
    BY DEF HasBegun, Active
  <1>2. LogOK(Log', t, meta'.txid, FALSE) /\ t <= meta'.txid
    <2>1. LogOK(<<kWalTxId(t)>>, t, t, FALSE)
      BY FirstRecordOK
    <2>2. t <= t
      BY Consts
    <2>3. QED
      BY <2>1, <2>2
  <1>3. LogInv'
    BY <1>1, <1>2 DEF LogInv
  <1>4. FirstInv'
    <2> SUFFICES ASSUME crashes' = 0, Whole' PROVE FirstInv'
      BY DEF FirstInv
    <2>1. /\ Tracks(meta', <<kWalTxId(t)>>, history', meta', FALSE, work')
          /\ Reaches(meta', <<kWalTxId(t)>>, 0, t)
      BY FirstRecordTracks
    <2>2. Log'[1].txid = disk'.txid
      BY DEF kWalTxId
    <2>3. QED
      BY <1>1, <2>1, <2>2 DEF FirstInv
  <1>5. QED
    BY <1>3, <1>4

\* ... and cuts off the log afterwards.
LEMMA CheckpointResetStep ==
    ASSUME IInv, CheckpointReset
    PROVE  IInv'
  <1>0. PagesKept
    <2>1. TypeOK
      BY DEF IInv, TypeInv
    <2>2. UNCHANGED pageVars
      BY DEF CheckpointReset
    <2>3. QED
      BY <2>1, <2>2, PagesUnchanged
  <1>1. /\ phase = "saved" /\ ResetLog(meta.txid) /\ phase' = "ending"
        /\ UNCHANGED <<meta, work, disk, history, acked, puts, crashes>>
    BY DEF CheckpointReset
  <1>2. /\ Active /\ HasBegun' = FALSE /\ TypeInv /\ TypeOK
        /\ meta.txid \in TxIds /\ meta \in Database
    BY <1>1, LogType DEF Active, HasBegun, IInv, TypeInv
  <1>3. /\ Log' = <<kWalTxId(meta.txid)>>
        /\ log_file' \in Seq(Records) /\ log_buffer' \in Seq(Records)
        /\ synced' = 0 /\ synced' \in 0 .. Len(log_file') /\ sync' = sync
        /\ ~checkpoint_needed' /\ checkpoint_needed' \in BOOLEAN /\ Len(Log') < MaxWalSize
    BY <1>1, <1>2, ResetLogStep
  <1>4. TypeInv'
    <2>1. TypeOK'
      BY <1>0, <1>1, <1>2, <1>3 DEF TypeOK, PagesKept
    <2>2. QED
      BY <1>1, <1>2, <1>3, <2>1 DEF TypeInv
  <1>5. LogInv' /\ FirstInv'
    <2>1. crashes = 0 /\ Whole => disk = meta /\ meta.store = history[meta.txid]
      <3> SUFFICES ASSUME crashes = 0, Whole PROVE disk = meta /\ meta.store = history[meta.txid]
        OBVIOUS
      <3>1. disk = meta
        BY <1>1, <1>2 DEF IInv, FirstInv
      <3>2. crashes <= 1
        OBVIOUS
      <3>3. QED
        BY <1>2, <3>1, <3>2, ActiveFacts DEF Faithful
    <2>2. QED
      BY <1>0, <1>1, <1>2, <1>3, <2>1, NewLog DEF PagesKept
  <1>6. RecoverInv' /\ ClosingInv'
    BY <1>1 DEF RecoverInv, ClosingInv
  <1>7. LengthInv'
    BY <1>1, <1>3 DEF LengthInv
  <1>8. CommittedInv'
    BY <1>0, <1>1, <1>3 DEF IInv, CommittedInv, Faithful, PagesKept
  <1>9. QED
    BY <1>4, <1>5, <1>6, <1>7, <1>8 DEF IInv

\* ~Logger saves the meta page in the transaction it has begun.
LEMMA CloseSaveStep ==
    ASSUME IInv, CloseSave
    PROVE  IInv'
  <1>0. PagesKept /\ disk' = meta
    <2>1. TypeOK
      BY DEF IInv, TypeInv
    <2>2. QED
      BY <2>1, PagesSaved DEF CloseSave
  <1>1. /\ phase = "open" /\ phase' = "closing"
        /\ UNCHANGED <<meta, work, log_file, log_buffer, synced, checkpoint_needed, sync,
                       history, acked, puts, crashes>>
    BY DEF CloseSave, logVars
  <1>2. /\ Active /\ HasBegun = TRUE /\ HasBegun' = TRUE /\ TypeInv /\ TypeOK
        /\ (phase = "open") = TRUE /\ (phase' = "open") = FALSE /\ Log' = Log
    BY <1>1 DEF Active, HasBegun, IInv, TypeInv, Log
  <1>3. TypeInv'
    <2>1. TypeOK'
      BY <1>0, <1>1, <1>2 DEF TypeOK, PagesKept
    <2>2. QED
      BY <1>0, <1>1, <1>2, <2>1 DEF TypeInv
  <1>4. LogInv'
    BY <1>1, <1>2 DEF IInv, LogInv
  <1>5. FirstInv'
    <2> SUFFICES ASSUME crashes = 0, Whole PROVE FirstInv'
      BY <1>0, <1>1 DEF FirstInv, PagesKept
    <2>1. /\ Tracks(disk, Log, history, meta, TRUE, work)
          /\ sync => Reaches(disk, Log, synced, meta.txid)
      BY <1>1, <1>2 DEF IInv, FirstInv
    <2>2. Tracks(disk, Log, history, meta, FALSE, work)
      BY <2>1 DEF Tracks
    <2>3. Log[1].txid <= meta.txid /\ (Log[1].txid = meta.txid => disk = meta)
      BY <1>1, SavedDisk
    <2>4. PICK base \in TxIds : Log[1].txid = base
      BY <1>2, ActiveFacts
    <2>5. CASE Log[1].txid = meta.txid
      <3>1. disk' = disk /\ disk = meta
        BY <1>0, <2>3, <2>5
      <3>2. QED
        BY <1>1, <1>2, <2>1, <2>2, <2>5, <3>1 DEF FirstInv
    <2>6. CASE Log[1].txid < meta.txid
      BY <1>0, <1>1, <1>2, <2>6 DEF FirstInv
    <2>7. QED
      <3>1. meta.txid \in Nat /\ base \in Nat
        BY <1>2, LogType, Consts
      <3>2. Log[1].txid = meta.txid \/ Log[1].txid < meta.txid
        BY <2>3, <2>4, <3>1
      <3>3. QED
        BY <2>5, <2>6, <3>2
  <1>6. RecoverInv' /\ ClosingInv' /\ LengthInv'
    BY <1>0, <1>1 DEF RecoverInv, ClosingInv, LengthInv
  <1>7. CommittedInv'
    BY <1>0, <1>1 DEF IInv, CommittedInv, Faithful, PagesKept
  <1>8. QED
    BY <1>3, <1>4, <1>5, <1>6, <1>7 DEF IInv

\* ~Logger cuts off the log and commits its empty transaction into the new one.
LEMMA CloseCommitStep ==
    ASSUME IInv, CloseCommit
    PROVE  IInv'
  <1>0. PagesKept
    <2>1. TypeOK
      BY DEF IInv, TypeInv
    <2>2. UNCHANGED pageVars
      BY DEF CloseCommit
    <2>3. QED
      BY <2>1, <2>2, PagesUnchanged
  <1>1. /\ phase = "closing" /\ log_file' = <<kWalTxId(meta.txid), kCommit>> /\ log_buffer' = << >>
        /\ synced' = IF sync THEN 2 ELSE 0
        /\ checkpoint_needed' = (2 >= MaxWalSize)
        /\ meta' = [meta EXCEPT !.txid = meta.txid + 1]
        /\ history' = [history EXCEPT ![meta.txid + 1] = meta.store]
        /\ phase' = "closed"
        /\ UNCHANGED <<work, disk, sync, acked, puts, crashes>>
    BY DEF CloseCommit
  <1>2. /\ TypeInv /\ TypeOK /\ meta.txid < MaxTxId /\ disk = meta
        /\ ~Active' /\ ~HasBegun'
    BY <1>1 DEF IInv, TypeInv, HasBegun, Active, ClosingInv
  <1>3. meta \in Database /\ meta.txid \in TxIds /\ meta.txid \in Nat
    BY <1>2, LogType
  <1>4. /\ log_file' \in Seq(Records) /\ log_buffer' \in Seq(Records) /\ Len(log_file') = 2
    <2>1. kWalTxId(meta.txid) \in Records /\ kCommit \in Records
      BY <1>3, Consts
    <2>2. QED
      BY <1>1, <2>1
  <1>5. meta.txid + 1 \in TxIds /\ meta.txid + 1 <= MaxTxId /\ meta.txid + 1 > meta.txid
    <2>1. meta.txid + 1 <= MaxTxId /\ meta.txid + 1 \in Nat /\ 1 <= meta.txid + 1
          /\ meta.txid + 1 > meta.txid /\ meta.txid + 1 <= MaxTxId + 1
      BY <1>2, <1>3, Consts
    <2>2. QED
      BY <2>1, Consts
  <1>6. /\ meta' \in Database /\ meta'.txid = meta.txid + 1 /\ meta'.store = meta.store
        /\ history' \in [TxIds -> Stores] /\ history'[meta.txid + 1] = meta.store
        /\ history'[meta.txid] = history[meta.txid]
    <2>1. meta.store \in Stores /\ history \in [TxIds -> Stores] /\ meta.txid # meta.txid + 1
      BY <1>2, <1>3 DEF TypeOK, Database
    <2>2. QED
      BY <1>1, <1>3, <1>5, <2>1 DEF Database
  <1>7. TypeInv'
    <2>1. synced' \in 0 .. Len(log_file')
      BY <1>1, <1>4
    <2>2. TypeOK'
      BY <1>0, <1>1, <1>2, <1>6, <2>1 DEF TypeOK, PagesKept
    <2>3. QED
      BY <1>1, <1>2, <1>4, <1>5, <1>6, <2>2 DEF TypeInv
  <1>8. LogInv' /\ FirstInv' /\ RecoverInv' /\ LengthInv'
    BY <1>1, <1>2 DEF LogInv, FirstInv, RecoverInv, LengthInv
  <1>9. ClosingInv'
    BY <1>1, <1>2, <1>5, <1>6 DEF ClosingInv
  <1>10. CommittedInv'
    <2> SUFFICES ASSUME crashes <= 1, Whole PROVE Faithful(meta)' /\ Faithful(disk)'
      BY <1>0, <1>1 DEF CommittedInv, PagesKept
    <2>1. Faithful(meta)
      BY <1>1 DEF IInv, CommittedInv
    <2>2. acked \in Nat
      BY <1>2, Consts DEF TypeOK
    <2>3. sync => meta.txid >= acked /\ meta.txid + 1 >= acked
      BY <1>3, <2>1, <2>2 DEF Faithful
    <2>4. QED
      BY <1>1, <1>2, <1>6, <2>1, <2>3 DEF Faithful
  <1>11. QED
    BY <1>7, <1>8, <1>9, <1>10 DEF IInv

\* The log is removed, and the database opened again.
LEMMA CloseAndOpenStep ==
    ASSUME IInv, CloseAndOpen
    PROVE  IInv'
  <1>0. PagesKept
    <2>1. TypeOK
      BY DEF IInv, TypeInv
    <2>2. QED
      BY <2>1 DEF CloseAndOpen, TypeOK, PagesKept, Whole
  <1>1. /\ phase = "closed" /\ meta' = disk /\ ResetLog(disk.txid) /\ phase' = "idle"
        /\ UNCHANGED <<work, disk, history, acked, puts, crashes>>
    BY DEF CloseAndOpen
  <1>2. TypeInv /\ TypeOK /\ ~HasBegun'
    BY <1>1 DEF IInv, TypeInv, HasBegun
  <1>3. disk.txid \in TxIds /\ disk \in Database
    BY <1>2, LogType
  <1>4. /\ Log' = <<kWalTxId(disk.txid)>> /\ log_file' \in Seq(Records)
        /\ log_buffer' \in Seq(Records) /\ synced' = 0 /\ synced' \in 0 .. Len(log_file')
        /\ sync' = sync /\ ~checkpoint_needed' /\ checkpoint_needed' \in BOOLEAN
        /\ Len(Log') < MaxWalSize
    BY <1>1, <1>3, ResetLogStep
  <1>5. TypeInv'
    <2>1. TypeOK'
      BY <1>0, <1>1, <1>2, <1>4 DEF TypeOK, PagesKept
    <2>2. QED
      BY <1>1, <1>2, <1>4, <2>1 DEF TypeInv
  <1>6. crashes <= 1 /\ Whole => Faithful(disk)
    BY <1>1 DEF IInv, CommittedInv
  <1>7. LogInv' /\ FirstInv'
    <2>1. crashes' = 0 /\ Whole' => disk' = meta' /\ meta'.store = history'[disk.txid]
      BY <1>0, <1>1, <1>6 DEF Faithful, PagesKept
    <2>2. meta'.txid = disk.txid /\ meta' \in Database /\ phase' \in {"idle", "ending"}
      BY <1>1, <1>3
    <2>3. QED
      BY <1>3, <1>4, <2>1, <2>2, NewLog
  <1>8. RecoverInv' /\ ClosingInv'
    BY <1>1 DEF RecoverInv, ClosingInv
  <1>9. CommittedInv'
    BY <1>0, <1>1, <1>4, <1>6 DEF CommittedInv, Faithful, PagesKept
  <1>10. LengthInv'
    BY <1>1, <1>4 DEF LengthInv
  <1>11. QED
    BY <1>5, <1>7, <1>8, <1>9, <1>10 DEF IInv

-----------------------------------------------------------------------------
(* Crashes.                                                                 *)

\* A log that was being written, Recover accepts whatever database it finds.
LEMMA ActiveReplayed ==
    ASSUME IInv, Active, NEW m \in Database, m.txid <= MaxTxId, NEW n \in 0 .. Len(Log)
    PROVE  LET r == Recovered(m, Prefix(Log, n))
           IN  /\ ~r.thrown /\ r \in ReplayStates /\ r.meta.txid <= MaxTxId
               /\ Log[1].txid < m.txid => r.meta = m
  <1> DEFINE r == Recovered(m, Prefix(Log, n))
  <1>1. PICK base \in TxIds : /\ base <= meta.txid /\ LogOK(Log, base, meta.txid, HasBegun)
                              /\ Log[1].txid = base
    BY ActiveFacts
  <1>2. TypeInv /\ meta.txid <= MaxTxId
    BY DEF IInv, TypeInv
  <1>3. /\ meta.txid \in Nat /\ m.txid \in Nat /\ base \in Nat
        /\ Log \in Seq(Records) /\ Len(Log) \in Nat
    BY <1>2, LogType, Consts DEF Database
  <1>4. CASE m.txid <= base
    <2>1. ReadsOn(r) /\ r.meta.txid + base <= m.txid + meta.txid
      BY <1>1, <1>3, <1>4 DEF LogOK, Accepts
    <2> HIDE DEF r
    <2>2. r \in ReplayStates /\ r.meta.txid \in Nat /\ ~r.thrown
      BY <2>1 DEF ReadsOn, ReplayStates
    <2>3. r.meta.txid <= meta.txid /\ r.meta.txid <= MaxTxId
      BY <1>2, <1>3, <1>4, <2>1, <2>2, Consts
    <2>4. ~(Log[1].txid < m.txid)
      BY <1>1, <1>3, <1>4
    <2>5. QED
      BY <2>2, <2>3, <2>4 DEF r
  <1>5. CASE m.txid > base
    <2>1. CASE n = 0
      <3>1. Prefix(Log, 0) = << >>
        BY <1>3, Consts, Prefixes
      <3>2. r = Start(m)
        BY <2>1, <3>1, RecoveredEmpty
      <3>3. QED
        BY <1>2, <1>3, <3>2, StartState DEF ReadsOn
    <2>2. CASE n # 0
      <3>1. n \in 1 .. Len(Log)
        BY <1>3, <2>2
      <3>2. ~r.thrown /\ r \in ReplayStates /\ r.meta = m
        BY <1>1, <1>3, <1>5, <3>1 DEF LogOK, Skips
      <3>3. QED
        BY <1>2, <1>3, <3>2
    <2>3. QED
      BY <2>1, <2>2
  <1>6. QED
    BY <1>3, <1>4, <1>5

LEMMA ActiveCrash ==
    ASSUME IInv, Active, NEW n \in 0 .. Len(Log)
    PROVE  LET r == Recovered(disk, Prefix(Log, n))
           IN  ~r.thrown /\ (Log[1].txid < disk.txid => r.meta = disk)
  <1>1. disk \in Database /\ disk.txid <= MaxTxId
    BY DEF IInv, TypeInv, TypeOK
  <1>2. QED
    BY <1>1, ActiveReplayed

\* After the first crash the state it finds is a committed one.
LEMMA FirstCrash ==
    ASSUME IInv, Active, crashes = 0, Whole, NEW n \in synced .. Len(Log)
    PROVE  Faithful(Recovered(disk, Prefix(Log, n)).meta)
  <1> DEFINE r == Recovered(disk, Prefix(Log, n))
  <1>1. TypeInv /\ synced \in 0 .. Len(Log) /\ Len(Log) \in Nat
    BY LogType DEF IInv
  <1>2. n \in 0 .. Len(Log)
    BY <1>1
  <1>3. crashes <= 1
    OBVIOUS
  <1>4. Faithful(meta)
    BY <1>3, ActiveFacts
  <1>5. CASE Log[1].txid < disk.txid /\ disk = meta
    BY <1>2, <1>4, <1>5, ActiveCrash
  <1>6. CASE /\ Tracks(disk, Log, history, meta, phase = "open", work)
             /\ sync => Reaches(disk, Log, synced, meta.txid)
    <2>1. r.meta.store = history[r.meta.txid]
      BY <1>2, <1>6 DEF Tracks
    <2>2. sync => r.meta.txid = meta.txid
      BY <1>6 DEF Reaches
    <2> HIDE DEF r
    <2>3. Faithful(r.meta)
      BY <1>4, <2>1, <2>2 DEF Faithful
    <2>4. QED
      BY <2>3 DEF r
  <1>7. QED
    BY <1>5, <1>6 DEF IInv, FirstInv

\* The log that ~Logger leaves has no kBegin: read to the end, it is refused.
LEMMA ClosedCrash ==
    ASSUME IInv, phase = "closed", NEW m \in Database, m.txid <= MaxTxId, NEW n \in 0 .. Len(Log)
    PROVE  LET r == Recovered(m, Prefix(Log, n))
           IN  r.thrown \/ (r \in ReplayStates /\ r.meta = m)
  <1> DEFINE first == <<kWalTxId(disk.txid)>>
             r == Recovered(m, Prefix(Log, n))
  <1>1. TypeInv /\ log_buffer = << >> /\ log_file = <<kWalTxId(disk.txid), kCommit>>
    BY DEF IInv, ClosingInv
  <1>2. disk \in Database /\ disk.txid \in TxIds /\ disk.txid \in Nat
    BY <1>1, LogType
  <1>3. kWalTxId(disk.txid) \in Records /\ kCommit \in Records
    BY <1>2, Consts
  <1>4. Log = Append(first, kCommit) /\ first \in Seq(Records) /\ Len(first) = 1
    <2>1. log_file \in Seq(Records) /\ log_file \o << >> = log_file
      BY <1>1, <1>3, ConcatEmptySeq
    <2>2. Log = log_file
      BY <1>1, <2>1 DEF Log
    <2>3. ASSUME NEW a \in Records, NEW b \in Records PROVE Append(<<a>>, b) = <<a, b>>
      <3>1. Append(<<a>>, b) \in Seq(Records) /\ <<a, b>> \in Seq(Records)
        OBVIOUS
      <3>2. Len(Append(<<a>>, b)) = 2 /\ Len(<<a, b>>) = 2
        OBVIOUS
      <3>3. \A i \in 1 .. 2 : i = 1 \/ i = 2
        OBVIOUS
      <3>4. Append(<<a>>, b)[1] = a /\ Append(<<a>>, b)[2] = b
        OBVIOUS
      <3>5. <<a, b>>[1] = a /\ <<a, b>>[2] = b
        OBVIOUS
      <3>6. \A i \in 1 .. 2 : Append(<<a>>, b)[i] = <<a, b>>[i]
        BY <3>3, <3>4, <3>5
      <3>7. QED
        BY <3>1, <3>2, <3>6, SeqEqual
    <2>4. QED
      BY <1>1, <1>3, <2>2, <2>3
  <1>5. /\ LogOK(first, disk.txid, disk.txid, FALSE) /\ Recovered(m, << >>) = Start(m)
        /\ Recovered(m, first).meta = m
    BY <1>2, FirstRecordOK
  <1> HIDE DEF first
  <1>6. /\ Len(Log) = 2 /\ Prefix(Log, 0) = << >> /\ Prefix(Log, 1) = first /\ Prefix(Log, 2) = Log
    <2>1. /\ Len(Append(first, kCommit)) = Len(first) + 1
          /\ \A i \in 0 .. Len(first) : Prefix(Append(first, kCommit), i) = Prefix(first, i)
          /\ Prefix(Append(first, kCommit), Len(first) + 1) = Append(first, kCommit)
          /\ Prefix(first, Len(first)) = first /\ Prefix(first, 0) = << >>
      BY <1>3, <1>4, Prefixes
    <2>2. QED
      BY <1>4, <2>1
  <1>7. CASE n = 0
    BY <1>5, <1>6, <1>7, StartState DEF ReadsOn
  <1>8. m.txid \in Nat /\ (m.txid <= disk.txid \/ m.txid > disk.txid)
    BY <1>2, Consts DEF Database
  <1>9. CASE m.txid <= disk.txid
    <2> DEFINE s == Recovered(m, first)
    <2>1. /\ s \in ReplayStates /\ s.init
          /\ s.open <=> FALSE
          /\ Recovered(m, Append(first, kCommit)) = Replay(s, kCommit)
      BY <1>2, <1>3, <1>5, <1>9, LastTurn
    <2>2. CASE n = 1
      BY <1>5, <1>6, <2>1, <2>2
    <2>3. CASE n = 2
      <3> HIDE DEF s
      <3>1. s.open = FALSE
        BY <2>1 DEF ReplayStates
      <3>2. Replay(s, kCommit) = [s EXCEPT !.thrown = TRUE]
        BY <2>1, <3>1 DEF Replay, kCommit
      <3>3. [s EXCEPT !.thrown = TRUE].thrown
        BY <2>1 DEF ReplayStates
      <3>4. QED
        BY <1>4, <1>6, <2>1, <2>3, <3>2, <3>3
    <2>4. QED
      BY <1>6, <1>7, <2>2, <2>3
  <1>10. CASE m.txid > disk.txid
    <2> DEFINE s == Recovered(m, first)
    <2>1. s \in ReplayStates /\ s.end /\ s.meta = m
      <3>1. 1 \in 1 .. Len(first) /\ Prefix(first, 1) = first
        BY <1>3, <1>4, Prefixes
      <3>2. QED
        BY <1>5, <1>10, <3>1 DEF LogOK, Skips
    <2>2. Recovered(m, Log) = s
      <3>1. Recovered(m, Append(first, kCommit)) = Turn(s, kCommit)
        BY <1>3, <1>4, RecoveredAppend
      <3>2. QED
        BY <1>4, <2>1, <3>1 DEF Turn
    <2>3. n = 0 \/ n = 1 \/ n = 2
      BY <1>6
    <2>4. QED
      BY <1>6, <1>7, <2>1, <2>2, <2>3
  <1>11. QED
    BY <1>8, <1>9, <1>10

\* A shorter log is replayable too.
LEMMA ReplayablePrefix ==
    ASSUME NEW log \in Seq(Records), Replayable(log), NEW n \in 0 .. Len(log)
    PROVE  Replayable(Prefix(log, n))
  <1>1. Len(log) \in Nat /\ Prefix(log, n) \in Seq(Records) /\ Len(Prefix(log, n)) = n
    <2>1. Len(log) \in Nat
      BY LenProperties
    <2>2. CASE n = 0
      <3>1. Prefix(log, 0) = << >>
        BY Consts, Prefixes
      <3>2. << >> \in Seq(Records) /\ Len(<< >>) = 0
        OBVIOUS
      <3>3. QED
        BY <2>1, <2>2, <3>1, <3>2
    <2>3. CASE n # 0
      <3>1. n \in 1 .. Len(log) /\ 1 \in 1 .. Len(log)
        BY <2>1, <2>3
      <3>2. QED
        BY <2>1, <3>1 DEF Prefix
    <2>4. QED
      BY <2>2, <2>3
  <1>2. ASSUME NEW i \in 0 .. n PROVE Prefix(Prefix(log, n), i) = Prefix(log, i)
    <2>1. CASE i = 0
      BY <1>1, <2>1, Consts, Prefixes
    <2>2. CASE i # 0
      <3>1. i \in 1 .. n /\ i \in Nat /\ n \in Nat /\ n <= Len(log)
        BY <1>1, <2>2
      <3> DEFINE p == Prefix(log, n)
      <3>2. p \in Seq(Records) /\ Len(p) = n /\ \A j \in 1 .. n : p[j] = log[j]
        BY <1>1, <3>1 DEF Prefix
      <3>3. /\ Prefix(log, i) \in Seq(Records) /\ Len(Prefix(log, i)) = i
            /\ \A j \in 1 .. i : Prefix(log, i)[j] = log[j]
        BY <1>1, <3>1 DEF Prefix
      <3> HIDE DEF p
      <3>4. /\ Prefix(p, i) \in Seq(Records) /\ Len(Prefix(p, i)) = i
            /\ \A j \in 1 .. i : Prefix(p, i)[j] = p[j]
        BY <3>1, <3>2 DEF Prefix
      <3>5. \A j \in 1 .. i : Prefix(p, i)[j] = Prefix(log, i)[j]
        BY <3>1, <3>2, <3>3, <3>4
      <3>6. Prefix(p, i) = Prefix(log, i)
        BY <3>3, <3>4, <3>5, SeqEqual
      <3>7. QED
        BY <3>6 DEF p
    <2>3. QED
      BY <2>1, <2>2
  <1>3. \A i \in 0 .. n : i \in 0 .. Len(log)
    BY <1>1
  <1>4. QED
    BY <1>1, <1>2, <1>3 DEF Replayable

\* Outside "damaged" the log is replayable, whatever a crash leaves of it.
LEMMA LogReplayable ==
    ASSUME IInv, phase # "damaged"
    PROVE  Replayable(Log)
  <1>1. TypeOK
    BY DEF IInv, TypeInv
  <1>2. CASE Active
    BY <1>2, ActiveReplayed DEF Replayable, Outcome
  <1>3. CASE phase = "closed"
    BY <1>3, ClosedCrash DEF Replayable, Outcome
  <1>4. CASE phase \in {"recover", "recovered"}
    BY <1>4 DEF IInv, RecoverInv
  <1>5. QED
    BY <1>1, <1>2, <1>3, <1>4 DEF TypeOK, Active

\* What Recover finds after a first crash.
LEMMA CrashOutcome ==
    ASSUME IInv, phase # "damaged", crashes = 0, Whole, NEW n \in synced .. Len(Log)
    PROVE  LET r == Recovered(disk, Prefix(Log, n))
           IN  ~r.thrown => Faithful(r.meta)
  <1>1. TypeInv /\ TypeOK
    BY DEF IInv, TypeInv
  <1>2. /\ synced \in 0 .. Len(Log) /\ Len(Log) \in Nat /\ disk \in Database
        /\ disk.txid <= MaxTxId
    BY <1>1, LogType DEF TypeInv
  <1>3. n \in 0 .. Len(Log) /\ crashes <= 1
    BY <1>2
  <1>4. CASE Active
    BY <1>4, FirstCrash
  <1>5. CASE phase = "closed"
    <2>1. Faithful(disk)
      BY <1>3, <1>5 DEF IInv, CommittedInv
    <2>2. QED
      BY <1>2, <1>3, <1>5, <2>1, ClosedCrash
  <1>6. phase \notin {"recover", "recovered"}
    BY <1>1 DEF TypeInv
  <1>7. QED
    BY <1>1, <1>4, <1>5, <1>6 DEF TypeOK, Active

\* A crash keeps the durable part of the log, and perhaps more.
LEMMA CrashStep ==
    ASSUME IInv, Crash
    PROVE  IInv'
  <1>1. /\ phase # "damaged" /\ crashes < MaxCrashes /\ crashes' = crashes + 1
        /\ log_file' \in LogsAfterCrash /\ log_buffer' = << >> /\ synced' = Len(log_file')
        /\ checkpoint_needed' = FALSE /\ meta' = disk' /\ work' = NoWork /\ puts' = 0
        /\ phase' = "recover" /\ persisted_txid' = kTxInvalidId
        /\ UNCHANGED <<sync, history, acked>>
    BY DEF Crash
  <1>2. TypeInv /\ TypeOK /\ ~HasBegun' /\ ~Active'
    BY <1>1 DEF IInv, TypeInv, HasBegun, Active
  <1>3. PICK n \in synced .. Len(Log) : log_file' = Prefix(Log, n)
    BY <1>1 DEF LogsAfterCrash, Prefix
  <1>4. /\ Log \in Seq(Records) /\ n \in 0 .. Len(Log)
        /\ log_file' \in Seq(Records) /\ Len(log_file') \in Nat /\ Log' = log_file'
    <2>1. Log \in Seq(Records) /\ Len(Log) \in Nat /\ synced \in 0 .. Len(Log)
      BY <1>2, LogType
    <2>2. n \in 0 .. Len(Log) /\ 1 .. n \subseteq 1 .. Len(Log)
      BY <2>1
    <2>3. Prefix(Log, n) \in Seq(Records)
      BY <2>1, <2>2, SubSeqProperties DEF Prefix
    <2>4. log_file' \in Seq(Records) /\ Len(log_file') \in Nat
      BY <1>3, <2>3, LenProperties
    <2>5. log_file' \o << >> = log_file'
      BY <2>4, ConcatEmptySeq
    <2>6. QED
      BY <1>1, <2>1, <2>2, <2>4, <2>5 DEF Log
  <1>5. crashes \in Nat /\ crashes' \in 0 .. MaxCrashes /\ crashes' # 0
        /\ (crashes' <= 1 => crashes = 0)
    BY <1>1, <1>2, Consts DEF TypeOK
  <1>6. /\ disk' \in Database /\ disk'.txid <= MaxTxId
        /\ pages' \in {"sound", "released", "lost"}
        /\ Whole' => Whole /\ disk' = disk
    <2>1. disk \in Database /\ disk.txid <= MaxTxId
      BY <1>2 DEF TypeInv, TypeOK
    <2>2. disk' \in DisksAfterCrash
          /\ pages' = IF pages = "lost" \/ disk' # disk THEN "lost" ELSE "sound"
      BY DEF Crash
    <2>3. \A s \in Stores : [disk EXCEPT !.store = s] \in Database
                            /\ [disk EXCEPT !.store = s].txid = disk.txid
      BY <2>1 DEF Database
    <2>4. disk' \in Database /\ disk'.txid <= MaxTxId
      BY <2>1, <2>2, <2>3 DEF DisksAfterCrash
    <2>5. QED
      BY <2>2, <2>4 DEF Whole
  <1>7. TypeInv'
    <2>1. synced' \in 0 .. Len(log_file') /\ puts' \in 0 .. MaxRecords
      BY <1>1, <1>4, Consts
    <2>2. TypeOK'
      BY <1>1, <1>2, <1>5, <1>6, <2>1, Consts DEF TypeOK
    <2>3. << >> \in Seq(Records)
      OBVIOUS
    <2>4. QED
      BY <1>1, <1>2, <1>4, <1>5, <1>6, <2>2, <2>3 DEF TypeInv
  <1>8. LogInv' /\ FirstInv' /\ ClosingInv' /\ LengthInv' /\ CommittedInv'
    BY <1>1, <1>2 DEF LogInv, FirstInv, ClosingInv, LengthInv, CommittedInv
  <1>9. RecoverInv'
    <2>1. Replayable(log_file')
      BY <1>1, <1>3, <1>4, LogReplayable, ReplayablePrefix
    <2>2. Replayable(Log)'
      BY <1>4, <2>1 DEF Replayable, Outcome
    <2> DEFINE r == Recovered(disk, log_file')
    <2>3. ~r.thrown /\ crashes' <= 1 /\ Whole' => Faithful(r.meta)
      BY <1>1, <1>3, <1>5, <1>6, CrashOutcome
    <2>4. Whole' => Recovered(disk', log_file') = r
      BY <1>6
    <2> HIDE DEF r
    <2>5. Faithful(r.meta) => r.meta.store = history'[r.meta.txid]
                              /\ (sync' => r.meta.txid >= acked')
      BY <1>1 DEF Faithful
    <2>6. QED
      BY <1>1, <2>2, <2>3, <2>4, <2>5 DEF RecoverInv, Faithful
  <1>10. QED
    BY <1>7, <1>8, <1>9 DEF IInv

\* The rollback of a transaction that Recover found open leaves it replayable.
LEMMA ReplayableRollback ==
    ASSUME NEW log \in Seq(Records), Replayable(log)
    PROVE  Replayable(Append(log, kRollback))
  <1> DEFINE longer == Append(log, kRollback)
  <1>1. /\ Len(log) \in Nat /\ Len(longer) = Len(log) + 1 /\ Prefix(log, Len(log)) = log
        /\ \A n \in 0 .. Len(log) : Prefix(longer, n) = Prefix(log, n)
        /\ Prefix(longer, Len(log) + 1) = longer
    BY Consts, Prefixes
  <1>2. SUFFICES ASSUME NEW m \in Database, m.txid <= MaxTxId, NEW n \in 0 .. Len(longer)
                 PROVE  Outcome(m, Prefix(longer, n))
    BY DEF Replayable
  <1>3. CASE n \in 0 .. Len(log)
    BY <1>1, <1>2, <1>3 DEF Replayable
  <1>4. CASE n = Len(log) + 1
    <2> DEFINE s == Recovered(m, log)
               u == Recovered(m, longer)
    <2>1. u = Turn(s, kRollback)
      BY Consts, RecoveredAppend
    <2>2. ~s.thrown => s \in ReplayStates /\ s.meta.txid <= MaxTxId
      <3>1. Len(log) \in 0 .. Len(log)
        BY <1>1
      <3>2. QED
        BY <1>1, <1>2, <3>1 DEF Replayable, Outcome
    <2> HIDE DEF s, u, longer
    <2>3. ~u.thrown => u \in ReplayStates /\ u.meta.txid <= MaxTxId
      <3>1. CASE s.thrown \/ s.end
        <4>1. u = s
          BY <2>1, <3>1 DEF Turn
        <4>2. QED
          BY <2>2, <4>1
      <3>2. CASE ~s.thrown /\ ~s.end
        <4>1. u = Replay(s, kRollback) /\ s \in ReplayStates /\ s.meta.txid <= MaxTxId
          BY <2>1, <2>2, <3>2 DEF Turn
        <4>2. CASE s.init /\ s.open
          <5>1. u = [s EXCEPT !.open = FALSE]
            BY <4>1, <4>2, ReplayRollback
          <5>2. QED
            BY <4>1, <5>1 DEF ReplayStates
        <4>3. CASE ~s.init \/ ~s.open
          <5>1. s.open \in BOOLEAN /\ s.init \in BOOLEAN
            BY <4>1 DEF ReplayStates
          <5>2. u = [s EXCEPT !.thrown = TRUE]
            BY <4>1, <4>3, <5>1 DEF Replay, kRollback
          <5>3. u.thrown
            BY <4>1, <5>2 DEF ReplayStates
          <5>4. QED
            BY <5>3
        <4>4. QED
          BY <4>2, <4>3
      <3>3. QED
        BY <3>1, <3>2
    <2>4. QED
      BY <1>1, <1>4, <2>3 DEF Outcome, u
  <1>5. QED
    BY <1>1, <1>2, <1>3, <1>4

\* Recover reads what is left, and refuses it or takes over its state.
LEMMA RecoverStep ==
    ASSUME IInv, Recover
    PROVE  IInv'
  <1> DEFINE r == Recovered(meta, log_file)
  <1>1. /\ phase = "recover" /\ persisted_txid' = persisted_txid
        /\ UNCHANGED <<work, history, acked, puts, crashes>>
    BY DEF Recover
  <1>2. \/ /\ r.thrown /\ phase' = "damaged" /\ meta' = meta /\ disk' = disk /\ pages' = pages
           /\ UNCHANGED logVars
        \/ /\ ~r.thrown /\ phase' = "recovered" /\ meta' = r.meta
           /\ disk' = IF r.meta.txid > r.meta.txid THEN r.meta ELSE disk
           /\ pages' \in PagesAfterRelease(r.meta.txid)
           /\ AppendLog(<<kRollback>>) \/ UNCHANGED logVars
    BY DEF Recover
  <1>3. /\ TypeInv /\ TypeOK /\ log_buffer = << >> /\ meta = disk /\ Replayable(Log)
        /\ LET q == Recovered(disk, log_file)
           IN  ~q.thrown /\ crashes <= 1 /\ Whole => Faithful(q.meta)
    BY <1>1 DEF IInv, RecoverInv, TypeInv
  <1>4. ~r.thrown => /\ r.meta \in Database /\ r.meta.txid <= MaxTxId
                     /\ crashes <= 1 /\ Whole => Faithful(r.meta)
    <2>1. /\ log_file \in Seq(Records) /\ Log = log_file /\ Len(log_file) \in 0 .. Len(log_file)
          /\ Prefix(log_file, Len(log_file)) = log_file
      <3>1. log_file \in Seq(Records)
        BY <1>3 DEF TypeInv
      <3>2. log_file \o << >> = log_file /\ Len(log_file) \in Nat
        BY <3>1, ConcatEmptySeq, LenProperties
      <3>3. QED
        BY <1>3, <3>1, <3>2, Consts, Prefixes DEF Log
    <2>2. meta \in Database /\ meta.txid <= MaxTxId
      BY <1>3 DEF TypeInv, TypeOK
    <2>3. Outcome(meta, log_file)
      BY <1>3, <2>1, <2>2 DEF Replayable
    <2>4. ~r.thrown => r \in ReplayStates /\ r.meta.txid <= MaxTxId
      BY <2>3 DEF Outcome
    <2>5. ~r.thrown /\ crashes <= 1 /\ Whole => Faithful(r.meta)
      BY <1>3
    <2> HIDE DEF r
    <2>6. r \in ReplayStates /\ r.meta.txid <= MaxTxId => r.meta \in Database
      <3>1. r \in ReplayStates => r.meta \in [txid : Nat \ {0}, store : Stores]
        BY DEF ReplayStates
      <3>2. ASSUME NEW d \in [txid : Nat \ {0}, store : Stores], d.txid <= MaxTxId
            PROVE  d \in Database
        <4>1. d.txid \in TxIds
          BY <3>2, Consts
        <4>2. QED
          BY <3>2, <4>1 DEF Database
      <3>3. QED
        BY <3>1, <3>2
    <2>7. QED
      BY <2>4, <2>5, <2>6
  <1> HIDE DEF r
  <1>5. ~HasBegun' /\ ~Active'
    BY <1>2 DEF HasBegun, Active
  <1>6. disk' = disk
    <2>1. ~r.thrown => r.meta.txid \in Nat
      BY <1>4, Consts DEF Database
    <2>2. ~r.thrown => ~(r.meta.txid > r.meta.txid)
      BY <2>1
    <2>3. QED
      BY <1>2, <2>2
  <1>7. PagesKept
    <2>1. CASE pages' = pages
      BY <1>1, <1>3, <2>1, PagesUnchanged DEF pageVars
    <2>2. CASE pages' \in PagesAfterRelease(r.meta.txid)
      BY <1>1, <1>3, <2>2, PagesReleased
    <2>3. QED
      BY <1>2, <2>1, <2>2
  <1>8. /\ log_file' = log_file /\ log_buffer' \in Seq(Records) /\ synced' = synced
        /\ checkpoint_needed' \in BOOLEAN /\ sync' = sync
        /\ Replayable(Log')
    <2>1. CASE UNCHANGED logVars
      <3>1. UNCHANGED <<log_file, log_buffer, synced, checkpoint_needed, sync>> /\ Log' = Log
        BY <2>1 DEF logVars, Log
      <3>2. QED
        BY <1>3, <3>1 DEF TypeInv, TypeOK
    <2>2. CASE AppendLog(<<kRollback>>)
      <3>1. /\ Log' = Append(Log, kRollback) /\ log_buffer' \in Seq(Records)
            /\ UNCHANGED <<log_file, synced, sync>> /\ checkpoint_needed' \in BOOLEAN
        BY <1>3, <2>2, Consts, AppendLogStep
      <3>2. Replayable(Append(Log, kRollback))
        BY <1>3, LogType, ReplayableRollback
      <3>3. QED
        BY <3>1, <3>2
    <2>3. QED
      BY <1>2, <2>1, <2>2
  <1>9. TypeInv'
    <2>1. meta' \in Database /\ meta'.txid <= MaxTxId /\ disk'.txid <= MaxTxId
      BY <1>2, <1>3, <1>4, <1>6 DEF TypeInv, TypeOK
    <2>2. TypeOK'
      BY <1>1, <1>2, <1>3, <1>6, <1>7, <1>8, <2>1 DEF TypeOK, PagesKept
    <2>3. QED
      BY <1>1, <1>2, <1>3, <1>5, <1>8, <2>1, <2>2 DEF TypeInv
  <1>10. LogInv' /\ FirstInv' /\ ClosingInv' /\ LengthInv'
    BY <1>2, <1>5 DEF LogInv, FirstInv, ClosingInv, LengthInv
  <1>11. CommittedInv'
    <2>1. CASE phase' = "damaged"
      BY <2>1 DEF CommittedInv
    <2>2. CASE ~r.thrown /\ phase' = "recovered" /\ meta' = r.meta
      BY <1>1, <1>4, <1>7, <1>8, <2>2 DEF CommittedInv, Faithful, PagesKept
    <2>3. QED
      BY <1>2, <2>1, <2>2
  <1>12. RecoverInv'
    <2>1. Replayable(Log)'
      BY <1>8 DEF Replayable, Outcome
    <2>2. phase' # "recover"
      BY <1>2
    <2>3. QED
      BY <2>1, <2>2 DEF RecoverInv
  <1>13. QED
    BY <1>9, <1>10, <1>11, <1>12 DEF IInv

\* The checkpoint of that rollback.
LEMMA RecoverCheckpointStep ==
    ASSUME IInv, RecoverCheckpoint
    PROVE  IInv'
  <1>1. /\ phase = "recovered" /\ checkpoint_needed' = FALSE /\ disk' = meta /\ PagesKept
        /\ UNCHANGED <<meta, work, log_file, log_buffer, synced, sync, phase, history,
                       acked, puts, crashes>>
    <2>1. TypeOK
      BY DEF IInv, TypeInv
    <2>2. QED
      BY <2>1, PagesSaved DEF RecoverCheckpoint
  <1>2. TypeInv /\ TypeOK /\ Replayable(Log) /\ Log' = Log
    BY <1>1 DEF IInv, TypeInv, RecoverInv, Log
  <1>3. ~HasBegun' /\ ~Active' /\ phase' = "recovered"
    BY <1>1 DEF HasBegun, Active
  <1>4. TypeInv'
    <2>1. TypeOK'
      BY <1>1, <1>2 DEF TypeOK, PagesKept
    <2>2. QED
      BY <1>1, <1>2, <1>3, <2>1 DEF TypeInv
  <1>5. LogInv' /\ FirstInv' /\ ClosingInv' /\ LengthInv'
    BY <1>3 DEF LogInv, FirstInv, ClosingInv, LengthInv
  <1>6. CommittedInv'
    BY <1>1 DEF IInv, CommittedInv, Faithful, PagesKept
  <1>7. RecoverInv'
    <2>1. Replayable(Log)'
      BY <1>2 DEF Replayable, Outcome
    <2>2. QED
      BY <1>3, <2>1 DEF RecoverInv
  <1>8. QED
    BY <1>4, <1>5, <1>6, <1>7 DEF IInv

\* InitLogFile begins a new log on the recovered state.
LEMMA ResetAfterRecoverStep ==
    ASSUME IInv, ResetAfterRecover
    PROVE  IInv'
  <1>0. PagesKept
    <2>1. TypeOK
      BY DEF IInv, TypeInv
    <2>2. UNCHANGED pageVars
      BY DEF ResetAfterRecover
    <2>3. QED
      BY <2>1, <2>2, PagesUnchanged
  <1>1. /\ phase = "recovered" /\ ResetLog(meta.txid) /\ phase' = "idle"
        /\ UNCHANGED <<meta, work, disk, history, acked, puts, crashes>>
    BY DEF ResetAfterRecover
  <1>2. /\ HasBegun' = FALSE /\ TypeInv /\ TypeOK /\ crashes # 0
        /\ meta.txid \in TxIds /\ meta \in Database
    BY <1>1, LogType DEF HasBegun, IInv, TypeInv
  <1>3. /\ Log' = <<kWalTxId(meta.txid)>>
        /\ log_file' \in Seq(Records) /\ log_buffer' \in Seq(Records)
        /\ synced' = 0 /\ synced' \in 0 .. Len(log_file') /\ sync' = sync
        /\ ~checkpoint_needed' /\ checkpoint_needed' \in BOOLEAN /\ Len(Log') < MaxWalSize
    BY <1>1, <1>2, ResetLogStep
  <1>4. TypeInv'
    <2>1. TypeOK'
      BY <1>0, <1>1, <1>2, <1>3 DEF TypeOK, PagesKept
    <2>2. QED
      BY <1>1, <1>2, <1>3, <2>1 DEF TypeInv
  <1>5. LogInv' /\ FirstInv'
    BY <1>1, <1>2, <1>3, NewLog
  <1>6. RecoverInv' /\ ClosingInv'
    BY <1>1 DEF RecoverInv, ClosingInv
  <1>7. LengthInv'
    BY <1>1, <1>3 DEF LengthInv
  <1>8. CommittedInv'
    BY <1>0, <1>1, <1>3 DEF IInv, CommittedInv, Faithful, PagesKept
  <1>9. QED
    BY <1>4, <1>5, <1>6, <1>7, <1>8 DEF IInv

LEMMA NextStep == IInv /\ [Next]_vars => IInv'
  <1> SUFFICES ASSUME IInv, [Next]_vars PROVE IInv'
    OBVIOUS
  <1>1. CASE UNCHANGED vars
    <2>1. /\ UNCHANGED <<meta, work, disk, log_file, log_buffer, synced, checkpoint_needed>>
          /\ UNCHANGED <<sync, persisted_txid, pages, phase, history, acked, puts, crashes>>
      BY <1>1 DEF vars
    <2>2. /\ Log' = Log /\ Active' = Active /\ HasBegun' = HasBegun /\ Whole' = Whole
          /\ Replayable(Log)' = Replayable(Log)
      BY <2>1 DEF Log, Active, HasBegun, Whole
    <2>3. TypeInv'
      <3>1. TypeOK'
        BY <2>1 DEF IInv, TypeInv, TypeOK
      <3>2. QED
        BY <2>1, <2>2, <3>1 DEF IInv, TypeInv
    <2>4. LogInv' /\ FirstInv'
      BY <2>1, <2>2 DEF IInv, LogInv, FirstInv
    <2>5. RecoverInv' /\ CommittedInv'
      BY <2>1, <2>2 DEF IInv, RecoverInv, CommittedInv, Faithful
    <2>6. ClosingInv' /\ LengthInv'
      BY <2>1, <2>2 DEF IInv, ClosingInv, LengthInv
    <2>7. QED
      BY <2>3, <2>4, <2>5, <2>6 DEF IInv
  <1>2. CASE \E k \in Keys, v \in Values : Put(k, v)
    BY <1>2, PutStep
  <1>3. CASE Update \/ RollBack \/ Commit \/ End
    BY <1>3, UpdateStep, RollBackStep, CommitStep, EndStep
  <1>4. CASE CheckpointSave \/ CheckpointReset
    BY <1>4, CheckpointSaveStep, CheckpointResetStep
  <1>5. CASE CloseSave \/ CloseCommit \/ CloseAndOpen
    BY <1>5, CloseSaveStep, CloseCommitStep, CloseAndOpenStep
  <1>6. CASE Crash \/ Recover \/ RecoverCheckpoint \/ ResetAfterRecover
    BY <1>6, CrashStep, RecoverStep, RecoverCheckpointStep, ResetAfterRecoverStep
  <1>7. QED
    BY <1>1, <1>2, <1>3, <1>4, <1>5, <1>6 DEF Next

-----------------------------------------------------------------------------
(* The theorems.                                                            *)

\* The invariant behind them: while the log is written, Logger::Recover accepts
\* whatever part of it a crash leaves, whatever database the crash leaves with it
\* (LogInv); before any crash, with contents that are whole, the log leads from
\* the database on disk to that in memory (FirstInv).
THEOREM Invariance == Spec => []IInv
  BY InitStep, NextStep, PTL DEF Spec

\* Every variable of the logger and of recovery keeps its type; the txid that
\* Recover counts up, commit by commit, stays within those handed out before.
THEOREM TypeCorrect == Spec => []TypeOK
  <1>1. IInv => TypeOK
    BY DEF IInv, TypeInv
  <1>2. QED
    BY <1>1, Invariance, PTL

LEMMA CrashRecoversStep == IInv => FirstCrashRecovers
  <1> SUFFICES ASSUME IInv, crashes = 0, phase # "closed", pages = "sound",
                      NEW d \in DisksAfterCrash, NEW log \in LogsAfterCrash
               PROVE  ~Recovered(d, log).thrown /\ Faithful(Recovered(d, log).meta)
    BY DEF FirstCrashRecovers, CrashNowRecovers
  <1>1. TypeInv /\ Active /\ Whole /\ d = disk
    BY DEF IInv, TypeInv, TypeOK, Active, Whole, DisksAfterCrash
  <1>2. PICK n \in synced .. Len(Log) : log = Prefix(Log, n)
    BY DEF LogsAfterCrash, Prefix
  <1>3. n \in 0 .. Len(Log)
    BY <1>1, LogType
  <1>4. QED
    BY <1>1, <1>2, <1>3, ActiveCrash, FirstCrash

\* Crash consistency for any number of transactions, records and keys: whatever
\* a first crash leaves of the log, at any moment of a commit, a rollback, a
\* checkpoint or the first half of ~Logger, Logger::Recover replays it without
\* an exception to a committed state, and with Options::sync to none older than
\* the last acknowledged commit.  As FirstCrashRecovers says, this is so while
\* Release has handed out no page of the version on disk and no rollback has
\* left behind what its transaction overwrote.
THEOREM FirstCrashRecoversHolds == Spec => []FirstCrashRecovers
  BY CrashRecoversStep, Invariance, PTL

\* Until a second crash, the process works on a committed state whenever
\* DB::Open is through, and with Options::sync no acknowledged commit is
\* missing, unless the crash found overwritten pages or a rollback left some.
\* (After a second crash it may not: LoggerSecondCrash.)
THEOREM RecoveredStateFaithfulHolds == Spec => [](crashes <= 1 => RecoveredStateFaithful)
  <1>1. IInv => (crashes <= 1 => RecoveredStateFaithful)
    BY DEF IInv, CommittedInv, RecoveredStateFaithful, Whole
  <1>2. QED
    BY <1>1, Invariance, PTL

\* Between transactions the log is shorter than Options::max_wal_size: the
\* checkpoint of Commit and RollBack is never missed.
THEOREM LogShorterThanMaxHolds == Spec => []LogShorterThanMax
  <1>1. IInv => LogShorterThanMax
    BY DEF IInv, LengthInv, LogShorterThanMax
  <1>2. QED
    BY <1>1, Invariance, PTL
=============================================================================
