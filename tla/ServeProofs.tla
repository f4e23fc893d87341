----------------------------- MODULE ServeProofs -----------------------------
(***************************************************************************)
(* Proofs about Serve, for any number of handlers, key versions, nonces,   *)
(* replay keys and budgets, and any number of crashes and restarts.        *)
(***************************************************************************)
EXTENDS Serve, SequenceTheorems, FiniteSetTheorems, TLAPS

-----------------------------------------------------------------------------
(* The inductive invariant behind AtMostOnce.                              *)

\* Handlers run only in a serving process; one that is past the check of
\* its store holds a record.
Running ==
    \A h \in Handler :
        /\ pc[h] # "idle" => status = "serving" /\ job[h] \in Job
        /\ pc[h] = "authorizing" => job[h].rec \in BudgetRec

\* j.mu is held exactly from Write to Sync, and the last line is then the
\* holder's, or is spoilt by an unterminated line before it.
Locked ==
    \A h \in Handler :
        /\ pc[h] = "written" <=> jmu = h
        /\ pc[h] = "written" =>
            /\ lines # << >>
            /\ lines[Len(lines)] \in {job[h].rec, Garbled}

\* The single use a handler works on is marked in memory, no other handler
\* works on it, and it was never answered.
Exclusive ==
    \A h \in Handler, r \in OnceRec : Holds(h, r) =>
        /\ Marked(r)
        /\ answered[r] = 0
        /\ \A g \in Handler : Holds(g, r) => g = h

\* A use is on the disk, or the disk holds a line no start gets past.
Durable(r) == \E i \in 1..dlen : lines[i] \in {r, Garbled}

\* What was answered, or is about to be, is on the disk.
AnsweredDurable ==
    \A r \in OnceRec :
        (answered[r] # 0 \/ \E h \in Handler : Holds(h, r) /\ pc[h] = "journaled")
            => Durable(r)

\* A serving process remembers what was answered in any earlier one.
Remembered ==
    status = "serving" => \A r \in OnceRec : answered[r] # 0 => Marked(r)

\* Startup has marked every entry it has gone past.
Replayed ==
    status = "replaying" =>
        /\ pos <= ScanLen
        /\ \A i \in 1..pos : i <= Len(lines) =>
            /\ lines[i] # Garbled
            /\ lines[i] \in OnceRec => Marked(lines[i])

OnceInv ==
    /\ TypeOK
    /\ Running
    /\ Locked
    /\ Exclusive
    /\ AnsweredDurable
    /\ Remembered
    /\ Replayed
    /\ AtMostOnce

-----------------------------------------------------------------------------
(* Facts about records and stores.                                         *)

\* A record is of one kind only, and the kind is in its t field.
LEMMA RecKinds ==
    /\ \A r \in OnceRec : r \in Rec /\ r \notin BudgetRec
    /\ \A r \in Rec : r \in OnceRec \/ r \in BudgetRec
    /\ \A r \in SpendRec : r \in OnceRec /\ r.t = "spend" /\ r.epoch \in Epoch /\ r.nonce \in BurnNonce
    /\ \A r \in PvtRec : r \in OnceRec /\ r.t = "pvt" /\ r.key \in ReplayKey
  BY RecAssumption DEF OnceRec, SpendRec, PvtRec, BudgetRec

\* The window index of a time is a time: Reserve's bucket exists.
LEMMA BucketOfType ==
    ASSUME NEW r \in BudgetRec
    PROVE  BucketOf(r) \in Bucket /\ r.amount \in Nat
<1>1. r.key \in BudgetKey /\ r.unix \in Time /\ r.amount \in 1..MaxCount
  BY DEF BudgetRec
<1>2. \A x \in Nat, w \in Nat \ {0} : x \div w \in Nat /\ x \div w <= x
  OBVIOUS
<1>3. r.unix \div Window \in Time
  BY <1>1, <1>2, ServeAssumption DEF Time
<1> QED
  BY <1>1, <1>3, ServeAssumption DEF BucketOf, Bucket

\* Marking a use marks it and forgets no other use.
LEMMA MarkMarks ==
    ASSUME NEW r \in OnceRec, Mark(r), TypeOK
    PROVE  /\ Marked(r)'
           /\ \A q \in OnceRec : Marked(q) => Marked(q)'
           /\ (spent \subseteq Epoch \X BurnNonce)'
           /\ (seenPvt \subseteq ReplayKey)'
           /\ used' = used
  BY RecKinds DEF Mark, Marked, TypeOK, OnceRec, SpendRec, PvtRec

\* A charge touches no once-only store and keeps the counters natural.
LEMMA ChargeType ==
    ASSUME NEW r \in BudgetRec, Charge(r), TypeOK
    PROVE  /\ (used \in [Bucket -> Nat])'
           /\ spent' = spent /\ seenPvt' = seenPvt
  BY BucketOfType DEF Charge, TypeOK

-----------------------------------------------------------------------------
(* The invariant holds at first and is kept by every step.                 *)

\* Before the first start no use is in hand, on file or answered.
LEMMA OnceInit == Init => OnceInv
  BY JournalAssumption, ServeAssumption, RecKinds
  DEF Init, JournalInit, OnceInv, TypeOK, JournalTypeOK, Running, Locked, Exclusive,
      Holds, AnsweredDurable, Remembered, Replayed, AtMostOnce, Job, NoJob, Entry

\* cmdServe begins with empty stores and an unread file.
LEMMA StartKeepsInv == OnceInv /\ Start => OnceInv'
<1> SUFFICES ASSUME OnceInv, Start PROVE OnceInv'
  OBVIOUS
<1> USE DEF OnceInv, Start, journalVars, memVars, handVars, ghostVars
<1>1. TypeOK'
  BY DEF TypeOK, JournalTypeOK, Entry
<1>2. Running' /\ Locked'
  BY DEF Running, Locked
<1>3. Exclusive'
  BY DEF Exclusive, Holds, Marked
<1>4. AnsweredDurable' /\ Remembered' /\ AtMostOnce'
  BY DEF AnsweredDurable, Remembered, AtMostOnce, Holds, Durable
<1>5. Replayed'
  BY DEF Replayed, ScanLen, TypeOK, JournalTypeOK
<1> QED
  BY <1>1, <1>2, <1>3, <1>4, <1>5

\* openJournal marks each record it reads.
LEMMA ReplayKeepsInv == OnceInv /\ Replay => OnceInv'
<1> SUFFICES ASSUME OnceInv, Replay PROVE OnceInv'
  OBVIOUS
<1> USE DEF OnceInv
<1>1. PICK r \in Rec : r = Scanned(pos + 1)
  BY DEF Replay, Refused, Scanned, ScanLen, TypeOK, JournalTypeOK, Entry
<1>2. /\ (spent \subseteq Epoch \X BurnNonce)'
      /\ (seenPvt \subseteq ReplayKey)'
      /\ (used \in [Bucket -> Nat])'
      /\ \A q \in OnceRec : Marked(q) => Marked(q)'
      /\ r \in OnceRec => Marked(r)'
  <2>1. CASE r \in OnceRec
    BY <1>1, <2>1, MarkMarks DEF Replay, TypeOK
  <2>2. CASE r \in BudgetRec
    BY <1>1, <2>2, RecKinds, ChargeType DEF Replay, TypeOK, memVars, Marked
  <2> QED
    BY <1>1, <2>1, <2>2, RecKinds
<1>3. UNCHANGED <<journalVars, status, live, limit, handVars, ghostVars>> /\ pos' = pos + 1
  BY DEF Replay
<1>4. TypeOK'
  BY <1>2, <1>3 DEF TypeOK, JournalTypeOK, Entry, journalVars, handVars, ghostVars
<1>5. Running' /\ Locked'
  BY <1>3 DEF Running, Locked, journalVars, handVars
<1>6. Exclusive'
  BY <1>2, <1>3 DEF Exclusive, Holds, journalVars, handVars, ghostVars
<1>7. AnsweredDurable' /\ AtMostOnce'
  BY <1>3 DEF AnsweredDurable, AtMostOnce, Holds, Durable, journalVars, handVars, ghostVars
<1>8. Remembered'
  BY <1>3 DEF Remembered, Replay
<1>9. Replayed'
  <2>1. pos' <= ScanLen'
    BY <1>3 DEF Replay, ScanLen, journalVars, TypeOK, JournalTypeOK
  <2>2. ASSUME NEW i \in 1..pos', i <= Len(lines)
        PROVE  lines[i] # Garbled /\ (lines[i] \in OnceRec => Marked(lines[i])')
    <3>1. CASE i \in 1..pos
      BY <2>2, <3>1, <1>2, <1>3 DEF Replayed, Replay, Marked, journalVars
    <3>2. CASE i = pos + 1
      BY <1>1, <2>2, <3>2, <1>2, <1>3 DEF Replay, Scanned, Refused, Marked, journalVars
    <3> QED
      BY <2>2, <3>1, <3>2, <1>3 DEF TypeOK
  <2> QED
    BY <2>1, <2>2, <1>3 DEF Replayed, Marked, journalVars
<1> QED
  BY <1>4, <1>5, <1>6, <1>7, <1>8, <1>9

\* A start that openJournal refuses serves nothing.
LEMMA RefuseKeepsInv == OnceInv /\ Refuse => OnceInv'
<1> SUFFICES ASSUME OnceInv, Refuse PROVE OnceInv'
  OBVIOUS
<1> USE DEF OnceInv, Refuse, ForgetMemory, journalVars, handVars, ghostVars
<1>1. TypeOK'
  BY DEF TypeOK, JournalTypeOK, Entry
<1>2. \A h \in Handler : pc[h] = "idle"
  BY DEF Running, TypeOK
<1>3. Running' /\ Locked' /\ Exclusive'
  BY <1>2 DEF Running, Locked, Exclusive, Holds
<1>4. AnsweredDurable' /\ Remembered' /\ AtMostOnce' /\ Replayed'
  BY DEF AnsweredDurable, Remembered, AtMostOnce, Replayed, Holds, Durable
<1> QED
  BY <1>1, <1>3, <1>4

\* The file is read to its end before the first request: what it holds is in memory.
LEMMA ListenKeepsInv == OnceInv /\ Listen => OnceInv'
<1> SUFFICES ASSUME OnceInv, Listen PROVE OnceInv'
  OBVIOUS
<1> USE DEF OnceInv, Listen, journalVars, memVars, handVars, ghostVars
<1>1. TypeOK'
  BY DEF TypeOK, JournalTypeOK, Entry
<1>2. Running' /\ Locked' /\ Exclusive'
  BY DEF Running, Locked, Exclusive, Holds, Marked
<1>3. AnsweredDurable' /\ AtMostOnce' /\ Replayed'
  BY DEF AnsweredDurable, AtMostOnce, Replayed, Holds, Durable
<1>4. Remembered'
  <2> SUFFICES ASSUME NEW r \in OnceRec, answered[r] # 0 PROVE Marked(r)
    BY DEF Remembered, Marked
  <2>1. PICK i \in 1..dlen : lines[i] \in {r, Garbled}
    BY DEF AnsweredDurable, Durable
  <2>2. i \in 1..pos /\ i <= Len(lines)
    BY <2>1 DEF TypeOK, JournalTypeOK, ScanLen
  <2> QED
    BY <2>1, <2>2 DEF Replayed
<1> QED
  BY <1>1, <1>2, <1>3, <1>4

\* CheckAndMark lets one handler at a time hold a use nobody was answered for.
LEMMA TakeKeepsInv ==
    ASSUME OnceInv, NEW h \in Handler, NEW r \in OnceRec, NEW ok \in BOOLEAN,
           Take(h, r, ok)
    PROVE  OnceInv'
<1> USE DEF OnceInv, Take, journalVars, procVars, ghostVars
<1>1. /\ Marked(r)'
      /\ \A q \in OnceRec : Marked(q) => Marked(q)'
      /\ (spent \subseteq Epoch \X BurnNonce)'
      /\ (seenPvt \subseteq ReplayKey)'
      /\ used' = used
  BY MarkMarks
<1>2. r \in Rec /\ r \notin BudgetRec /\ r # Empty
  BY RecKinds, JournalAssumption
<1>3. TypeOK'
  BY <1>1, <1>2 DEF TypeOK, JournalTypeOK, Entry, Job
<1>4. Running'
  BY <1>2 DEF Running, Idle, TypeOK, Job
<1>5. Locked'
  BY DEF Locked, Idle, TypeOK
<1>6. answered[r] = 0 /\ \A g \in Handler : ~Holds(g, r)
  BY DEF Remembered, Idle, Exclusive
<1>7. Exclusive'
  <2> SUFFICES ASSUME NEW g \in Handler, NEW q \in OnceRec, Holds(g, q)'
               PROVE  /\ Marked(q)' /\ answered'[q] = 0
                      /\ \A k \in Handler : Holds(k, q)' => k = g
    BY DEF Exclusive
  <2>1. \A k \in Handler : k # h => (Holds(k, q)' <=> Holds(k, q))
    BY DEF Holds, TypeOK
  <2>2. Holds(h, q)' <=> q = r
    BY DEF Holds, TypeOK
  <2> QED
    BY <1>1, <1>6, <2>1, <2>2 DEF Exclusive
<1>8. AnsweredDurable'
  <2>1. \A k \in Handler, q \in OnceRec :
            (Holds(k, q) /\ pc[k] = "journaled")' => Holds(k, q) /\ pc[k] = "journaled"
    BY DEF Holds, TypeOK
  <2> QED
    BY <2>1 DEF AnsweredDurable, Durable
<1>9. Remembered' /\ Replayed' /\ AtMostOnce'
  BY <1>1 DEF Remembered, Replayed, AtMostOnce, Idle
<1> QED
  BY <1>3, <1>4, <1>5, <1>7, <1>8, <1>9

\* handleBlindSign holds no single use.
LEMMA BlindSignKeepsInv ==
    ASSUME OnceInv, NEW h \in Handler, NEW r \in BudgetRec, NEW ok \in BOOLEAN,
           BlindSign(h, r, ok)
    PROVE  OnceInv'
<1> USE DEF OnceInv, BlindSign, journalVars, procVars, memVars, ghostVars
<1>1. r \in Rec /\ r \notin OnceRec
  BY RecKinds, RecAssumption
<1>2. TypeOK'
  BY <1>1 DEF TypeOK, JournalTypeOK, Entry, Job
<1>3. Running' /\ Locked'
  BY <1>1 DEF Running, Locked, Idle, TypeOK, Job
<1>4. \A k \in Handler, q \in OnceRec :
        /\ Holds(k, q)' => Holds(k, q)
        /\ (Holds(k, q) /\ pc[k] = "journaled")' => Holds(k, q) /\ pc[k] = "journaled"
  BY <1>1 DEF Holds, TypeOK
<1>5. Exclusive' /\ AnsweredDurable'
  BY <1>4 DEF Exclusive, AnsweredDurable, Durable, Marked
<1>6. Remembered' /\ Replayed' /\ AtMostOnce'
  BY DEF Remembered, Replayed, AtMostOnce, Idle, Marked
<1> QED
  BY <1>2, <1>3, <1>5, <1>6

\* Reserve changes the budget store only.
LEMMA ReserveKeepsInv ==
    ASSUME OnceInv, NEW h \in Handler, Reserve(h)
    PROVE  OnceInv'
<1> USE DEF OnceInv, Reserve, journalVars, procVars, ghostVars
<1>1. job[h].rec \in BudgetRec /\ status = "serving"
  BY DEF Running
<1>2. PICK r \in BudgetRec : r = job[h].rec
  BY <1>1
<1>3. spent' = spent /\ seenPvt' = seenPvt /\ (used \in [Bucket -> Nat])'
  BY <1>2, ChargeType
<1>4. TypeOK'
  BY <1>3 DEF TypeOK, JournalTypeOK, Entry
<1>5. Running' /\ Locked'
  BY DEF Running, Locked, TypeOK
<1>6. \A k \in Handler, q \in OnceRec :
        /\ Holds(k, q)' <=> Holds(k, q)
        /\ (Holds(k, q) /\ pc[k] = "journaled")' => Holds(k, q) /\ pc[k] = "journaled"
  BY DEF Holds, TypeOK
<1>7. Exclusive' /\ AnsweredDurable'
  BY <1>3, <1>6 DEF Exclusive, AnsweredDurable, Durable, Marked
<1>8. Remembered' /\ Replayed' /\ AtMostOnce'
  BY <1>1, <1>3 DEF Remembered, Replayed, AtMostOnce, Marked
<1> QED
  BY <1>4, <1>5, <1>7, <1>8

\* A handler that answers, whatever it answers, hands its use back.
LEMMA DoneKeeps ==
    ASSUME TypeOK, Running, NEW h \in Handler, Done(h), pc[h] # "idle",
           UNCHANGED procVars
    PROVE  /\ pc' \in [Handler -> {"idle", "authorizing", "marked", "written", "journaled"}]
           /\ job' \in [Handler -> Job \cup {NoJob}]
           /\ Running'
           /\ \A k \in Handler, q \in OnceRec :
                /\ Holds(k, q)' => Holds(k, q) /\ k # h
                /\ (Holds(k, q) /\ pc[k] = "journaled")' => Holds(k, q) /\ pc[k] = "journaled"
  BY DEF Done, TypeOK, Running, Holds, procVars

\* A refused reservation changes no store.
LEMMA ReserveExceededKeepsInv ==
    ASSUME OnceInv, NEW h \in Handler, ReserveExceeded(h)
    PROVE  OnceInv'
<1> USE DEF OnceInv, ReserveExceeded, journalVars, procVars, memVars, ghostVars
<1>1. /\ pc' \in [Handler -> {"idle", "authorizing", "marked", "written", "journaled"}]
      /\ job' \in [Handler -> Job \cup {NoJob}]
      /\ Running'
      /\ \A k \in Handler, q \in OnceRec :
            /\ Holds(k, q)' => Holds(k, q) /\ k # h
            /\ (Holds(k, q) /\ pc[k] = "journaled")' => Holds(k, q) /\ pc[k] = "journaled"
  BY DoneKeeps
<1>2. TypeOK'
  BY <1>1 DEF TypeOK, JournalTypeOK, Entry
<1>3. Locked'
  BY DEF Locked, Done, TypeOK
<1>4. Exclusive' /\ AnsweredDurable'
  BY <1>1 DEF Exclusive, AnsweredDurable, Durable, Marked
<1>5. Remembered' /\ Replayed' /\ AtMostOnce'
  BY DEF Remembered, Replayed, AtMostOnce, Marked, ScanLen
<1> QED
  BY <1>1, <1>2, <1>3, <1>4, <1>5

\* A handler past its store holds a record and runs in a serving process.
LEMMA WorkingRec ==
    ASSUME TypeOK, Running, NEW h \in Handler, pc[h] # "idle"
    PROVE  job[h].rec \in Rec /\ status = "serving"
  BY DEF TypeOK, Running, Job

\* append's Write adds a line and keeps the durable ones.
LEMMA WriteKeepsInv ==
    ASSUME OnceInv, NEW h \in Handler, Write(h)
    PROVE  OnceInv'
<1> USE DEF OnceInv, Write, JournalWrite, procVars, memVars, ghostVars
<1>1. job[h].rec \in Rec /\ status = "serving"
  BY WorkingRec
<1>2. PICK e \in Entry : e = Glued(job[h].rec)
  BY <1>1 DEF Glued, Entry
<1>3. /\ lines' \in Seq(Entry) /\ Len(lines') = Len(lines) + 1
      /\ \A i \in 1..Len(lines) : lines'[i] = lines[i]
      /\ lines'[Len(lines')] = e
  BY <1>2, AppendProperties DEF TypeOK, JournalTypeOK
<1>4. TypeOK'
  BY <1>3 DEF TypeOK, JournalTypeOK, Entry
<1>5. Running'
  BY DEF Running, TypeOK
<1>6. Locked'
  <2>1. \A g \in Handler : pc[g] # "written"
    BY JournalAssumption DEF Locked
  <2>2. e \in {job[h].rec, Garbled}
    BY <1>2 DEF Glued
  <2>3. lines' # << >>
    BY <1>3 DEF TypeOK, JournalTypeOK
  <2> QED
    BY <1>3, <2>1, <2>2, <2>3 DEF Locked, TypeOK
<1>7. \A k \in Handler, q \in OnceRec :
        /\ Holds(k, q)' <=> Holds(k, q)
        /\ (Holds(k, q) /\ pc[k] = "journaled")' => Holds(k, q) /\ pc[k] = "journaled"
  BY DEF Holds, TypeOK
<1>8. \A q \in OnceRec : Durable(q) => Durable(q)'
  BY <1>3 DEF Durable, TypeOK, JournalTypeOK
<1>9. Exclusive' /\ AnsweredDurable'
  BY <1>7, <1>8 DEF Exclusive, AnsweredDurable, Marked
<1>10. Remembered' /\ Replayed' /\ AtMostOnce'
  BY <1>1 DEF Remembered, Replayed, AtMostOnce, Marked
<1> QED
  BY <1>4, <1>5, <1>6, <1>9, <1>10

\* A failed Write makes no line whole and answers nobody.
LEMMA WriteErrorKeepsInv ==
    ASSUME OnceInv, NEW h \in Handler, WriteError(h)
    PROVE  OnceInv'
<1> USE DEF OnceInv, WriteError, JournalWriteError, procVars, memVars, ghostVars
<1>1. job[h].rec \in Rec /\ status = "serving"
  BY WorkingRec
<1>2. /\ pc' \in [Handler -> {"idle", "authorizing", "marked", "written", "journaled"}]
      /\ job' \in [Handler -> Job \cup {NoJob}]
      /\ Running'
      /\ \A k \in Handler, q \in OnceRec :
            /\ Holds(k, q)' => Holds(k, q) /\ k # h
            /\ (Holds(k, q) /\ pc[k] = "journaled")' => Holds(k, q) /\ pc[k] = "journaled"
  BY DoneKeeps
<1>3. TypeOK'
  BY <1>1, <1>2 DEF TypeOK, JournalTypeOK, Entry
<1>4. Locked'
  BY DEF Locked, Done, TypeOK
<1>5. Exclusive' /\ AnsweredDurable'
  BY <1>2 DEF Exclusive, AnsweredDurable, Durable, Marked
<1>6. Remembered' /\ Replayed' /\ AtMostOnce'
  BY <1>1 DEF Remembered, Replayed, AtMostOnce, Marked
<1> QED
  BY <1>2, <1>3, <1>4, <1>5, <1>6

\* append's Sync makes the handler's line durable before it answers.
LEMMA SyncKeepsInv ==
    ASSUME OnceInv, NEW h \in Handler, Sync(h)
    PROVE  OnceInv'
<1> USE DEF OnceInv, Sync, JournalSync, procVars, memVars, ghostVars
<1>1. job[h].rec \in Rec /\ status = "serving"
  BY WorkingRec
<1>2. TypeOK'
  BY DEF TypeOK, JournalTypeOK, Entry
<1>3. Running'
  BY DEF Running, TypeOK
<1>4. Locked'
  <2>1. \A g \in Handler : pc[g] = "written" => g = h
    BY DEF Locked
  <2>2. \A g \in Handler : pc'[g] # "written" /\ jmu' # g
    BY <2>1, JournalAssumption DEF TypeOK
  <2> QED
    BY <2>2 DEF Locked
<1>5. \A k \in Handler, q \in OnceRec :
        /\ Holds(k, q)' <=> Holds(k, q)
        /\ (Holds(k, q) /\ pc[k] = "journaled")'
             => k = h \/ (Holds(k, q) /\ pc[k] = "journaled")
  <2> SUFFICES ASSUME NEW k \in Handler, NEW q \in OnceRec
               PROVE  /\ Holds(k, q)' <=> Holds(k, q)
                      /\ (Holds(k, q) /\ pc[k] = "journaled")'
                           => k = h \/ (Holds(k, q) /\ pc[k] = "journaled")
    OBVIOUS
  <2>1. CASE k = h
    BY <2>1 DEF Holds, TypeOK
  <2>2. CASE k # h
    BY <2>2 DEF Holds, TypeOK
  <2> QED
    BY <2>1, <2>2
<1>6. \A q \in OnceRec : Durable(q) \/ Holds(h, q) => Durable(q)'
  <2>1. Len(lines) \in 1..Len(lines) /\ lines[Len(lines)] \in {job[h].rec, Garbled}
    BY EmptySeq DEF Locked, TypeOK, JournalTypeOK
  <2> QED
    BY <2>1 DEF Durable, Holds, TypeOK, JournalTypeOK
<1>7. Exclusive' /\ AnsweredDurable'
  BY <1>5, <1>6 DEF Exclusive, AnsweredDurable, Marked
<1>8. Remembered' /\ Replayed' /\ AtMostOnce'
  BY <1>1 DEF Remembered, Replayed, AtMostOnce, Marked
<1> QED
  BY <1>2, <1>3, <1>4, <1>7, <1>8

\* A failed Sync answers nobody.
LEMMA SyncErrorKeepsInv ==
    ASSUME OnceInv, NEW h \in Handler, SyncError(h)
    PROVE  OnceInv'
<1> USE DEF OnceInv, SyncError, JournalSyncError, procVars, memVars, ghostVars
<1>1. job[h].rec \in Rec /\ status = "serving"
  BY WorkingRec
<1>2. /\ pc' \in [Handler -> {"idle", "authorizing", "marked", "written", "journaled"}]
      /\ job' \in [Handler -> Job \cup {NoJob}]
      /\ Running'
      /\ \A k \in Handler, q \in OnceRec :
            /\ Holds(k, q)' => Holds(k, q) /\ k # h
            /\ (Holds(k, q) /\ pc[k] = "journaled")' => Holds(k, q) /\ pc[k] = "journaled"
  BY DoneKeeps
<1>3. TypeOK'
  BY <1>1, <1>2 DEF TypeOK, JournalTypeOK, Entry
<1>4. Locked'
  BY JournalAssumption DEF Locked, Done, TypeOK
<1>5. Exclusive' /\ AnsweredDurable'
  BY <1>2 DEF Exclusive, AnsweredDurable, Durable, Marked
<1>6. Remembered' /\ Replayed' /\ AtMostOnce'
  BY <1>1 DEF Remembered, Replayed, AtMostOnce, Marked
<1> QED
  BY <1>2, <1>3, <1>4, <1>5, <1>6

\* The answer comes after the record is durable, from the one handler that held the use.
LEMMA AnswerOnceKeepsInv ==
    ASSUME OnceInv, NEW h \in Handler, AnswerOnce(h)
    PROVE  OnceInv'
<1> USE DEF OnceInv, AnswerOnce, journalVars, procVars, memVars
<1>1. PICK r \in OnceRec : r = job[h].rec
  OBVIOUS
<1>2. /\ pc' \in [Handler -> {"idle", "authorizing", "marked", "written", "journaled"}]
      /\ job' \in [Handler -> Job \cup {NoJob}]
      /\ Running'
      /\ \A k \in Handler, q \in OnceRec :
            /\ Holds(k, q)' => Holds(k, q) /\ k # h
            /\ (Holds(k, q) /\ pc[k] = "journaled")' => Holds(k, q) /\ pc[k] = "journaled"
  BY DoneKeeps
<1>3. Holds(h, r) /\ status = "serving"
  BY <1>1, WorkingRec DEF Holds
<1>4. Marked(r) /\ answered[r] = 0 /\ Durable(r) /\ \A g \in Handler : Holds(g, r) => g = h
  BY <1>3 DEF Exclusive, AnsweredDurable
<1>5. /\ answered' \in [OnceRec -> Nat]
      /\ \A q \in OnceRec : q # r => answered'[q] = answered[q]
      /\ answered'[r] \in {0, 1}
  BY <1>1, <1>4 DEF TypeOK
<1>6. TypeOK'
  BY <1>2, <1>5 DEF TypeOK, JournalTypeOK, Entry
<1>7. Locked'
  BY DEF Locked, Done, TypeOK
<1>8. Exclusive'
  BY <1>2, <1>4, <1>5 DEF Exclusive, Marked
<1>9. AnsweredDurable'
  BY <1>2, <1>4, <1>5 DEF AnsweredDurable, Durable
<1>10. Remembered' /\ Replayed' /\ AtMostOnce'
  BY <1>3, <1>4, <1>5 DEF Remembered, Replayed, AtMostOnce, Marked
<1> QED
  BY <1>2, <1>6, <1>7, <1>8, <1>9, <1>10

\* A mint answers for a reservation, not for a single use.
LEMMA AnswerMintKeepsInv ==
    ASSUME OnceInv, NEW h \in Handler, AnswerMint(h)
    PROVE  OnceInv'
<1> USE DEF OnceInv, AnswerMint, journalVars, procVars, memVars
<1>1. /\ pc' \in [Handler -> {"idle", "authorizing", "marked", "written", "journaled"}]
      /\ job' \in [Handler -> Job \cup {NoJob}]
      /\ Running'
      /\ \A k \in Handler, q \in OnceRec :
            /\ Holds(k, q)' => Holds(k, q) /\ k # h
            /\ (Holds(k, q) /\ pc[k] = "journaled")' => Holds(k, q) /\ pc[k] = "journaled"
  BY DoneKeeps
<1>2. issued' \in [Bucket -> Nat]
  BY BucketOfType DEF TypeOK
<1>3. TypeOK'
  BY <1>1, <1>2 DEF TypeOK, JournalTypeOK, Entry
<1>4. Locked'
  BY DEF Locked, Done, TypeOK
<1>5. Exclusive' /\ AnsweredDurable'
  BY <1>1 DEF Exclusive, AnsweredDurable, Durable, Marked
<1>6. Remembered' /\ Replayed' /\ AtMostOnce'
  BY DEF Remembered, Replayed, AtMostOnce, Marked, ScanLen
<1> QED
  BY <1>1, <1>3, <1>4, <1>5, <1>6

\* What dies with the process: every conjunct but the ones about the disk.
LEMMA DeathKeepsInv ==
    ASSUME OnceInv, ProcessDies, JournalTypeOK', jmu' = Nobody,
           \A q \in OnceRec : Durable(q) => Durable(q)'
    PROVE  OnceInv'
<1> USE DEF OnceInv, ProcessDies, ForgetMemory, ghostVars
<1>1. TypeOK'
  BY DEF TypeOK
<1>2. Running' /\ Locked' /\ Exclusive'
  BY JournalAssumption DEF Running, Locked, Exclusive, Holds
<1>3. AnsweredDurable'
  BY DEF AnsweredDurable, Holds
<1>4. Remembered' /\ Replayed' /\ AtMostOnce'
  BY DEF Remembered, Replayed, AtMostOnce
<1> QED
  BY <1>1, <1>2, <1>3, <1>4

\* A crash loses memory and keeps the file.
LEMMA CrashKeepsInv == OnceInv /\ Crash => OnceInv'
<1> SUFFICES ASSUME OnceInv, Crash PROVE OnceInv'
  OBVIOUS
<1>1. JournalTypeOK'
  BY DEF OnceInv, TypeOK, JournalTypeOK, Crash, JournalKilled, Entry
<1>2. \A q \in OnceRec : Durable(q) => Durable(q)'
  BY DEF Crash, JournalKilled, Durable
<1> QED
  BY <1>1, <1>2, DeathKeepsInv DEF Crash, JournalKilled

\* A power loss keeps at least the durable lines.
LEMMA PowerLossKeepsInv == OnceInv /\ PowerLoss => OnceInv'
<1> SUFFICES ASSUME OnceInv, PowerLoss PROVE OnceInv'
  OBVIOUS
<1>1. PICK n \in dlen..Len(lines) :
        /\ lines' = SubSeq(lines, 1, n)
        /\ tail' \in Remains(n)
        /\ dlen' = n /\ dtail' = tail' /\ jmu' = Nobody
  BY DEF PowerLoss, JournalPowerLoss
<1>2. /\ lines \in Seq(Entry) /\ Len(lines) \in Nat /\ dlen \in 0..Len(lines)
      /\ tail \in Entry \cup {Empty} /\ dtail \in Entry \cup {Empty}
      /\ n \in 0..Len(lines)
  BY <1>1 DEF OnceInv, TypeOK, JournalTypeOK
<1>3. \A i \in 1..n : lines[i] \in Entry
  BY <1>2
<1>4. /\ lines' \in Seq(Entry) /\ Len(lines') = n
      /\ \A i \in 1..n : lines'[i] = lines[i]
  BY <1>1, <1>2, <1>3, SubSeqProperties
<1>5. tail' \in Entry \cup {Empty}
  BY <1>1, <1>2 DEF Remains, Scanned, ScanLen, Entry
<1>6. JournalTypeOK'
  BY <1>1, <1>2, <1>4, <1>5 DEF JournalTypeOK, Entry
<1>7. \A q \in OnceRec : Durable(q) => Durable(q)'
  BY <1>1, <1>2, <1>4 DEF Durable
<1> QED
  BY <1>1, <1>6, <1>7, DeathKeepsInv DEF PowerLoss

\* Nothing happens.
LEMMA OnceStutter == OnceInv /\ UNCHANGED vars => OnceInv'
  BY DEF vars, journalVars, procVars, memVars, handVars, ghostVars, OnceInv, TypeOK,
         JournalTypeOK, Entry, Running, Locked, Exclusive, Holds, Marked, AnsweredDurable,
         Durable, Remembered, Replayed, ScanLen, AtMostOnce

\* One step per action.
LEMMA OnceNext == OnceInv /\ [Next]_vars => OnceInv'
<1> SUFFICES ASSUME OnceInv, [Next]_vars PROVE OnceInv'
  OBVIOUS
<1>1. ASSUME NEW h \in Handler, NEW r \in SpendRec, VerifyBurn(h, r) PROVE OnceInv'
  BY <1>1, TakeKeepsInv, RecKinds DEF VerifyBurn
<1>2. ASSUME NEW h \in Handler, NEW r \in PvtRec, NEW ok \in BOOLEAN, VerifyPvt(h, r, ok)
      PROVE OnceInv'
  BY <1>2, TakeKeepsInv, RecKinds DEF VerifyPvt
<1>3. ASSUME NEW h \in Handler, NEW r \in BudgetRec, NEW ok \in BOOLEAN, BlindSign(h, r, ok)
      PROVE OnceInv'
  BY <1>3, BlindSignKeepsInv
<1>4. ASSUME NEW h \in Handler, HandlerStep(h) PROVE OnceInv'
  BY <1>4, ReserveKeepsInv, ReserveExceededKeepsInv, WriteKeepsInv, WriteErrorKeepsInv,
     SyncKeepsInv, SyncErrorKeepsInv, AnswerOnceKeepsInv, AnswerMintKeepsInv
  DEF HandlerStep
<1> QED
  BY <1>1, <1>2, <1>3, <1>4, StartKeepsInv, ReplayKeepsInv, RefuseKeepsInv, ListenKeepsInv,
     CrashKeepsInv, PowerLossKeepsInv, OnceStutter
  DEF Next

-----------------------------------------------------------------------------
(* The theorems.                                                           *)

\* Every variable of the runtime keeps its type.
THEOREM TypeCorrect == Spec => []TypeOK
<1>1. OnceInv => TypeOK
  BY DEF OnceInv
<1> QED
  BY <1>1, OnceInit, OnceNext, PTL DEF Spec

\* No burn token and no presentation nonce is ever accepted twice, for any
\* number of handlers, whatever crashes, write errors and power losses fall
\* between the steps of handleVerifyBurn, handleVerifyPvt and openJournal.
THEOREM NoDoubleSpend == Spec => []AtMostOnce
<1>1. OnceInv => AtMostOnce
  BY DEF OnceInv
<1> QED
  BY <1>1, OnceInit, OnceNext, PTL DEF Spec

-----------------------------------------------------------------------------
(* Serve implements SingleUse.                                             *)

\* The abstract holder of a use is the one handler that works on it.
LEMMA HolderIs ==
    ASSUME Exclusive, NEW r \in OnceRec
    PROVE  /\ \A h \in Handler : Holds(h, r) => holder[r] = h
           /\ (\A h \in Handler : ~Holds(h, r)) => holder[r] = Nobody
  BY DEF Exclusive, holder

\* Steps that leave every use with its handler leave the holder alone.
LEMMA SameHolds ==
    ASSUME Exclusive, Exclusive',
           \A k \in Handler, q \in OnceRec : Holds(k, q)' <=> Holds(k, q)
    PROVE  holder' = holder
<1>1. ASSUME NEW q \in OnceRec PROVE holder'[q] = holder[q]
  <2>1. CASE \E h \in Handler : Holds(h, q)
    BY <2>1 DEF Exclusive, holder
  <2>2. CASE \A h \in Handler : ~Holds(h, q)
    BY <2>2 DEF holder
  <2> QED
    BY <2>1, <2>2
<1> QED
  BY <1>1 DEF holder

\* A handler that lets go of the use it works on makes the use free.
LEMMA LetGo ==
    ASSUME Exclusive, Exclusive', TypeOK, NEW h \in Handler, NEW r \in OnceRec,
           Holds(h, r), Done(h)
    PROVE  holder[r] # Nobody /\ holder' = [holder EXCEPT ![r] = Nobody]
<1>1. \A k \in Handler, q \in OnceRec : Holds(k, q)' <=> Holds(k, q) /\ k # h
  BY DEF Done, Holds, TypeOK
<1>2. \A k \in Handler : Holds(k, r) => k = h
  BY DEF Exclusive
<1>3. holder[r] = h
  BY HolderIs
<1>4. holder'[r] = Nobody
  BY <1>1, <1>2 DEF holder
<1>5. ASSUME NEW q \in OnceRec, q # r PROVE holder'[q] = holder[q]
  <2>1. ~Holds(h, q)
    BY <1>5 DEF Holds
  <2>2. \A k \in Handler : Holds(k, q)' <=> Holds(k, q)
    BY <1>1, <2>1
  <2>3. CASE \E k \in Handler : Holds(k, q)
    BY <2>2, <2>3 DEF Exclusive, holder
  <2>4. CASE \A k \in Handler : ~Holds(k, q)
    BY <2>2, <2>4 DEF holder
  <2> QED
    BY <2>3, <2>4
<1> QED
  BY <1>3, <1>4, <1>5, JournalAssumption DEF holder

\* Marking a use is the abstract Take.
LEMMA TakeIsTake ==
    ASSUME OnceInv, OnceInv', NEW h \in Handler, NEW r \in OnceRec, NEW ok \in BOOLEAN,
           Take(h, r, ok)
    PROVE  Promise!Take(r, h)
<1>1. answered[r] = 0 /\ \A g \in Handler : ~Holds(g, r)
  BY DEF Take, OnceInv, Remembered, Idle, Exclusive
<1>2. holder[r] = Nobody
  BY <1>1 DEF holder
<1>3. \A q \in OnceRec : Holds(h, q)' <=> q = r
  BY DEF Take, Holds, OnceInv, TypeOK
<1>4. \A k \in Handler, q \in OnceRec : k # h => (Holds(k, q)' <=> Holds(k, q))
  BY DEF Take, Holds, OnceInv, TypeOK
<1>5. \A q \in OnceRec : ~Holds(h, q)
  BY DEF Take, Idle, Holds
<1>6. holder'[r] = h
  BY <1>3 DEF OnceInv, Exclusive, holder
<1>7. ASSUME NEW q \in OnceRec, q # r PROVE holder'[q] = holder[q]
  <2>1. \A k \in Handler : Holds(k, q)' <=> Holds(k, q)
    BY <1>3, <1>4, <1>5, <1>7
  <2>2. CASE \E k \in Handler : Holds(k, q)
    BY <2>1, <2>2 DEF OnceInv, Exclusive, holder
  <2>3. CASE \A k \in Handler : ~Holds(k, q)
    BY <2>1, <2>3 DEF holder
  <2> QED
    BY <2>2, <2>3
<1>8. holder' = [holder EXCEPT ![r] = h]
  BY <1>6, <1>7 DEF holder
<1> QED
  BY <1>1, <1>2, <1>8 DEF Promise!Take, Take, ghostVars

\* A failed append and an answer: the use goes back, answered or not.
LEMMA FinishIsGiveUpOrAnswer ==
    ASSUME OnceInv, OnceInv', NEW h \in Handler,
           WriteError(h) \/ SyncError(h) \/ AnswerOnce(h) \/ AnswerMint(h) \/ ReserveExceeded(h)
    PROVE  [Promise!Next]_(Promise!vars)
<1> USE DEF OnceInv
<1>0. Done(h) /\ pc[h] # "idle"
  BY DEF WriteError, SyncError, AnswerOnce, AnswerMint, ReserveExceeded, TypeOK
<1>1. CASE job[h].rec \in OnceRec
  <2>1. PICK r \in OnceRec : r = job[h].rec
    BY <1>1
  <2>2. Holds(h, r)
    BY <1>0, <2>1 DEF Holds
  <2>3. holder[r] # Nobody /\ holder' = [holder EXCEPT ![r] = Nobody]
    BY <1>0, <2>2, LetGo
  <2>4. answered' = answered \/ answered' = [answered EXCEPT ![r] = @ + 1]
    BY <2>1 DEF WriteError, SyncError, AnswerOnce, AnswerMint, ReserveExceeded, ghostVars
  <2>5. Promise!GiveUp(r) \/ Promise!Answer(r)
    BY <2>3, <2>4 DEF Promise!GiveUp, Promise!Answer
  <2> QED
    BY <2>5 DEF Promise!Next
<1>2. CASE job[h].rec \notin OnceRec
  <2>1. \A k \in Handler, q \in OnceRec : Holds(k, q)' <=> Holds(k, q)
    BY <1>0, <1>2, RecKinds, JournalAssumption DEF Done, Holds, TypeOK
  <2>2. holder' = holder
    BY <2>1, SameHolds
  <2>3. answered' = answered
    BY <1>2 DEF WriteError, SyncError, AnswerOnce, AnswerMint, ReserveExceeded, ghostVars
  <2> QED
    BY <2>2, <2>3 DEF Promise!vars
<1> QED
  BY <1>1, <1>2

\* Steps of the budget rail before its append, and successful appends.
LEMMA QuietSteps ==
    ASSUME OnceInv, OnceInv', NEW h \in Handler,
           \/ \E r \in BudgetRec, ok \in BOOLEAN : BlindSign(h, r, ok)
           \/ Reserve(h) \/ Write(h) \/ Sync(h)
    PROVE  UNCHANGED Promise!vars
<1> USE DEF OnceInv
<1>1. \A k \in Handler, q \in OnceRec : Holds(k, q)' <=> Holds(k, q)
  <2>1. CASE \E r \in BudgetRec, ok \in BOOLEAN : BlindSign(h, r, ok)
    BY <2>1, RecKinds DEF BlindSign, Idle, Holds, TypeOK
  <2>2. CASE Reserve(h)
    BY <2>2 DEF Reserve, Holds, TypeOK
  <2>3. CASE Write(h)
    BY <2>3 DEF Write, Holds, TypeOK
  <2>4. CASE Sync(h)
    BY <2>4 DEF Sync, Holds, TypeOK
  <2> QED
    BY <2>1, <2>2, <2>3, <2>4
<1>2. answered' = answered
  BY DEF BlindSign, Reserve, Write, Sync, ghostVars
<1> QED
  BY <1>1, <1>2, SameHolds DEF Promise!vars

\* Startup moves no use and answers nothing.
LEMMA StartupIsQuiet ==
    ASSUME OnceInv, OnceInv', Start \/ Replay \/ Refuse \/ Listen
    PROVE  UNCHANGED Promise!vars
<1>1. UNCHANGED <<handVars, ghostVars>>
  BY DEF Start, Replay, Refuse, Listen
<1>2. \A k \in Handler, q \in OnceRec : Holds(k, q)' <=> Holds(k, q)
  BY <1>1 DEF Holds, handVars
<1> QED
  BY <1>1, <1>2, SameHolds DEF OnceInv, ghostVars, Promise!vars

\* When the process dies every use is let go of.
LEMMA DeathIsVanish ==
    ASSUME ProcessDies
    PROVE  Promise!Vanish
  BY DEF ProcessDies, ghostVars, Promise!Vanish, holder, Holds

\* The runtime with its journal, crashes and restarts implements the
\* single-use service that has none of these.
THEOREM ImplementsSingleUse == Spec => KeepsPromise
<1>1. Init => Promise!Init
  BY DEF Init, Promise!Init, holder, Holds
<1>2. OnceInv /\ OnceInv' /\ [Next]_vars => [Promise!Next]_(Promise!vars)
  <2> SUFFICES ASSUME OnceInv, OnceInv', [Next]_vars
               PROVE  [Promise!Next]_(Promise!vars)
    OBVIOUS
  <2>1. ASSUME NEW h \in Handler, NEW r \in OnceRec, NEW ok \in BOOLEAN, Take(h, r, ok)
        PROVE  Promise!Next
    BY <2>1, TakeIsTake DEF Promise!Next
  <2>2. ASSUME NEW h \in Handler, NEW r \in SpendRec, VerifyBurn(h, r)
        PROVE  Promise!Next
    BY <2>1, <2>2, RecKinds DEF VerifyBurn
  <2>3. ASSUME NEW h \in Handler, NEW r \in PvtRec, NEW ok \in BOOLEAN, VerifyPvt(h, r, ok)
        PROVE  Promise!Next
    BY <2>1, <2>3, RecKinds DEF VerifyPvt
  <2>4. ASSUME NEW h \in Handler, NEW r \in BudgetRec, NEW ok \in BOOLEAN, BlindSign(h, r, ok)
        PROVE  UNCHANGED Promise!vars
    BY <2>4, QuietSteps
  <2>5. ASSUME NEW h \in Handler, HandlerStep(h)
        PROVE  [Promise!Next]_(Promise!vars)
    BY <2>5, QuietSteps, FinishIsGiveUpOrAnswer DEF HandlerStep
  <2>6. ASSUME Crash \/ PowerLoss PROVE Promise!Next
    BY <2>6, DeathIsVanish DEF Crash, PowerLoss, Promise!Next
  <2>7. CASE UNCHANGED vars
    BY <2>7 DEF vars, handVars, ghostVars, holder, Holds, Promise!vars
  <2> QED
    BY <2>2, <2>3, <2>4, <2>5, <2>6, <2>7, StartupIsQuiet DEF Next
<1> QED
  BY <1>1, <1>2, OnceInit, OnceNext, PTL DEF Spec, KeepsPromise, Promise!Spec
-----------------------------------------------------------------------------
(* The budget.  A sum of amounts is the size of a set of permits: one pair *)
(* <<x, k>> for each of the amount of the record at x.                     *)

\* What r draws from the budget of bucket b.
Weight(r, b) == IF r \in BudgetRec /\ BucketOf(r) = b THEN r.amount ELSE 0

\* The permits of bucket b that the records of the function e stand for.
Permits(e, b) == {p \in (DOMAIN e) \X (1..MaxCount) : p[2] <= Weight(e[p[1]], b)}

Total(e, b) == Cardinality(Permits(e, b))

\* The entries of the file up to the n-th, and the records of the handlers
\* that are at one of the places ps.
Entries(ls, t, n) == [i \in 1..n |-> IF i <= Len(ls) THEN ls[i] ELSE t]
File(n) == Entries(lines, tail, n)
Hands(ps) == [h \in Handler |-> IF pc[h] \in ps THEN job[h].rec ELSE Empty]

Unwritten == {"marked"}
Journaled == {"journaled"}
InHand == {"marked", "written", "journaled"}

\* What was issued or is about to be is charged in memory, and so is what the
\* file holds or is about to.
ChargedInMemory ==
    status = "serving" => \A b \in Bucket :
        /\ issued[b] + Total(Hands(InHand), b) <= used[b]
        /\ Total(File(ScanLen), b) + Total(Hands(Unwritten), b) <= used[b]

\* Handlers work under the limit in force; a charge in hand fits it.
WorkFits ==
    \A h \in Handler : pc[h] # "idle" /\ job[h].rec \in BudgetRec =>
        /\ job[h].rec.limit = limit
        /\ pc[h] \in InHand => used[BucketOf(job[h].rec)] <= limit

\* A record of the file fits its own limit after all entries before it.
FileFits ==
    /\ \A i \in 1..ScanLen : Scanned(i) \in BudgetRec =>
        Total(File(i), BucketOf(Scanned(i))) <= Scanned(i).limit
    /\ dtail \in BudgetRec =>
        Total(File(dlen), BucketOf(dtail)) + dtail.amount <= dtail.limit

\* A start has charged what it has read, and nothing before it reads.
ChargedByReplay ==
    /\ status = "replaying" => \A b \in Bucket : used[b] = Total(File(pos), b)
    /\ status \in {"down", "refused"} => \A b \in Bucket : used[b] = 0

\* What was issued or is about to be is on the disk, unless the disk holds a
\* line that no start gets past.
IssuedDurable ==
    (\A i \in 1..dlen : lines[i] # Garbled) => \A b \in Bucket :
        issued[b] + Total(Hands(Journaled), b) <= Total(File(dlen), b)

\* The line of a handler that has not synced it is the last of the file.
LastUnsynced == \A h \in Handler : pc[h] = "written" => dlen < Len(lines) /\ tail = Empty

BudgetInv ==
    /\ ChargedInMemory
    /\ WorkFits
    /\ FileFits
    /\ ChargedByReplay
    /\ IssuedDurable
    /\ LastUnsynced
-----------------------------------------------------------------------------
(* Sums of amounts.                                                        *)

\* A record draws no more than the largest batch.
LEMMA WeightType == \A r, b : Weight(r, b) \in Nat /\ Weight(r, b) <= MaxCount
<1>1. \A r \in BudgetRec : r.amount \in 1..MaxCount
  BY DEF BudgetRec
<1> QED BY <1>1, ServeAssumption DEF Weight

\* Finitely many records hold finitely many permits.
LEMMA PermitsFinite ==
  ASSUME NEW e, IsFiniteSet(DOMAIN e), NEW b
  PROVE  IsFiniteSet(Permits(e, b)) /\ Total(e, b) \in Nat
<1>1. IsFiniteSet(1..MaxCount)
  BY FS_Interval, ServeAssumption
<1>2. IsFiniteSet((DOMAIN e) \X (1..MaxCount))
  BY <1>1, FS_Product
<1>3. Permits(e, b) \subseteq (DOMAIN e) \X (1..MaxCount)
  BY DEF Permits
<1>4. IsFiniteSet(Permits(e, b))
  BY <1>2, <1>3, FS_Subset
<1> QED BY <1>4, FS_CardinalityType DEF Total

\* The records of e but the one at x.
Without(e, x) == [y \in (DOMAIN e) \ {x} |-> e[y]]

\* A record adds its amount to those of the others.
LEMMA TotalSplit ==
  ASSUME NEW f, NEW x \in DOMAIN f, NEW b, IsFiniteSet(DOMAIN f)
  PROVE  Total(f, b) = Total(Without(f, x), b) + Weight(f[x], b)
<1> DEFINE e == Without(f, x)
           w == Weight(f[x], b)
           P == {x} \X (1..w)
<1>0. /\ DOMAIN e = (DOMAIN f) \ {x} /\ IsFiniteSet(DOMAIN e)
      /\ \A y \in DOMAIN e : e[y] = f[y]
  BY FS_Subset DEF Without
<1>1. w \in Nat /\ w <= MaxCount
  BY WeightType
<1>2. IsFiniteSet(1..w) /\ Cardinality(1..w) = w
  BY <1>1, FS_Interval
<1>3. IsFiniteSet(P) /\ Cardinality(P) = w
  <2>1. IsFiniteSet({x}) /\ Cardinality({x}) = 1
    BY FS_Singleton
  <2>2. IsFiniteSet(P) /\ Cardinality(P) = 1 * w
    BY <1>2, <2>1, FS_Product
  <2> QED BY <1>1, <2>2
<1> HIDE DEF e
<1>4. Permits(f, b) = Permits(e, b) \cup P
  <2>1. ASSUME NEW p \in Permits(f, b) PROVE p \in Permits(e, b) \cup P
    <3>1. p \in (DOMAIN f) \X (1..MaxCount) /\ p[2] <= Weight(f[p[1]], b)
      BY <2>1 DEF Permits
    <3>2. CASE p[1] = x
      <4>1. p[2] \in 1..w
        BY <1>1, <3>1, <3>2, ServeAssumption
      <4>2. p = <<x, p[2]>>
        BY <3>1, <3>2
      <4> QED BY <4>1, <4>2
    <3>3. CASE p[1] # x
      <4>1. p[1] \in DOMAIN e /\ f[p[1]] = e[p[1]]
        BY <1>0, <3>1, <3>3
      <4> QED BY <3>1, <4>1 DEF Permits
    <3> QED BY <3>2, <3>3
  <2>2. ASSUME NEW p \in Permits(e, b) PROVE p \in Permits(f, b)
    BY <1>0, <2>2 DEF Permits
  <2>3. ASSUME NEW k \in 1..w PROVE <<x, k>> \in Permits(f, b)
    <3>1. k \in 1..MaxCount /\ k <= w
      BY <1>1, ServeAssumption
    <3> QED BY <3>1 DEF Permits
  <2>4. P \subseteq Permits(f, b)
    BY <2>3
  <2> HIDE DEF P
  <2> QED BY <2>1, <2>2, <2>4
<1>5. Permits(e, b) \cap P = {}
  BY <1>0 DEF Permits
<1> HIDE DEF P, w
<1>6. IsFiniteSet(Permits(e, b)) /\ Cardinality(Permits(e, b)) \in Nat
  BY <1>0, PermitsFinite DEF Total
<1>7. Cardinality(Permits(e, b) \cup P)
        = Cardinality(Permits(e, b)) + Cardinality(P) - Cardinality(Permits(e, b) \cap P)
  BY <1>3, <1>6, FS_Union
<1>8. Cardinality(Permits(e, b) \cap P) = 0
  BY <1>5, FS_EmptySet
<1> QED BY <1>1, <1>3, <1>4, <1>6, <1>7, <1>8 DEF Total, w, e

\* The record at one place is replaced.
LEMMA TotalChange ==
  ASSUME NEW e, NEW f, NEW x \in DOMAIN e, NEW b, IsFiniteSet(DOMAIN e),
         DOMAIN f = DOMAIN e, Without(f, x) = Without(e, x)
  PROVE  Total(f, b) + Weight(e[x], b) = Total(e, b) + Weight(f[x], b)
<1>1. Total(e, b) = Total(Without(e, x), b) + Weight(e[x], b)
  BY TotalSplit
<1>2. Total(f, b) = Total(Without(e, x), b) + Weight(f[x], b)
  BY TotalSplit
<1>3. IsFiniteSet(DOMAIN Without(e, x))
  BY FS_Subset DEF Without
<1>4. /\ Total(Without(e, x), b) \in Nat
      /\ Weight(e[x], b) \in Nat /\ Weight(f[x], b) \in Nat
  BY <1>3, PermitsFinite, WeightType
<1> QED BY <1>1, <1>2, <1>4

\* A part draws no more than the whole.
LEMMA TotalPart ==
  ASSUME NEW e, NEW f, NEW b, IsFiniteSet(DOMAIN f), DOMAIN e \subseteq DOMAIN f,
         \A y \in DOMAIN e : f[y] = e[y]
  PROVE  Total(e, b) <= Total(f, b)
<1>1. Permits(e, b) \subseteq Permits(f, b)
  BY DEF Permits
<1>2. IsFiniteSet(Permits(f, b))
  BY PermitsFinite
<1> QED BY <1>1, <1>2, FS_Subset DEF Total

\* One record draws no more than all of them.
LEMMA TotalAtLeast ==
  ASSUME NEW e, NEW x \in DOMAIN e, NEW b, IsFiniteSet(DOMAIN e)
  PROVE  Weight(e[x], b) <= Total(e, b)
<1>1. Total(e, b) = Total(Without(e, x), b) + Weight(e[x], b)
  BY TotalSplit
<1>2. IsFiniteSet(DOMAIN Without(e, x))
  BY FS_Subset DEF Without
<1>3. Total(Without(e, x), b) \in Nat /\ Weight(e[x], b) \in Nat
  BY <1>2, PermitsFinite, WeightType
<1> QED BY <1>1, <1>3

\* Records of no budget draw nothing.
LEMMA TotalNone ==
  ASSUME NEW e, NEW b, \A y \in DOMAIN e : e[y] \notin BudgetRec
  PROVE  Total(e, b) = 0
<1>1. \A y \in DOMAIN e : Weight(e[y], b) = 0
  BY DEF Weight
<1>2. \A p \in (DOMAIN e) \X (1..MaxCount) : ~(p[2] <= Weight(e[p[1]], b))
  BY <1>1, ServeAssumption
<1>3. Permits(e, b) = {}
  BY <1>2 DEF Permits
<1> QED BY <1>3, FS_EmptySet DEF Total

\* Only reservations count.
LEMMA NoWeight ==
  /\ \A r, b : r \notin BudgetRec => Weight(r, b) = 0
  /\ \A r \in BudgetRec : Weight(r, BucketOf(r)) = r.amount
  /\ Empty \notin BudgetRec /\ Garbled \notin BudgetRec
  BY JournalAssumption, RecAssumption DEF Weight

\* The next entry of a file adds its amount.
LEMMA EntriesTotals ==
  ASSUME NEW ls, NEW t, NEW b
  PROVE  /\ \A n \in Nat : Total(Entries(ls, t, n), b) \in Nat
         /\ \A n \in Nat : Total(Entries(ls, t, n + 1), b)
                = Total(Entries(ls, t, n), b) + Weight(Entries(ls, t, n + 1)[n + 1], b)
         /\ \A m, n \in Nat : m <= n => Total(Entries(ls, t, m), b) <= Total(Entries(ls, t, n), b)
         /\ Total(Entries(ls, t, 0), b) = 0
<1> DEFINE F(n) == Entries(ls, t, n)
<1>1. \A n \in Nat : DOMAIN F(n) = 1..n /\ IsFiniteSet(DOMAIN F(n))
  BY FS_Interval DEF Entries
<1>2. \A n \in Nat : Total(F(n), b) \in Nat
  BY <1>1, PermitsFinite
<1>3. ASSUME NEW n \in Nat
      PROVE  Total(F(n + 1), b) = Total(F(n), b) + Weight(F(n + 1)[n + 1], b)
  <2>1. n + 1 \in Nat /\ n + 1 \in 1..(n + 1) /\ (1..(n + 1)) \ {n + 1} = 1..n
    OBVIOUS
  <2>2. Without(F(n + 1), n + 1) = F(n)
    BY <2>1 DEF Without, Entries
  <2>3. n + 1 \in DOMAIN F(n + 1) /\ IsFiniteSet(DOMAIN F(n + 1))
    BY <1>1, <2>1
  <2>4. Total(F(n + 1), b) = Total(Without(F(n + 1), n + 1), b) + Weight(F(n + 1)[n + 1], b)
    BY <2>3, TotalSplit
  <2> QED BY <2>2, <2>4
<1>4. ASSUME NEW m \in Nat, NEW n \in Nat, m <= n
      PROVE  Total(F(m), b) <= Total(F(n), b)
  <2>1. DOMAIN F(m) \subseteq DOMAIN F(n)
    BY <1>1, <1>4
  <2>2. \A i \in DOMAIN F(m) : F(n)[i] = F(m)[i]
    BY <1>4 DEF Entries
  <2> QED BY <1>1, <2>1, <2>2, TotalPart
<1>5. Total(F(0), b) = 0
  <2>1. DOMAIN F(0) = {}
    BY DEF Entries
  <2> QED BY <2>1, TotalNone
<1> QED BY <1>2, <1>3, <1>4, <1>5

\* The same of the file before and after a step.
LEMMA FileTotals ==
  ASSUME NEW b
  PROVE  /\ \A n \in Nat : Total(File(n), b) \in Nat /\ Total(File(n)', b) \in Nat
         /\ \A n \in Nat :
                /\ Total(File(n + 1), b) = Total(File(n), b) + Weight(Scanned(n + 1), b)
                /\ Total(File(n + 1)', b) = Total(File(n)', b) + Weight(Scanned(n + 1)', b)
         /\ \A m, n \in Nat : m <= n =>
                /\ Total(File(m), b) <= Total(File(n), b)
                /\ Total(File(m)', b) <= Total(File(n)', b)
         /\ Total(File(0), b) = 0 /\ Total(File(0)', b) = 0
<1>1. \A n \in Nat : /\ Entries(lines, tail, n + 1)[n + 1] = Scanned(n + 1)
                     /\ Entries(lines', tail', n + 1)[n + 1] = Scanned(n + 1)'
  BY DEF Entries, Scanned
<1> DEFINE Old(n) == Entries(lines, tail, n)
           New(n) == Entries(lines', tail', n)
<1>2. /\ \A n \in Nat : Total(Old(n), b) \in Nat
      /\ \A n \in Nat : Total(Old(n + 1), b) = Total(Old(n), b) + Weight(Scanned(n + 1), b)
      /\ \A m, n \in Nat : m <= n => Total(Old(m), b) <= Total(Old(n), b)
      /\ Total(Old(0), b) = 0
  <2>1. /\ \A n \in Nat : Total(Entries(lines, tail, n), b) \in Nat
        /\ \A n \in Nat : Total(Entries(lines, tail, n + 1), b)
                = Total(Entries(lines, tail, n), b) + Weight(Entries(lines, tail, n + 1)[n + 1], b)
        /\ \A m, n \in Nat : m <= n =>
                Total(Entries(lines, tail, m), b) <= Total(Entries(lines, tail, n), b)
        /\ Total(Entries(lines, tail, 0), b) = 0
    BY EntriesTotals, Zenon
  <2>2. \A n \in Nat : Weight(Entries(lines, tail, n + 1)[n + 1], b) = Weight(Scanned(n + 1), b)
    BY <1>1
  <2> QED BY <2>1, <2>2
<1>3. /\ \A n \in Nat : Total(New(n), b) \in Nat
      /\ \A n \in Nat : Total(New(n + 1), b) = Total(New(n), b) + Weight(Scanned(n + 1)', b)
      /\ \A m, n \in Nat : m <= n => Total(New(m), b) <= Total(New(n), b)
      /\ Total(New(0), b) = 0
  <2>1. /\ \A n \in Nat : Total(Entries(lines', tail', n), b) \in Nat
        /\ \A n \in Nat : Total(Entries(lines', tail', n + 1), b)
                = Total(Entries(lines', tail', n), b) + Weight(Entries(lines', tail', n + 1)[n + 1], b)
        /\ \A m, n \in Nat : m <= n =>
                Total(Entries(lines', tail', m), b) <= Total(Entries(lines', tail', n), b)
        /\ Total(Entries(lines', tail', 0), b) = 0
    BY EntriesTotals, Zenon
  <2>2. \A n \in Nat : Weight(Entries(lines', tail', n + 1)[n + 1], b) = Weight(Scanned(n + 1)', b)
    BY <1>1
  <2> QED BY <2>1, <2>2
<1>4. \A n \in Nat : File(n) = Old(n) /\ File(n)' = New(n)
  BY DEF File
<1> HIDE DEF Old, New
<1>5. 0 \in Nat /\ \A n \in Nat : n + 1 \in Nat
  OBVIOUS
<1> QED BY <1>2, <1>3, <1>4, <1>5

\* A step that keeps the first n lines keeps what they draw.
LEMMA FilePrefix ==
  ASSUME NEW n \in Nat, n <= Len(lines), n <= Len(lines'), Len(lines) \in Nat, Len(lines') \in Nat,
         \A i \in 1..n : lines'[i] = lines[i]
  PROVE  \A m \in 0..n : File(m)' = File(m)
  BY DEF File, Entries

\* The totals of what handlers hold are numbers, and a step of one handler
\* changes them by what it put down and took up.
LEMMA HandsTotals ==
  ASSUME NEW ps, NEW b
  PROVE  /\ Total(Hands(ps), b) \in Nat
         /\ Total(Hands(ps)', b) \in Nat
         /\ (\A h \in Handler : pc[h] \in ps => job[h].rec \notin BudgetRec)
                => Total(Hands(ps), b) = 0
         /\ (\A h \in Handler : pc'[h] \in ps => job'[h].rec \notin BudgetRec)
                => Total(Hands(ps)', b) = 0
         /\ \A h \in Handler :
                /\ Weight(Hands(ps)[h], b) <= Total(Hands(ps), b)
                /\ (\A g \in Handler : g # h => pc'[g] = pc[g] /\ job'[g] = job[g])
                   => Total(Hands(ps)', b) + Weight(Hands(ps)[h], b)
                        = Total(Hands(ps), b) + Weight(Hands(ps)'[h], b)
<1> DEFINE e == Hands(ps)
           f == Hands(ps)'
<1>1. /\ DOMAIN e = Handler /\ \A h \in Handler : e[h] = IF pc[h] \in ps THEN job[h].rec ELSE Empty
      /\ DOMAIN f = Handler /\ \A h \in Handler : f[h] = IF pc'[h] \in ps THEN job'[h].rec ELSE Empty
  BY DEF Hands
<1> HIDE DEF e, f
<1>2. IsFiniteSet(DOMAIN e) /\ IsFiniteSet(DOMAIN f)
  BY <1>1, ServeAssumption
<1>3. Total(e, b) \in Nat /\ Total(f, b) \in Nat
  BY <1>2, PermitsFinite
<1>4. (\A h \in Handler : pc[h] \in ps => job[h].rec \notin BudgetRec) => Total(e, b) = 0
  BY <1>1, TotalNone, NoWeight
<1>5. (\A h \in Handler : pc'[h] \in ps => job'[h].rec \notin BudgetRec) => Total(f, b) = 0
  BY <1>1, TotalNone, NoWeight
<1>6. ASSUME NEW h \in Handler PROVE Weight(e[h], b) <= Total(e, b)
  BY <1>1, <1>2, TotalAtLeast
<1>7. ASSUME NEW h \in Handler, \A g \in Handler : g # h => pc'[g] = pc[g] /\ job'[g] = job[g]
      PROVE  Total(f, b) + Weight(e[h], b) = Total(e, b) + Weight(f[h], b)
  <2>1. Without(f, h) = Without(e, h)
    BY <1>1, <1>7 DEF Without
  <2> QED BY <1>1, <1>2, <2>1, TotalChange
<1> QED BY <1>3, <1>4, <1>5, <1>6, <1>7 DEF e, f
-----------------------------------------------------------------------------
(* Steps that draw on no budget.                                           *)

\* A step that leaves the file alone.
LEMMA SameFile ==
  ASSUME UNCHANGED <<lines, tail>>
  PROVE  /\ ScanLen' = ScanLen /\ \A i : Scanned(i)' = Scanned(i)
         /\ \A n : File(n)' = File(n)
  BY DEF ScanLen, Scanned, File

\* The types the arithmetic below needs, before and after a step.
LEMMA BudgetTypes ==
  ASSUME OnceInv, OnceInv'
  PROVE  /\ lines \in Seq(Entry) /\ Len(lines) \in Nat /\ dlen \in 0..Len(lines)
         /\ lines' \in Seq(Entry) /\ Len(lines') \in Nat /\ dlen' \in 0..Len(lines')
         /\ ScanLen \in Nat /\ ScanLen \in Len(lines)..(Len(lines) + 1)
         /\ ScanLen' \in Nat /\ ScanLen' \in Len(lines')..(Len(lines') + 1)
         /\ \A b \in Bucket :
                issued[b] \in Nat /\ used[b] \in Nat /\ issued'[b] \in Nat /\ used'[b] \in Nat
         /\ \A n \in Nat : \A b : Total(File(n), b) \in Nat /\ Total(File(n)', b) \in Nat
         /\ \A ps, b : Total(Hands(ps), b) \in Nat /\ Total(Hands(ps)', b) \in Nat
         /\ limit \in Nat
<1>1. /\ lines \in Seq(Entry) /\ Len(lines) \in Nat /\ dlen \in 0..Len(lines)
      /\ lines' \in Seq(Entry) /\ Len(lines') \in Nat /\ dlen' \in 0..Len(lines')
  BY LenProperties DEF OnceInv, TypeOK, JournalTypeOK
<1>2. \A b \in Bucket :
        issued[b] \in Nat /\ used[b] \in Nat /\ issued'[b] \in Nat /\ used'[b] \in Nat
  BY DEF OnceInv, TypeOK
<1>3. \A n \in Nat : \A b : Total(File(n), b) \in Nat /\ Total(File(n)', b) \in Nat
  BY FileTotals
<1>4. \A ps, b : Total(Hands(ps), b) \in Nat /\ Total(Hands(ps)', b) \in Nat
  BY HandsTotals
<1>5. limit \in Nat
  BY ServeAssumption DEF OnceInv, TypeOK
<1>6. /\ ScanLen \in Nat /\ ScanLen \in Len(lines)..(Len(lines) + 1)
      /\ ScanLen' \in Nat /\ ScanLen' \in Len(lines')..(Len(lines') + 1)
  BY <1>1 DEF ScanLen
<1> QED BY <1>1, <1>2, <1>3, <1>4, <1>5, <1>6

\* One handler moves on and takes up no reservation.
LEMMA MoveKeepsBudget ==
  ASSUME OnceInv, BudgetInv, NEW h \in Handler, OnceInv',
         UNCHANGED <<lines, tail, dlen, dtail, status, limit, pos, used, issued>>,
         \A g \in Handler : g # h => pc'[g] = pc[g] /\ job'[g] = job[g],
         pc'[h] # "idle" /\ job'[h].rec \in BudgetRec =>
            pc'[h] = "authorizing" /\ job'[h].rec.limit = limit,
         pc'[h] # "written"
  PROVE  BudgetInv'
<1>1. \A ps \in {InHand, Unwritten, Journaled} : \A b :
        /\ Total(Hands(ps)', b) \in Nat /\ Total(Hands(ps), b) \in Nat
        /\ Total(Hands(ps)', b) <= Total(Hands(ps), b)
  <2> SUFFICES ASSUME NEW ps \in {InHand, Unwritten, Journaled}, NEW b
               PROVE  /\ Total(Hands(ps)', b) \in Nat /\ Total(Hands(ps), b) \in Nat
                      /\ Total(Hands(ps)', b) <= Total(Hands(ps), b)
    OBVIOUS
  <2>1. Hands(ps)'[h] \notin BudgetRec
    <3>1. Hands(ps)'[h] = IF pc'[h] \in ps THEN job'[h].rec ELSE Empty
      BY DEF Hands
    <3>2. pc'[h] \in ps => pc'[h] \notin {"idle", "authorizing"}
      BY DEF InHand, Unwritten, Journaled
    <3> QED BY <3>1, <3>2, NoWeight
  <2>2. Weight(Hands(ps)'[h], b) = 0 /\ Weight(Hands(ps)[h], b) \in Nat
    BY <2>1, NoWeight, WeightType
  <2>3. /\ Total(Hands(ps)', b) \in Nat /\ Total(Hands(ps), b) \in Nat
        /\ Total(Hands(ps)', b) + Weight(Hands(ps)[h], b)
             = Total(Hands(ps), b) + Weight(Hands(ps)'[h], b)
    BY HandsTotals
  <2> QED BY <2>2, <2>3
<1>2. /\ ScanLen' = ScanLen /\ \A i : Scanned(i)' = Scanned(i)
      /\ \A n : File(n)' = File(n)
  BY SameFile
<1>3. /\ ScanLen \in Nat /\ dlen \in Nat
      /\ \A b \in Bucket : issued[b] \in Nat /\ used[b] \in Nat
      /\ \A n \in Nat : \A b : Total(File(n), b) \in Nat
  BY BudgetTypes
<1>4. ChargedInMemory'
  <2> SUFFICES ASSUME status = "serving", NEW b \in Bucket
               PROVE  /\ issued[b] + Total(Hands(InHand)', b) <= used[b]
                      /\ Total(File(ScanLen), b) + Total(Hands(Unwritten)', b) <= used[b]
    BY <1>2 DEF ChargedInMemory
  <2>1. /\ issued[b] + Total(Hands(InHand), b) <= used[b]
        /\ Total(File(ScanLen), b) + Total(Hands(Unwritten), b) <= used[b]
    BY DEF BudgetInv, ChargedInMemory
  <2>2. issued[b] \in Nat /\ used[b] \in Nat /\ Total(File(ScanLen), b) \in Nat
    BY <1>3
  <2> QED BY <1>1, <2>1, <2>2
<1>5. IssuedDurable'
  <2> SUFFICES ASSUME \A i \in 1..dlen : lines[i] # Garbled, NEW b \in Bucket
               PROVE  issued[b] + Total(Hands(Journaled)', b) <= Total(File(dlen), b)
    BY <1>2 DEF IssuedDurable
  <2>1. issued[b] + Total(Hands(Journaled), b) <= Total(File(dlen), b)
    BY DEF BudgetInv, IssuedDurable
  <2> QED BY <1>1, <1>3, <2>1
<1>6. WorkFits'
  BY DEF BudgetInv, WorkFits, InHand
<1>7. FileFits' /\ ChargedByReplay'
  BY <1>2 DEF BudgetInv, FileFits, ChargedByReplay
<1>8. LastUnsynced'
  BY DEF BudgetInv, LastUnsynced
<1> QED BY <1>4, <1>5, <1>6, <1>7, <1>8 DEF BudgetInv

\* A single use is taken, a request goes to AuthorizeMint, and a handler ends
\* without having issued anything: no budget changes.
LEMMA QuietKeepsBudget ==
  ASSUME OnceInv, BudgetInv, OnceInv', NEW h \in Handler,
         \/ \E r \in OnceRec, ok \in BOOLEAN : Take(h, r, ok)
         \/ \E r \in BudgetRec, ok \in BOOLEAN : BlindSign(h, r, ok)
         \/ ReserveExceeded(h) \/ SyncError(h) \/ AnswerOnce(h)
         \/ AnswerMint(h) /\ ~job[h].ok
  PROVE  BudgetInv'
<1>0. pc \in [Handler -> {"idle", "authorizing", "marked", "written", "journaled"}]
      /\ DOMAIN job = Handler
  BY DEF OnceInv, TypeOK
<1>1. ASSUME NEW r \in OnceRec, NEW ok \in BOOLEAN, Take(h, r, ok) PROVE BudgetInv'
  <2>1. used' = used
    BY <1>1 DEF Take, Mark
  <2>2. /\ UNCHANGED <<lines, tail, dlen, dtail, status, limit, pos, issued>>
        /\ \A g \in Handler : g # h => pc'[g] = pc[g] /\ job'[g] = job[g]
        /\ pc'[h] = "marked" /\ job'[h].rec = r
    BY <1>0, <1>1 DEF Take, journalVars, procVars, ghostVars
  <2> QED BY <2>1, <2>2, RecKinds, MoveKeepsBudget
<1>2. ASSUME NEW r \in BudgetRec, NEW ok \in BOOLEAN, BlindSign(h, r, ok) PROVE BudgetInv'
  <2>2. /\ UNCHANGED <<lines, tail, dlen, dtail, status, limit, pos, used, issued>>
        /\ \A g \in Handler : g # h => pc'[g] = pc[g] /\ job'[g] = job[g]
        /\ pc'[h] = "authorizing" /\ job'[h].rec.limit = limit
    BY <1>0, <1>2 DEF BlindSign, journalVars, procVars, ghostVars, memVars
  <2> QED BY <2>2, MoveKeepsBudget
<1>3. CASE \/ ReserveExceeded(h) \/ SyncError(h) \/ AnswerOnce(h)
           \/ AnswerMint(h) /\ ~job[h].ok
  <2>1. /\ UNCHANGED <<lines, tail, dlen, dtail, status, limit, pos, used, issued>>
        /\ Done(h)
    BY <1>3 DEF ReserveExceeded, SyncError, AnswerOnce, AnswerMint, JournalSyncError,
                journalVars, procVars, ghostVars, memVars
  <2>2. /\ \A g \in Handler : g # h => pc'[g] = pc[g] /\ job'[g] = job[g]
        /\ pc'[h] = "idle"
    BY <1>0, <2>1 DEF Done
  <2> QED BY <2>1, <2>2, MoveKeepsBudget
<1> QED BY <1>1, <1>2, <1>3
-----------------------------------------------------------------------------
(* Steps that draw on a budget or account for it.                          *)

\* How the records in hand change when one handler, at work on the
\* reservation r, moves from one place to another.
LEMMA HandMoves ==
  ASSUME NEW h \in Handler, NEW r, job[h].rec = r,
         \A g \in Handler : g # h => pc'[g] = pc[g] /\ job'[g] = job[g],
         pc'[h] = "idle" \/ job'[h].rec = r,
         NEW ps, "idle" \notin ps, NEW b
  PROVE  /\ pc[h] \in ps <=> pc'[h] \in ps => Total(Hands(ps)', b) = Total(Hands(ps), b)
         /\ pc[h] \notin ps /\ pc'[h] \in ps
                => Total(Hands(ps)', b) = Total(Hands(ps), b) + Weight(r, b)
         /\ pc[h] \in ps /\ pc'[h] \notin ps
                => Total(Hands(ps)', b) + Weight(r, b) = Total(Hands(ps), b)
         /\ pc[h] \in ps => Weight(r, b) <= Total(Hands(ps), b)
<1>1. /\ Total(Hands(ps), b) \in Nat /\ Total(Hands(ps)', b) \in Nat
      /\ Weight(Hands(ps)[h], b) <= Total(Hands(ps), b)
      /\ Total(Hands(ps)', b) + Weight(Hands(ps)[h], b)
            = Total(Hands(ps), b) + Weight(Hands(ps)'[h], b)
  BY HandsTotals
<1>2. /\ Hands(ps)[h] = IF pc[h] \in ps THEN r ELSE Empty
      /\ Hands(ps)'[h] = IF pc'[h] \in ps THEN r ELSE Empty
  BY DEF Hands
<1>3. Weight(Empty, b) = 0 /\ Weight(r, b) \in Nat
  BY NoWeight, WeightType
<1>4. CASE pc[h] \in ps /\ pc'[h] \in ps
  BY <1>1, <1>2, <1>3, <1>4
<1>5. CASE pc[h] \in ps /\ pc'[h] \notin ps
  BY <1>1, <1>2, <1>3, <1>5
<1>6. CASE pc[h] \notin ps /\ pc'[h] \in ps
  BY <1>1, <1>2, <1>3, <1>6
<1>7. CASE pc[h] \notin ps /\ pc'[h] \notin ps
  BY <1>1, <1>2, <1>3, <1>7
<1> QED BY <1>4, <1>5, <1>6, <1>7

\* Reserve charges memory and takes the reservation up in one step.
LEMMA ReserveKeepsBudget ==
  ASSUME OnceInv, BudgetInv, OnceInv', NEW h \in Handler, Reserve(h)
  PROVE  BudgetInv'
<1> DEFINE rr == job[h].rec
<1>1. PICK r : r = rr
  OBVIOUS
<1> HIDE DEF rr
<1>2. r \in BudgetRec /\ BucketOf(r) \in Bucket /\ r.amount \in Nat /\ r.limit = limit
      /\ status = "serving"
  <2>1. r \in BudgetRec /\ status = "serving"
    BY <1>1 DEF Reserve, OnceInv, Running, rr
  <2> QED BY <1>1, <2>1, BucketOfType DEF Reserve, BudgetInv, WorkFits, rr
<1>3. /\ UNCHANGED <<lines, tail, dlen, dtail, status, limit, pos, issued, job>>
      /\ pc[h] = "authorizing" /\ pc'[h] = "marked" /\ job[h].rec = r /\ job'[h].rec = r
      /\ \A g \in Handler : g # h => pc'[g] = pc[g] /\ job'[g] = job[g]
  BY <1>1 DEF Reserve, journalVars, procVars, ghostVars, OnceInv, TypeOK, rr
<1>4. /\ used[BucketOf(r)] + r.amount <= limit
      /\ used' = [used EXCEPT ![BucketOf(r)] = @ + r.amount]
  BY <1>1, <1>2 DEF Reserve, Fits, Charge, rr
<1>5. \A b \in Bucket : used'[b] = used[b] + Weight(r, b)
  <2>1. used \in [Bucket -> Nat]
    BY DEF OnceInv, TypeOK
  <2> QED BY <1>2, <1>4, <2>1 DEF Weight
<1>6. /\ ScanLen' = ScanLen /\ \A i : Scanned(i)' = Scanned(i)
      /\ \A n : File(n)' = File(n)
  BY <1>3, SameFile
<1>7. /\ ScanLen \in Nat /\ dlen \in Nat
      /\ \A b \in Bucket : issued[b] \in Nat /\ used[b] \in Nat
      /\ \A n \in Nat : \A b : Total(File(n), b) \in Nat
      /\ \A ps, b : Total(Hands(ps), b) \in Nat /\ Total(Hands(ps)', b) \in Nat
  BY BudgetTypes
<1>8. \A b : /\ Total(Hands(InHand)', b) = Total(Hands(InHand), b) + Weight(r, b)
             /\ Total(Hands(Unwritten)', b) = Total(Hands(Unwritten), b) + Weight(r, b)
             /\ Total(Hands(Journaled)', b) = Total(Hands(Journaled), b)
             /\ Weight(r, b) \in Nat
  BY <1>3, HandMoves, WeightType DEF InHand, Unwritten, Journaled
<1>9. ChargedInMemory'
  <2> SUFFICES ASSUME NEW b \in Bucket
               PROVE  /\ issued[b] + Total(Hands(InHand)', b) <= used'[b]
                      /\ Total(File(ScanLen), b) + Total(Hands(Unwritten)', b) <= used'[b]
    BY <1>3, <1>6 DEF ChargedInMemory
  <2>1. /\ issued[b] + Total(Hands(InHand), b) <= used[b]
        /\ Total(File(ScanLen), b) + Total(Hands(Unwritten), b) <= used[b]
    BY <1>2 DEF BudgetInv, ChargedInMemory
  <2> QED BY <1>5, <1>7, <1>8, <2>1
<1>10. WorkFits'
  <2> SUFFICES ASSUME NEW g \in Handler, pc'[g] # "idle", job[g].rec \in BudgetRec
               PROVE  /\ job[g].rec.limit = limit
                      /\ pc'[g] \in InHand => used'[BucketOf(job[g].rec)] <= limit
    BY <1>3 DEF WorkFits
  <2>1. job[g].rec.limit = limit
    BY <1>3 DEF BudgetInv, WorkFits
  <2>2. CASE BucketOf(job[g].rec) = BucketOf(r)
    <3>1. used'[BucketOf(r)] <= limit
      BY <1>2, <1>4 DEF OnceInv, TypeOK
    <3> QED BY <2>1, <2>2, <3>1
  <2>3. CASE BucketOf(job[g].rec) # BucketOf(r)
    <3>1. used'[BucketOf(job[g].rec)] = used[BucketOf(job[g].rec)]
      BY <1>4, <2>3, BucketOfType DEF OnceInv, TypeOK
    <3>2. g # h
      BY <1>3, <2>3
    <3> QED BY <1>3, <2>1, <3>1, <3>2 DEF BudgetInv, WorkFits
  <2> QED BY <2>2, <2>3
<1>11. FileFits' /\ ChargedByReplay'
  BY <1>2, <1>3, <1>6 DEF BudgetInv, FileFits, ChargedByReplay
<1>12. IssuedDurable'
  BY <1>3, <1>6, <1>8 DEF BudgetInv, IssuedDurable
<1>13. LastUnsynced'
  BY <1>3 DEF BudgetInv, LastUnsynced
<1> QED BY <1>9, <1>10, <1>11, <1>12, <1>13 DEF BudgetInv

\* AnswerMint moves its reservation from what is in hand to what was issued.
LEMMA IssueKeepsBudget ==
  ASSUME OnceInv, BudgetInv, OnceInv', NEW h \in Handler, AnswerMint(h), job[h].ok
  PROVE  /\ BudgetInv'
         /\ \A b \in Bucket : issued'[b] > issued[b] => issued'[b] <= limit
<1> DEFINE rr == job[h].rec
<1>1. PICK r : r = rr
  OBVIOUS
<1> HIDE DEF rr
<1>2. r \in BudgetRec /\ BucketOf(r) \in Bucket /\ r.amount \in Nat /\ status = "serving"
  BY <1>1, BucketOfType DEF AnswerMint, OnceInv, Running, rr
<1>3. /\ UNCHANGED <<lines, tail, dlen, dtail, status, limit, pos, used>>
      /\ pc[h] = "journaled" /\ pc'[h] = "idle" /\ job[h].rec = r
      /\ \A g \in Handler : g # h => pc'[g] = pc[g] /\ job'[g] = job[g]
  BY <1>1 DEF AnswerMint, Done, journalVars, procVars, memVars, OnceInv, TypeOK, rr
<1>4. issued' = [issued EXCEPT ![BucketOf(r)] = @ + r.amount]
  BY <1>1 DEF AnswerMint, rr
<1>5. \A b \in Bucket : issued'[b] = issued[b] + Weight(r, b)
  <2>1. issued \in [Bucket -> Nat]
    BY DEF OnceInv, TypeOK
  <2> QED BY <1>2, <1>4, <2>1 DEF Weight
<1>6. /\ ScanLen' = ScanLen /\ \A i : Scanned(i)' = Scanned(i)
      /\ \A n : File(n)' = File(n)
  BY <1>3, SameFile
<1>7. /\ ScanLen \in Nat /\ dlen \in Nat /\ limit \in Nat
      /\ \A b \in Bucket : issued[b] \in Nat /\ used[b] \in Nat
      /\ \A n \in Nat : \A b : Total(File(n), b) \in Nat
      /\ \A ps, b : Total(Hands(ps), b) \in Nat /\ Total(Hands(ps)', b) \in Nat
  BY BudgetTypes
<1>8. \A b : /\ Total(Hands(InHand)', b) + Weight(r, b) = Total(Hands(InHand), b)
             /\ Total(Hands(Unwritten)', b) = Total(Hands(Unwritten), b)
             /\ Total(Hands(Journaled)', b) + Weight(r, b) = Total(Hands(Journaled), b)
             /\ Weight(r, b) \in Nat
  BY <1>3, HandMoves, WeightType DEF InHand, Unwritten, Journaled
<1>9. \A b \in Bucket :
        /\ issued[b] + Total(Hands(InHand), b) <= used[b]
        /\ Total(File(ScanLen), b) + Total(Hands(Unwritten), b) <= used[b]
  BY <1>2 DEF BudgetInv, ChargedInMemory
<1>10. ChargedInMemory'
  <2> SUFFICES ASSUME NEW b \in Bucket
               PROVE  /\ issued'[b] + Total(Hands(InHand)', b) <= used[b]
                      /\ Total(File(ScanLen), b) + Total(Hands(Unwritten)', b) <= used[b]
    BY <1>3, <1>6 DEF ChargedInMemory
  <2> QED BY <1>5, <1>7, <1>8, <1>9
<1>11. WorkFits' /\ LastUnsynced'
  BY <1>3 DEF BudgetInv, WorkFits, LastUnsynced, InHand
<1>12. FileFits' /\ ChargedByReplay'
  BY <1>2, <1>3, <1>6 DEF BudgetInv, FileFits, ChargedByReplay
<1>13. IssuedDurable'
  <2> SUFFICES ASSUME \A i \in 1..dlen : lines[i] # Garbled, NEW b \in Bucket
               PROVE  issued'[b] + Total(Hands(Journaled)', b) <= Total(File(dlen), b)
    BY <1>3, <1>6 DEF IssuedDurable
  <2>1. issued[b] + Total(Hands(Journaled), b) <= Total(File(dlen), b)
    BY DEF BudgetInv, IssuedDurable
  <2> QED BY <1>5, <1>7, <1>8, <2>1
<1>14. ASSUME NEW b \in Bucket, issued'[b] > issued[b] PROVE issued'[b] <= limit
  <2>1. BucketOf(r) = b
    BY <1>5, <1>7, <1>14 DEF Weight
  <2>2. used[b] <= limit
    BY <1>2, <1>3, <2>1 DEF BudgetInv, WorkFits, InHand
  <2> QED BY <1>5, <1>7, <1>8, <1>9, <2>2
<1> QED BY <1>10, <1>11, <1>12, <1>13, <1>14 DEF BudgetInv

\* Sync makes the handler's line, and every line before it, durable.
LEMMA SyncKeepsBudget ==
  ASSUME OnceInv, BudgetInv, OnceInv', NEW h \in Handler, Sync(h)
  PROVE  BudgetInv'
<1> DEFINE rr == job[h].rec
<1>1. PICK r : r = rr
  OBVIOUS
<1> HIDE DEF rr
<1>2. status = "serving" /\ tail = Empty /\ dlen < Len(lines)
      /\ lines[Len(lines)] \in {r, Garbled}
      /\ \A g \in Handler : g # h => pc[g] # "written"
  BY <1>1 DEF Sync, JournalSync, OnceInv, Running, Locked, BudgetInv, LastUnsynced, rr
<1>3. /\ UNCHANGED <<lines, tail, status, limit, pos, used, issued>>
      /\ dlen' = Len(lines) /\ dtail' = Empty
      /\ pc[h] = "written" /\ pc'[h] = "journaled" /\ job[h].rec = r /\ job' = job
      /\ \A g \in Handler : g # h => pc'[g] = pc[g] /\ job'[g] = job[g]
  BY <1>1, <1>2 DEF Sync, JournalSync, procVars, memVars, ghostVars, OnceInv, TypeOK, rr
<1>4. job'[h].rec = r
  BY <1>3
<1>6. /\ ScanLen' = ScanLen /\ \A i : Scanned(i)' = Scanned(i)
      /\ \A n : File(n)' = File(n)
  BY <1>3, SameFile
<1>7. /\ ScanLen \in Nat /\ dlen \in Nat /\ Len(lines) \in Nat
      /\ \A b \in Bucket : issued[b] \in Nat /\ used[b] \in Nat
      /\ \A n \in Nat : \A b : Total(File(n), b) \in Nat
      /\ \A ps, b : Total(Hands(ps), b) \in Nat /\ Total(Hands(ps)', b) \in Nat
  BY BudgetTypes
<1>8. \A b : /\ Total(Hands(InHand)', b) = Total(Hands(InHand), b)
             /\ Total(Hands(Unwritten)', b) = Total(Hands(Unwritten), b)
             /\ Total(Hands(Journaled)', b) = Total(Hands(Journaled), b) + Weight(r, b)
             /\ Weight(r, b) \in Nat
  BY <1>3, <1>4, HandMoves, WeightType DEF InHand, Unwritten, Journaled
<1>9. ChargedInMemory'
  BY <1>3, <1>6, <1>8 DEF BudgetInv, ChargedInMemory
<1>10. WorkFits' /\ LastUnsynced'
  BY <1>2, <1>3 DEF BudgetInv, WorkFits, LastUnsynced, InHand
<1>11. FileFits' /\ ChargedByReplay'
  BY <1>2, <1>3, <1>6, NoWeight DEF BudgetInv, FileFits, ChargedByReplay
<1>12. IssuedDurable'
  <2> DEFINE k == Len(lines) - 1
  <2> SUFFICES ASSUME \A i \in 1..Len(lines) : lines[i] # Garbled, NEW b \in Bucket
               PROVE  issued[b] + Total(Hands(Journaled)', b) <= Total(File(Len(lines)), b)
    BY <1>3, <1>6 DEF IssuedDurable
  <2>1. issued[b] + Total(Hands(Journaled), b) <= Total(File(dlen), b)
    BY <1>2, <1>7 DEF BudgetInv, IssuedDurable
  <2>2. k \in Nat /\ k + 1 = Len(lines) /\ dlen <= k
    BY <1>2, <1>7
  <2>3. Scanned(k + 1) = r
    BY <1>2, <1>7, <2>2 DEF Scanned
  <2>4. /\ Total(File(k + 1), b) = Total(File(k), b) + Weight(Scanned(k + 1), b)
        /\ Total(File(dlen), b) <= Total(File(k), b)
    BY <1>7, <2>2, FileTotals
  <2> HIDE DEF k
  <2>5. Total(File(Len(lines)), b) = Total(File(k), b) + Weight(r, b)
    BY <2>2, <2>3, <2>4
  <2>6. Total(File(k), b) \in Nat /\ Total(File(dlen), b) \in Nat
    BY <1>7, <2>2
  <2> QED BY <1>7, <1>8, <2>1, <2>4, <2>5, <2>6
<1> QED BY <1>9, <1>10, <1>11, <1>12 DEF BudgetInv

\* What a handler writes becomes the last entry of the file: the record, when
\* there was no tail for it to spoil, or a line that no start gets past.
LEMMA EntryFits ==
  ASSUME OnceInv, BudgetInv, OnceInv', NEW h \in Handler, pc[h] = "marked",
         NEW r, job[h].rec = r, NEW n, n = Len(lines),
         \A i \in 1..n : lines'[i] = lines[i], Len(lines') >= n,
         ScanLen' = n + 1,
         \/ Scanned(n + 1)' = Garbled
         \/ Scanned(n + 1)' = r /\ tail = Empty,
         UNCHANGED <<dlen, dtail>>
  PROVE  /\ FileFits'
         /\ \A b : Total(File(ScanLen)', b) <= Total(File(ScanLen), b) + Weight(r, b)
         /\ File(dlen)' = File(dlen)
<1>2. /\ n = Len(lines) /\ n \in Nat /\ dlen \in 0..n /\ ScanLen \in Nat /\ n <= ScanLen
      /\ ScanLen' = n + 1 /\ Len(lines') \in Nat /\ Len(lines') >= n
      /\ \A b \in Bucket : used[b] \in Nat
      /\ \A k \in Nat : \A b : Total(File(k), b) \in Nat
      /\ \A ps, b : Total(Hands(ps), b) \in Nat
  BY BudgetTypes
<1>3. \A m \in 0..n : File(m)' = File(m)
  BY <1>2, FilePrefix
<1>4. \A b : Total(File(n + 1)', b) = Total(File(n), b) + Weight(Scanned(n + 1)', b)
  <2>1. \A b : Total(File(n + 1)', b) = Total(File(n)', b) + Weight(Scanned(n + 1)', b)
    BY <1>2, FileTotals
  <2>2. File(n)' = File(n)
    BY <1>2, <1>3
  <2> QED BY <2>1, <2>2
<1>5. \A b : Total(File(n), b) <= Total(File(ScanLen), b)
  BY <1>2, FileTotals
<1>6. File(ScanLen)' = File(n + 1)'
  BY <1>2 DEF File
<1>7. \A b : Total(File(ScanLen)', b) <= Total(File(ScanLen), b) + Weight(r, b)
  <2> TAKE b
  <2>1. Weight(Scanned(n + 1)', b) = 0 \/ Weight(Scanned(n + 1)', b) = Weight(r, b)
    BY <1>2, NoWeight
  <2>2. Total(File(n), b) \in Nat /\ Total(File(ScanLen), b) \in Nat
    BY <1>2
  <2>3. Weight(r, b) \in Nat
    BY WeightType
  <2> QED BY <1>4, <1>5, <1>6, <2>1, <2>2, <2>3
<1>8. \A i \in 1..n : Scanned(i)' = Scanned(i)
  BY <1>2 DEF Scanned
<1>9. ASSUME Scanned(n + 1)' \in BudgetRec
      PROVE  Total(File(n + 1)', BucketOf(Scanned(n + 1)')) <= Scanned(n + 1)'.limit
  <2>1. Scanned(n + 1)' = r /\ tail = Empty /\ r \in BudgetRec
    BY <1>2, <1>9, NoWeight
  <2>2. ScanLen = n
    BY <1>2, <2>1 DEF ScanLen
  <2>3. BucketOf(r) \in Bucket /\ status = "serving"
    BY <2>1, BucketOfType DEF OnceInv, Running
  <2>4. r.limit = limit /\ used[BucketOf(r)] <= limit
    BY <2>1 DEF BudgetInv, WorkFits, InHand
  <2>5. Total(File(n), BucketOf(r)) + Total(Hands(Unwritten), BucketOf(r)) <= used[BucketOf(r)]
    BY <2>2, <2>3 DEF BudgetInv, ChargedInMemory
  <2>6. Weight(r, BucketOf(r)) <= Total(Hands(Unwritten), BucketOf(r))
    <3>1. Weight(Hands(Unwritten)[h], BucketOf(r)) <= Total(Hands(Unwritten), BucketOf(r))
      BY HandsTotals
    <3>2. Hands(Unwritten)[h] = r
      BY DEF Hands, Unwritten
    <3> QED BY <3>1, <3>2
  <2>7. Total(File(n + 1)', BucketOf(r)) = Total(File(n), BucketOf(r)) + Weight(r, BucketOf(r))
    BY <1>4, <2>1
  <2>8. limit \in Nat /\ Weight(r, BucketOf(r)) \in Nat /\ used[BucketOf(r)] \in Nat
        /\ Total(File(n), BucketOf(r)) \in Nat /\ Total(Hands(Unwritten), BucketOf(r)) \in Nat
    BY <1>2, <2>3, BudgetTypes, WeightType
  <2>9. Total(File(n + 1)', BucketOf(r)) <= r.limit
    BY <2>4, <2>5, <2>6, <2>7, <2>8
  <2> QED BY <2>1, <2>9
<1>10. File(dlen)' = File(dlen)
  <2>1. \A m \in 0..n : Entries(lines', tail', m) = Entries(lines, tail, m)
    BY <1>3 DEF File
  <2> QED BY <1>2, <2>1 DEF File
<1>11. FileFits'
  <2>1. ASSUME NEW i \in 1..(n + 1), Scanned(i)' \in BudgetRec
        PROVE  Total(File(i)', BucketOf(Scanned(i)')) <= Scanned(i)'.limit
    <3>1. CASE i \in 1..n
      <4>1. Scanned(i)' = Scanned(i) /\ File(i)' = File(i) /\ i \in 1..ScanLen
        BY <1>2, <1>3, <1>8, <3>1
      <4> QED BY <2>1, <4>1 DEF BudgetInv, FileFits
    <3>2. CASE i = n + 1
      BY <1>9, <2>1, <3>2
    <3> QED BY <1>2, <3>1, <3>2
  <2>2. dtail' \in BudgetRec =>
            Total(File(dlen)', BucketOf(dtail')) + dtail'.amount <= dtail'.limit
    BY <1>10 DEF BudgetInv, FileFits
  <2> QED BY <1>2, <2>1, <2>2 DEF FileFits
<1> QED BY <1>7, <1>10, <1>11

\* Write: the reservation goes from the handler to the file.
LEMMA WriteKeepsBudget ==
  ASSUME OnceInv, BudgetInv, OnceInv', NEW h \in Handler,
         Write(h) \/ (WriteError(h) /\ tail' # tail)
  PROVE  BudgetInv'
<1> DEFINE rr == job[h].rec
<1>1. PICK r : r = rr
  OBVIOUS
<1> HIDE DEF rr
<1>2. pc[h] = "marked" /\ job[h].rec = r /\ status = "serving" /\ r \in Rec
      /\ \A g \in Handler : pc[g] # "written"
  BY <1>1, JournalAssumption
     DEF Write, WriteError, JournalWrite, JournalWriteError, OnceInv, Running, Locked, Job, rr
<1>3. UNCHANGED <<dlen, dtail, status, limit, pos, used, issued>>
  BY DEF Write, WriteError, JournalWrite, JournalWriteError, procVars, memVars, ghostVars
<1>4. /\ \A g \in Handler : g # h => pc'[g] = pc[g] /\ job'[g] = job[g]
      /\ \/ pc'[h] = "idle"
         \/ pc'[h] = "written" /\ job'[h].rec = r
  BY <1>2 DEF Write, WriteError, Done, OnceInv, TypeOK
<1>5. /\ lines \in Seq(Entry) /\ Len(lines) \in Nat /\ ScanLen \in Nat /\ dlen \in 0..Len(lines)
      /\ \A b \in Bucket : issued[b] \in Nat /\ used[b] \in Nat
      /\ \A n \in Nat : \A b : Total(File(n), b) \in Nat
      /\ \A ps, b : Total(Hands(ps), b) \in Nat /\ Total(Hands(ps)', b) \in Nat
      /\ ScanLen' \in Nat
      /\ \A n \in Nat : \A b : Total(File(n)', b) \in Nat
  BY BudgetTypes
<1> DEFINE len == Len(lines)
<1>60. PICK n : n = len
  OBVIOUS
<1> HIDE DEF len
<1>61. n = Len(lines) /\ n \in Nat
  BY <1>5, <1>60 DEF len
<1>6. /\ \A i \in 1..n : lines'[i] = lines[i]
      /\ Len(lines') >= n
      /\ ScanLen' = n + 1
      /\ \/ Scanned(n + 1)' = Garbled
         \/ Scanned(n + 1)' = r /\ tail = Empty
      /\ pc'[h] = "written" => Len(lines') = n + 1 /\ tail' = Empty
  <2>1. CASE Write(h)
    <3>1. Glued(r) \in Entry
      BY <1>2 DEF Glued, Entry
    <3>2. lines' = Append(lines, Glued(r)) /\ tail' = Empty
      BY <1>2, <2>1 DEF Write, JournalWrite
    <3>3. /\ Len(lines') = Len(lines) + 1 /\ lines'[Len(lines) + 1] = Glued(r)
          /\ \A i \in 1..Len(lines) : lines'[i] = lines[i]
      BY <1>5, <3>1, <3>2, AppendProperties
    <3>4. Len(lines') = n + 1 /\ lines'[n + 1] = Glued(r) /\ tail' = Empty
          /\ \A i \in 1..n : lines'[i] = lines[i]
      BY <1>61, <3>2, <3>3
    <3>5. ScanLen' = n + 1 /\ Scanned(n + 1)' = Glued(r)
      BY <1>61, <3>4 DEF ScanLen, Scanned
    <3>6. Glued(r) = Garbled \/ (Glued(r) = r /\ tail = Empty)
      BY DEF Glued
    <3> QED BY <1>61, <3>4, <3>5, <3>6
  <2>2. CASE WriteError(h) /\ tail' # tail
    <3>1. /\ lines' = lines /\ pc'[h] = "idle"
          /\ \/ tail' = Garbled
             \/ tail = Empty /\ tail' = r
      BY <1>2, <2>2 DEF WriteError, JournalWriteError, Done, OnceInv, TypeOK
    <3>2. tail' # Empty
      BY <1>2, <3>1, JournalAssumption
    <3>3. ScanLen' = n + 1 /\ Scanned(n + 1)' = tail'
      BY <1>61, <3>1, <3>2 DEF ScanLen, Scanned
    <3> QED BY <1>61, <3>1, <3>3
  <2> QED BY <2>1, <2>2
<1>7. /\ FileFits'
      /\ \A b : Total(File(ScanLen)', b) <= Total(File(ScanLen), b) + Weight(r, b)
      /\ File(dlen)' = File(dlen)
  BY <1>2, <1>3, <1>61, <1>6, EntryFits
<1>8. \A b : /\ Total(Hands(InHand)', b) <= Total(Hands(InHand), b)
             /\ Total(Hands(Unwritten)', b) + Weight(r, b) = Total(Hands(Unwritten), b)
             /\ Total(Hands(Journaled)', b) = Total(Hands(Journaled), b)
             /\ Weight(r, b) \in Nat
  <2> TAKE b
  <2>1. Weight(r, b) \in Nat
    BY WeightType
  <2>2. /\ Total(Hands(Unwritten)', b) + Weight(r, b) = Total(Hands(Unwritten), b)
        /\ Total(Hands(Journaled)', b) = Total(Hands(Journaled), b)
    BY <1>2, <1>4, HandMoves DEF Unwritten, Journaled
  <2>3. \/ Total(Hands(InHand)', b) = Total(Hands(InHand), b)
        \/ Total(Hands(InHand)', b) + Weight(r, b) = Total(Hands(InHand), b)
    BY <1>2, <1>4, HandMoves DEF InHand
  <2>4. Total(Hands(InHand)', b) <= Total(Hands(InHand), b)
    BY <1>5, <2>1, <2>3
  <2> QED BY <2>1, <2>2, <2>4
<1>9. ChargedInMemory'
  <2> SUFFICES ASSUME NEW b \in Bucket
               PROVE  /\ issued[b] + Total(Hands(InHand)', b) <= used[b]
                      /\ Total(File(ScanLen)', b) + Total(Hands(Unwritten)', b) <= used[b]
    BY <1>3 DEF ChargedInMemory
  <2>1. /\ issued[b] + Total(Hands(InHand), b) <= used[b]
        /\ Total(File(ScanLen), b) + Total(Hands(Unwritten), b) <= used[b]
    BY <1>2 DEF BudgetInv, ChargedInMemory
  <2>2. Total(File(ScanLen)', b) \in Nat /\ Total(File(ScanLen), b) \in Nat
    BY <1>5 DEF File
  <2>3. Total(File(ScanLen)', b) <= Total(File(ScanLen), b) + Weight(r, b)
    BY <1>7
  <2>4. /\ Total(Hands(InHand)', b) <= Total(Hands(InHand), b)
        /\ Total(Hands(Unwritten)', b) + Weight(r, b) = Total(Hands(Unwritten), b)
        /\ Weight(r, b) \in Nat
        /\ issued[b] \in Nat /\ used[b] \in Nat
        /\ Total(Hands(InHand), b) \in Nat /\ Total(Hands(InHand)', b) \in Nat
        /\ Total(Hands(Unwritten), b) \in Nat /\ Total(Hands(Unwritten)', b) \in Nat
    BY <1>5, <1>8
  <2> QED BY <2>1, <2>2, <2>3, <2>4
<1>10. WorkFits'
  <2> SUFFICES ASSUME NEW g \in Handler, pc'[g] # "idle", job'[g].rec \in BudgetRec
               PROVE  /\ job'[g].rec.limit = limit
                      /\ pc'[g] \in InHand => used[BucketOf(job'[g].rec)] <= limit
    BY <1>3 DEF WorkFits
  <2>1. job'[g].rec = job[g].rec /\ pc[g] # "idle" /\ (pc'[g] \in InHand => pc[g] \in InHand)
    BY <1>2, <1>4 DEF InHand
  <2> QED BY <2>1 DEF BudgetInv, WorkFits
<1>11. ChargedByReplay'
  BY <1>2, <1>3 DEF ChargedByReplay
<1>12. IssuedDurable'
  <2>1. \A i \in 1..dlen : lines'[i] = lines[i]
    BY <1>5, <1>61, <1>6
  <2> QED BY <1>3, <1>7, <1>8, <2>1 DEF BudgetInv, IssuedDurable
<1>13. LastUnsynced'
  BY <1>2, <1>3, <1>4, <1>5, <1>61, <1>6 DEF LastUnsynced
<1> QED BY <1>7, <1>9, <1>10, <1>11, <1>12, <1>13 DEF BudgetInv
-----------------------------------------------------------------------------
(* Startup and failures.                                                   *)

\* A start charges what it reads, drops none of it, and serves once it has
\* read all that was ever issued.
LEMMA StartupKeepsBudget ==
  ASSUME OnceInv, BudgetInv, OnceInv', Start \/ Replay \/ Refuse \/ Listen
  PROVE  BudgetInv'
<1>1. /\ UNCHANGED <<lines, tail, dlen, dtail, pc, job, issued>>
      /\ status # "serving"
  BY DEF Start, Replay, Refuse, Listen, journalVars, handVars, ghostVars
<1>2. \A h \in Handler : pc[h] = "idle"
  BY <1>1 DEF OnceInv, Running
<1>3. /\ ScanLen' = ScanLen /\ \A i : Scanned(i)' = Scanned(i)
      /\ \A n : File(n)' = File(n)
  BY <1>1, SameFile
<1>4. \A ps : Hands(ps)' = Hands(ps)
  BY <1>1 DEF Hands
<1>5. FileFits' /\ IssuedDurable'
  BY <1>1, <1>3, <1>4 DEF BudgetInv, FileFits, IssuedDurable
<1>6. WorkFits' /\ LastUnsynced'
  BY <1>1, <1>2 DEF WorkFits, LastUnsynced
<1>7. /\ ScanLen \in Nat /\ dlen \in Nat /\ dlen <= Len(lines) /\ Len(lines) <= ScanLen
      /\ Len(lines) \in Nat /\ pos \in Nat /\ used \in [Bucket -> Nat]
      /\ \A b \in Bucket : issued[b] \in Nat /\ used[b] \in Nat
      /\ \A n \in Nat : \A b : Total(File(n), b) \in Nat
  <2>1. pos \in Nat /\ used \in [Bucket -> Nat]
    BY DEF OnceInv, TypeOK
  <2> QED BY <2>1, BudgetTypes
<1>8. CASE Start
  <2>1. \A b \in Bucket : used[b] = 0
    BY <1>8 DEF Start, BudgetInv, ChargedByReplay
  <2>2. status' = "replaying" /\ pos' = 0 /\ used' = used
    BY <1>8 DEF Start, memVars
  <2>3. \A b : Total(File(0), b) = 0
    BY FileTotals
  <2>4. ChargedByReplay' /\ ChargedInMemory'
    BY <1>3, <2>1, <2>2, <2>3 DEF ChargedByReplay, ChargedInMemory, File
  <2> QED BY <1>5, <1>6, <2>4 DEF BudgetInv
<1>9. CASE Replay
  <2> DEFINE rr == Scanned(pos + 1)
             kk == pos
  <2>1. PICK r, k : r = rr /\ k = kk
    OBVIOUS
  <2> HIDE DEF rr, kk
  <2>2. /\ k = pos /\ k \in Nat /\ k + 1 <= ScanLen /\ k + 1 \in 1..ScanLen
        /\ r = Scanned(k + 1) /\ status' = "replaying" /\ pos' = k + 1
    BY <1>7, <1>9, <2>1 DEF Replay, rr, kk
  <2>3. \A b \in Bucket : used[b] = Total(File(k), b)
    BY <1>9, <2>2 DEF Replay, BudgetInv, ChargedByReplay
  <2>4. \A b : Total(File(k + 1), b) = Total(File(k), b) + Weight(r, b)
    BY <2>2, FileTotals
  <2>5. \A b \in Bucket : used'[b] = Total(File(k + 1), b)
    <3>1. CASE r \in OnceRec
      <4>1. used' = used
        BY <1>9, <2>1, <3>1 DEF Replay, Mark, rr
      <4>2. \A b : Weight(r, b) = 0
        BY <3>1, RecKinds, NoWeight
      <4> QED BY <1>7, <2>2, <2>3, <2>4, <4>1, <4>2
    <3>2. CASE r \notin OnceRec
      <4>1. r \in BudgetRec
        <5>1. r # Garbled
          BY <1>9, <2>1 DEF Replay, Refused, rr
        <5>2. r \in Entry \cup {Empty}
          BY <1>7, <2>2 DEF Scanned, OnceInv, TypeOK, JournalTypeOK
        <5>3. r # Empty
          <6>1. CASE k + 1 <= Len(lines)
            BY <1>7, <2>2, <6>1, JournalAssumption
            DEF Scanned, OnceInv, TypeOK, JournalTypeOK, Entry
          <6>2. CASE ~(k + 1 <= Len(lines))
            BY <1>7, <2>2, <6>2 DEF Scanned, ScanLen
          <6> QED BY <6>1, <6>2
        <5> QED BY <3>2, <5>1, <5>2, <5>3, RecKinds DEF Entry
      <4>2. BucketOf(r) \in Bucket /\ r.amount \in Nat
        BY <4>1, BucketOfType
      <4>3. Total(File(k + 1), BucketOf(r)) <= r.limit
        BY <2>2, <4>1 DEF BudgetInv, FileFits
      <4>4. Weight(r, BucketOf(r)) = r.amount
        BY <4>1, NoWeight
      <4>5. used[BucketOf(r)] + r.amount <= r.limit
        BY <2>3, <2>4, <4>2, <4>3, <4>4
      <4>6. used' = [used EXCEPT ![BucketOf(r)] = @ + r.amount]
        <5>1. Fits(r)
          BY <4>5 DEF Fits
        <5>2. Charge(r)
          BY <1>9, <2>1, <3>2, <5>1 DEF Replay, rr
        <5> QED BY <5>2 DEF Charge
      <4>7. \A b \in Bucket : used'[b] = used[b] + Weight(r, b)
        BY <1>7, <4>1, <4>2, <4>6 DEF Weight
      <4> QED BY <2>3, <2>4, <4>7
    <3> QED BY <3>1, <3>2
  <2>6. ChargedByReplay' /\ ChargedInMemory'
    BY <1>3, <2>2, <2>5 DEF ChargedByReplay, ChargedInMemory, File
  <2> QED BY <1>5, <1>6, <2>6 DEF BudgetInv
<1>10. CASE Refuse
  <2>1. status' = "refused" /\ used' = [b \in Bucket |-> 0]
    BY <1>10 DEF Refuse, ForgetMemory
  <2>2. ChargedByReplay' /\ ChargedInMemory'
    BY <2>1 DEF ChargedByReplay, ChargedInMemory
  <2> QED BY <1>5, <1>6, <2>2 DEF BudgetInv
<1>11. CASE Listen
  <2>1. status = "replaying" /\ pos = ScanLen /\ status' = "serving" /\ used' = used
    BY <1>11 DEF Listen, memVars
  <2>2. \A b \in Bucket : used[b] = Total(File(ScanLen), b)
    BY <2>1 DEF BudgetInv, ChargedByReplay
  <2>3. \A i \in 1..dlen : lines[i] # Garbled
    BY <1>7, <2>1 DEF OnceInv, Replayed
  <2>4. \A ps, b : "idle" \notin ps => Total(Hands(ps), b) = 0
    BY <1>2, HandsTotals
  <2>5. \A b \in Bucket : issued[b] <= Total(File(dlen), b)
    <3>1. \A b \in Bucket : issued[b] + Total(Hands(Journaled), b) <= Total(File(dlen), b)
      BY <2>3 DEF BudgetInv, IssuedDurable
    <3> QED BY <1>7, <2>4, <3>1 DEF Journaled
  <2>6. \A b \in Bucket : issued[b] <= used[b]
    <3>1. \A b : Total(File(dlen), b) <= Total(File(ScanLen), b)
      <4>1. dlen <= ScanLen
        BY <1>7
      <4>2. \A i, j \in Nat : \A b : i <= j => Total(File(i), b) <= Total(File(j), b)
        BY FileTotals
      <4> QED BY <1>7, <4>1, <4>2
    <3> TAKE b \in Bucket
    <3>2. issued[b] <= Total(File(dlen), b) /\ Total(File(dlen), b) <= used[b]
      BY <2>2, <2>5, <3>1
    <3> QED BY <1>7, <3>2
  <2>7. ChargedInMemory'
    <3>1. \A b : Total(Hands(InHand), b) = 0 /\ Total(Hands(Unwritten), b) = 0
      BY <2>4 DEF InHand, Unwritten
    <3>2. \A b \in Bucket : /\ issued[b] + Total(Hands(InHand), b) <= used[b]
                            /\ Total(File(ScanLen), b) + Total(Hands(Unwritten), b) <= used[b]
      BY <1>7, <2>2, <2>6, <3>1
    <3> QED BY <1>1, <1>3, <1>4, <2>1, <3>2 DEF ChargedInMemory
  <2>8. ChargedByReplay'
    BY <2>1 DEF ChargedByReplay
  <2> QED BY <1>5, <1>6, <2>7, <2>8 DEF BudgetInv
<1> QED BY <1>8, <1>9, <1>10, <1>11

\* The process dies and the file keeps at least its durable lines.
LEMMA DeathKeepsBudget ==
  ASSUME OnceInv, BudgetInv, OnceInv', Crash \/ PowerLoss
  PROVE  BudgetInv'
<1>1. ProcessDies
  BY DEF Crash, PowerLoss
<1>2. /\ status' = "down" /\ issued' = issued /\ limit' = limit
      /\ \A b \in Bucket : used'[b] = 0
      /\ \A h \in Handler : pc'[h] = "idle"
  BY <1>1 DEF ProcessDies, ForgetMemory, ghostVars
<1>3. ChargedInMemory' /\ ChargedByReplay' /\ WorkFits' /\ LastUnsynced'
  BY <1>2 DEF ChargedInMemory, ChargedByReplay, WorkFits, LastUnsynced
<1>4. \A b : Total(Hands(Journaled)', b) = 0 /\ Total(Hands(Journaled), b) \in Nat
  BY <1>2, HandsTotals DEF Journaled
<1>5. /\ lines \in Seq(Entry) /\ Len(lines) \in Nat /\ dlen \in 0..Len(lines)
      /\ ScanLen \in Nat /\ Len(lines) <= ScanLen
      /\ \A b \in Bucket : issued[b] \in Nat
      /\ \A n \in Nat : \A b : Total(File(n), b) \in Nat
  BY BudgetTypes
<1>6. CASE Crash
  <2>1. UNCHANGED <<lines, tail, dlen, dtail>>
    BY <1>6 DEF Crash, JournalKilled
  <2>2. /\ ScanLen' = ScanLen /\ \A i : Scanned(i)' = Scanned(i)
        /\ \A n : File(n)' = File(n)
    BY <2>1, SameFile
  <2>3. FileFits'
    BY <2>1, <2>2 DEF BudgetInv, FileFits
  <2>4. IssuedDurable'
    <3> SUFFICES ASSUME \A i \in 1..dlen : lines[i] # Garbled, NEW b \in Bucket
                 PROVE  issued[b] + 0 <= Total(File(dlen), b)
      BY <1>2, <1>4, <2>1, <2>2 DEF IssuedDurable
    <3>1. issued[b] + Total(Hands(Journaled), b) <= Total(File(dlen), b)
      BY DEF BudgetInv, IssuedDurable
    <3> QED BY <1>4, <1>5, <3>1
  <2> QED BY <1>3, <2>3, <2>4 DEF BudgetInv
<1>7. CASE PowerLoss
  <2>1. PICK n \in dlen..Len(lines) :
          /\ lines' = SubSeq(lines, 1, n)
          /\ tail' \in Remains(n)
          /\ dlen' = n /\ dtail' = tail'
    BY <1>7 DEF PowerLoss, JournalPowerLoss
  <2>2. n \in Nat /\ n <= Len(lines) /\ dlen <= n /\ n <= ScanLen
    BY <1>5, <2>1
  <2>3. Len(lines') = n /\ \A i \in 1..n : lines'[i] = lines[i]
    <3>1. \A i \in 1..n : lines[i] \in Entry
      BY <1>5, <2>2
    <3> QED BY <1>5, <2>1, <2>2, <3>1, SubSeqProperties
  <2>4. \A m \in 0..n : File(m)' = File(m)
    BY <1>5, <2>2, <2>3, FilePrefix
  <2>5. \A b : Total(File(n + 1)', b) = Total(File(n), b) + Weight(tail', b)
    <3>1. \A b : Total(File(n + 1)', b) = Total(File(n)', b) + Weight(Scanned(n + 1)', b)
      BY <2>2, FileTotals
    <3>2. Scanned(n + 1)' = tail' /\ File(n)' = File(n)
      BY <2>2, <2>3, <2>4 DEF Scanned
    <3> QED BY <3>1, <3>2
  <2>6. ASSUME NEW t, t = tail', t \in BudgetRec
        PROVE  Total(File(n), BucketOf(t)) + t.amount <= t.limit
    <3>0. t # Empty /\ t # Garbled /\ Weight(t, BucketOf(t)) = t.amount
      BY <2>6, NoWeight
    <3>1. \/ n = dlen /\ t = dtail
          \/ t = Scanned(n + 1)
      BY <2>1, <2>6, <3>0 DEF Remains
    <3>2. CASE n = dlen /\ t = dtail
      BY <2>6, <3>2 DEF BudgetInv, FileFits
    <3>3. CASE t = Scanned(n + 1)
      <4>1. n + 1 \in 1..ScanLen
        BY <1>5, <2>2, <3>0, <3>3 DEF Scanned, ScanLen
      <4>2. Total(File(n + 1), BucketOf(t)) <= t.limit
        BY <2>6, <3>3, <4>1 DEF BudgetInv, FileFits
      <4>3. Total(File(n + 1), BucketOf(t))
              = Total(File(n), BucketOf(t)) + Weight(Scanned(n + 1), BucketOf(t))
        BY <2>2, FileTotals
      <4> QED BY <3>0, <3>3, <4>2, <4>3
    <3> QED BY <3>1, <3>2, <3>3
  <2>7. FileFits'
    <3>1. ASSUME NEW i \in 1..ScanLen', Scanned(i)' \in BudgetRec
          PROVE  Total(File(i)', BucketOf(Scanned(i)')) <= Scanned(i)'.limit
      <4>1. CASE i \in 1..n
        <5>1. Scanned(i)' = Scanned(i) /\ i \in 1..ScanLen /\ File(i)' = File(i)
          BY <1>5, <2>2, <2>3, <2>4, <4>1 DEF Scanned
        <5> QED BY <3>1, <5>1 DEF BudgetInv, FileFits
      <4>2. CASE i = n + 1
        <5>1. Scanned(i)' = tail'
          BY <2>2, <2>3, <4>2 DEF Scanned
        <5>2. PICK t : t = tail'
          OBVIOUS
        <5>3. Total(File(n), BucketOf(t)) + t.amount <= t.limit /\ Weight(t, BucketOf(t)) = t.amount
          BY <2>6, <3>1, <5>1, <5>2, NoWeight
        <5>4. Total(File(n + 1)', BucketOf(t)) <= t.limit
          BY <2>5, <5>2, <5>3
        <5> QED BY <4>2, <5>1, <5>2, <5>4
      <4> QED BY <2>2, <2>3, <4>1, <4>2 DEF ScanLen
    <3>2. dtail' \in BudgetRec =>
            Total(File(dlen)', BucketOf(dtail')) + dtail'.amount <= dtail'.limit
      <4>1. File(dlen)' = File(n)
        <5>1. Entries(lines', tail', n) = Entries(lines, tail, n)
          BY <2>2, <2>4 DEF File
        <5> QED BY <2>1, <5>1 DEF File
      <4> QED BY <2>1, <2>6, <4>1
    <3> QED BY <3>1, <3>2 DEF FileFits
  <2>8. IssuedDurable'
    <3>1. File(dlen)' = File(n)
      <4>1. Entries(lines', tail', n) = Entries(lines, tail, n)
        BY <2>2, <2>4 DEF File
      <4> QED BY <2>1, <4>1 DEF File
    <3> SUFFICES ASSUME \A i \in 1..n : lines[i] # Garbled, NEW b \in Bucket
                 PROVE  issued[b] + 0 <= Total(File(n), b)
      BY <1>2, <1>4, <2>1, <2>3, <3>1 DEF IssuedDurable
    <3>2. issued[b] + Total(Hands(Journaled), b) <= Total(File(dlen), b)
      BY <1>5, <2>2 DEF BudgetInv, IssuedDurable
    <3>3. Total(File(dlen), b) <= Total(File(n), b)
      <4>1. \A i, j \in Nat : i <= j => Total(File(i), b) <= Total(File(j), b)
        BY FileTotals
      <4> QED BY <1>5, <2>2, <4>1
    <3>4. Total(File(dlen), b) \in Nat /\ Total(File(n), b) \in Nat
      BY <1>5, <2>2
    <3> QED BY <1>4, <1>5, <3>2, <3>3, <3>4
  <2> QED BY <1>3, <2>7, <2>8 DEF BudgetInv
<1> QED BY <1>6, <1>7
-----------------------------------------------------------------------------
(* The theorems about the budget.                                          *)

\* Nothing is charged, written or issued before the first start.
LEMMA BudgetInit == Init => BudgetInv
<1> SUFFICES ASSUME Init PROVE BudgetInv
  OBVIOUS
<1>1. /\ lines = << >> /\ tail = Empty /\ dlen = 0 /\ dtail = Empty /\ status = "down"
      /\ \A h \in Handler : pc[h] = "idle"
      /\ \A b \in Bucket : used[b] = 0 /\ issued[b] = 0
  BY DEF Init, JournalInit
<1>2. ScanLen = 0
  BY <1>1 DEF ScanLen
<1>3. \A b : Total(Hands(Journaled), b) = 0 /\ Total(File(0), b) = 0
  BY <1>1, HandsTotals, FileTotals DEF Journaled
<1>4. FileFits
  BY <1>1, <1>2, NoWeight DEF FileFits
<1>5. IssuedDurable
  BY <1>1, <1>3 DEF IssuedDurable
<1>6. ChargedInMemory /\ ChargedByReplay /\ WorkFits /\ LastUnsynced
  BY <1>1 DEF ChargedInMemory, ChargedByReplay, WorkFits, LastUnsynced
<1> QED BY <1>4, <1>5, <1>6 DEF BudgetInv

\* One step per action; only AnswerMint issues.
LEMMA BudgetNext ==
  ASSUME OnceInv, BudgetInv, [Next]_vars
  PROVE  /\ BudgetInv'
         /\ \A b \in Bucket : issued'[b] > issued[b] => issued'[b] <= limit
<1>0. OnceInv' /\ \A b \in Bucket : issued[b] \in Nat
  BY OnceNext DEF OnceInv, TypeOK
<1>1. ASSUME NEW h \in Handler, NEW r \in SpendRec, VerifyBurn(h, r)
      PROVE  BudgetInv' /\ issued' = issued
  <2>1. r \in OnceRec /\ Take(h, r, TRUE)
    BY <1>1, RecKinds DEF VerifyBurn
  <2> QED BY <1>0, <2>1, QuietKeepsBudget DEF Take, ghostVars
<1>2. ASSUME NEW h \in Handler, NEW r \in PvtRec, NEW ok \in BOOLEAN, VerifyPvt(h, r, ok)
      PROVE  BudgetInv' /\ issued' = issued
  <2>1. r \in OnceRec /\ Take(h, r, ok)
    BY <1>2, RecKinds DEF VerifyPvt
  <2> QED BY <1>0, <2>1, QuietKeepsBudget DEF Take, ghostVars
<1>3. ASSUME NEW h \in Handler, NEW r \in BudgetRec, NEW ok \in BOOLEAN, BlindSign(h, r, ok)
      PROVE  BudgetInv' /\ issued' = issued
  BY <1>0, <1>3, QuietKeepsBudget DEF BlindSign, ghostVars
<1>4. ASSUME NEW h \in Handler, ReserveExceeded(h) \/ SyncError(h) \/ AnswerOnce(h)
      PROVE  BudgetInv' /\ issued' = issued
  <2>1. BudgetInv'
    BY <1>0, <1>4, QuietKeepsBudget
  <2> QED BY <1>4, <2>1 DEF ReserveExceeded, SyncError, AnswerOnce, ghostVars
<1>5. ASSUME NEW h \in Handler, Reserve(h) PROVE BudgetInv' /\ issued' = issued
  BY <1>0, <1>5, ReserveKeepsBudget DEF Reserve, ghostVars
<1>6. ASSUME NEW h \in Handler, Write(h) PROVE BudgetInv' /\ issued' = issued
  BY <1>0, <1>6, WriteKeepsBudget DEF Write, ghostVars
<1>7. ASSUME NEW h \in Handler, WriteError(h) PROVE BudgetInv' /\ issued' = issued
  <2>1. issued' = issued
    BY <1>7 DEF WriteError, ghostVars
  <2>2. CASE tail' # tail
    BY <1>0, <1>7, <2>1, <2>2, WriteKeepsBudget
  <2>3. CASE tail' = tail
    <3>1. /\ UNCHANGED <<lines, tail, dlen, dtail, status, limit, pos, used, issued>>
          /\ Done(h)
      BY <1>7, <2>3 DEF WriteError, JournalWriteError, procVars, memVars, ghostVars
    <3>2. /\ \A g \in Handler : g # h => pc'[g] = pc[g] /\ job'[g] = job[g]
          /\ pc'[h] = "idle"
      BY <3>1 DEF Done, OnceInv, TypeOK
    <3> QED BY <1>0, <3>1, <3>2, MoveKeepsBudget
  <2> QED BY <2>2, <2>3
<1>8. ASSUME NEW h \in Handler, Sync(h) PROVE BudgetInv' /\ issued' = issued
  BY <1>0, <1>8, SyncKeepsBudget DEF Sync, ghostVars
<1>9. ASSUME NEW h \in Handler, AnswerMint(h)
      PROVE  /\ BudgetInv'
             /\ \A b \in Bucket : issued'[b] > issued[b] => issued'[b] <= limit
  <2>1. CASE job[h].ok
    BY <1>0, <1>9, <2>1, IssueKeepsBudget
  <2>2. CASE ~job[h].ok
    <3>1. BudgetInv'
      BY <1>0, <1>9, <2>2, QuietKeepsBudget
    <3>2. issued' = issued
      BY <1>9, <2>2 DEF AnswerMint
    <3> QED BY <1>0, <3>1, <3>2
  <2> QED BY <2>1, <2>2
<1>10. ASSUME Start \/ Replay \/ Refuse \/ Listen PROVE BudgetInv' /\ issued' = issued
  <2>1. BudgetInv'
    BY <1>0, <1>10, StartupKeepsBudget
  <2> QED BY <1>10, <2>1 DEF Start, Replay, Refuse, Listen, ghostVars
<1>11. ASSUME Crash \/ PowerLoss PROVE BudgetInv' /\ issued' = issued
  <2>1. BudgetInv'
    BY <1>0, <1>11, DeathKeepsBudget
  <2> QED BY <1>11, <2>1 DEF Crash, PowerLoss, ProcessDies, ghostVars
<1>12. ASSUME UNCHANGED vars PROVE BudgetInv' /\ issued' = issued
  <2>1. UNCHANGED <<lines, tail, dlen, dtail, status, limit, pos, used, pc, job, issued>>
    BY <1>12 DEF vars, journalVars, procVars, memVars, handVars, ghostVars
  <2>2. /\ ScanLen' = ScanLen /\ \A i : Scanned(i)' = Scanned(i)
        /\ \A n : File(n)' = File(n)
    BY <2>1, SameFile
  <2>3. \A ps : Hands(ps)' = Hands(ps)
    BY <2>1 DEF Hands
  <2> QED BY <2>1, <2>2, <2>3
          DEF BudgetInv, ChargedInMemory, WorkFits, FileFits, ChargedByReplay, IssuedDurable,
              LastUnsynced
<1>13. ASSUME issued' = issued, NEW b \in Bucket, issued'[b] > issued[b]
       PROVE  issued'[b] <= limit
  BY <1>0, <1>13
<1>14. ASSUME NEW h \in Handler, HandlerStep(h)
       PROVE  /\ BudgetInv'
              /\ \A b \in Bucket : issued'[b] > issued[b] => issued'[b] <= limit
  BY <1>4, <1>5, <1>6, <1>7, <1>8, <1>9, <1>13, <1>14 DEF HandlerStep
<1> QED BY <1>1, <1>2, <1>3, <1>10, <1>11, <1>12, <1>13, <1>14 DEF Next

\* openJournal finds room for every reservation it reads, whatever handlers
\* charged and wrote in different orders, wherever writes failed or the machine
\* died, and whatever limits the policies of earlier starts set.
THEOREM ReplayKeepsReservations == Spec => []ReplayDropsNothing
<1>1. ASSUME OnceInv, BudgetInv PROVE ReplayDropsNothing
  <2> SUFFICES ASSUME status = "replaying", pos < ScanLen, Scanned(pos + 1) \in BudgetRec
               PROVE  Fits(Scanned(pos + 1))
    BY DEF ReplayDropsNothing
  <2>1. PICK k, r : k = pos /\ r = Scanned(pos + 1)
    OBVIOUS
  <2>2. /\ k \in Nat /\ ScanLen \in Nat
    BY <1>1, <2>1, LenProperties DEF OnceInv, TypeOK, JournalTypeOK, ScanLen
  <2>3. r \in BudgetRec /\ BucketOf(r) \in Bucket /\ r.amount \in Nat
        /\ Weight(r, BucketOf(r)) = r.amount /\ k + 1 \in 1..ScanLen /\ r = Scanned(k + 1)
    BY <2>1, <2>2, BucketOfType, NoWeight
  <2>4. used[BucketOf(r)] = Total(File(k), BucketOf(r))
    BY <1>1, <2>1, <2>3 DEF BudgetInv, ChargedByReplay
  <2>5. Total(File(k + 1), BucketOf(r)) <= r.limit
    BY <1>1, <2>3 DEF BudgetInv, FileFits
  <2>6. Total(File(k + 1), BucketOf(r)) = Total(File(k), BucketOf(r)) + Weight(r, BucketOf(r))
    BY <2>2, <2>3, FileTotals
  <2>7. used[BucketOf(r)] + r.amount <= r.limit
    BY <2>3, <2>4, <2>5, <2>6
  <2> QED BY <2>1, <2>7 DEF Fits
<1>2. OnceInv /\ BudgetInv /\ [Next]_vars => OnceInv' /\ BudgetInv'
  BY OnceNext, BudgetNext
<1> QED BY <1>1, <1>2, OnceInit, BudgetInit, PTL DEF Spec

\* Tokens leave the server only while all that ever left it for their budget
\* key and window, in this process and in the ones that died before, fits the
\* limit of the policy in force.
THEOREM IssuanceWithinBudget == Spec => WithinBudget
<1>1. OnceInv /\ BudgetInv /\ [Next]_vars => OnceInv' /\ BudgetInv'
  BY OnceNext, BudgetNext
<1>2. OnceInv /\ BudgetInv /\ [Next]_vars
        => [\A b \in Bucket : issued'[b] > issued[b] => issued'[b] <= limit]_vars
  BY BudgetNext
<1> QED BY <1>1, <1>2, OnceInit, BudgetInit, PTL DEF Spec, WithinBudget
=============================================================================
