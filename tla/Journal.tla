------------------------------- MODULE Journal -------------------------------
(***************************************************************************)
(* The durable state log of cmd/tamayo/state.go: one append-only file of   *)
(* JSON lines.  A record is appended by one Write call and one Sync call   *)
(* made under the mutex j.mu; the file is scanned once, at startup, by     *)
(* openJournal.                                                            *)
(*                                                                         *)
(* The file is what the operating system would return to a reader: the     *)
(* newline-terminated lines, and the tail, the bytes after the last        *)
(* newline.  Its durable image, what a power loss cannot take away, is the *)
(* first dlen lines followed by dtail.                                     *)
(***************************************************************************)
EXTENDS Naturals, Sequences

CONSTANTS
    Handler,   \* request handlers (goroutines) that may run at once
    Rec,       \* the state records that can be appended
    TooLong,   \* the records whose line exceeds the Scanner's 1 MiB buffer
    Garbled,   \* a line that json.Unmarshal refuses
    Empty,     \* no bytes after the last newline
    Nobody     \* the journal mutex is free

ASSUME JournalAssumption ==
    /\ TooLong \subseteq Rec
    /\ Garbled \notin Rec
    /\ Empty \notin Rec \cup {Garbled}
    /\ Nobody \notin Handler

VARIABLES
    lines,     \* the newline-terminated lines of the file
    tail,      \* the bytes after the last newline
    dlen,      \* how many lines are known to be on the disk
    dtail,     \* the bytes the disk holds after those lines
    jmu        \* the holder of j.mu

journalVars == <<lines, tail, dlen, dtail, jmu>>

Entry == Rec \cup {Garbled}

JournalTypeOK ==
    /\ lines \in Seq(Entry)
    /\ tail \in Entry \cup {Empty}
    /\ dlen \in 0..Len(lines)
    /\ dtail \in Entry \cup {Empty}
    /\ jmu \in Handler \cup {Nobody}

JournalInit ==
    /\ lines = << >>
    /\ tail = Empty
    /\ dlen = 0
    /\ dtail = Empty
    /\ jmu = Nobody

-----------------------------------------------------------------------------
(* The file is opened with O_APPEND and nobody cuts an unterminated tail   *)
(* off, so a record appended after one lands on the same line, and two     *)
(* JSON values on a line are refused by json.Unmarshal.                    *)
Glued(r) == IF tail = Empty THEN r ELSE Garbled

\* append: take j.mu and write the line and its newline with one Write.
JournalWrite(h, r) ==
    /\ jmu = Nobody
    /\ jmu' = h
    /\ lines' = Append(lines, Glued(r))
    /\ tail' = Empty
    /\ UNCHANGED <<dlen, dtail>>

\* append: Write fails after none, some, or all but the newline of the
\* bytes; nothing undoes the part that was written.
JournalWriteError(r) ==
    /\ jmu = Nobody
    /\ tail' \in IF tail = Empty THEN {Empty, Garbled, r} ELSE {tail, Garbled}
    /\ UNCHANGED <<lines, dlen, dtail, jmu>>

\* Mutant: append returns without calling Sync.
JournalSyncSkipped(h) ==
    /\ jmu = h
    /\ jmu' = Nobody
    /\ UNCHANGED <<lines, tail, dlen, dtail>>

\* Mutant: one line too many counts as synced.
JournalSyncAhead(h) ==
    /\ jmu = h
    /\ jmu' = Nobody
    /\ dlen' = Len(lines) + 1
    /\ dtail' = tail
    /\ UNCHANGED <<lines, tail>>

\* append: Sync succeeds and j.mu is released.
JournalSync(h) ==
    /\ jmu = h
    /\ jmu' = Nobody
    /\ dlen' = Len(lines)
    /\ dtail' = tail
    /\ UNCHANGED <<lines, tail>>

\* Mutant: the error path returns with j.mu locked.
JournalSyncErrorKeepsLock(h) ==
    /\ jmu = h
    /\ UNCHANGED journalVars

\* append: Sync fails and j.mu is released; the line stays in the file.
JournalSyncError(h) ==
    /\ jmu = h
    /\ jmu' = Nobody
    /\ UNCHANGED <<lines, tail, dlen, dtail>>

-----------------------------------------------------------------------------
\* The process dies: what it wrote stays in the file, synced or not.
JournalKilled ==
    /\ jmu' = Nobody
    /\ UNCHANGED <<lines, tail, dlen, dtail>>

\* What openJournal scans: the lines and, when there is one, the tail.
ScanLen == Len(lines) + (IF tail = Empty THEN 0 ELSE 1)
Scanned(i) == IF i <= Len(lines) THEN lines[i] ELSE tail

\* Entries at which openJournal stops with an error.
Refused(e) == e = Garbled \/ e \in TooLong

\* The machine dies when the disk holds n lines: what may be left of the
\* entry after them.
Remains(n) ==
    IF n = dlen /\ dtail # Empty
    THEN {dtail, Scanned(n + 1)}
    ELSE {Empty} \cup (IF n < ScanLen THEN {Garbled, Scanned(n + 1)} ELSE {})

\* The machine dies: the disk keeps the durable image and any part of what
\* was written after it.
JournalPowerLoss ==
    \E n \in dlen..Len(lines) :
        /\ lines' = SubSeq(lines, 1, n)
        /\ tail' \in Remains(n)
        /\ dlen' = n
        /\ dtail' = tail'
        /\ jmu' = Nobody
=============================================================================
