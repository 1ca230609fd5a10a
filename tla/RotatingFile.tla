----------------------------- MODULE RotatingFile -----------------------------
(***************************************************************************)
(* RotatingFileSink: lines are appended to the active file, which becomes   *)
(* backup 1 when it is full or old; the backups move up and the last one is *)
(* removed.  emit() holds the sink's lock, so its steps are those of one    *)
(* thread; every call of the operating system is a step that may fail, and  *)
(* the process may die between any two.                                     *)
(*                                                                         *)
(* A file is known by its generation, a number that grows with each file    *)
(* created.  disk[0] is the active file and disk[i] backup i; 0 is no file. *)
(* Every line has size 1.                                                   *)
(***************************************************************************)
EXTENDS Integers, FiniteSets

CONSTANTS
    BackupCounts,   \* the values of backup_count
    FileBytes,      \* max_bytes
    MaxLines,       \* bound: lines written
    BatchLines,     \* lines of one emit()
    MaxGens,        \* bound: files created
    MaxFaults       \* bound: failing system calls and crashes

ASSUME RotatingAssumption ==
    /\ BackupCounts \subseteq Nat /\ FileBytes \in Nat /\ MaxLines \in Nat /\ BatchLines \in Nat \ {0}
    /\ MaxGens \in Nat \ {0} /\ MaxFaults \in Nat

VARIABLES
    backups,        \* backup_count
    disk,           \* the generation under each name
    born,           \* the generations created so far
    stream,         \* the TextIO: "open" or "shut"
    step,           \* where the emit() is
    shift,          \* the loop variable of _rotate
    last,           \* the lines taken so far: the batch in hand ends with this one
    line,           \* the lines handed to the stream so far
    buf,            \* the lines in the stream's buffer
    home,           \* the generation each line was written to, 0 for none
    size,           \* _size
    shutFor,        \* _closed
    faults,         \* faults so far
    written,        \* history: the lines of emit() calls that returned
    found           \* history: the files that were there when the latest rotation began

fileVars == <<backups, disk, born, stream, step, shift, last, line, buf, home, size, shutFor, faults,
              written, found>>

Lines  == 1..MaxLines
OnDisk(d) == {d[i] : i \in 0..backups} \ {0}
InHand == (last - BatchLines + 1)..last
Held(g) == Cardinality({l \in Lines : home[l] = g})

RotatingInit ==
    /\ backups \in BackupCounts
    /\ disk = [i \in 0..backups |-> IF i = 0 THEN 1 ELSE 0] /\ born = 1
    /\ stream = "open" /\ step = "idle" /\ shift = 0
    /\ last = 0 /\ line = 0 /\ buf = {} /\ home = [l \in Lines |-> 0] /\ size = 0
    /\ shutFor = FALSE /\ faults = 0 /\ written = {} /\ found = {}

----------------------------------------------------------------------------
(* System calls                                                            *)

\* open(path, "a"): the file that is there, or a new one.
OpenActive ==
    /\ stream' = "open"
    /\ IF disk[0] = 0
       THEN /\ born < MaxGens /\ born' = born + 1 /\ disk' = [disk EXCEPT ![0] = born + 1]
       ELSE UNCHANGED <<born, disk>>

\* The buffer reaches the active file.
Written(S) == home' = [l \in Lines |-> IF l \in S THEN disk[0] ELSE home[l]]

Fault == faults < MaxFaults /\ faults' = faults + 1

----------------------------------------------------------------------------
(* emit()                                                                  *)

\* _ensure_open, for a stream a rotation left shut.
BeginBatch ==
    /\ step = "idle" /\ ~shutFor /\ last + BatchLines <= MaxLines
    /\ last' = last + BatchLines /\ line' = last
    /\ \/ /\ stream = "open" /\ step' = "line"
          /\ UNCHANGED <<disk, born, stream, size, faults>>
       \/ /\ stream = "shut" /\ OpenActive /\ step' = "line"
          /\ size' = Held(disk'[0]) /\ UNCHANGED faults
       \/ /\ stream = "shut" /\ Fault /\ UNCHANGED <<disk, born, stream, size, step>>
    /\ UNCHANGED <<backups, found, shift, buf, home, shutFor, written>>

\* _should_rotate: the line would not fit, or the time has come (any time will do).
Full == FileBytes > 0 /\ size > 0 /\ size + 1 > FileBytes

\* The line is written as it is.
WriteLine ==
    /\ \/ step = "line" /\ line < last /\ ~Full
       \/ step = "write"
    /\ line' = line + 1 /\ buf' = buf \cup {line + 1} /\ size' = size + 1
    /\ step' = "line"
    /\ UNCHANGED <<backups, found, disk, born, stream, shift, last, home, shutFor, faults, written>>

\* The flush before a rotation, and the close that begins it.
BeginRotate ==
    /\ step = "line" /\ line < last
    /\ Written(buf) /\ buf' = {}
    /\ stream' = "shut" /\ step' = "shift" /\ shift' = backups - 1
    /\ found' = OnDisk(disk)
    /\ UNCHANGED <<backups, disk, born, last, line, size, shutFor, faults, written>>

\* Faulty variant: the backups are moved from the first to the last.
ShiftBackups_Ascending ==
    /\ step = "shift" /\ shift >= 1
    /\ LET i == backups - shift
       IN  IF disk[i] = 0 \/ disk[i + 1] = 0
           THEN shift' = shift - 1 /\ disk' = [disk EXCEPT ![i + 1] = IF disk[i] = 0 THEN @ ELSE disk[i],
                                                           ![i] = 0]
           ELSE disk' = [disk EXCEPT ![i + 1] = 0] /\ UNCHANGED shift
    /\ UNCHANGED <<backups, found, born, stream, step, last, line, buf, home, size, shutFor, faults,
                   written>>

\* _rotate's loop, from the last backup to the first: the name above is freed, then taken.
ShiftBackups ==
    /\ step = "shift" /\ shift >= 1
    /\ \/ /\ disk[shift] = 0
          /\ shift' = shift - 1 /\ UNCHANGED disk
       \/ /\ disk[shift] # 0 /\ disk[shift + 1] # 0
          /\ disk' = [disk EXCEPT ![shift + 1] = 0] /\ UNCHANGED shift
       \/ /\ disk[shift] # 0 /\ disk[shift + 1] = 0
          /\ disk' = [disk EXCEPT ![shift + 1] = disk[shift], ![shift] = 0]
          /\ shift' = shift - 1
    /\ UNCHANGED <<backups, found, born, stream, step, last, line, buf, home, size, shutFor, faults,
                   written>>

\* Then the active file: it becomes backup 1, or is removed where no backups are kept.
ShiftActive ==
    /\ step = "shift" /\ shift < 1
    /\ \/ /\ backups > 0 /\ disk[1] # 0
          /\ disk' = [disk EXCEPT ![1] = 0] /\ UNCHANGED step
       \/ /\ backups > 0 /\ disk[1] = 0
          /\ disk' = [disk EXCEPT ![1] = disk[0], ![0] = 0] /\ step' = "reopen"
       \/ /\ backups = 0
          /\ disk' = [disk EXCEPT ![0] = 0] /\ step' = "reopen"
    /\ UNCHANGED <<backups, found, born, stream, shift, last, line, buf, home, size, shutFor, faults,
                   written>>

Reopen ==
    /\ step = "reopen"
    /\ OpenActive
    /\ size' = 0 /\ step' = "write"
    /\ UNCHANGED <<backups, found, shift, last, line, buf, home, shutFor, faults, written>>

\* An OSError in _rotate: none of the calls after it is made.
RotateFails ==
    /\ step \in {"shift", "reopen"} /\ Fault
    /\ step' = "recover"
    /\ UNCHANGED <<backups, found, disk, born, stream, shift, last, line, buf, home, size, shutFor,
                   written>>

\* _rotate_or_continue: the file is opened again and the line goes to it; if that fails too the
\* emit() raises, with the stream shut.
Recover ==
    /\ step = "recover"
    /\ \/ /\ OpenActive /\ size' = Held(disk'[0]) /\ step' = "write" /\ UNCHANGED faults
       \/ /\ Fault /\ step' = "idle" /\ UNCHANGED <<disk, born, stream, size>>
    /\ UNCHANGED <<backups, found, shift, last, line, buf, home, shutFor, written>>

\* The flush that ends an emit().
EndBatch ==
    /\ step = "line" /\ line = last
    /\ Written(buf) /\ buf' = {}
    /\ step' = "idle" /\ written' = written \cup InHand
    /\ UNCHANGED <<backups, found, disk, born, stream, shift, last, line, size, shutFor, faults>>

\* A write or a flush fails: the emit() raises, a part of the buffer is in the file, the rest waits
\* in the stream.
WriteFails ==
    /\ step = "line" /\ Fault
    /\ \E S \in SUBSET buf : Written(S) /\ buf' = buf \ S
    /\ step' = "idle"
    /\ UNCHANGED <<backups, found, disk, born, stream, shift, last, line, size, shutFor, written>>

\* close(): under the lock, and _closed before anything that may fail.  The flush of a stream that a
\* failed rotation left shut raises, and so may that of an open one.
CloseFile ==
    /\ step = "idle" /\ ~shutFor
    /\ shutFor' = TRUE
    /\ \/ stream = "open" /\ Written(buf) /\ buf' = {} /\ stream' = "shut" /\ UNCHANGED faults
       \/ stream = "shut" /\ UNCHANGED <<buf, home, stream, faults>>
       \/ /\ stream = "open" /\ Fault /\ UNCHANGED stream
          /\ \E S \in SUBSET buf : Written(S) /\ buf' = buf \ S
    /\ UNCHANGED <<backups, found, disk, born, step, shift, last, line, size, written>>

\* The process dies, and another opens the file.
CrashRestart ==
    /\ ~shutFor /\ Fault /\ OpenActive
    /\ buf' = {} /\ step' = "idle" /\ size' = Held(disk'[0])
    /\ UNCHANGED <<backups, found, shift, last, line, home, shutFor, written>>

RotatingNext ==
    \/ BeginBatch \/ WriteLine \/ BeginRotate \/ ShiftBackups \/ ShiftActive \/ Reopen
    \/ RotateFails \/ Recover \/ EndBatch \/ WriteFails \/ CloseFile \/ CrashRestart

RotatingSpec == RotatingInit /\ [][RotatingNext]_fileVars

----------------------------------------------------------------------------
(* Properties                                                              *)

\* The names keep the order of age through every partial rotation, and every line of an emit() that
\* returned was written to a file.  A rotation removes one file at most, and then the oldest that
\* was there when it began, whether it ends, fails or dies half-way; so, but for one for each failing
\* call and each crash, the youngest backup_count files are there.  (_rotate, _rotate_or_continue.)
RotationKeepsLines ==
    /\ \A i, j \in 0..backups : i < j /\ disk[i] # 0 /\ disk[j] # 0 => disk[i] > disk[j]
    /\ \A l \in written : home[l] # 0
    /\ \A g \in found \ OnDisk(disk), h \in found : g <= h
    /\ \A g \in 1..born : g > born - backups + faults => g \in OnDisk(disk)

\* What _rotate_or_continue says of a rotation that failed: "Absorbing it costs nothing", "The
\* attempts are cheap and lose nothing", "nothing is dropped ... a failed rotation is not a loss".
FailedRotationLosesNothing ==
    step = "recover" => \A l \in Lines : home[l] \in found => home[l] \in OnDisk(disk)

=============================================================================
