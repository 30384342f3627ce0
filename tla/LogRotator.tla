----------------------------- MODULE LogRotator -------------------------------
(***************************************************************************)
(* The rotating log file: utils/logger/rotator.go.                         *)
(*                                                                         *)
(* Every Write holds the rotator's mutex from its first to its last        *)
(* statement, so a Write, with the rotation it may start, is one step; the *)
(* file system decides in it whether renaming and opening succeed.  A      *)
(* rotation renames the log to a name that tells the time to the second.   *)
(*                                                                         *)
(* Data abstraction.  A log line is a number, in the order of the writes;  *)
(* a file is the set of lines in it, their length together, and the line   *)
(* whose write touched it last (its modification time).                    *)
(***************************************************************************)
EXTENDS Integers, FiniteSets

CONSTANTS
    Lengths,     \* lengths of log lines
    MaxSize,     \* maxSize
    MaxBackups,  \* maxBackups
    MaxTime,     \* bound: the last second
    MaxWrites,   \* bound: the number of writes
    None         \* no such file

Seconds == 1 .. MaxTime
Lines == 1 .. MaxWrites
File == [lines : SUBSET Lines, bytes : Nat, touched : Nat]

ASSUME RotatorAssumption ==
    /\ Lengths \subseteq Nat
    /\ MaxSize \in Nat
    /\ MaxBackups \in Nat
    /\ MaxTime \in Nat \ {0}
    /\ MaxWrites \in Nat
    /\ None \notin File

VARIABLES
    current,  \* the log file
    backups,  \* the files a rotation left: the second in their name to a file
    opened,   \* LogRotator.file # nil
    size,     \* LogRotator.size
    second,   \* the clock, in seconds
    written,  \* number of lines written so far: names the next one
    pruned,   \* history: the lines in files that pruneBackups removed
    covered,  \* history: the lines in backups a later backup was renamed onto
    unpruned  \* history: rotations cut short since the last one that pruned

vars == <<current, backups, opened, size, second, written, pruned, covered, unpruned>>

EmptyFile(line) == [lines |-> {}, bytes |-> 0, touched |-> line]

\* The lines in a file, if it is there.
LinesOf(file) == IF file = None THEN {} ELSE file.lines

Stored == {t \in Seconds : backups[t] # None}

-----------------------------------------------------------------------------
(* open *)

\* The size open leaves in the rotator: Stat's answer if there is a file, and
\* what was there before if there is none.
SizeAfterOpen(file, before) == IF file = None THEN before ELSE file.bytes

\* Mutant of FileAfterOpen: the file is truncated.
FileAfterOpenTruncated(file, line) == EmptyFile(line)

\* O_CREATE | O_APPEND.
FileAfterOpen(file, line) == IF file = None THEN EmptyFile(line) ELSE file

-----------------------------------------------------------------------------
(* pruneBackups *)

\* The number of backups that have to go.
Excess(files) == Cardinality({t \in Seconds : files[t] # None}) - MaxBackups

\* Mutant of Doomed: the newest backups go.
DoomedNewest(files) ==
    LET there == {t \in Seconds : files[t] # None}
    IN  {gone \in SUBSET there :
           /\ Cardinality(gone) = Excess(files)
           /\ \A t \in gone, u \in there \ gone : files[t].touched >= files[u].touched}

\* The backups it may choose: those touched last stay, ties are broken any way.
Doomed(files) ==
    LET there == {t \in Seconds : files[t] # None}
    IN  {gone \in SUBSET there :
           /\ Cardinality(gone) = Excess(files)
           /\ \A t \in gone, u \in there \ gone : files[t].touched <= files[u].touched}

Prune(files) ==
    IF Excess(files) <= 0 THEN backups' = files /\ pruned' = pruned
    ELSE \E gone \in Doomed(files) :
           /\ backups' = [t \in Seconds |-> IF t \in gone THEN None ELSE files[t]]
           /\ pruned' = pruned \cup UNION {files[t].lines : t \in gone}

-----------------------------------------------------------------------------
(* Write *)

\* The line goes to the end of the file, and into the count.
Append(line, n, file, before) ==
    /\ current' = [lines |-> file.lines \cup {line}, bytes |-> file.bytes + n,
                   touched |-> line]
    /\ size' = before + n
    /\ opened' = TRUE

NextLine ==
    /\ written < MaxWrites
    /\ written' = written + 1

NeedsRotation(n) == size + n > MaxSize

\* No rotation; the file is opened first if it is not open.
WritePlain(n) ==
    /\ NextLine
    /\ ~NeedsRotation(n)
    /\ Append(written', n, FileAfterOpen(current, written'),
              IF opened THEN size ELSE SizeAfterOpen(current, size))
    /\ UNCHANGED <<backups, second, pruned, covered, unpruned>>

\* Rename: onto the backup of the same second, if there is one.
Rename ==
    /\ current # None
    /\ covered' = covered \cup LinesOf(backups[second])

\* The backups after it.
Aside == [backups EXCEPT ![second] = current]

\* The log is closed, renamed and created anew, old backups are removed, and
\* the line goes to the new file.
WriteRotating(n) ==
    /\ NextLine
    /\ NeedsRotation(n)
    /\ Rename
    /\ Prune(Aside)
    /\ unpruned' = 0
    /\ Append(written', n, FileAfterOpen(None, written'), SizeAfterOpen(None, size))
    /\ UNCHANGED second

\* Renamed, and the new log cannot be created at first: nothing is pruned, and
\* Write itself opens it.
WriteReopening(n) ==
    /\ NextLine
    /\ NeedsRotation(n)
    /\ Rename
    /\ backups' = Aside
    /\ unpruned' = unpruned + 1
    /\ Append(written', n, FileAfterOpen(None, written'), SizeAfterOpen(None, size))
    /\ UNCHANGED <<second, pruned>>

\* Renamed, and the log cannot be created at all: an error for the caller.
WriteFails(n) ==
    /\ NeedsRotation(n)
    /\ Rename
    /\ backups' = Aside
    /\ unpruned' = unpruned + 1
    /\ current' = None
    /\ opened' = FALSE
    /\ UNCHANGED <<size, second, written, pruned>>

\* Rename fails: the log is opened again, and the line goes to its end.
WriteRenameFails(n) ==
    /\ NextLine
    /\ NeedsRotation(n)
    /\ Append(written', n, FileAfterOpen(current, written'), SizeAfterOpen(current, size))
    /\ UNCHANGED <<backups, second, pruned, covered, unpruned>>

\* Rename fails and the log cannot be opened again: an error for the caller.
WriteRefused(n) ==
    /\ NeedsRotation(n)
    /\ opened' = FALSE
    /\ UNCHANGED <<current, backups, size, second, written, pruned, covered, unpruned>>

Write ==
    \E n \in Lengths :
        \/ WritePlain(n) \/ WriteRotating(n) \/ WriteRenameFails(n)
        \/ WriteReopening(n) \/ WriteFails(n) \/ WriteRefused(n)

\* Close.
Close ==
    /\ opened
    /\ opened' = FALSE
    /\ UNCHANGED <<current, backups, size, second, written, pruned, covered, unpruned>>

\* NewLogRotator in a new process, over the files there are.
Restart ==
    /\ current' = FileAfterOpen(current, written)
    /\ size' = SizeAfterOpen(current, 0)
    /\ opened' = TRUE
    /\ UNCHANGED <<backups, second, written, pruned, covered, unpruned>>

\* A second passes.
Tick ==
    /\ second < MaxTime
    /\ second' = second + 1
    /\ UNCHANGED <<current, backups, opened, size, written, pruned, covered, unpruned>>

-----------------------------------------------------------------------------

Init ==
    /\ current = EmptyFile(0)
    /\ backups = [t \in Seconds |-> None]
    /\ opened = TRUE
    /\ size = 0
    /\ second = 1
    /\ written = 0
    /\ pruned = {}
    /\ covered = {}
    /\ unpruned = 0

Next == Write \/ Close \/ Restart \/ Tick

Spec == Init /\ [][Next]_vars

-----------------------------------------------------------------------------
(* Properties *)

\* Types; a log that is open is there (rotator.go:51-57).
TypeOK ==
    /\ current \in File \cup {None}
    /\ backups \in [Seconds -> File \cup {None}]
    /\ opened \in BOOLEAN
    /\ opened => current # None
    /\ size \in Nat
    /\ second \in Seconds
    /\ written \in 0 .. MaxWrites
    /\ pruned \in SUBSET Lines
    /\ covered \in SUBSET Lines
    /\ unpruned \in Nat

Kept ==
    {line \in Lines : \/ line \in LinesOf(current)
                     \/ \E t \in Seconds : line \in LinesOf(backups[t])}

\* Every line Write reported as written is in a file, or was in a backup that
\* was pruned, or in one that another backup of the same second replaced.
LostOnlyTwoWays == 1 .. written \subseteq Kept \cup pruned \cup covered

\* The log never grows unnoticed: the rotator knows of at least the bytes that
\* are in the file, however often renaming failed or the process restarted.
SizeCoversFile == opened => current.bytes <= size

\* Backups are removed oldest first: a line that is gone by pruning is older
\* than every line that is left in a backup.
PrunedOldestFirst ==
    \A line \in pruned, t \in Seconds :
        \A other \in LinesOf(backups[t]) : line < other

\* There are no more than maxBackups backups, but for those left by rotations
\* that were cut short since the last complete one.
BackupsBounded == Cardinality(Stored) <= MaxBackups + unpruned

\* What the documentation says of losing lines ("Deletes oldest historical
\* backups beyond maxBackups limit", conductor/archive/structured-logging/spec.md:32).
LostOnlyByPruning == 1 .. written \subseteq Kept \cup pruned

\* The log is renamed away in this step, and a line written to a new one.
Rotated ==
    /\ LinesOf(current) # {}
    /\ LinesOf(current') # {}
    /\ LinesOf(current) \cap LinesOf(current') = {}

\* "Rotates when size exceeds limit" (spec.md:31 in the same place): the log is
\* renamed away only when the line to come does not fit into it.
RotatesWhenFull == [][Rotated => current.bytes + current'.bytes > MaxSize]_vars

=============================================================================
