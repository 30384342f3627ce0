--------------------------- MODULE LogRotatorProofs ---------------------------
(***************************************************************************)
(* Proofs about LogRotator, for every size limit, number of backups and    *)
(* length of lines:                                                        *)
(*   TypeCorrect     every variable keeps its type                         *)
(*   NeverUnnoticed  the rotator knows of every byte in the file           *)
(*   LossAccounted   lines vanish by pruning or under a same-second rename *)
(*   OldestGoFirst   what was pruned is older than what is left            *)
(***************************************************************************)
EXTENDS LogRotator, TLAPS

USE RotatorAssumption

-----------------------------------------------------------------------------
(* Lemmas about the operators *)

Files == [Seconds -> File \cup {None}]

LEMMA OpenType ==
    ASSUME NEW file \in File \cup {None}, NEW line \in Nat, NEW before \in Nat
    PROVE  /\ FileAfterOpen(file, line) \in File
           /\ SizeAfterOpen(file, before) \in Nat
           /\ SizeAfterOpen(file, before) >= FileAfterOpen(file, line).bytes
           /\ LinesOf(file) = FileAfterOpen(file, line).lines
           /\ LinesOf(file) \subseteq Lines
BY DEF FileAfterOpen, SizeAfterOpen, EmptyFile, File, LinesOf

\* The file and the count after a line of length n.
LEMMA AppendFacts ==
    ASSUME NEW line \in Lines, NEW n \in Lengths, NEW file \in File, NEW before \in Nat,
           Append(line, n, file, before)
    PROVE  /\ current' \in File /\ current' # None
           /\ size' \in Nat
           /\ opened' = TRUE
           /\ LinesOf(current') = file.lines \cup {line}
           /\ file.bytes <= before => current'.bytes <= size'
<1>1. n \in Nat /\ file.bytes \in Nat /\ file.lines \subseteq Lines /\ line \in Nat
  BY DEF File, Lines
<1>2. current' = [lines |-> file.lines \cup {line}, bytes |-> file.bytes + n, touched |-> line]
  BY DEF Append
<1>3. current' \in File
  BY <1>1, <1>2 DEF File
<1>4. current' # None
  BY <1>3
<1>5. current'.bytes = file.bytes + n /\ current'.lines = file.lines \cup {line}
  BY <1>2
<1>6. size' = before + n /\ opened' = TRUE
  BY DEF Append
<1>. QED
  BY <1>1, <1>3, <1>4, <1>5, <1>6 DEF LinesOf

\* Pruning takes whole files, and remembers the lines in them.
LEMMA PruneFacts ==
    ASSUME NEW files \in Files, pruned \in SUBSET Lines, Prune(files)
    PROVE  /\ backups' \in Files
           /\ pruned' \in SUBSET Lines
           /\ pruned \subseteq pruned'
           /\ \A t \in Seconds : LinesOf(files[t]) \subseteq LinesOf(backups'[t]) \cup pruned'
<1>1. CASE Excess(files) <= 0
  BY <1>1 DEF Prune
<1>2. CASE ~(Excess(files) <= 0)
  <2>1. PICK gone \in Doomed(files) :
          /\ backups' = [t \in Seconds |-> IF t \in gone THEN None ELSE files[t]]
          /\ pruned' = pruned \cup UNION {files[t].lines : t \in gone}
    BY <1>2, Zenon DEF Prune
  <2>2. \A t \in gone : t \in Seconds /\ files[t] # None
    BY DEF Doomed
  <2>3. \A t \in gone : files[t].lines \subseteq Lines
    BY <2>2 DEF Files, File
  <2>4. backups' \in Files /\ pruned' \in SUBSET Lines /\ pruned \subseteq pruned'
    BY <2>1, <2>3 DEF Files
  <2>5. ASSUME NEW t \in Seconds
        PROVE  LinesOf(files[t]) \subseteq LinesOf(backups'[t]) \cup pruned'
    <3>1. CASE t \in gone
      BY <2>1, <2>2, <3>1 DEF LinesOf
    <3>2. CASE t \notin gone
      BY <2>1, <3>2
    <3>. QED
      BY <3>1, <3>2
  <2>. QED
    BY <2>4, <2>5
<1>. QED
  BY <1>1, <1>2

\* Renaming the log sets its lines aside, and covers those of the same second.
LEMMA RenameFacts ==
    ASSUME TypeOK, Rename
    PROVE  /\ Aside \in Files
           /\ covered' \in SUBSET Lines
           /\ covered \subseteq covered'
           /\ LinesOf(current) \subseteq LinesOf(Aside[second])
           /\ \A t \in Seconds : LinesOf(backups[t]) \subseteq LinesOf(Aside[t]) \cup covered'
<1>1. LinesOf(backups[second]) \subseteq Lines
  BY DEF TypeOK, LinesOf, File
<1>2. Aside[second] = current /\ \A t \in Seconds \ {second} : Aside[t] = backups[t]
  BY DEF Aside, TypeOK
<1>3. covered' = covered \cup LinesOf(backups[second])
  BY DEF Rename
<1>4. Aside \in Files
  BY DEF Aside, TypeOK, Files
<1>. QED
  BY <1>1, <1>2, <1>3, <1>4 DEF TypeOK

-----------------------------------------------------------------------------
(* The inductive invariant: types, sizes and lines together *)

IInv == TypeOK /\ SizeCoversFile /\ LostOnlyTwoWays

\* What a write of one line has to establish.
LEMMA WriteStep ==
    ASSUME IInv, NextLine, NEW n \in Lengths, NEW file \in File, NEW before \in Nat,
           Append(written', n, file, before), file.bytes <= before,
           backups' \in Files, pruned' \in SUBSET Lines, covered' \in SUBSET Lines,
           second' = second, unpruned' \in Nat,
           \A line \in Kept \cup pruned \cup covered :
             \/ line \in file.lines \/ line \in pruned' \/ line \in covered'
             \/ \E t \in Seconds : line \in LinesOf(backups'[t])
    PROVE  IInv'
<1>1. written' \in Lines /\ written' = written + 1 /\ written \in Nat /\ written' \in 0 .. MaxWrites
  BY DEF IInv, TypeOK, NextLine, Lines
<1>2. /\ current' \in File /\ current' # None /\ size' \in Nat /\ opened' = TRUE
      /\ LinesOf(current') = file.lines \cup {written'}
      /\ current'.bytes <= size'
  BY <1>1, AppendFacts
<1>3. TypeOK'
  BY <1>1, <1>2 DEF IInv, TypeOK, Files
<1>4. 1 .. written' = 1 .. written \cup {written'}
  BY <1>1
<1>5. ASSUME NEW line \in 1 .. written'
      PROVE  line \in (Kept \cup pruned \cup covered)'
  <2>1. CASE line = written'
    BY <1>1, <1>2, <2>1 DEF Kept
  <2>2. CASE line \in 1 .. written
    <3>1. line \in Kept \cup pruned \cup covered /\ line \in Lines
      BY <1>1, <2>2 DEF IInv, LostOnlyTwoWays, Lines
    <3>. QED
      BY <1>2, <3>1 DEF Kept
  <2>. QED
    BY <1>4, <2>1, <2>2
<1>. QED
  BY <1>2, <1>3, <1>5 DEF IInv, SizeCoversFile, LostOnlyTwoWays

LEMMA NextIInv == IInv /\ [Next]_vars => IInv'
<1> SUFFICES ASSUME IInv, [Next]_vars PROVE IInv'
  OBVIOUS
<1>0. /\ TypeOK /\ current \in File \cup {None} /\ size \in Nat /\ written \in Nat
      /\ backups \in Files /\ pruned \in SUBSET Lines /\ covered \in SUBSET Lines
      /\ unpruned \in Nat
  BY DEF IInv, TypeOK, Files
<1>a. NextLine => written' \in Nat
  BY <1>0 DEF NextLine
<1>1. ASSUME NEW n \in Lengths, WritePlain(n) PROVE IInv'
  <2> DEFINE file == FileAfterOpen(current, written')
             before == IF opened THEN size ELSE SizeAfterOpen(current, size)
  <2>1. /\ NextLine /\ Append(written', n, file, before)
        /\ UNCHANGED <<backups, second, pruned, covered, unpruned>>
    BY <1>1 DEF WritePlain
  <2>2. file \in File /\ file.lines = LinesOf(current)
    BY <1>0, <1>a, <2>1, OpenType
  <2>3. before \in Nat /\ file.bytes <= before
    <3>1. CASE opened
      <4>1. file = current /\ before = size
        BY <1>0, <3>1 DEF FileAfterOpen, TypeOK
      <4>. QED
        BY <1>0, <3>1, <4>1 DEF IInv, SizeCoversFile
    <3>2. CASE ~opened
      <4>1. before = SizeAfterOpen(current, size)
        BY <3>2
      <4>2. SizeAfterOpen(current, size) \in Nat /\ SizeAfterOpen(current, size) >= file.bytes
        BY <1>0, <1>a, <2>1, OpenType
      <4>3. file.bytes \in Nat
        BY <2>2 DEF File
      <4> HIDE DEF file, before
      <4>. QED
        BY <4>1, <4>2, <4>3
    <3>. QED
      BY <3>1, <3>2
  <2>4. \A line \in Kept \cup pruned \cup covered :
          \/ line \in file.lines \/ line \in pruned' \/ line \in covered'
          \/ \E t \in Seconds : line \in LinesOf(backups'[t])
    BY <2>1, <2>2 DEF Kept
  <2> HIDE DEF file, before
  <2>. QED
    BY <1>0, <2>1, <2>2, <2>3, <2>4, WriteStep
<1>2. ASSUME NEW n \in Lengths, WriteRotating(n) PROVE IInv'
  <2> DEFINE file == FileAfterOpen(None, written')
             before == SizeAfterOpen(None, size)
  <2>1. /\ NextLine /\ Rename /\ Prune(Aside) /\ Append(written', n, file, before)
        /\ second' = second /\ unpruned' \in Nat
    BY <1>2 DEF WriteRotating
  <2>2. file \in File /\ file.lines = {} /\ before \in Nat /\ file.bytes <= before
    BY <1>0, <1>a, <2>1 DEF FileAfterOpen, SizeAfterOpen, EmptyFile, File
  <2>3. /\ Aside \in Files /\ covered' \in SUBSET Lines /\ covered \subseteq covered'
        /\ LinesOf(current) \subseteq LinesOf(Aside[second])
        /\ \A t \in Seconds : LinesOf(backups[t]) \subseteq LinesOf(Aside[t]) \cup covered'
    BY <1>0, <2>1, RenameFacts
  <2>4. /\ backups' \in Files /\ pruned' \in SUBSET Lines /\ pruned \subseteq pruned'
        /\ \A t \in Seconds : LinesOf(Aside[t]) \subseteq LinesOf(backups'[t]) \cup pruned'
    BY <1>0, <2>1, <2>3, PruneFacts
  <2>5. second \in Seconds
    BY <1>0 DEF TypeOK
  <2>6. \A line \in Kept \cup pruned \cup covered :
          \/ line \in file.lines \/ line \in pruned' \/ line \in covered'
          \/ \E t \in Seconds : line \in LinesOf(backups'[t])
    BY <2>3, <2>4, <2>5 DEF Kept
  <2> HIDE DEF file, before
  <2>. QED
    BY <2>1, <2>2, <2>3, <2>4, <2>6, WriteStep
<1>3. ASSUME NEW n \in Lengths, WriteReopening(n) PROVE IInv'
  <2> DEFINE file == FileAfterOpen(None, written')
             before == SizeAfterOpen(None, size)
  <2>1. /\ NextLine /\ Rename /\ backups' = Aside /\ Append(written', n, file, before)
        /\ second' = second /\ unpruned' \in Nat /\ pruned' = pruned
    BY <1>0, <1>3 DEF WriteReopening
  <2>2. file \in File /\ file.lines = {} /\ before \in Nat /\ file.bytes <= before
    BY <1>0, <1>a, <2>1 DEF FileAfterOpen, SizeAfterOpen, EmptyFile, File
  <2>3. /\ backups' \in Files /\ covered' \in SUBSET Lines /\ covered \subseteq covered'
        /\ LinesOf(current) \subseteq LinesOf(backups'[second])
        /\ \A t \in Seconds : LinesOf(backups[t]) \subseteq LinesOf(backups'[t]) \cup covered'
    BY <1>0, <2>1, RenameFacts
  <2>5. second \in Seconds
    BY <1>0 DEF TypeOK
  <2>6. \A line \in Kept \cup pruned \cup covered :
          \/ line \in file.lines \/ line \in pruned' \/ line \in covered'
          \/ \E t \in Seconds : line \in LinesOf(backups'[t])
    BY <2>1, <2>3, <2>5 DEF Kept
  <2> HIDE DEF file, before
  <2>. QED
    BY <1>0, <2>1, <2>2, <2>3, <2>6, WriteStep
<1>4. ASSUME NEW n \in Lengths, WriteFails(n) PROVE IInv'
  <2>1. /\ Rename /\ backups' = Aside /\ unpruned' \in Nat /\ current' = None /\ opened' = FALSE
        /\ UNCHANGED <<size, second, written, pruned>>
    BY <1>0, <1>4 DEF WriteFails
  <2>2. /\ backups' \in Files /\ covered' \in SUBSET Lines /\ covered \subseteq covered'
        /\ LinesOf(current) \subseteq LinesOf(backups'[second])
        /\ \A t \in Seconds : LinesOf(backups[t]) \subseteq LinesOf(backups'[t]) \cup covered'
    BY <1>0, <2>1, RenameFacts
  <2>3. TypeOK'
    BY <1>0, <2>1, <2>2 DEF TypeOK, Files
  <2>4. second \in Seconds
    BY <1>0 DEF TypeOK
  <2>5. LostOnlyTwoWays'
    BY <2>1, <2>2, <2>4 DEF IInv, LostOnlyTwoWays, Kept
  <2>. QED
    BY <2>1, <2>3, <2>5 DEF IInv, SizeCoversFile
<1>5. ASSUME NEW n \in Lengths, WriteRenameFails(n) PROVE IInv'
  <2> DEFINE file == FileAfterOpen(current, written')
             before == SizeAfterOpen(current, size)
  <2>1. /\ NextLine /\ Append(written', n, file, before)
        /\ UNCHANGED <<backups, second, pruned, covered, unpruned>>
    BY <1>5 DEF WriteRenameFails
  <2>2. file \in File /\ file.lines = LinesOf(current) /\ before \in Nat /\ before >= file.bytes
    BY <1>0, <1>a, <2>1, OpenType
  <2>3. file.bytes \in Nat
    BY <2>2 DEF File
  <2>4. \A line \in Kept \cup pruned \cup covered :
          \/ line \in file.lines \/ line \in pruned' \/ line \in covered'
          \/ \E t \in Seconds : line \in LinesOf(backups'[t])
    BY <2>1, <2>2 DEF Kept
  <2> HIDE DEF file, before
  <2>5. file.bytes <= before
    BY <2>2, <2>3
  <2>. QED
    BY <1>0, <2>1, <2>2, <2>4, <2>5, WriteStep
<1>6. ASSUME NEW n \in Lengths, WriteRefused(n) PROVE IInv'
  BY <1>6 DEF WriteRefused, IInv, TypeOK, SizeCoversFile, LostOnlyTwoWays, Kept
<1>7. CASE Close
  BY <1>7 DEF Close, IInv, TypeOK, SizeCoversFile, LostOnlyTwoWays, Kept
<1>8. CASE Restart
  <2>1. /\ current' = FileAfterOpen(current, written) /\ size' = SizeAfterOpen(current, 0)
        /\ opened' = TRUE
        /\ UNCHANGED <<backups, second, written, pruned, covered, unpruned>>
    BY <1>8 DEF Restart
  <2>2. current' \in File /\ size' \in Nat /\ size' >= current'.bytes
        /\ current'.lines = LinesOf(current)
    BY <1>0, <2>1, OpenType
  <2>3. current' # None /\ current'.bytes \in Nat
    BY <2>2 DEF File
  <2>4. LinesOf(current') = LinesOf(current)
    BY <2>2, <2>3 DEF LinesOf
  <2>5. TypeOK'
    BY <1>0, <2>1, <2>2, <2>3 DEF TypeOK
  <2>. QED
    BY <2>1, <2>2, <2>3, <2>4, <2>5 DEF IInv, SizeCoversFile, LostOnlyTwoWays, Kept
<1>9. CASE Tick
  <2>1. second' \in Seconds
    BY <1>0, <1>9 DEF Tick, TypeOK, Seconds
  <2>. QED
    BY <1>9, <2>1 DEF Tick, IInv, TypeOK, SizeCoversFile, LostOnlyTwoWays, Kept
<1>10. CASE UNCHANGED vars
  BY <1>10 DEF vars, IInv, TypeOK, SizeCoversFile, LostOnlyTwoWays, Kept
<1>. QED
  BY <1>1, <1>2, <1>3, <1>4, <1>5, <1>6, <1>7, <1>8, <1>9, <1>10 DEF Next, Write

LEMMA InitIInv == Init => IInv
<1> SUFFICES ASSUME Init PROVE IInv
  OBVIOUS
<1>1. EmptyFile(0) \in File /\ EmptyFile(0).bytes = 0
  BY DEF EmptyFile, File
<1>2. current # None
  BY <1>1 DEF Init
<1>3. 1 \in Seconds /\ 1 .. written = {}
  BY DEF Init, Seconds
<1>. QED
  BY <1>1, <1>2, <1>3 DEF Init, IInv, TypeOK, SizeCoversFile, LostOnlyTwoWays

LEMMA Invariance == Spec => []IInv
BY InitIInv, NextIInv, PTL DEF Spec

\* Every variable keeps its type; an open log file exists.
THEOREM TypeCorrect == Spec => []TypeOK
<1>1. IInv => TypeOK
  BY DEF IInv
<1>. QED
  BY <1>1, Invariance, PTL

\* The size the rotator believes in is never below the size of the open file, so
\* the file cannot outgrow the limit unnoticed; not after a failed rename, a
\* failed open, a Close or a restart either.
THEOREM NeverUnnoticed == Spec => []SizeCoversFile
<1>1. IInv => SizeCoversFile
  BY DEF IInv
<1>. QED
  BY <1>1, Invariance, PTL

\* Every line Write accepted is in a file, was pruned with the backup it was in,
\* or was in a backup that the next rotation of the same second replaced.
THEOREM LossAccounted == Spec => []LostOnlyTwoWays
<1>1. IInv => LostOnlyTwoWays
  BY DEF IInv
<1>. QED
  BY <1>1, Invariance, PTL

-----------------------------------------------------------------------------
(* Oldest first *)

Before(A, B) == \A i \in A, j \in B : i < j

\* The modification time of a file with lines in it is that of its last line.
Recent(file) ==
    LinesOf(file) # {} =>
        file.touched \in LinesOf(file) /\ \A line \in LinesOf(file) : line <= file.touched

\* The lines that were pruned are older than those in backups, which have the order
\* of the backups' modification times, and are older than those of the log.
Tidy(files, log, last, old) ==
    /\ \A line \in old \cup LinesOf(log) : line <= last
    /\ \A t \in Seconds : \A line \in LinesOf(files[t]) : line <= last
    /\ Recent(log) /\ \A t \in Seconds : Recent(files[t])
    /\ \A t, u \in Seconds :
         t # u /\ files[t] # None /\ files[u] # None /\ files[t].touched <= files[u].touched
           => Before(LinesOf(files[t]), LinesOf(files[u]))
    /\ \A t \in Seconds : Before(LinesOf(files[t]), LinesOf(log)) /\ Before(old, LinesOf(files[t]))
    /\ Before(old, LinesOf(log))

PruneInv == Tidy(backups, current, written, pruned)

\* The log becomes the latest backup.
LEMMA AsideTidy ==
    ASSUME TypeOK, PruneInv, Rename
    PROVE  Tidy(Aside, None, written, pruned)
<1>1. /\ Aside[second] = current /\ second \in Seconds
      /\ \A t \in Seconds \ {second} : Aside[t] = backups[t]
  BY DEF Aside, TypeOK
<1>2. current \in File /\ \A t \in Seconds : backups[t] # None => backups[t] \in File
  BY DEF TypeOK, Rename
<1>3. \A t \in Seconds : LinesOf(backups[t]) \subseteq Nat
  BY <1>2 DEF LinesOf, File, Lines
<1>4. LinesOf(current) \subseteq Nat /\ current.touched \in Nat
  BY <1>2 DEF LinesOf, File, Lines
<1>5. ASSUME NEW t \in Seconds, backups[t] # None, current.touched <= backups[t].touched
      PROVE  Before(LinesOf(current), LinesOf(backups[t]))
  <2> SUFFICES ASSUME NEW i \in LinesOf(current), NEW j \in LinesOf(backups[t])
               PROVE  FALSE
    BY DEF Before
  <2>1. backups[t].touched \in LinesOf(backups[t])
    BY DEF PruneInv, Tidy, Recent
  <2>2. i <= current.touched /\ backups[t].touched < i
    BY <2>1 DEF PruneInv, Tidy, Recent, Before
  <2>3. i \in Nat /\ backups[t].touched \in Nat
    BY <1>3, <1>4, <2>1
  <2>. QED
    BY <1>4, <1>5, <2>2, <2>3
<1>6. ASSUME NEW t \in Seconds, NEW u \in Seconds, t # u, Aside[t] # None, Aside[u] # None,
             Aside[t].touched <= Aside[u].touched
      PROVE  Before(LinesOf(Aside[t]), LinesOf(Aside[u]))
  <2>1. CASE t = second
    BY <1>1, <1>5, <1>6, <2>1
  <2>2. CASE u = second
    BY <1>1, <1>6, <2>2 DEF PruneInv, Tidy
  <2>3. CASE t # second /\ u # second
    BY <1>1, <1>6, <2>3 DEF PruneInv, Tidy
  <2>. QED
    BY <2>1, <2>2, <2>3
<1>7. ASSUME NEW t \in Seconds
      PROVE  /\ \A line \in LinesOf(Aside[t]) : line <= written
             /\ Recent(Aside[t]) /\ Before(pruned, LinesOf(Aside[t]))
  BY <1>1 DEF PruneInv, Tidy
<1>8. LinesOf(None) = {}
  BY DEF LinesOf
<1>9. \A line \in pruned : line <= written
  BY DEF PruneInv, Tidy
<1>. QED
  BY <1>6, <1>7, <1>8, <1>9 DEF Tidy, Recent, Before

\* Those touched first go, and what is left is tidy.
LEMMA PruneTidy ==
    ASSUME NEW files \in Files, NEW last, Tidy(files, None, last, pruned), Prune(files)
    PROVE  Tidy(backups', None, last, pruned')
<1>1. CASE Excess(files) <= 0
  BY <1>1 DEF Prune
<1>2. CASE ~(Excess(files) <= 0)
  <2>1. PICK gone \in Doomed(files) :
          /\ backups' = [t \in Seconds |-> IF t \in gone THEN None ELSE files[t]]
          /\ pruned' = pruned \cup UNION {files[t].lines : t \in gone}
    BY <1>2, Zenon DEF Prune
  <2>2. \A t \in gone : t \in Seconds /\ files[t] # None
    BY DEF Doomed
  <2>3. \A t \in gone, u \in Seconds :
          u \notin gone /\ files[u] # None => files[t].touched <= files[u].touched
    BY DEF Doomed
  <2>4. \A t \in Seconds : backups'[t] = IF t \in gone THEN None ELSE files[t]
    BY <2>1
  <2>5. LinesOf(None) = {}
    BY DEF LinesOf
  <2>6. \A line \in pruned' : line \in pruned \/ \E t \in gone : line \in LinesOf(files[t])
    BY <2>1, <2>2 DEF LinesOf
  <2>7. ASSUME NEW u \in Seconds PROVE Before(pruned', LinesOf(backups'[u]))
    <3> SUFFICES ASSUME NEW i \in pruned', NEW j \in LinesOf(backups'[u]) PROVE i < j
      BY DEF Before
    <3>1. u \notin gone /\ files[u] # None /\ j \in LinesOf(files[u])
      BY <2>4, <2>5
    <3>2. CASE i \in pruned
      BY <3>1, <3>2 DEF Tidy, Before
    <3>3. CASE \E t \in gone : i \in LinesOf(files[t])
      <4>1. PICK t \in gone : i \in LinesOf(files[t])
        BY <3>3
      <4>2. t \in Seconds /\ t # u /\ files[t] # None /\ files[t].touched <= files[u].touched
        BY <2>2, <2>3, <3>1
      <4>3. Before(LinesOf(files[t]), LinesOf(files[u]))
        BY <3>1, <4>2 DEF Tidy
      <4>. QED
        BY <3>1, <4>1, <4>3 DEF Before
    <3>. QED
      BY <2>6, <3>2, <3>3
  <2>8. \A line \in pruned' : line <= last
    BY <2>2, <2>6 DEF Tidy
  <2>9. ASSUME NEW t \in Seconds
        PROVE  (\A line \in LinesOf(backups'[t]) : line <= last) /\ Recent(backups'[t])
    BY <2>4, <2>5 DEF Tidy, Recent
  <2>10. ASSUME NEW t \in Seconds, NEW u \in Seconds, t # u,
                backups'[t] # None, backups'[u] # None,
                backups'[t].touched <= backups'[u].touched
         PROVE  Before(LinesOf(backups'[t]), LinesOf(backups'[u]))
    <3>1. backups'[t] = files[t] /\ backups'[u] = files[u]
      BY <2>4, <2>10
    <3>. QED
      BY <2>10, <3>1 DEF Tidy
  <2>. QED
    BY <2>5, <2>7, <2>8, <2>9, <2>10 DEF Tidy, Recent, Before
<1>. QED
  BY <1>1, <1>2

\* The next line goes to the end of the log, or of the one that takes its place.
LEMMA AppendTidy ==
    ASSUME TypeOK, NEW log \in File \cup {None}, Tidy(backups', log, written, pruned'),
           backups' \in Files, pruned' \in SUBSET Lines,
           NextLine, NEW n \in Lengths, NEW file \in File, file.lines = LinesOf(log),
           NEW before \in Nat, Append(written', n, file, before)
    PROVE  PruneInv'
<1>1. written \in Nat /\ written' = written + 1 /\ written' \in Lines
  BY DEF TypeOK, NextLine, Lines
<1>2. /\ current' # None /\ current'.touched = written'
      /\ LinesOf(current') = LinesOf(log) \cup {written'}
  <2>1. current' # None /\ LinesOf(current') = LinesOf(log) \cup {written'}
    BY <1>1, AppendFacts
  <2>2. current'.touched = written'
    BY DEF Append
  <2>. QED
    BY <2>1, <2>2
<1>3. \A t \in Seconds : LinesOf(backups'[t]) \subseteq Nat
  BY DEF Files, File, LinesOf, Lines
<1>4. LinesOf(log) \subseteq Nat /\ pruned' \subseteq Nat
  BY DEF File, LinesOf, Lines
<1>5. ASSUME NEW A \in SUBSET Nat, \A line \in A : line <= written, Before(A, LinesOf(log))
      PROVE  Before(A, LinesOf(current')) /\ \A line \in A : line <= written'
  BY <1>1, <1>2, <1>5 DEF Before
<1>6. Recent(current') /\ \A line \in LinesOf(current') : line <= written'
  <2>1. \A line \in LinesOf(log) : line <= written
    BY DEF Tidy
  <2>2. \A line \in LinesOf(current') : line <= written'
    BY <1>1, <1>2, <1>4, <2>1
  <2>. QED
    BY <1>2, <2>2 DEF Recent
<1>7. Before(pruned', LinesOf(current')) /\ \A line \in pruned' : line <= written'
  BY <1>4, <1>5 DEF Tidy
<1>8. ASSUME NEW t \in Seconds
      PROVE  /\ Before(LinesOf(backups'[t]), LinesOf(current'))
             /\ \A line \in LinesOf(backups'[t]) : line <= written'
  BY <1>3, <1>5 DEF Tidy
<1>. QED
  BY <1>6, <1>7, <1>8 DEF PruneInv, Tidy

LEMMA NextPruneInv == IInv /\ PruneInv /\ [Next]_vars => PruneInv'
<1> SUFFICES ASSUME IInv, PruneInv, [Next]_vars PROVE PruneInv'
  OBVIOUS
<1>0. /\ TypeOK /\ current \in File \cup {None} /\ size \in Nat /\ written \in Nat
      /\ backups \in Files /\ pruned \in SUBSET Lines
  BY DEF IInv, TypeOK, Files
<1>a. NextLine => written' \in Nat
  BY <1>0 DEF NextLine
<1>b. /\ None \in File \cup {None} /\ LinesOf(None) = {}
      /\ \A line \in Nat : FileAfterOpen(None, line) \in File
      /\ \A line \in Nat : FileAfterOpen(None, line).lines = {}
  BY OpenType DEF LinesOf, FileAfterOpen, EmptyFile, File
<1>1. ASSUME NEW n \in Lengths, WritePlain(n) \/ WriteRenameFails(n) PROVE PruneInv'
  <2> DEFINE file == FileAfterOpen(current, written')
  <2>1. PICK before \in Nat :
          /\ NextLine /\ Append(written', n, file, before)
          /\ UNCHANGED <<backups, pruned>>
    <3>1. SizeAfterOpen(current, size) \in Nat
      BY <1>0, OpenType
    <3>. QED
      BY <1>0, <1>1, <3>1 DEF WritePlain, WriteRenameFails
  <2>2. file \in File /\ file.lines = LinesOf(current)
    BY <1>0, <1>a, <2>1, OpenType
  <2> HIDE DEF file
  <2>. QED
    BY <1>0, <2>1, <2>2, AppendTidy DEF PruneInv
<1>2. ASSUME NEW n \in Lengths, WriteRotating(n) \/ WriteReopening(n) PROVE PruneInv'
  <2> DEFINE file == FileAfterOpen(None, written')
             before == SizeAfterOpen(None, size)
  <2>1. /\ NextLine /\ Rename /\ Append(written', n, file, before)
        /\ \/ Prune(Aside)
           \/ pruned' = pruned /\ backups' = Aside
    <3>1. CASE WriteRotating(n)
      BY <3>1 DEF WriteRotating
    <3>2. CASE WriteReopening(n)
      BY <3>2 DEF WriteReopening
    <3>. QED
      BY <1>2, <3>1, <3>2
  <2>2. file \in File /\ file.lines = LinesOf(None) /\ before \in Nat
    BY <1>0, <1>a, <1>b, <2>1 DEF SizeAfterOpen
  <2>3. Aside \in Files /\ Tidy(Aside, None, written, pruned)
    BY <1>0, <2>1, RenameFacts, AsideTidy
  <2>4. Tidy(backups', None, written, pruned') /\ backups' \in Files /\ pruned' \in SUBSET Lines
    <3>1. CASE Prune(Aside)
      BY <1>0, <2>3, <3>1, PruneTidy, PruneFacts
    <3>2. CASE pruned' = pruned /\ backups' = Aside
      BY <1>0, <2>3, <3>2
    <3>. QED
      BY <2>1, <3>1, <3>2
  <2> HIDE DEF file, before
  <2>. QED
    BY <1>0, <1>b, <2>1, <2>2, <2>4, AppendTidy
<1>3. ASSUME NEW n \in Lengths, WriteFails(n) PROVE PruneInv'
  <2>1. Rename /\ backups' = Aside /\ current' = None /\ UNCHANGED <<written, pruned>>
    BY <1>3 DEF WriteFails
  <2>. QED
    BY <1>0, <2>1, AsideTidy DEF PruneInv
<1>4. CASE Restart
  <2>1. current' = FileAfterOpen(current, written) /\ UNCHANGED <<backups, written, pruned>>
    BY <1>4 DEF Restart
  <2>2. CASE current # None
    BY <2>1, <2>2 DEF FileAfterOpen, PruneInv
  <2>3. CASE current = None
    <3>1. current' \in File /\ current'.lines = {}
      BY <1>0, <1>b, <2>1, <2>3
    <3>2. LinesOf(current') = LinesOf(current)
      BY <1>b, <2>3, <3>1 DEF LinesOf
    <3>. QED
      BY <1>b, <2>1, <2>3, <3>2 DEF PruneInv, Tidy, Recent
  <2>. QED
    BY <2>2, <2>3
<1>5. ASSUME UNCHANGED <<current, backups, written, pruned>> PROVE PruneInv'
  BY <1>5 DEF PruneInv
<1>. QED
  BY <1>1, <1>2, <1>3, <1>4, <1>5
  DEF Next, Write, WriteRefused, Close, Tick, vars

\* Backups go oldest first: a line that was pruned is older than every line that is
\* left in a backup, although only the modification times of files are compared, some
\* of them equal, and after rotations that were cut short and restarts.
THEOREM OldestGoFirst == Spec => []PrunedOldestFirst
<1>1. Init => PruneInv
  BY DEF Init, PruneInv, Tidy, Recent, Before, LinesOf, EmptyFile
<1>2. Spec => []PruneInv
  BY <1>1, NextPruneInv, Invariance, PTL DEF Spec
<1>3. PruneInv => PrunedOldestFirst
  BY DEF PruneInv, Tidy, Before, PrunedOldestFirst
<1>. QED
  BY <1>2, <1>3, PTL

=============================================================================
