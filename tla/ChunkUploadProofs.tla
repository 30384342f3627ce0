-------------------------- MODULE ChunkUploadProofs --------------------------
(***************************************************************************)
(* Proofs about ChunkUpload, for both stores, any finite set of chunk      *)
(* numbers and any number of paths, handlers and calls:                    *)
(*   TypeCorrect      every variable keeps its type                        *)
(*   OrderKept        what is in a file is in the order of the chunks      *)
(*   SessionFound     a session is there until its asset is recorded       *)
(*   SessionsAgree    look-ups that see all agree on one session           *)
(*   RecordedWhole    a recorded asset has what was acknowledged, whole    *)
(***************************************************************************)
EXTENDS ChunkUpload, FiniteSetTheorems, TLAPS

USE ChunkAssumption

CommitOps == {"create", "append", "put", "forget", "stat", "record", "close"}

\* What a busy handler is busy with.
LEMMA BusyType ==
    ASSUME TypeOK, NEW r \in Requests
    PROVE  /\ Busy(r, "open") => req[r] \in Opening
           /\ Busy(r, "copy") => req[r] \in Copying
           /\ \A op \in CommitOps : Busy(r, op) => req[r] \in Committing
BY DEF TypeOK, Busy, CommitOps, Opening, Copying, Committing

LEMMA SubsetFinite ==
    ASSUME NEW S \in SUBSET Chunks
    PROVE  IsFiniteSet(S) /\ Cardinality(S) \in Nat
BY FS_Subset, FS_CardinalityType

LEMMA OrderedType ==
    ASSUME NEW S \in SUBSET Chunks, NEW s \in Ordered(S)
    PROVE  s \in Seq(Int) /\ Ascends(s) /\ \A i \in DOMAIN s : s[i] # Hole
<1>1. Cardinality(S) \in Nat
  BY SubsetFinite
<1> DEFINE n == Cardinality(S)
<1> HIDE DEF n
<1>2. s \in [1 .. n -> S] /\ n \in Nat /\ Ascends(s)
  BY <1>1 DEF Ordered, n
<1>3. s \in [1 .. n -> Int] /\ \A i \in DOMAIN s : s[i] \in Nat
  <2>1. S \subseteq Nat
    OBVIOUS
  <2>2. \A i \in 1 .. n : s[i] \in Nat
    BY <1>2, <2>1
  <2>. QED
    BY <1>2, <2>2
<1>. QED
  BY <1>2, <1>3 DEF Hole

LEMMA WrittenType ==
    ASSUME NEW f \in Seq(Int), NEW at \in Nat, NEW k \in Int
    PROVE  Written(f, at, k) \in Seq(Int)
<1> DEFINE n == IF at < Len(f) THEN Len(f) ELSE at + 1
           g == [i \in 1 .. n |->
                   IF i = at + 1 THEN k ELSE IF i <= Len(f) THEN f[i] ELSE Hole]
<1>1. n \in Nat /\ Len(f) \in Nat
  OBVIOUS
<1>2. ASSUME NEW i \in 1 .. n
      PROVE  (IF i = at + 1 THEN k ELSE IF i <= Len(f) THEN f[i] ELSE Hole) \in Int
  BY <1>1 DEF Hole
<1>3. g \in [1 .. n -> Int]
  BY <1>2
<1>4. g \in Seq(Int)
  <2> HIDE DEF n, g
  <2>. QED
    BY <1>1, <1>3
<1>. QED
  BY <1>4 DEF Written

-----------------------------------------------------------------------------
(* Type correctness *)

ReqTypeOK ==
    /\ req \in [Requests -> Opening \cup Copying \cup Committing \cup {None}]
    /\ \A r \in Requests : HasFile(r) => file[req[r].path] # None

LEMMA FileOwner ==
    ASSUME TypeOK, NEW r \in Requests, HasFile(r)
    PROVE  req[r] \in Committing /\ req[r].path \in Paths /\ file[req[r].path] # None
<1>1. req[r] \in Committing
  BY BusyType DEF HasFile, CommitOps
<1>. QED
  BY <1>1 DEF TypeOK, Committing

LEMMA StepType ==
    ASSUME NEW c \in Committing, NEW k
    PROVE  /\ [c EXCEPT !.names = @ \ {k}, !.size = @ + 1] \in Committing
           /\ [c EXCEPT !.names = @ \ {k}, !.size = @ + 1].path = c.path
<1>1. c.names \ {k} \in SUBSET Chunks /\ c.size + 1 \in Nat
  BY DEF Committing
<1>. QED
  BY <1>1 DEF Committing

\* A handler is done, or goes on with its file, and no file changes.
LEMMA Keeps ==
    ASSUME TypeOK, NEW r \in Requests, NEW q \in Committing \cup {None},
           q # None => HasFile(r) /\ q.path = req[r].path,
           req' = [req EXCEPT ![r] = q], file' = file
    PROVE  ReqTypeOK'
<1>1. \A g \in Requests : req'[g] = IF g = r THEN q ELSE req[g]
  BY DEF TypeOK
<1>2. ASSUME NEW g \in Requests, HasFile(g)' PROVE file'[req'[g].path] # None
  <2>1. CASE g = r
    BY <1>1, <1>2, <2>1, FileOwner DEF HasFile, Busy
  <2>2. CASE g # r
    BY <1>1, <1>2, <2>2, FileOwner DEF HasFile, Busy
  <2>. QED
    BY <2>1, <2>2
<1>. QED
  BY <1>2 DEF ReqTypeOK, TypeOK

\* A handler writes a file and goes on with it.
LEMMA Fills ==
    ASSUME TypeOK, NEW r \in Requests, NEW q \in Committing, NEW f \in Seq(Int),
           req' = [req EXCEPT ![r] = q], file' = [file EXCEPT ![q.path] = f]
    PROVE  ReqTypeOK' /\ file' \in [Paths -> Seq(Int) \cup {None}]
<1>1. \A g \in Requests : req'[g] = IF g = r THEN q ELSE req[g]
  BY DEF TypeOK
<1>2. q.path \in Paths /\ f # None
  BY DEF Committing
<1>3. file' \in [Paths -> Seq(Int) \cup {None}] /\ file'[q.path] = f
  BY <1>2 DEF TypeOK
<1>4. \A p \in Paths : file[p] # None => file'[p] # None
  BY <1>2, <1>3 DEF TypeOK
<1>5. ASSUME NEW g \in Requests, HasFile(g)' PROVE file'[req'[g].path] # None
  <2>1. CASE g = r
    BY <1>1, <1>2, <1>3, <2>1
  <2>2. CASE g # r
    BY <1>1, <1>4, <1>5, <2>2, FileOwner DEF HasFile, Busy
  <2>. QED
    BY <2>1, <2>2
<1>. QED
  BY <1>3, <1>5 DEF ReqTypeOK, TypeOK

\* What the begin of a local upload makes of the handlers.
LEMMA Creates ==
    ASSUME TypeOK, NEW r \in Requests, NEW p \in Paths, NEW k \in Chunks, UploadCreate(r, p, k)
    PROVE  /\ req' \in [Requests -> Opening \cup Copying \cup Committing \cup {None}]
           /\ req'[r].op = "copy" /\ req'[r].path = p /\ req'[r].into = "own"
           /\ \A g \in Requests \ {r} :
                \/ req'[g] = req[g]
                \/ /\ Busy(g, "copy") /\ req[g].path = p
                   /\ req'[g].op = "copy" /\ req'[g].path = p /\ req'[g].into = "shared"
<1> DEFINE q == [op |-> "copy", path |-> p, no |-> k, into |-> "own"]
<1>1. q \in Copying /\ q.op = "copy" /\ q.path = p /\ q.into = "own"
  BY DEF Copying
<1>2. req' = [g \in Requests |->
          IF g = r THEN q
          ELSE IF Busy(g, "copy") /\ req[g].path = p /\ req[g].no = k /\ req[g].into = "own"
               THEN [req[g] EXCEPT !.into = "shared"] ELSE req[g]]
  BY DEF UploadCreate
<1> HIDE DEF q
<1>3. ASSUME NEW g \in Requests, Busy(g, "copy"), req[g].path = p
      PROVE  /\ [req[g] EXCEPT !.into = "shared"] \in Copying
             /\ [req[g] EXCEPT !.into = "shared"].op = "copy"
             /\ [req[g] EXCEPT !.into = "shared"].path = p
             /\ [req[g] EXCEPT !.into = "shared"].into = "shared"
  BY <1>3, BusyType DEF Copying
<1>4. req'[r] = q
  BY <1>2
<1>5. ASSUME NEW g \in Requests \ {r}
      PROVE  \/ req'[g] = req[g]
             \/ /\ Busy(g, "copy") /\ req[g].path = p /\ req'[g] \in Copying
                /\ req'[g].op = "copy" /\ req'[g].path = p /\ req'[g].into = "shared"
  BY <1>2, <1>3
<1>6. \A g \in Requests : req'[g] \in Opening \cup Copying \cup Committing \cup {None}
  BY <1>1, <1>4, <1>5 DEF TypeOK
<1>7. req' = [g \in Requests |-> req'[g]]
  BY <1>2
<1>. QED
  BY <1>1, <1>4, <1>5, <1>6, <1>7

LEMMA NextTypeOK == TypeOK /\ [Next]_vars => TypeOK'
<1> SUFFICES ASSUME TypeOK, [Next]_vars PROVE TypeOK'
  OBVIOUS
<1> USE DEF TypeOK
<1>0. ASSUME NEW p \in Paths PROVE Stored(p) \subseteq Chunks
  BY DEF Stored
<1>1. ASSUME NEW r \in Requests, NEW fails \in BOOLEAN, StatusList(r, fails) PROVE TypeOK'
  <2>1. PICK p \in Paths : req' = [req EXCEPT ![r] = [op |-> "open", path |-> p]]
    BY <1>1 DEF StatusList
  <2>2. [op |-> "open", path |-> p] \in Opening
    BY DEF Opening
  <2>3. req' \in [Requests -> Opening \cup Copying \cup Committing \cup {None}]
    BY <2>1, <2>2
  <2>4. \A g \in Requests : HasFile(g)' => HasFile(g) /\ req'[g] = req[g]
    BY <2>1 DEF HasFile, Busy
  <2>5. shared' \in BOOLEAN /\ calls' \in 0 .. MaxCalls
    BY <1>1 DEF StatusList, IsCall
  <2>. QED
    BY <1>1, <2>3, <2>4, <2>5 DEF StatusList, opens, uploads
<1>2. ASSUME NEW r \in Requests, NEW fails \in BOOLEAN, StatusSave(r, fails) PROVE TypeOK'
  <2>1. req[r] \in Opening
    BY <1>2, BusyType DEF StatusSave
  <2>2. req[r].path \in Paths
    BY <2>1 DEF Opening
  <2>3. \A g \in Requests : HasFile(g)' => HasFile(g) /\ req'[g] = req[g]
    BY <1>2 DEF StatusSave, Done, HasFile, Busy
  <2>4. /\ sessions' \subseteq told' /\ told' \subseteq Paths /\ unsaved' \subseteq told'
    BY <1>2, <2>2 DEF StatusSave
  <2>. QED
    BY <1>2, <2>3, <2>4 DEF StatusSave, Done, opens, uploads
<1>3. ASSUME NEW p \in Paths, NEW k \in Chunks, UploadMap(p, k) PROVE TypeOK'
  BY <1>3 DEF UploadMap, IsCall, DisturbedByUpload, HasFile, Busy, opens, uploads
<1>4. ASSUME NEW r \in Requests, NEW p \in Paths, NEW k \in Chunks, UploadCreate(r, p, k)
      PROVE  TypeOK'
  <2>3. req' \in [Requests -> Opening \cup Copying \cup Committing \cup {None}]
    BY <1>4, Creates
  <2>4. \A g \in Requests : HasFile(g)' => HasFile(g) /\ req'[g] = req[g]
    <3> SUFFICES ASSUME NEW g \in Requests, HasFile(g)' PROVE HasFile(g) /\ req'[g] = req[g]
      OBVIOUS
    <3>1. req'[g].op # "copy"
      BY DEF HasFile, Busy
    <3>2. g # r
      BY <1>4, <3>1, Creates
    <3>3. req'[g] = req[g]
      BY <1>4, <3>1, <3>2, Creates
    <3>. QED
      BY <3>3 DEF HasFile, Busy
  <2>5. /\ calls' \in 0 .. MaxCalls /\ disturbed' \in SUBSET Paths
        /\ chunks' \in [Paths -> [Chunks -> {None, "empty", "part", "whole"}]]
        /\ acked' \in [Paths -> SUBSET Chunks] /\ begun' \in [Paths -> SUBSET Chunks]
    BY <1>4 DEF UploadCreate, IsCall, DisturbedByUpload
  <2>. QED
    BY <1>4, <2>3, <2>4, <2>5 DEF UploadCreate, opens, uploads
<1>5. ASSUME NEW r \in Requests, UploadCopy(r) PROVE TypeOK'
  <2>1. req[r] \in Copying
    BY <1>5, BusyType DEF UploadCopy
  <2>2. req[r].path \in Paths /\ req[r].no \in Chunks
    BY <2>1 DEF Copying
  <2>3. \A g \in Requests : HasFile(g)' => HasFile(g) /\ req'[g] = req[g]
    BY <1>5 DEF UploadCopy, Done, HasFile, Busy
  <2>5. acked' = acked \/ acked' = [acked EXCEPT ![req[r].path] = @ \cup {req[r].no}]
    BY <1>5 DEF UploadCopy
  <2>6. \/ chunks' = chunks
        \/ \E has \in {chunks[req[r].path][req[r].no], "part", "whole"} :
             chunks' = [chunks EXCEPT ![req[r].path][req[r].no] = has]
    BY <1>5 DEF UploadCopy
  <2>7. chunks' \in [Paths -> [Chunks -> {None, "empty", "part", "whole"}]]
    <3> DEFINE o == req[r].path
               k == req[r].no
               Has == {None, "empty", "part", "whole"}
    <3>1. o \in Paths /\ k \in Chunks /\ chunks \in [Paths -> [Chunks -> Has]]
      BY <2>2
    <3> HIDE DEF o, k, Has, TypeOK
    <3>2. ASSUME NEW has \in {chunks[o][k], "part", "whole"},
                 chunks' = [chunks EXCEPT ![o][k] = has]
          PROVE  chunks' \in [Paths -> [Chunks -> Has]]
      <4>1. has \in Has
        BY <3>1 DEF Has
      <4>2. [chunks[o] EXCEPT ![k] = has] \in [Chunks -> Has]
        BY <3>1, <4>1
      <4>. QED
        BY <3>1, <3>2, <4>2
    <3>. QED
      BY <2>6, <3>1, <3>2 DEF o, k, Has
  <2>8. acked' \in [Paths -> SUBSET Chunks]
    BY <2>2, <2>5
  <2>4. chunks' \in [Paths -> [Chunks -> {None, "empty", "part", "whole"}]]
        /\ acked' \in [Paths -> SUBSET Chunks]
    BY <2>7, <2>8
  <2>. QED
    BY <1>5, <2>3, <2>4 DEF UploadCopy, Done, opens, uploads
<1>21. ASSUME NEW r \in Requests, UploadWrite(r) PROVE TypeOK'
  <2>1. req[r].path \in Paths /\ req[r].no \in Chunks
    BY <1>21, BusyType DEF UploadWrite, Copying
  <2>2. chunks' \in [Paths -> [Chunks -> {None, "empty", "part", "whole"}]]
    BY <1>21, <2>1 DEF UploadWrite
  <2>. QED
    BY <1>21, <2>2 DEF UploadWrite, HasFile, Busy, history, opens, uploads
<1>6. ASSUME NEW r \in Requests, Fails(r) PROVE TypeOK'
  BY <1>6 DEF Fails, Done, HasFile, Busy, history, opens, uploads
<1>7. ASSUME NEW r \in Requests, NEW p \in Paths, CommitList(r, p) PROVE TypeOK'
  <2> DEFINE q == [op |-> "create", path |-> p, names |-> Stored(p), size |-> 0]
  <2>1. q \in Committing /\ q.op = "create"
    BY <1>0 DEF Committing
  <2>2. req' = [req EXCEPT ![r] = q]
    BY <1>7, Zenon DEF CommitList
  <2> HIDE DEF q
  <2>3. req' \in [Requests -> Opening \cup Copying \cup Committing \cup {None}]
    BY <2>1, <2>2
  <2>4. \A g \in Requests : HasFile(g)' => HasFile(g) /\ req'[g] = req[g]
    BY <2>1, <2>2 DEF HasFile, Busy
  <2>. QED
    BY <1>7, <2>3, <2>4 DEF CommitList, IsCall, opens, uploads
<1>8. ASSUME NEW r \in Requests, CommitCreate(r) PROVE TypeOK'
  <2> DEFINE q == [req[r] EXCEPT !.op = "append"]
  <2>1. req[r] \in Committing
    BY <1>8, BusyType DEF CommitCreate, CommitOps
  <2>2. q \in Committing /\ q.path = req[r].path
    BY <2>1 DEF Committing
  <2>3. req' = [req EXCEPT ![r] = q] /\ file' = [file EXCEPT ![q.path] = <<>>]
    BY <1>8, <2>2 DEF CommitCreate, Goes
  <2> HIDE DEF q
  <2>4. ReqTypeOK' /\ file' \in [Paths -> Seq(Int) \cup {None}]
    BY <2>2, <2>3, Fills, <<>> \in Seq(Int)
  <2>5. torn' \in [Paths -> SUBSET Nat]
    BY <1>8 DEF CommitCreate
  <2>. QED
    BY <1>8, <2>4, <2>5 DEF CommitCreate, ReqTypeOK, history, opens, uploads
<1>9. ASSUME NEW r \in Requests, CommitAppend(r) PROVE TypeOK'
  <2> DEFINE p == req[r].path
             n == req[r].size
  <2>1. req[r] \in Committing /\ HasFile(r)
    BY <1>9, BusyType DEF CommitAppend, CommitOps, HasFile
  <2>2. p \in Paths /\ n \in Nat /\ file[p] \in Seq(Int)
    BY <2>1, FileOwner DEF Committing
  <2>3. PICK k \in Chunks :
          \/ /\ file' = [file EXCEPT ![p] = Written(@, n, k)]
             /\ req' = [req EXCEPT ![r].names = @ \ {k}, ![r].size = @ + 1]
          \/ /\ file' = file
             /\ req' = [req EXCEPT ![r].names = @ \ {k}]
    BY <1>9 DEF CommitAppend
  <2>6. torn' \in [Paths -> SUBSET Nat]
    <3>1. PICK m \in Nat : m = n + 1
      BY <2>2
    <3>2. \/ torn' = torn \/ torn' = [torn EXCEPT ![p] = @ \ {m}]
          \/ torn' = [torn EXCEPT ![p] = @ \cup {m}]
      BY <1>9, <3>1 DEF CommitAppend
    <3>3. torn \in [Paths -> SUBSET Nat]
      BY DEF TypeOK
    <3> HIDE DEF p, n, TypeOK
    <3>. QED
      BY <2>2, <3>1, <3>2, <3>3
  <2>4. CASE /\ file' = [file EXCEPT ![p] = Written(@, n, k)]
             /\ req' = [req EXCEPT ![r].names = @ \ {k}, ![r].size = @ + 1]
    <3> DEFINE q == [req[r] EXCEPT !.names = @ \ {k}, !.size = @ + 1]
               f == Written(file[p], n, k)
    <3>1. q \in Committing /\ q.path = p
      BY <2>1, StepType
    <3>2. req' = [req EXCEPT ![r] = q]
      BY <2>4
    <3>3. f \in Seq(Int)
      <4>1. file[p] \in Seq(Int) /\ n \in Nat /\ k \in Int
        BY <2>2
      <4> HIDE DEF p, n, TypeOK
      <4>. QED
        BY ONLY <4>1, WrittenType DEF f
    <3>4. file' = [file EXCEPT ![q.path] = f]
      BY <2>4, <3>1
    <3> HIDE DEF q, f
    <3>5. ReqTypeOK' /\ file' \in [Paths -> Seq(Int) \cup {None}]
      BY <3>1, <3>2, <3>3, <3>4, Fills
    <3>. QED
      BY <1>9, <2>6, <3>5 DEF CommitAppend, ReqTypeOK, history, opens, uploads
  <2>5. CASE file' = file /\ req' = [req EXCEPT ![r].names = @ \ {k}]
    <3> DEFINE q == [req[r] EXCEPT !.names = @ \ {k}]
    <3>1. q \in Committing /\ q.path = p
      BY <2>1 DEF Committing
    <3>2. req' = [req EXCEPT ![r] = q]
      BY <2>5
    <3> HIDE DEF q
    <3>3. ReqTypeOK'
      BY <2>1, <2>5, <3>1, <3>2, Keeps
    <3>. QED
      BY <1>9, <2>5, <2>6, <3>3 DEF CommitAppend, ReqTypeOK, history, opens, uploads
  <2>. QED
    BY <2>3, <2>4, <2>5
<1>22. ASSUME NEW r \in Requests, CommitBreaks(r) PROVE TypeOK'
  <2> DEFINE p == req[r].path
             n == req[r].size
  <2>1. req[r] \in Committing /\ HasFile(r)
    BY <1>22, BusyType DEF CommitBreaks, CommitOps, HasFile
  <2>2. p \in Paths /\ n \in Nat /\ n + 1 \in Nat /\ file[p] \in Seq(Int)
    BY <2>1, FileOwner DEF Committing
  <2>3. PICK k \in Chunks : /\ file' = [file EXCEPT ![p] = Written(@, n, k)]
                            /\ torn' = [torn EXCEPT ![p] = @ \cup {n + 1}]
    BY <1>22 DEF CommitBreaks
  <2>4. req' = [req EXCEPT ![r] = None]
    BY <1>22 DEF CommitBreaks, Done
  <2> HIDE DEF p, n
  <2>5. Written(file[p], n, k) \in Seq(Int)
    <3> HIDE DEF TypeOK
    <3>. QED
      BY <2>2, WrittenType, k \in Int
  <2>6. torn' \in [Paths -> SUBSET Nat]
    BY <2>2, <2>3
  <2>7. file' \in [Paths -> Seq(Int) \cup {None}] /\ \A o \in Paths : file[o] # None => file'[o] # None
    BY <2>2, <2>3, <2>5
  <2>8. \A g \in Requests : HasFile(g)' => HasFile(g) /\ req'[g] = req[g]
    BY <2>4 DEF HasFile, Busy
  <2>9. \A g \in Requests : HasFile(g)' => file'[req'[g].path] # None
    BY <2>7, <2>8, FileOwner
  <2>. QED
    BY <1>22, <2>4, <2>6, <2>7, <2>9 DEF CommitBreaks, history, opens, uploads
<1>10. ASSUME NEW r \in Requests, CommitRemove(r) PROVE TypeOK'
  <2>1. req[r] \in Committing /\ HasFile(r)
    BY <1>10, BusyType DEF CommitRemove, CommitOps, HasFile
  <2>2. ASSUME NEW g \in Requests
        PROVE  /\ req'[g] \in Opening \cup Copying \cup Committing \cup {None}
               /\ HasFile(g)' => HasFile(g) /\ req'[g].path = req[g].path
    <3>1. CASE req'[g] = None
      BY <3>1 DEF HasFile, Busy
    <3>2. CASE req'[g] = [req[g] EXCEPT !.into = "gone"] /\ Busy(g, "copy")
      <4>1. req[g] \in Copying
        BY <3>2, BusyType
      <4>. QED
        BY <3>2, <4>1 DEF Copying, HasFile, Busy
    <3>3. CASE req'[g] = req[g]
      BY <3>3 DEF HasFile, Busy
    <3>4. CASE g = r /\ req'[g] = [req[r] EXCEPT !.op = "stat"]
      BY <2>1, <3>4 DEF Committing
    <3>. QED
      BY <1>10, <3>1, <3>2, <3>3, <3>4 DEF CommitRemove
  <2>3. ReqTypeOK'
    <3>1. req' \in [Requests -> Opening \cup Copying \cup Committing \cup {None}]
      BY <1>10, <2>2 DEF CommitRemove
    <3>2. file' = file
      BY <1>10 DEF CommitRemove
    <3>. QED
      BY <2>2, <3>1, <3>2 DEF ReqTypeOK
  <2>4. chunks' \in [Paths -> [Chunks -> {None, "empty", "part", "whole"}]] /\ cleared' \in SUBSET Paths
    <3>1. req[r].path \in Paths
      BY <2>1 DEF Committing
    <3>2. PICK gone : chunks' = [chunks EXCEPT ![req[r].path] =
                                  [k \in Chunks |-> IF k \in gone THEN None ELSE @[k]]]
      BY <1>10 DEF CommitRemove
    <3>. QED
      BY <1>10, <3>1, <3>2 DEF CommitRemove
  <2>. QED
    BY <1>10, <2>3, <2>4 DEF CommitRemove, ReqTypeOK, opens, uploads
<1>12. ASSUME NEW r \in Requests, NEW p \in Paths, CommitAssemble(r, p) PROVE TypeOK'
  <2> DEFINE q == [op |-> "put", path |-> p, names |-> Stored(p), size |-> 0]
  <2>1. q \in Committing /\ q.op = "put"
    BY <1>0 DEF Committing
  <2>2. req' = [req EXCEPT ![r] = q]
    BY <1>12, Zenon DEF CommitAssemble
  <2> HIDE DEF q
  <2>3. req' \in [Requests -> Opening \cup Copying \cup Committing \cup {None}]
    BY <2>1, <2>2
  <2>4. \A g \in Requests : HasFile(g)' => HasFile(g) /\ req'[g] = req[g]
    BY <2>1, <2>2 DEF HasFile, Busy
  <2>. QED
    BY <1>12, <2>3, <2>4 DEF CommitAssemble, IsCall, history, opens, uploads
<1>13. ASSUME NEW r \in Requests, CommitPut(r) PROVE TypeOK'
  <2> DEFINE q == [req[r] EXCEPT !.op = "forget"]
  <2>1. req[r] \in Committing
    BY <1>13, BusyType DEF CommitPut, CommitOps
  <2>2. q \in Committing /\ q.path = req[r].path /\ req[r].names \in SUBSET Chunks
    BY <2>1 DEF Committing
  <2>3. PICK s \in Ordered(req[r].names) : file' = [file EXCEPT ![req[r].path] = s]
    BY <1>13 DEF CommitPut
  <2>4. req' = [req EXCEPT ![r] = q] /\ file' = [file EXCEPT ![q.path] = s]
    BY <1>13, <2>2, <2>3 DEF CommitPut, Goes
  <2>5. s \in Seq(Int)
    BY <2>2, OrderedType
  <2> HIDE DEF q
  <2>6. ReqTypeOK' /\ file' \in [Paths -> Seq(Int) \cup {None}]
    BY <2>2, <2>4, <2>5, Fills
  <2>7. torn' \in [Paths -> SUBSET Nat]
    BY <1>13 DEF CommitPut
  <2>. QED
    BY <1>13, <2>6, <2>7 DEF CommitPut, ReqTypeOK, history, opens, uploads
<1>14. ASSUME NEW r \in Requests, CommitForget(r) PROVE TypeOK'
  <2> DEFINE q == [req[r] EXCEPT !.op = "stat"]
  <2>1. req[r] \in Committing /\ HasFile(r)
    BY <1>14, BusyType DEF CommitForget, CommitOps, HasFile
  <2>2. q \in Committing /\ q.path = req[r].path /\ req[r].path \in Paths
    BY <2>1 DEF Committing
  <2>3. req' = [req EXCEPT ![r] = q] /\ file' = file
    BY <1>14 DEF CommitForget, Goes
  <2>4. chunks' \in [Paths -> [Chunks -> {None, "empty", "part", "whole"}]] /\ cleared' \in SUBSET Paths
    BY <1>14, <2>2 DEF CommitForget
  <2> HIDE DEF q
  <2>5. ReqTypeOK'
    BY <2>1, <2>2, <2>3, Keeps
  <2>. QED
    BY <1>14, <2>4, <2>5 DEF CommitForget, ReqTypeOK, opens, uploads
<1>15. ASSUME NEW r \in Requests, CommitStat(r) PROVE TypeOK'
  <2> DEFINE n == Len(file[req[r].path])
             q == [req[r] EXCEPT !.op = "record", !.size = n]
  <2>1. req[r] \in Committing /\ HasFile(r)
    BY <1>15, BusyType DEF CommitStat, CommitOps, HasFile
  <2>2. n \in Nat
    <3>1. file[req[r].path] \in Seq(Int)
      BY <2>1, FileOwner
    <3>. QED
      BY <3>1
  <2>3. req' = [req EXCEPT ![r] = q] /\ file' = file
    BY <1>15 DEF CommitStat
  <2>4. q \in Committing /\ q.path = req[r].path
    <3> HIDE DEF n
    <3>. QED
      BY <2>1, <2>2 DEF Committing
  <2> HIDE DEF q
  <2>5. ReqTypeOK'
    BY <2>1, <2>3, <2>4, Keeps
  <2>. QED
    BY <1>15, <2>5 DEF CommitStat, ReqTypeOK, history, opens, uploads
<1>16. ASSUME NEW r \in Requests, CommitRecord(r) PROVE TypeOK'
  <2> DEFINE q == [req[r] EXCEPT !.op = "close"]
  <2>1. req[r] \in Committing /\ HasFile(r)
    BY <1>16, BusyType DEF CommitRecord, CommitOps, HasFile
  <2>2. q \in Committing /\ q.path = req[r].path /\ req[r].size \in Nat /\ req[r].path \in Paths
    BY <2>1 DEF Committing
  <2>3. req' = [req EXCEPT ![r] = q] /\ file' = file
    BY <1>16 DEF CommitRecord, Goes
  <2>4. asset' \in [Paths -> Nat \cup {None}]
    BY <1>16, <2>2 DEF CommitRecord
  <2> HIDE DEF q
  <2>5. ReqTypeOK'
    BY <2>1, <2>2, <2>3, Keeps
  <2>. QED
    BY <1>16, <2>4, <2>5 DEF CommitRecord, ReqTypeOK, history, opens, uploads
<1>17. ASSUME NEW r \in Requests, NEW fails \in BOOLEAN, CommitClose(r, fails) PROVE TypeOK'
  BY <1>17 DEF CommitClose, Done, HasFile, Busy, history, opens, uploads
<1>19. CASE Restart
  <2>1. ReqTypeOK'
    BY <1>19 DEF Restart, ReqTypeOK, HasFile, Busy
  <2>2. chunks' \in [Paths -> [Chunks -> {None, "empty", "part", "whole"}]] /\ cleared' \in SUBSET Paths
    BY <1>19 DEF Restart
  <2>. QED
    BY <1>19, <2>1, <2>2 DEF Restart, ReqTypeOK, opens, uploads
<1>20. CASE UNCHANGED vars
  BY <1>20 DEF vars, HasFile, Busy
<1>. QED
  BY <1>1, <1>2, <1>3, <1>4, <1>5, <1>6, <1>7, <1>8, <1>9, <1>10, <1>12, <1>13,
     <1>14, <1>15, <1>16, <1>17, <1>19, <1>20, <1>21, <1>22
  DEF Next, Handler

\* Every variable keeps its type along every behaviour, and a handler that works
\* on a file has made one.
THEOREM TypeCorrect == Spec => []TypeOK
<1>1. Init => TypeOK
  BY DEF Init, TypeOK, HasFile, Busy
<1>. QED
  BY <1>1, NextTypeOK, PTL DEF Spec

-----------------------------------------------------------------------------
(* The order of a file *)

Commits(r, p) == req[r] # None /\ req[r].op \notin {"open", "copy"} /\ req[r].path = p

\* Each store runs its own kind of commit, and one that begins has written nothing.
OwnCommits ==
    \A r \in Requests :
        /\ driver = "local" => ~Busy(r, "put") /\ ~Busy(r, "forget")
        /\ driver = "sqlite" => ~Busy(r, "create") /\ ~Busy(r, "append")
        /\ Busy(r, "create") => req[r].size = 0

\* A local commit is alone with its file ...
OneWriter ==
    driver = "local" => \A p \in Paths \ overlaid, r, g \in Requests :
        Commits(r, p) /\ Commits(g, p) => r = g

\* ... has written all of it, and has only greater chunks to come.
Follows(f, n, names) ==
    n = Len(f) /\ \A i \in DOMAIN f, k \in names : f[i] < k

Following ==
    \A r \in Requests :
        Busy(r, "append") /\ req[r].path \notin overlaid
          => Follows(file[req[r].path], req[r].size, req[r].names)

InOrder(f) == Ascends(f) /\ \A i \in DOMAIN f : f[i] # Hole

OrderInv == OwnCommits /\ OneWriter /\ Following /\ FileInOrder

\* Writing behind the last chunk a greater one keeps the order.
LEMMA WrittenInOrder ==
    ASSUME NEW f \in Seq(Int), InOrder(f), NEW names \in SUBSET Chunks, Follows(f, Len(f), names),
           NEW k \in names, \A j \in names : k <= j
    PROVE  /\ InOrder(Written(f, Len(f), k))
           /\ Follows(Written(f, Len(f), k), Len(f) + 1, names \ {k})
<1> DEFINE n == Len(f)
           w == Written(f, n, k)
<1>1. n \in Nat /\ DOMAIN f = 1 .. n /\ \A i \in 1 .. n : f[i] \in Int
  OBVIOUS
<1> HIDE DEF n
<1>2. w = [i \in 1 .. n + 1 |->
             IF i = n + 1 THEN k ELSE IF i <= n THEN f[i] ELSE Hole]
  <2>1. ~(n < n) /\ Len(f) = n
    BY <1>1 DEF n
  <2>. QED
    BY <2>1 DEF Written
<1> HIDE DEF w
<1>3. DOMAIN w = 1 .. n + 1 /\ w[n + 1] = k /\ \A i \in 1 .. n : w[i] = f[i]
  BY <1>1, <1>2
<1>4. \A i \in 1 .. n : f[i] \in Int /\ f[i] # Hole /\ \A j \in names : f[i] < j
  <2>1. \A i \in DOMAIN f, j \in names : f[i] < j
    BY DEF Follows
  <2>. QED
    BY <1>1, <2>1 DEF InOrder
<1>5. k \in Nat /\ k # Hole
  BY DEF Hole
<1>6. Len(w) = n + 1
  <2>1. n + 1 \in Nat
    BY <1>1
  <2>. QED
    BY <1>2, <2>1
<1>7. ASSUME NEW i \in DOMAIN w, NEW j \in DOMAIN w, i < j PROVE w[i] < w[j]
  <2>1. i \in 1 .. n
    BY <1>1, <1>3, <1>7
  <2>2. CASE j \in 1 .. n
    BY <1>1, <1>3, <1>7, <2>1, <2>2 DEF InOrder, Ascends
  <2>3. CASE j = n + 1
    BY <1>3, <1>4, <2>1, <2>3
  <2>. QED
    BY <1>1, <1>3, <2>2, <2>3
<1>8. ASSUME NEW i \in DOMAIN w PROVE w[i] # Hole /\ \A j \in names \ {k} : w[i] < j
  <2>1. CASE i \in 1 .. n
    BY <1>3, <1>4, <2>1
  <2>2. CASE i = n + 1
    <3>1. ASSUME NEW j \in names \ {k} PROVE k < j
      <4>1. j \in Nat /\ k <= j /\ j # k
        OBVIOUS
      <4>. QED
        BY <1>5, <4>1
    <3>. QED
      BY <1>3, <1>5, <2>2, <3>1
  <2>. QED
    BY <1>1, <1>3, <2>1, <2>2
<1>. QED
  BY <1>6, <1>7, <1>8 DEF InOrder, Follows, Ascends, w, n

LEMMA WrittenBehind ==
    ASSUME NEW f \in Seq(Int), NEW k
    PROVE  /\ DOMAIN Written(f, Len(f), k) = 1 .. Len(f) + 1
           /\ Written(f, Len(f), k)[Len(f) + 1] = k
           /\ \A i \in 1 .. Len(f) : Written(f, Len(f), k)[i] = f[i]
<1> DEFINE n == Len(f)
<1>1. n \in Nat /\ Len(f) = n
  OBVIOUS
<1> HIDE DEF n
<1>2. Written(f, n, k) = [i \in 1 .. n + 1 |->
             IF i = n + 1 THEN k ELSE IF i <= n THEN f[i] ELSE Hole]
  BY <1>1 DEF Written
<1>3. /\ DOMAIN Written(f, n, k) = 1 .. n + 1 /\ Written(f, n, k)[n + 1] = k
      /\ \A i \in 1 .. n : Written(f, n, k)[i] = f[i]
  BY <1>1, <1>2
<1>. QED
  BY <1>3 DEF n

\* Steps that write no file and begin no commit.
LEMMA Calm ==
    ASSUME TypeOK, OrderInv, UNCHANGED <<driver, file, overlaid>>,
           \A g \in Requests :
               \/ req'[g] = None
               \/ req'[g].op \in {"open", "copy"}
               \/ req'[g] = req[g]
               \/ /\ req[g] # None /\ req[g].op \notin {"open", "copy"}
                  /\ req'[g].op \in {"stat", "record", "close"}
                  /\ req'[g].path = req[g].path
    PROVE  OrderInv'
<1>1. \A g \in Requests, p \in Paths : Commits(g, p)' => Commits(g, p)
  BY DEF Commits
<1>2. OneWriter'
  BY <1>1 DEF OrderInv, OneWriter
<1>3. \A g \in Requests, op \in {"create", "append", "put", "forget"} :
        Busy(g, op)' => Busy(g, op) /\ req'[g] = req[g]
  BY DEF Busy
<1>4. OwnCommits' /\ Following'
  BY <1>3 DEF OrderInv, OwnCommits, Following
<1>. QED
  BY <1>2, <1>4 DEF OrderInv, FileInOrder

\* A commit goes on to its next call and writes no file.
LEMMA GoesOn ==
    ASSUME TypeOK, OrderInv, UNCHANGED <<driver, file, overlaid>>, NEW r \in Requests,
           NEW from \in CommitOps, Busy(r, from), NEW to \in {"stat", "close"},
           req' = [req EXCEPT ![r].op = to]
    PROVE  OrderInv'
<1> DEFINE q == [req[r] EXCEPT !.op = to]
<1>1. req[r] \in Committing /\ req[r] # None
  BY BusyType DEF Busy
<1>2. q.op = to /\ q.path = req[r].path /\ req[r].op \notin {"open", "copy"}
  BY <1>1 DEF Committing
<1>3. req' = [req EXCEPT ![r] = q]
  OBVIOUS
<1> HIDE DEF q
<1>4. \A g \in Requests : req'[g] = IF g = r THEN q ELSE req[g]
  BY <1>3 DEF TypeOK
<1>. QED
  BY <1>1, <1>2, <1>4, Calm

LEMMA NextInOrder == TypeOK /\ OrderInv /\ [Next]_vars => OrderInv'
<1> SUFFICES ASSUME TypeOK, OrderInv, [Next]_vars PROVE OrderInv'
  OBVIOUS
<1>1. ASSUME NEW r \in Requests, NEW fails \in BOOLEAN, StatusList(r, fails) PROVE OrderInv'
  <2>1. \A g \in Requests : req'[g].op = "open" \/ req'[g] = req[g]
    BY <1>1 DEF StatusList, TypeOK
  <2>. QED
    BY <1>1, <2>1, Calm DEF StatusList, opens, uploads
<1>2. ASSUME NEW r \in Requests, NEW fails \in BOOLEAN, StatusSave(r, fails) PROVE OrderInv'
  BY <1>2, Calm DEF StatusSave, Done, TypeOK, opens, uploads
<1>3. ASSUME NEW p \in Paths, NEW k \in Chunks, UploadMap(p, k) PROVE OrderInv'
  BY <1>3, Calm DEF UploadMap
<1>4. ASSUME NEW r \in Requests, NEW p \in Paths, NEW k \in Chunks, UploadCreate(r, p, k)
      PROVE  OrderInv'
  <2>1. \A g \in Requests : req'[g].op = "copy" \/ req'[g] = req[g]
    BY <1>4, Creates
  <2>. QED
    BY <1>4, <2>1, Calm DEF UploadCreate
<1>21. ASSUME NEW r \in Requests, UploadWrite(r) PROVE OrderInv'
  BY <1>21, Calm DEF UploadWrite, history, opens, uploads
<1>5. ASSUME NEW r \in Requests, UploadCopy(r) PROVE OrderInv'
  BY <1>5, Calm DEF UploadCopy, Done, TypeOK
<1>6. ASSUME NEW r \in Requests, Fails(r) PROVE OrderInv'
  BY <1>6, Calm DEF Fails, Done, TypeOK, history, opens, uploads
<1>7. ASSUME NEW r \in Requests, NEW p \in Paths, CommitList(r, p) PROVE OrderInv'
  <2> DEFINE q == [op |-> "create", path |-> p, names |-> Stored(p), size |-> 0]
  <2>1. q \in Committing /\ q.op = "create" /\ q.path = p /\ q.size = 0
    BY DEF Committing, Stored
  <2>2. req' = [req EXCEPT ![r] = q] /\ req[r] = None /\ driver = "local"
    BY <1>7, Zenon DEF CommitList
  <2> HIDE DEF q
  <2>3. \A g \in Requests : req'[g] = IF g = r THEN q ELSE req[g]
    BY <2>2 DEF TypeOK
  <2>4. UNCHANGED <<driver, file>> /\ overlaid \subseteq overlaid'
    BY <1>7 DEF CommitList
  <2>5. CommitsNow(p) => p \in overlaid'
    BY <1>7 DEF CommitList
  <2>6. OneWriter'
    <3> SUFFICES ASSUME NEW o \in Paths \ overlaid', NEW g \in Requests, NEW h \in Requests,
                        Commits(g, o)', Commits(h, o)'
                 PROVE  g = h
      BY DEF OneWriter
    <3>1. ASSUME NEW f \in Requests, Commits(f, o)', f # r PROVE Commits(f, o)
      BY <2>3, <3>1 DEF Commits
    <3>2. CASE g # r /\ h # r
      BY <2>2, <2>4, <3>1, <3>2 DEF OrderInv, OneWriter
    <3>3. ASSUME NEW f \in Requests, Commits(f, o)', f # r, o = p PROVE FALSE
      BY <2>5, <3>1, <3>3 DEF CommitsNow, Commits
    <3>4. Commits(r, o)' => o = p
      BY <2>1, <2>3 DEF Commits
    <3>. QED
      BY <3>2, <3>3, <3>4
  <2>7. OwnCommits'
    BY <2>1, <2>2, <2>3, <2>4 DEF OrderInv, OwnCommits, Busy
  <2>8. Following'
    BY <2>1, <2>3, <2>4 DEF OrderInv, Following, Busy
  <2>. QED
    BY <2>4, <2>6, <2>7, <2>8 DEF OrderInv, FileInOrder
<1>8. ASSUME NEW r \in Requests, CommitCreate(r) PROVE OrderInv'
  <2> DEFINE p == req[r].path
             q == [req[r] EXCEPT !.op = "append"]
  <2>1. req[r] \in Committing /\ req[r] # None /\ req[r].size = 0 /\ driver = "local"
    BY <1>8, BusyType DEF CommitCreate, CommitOps, OrderInv, OwnCommits, Busy, TypeOK
  <2>2. p \in Paths /\ q.op = "append" /\ q.path = p /\ q.size = 0 /\ Commits(r, p)
    BY <1>8, <2>1 DEF Committing, CommitCreate, Busy, Commits
  <2>3. UNCHANGED <<driver, overlaid>> /\ file' = [file EXCEPT ![p] = <<>>]
    BY <1>8 DEF CommitCreate, history, opens, uploads
  <2>4. req' = [req EXCEPT ![r] = q]
    BY <1>8 DEF CommitCreate, Goes
  <2> HIDE DEF p, q
  <2>5. \A g \in Requests : req'[g] = IF g = r THEN q ELSE req[g]
    BY <2>4 DEF TypeOK
  <2>6. \A o \in Paths : file'[o] = IF o = p THEN <<>> ELSE file[o]
    BY <2>3 DEF TypeOK
  <2>7. OneWriter'
    <3>1. \A g \in Requests, o \in Paths : Commits(g, o)' => Commits(g, o)
      BY <2>2, <2>5 DEF Commits
    <3>. QED
      BY <2>3, <3>1 DEF OrderInv, OneWriter
  <2>8. OwnCommits'
    BY <2>1, <2>2, <2>3, <2>5 DEF OrderInv, OwnCommits, Busy
  <2>9. Following'
    <3> SUFFICES ASSUME NEW g \in Requests, Busy(g, "append")', req'[g].path \notin overlaid'
                 PROVE  Follows(file'[req'[g].path], req'[g].size, req'[g].names)
      BY DEF Following
    <3>1. CASE g = r
      BY <2>2, <2>5, <2>6, <3>1 DEF Follows
    <3>2. CASE g # r
      <4>1. Busy(g, "append") /\ req'[g] = req[g] /\ req[g].path \in Paths
        <5>1. Busy(g, "append") /\ req'[g] = req[g]
          BY <2>5, <3>2 DEF Busy
        <5>. QED
          BY <5>1, BusyType DEF CommitOps, Committing
      <4>2. req[g].path # p
        BY <2>1, <2>2, <2>3, <3>2, <4>1 DEF OrderInv, OneWriter, Commits, Busy
      <4>. QED
        BY <2>3, <2>6, <4>1, <4>2 DEF OrderInv, Following
    <3>. QED
      BY <3>1, <3>2
  <2>10. FileInOrder'
    BY <2>3, <2>6 DEF OrderInv, FileInOrder, Ascends
  <2>. QED
    BY <2>7, <2>8, <2>9, <2>10 DEF OrderInv
<1>9. ASSUME NEW r \in Requests, CommitAppend(r) PROVE OrderInv'
  <2> DEFINE p == req[r].path
             n == req[r].size
             names == req[r].names
  <2>1. /\ req[r] \in Committing /\ req[r] # None /\ HasFile(r) /\ driver = "local"
        /\ Busy(r, "append") /\ req[r].op = "append"
    BY <1>9, BusyType DEF CommitAppend, CommitOps, OrderInv, OwnCommits, Busy, TypeOK, HasFile
  <2>2. /\ p \in Paths /\ n \in Nat /\ names \in SUBSET Chunks /\ Commits(r, p)
        /\ file[p] \in Seq(Int) /\ file[p] # None
    <3>1. file[p] # None /\ p \in Paths
      BY <2>1, FileOwner
    <3>. QED
      BY <2>1, <3>1 DEF Committing, Commits, TypeOK
  <2>3. PICK k \in Chunks :
          /\ IsNext(k, names)
          /\ \/ /\ file' = [file EXCEPT ![p] = Written(@, n, k)]
                /\ req' = [req EXCEPT ![r].names = @ \ {k}, ![r].size = @ + 1]
             \/ /\ file' = file
                /\ req' = [req EXCEPT ![r].names = @ \ {k}]
    BY <1>9 DEF CommitAppend
  <2>4. UNCHANGED <<driver, overlaid>>
    BY <1>9 DEF CommitAppend, history, opens, uploads
  <2>5. PICK m \in Nat :
          /\ \/ file' = [file EXCEPT ![p] = Written(@, n, k)] /\ m = n + 1
             \/ file' = file /\ m = n
          /\ req' = [req EXCEPT ![r] = [req[r] EXCEPT !.names = @ \ {k}, !.size = m]]
    <3>1. CASE /\ file' = [file EXCEPT ![p] = Written(@, n, k)]
               /\ req' = [req EXCEPT ![r].names = @ \ {k}, ![r].size = @ + 1]
      <4>1. req' = [req EXCEPT ![r] = [req[r] EXCEPT !.names = @ \ {k}, !.size = n + 1]]
        BY <3>1
      <4>2. n + 1 \in Nat
        BY <2>2
      <4>. QED
        BY <3>1, <4>1, <4>2
    <3>2. CASE file' = file /\ req' = [req EXCEPT ![r].names = @ \ {k}]
      <4>1. [req[r] EXCEPT !.names = @ \ {k}] = [req[r] EXCEPT !.names = @ \ {k}, !.size = n]
        BY <2>1 DEF Committing
      <4>2. req' = [req EXCEPT ![r] = [req[r] EXCEPT !.names = @ \ {k}, !.size = n]]
        BY <3>2, <4>1
      <4>. QED
        BY <2>2, <3>2, <4>2
    <3>. QED
      BY <2>3, <3>1, <3>2
  <2> DEFINE q == [req[r] EXCEPT !.names = @ \ {k}, !.size = m]
  <2>6. q.op = "append" /\ q.path = p /\ q.size = m /\ q.names = names \ {k}
    BY <2>1 DEF Committing
  <2>7. \A g \in Requests : req'[g] = IF g = r THEN q ELSE req[g]
    BY <2>5 DEF TypeOK
  <2> HIDE DEF q
  <2>8. OneWriter'
    <3>1. \A g \in Requests, o \in Paths : Commits(g, o)' => Commits(g, o)
      BY <2>2, <2>6, <2>7 DEF Commits
    <3>. QED
      BY <2>4, <3>1 DEF OrderInv, OneWriter
  <2>9. OwnCommits'
    BY <2>1, <2>4, <2>6, <2>7 DEF OrderInv, OwnCommits, Busy
  <2> HIDE DEF p, n, names
  <2>10. \A o \in Paths \ {p} : file'[o] = file[o]
    BY <2>5 DEF TypeOK
  <2>11. p \notin overlaid => InOrder(file'[p]) /\ Follows(file'[p], m, names \ {k})
    <3> SUFFICES ASSUME p \notin overlaid
                 PROVE  InOrder(file'[p]) /\ Follows(file'[p], m, names \ {k})
      OBVIOUS
    <3>1. InOrder(file[p])
      BY <2>2 DEF OrderInv, FileInOrder, InOrder
    <3>2. Follows(file[p], n, names)
      BY <2>1 DEF OrderInv, Following, p, n, names
    <3>3. n = Len(file[p]) /\ k \in names /\ \A j \in names : k <= j
      BY <2>3, <3>2 DEF Follows, IsNext
    <3>4. CASE file'[p] = Written(file[p], n, k) /\ m = n + 1
      <4> DEFINE f == file[p]
      <4>1. f \in Seq(Int) /\ InOrder(f) /\ Follows(f, Len(f), names) /\ n = Len(f)
        BY <2>2, <3>1, <3>2, <3>3
      <4>2. file'[p] = Written(f, Len(f), k) /\ m = Len(f) + 1
        BY <3>3, <3>4
      <4> HIDE DEF f
      <4>. QED
        BY <2>2, <3>3, <4>1, <4>2, WrittenInOrder
    <3>5. CASE file' = file /\ m = n
      BY <3>1, <3>2, <3>5 DEF Follows
    <3>6. \/ file'[p] = Written(file[p], n, k) /\ m = n + 1
          \/ file' = file /\ m = n
      BY <2>2, <2>5 DEF TypeOK
    <3>. QED
      BY <3>4, <3>5, <3>6
  <2>12. FileInOrder'
    BY <2>4, <2>10, <2>11 DEF OrderInv, FileInOrder, InOrder
  <2>13. Following'
    <3> SUFFICES ASSUME NEW g \in Requests, Busy(g, "append")', req'[g].path \notin overlaid'
                 PROVE  Follows(file'[req'[g].path], req'[g].size, req'[g].names)
      BY DEF Following
    <3>1. CASE g = r
      BY <2>4, <2>6, <2>7, <2>11, <3>1
    <3>2. CASE g # r
      <4>1. Busy(g, "append") /\ req'[g] = req[g] /\ req[g].path \in Paths
        <5>1. Busy(g, "append") /\ req'[g] = req[g]
          BY <2>7, <3>2 DEF Busy
        <5>. QED
          BY <5>1, BusyType DEF CommitOps, Committing
      <4>2. req[g].path # p
        BY <2>1, <2>2, <2>4, <3>2, <4>1 DEF OrderInv, OneWriter, Commits, Busy
      <4>. QED
        BY <2>4, <2>10, <4>1, <4>2 DEF OrderInv, Following
    <3>. QED
      BY <3>1, <3>2
  <2>. QED
    BY <2>8, <2>9, <2>12, <2>13 DEF OrderInv
<1>22. ASSUME NEW r \in Requests, CommitBreaks(r) PROVE OrderInv'
  <2> DEFINE p == req[r].path
             n == req[r].size
             names == req[r].names
  <2>1. /\ req[r] \in Committing /\ req[r] # None /\ HasFile(r) /\ driver = "local"
        /\ Busy(r, "append") /\ req[r].op = "append"
    BY <1>22, BusyType DEF CommitBreaks, CommitOps, OrderInv, OwnCommits, Busy, TypeOK, HasFile
  <2>2. /\ p \in Paths /\ n \in Nat /\ names \in SUBSET Chunks /\ Commits(r, p)
        /\ file[p] \in Seq(Int) /\ file[p] # None
    <3>1. file[p] # None /\ p \in Paths
      BY <2>1, FileOwner
    <3>. QED
      BY <2>1, <3>1 DEF Committing, Commits, TypeOK
  <2>3. PICK k \in Chunks : IsNext(k, names) /\ file' = [file EXCEPT ![p] = Written(@, n, k)]
    BY <1>22 DEF CommitBreaks
  <2>4. UNCHANGED <<driver, overlaid>> /\ \A g \in Requests : req'[g] = IF g = r THEN None ELSE req[g]
    BY <1>22 DEF CommitBreaks, Done, TypeOK, history, uploads
  <2>5. OneWriter' /\ OwnCommits'
    BY <2>4 DEF OrderInv, OneWriter, OwnCommits, Commits, Busy
  <2>6. \A o \in Paths \ {p} : file'[o] = file[o]
    BY <2>3 DEF TypeOK
  <2>7. p \notin overlaid => InOrder(file'[p])
    <3> SUFFICES ASSUME p \notin overlaid PROVE InOrder(file'[p])
      OBVIOUS
    <3>1. Follows(file[p], n, names) /\ InOrder(file[p])
      BY <2>1, <2>2 DEF OrderInv, Following, FileInOrder, InOrder
    <3>2. file'[p] = Written(file[p], n, k)
      BY <2>2, <2>3 DEF TypeOK
    <3> DEFINE f == file[p]
    <3> HIDE DEF p, n, names
    <3>3. f \in Seq(Int) /\ InOrder(f) /\ Follows(f, Len(f), names) /\ n = Len(f)
      BY <2>2, <3>1 DEF Follows
    <3>4. k \in names /\ \A j \in names : k <= j
      BY <2>3 DEF IsNext
    <3>5. file'[p] = Written(f, Len(f), k)
      BY <3>2, <3>3
    <3> HIDE DEF f
    <3>. QED
      BY <2>2, <3>3, <3>4, <3>5, WrittenInOrder
  <2>8. FileInOrder'
    BY <2>4, <2>6, <2>7 DEF OrderInv, FileInOrder, InOrder
  <2>9. Following'
    <3> SUFFICES ASSUME NEW g \in Requests, Busy(g, "append")', req'[g].path \notin overlaid'
                 PROVE  Follows(file'[req'[g].path], req'[g].size, req'[g].names)
      BY DEF Following
    <3>1. Busy(g, "append") /\ req'[g] = req[g] /\ req[g].path \in Paths /\ g # r
      <4>1. Busy(g, "append") /\ req'[g] = req[g] /\ g # r
        BY <2>4 DEF Busy
      <4>. QED
        BY <4>1, BusyType DEF CommitOps, Committing
    <3>2. req[g].path # p
      BY <2>1, <2>2, <2>4, <3>1 DEF OrderInv, OneWriter, Commits, Busy
    <3>. QED
      BY <2>4, <2>6, <3>1, <3>2 DEF OrderInv, Following
  <2>. QED
    BY <2>5, <2>8, <2>9 DEF OrderInv
<1>10. ASSUME NEW r \in Requests, CommitRemove(r) PROVE OrderInv'
  <2>1. req[r] \in Committing /\ req[r] # None /\ req[r].op = "append"
    BY <1>10, BusyType DEF CommitRemove, CommitOps, Busy
  <2>2. ASSUME NEW g \in Requests
        PROVE  \/ req'[g] = None
               \/ req'[g] = req[g]
               \/ req'[g].op = "copy"
               \/ g = r /\ req'[g].op = "stat" /\ req'[g].path = req[g].path
    <3>1. CASE g = r /\ req'[g] = [req[r] EXCEPT !.op = "stat"]
      BY <2>1, <3>1 DEF Committing
    <3>2. CASE req'[g] = [req[g] EXCEPT !.into = "gone"] /\ Busy(g, "copy")
      <4>1. req[g] \in Copying
        BY <3>2, BusyType
      <4>. QED
        BY <3>2, <4>1 DEF Copying
    <3>. QED
      BY <1>10, <3>1, <3>2 DEF CommitRemove
  <2>. QED
    BY <1>10, <2>1, <2>2, Calm DEF CommitRemove
<1>12. ASSUME NEW r \in Requests, NEW p \in Paths, CommitAssemble(r, p) PROVE OrderInv'
  <2> DEFINE q == [op |-> "put", path |-> p, names |-> Stored(p), size |-> 0]
  <2>1. q.op = "put"
    OBVIOUS
  <2>2. req' = [req EXCEPT ![r] = q] /\ driver = "sqlite"
    BY <1>12, Zenon DEF CommitAssemble
  <2> HIDE DEF q
  <2>3. \A g \in Requests : req'[g] = IF g = r THEN q ELSE req[g]
    BY <2>2 DEF TypeOK
  <2>4. UNCHANGED <<driver, file, overlaid>>
    BY <1>12 DEF CommitAssemble, history, opens, uploads
  <2>5. OwnCommits' /\ OneWriter' /\ Following'
    BY <2>1, <2>2, <2>3, <2>4 DEF OrderInv, OwnCommits, OneWriter, Following, Busy
  <2>. QED
    BY <2>4, <2>5 DEF OrderInv, FileInOrder
<1>13. ASSUME NEW r \in Requests, CommitPut(r) PROVE OrderInv'
  <2> DEFINE p == req[r].path
             q == [req[r] EXCEPT !.op = "forget"]
  <2>1. req[r] \in Committing /\ driver = "sqlite"
    BY <1>13, BusyType DEF CommitPut, CommitOps, OrderInv, OwnCommits, TypeOK
  <2>2. p \in Paths /\ req[r].names \in SUBSET Chunks /\ q.op = "forget"
    BY <2>1 DEF Committing
  <2>3. PICK s \in Ordered(req[r].names) : file' = [file EXCEPT ![p] = s]
    BY <1>13 DEF CommitPut
  <2>4. req' = [req EXCEPT ![r] = q] /\ UNCHANGED <<driver, overlaid>>
    BY <1>13 DEF CommitPut, Goes, history, opens, uploads
  <2>5. InOrder(s)
    BY <2>2, OrderedType DEF InOrder
  <2> HIDE DEF p, q
  <2>6. \A g \in Requests : req'[g] = IF g = r THEN q ELSE req[g]
    BY <2>4 DEF TypeOK
  <2>7. \A o \in Paths : file'[o] = IF o = p THEN s ELSE file[o]
    BY <2>3 DEF TypeOK
  <2>8. OwnCommits' /\ OneWriter' /\ Following'
    BY <2>1, <2>2, <2>4, <2>6 DEF OrderInv, OwnCommits, OneWriter, Following, Busy
  <2>9. FileInOrder'
    BY <2>4, <2>5, <2>7 DEF OrderInv, FileInOrder, InOrder
  <2>. QED
    BY <2>8, <2>9 DEF OrderInv
<1>14. ASSUME NEW r \in Requests, CommitForget(r) PROVE OrderInv'
  BY <1>14, GoesOn DEF CommitForget, Goes, CommitOps
<1>15. ASSUME NEW r \in Requests, CommitStat(r) PROVE OrderInv'
  <2> DEFINE q == [req[r] EXCEPT !.op = "record", !.size = Len(file[req[r].path])]
  <2>1. req[r] \in Committing /\ req[r] # None /\ req[r].op = "stat"
    BY <1>15, BusyType DEF CommitStat, CommitOps, Busy
  <2>2. q.op = "record" /\ q.path = req[r].path
    BY <2>1 DEF Committing
  <2>3. req' = [req EXCEPT ![r] = q] /\ UNCHANGED <<driver, file, overlaid>>
    BY <1>15 DEF CommitStat, history, opens, uploads
  <2> HIDE DEF q
  <2>4. \A g \in Requests : req'[g] = IF g = r THEN q ELSE req[g]
    BY <2>3 DEF TypeOK
  <2>. QED
    BY <2>1, <2>2, <2>3, <2>4, Calm
<1>16. ASSUME NEW r \in Requests, CommitRecord(r) PROVE OrderInv'
  BY <1>16, GoesOn DEF CommitRecord, Goes, CommitOps, history, opens, uploads
<1>17. ASSUME NEW r \in Requests, NEW fails \in BOOLEAN, CommitClose(r, fails) PROVE OrderInv'
  BY <1>17, Calm DEF CommitClose, Done, TypeOK, history, opens, uploads
<1>19. CASE Restart
  BY <1>19, Calm DEF Restart
<1>20. CASE UNCHANGED vars
  BY <1>20, Calm DEF vars
<1>. QED
  BY <1>1, <1>2, <1>3, <1>4, <1>5, <1>6, <1>7, <1>8, <1>9, <1>10, <1>12, <1>13,
     <1>14, <1>15, <1>16, <1>17, <1>19, <1>20, <1>21, <1>22
  DEF Next, Handler

LEMMA OrderAlways == Spec => []OrderInv
<1>1. Init => OrderInv
  BY DEF Init, OrderInv, OwnCommits, OneWriter, Following, FileInOrder, Commits, Busy
<1>. QED
  BY <1>1, NextInOrder, TypeCorrect, PTL DEF Spec

\* Whatever uploads, failures and restarts come between, what is in a file is in
\* the order of the chunk numbers and without holes, unless two commits of the
\* local store wrote over each other.
THEOREM OrderKept == Spec => []FileInOrder
<1>1. OrderInv => FileInOrder
  BY DEF OrderInv
<1>. QED
  BY <1>1, OrderAlways, PTL

-----------------------------------------------------------------------------
(* Sessions *)

\* Only a commit that has recorded its asset deletes a session.
Recorded == \A r \in Requests : Busy(r, "close") => asset[req[r].path] # None

\* What the end of a local commit makes of the handlers.
LEMMA Removes ==
    ASSUME TypeOK, NEW r \in Requests, CommitRemove(r)
    PROVE  \A g \in Requests :
             req'[g] = None \/ req'[g] = req[g] \/ req'[g].op \in {"stat", "copy"}
<1>1. req[r] \in Committing
  BY BusyType DEF CommitRemove, CommitOps
<1>2. ASSUME NEW g \in Requests
      PROVE  req'[g] = None \/ req'[g] = req[g] \/ req'[g].op \in {"stat", "copy"}
  <2>1. CASE req'[g] = [req[g] EXCEPT !.into = "gone"] /\ Busy(g, "copy")
    <3>1. req[g] \in Copying
      BY <2>1, BusyType
    <3>. QED
      BY <2>1, <3>1 DEF Copying
  <2>2. CASE req'[g] = [req[r] EXCEPT !.op = "stat"]
    BY <1>1, <2>2 DEF Committing
  <2>. QED
    BY <2>1, <2>2 DEF CommitRemove
<1>. QED
  BY <1>2

LEMMA NextSession ==
    TypeOK /\ SessionUntilRecorded /\ Recorded /\ [Next]_vars
      => SessionUntilRecorded' /\ Recorded'
<1> SUFFICES ASSUME TypeOK, SessionUntilRecorded, Recorded, [Next]_vars
             PROVE  SessionUntilRecorded' /\ Recorded'
  OBVIOUS
<1> USE DEF SessionUntilRecorded, Recorded
<1>1. ASSUME UNCHANGED <<sessions, asset, told, unsaved>>,
             \A g \in Requests : Busy(g, "close")' => Busy(g, "close") /\ req'[g] = req[g]
      PROVE  SessionUntilRecorded' /\ Recorded'
  BY <1>1
<1>2. ASSUME NEW r \in Requests, NEW fails \in BOOLEAN, StatusList(r, fails)
      PROVE  SessionUntilRecorded' /\ Recorded'
  <2>1. \A g \in Requests : req'[g].op = "open" \/ req'[g] = req[g]
    BY <1>2 DEF StatusList, TypeOK
  <2>. QED
    BY <1>1, <1>2, <2>1 DEF StatusList, Busy
<1>3. ASSUME NEW r \in Requests, NEW fails \in BOOLEAN, StatusSave(r, fails)
      PROVE  SessionUntilRecorded' /\ Recorded'
  BY <1>3 DEF StatusSave, Done, Busy, TypeOK
<1>4. ASSUME NEW p \in Paths, NEW k \in Chunks, UploadMap(p, k)
      PROVE  SessionUntilRecorded' /\ Recorded'
  BY <1>1, <1>4 DEF UploadMap, Busy, opens, uploads
<1>5. ASSUME NEW r \in Requests, NEW p \in Paths, NEW k \in Chunks, UploadCreate(r, p, k)
      PROVE  SessionUntilRecorded' /\ Recorded'
  <2>1. \A g \in Requests : req'[g].op = "copy" \/ req'[g] = req[g]
    BY <1>5, Creates
  <2>. QED
    BY <1>1, <1>5, <2>1 DEF UploadCreate, Busy, opens, uploads
<1>6. ASSUME NEW r \in Requests, UploadWrite(r) \/ UploadCopy(r) \/ CommitBreaks(r) \/ Fails(r)
      PROVE  SessionUntilRecorded' /\ Recorded'
  BY <1>1, <1>6 DEF UploadWrite, UploadCopy, CommitBreaks, Fails, Done, Busy, TypeOK, history, opens, uploads
<1>7. ASSUME NEW r \in Requests, NEW p \in Paths, CommitList(r, p) \/ CommitAssemble(r, p)
      PROVE  SessionUntilRecorded' /\ Recorded'
  <2>1. \A g \in Requests : req'[g].op \in {"create", "put"} \/ req'[g] = req[g]
    BY <1>7 DEF CommitList, CommitAssemble, TypeOK
  <2>. QED
    BY <1>1, <1>7, <2>1 DEF CommitList, CommitAssemble, Busy, history, opens, uploads
<1>8. ASSUME NEW r \in Requests,
             CommitCreate(r) \/ CommitPut(r) \/ CommitForget(r) \/ CommitStat(r)
      PROVE  SessionUntilRecorded' /\ Recorded'
  <2>1. req[r] \in Committing
    BY <1>8, BusyType DEF CommitCreate, CommitPut, CommitForget, CommitStat, CommitOps
  <2>2. \A g \in Requests :
          req'[g].op \in {"append", "forget", "stat", "record"} \/ req'[g] = req[g]
    BY <1>8, <2>1
    DEF CommitCreate, CommitPut, CommitForget, CommitStat, Goes, Committing, TypeOK
  <2>. QED
    BY <1>1, <1>8, <2>2
    DEF CommitCreate, CommitPut, CommitForget, CommitStat, Busy, history, opens, uploads
<1>9. ASSUME NEW r \in Requests, CommitAppend(r) PROVE SessionUntilRecorded' /\ Recorded'
  <2>1. req[r] \in Committing /\ req[r].op = "append"
    BY <1>9, BusyType DEF CommitAppend, CommitOps, Busy
  <2>2. \A g \in Requests : req'[g].op = "append" \/ req'[g] = req[g]
    BY <1>9, <2>1 DEF CommitAppend, Committing, TypeOK
  <2>. QED
    BY <1>1, <1>9, <2>2 DEF CommitAppend, Busy, history, opens, uploads
<1>10. ASSUME NEW r \in Requests, CommitRemove(r)
       PROVE  SessionUntilRecorded' /\ Recorded'
  <2>1. \A g \in Requests :
          req'[g] = None \/ req'[g] = req[g] \/ req'[g].op \in {"stat", "copy"}
    BY <1>10, Removes
  <2>. QED
    BY <1>1, <1>10, <2>1 DEF CommitRemove, Busy, opens, uploads
<1>11. ASSUME NEW r \in Requests, CommitRecord(r) PROVE SessionUntilRecorded' /\ Recorded'
  <2> DEFINE q == [req[r] EXCEPT !.op = "close"]
  <2>1. req[r] \in Committing
    BY <1>11, BusyType DEF CommitRecord, CommitOps
  <2>2. q.path = req[r].path /\ req[r].path \in Paths /\ req[r].size \in Nat
    BY <2>1 DEF Committing
  <2>3. /\ req' = [req EXCEPT ![r] = q] /\ asset' = [asset EXCEPT ![q.path] = req[r].size]
        /\ UNCHANGED <<sessions, told, unsaved>>
    BY <1>11, <2>2 DEF CommitRecord, Goes, history, opens, uploads
  <2> HIDE DEF q
  <2>4. asset'[q.path] # None /\ \A p \in Paths : asset[p] # None => asset'[p] # None
    BY <2>2, <2>3 DEF TypeOK
  <2>5. ASSUME NEW g \in Requests, Busy(g, "close")' PROVE asset'[req'[g].path] # None
    <3>1. CASE g = r
      BY <2>3, <2>4, <3>1 DEF TypeOK
    <3>2. CASE g # r
      <4>1. req'[g] = req[g] /\ Busy(g, "close")
        BY <2>3, <2>5, <3>2 DEF Busy, TypeOK
      <4>2. req[g].path \in Paths
        BY <4>1, BusyType DEF CommitOps, Committing
      <4>. QED
        BY <2>4, <4>1, <4>2
    <3>. QED
      BY <3>1, <3>2
  <2>. QED
    BY <2>3, <2>4, <2>5 DEF TypeOK
<1>12. ASSUME NEW r \in Requests, NEW fails \in BOOLEAN, CommitClose(r, fails)
       PROVE  SessionUntilRecorded' /\ Recorded'
  BY <1>12 DEF CommitClose, Done, Busy, TypeOK, history, opens, uploads
<1>13. CASE Restart
  BY <1>13 DEF Restart, Busy, opens, uploads
<1>14. CASE UNCHANGED vars
  BY <1>14 DEF vars, Busy
<1>. QED
  BY <1>2, <1>3, <1>4, <1>5, <1>6, <1>7, <1>8, <1>9, <1>10, <1>11, <1>12, <1>13, <1>14
  DEF Next, Handler

\* Whichever call of a commit fails, and whenever the process dies, a saved session
\* stays until the asset is recorded: the client can find its chunks and go on.
THEOREM SessionFound == Spec => []SessionUntilRecorded
<1>1. Init => SessionUntilRecorded /\ Recorded
  BY DEF Init, SessionUntilRecorded, Recorded, Busy
<1>. QED
  BY <1>1, NextSession, TypeCorrect, PTL DEF Spec

\* When every look-up sees all there is and is alone, one that is about to save a
\* session has found none, and no other is about to.
OneInv ==
    shared /\ unsaved = {} =>
        /\ \A p, q \in sessions : p = q
        /\ \A r \in Requests : Busy(r, "open") => sessions = {}
        /\ \A r, g \in Requests : Busy(r, "open") /\ Busy(g, "open") => r = g

LEMMA NextOne == TypeOK /\ OneInv /\ [Next]_vars => OneInv'
<1> SUFFICES ASSUME TypeOK, OneInv, [Next]_vars PROVE OneInv'
  OBVIOUS
<1>1. ASSUME UNCHANGED <<shared, unsaved>>, sessions' \subseteq sessions,
             \A g \in Requests : req'[g] = req[g] \/ req'[g] = None \/ req'[g].op # "open"
      PROVE  OneInv'
  <2>1. \A g \in Requests : Busy(g, "open")' => Busy(g, "open")
    BY <1>1 DEF Busy
  <2>. QED
    BY <1>1, <2>1 DEF OneInv
<1>2. ASSUME NEW r \in Requests, NEW fails \in BOOLEAN, StatusList(r, fails) PROVE OneInv'
  <2> SUFFICES ASSUME shared', unsaved' = {}
               PROVE  /\ sessions' = {}
                      /\ \A g \in Requests : Busy(g, "open")' => g = r
    BY DEF OneInv
  <2>1. \A g \in Requests : g # r => req'[g] = req[g]
    BY <1>2 DEF StatusList, TypeOK
  <2>2. sessions = {} /\ sessions' = sessions /\ ~OpensNow
    BY <1>2 DEF StatusList, NoSession
  <2>. QED
    BY <2>1, <2>2 DEF OpensNow, Busy
<1>3. ASSUME NEW r \in Requests, NEW fails \in BOOLEAN, StatusSave(r, fails) PROVE OneInv'
  <2> SUFFICES ASSUME shared', unsaved' = {}
               PROVE  /\ \A p, q \in sessions' : p = q
                      /\ \A g \in Requests : ~Busy(g, "open")'
    BY DEF OneInv
  <2>1. ~fails /\ unsaved = {} /\ shared
    BY <1>3 DEF StatusSave
  <2>2. sessions = {} /\ \A g \in Requests : Busy(g, "open") => g = r
    BY <1>3, <2>1 DEF OneInv, StatusSave
  <2>3. sessions' = {req[r].path}
    BY <1>3, <2>1, <2>2 DEF StatusSave
  <2>4. \A g \in Requests : req'[g] = IF g = r THEN None ELSE req[g]
    BY <1>3 DEF StatusSave, Done, TypeOK
  <2>. QED
    BY <2>2, <2>3, <2>4 DEF Busy
<1>4. ASSUME NEW p \in Paths, NEW k \in Chunks, UploadMap(p, k) PROVE OneInv'
  BY <1>1, <1>4 DEF UploadMap, opens
<1>5. ASSUME NEW r \in Requests, NEW p \in Paths, NEW k \in Chunks, UploadCreate(r, p, k)
      PROVE  OneInv'
  <2>1. \A g \in Requests : req'[g].op = "copy" \/ req'[g] = req[g]
    BY <1>5, Creates
  <2>. QED
    BY <1>1, <1>5, <2>1 DEF UploadCreate, opens
<1>6. ASSUME NEW r \in Requests, UploadWrite(r) \/ UploadCopy(r) \/ CommitBreaks(r) \/ Fails(r)
      PROVE  OneInv'
  BY <1>1, <1>6 DEF UploadWrite, UploadCopy, CommitBreaks, Fails, Done, TypeOK, history, opens
<1>7. ASSUME NEW r \in Requests, NEW p \in Paths, CommitList(r, p) \/ CommitAssemble(r, p)
      PROVE  OneInv'
  <2>1. \A g \in Requests : req'[g].op \in {"create", "put"} \/ req'[g] = req[g]
    BY <1>7 DEF CommitList, CommitAssemble, TypeOK
  <2>. QED
    BY <1>1, <1>7, <2>1 DEF CommitList, CommitAssemble, history, opens
<1>8. ASSUME NEW r \in Requests,
             CommitCreate(r) \/ CommitPut(r) \/ CommitForget(r) \/ CommitStat(r)
      PROVE  OneInv'
  <2>1. req[r] \in Committing
    BY <1>8, BusyType DEF CommitCreate, CommitPut, CommitForget, CommitStat, CommitOps
  <2>2. \A g \in Requests :
          req'[g].op \in {"append", "forget", "stat", "record"} \/ req'[g] = req[g]
    BY <1>8, <2>1
    DEF CommitCreate, CommitPut, CommitForget, CommitStat, Goes, Committing, TypeOK
  <2>. QED
    BY <1>1, <1>8, <2>2
    DEF CommitCreate, CommitPut, CommitForget, CommitStat, history, opens
<1>9. ASSUME NEW r \in Requests, CommitAppend(r) PROVE OneInv'
  <2>1. req[r] \in Committing /\ req[r].op = "append"
    BY <1>9, BusyType DEF CommitAppend, CommitOps, Busy
  <2>2. \A g \in Requests : req'[g].op = "append" \/ req'[g] = req[g]
    BY <1>9, <2>1 DEF CommitAppend, Committing, TypeOK
  <2>. QED
    BY <1>1, <1>9, <2>2 DEF CommitAppend, history, opens
<1>10. ASSUME NEW r \in Requests, CommitRemove(r) PROVE OneInv'
  <2>1. \A g \in Requests :
          req'[g] = None \/ req'[g] = req[g] \/ req'[g].op \in {"stat", "copy"}
    BY <1>10, Removes
  <2>. QED
    BY <1>1, <1>10, <2>1 DEF CommitRemove, opens
<1>11. ASSUME NEW r \in Requests, CommitRecord(r) PROVE OneInv'
  <2>1. req[r] \in Committing
    BY <1>11, BusyType DEF CommitRecord, CommitOps
  <2>2. \A g \in Requests : req'[g].op = "close" \/ req'[g] = req[g]
    BY <1>11, <2>1 DEF CommitRecord, Goes, Committing, TypeOK
  <2>. QED
    BY <1>1, <1>11, <2>2 DEF CommitRecord, history, opens
<1>12. ASSUME NEW r \in Requests, NEW fails \in BOOLEAN, CommitClose(r, fails) PROVE OneInv'
  <2>1. sessions' \subseteq sessions
    BY <1>12 DEF CommitClose
  <2>. QED
    BY <1>1, <1>12, <2>1 DEF CommitClose, Done, TypeOK, history, opens
<1>13. CASE Restart
  BY <1>1, <1>13 DEF Restart, opens
<1>14. CASE UNCHANGED vars
  BY <1>1, <1>14 DEF vars
<1>. QED
  BY <1>2, <1>3, <1>4, <1>5, <1>6, <1>7, <1>8, <1>9, <1>10, <1>11, <1>12, <1>13, <1>14
  DEF Next, Handler

\* As long as every look-up of a session saw all of them, ran alone, and saved what
\* it made, a client that comes back is sent to the same path: there is never a
\* second session to choose from, whatever commits, failures and restarts do.
THEOREM SessionsAgree == Spec => []OneSession
<1>1. Init => OneInv
  BY DEF Init, OneInv, Busy
<1>2. Spec => []OneInv
  BY <1>1, NextOne, TypeCorrect, PTL DEF Spec
<1>3. OneInv => OneSession
  <2> SUFFICES ASSUME OneInv, shared, unsaved = {} PROVE Cardinality(sessions) <= 1
    BY DEF OneSession
  <2>1. CASE sessions = {}
    <3>1. Cardinality(sessions) = 0
      BY <2>1, FS_EmptySet
    <3>. QED
      BY <3>1
  <2>2. CASE sessions # {}
    <3>1. PICK p : p \in sessions
      BY <2>2
    <3>2. sessions = {p}
      BY <3>1 DEF OneInv
    <3>3. Cardinality(sessions) = 1
      BY <3>2, FS_Singleton
    <3>. QED
      BY <3>3
  <2>. QED
    BY <2>1, <2>2
<1>. QED
  BY <1>2, <1>3, PTL

-----------------------------------------------------------------------------
(* What a recorded asset is *)

Whole(p) == {k \in Chunks : chunks[p][k] = "whole"}

\* The SQLite store has no upload that is half done.
StoreInv ==
    /\ driver = "sqlite" =>
         /\ \A r \in Requests : ~Busy(r, "copy")
         /\ \A p \in Paths, k \in Chunks : chunks[p][k] \notin {"empty", "part"}
         /\ begun = acked
    /\ overlaid \subseteq disturbed

\* Until chunks are taken away, what was acknowledged is stored, and nothing else
\* than what the client began to send, ...
Kept(p) ==
    p \notin cleared =>
        /\ acked[p] \subseteq Whole(p) /\ Stored(p) \subseteq begun[p]
        /\ \A r \in Requests :
             Busy(r, "copy") /\ req[r].path = p => req[r].into # "gone" /\ req[r].no \in begun[p]

\* ... and from the first commit on nothing is uploaded any more.
Apart(p) == CommitsNow(p) \/ p \in cleared => ~UploadsNow(p)

\* The SQLite store takes all chunks away or none.
Emptied(p) == driver = "sqlite" /\ p \in cleared => Stored(p) = {}

\* The file has what was acknowledged, but for the chunks left to be copied, ...
Holds(p, left) ==
    \E has \in SUBSET (begun[p] \ left) : acked[p] \ left \subseteq has /\ file[p] \in Ordered(has)

\* ... and no part only of such a chunk.
Sound(p) == \A i \in DOMAIN file[p] : file[p][i] \in acked[p] => i \notin torn[p]

InFile(p) == Holds(p, {}) /\ Sound(p)

\* How far a commit c has come: what was acknowledged is in the file, or in what
\* the commit has still to copy.
StageOK(c, p) ==
    /\ c.op = "create" => p \notin cleared /\ acked[p] \subseteq c.names
    /\ c.op = "append" => p \notin cleared /\ Holds(p, c.names) /\ Sound(p)
    /\ c.op = "put" => c.names = acked[p]
    /\ c.op \in {"forget", "stat", "record", "close"} => InFile(p)
    /\ c.op \in {"stat", "record", "close"} => p \in cleared
    /\ c.op = "record" => c.size = Len(file[p])

Stages(p) == \A r \in Requests : Commits(r, p) => StageOK(req[r], p)

Shows(p) == asset[p] # None => p \in cleared /\ InFile(p) /\ asset[p] = Len(file[p])

PathOK(p) == Kept(p) /\ Apart(p) /\ Emptied(p) /\ Stages(p) /\ Shows(p)

WholeInv == StoreInv /\ \A p \in Paths \ disturbed : PathOK(p)

\* The files that hold the same chunks are equally long.
LEMMA OrderedLen ==
    ASSUME NEW S \in SUBSET Chunks, NEW s \in Ordered(S)
    PROVE  Len(s) = Cardinality(S)
<1> DEFINE n == Cardinality(S)
<1>1. n \in Nat
  BY SubsetFinite
<1> HIDE DEF n
<1>2. s \in [1 .. n -> S]
  BY DEF Ordered, n
<1>3. Len(s) = n
  BY <1>1, <1>2
<1>. QED
  BY <1>3 DEF n

\* Nothing copied yet: the empty file.
LEMMA OrderedEmpty == <<>> \in Ordered({})
<1>1. Cardinality({}) = 0
  BY FS_EmptySet
<1>2. <<>> \in [1 .. 0 -> {}]
  OBVIOUS
<1>. QED
  BY <1>1, <1>2 DEF Ordered, Ascends

\* A chunk that is copied behind the others.
LEMMA OrderedAppend ==
    ASSUME NEW S \in SUBSET Chunks, NEW f \in Ordered(S), InOrder(f),
           NEW names \in SUBSET Chunks, S \cap names = {}, Follows(f, Len(f), names),
           NEW k \in names, \A j \in names : k <= j
    PROVE  Written(f, Len(f), k) \in Ordered(S \cup {k})
<1> DEFINE n == Len(f)
           w == Written(f, n, k)
<1>1. f \in Seq(Int)
  BY OrderedType
<1>2. n \in Nat /\ n = Cardinality(S)
  BY OrderedLen, SubsetFinite
<1>3. f \in [1 .. n -> S]
  BY <1>2 DEF Ordered
<1>4. Ascends(w)
  BY <1>1, WrittenInOrder DEF InOrder
<1>5. Cardinality(S \cup {k}) = n + 1
  BY <1>2, SubsetFinite, FS_AddElement
<1>6. w \in [1 .. n + 1 -> S \cup {k}]
  <2>1. w = [i \in 1 .. n + 1 |->
               IF i = n + 1 THEN k ELSE IF i <= Len(f) THEN f[i] ELSE Hole]
    <3>1. ~(n < n) /\ Len(f) = n
      BY <1>2
    <3> HIDE DEF n
    <3>. QED
      BY <3>1 DEF Written
  <2>2. Len(f) = n
    OBVIOUS
  <2> HIDE DEF w, n
  <2>3. ASSUME NEW i \in 1 .. n + 1
        PROVE  (IF i = n + 1 THEN k ELSE IF i <= Len(f) THEN f[i] ELSE Hole) \in S \cup {k}
    BY <1>2, <1>3, <2>2
  <2>. QED
    BY <2>1, <2>3
<1> HIDE DEF w, n
<1>7. w \in Ordered(S \cup {k})
  BY <1>4, <1>5, <1>6 DEF Ordered
<1>. QED
  BY <1>7 DEF w, n

-----------------------------------------------------------------------------

\* A step for one path leaves what holds of another.
LEMMA Elsewhere ==
    ASSUME NEW p \in Paths, PathOK(p),
           UNCHANGED <<driver, asset[p], file[p], torn[p], begun[p], acked[p], chunks[p]>>,
           p \in cleared' <=> p \in cleared,
           \A g \in Requests :
               req'[g] = req[g] \/ req'[g] = None \/ req'[g].op = "open" \/ req'[g].path # p
    PROVE  PathOK(p)'
<1>1. \A g \in Requests, op \in {"copy"} \cup CommitOps :
        Busy(g, op)' /\ req'[g].path = p => Busy(g, op) /\ req'[g] = req[g]
  BY DEF Busy, CommitOps
<1>2. \A g \in Requests : Commits(g, p)' => Commits(g, p) /\ req'[g] = req[g]
  BY DEF Commits
<1>3. /\ Whole(p)' = Whole(p) /\ Stored(p)' = Stored(p) /\ (InFile(p)' <=> InFile(p))
      /\ Sound(p)' <=> Sound(p)
  BY DEF Whole, Stored, InFile, Holds, Sound
<1>4. Kept(p)' /\ Emptied(p)' /\ Shows(p)'
  BY <1>1, <1>3 DEF PathOK, Kept, Emptied, Shows
<1>5. Apart(p)'
  BY <1>1, <1>2 DEF PathOK, Apart, CommitsNow, UploadsNow, Commits
<1>6. Stages(p)'
  <2> SUFFICES ASSUME NEW g \in Requests, Commits(g, p)'
               PROVE  StageOK(req[g], p)'
    BY <1>2 DEF Stages
  <2>1. StageOK(req[g], p) /\ req'[g] = req[g]
    BY <1>2 DEF PathOK, Stages
  <2>2. PICK c : c = req[g] /\ req'[g] = c
    BY <2>1
  <2>3. Holds(p, c.names)' <=> Holds(p, c.names)
    BY DEF Holds
  <2>4. StageOK(c, p) => StageOK(c, p)'
    BY <1>3, <2>3 DEF StageOK
  <2>. QED
    BY <2>1, <2>2, <2>4
<1>. QED
  BY <1>4, <1>5, <1>6 DEF PathOK

\* While uploads are all there is.
LEMMA Uploading ==
    ASSUME NEW p \in Paths, PathOK(p), p \notin cleared, cleared' = cleared, asset' = asset,
           acked'[p] \subseteq Whole(p)', Stored(p)' \subseteq begun'[p],
           \A g \in Requests : ~Commits(g, p)',
           \A g \in Requests :
               (Busy(g, "copy") /\ req[g].path = p => req[g].into # "gone" /\ req[g].no \in begun[p])'
    PROVE  PathOK(p)'
<1>1. Kept(p)' /\ Emptied(p)' /\ Stages(p)'
  BY DEF Kept, Emptied, Stages
<1>2. Apart(p)'
  BY DEF Apart, CommitsNow, Commits
<1>3. Shows(p)'
  BY DEF PathOK, Shows
<1>. QED
  BY <1>1, <1>2, <1>3 DEF PathOK

\* What an upload does to its chunk: acknowledged chunks stay whole.
LEMMA Arrives ==
    ASSUME TypeOK, NEW p \in Paths, NEW k \in Chunks, NEW has, Kept(p), p \notin cleared,
           chunks' = [chunks EXCEPT ![p][k] = has],
           begun[p] \subseteq begun'[p], k \in begun'[p],
           acked'[p] \subseteq acked[p] \cup {k}, has = "whole" \/ k \notin acked'[p]
    PROVE  acked'[p] \subseteq Whole(p)' /\ Stored(p)' \subseteq begun'[p]
<1>1. \A j \in Chunks : chunks'[p][j] = IF j = k THEN has ELSE chunks[p][j]
  BY DEF TypeOK
<1>2. acked[p] \subseteq Whole(p) /\ Stored(p) \subseteq begun[p]
  BY DEF Kept
<1>. QED
  BY <1>1, <1>2 DEF Whole, Stored

\* A commit of the local store that nothing came over is the only one.
LEMMA Alone ==
    ASSUME TypeOK, OrderInv, StoreInv, NEW p \in Paths \ disturbed, NEW r \in Requests,
           Busy(r, "create") \/ Busy(r, "append"), req[r].path = p
    PROVE  /\ driver = "local" /\ Commits(r, p) /\ p \notin overlaid
           /\ \A g \in Requests : Commits(g, p) => g = r
<1>1. driver = "local" /\ p \notin overlaid
  BY DEF OrderInv, OwnCommits, TypeOK, StoreInv
<1>2. Commits(r, p)
  BY DEF Busy, Commits
<1>. QED
  BY <1>1, <1>2 DEF OrderInv, OneWriter

\* A commit goes on to its next call.
LEMMA Advances ==
    ASSUME TypeOK, NEW p \in Paths, PathOK(p), NEW r \in Requests, Commits(r, p),
           NEW q, q # None, q.op \in CommitOps, q.path = p, req' = [req EXCEPT ![r] = q],
           acked' = acked, begun' = begun,
           p \notin cleared' => p \notin cleared /\ chunks' = chunks,
           Emptied(p)', Shows(p)', StageOK(q, p)',
           (\A g \in Requests \ {r} : Commits(g, p) => StageOK(req[g], p))'
    PROVE  PathOK(p)'
<1>1. \A g \in Requests : req'[g] = IF g = r THEN q ELSE req[g]
  BY DEF TypeOK
<1>2. ~UploadsNow(p)
  BY DEF PathOK, Apart, CommitsNow, Commits
<1>3. ~UploadsNow(p)'
  BY <1>1, <1>2 DEF UploadsNow, Busy, CommitOps
<1>4. Kept(p)'
  <2> SUFFICES ASSUME p \notin cleared' PROVE Kept(p)'
    BY DEF Kept
  <2>1. /\ acked[p] \subseteq Whole(p) /\ Whole(p)' = Whole(p)
        /\ Stored(p) \subseteq begun[p] /\ Stored(p)' = Stored(p)
    BY DEF PathOK, Kept, Whole, Stored
  <2>. QED
    BY <1>3, <2>1 DEF Kept, UploadsNow
<1>5. Stages(p)'
  <2> SUFFICES ASSUME NEW g \in Requests, Commits(g, p)' PROVE StageOK(req[g], p)'
    BY DEF Stages
  <2>1. CASE g = r
    <3>1. req'[g] = q
      BY <1>1, <2>1
    <3>. QED
      BY <3>1 DEF StageOK, InFile, Holds, Sound
  <2>2. CASE g # r
    BY <2>2
  <2>. QED
    BY <2>1, <2>2
<1>. QED
  BY <1>3, <1>4, <1>5 DEF PathOK, Apart

LEMMA NextStore ==
    TypeOK /\ OrderInv /\ StoreInv /\ [Next]_vars
      => StoreInv' /\ disturbed \subseteq disturbed'
<1> SUFFICES ASSUME TypeOK, OrderInv, StoreInv, [Next]_vars
             PROVE  StoreInv' /\ disturbed \subseteq disturbed'
  OBVIOUS
<1>1. ASSUME UNCHANGED <<driver, begun, acked, disturbed, overlaid>>,
             \A p \in Paths, k \in Chunks : chunks'[p][k] \in {chunks[p][k], None, "whole"},
             \A g \in Requests :
                 req'[g] = req[g] \/ req'[g] = None \/ req'[g].op # "copy" \/ Busy(g, "copy")
      PROVE  StoreInv' /\ disturbed \subseteq disturbed'
  BY <1>1, ChunkAssumption DEF StoreInv, Busy
<1>2. ASSUME NEW r \in Requests, NEW fails \in BOOLEAN, StatusList(r, fails)
      PROVE  StoreInv' /\ disturbed \subseteq disturbed'
  <2>1. \A g \in Requests : req'[g].op = "open" \/ req'[g] = req[g]
    BY <1>2 DEF StatusList, TypeOK
  <2>. QED
    BY <1>1, <1>2, <2>1 DEF StatusList, uploads
<1>3. ASSUME NEW r \in Requests, NEW fails \in BOOLEAN, StatusSave(r, fails)
      PROVE  StoreInv' /\ disturbed \subseteq disturbed'
  BY <1>1, <1>3 DEF StatusSave, Done, TypeOK, uploads
<1>4. ASSUME NEW p \in Paths, NEW k \in Chunks, UploadMap(p, k)
      PROVE  StoreInv' /\ disturbed \subseteq disturbed'
  <2>1. \A o \in Paths, j \in Chunks : chunks'[o][j] \in {chunks[o][j], "whole"}
    BY <1>4 DEF UploadMap, TypeOK
  <2>2. UNCHANGED <<driver, req, overlaid>> /\ disturbed \subseteq disturbed'
    BY <1>4 DEF UploadMap, DisturbedByUpload
  <2>3. begun' = acked'
    BY <1>4 DEF UploadMap, StoreInv
  <2>. QED
    BY <2>1, <2>2, <2>3, ChunkAssumption DEF StoreInv, Busy
<1>5. ASSUME NEW r \in Requests, NEW p \in Paths, NEW k \in Chunks, UploadCreate(r, p, k)
      PROVE  StoreInv' /\ disturbed \subseteq disturbed'
  BY <1>5 DEF UploadCreate, DisturbedByUpload, StoreInv
<1>6. ASSUME NEW r \in Requests, UploadWrite(r) \/ UploadCopy(r)
      PROVE  StoreInv' /\ disturbed \subseteq disturbed'
  <2>1. driver # "sqlite"
    BY <1>6 DEF UploadWrite, UploadCopy, StoreInv
  <2>. QED
    BY <1>6, <2>1 DEF UploadWrite, UploadCopy, StoreInv, history, uploads
<1>7. ASSUME NEW r \in Requests, CommitBreaks(r) \/ Fails(r)
      PROVE  StoreInv' /\ disturbed \subseteq disturbed'
  BY <1>1, <1>7 DEF CommitBreaks, Fails, Done, TypeOK, history, uploads
<1>8. ASSUME NEW r \in Requests, NEW p \in Paths, CommitList(r, p)
      PROVE  StoreInv' /\ disturbed \subseteq disturbed'
  BY <1>8 DEF CommitList, StoreInv
<1>9. ASSUME NEW r \in Requests, NEW p \in Paths, CommitAssemble(r, p)
      PROVE  StoreInv' /\ disturbed \subseteq disturbed'
  <2>1. \A g \in Requests : req'[g].op = "put" \/ req'[g] = req[g]
    BY <1>9 DEF CommitAssemble, TypeOK
  <2>. QED
    BY <1>1, <1>9, <2>1 DEF CommitAssemble, history, uploads
<1>10. ASSUME NEW r \in Requests,
              CommitCreate(r) \/ CommitPut(r) \/ CommitStat(r) \/ CommitRecord(r)
       PROVE  StoreInv' /\ disturbed \subseteq disturbed'
  <2>1. req[r] \in Committing
    BY <1>10, BusyType DEF CommitCreate, CommitPut, CommitStat, CommitRecord, CommitOps
  <2>2. \A g \in Requests :
          req'[g].op \in {"append", "forget", "record", "close"} \/ req'[g] = req[g]
    BY <1>10, <2>1
    DEF CommitCreate, CommitPut, CommitStat, CommitRecord, Goes, Committing, TypeOK
  <2>. QED
    BY <1>1, <1>10, <2>2
    DEF CommitCreate, CommitPut, CommitStat, CommitRecord, history, uploads
<1>11. ASSUME NEW r \in Requests, CommitAppend(r)
       PROVE  StoreInv' /\ disturbed \subseteq disturbed'
  <2>1. req[r] \in Committing /\ req[r].op = "append"
    BY <1>11, BusyType DEF CommitAppend, CommitOps, Busy
  <2>2. \A g \in Requests : req'[g].op = "append" \/ req'[g] = req[g]
    BY <1>11, <2>1 DEF CommitAppend, Committing, TypeOK
  <2>. QED
    BY <1>1, <1>11, <2>2 DEF CommitAppend, history, uploads
<1>12. ASSUME NEW r \in Requests, CommitRemove(r)
       PROVE  StoreInv' /\ disturbed \subseteq disturbed'
  <2>1. driver = "local"
    BY <1>12 DEF CommitRemove, OrderInv, OwnCommits, TypeOK
  <2>. QED
    BY <1>12, <2>1 DEF CommitRemove, StoreInv
<1>13. ASSUME NEW r \in Requests, CommitForget(r)
       PROVE  StoreInv' /\ disturbed \subseteq disturbed'
  <2>1. req[r] \in Committing /\ req[r].path \in Paths
    BY <1>13, BusyType DEF CommitForget, CommitOps, Committing
  <2>2. \A g \in Requests : req'[g].op = "stat" \/ req'[g] = req[g]
    BY <1>13, <2>1 DEF CommitForget, Goes, Committing, TypeOK
  <2>3. \A o \in Paths, j \in Chunks : chunks'[o][j] \in {chunks[o][j], None}
    BY <1>13, <2>1 DEF CommitForget, TypeOK
  <2>. QED
    BY <1>1, <1>13, <2>2, <2>3 DEF CommitForget
<1>14. ASSUME NEW r \in Requests, NEW fails \in BOOLEAN, CommitClose(r, fails)
       PROVE  StoreInv' /\ disturbed \subseteq disturbed'
  BY <1>1, <1>14 DEF CommitClose, Done, TypeOK, history, uploads
<1>15. CASE Restart
  <2>1. \A o \in Paths, j \in Chunks : chunks'[o][j] \in {chunks[o][j], None}
    BY <1>15 DEF Restart
  <2>. QED
    BY <1>1, <1>15, <2>1 DEF Restart
<1>16. CASE UNCHANGED vars
  BY <1>1, <1>16 DEF vars
<1>. QED
  BY <1>2, <1>3, <1>4, <1>5, <1>6, <1>7, <1>8, <1>9, <1>10, <1>11, <1>12, <1>13,
     <1>14, <1>15, <1>16
  DEF Next, Handler

\* One path that no call came late for.
LEMMA NextPath ==
    ASSUME TypeOK, OrderInv, StoreInv, [Next]_vars,
           NEW p \in Paths, p \notin disturbed, p \notin disturbed', PathOK(p)
    PROVE  PathOK(p)'
<1>1. \A c \in Committing : c.path \in Paths /\ c.names \in SUBSET Chunks /\ c.size \in Nat
  BY DEF Committing
<1>2. acked[p] \in SUBSET Chunks /\ begun[p] \in SUBSET Chunks /\ (p \notin cleared => asset[p] = None)
  BY DEF TypeOK, PathOK, Shows
<1>3. ASSUME NEW r \in Requests, NEW fails \in BOOLEAN,
             StatusList(r, fails) \/ StatusSave(r, fails) \/ CommitClose(r, fails)
      PROVE  PathOK(p)'
  <2>1. \A g \in Requests : req'[g].op = "open" \/ req'[g] = None \/ req'[g] = req[g]
    BY <1>3 DEF StatusList, StatusSave, CommitClose, Done, TypeOK
  <2>2. UNCHANGED <<driver, asset, file, torn, chunks, begun, acked, cleared>>
    BY <1>3 DEF StatusList, StatusSave, CommitClose, history, uploads
  <2>. QED
    BY <2>1, <2>2, Elsewhere
<1>4. ASSUME NEW o \in Paths, NEW k \in Chunks, UploadMap(o, k) PROVE PathOK(p)'
  <2>1. /\ UNCHANGED <<driver, asset, file, torn, req, cleared>> /\ driver = "sqlite"
        /\ chunks' = [chunks EXCEPT ![o][k] = "whole"]
        /\ begun' = [begun EXCEPT ![o] = @ \cup {k}]
        /\ acked' = [acked EXCEPT ![o] = @ \cup {k}]
    BY <1>4 DEF UploadMap
  <2>2. CASE o # p
    BY <2>1, <2>2, Elsewhere DEF TypeOK
  <2>3. CASE o = p
    <3>1. p \notin cleared /\ \A g \in Requests : ~Commits(g, p)
      BY <1>4, <2>3 DEF UploadMap, DisturbedByUpload, CommitsNow, Commits
    <3>2. acked'[p] \subseteq Whole(p)' /\ Stored(p)' \subseteq begun'[p]
      <4>1. acked'[p] = acked[p] \cup {k} /\ begun'[p] = begun[p] \cup {k}
        BY <2>1, <2>3 DEF TypeOK
      <4>. QED
        BY <2>1, <2>3, <3>1, <4>1, Arrives DEF PathOK
    <3>3. \A g \in Requests : ~Commits(g, p)' /\ ~Busy(g, "copy")'
      BY <2>1, <3>1 DEF Commits, Busy, StoreInv
    <3>. QED
      BY <2>1, <3>1, <3>2, <3>3, Uploading
  <2>. QED
    BY <2>2, <2>3
<1>5. ASSUME NEW r \in Requests, NEW o \in Paths, NEW k \in Chunks, UploadCreate(r, o, k)
      PROVE  PathOK(p)'
  <2>1. /\ UNCHANGED <<driver, asset, file, torn, cleared>>
        /\ chunks' = [chunks EXCEPT ![o][k] = "empty"]
        /\ begun' = [begun EXCEPT ![o] = @ \cup {k}]
        /\ acked' = [acked EXCEPT ![o] = @ \ {k}]
    BY <1>5 DEF UploadCreate
  <2>2. req'[r].op = "copy" /\ req'[r].path = o /\ req'[r].into = "own" /\ req'[r].no = k
    <3>1. req'[r].no = k
      BY <1>5 DEF UploadCreate
    <3>. QED
      BY <1>5, <3>1, Creates
  <2>3. \A g \in Requests \ {r} :
          \/ req'[g] = req[g]
          \/ /\ Busy(g, "copy") /\ req[g].path = o /\ req'[g].no = req[g].no
             /\ req'[g].op = "copy" /\ req'[g].path = o /\ req'[g].into = "shared"
    <3>1. ASSUME NEW g \in Requests \ {r}, Busy(g, "copy")
          PROVE  req'[g].no = req[g].no
      <4>1. req'[g] = req[g] \/ req'[g] = [req[g] EXCEPT !.into = "shared"]
        BY <1>5 DEF UploadCreate
      <4>2. req[g] \in Copying
        BY <3>1, BusyType
      <4>. QED
        BY <4>1, <4>2 DEF Copying
    <3>. QED
      BY <1>5, <3>1, Creates
  <2>4. CASE o # p
    <3>1. \A g \in Requests : req'[g] = req[g] \/ req'[g].path # p
      BY <2>2, <2>3, <2>4
    <3>. QED
      BY <2>1, <2>4, <3>1, Elsewhere DEF TypeOK
  <2>5. CASE o = p
    <3>1. p \notin cleared /\ \A g \in Requests : ~Commits(g, p)
      BY <1>5, <2>5 DEF UploadCreate, DisturbedByUpload, CommitsNow, Commits
    <3>2. acked'[p] = acked[p] \ {k} /\ begun'[p] = begun[p] \cup {k}
      BY <2>1, <2>5 DEF TypeOK
    <3>3. acked'[p] \subseteq Whole(p)' /\ Stored(p)' \subseteq begun'[p]
      BY <2>1, <2>5, <3>1, <3>2, Arrives DEF PathOK
    <3>4. \A g \in Requests : ~Commits(g, p)'
      BY <2>2, <2>3, <3>1 DEF Commits
    <3>5. ASSUME NEW g \in Requests, Busy(g, "copy")', req'[g].path = p
          PROVE  req'[g].into # "gone" /\ req'[g].no \in begun'[p]
      <4>1. CASE g = r
        BY <2>2, <3>2, <4>1
      <4>2. CASE g # r
        <5>1. Busy(g, "copy") /\ req[g].path = p /\ req'[g].no = req[g].no
              /\ (req'[g].into = req[g].into \/ req'[g].into = "shared")
          BY <2>3, <2>5, <3>5, <4>2 DEF Busy
        <5>2. req[g].into # "gone" /\ req[g].no \in begun[p]
          BY <3>1, <5>1 DEF PathOK, Kept
        <5>. QED
          BY <3>2, <5>1, <5>2
      <4>. QED
        BY <4>1, <4>2
    <3>. QED
      BY <2>1, <3>1, <3>3, <3>4, <3>5, Uploading
  <2>. QED
    BY <2>4, <2>5
<1>6. ASSUME NEW r \in Requests, UploadWrite(r) \/ UploadCopy(r) PROVE PathOK(p)'
  <2>1. req[r] \in Copying /\ req[r].path \in Paths /\ req[r].no \in Chunks /\ Busy(r, "copy")
    BY <1>6, BusyType DEF UploadWrite, UploadCopy, Copying
  <2>2. PICK o \in Paths, k \in Chunks : o = req[r].path /\ k = req[r].no
    BY <2>1
  <2>3. UNCHANGED <<driver, asset, file, torn, begun, cleared>>
    BY <1>6 DEF UploadWrite, UploadCopy, history, uploads
  <2>4. \A g \in Requests : req'[g] = None \/ req'[g] = req[g]
    BY <1>6 DEF UploadWrite, UploadCopy, Done, TypeOK
  <2>5. CASE o # p
    <3>1. chunks'[p] = chunks[p] /\ acked'[p] = acked[p]
      BY <1>6, <2>2, <2>5 DEF UploadWrite, UploadCopy, history, uploads, TypeOK
    <3>. QED
      BY <2>3, <2>4, <3>1, Elsewhere
  <2>6. CASE o = p
    <3>1. p \notin cleared /\ \A g \in Requests : ~Commits(g, p)
      BY <2>1, <2>2, <2>6 DEF UploadsNow, PathOK, Apart, CommitsNow, Commits
    <3>2. req[r].into # "gone" /\ k \in begun[p] /\ acked[p] \subseteq Whole(p)
      BY <2>1, <2>2, <2>6, <3>1 DEF PathOK, Kept
    <3>3. PICK has : /\ chunks' = [chunks EXCEPT ![p][k] = has]
                     /\ acked'[p] \subseteq acked[p] \cup {k}
                     /\ has = "whole" \/ k \notin acked'[p]
      <4>1. CASE UploadWrite(r)
        <5>1. /\ chunks' = [chunks EXCEPT ![p][k] = "part"] /\ acked' = acked
              /\ chunks[p][k] = "empty"
          BY <2>2, <2>6, <4>1 DEF UploadWrite, history, uploads
        <5>2. k \notin acked[p]
          BY <3>2, <5>1 DEF Whole
        <5>. QED
          BY <5>1, <5>2
      <4>2. CASE UploadCopy(r) /\ req[r].into = "own"
        <5>1. /\ chunks' = [chunks EXCEPT ![p][k] = "whole"]
              /\ acked' = [acked EXCEPT ![p] = @ \cup {k}]
          BY <2>2, <2>6, <4>2 DEF UploadCopy
        <5>2. acked'[p] = acked[p] \cup {k}
          BY <5>1 DEF TypeOK
        <5>. QED
          BY <5>1, <5>2
      <4>3. CASE UploadCopy(r) /\ req[r].into = "shared"
        <5>1. PICK has : /\ chunks[p][k] = "whole" => has = "whole"
                         /\ chunks' = [chunks EXCEPT ![p][k] = has]
          BY <2>2, <2>6, <4>3 DEF UploadCopy
        <5>2. acked' = acked
          BY <4>3 DEF UploadCopy
        <5>3. k \in acked[p] => chunks[p][k] = "whole"
          BY <3>2 DEF Whole
        <5>. QED
          BY <5>1, <5>2, <5>3
      <4>. QED
        BY <1>6, <3>2, <4>1, <4>2, <4>3 DEF UploadCopy
    <3>4. acked'[p] \subseteq Whole(p)' /\ Stored(p)' \subseteq begun'[p]
      <4>1. Kept(p) /\ begun'[p] = begun[p]
        BY <2>3 DEF PathOK
      <4>. QED
        BY <3>1, <3>2, <3>3, <4>1, Arrives
    <3>5. \A g \in Requests : ~Commits(g, p)'
      BY <2>4, <3>1 DEF Commits
    <3>6. \A g \in Requests :
            (Busy(g, "copy") /\ req[g].path = p => req[g].into # "gone" /\ req[g].no \in begun[p])'
      BY <2>3, <2>4, <3>1 DEF Busy, PathOK, Kept
    <3>. QED
      BY <2>3, <3>1, <3>4, <3>5, <3>6, Uploading
  <2>. QED
    BY <2>5, <2>6
<1>7. ASSUME NEW r \in Requests, Fails(r) PROVE PathOK(p)'
  <2>1. \A g \in Requests : req'[g] = None \/ req'[g] = req[g]
    BY <1>7 DEF Fails, Done, TypeOK
  <2>. QED
    BY <1>7, <2>1, Elsewhere DEF Fails, history, uploads
<1>8. ASSUME NEW r \in Requests, NEW o \in Paths, CommitList(r, o) PROVE PathOK(p)'
  <2> DEFINE q == [op |-> "create", path |-> o, names |-> Stored(o), size |-> 0]
  <2>1. q.op = "create" /\ q.path = o /\ q.names = Stored(o)
    BY DEF Stored
  <2>2. req' = [req EXCEPT ![r] = q]
    BY <1>8, Zenon DEF CommitList
  <2> HIDE DEF q
  <2>3. UNCHANGED <<driver, asset, file, torn, chunks, begun, acked, cleared>> /\ driver = "local"
    BY <1>8 DEF CommitList
  <2>4. \A g \in Requests : req'[g] = IF g = r THEN q ELSE req[g]
    BY <2>2 DEF TypeOK
  <2>5. CASE o # p
    BY <2>1, <2>3, <2>4, <2>5, Elsewhere
  <2>6. CASE o = p
    <3>1. ~UploadsNow(p) /\ p \notin cleared /\ \A g \in Requests : ~Commits(g, p)
      BY <1>8, <2>6 DEF CommitList, CommitsNow, Commits
    <3>2. ~UploadsNow(p)'
      BY <2>1, <2>4, <3>1 DEF UploadsNow, Busy
    <3>3. Kept(p)'
      <4>1. /\ acked[p] \subseteq Whole(p) /\ Whole(p)' = Whole(p)
            /\ Stored(p) \subseteq begun[p] /\ Stored(p)' = Stored(p)
        BY <2>3, <3>1 DEF PathOK, Kept, Whole, Stored
      <4>. QED
        BY <2>3, <3>2, <4>1 DEF Kept, UploadsNow
    <3>4. acked[p] \subseteq Stored(p)
      BY <3>1, ChunkAssumption DEF PathOK, Kept, Whole, Stored
    <3>5. Stages(p)'
      <4> SUFFICES ASSUME NEW g \in Requests, Commits(g, p)' PROVE StageOK(req[g], p)'
        BY DEF Stages
      <4>1. g = r /\ req'[g] = q
        BY <2>4, <3>1 DEF Commits
      <4>. QED
        BY <2>1, <2>3, <2>6, <3>1, <3>4, <4>1 DEF StageOK
    <3>6. Emptied(p)' /\ Shows(p)'
      BY <1>2, <2>3, <3>1 DEF Emptied, Shows
    <3>. QED
      BY <3>2, <3>3, <3>5, <3>6 DEF PathOK, Apart
  <2>. QED
    BY <2>5, <2>6
<1>9. ASSUME NEW r \in Requests, NEW o \in Paths, CommitAssemble(r, o) PROVE PathOK(p)'
  <2> DEFINE q == [op |-> "put", path |-> o, names |-> Stored(o), size |-> 0]
  <2>1. q.op = "put" /\ q.path = o /\ q.names = Stored(o)
    BY DEF Stored
  <2>2. req' = [req EXCEPT ![r] = q]
    BY <1>9, Zenon DEF CommitAssemble
  <2> HIDE DEF q
  <2>3. UNCHANGED <<driver, asset, file, torn, chunks, begun, acked, cleared>> /\ driver = "sqlite"
    BY <1>9 DEF CommitAssemble, history, uploads
  <2>4. \A g \in Requests : req'[g] = IF g = r THEN q ELSE req[g]
    BY <2>2 DEF TypeOK
  <2>5. CASE o # p
    BY <2>1, <2>3, <2>4, <2>5, Elsewhere
  <2>6. CASE o = p
    <3>1. p \notin cleared
      BY <1>9, <2>3, <2>6 DEF CommitAssemble, PathOK, Emptied
    <3>2. \A g \in Requests : ~Busy(g, "copy")'
      BY <2>1, <2>3, <2>4 DEF StoreInv, Busy
    <3>3. /\ acked[p] \subseteq Whole(p) /\ Whole(p)' = Whole(p)
          /\ Stored(p) \subseteq begun[p] /\ Stored(p)' = Stored(p)
      BY <2>3, <3>1 DEF PathOK, Kept, Whole, Stored
    <3>4. acked[p] = Stored(p)
      <4>1. begun[p] = acked[p]
        BY <2>3 DEF StoreInv
      <4>2. Whole(p) \subseteq Stored(p)
        BY ChunkAssumption DEF Whole, Stored
      <4>. QED
        BY <3>3, <4>1, <4>2
    <3>5. Stages(p)'
      <4> SUFFICES ASSUME NEW g \in Requests, Commits(g, p)' PROVE StageOK(req[g], p)'
        BY DEF Stages
      <4>1. CASE g = r
        BY <2>1, <2>3, <2>4, <2>6, <3>3, <3>4, <4>1 DEF StageOK
      <4>2. CASE g # r
        <5>1. req'[g] = req[g] /\ StageOK(req[g], p)
          BY <2>4, <4>2 DEF Commits, PathOK, Stages
        <5>. QED
          BY <2>3, <5>1 DEF StageOK, InFile, Holds, Sound
      <4>. QED
        BY <4>1, <4>2
    <3>6. Kept(p)' /\ Apart(p)'
      BY <2>3, <3>2, <3>3 DEF Kept, Apart, UploadsNow
    <3>7. Emptied(p)' /\ Shows(p)'
      BY <1>2, <2>3, <3>1 DEF Emptied, Shows
    <3>. QED
      BY <3>5, <3>6, <3>7 DEF PathOK
  <2>. QED
    BY <2>5, <2>6
<1>10. ASSUME NEW r \in Requests, CommitCreate(r) PROVE PathOK(p)'
  <2>1. req[r] \in Committing /\ req[r].op = "create"
    BY <1>10, BusyType DEF CommitCreate, CommitOps, Busy
  <2>2. PICK o, q : o \in Paths /\ o = req[r].path /\ q = [req[r] EXCEPT !.op = "append"]
    BY <1>1, <2>1
  <2>3. q # None /\ q.op = "append" /\ q.path = o /\ q.names = req[r].names
    BY <2>1, <2>2, ChunkAssumption DEF Committing
  <2>4. /\ req' = [req EXCEPT ![r] = q] /\ file' = [file EXCEPT ![o] = <<>>]
        /\ torn' = [torn EXCEPT ![o] = {}]
        /\ UNCHANGED <<driver, asset, chunks, begun, acked, cleared>>
    BY <1>10, <2>2 DEF CommitCreate, Goes, history, uploads
  <2>5. \A g \in Requests : req'[g] = IF g = r THEN q ELSE req[g]
    BY <2>4 DEF TypeOK
  <2>6. CASE o # p
    BY <2>3, <2>4, <2>5, <2>6, Elsewhere DEF TypeOK
  <2>7. CASE o = p
    <3>1. Commits(r, p) /\ \A g \in Requests : Commits(g, p) => g = r
      BY <1>10, <2>2, <2>7, Alone DEF CommitCreate
    <3>2. p \notin cleared /\ acked[p] \subseteq q.names
      BY <2>1, <2>3, <3>1 DEF PathOK, Stages, StageOK
    <3>3. file'[p] = <<>> /\ acked[p] \ q.names = {}
      BY <2>4, <2>7, <3>2 DEF TypeOK
    <3>4. StageOK(q, p)'
      <4>1. Holds(p, q.names)'
        BY <2>4, <3>3, OrderedEmpty DEF Holds
      <4>2. Sound(p)'
        BY <2>4, <2>7, <3>3 DEF Sound, TypeOK
      <4>. QED
        BY <2>3, <2>4, <3>2, <4>1, <4>2 DEF StageOK
    <3>5. Emptied(p)' /\ Shows(p)'
      BY <1>2, <2>4, <3>2 DEF Emptied, Shows, Stored
    <3>6. (\A g \in Requests \ {r} : Commits(g, p) => StageOK(req[g], p))'
      BY <2>5, <3>1 DEF Commits
    <3>. QED
      BY <2>3, <2>4, <2>7, <3>1, <3>4, <3>5, <3>6, Advances DEF CommitOps
  <2>. QED
    BY <2>6, <2>7
<1>11. ASSUME NEW r \in Requests, CommitAppend(r) PROVE PathOK(p)'
  <2>1. req[r] \in Committing /\ req[r].op = "append"
    BY <1>11, BusyType DEF CommitAppend, CommitOps, Busy
  <2>2. PICK o \in Paths, names \in SUBSET Chunks :
          o = req[r].path /\ names = req[r].names
    BY <1>1, <2>1
  <2>3. PICK k \in Chunks :
          /\ IsNext(k, names)
          /\ chunks[o][k] # None
          /\ IF chunks[o][k] = "empty"
             THEN /\ UNCHANGED <<file, torn>>
                  /\ req' = [req EXCEPT ![r].names = @ \ {k}]
             ELSE /\ file' = [file EXCEPT ![o] = Written(@, req[r].size, k)]
                  /\ torn' = [torn EXCEPT ![o] =
                        IF chunks[o][k] = "whole" THEN @ \ {req[r].size + 1}
                        ELSE @ \cup {req[r].size + 1}]
                  /\ req' = [req EXCEPT ![r].names = @ \ {k}, ![r].size = @ + 1]
    BY <1>11, <2>2 DEF CommitAppend
  <2>4. PICK q : /\ q # None /\ q.op = "append" /\ q.path = o /\ q.names = names \ {k}
                 /\ req' = [req EXCEPT ![r] = q]
    <3>1. CASE req' = [req EXCEPT ![r].names = @ \ {k}, ![r].size = @ + 1]
      <4> DEFINE q == [req[r] EXCEPT !.names = @ \ {k}, !.size = @ + 1]
      <4>0. q \in Committing /\ q.path = o
        BY <2>1, <2>2, StepType
      <4>1. q.op = "append" /\ q.path = o /\ q.names = names \ {k} /\ q # None
        BY <2>1, <2>2, <4>0, ChunkAssumption DEF Committing
      <4>2. req' = [req EXCEPT ![r] = q]
        BY <3>1
      <4>. QED
        BY <4>1, <4>2
    <3>2. CASE req' = [req EXCEPT ![r].names = @ \ {k}]
      <4> DEFINE q == [req[r] EXCEPT !.names = @ \ {k}]
      <4>1. q.op = "append" /\ q.path = o /\ q.names = names \ {k} /\ q \in Committing
        BY <2>1, <2>2 DEF Committing
      <4>2. req' = [req EXCEPT ![r] = q] /\ q # None
        BY <3>2, <4>1, ChunkAssumption
      <4>. QED
        BY <4>1, <4>2
    <3>. QED
      BY <2>3, <3>1, <3>2
  <2>5. \A g \in Requests : req'[g] = IF g = r THEN q ELSE req[g]
    BY <2>4 DEF TypeOK
  <2>6. UNCHANGED <<driver, asset, chunks, begun, acked, cleared>>
    BY <1>11 DEF CommitAppend, history, uploads
  <2>7. CASE o # p
    <3>1. file'[p] = file[p] /\ torn'[p] = torn[p]
      BY <2>3, <2>7 DEF TypeOK
    <3>. QED
      BY <2>4, <2>5, <2>6, <2>7, <3>1, Elsewhere
  <2>8. CASE o = p
    <3>1. /\ Commits(r, p) /\ p \notin overlaid
          /\ \A g \in Requests : Commits(g, p) => g = r
      BY <1>11, <2>2, <2>8, Alone DEF CommitAppend
    <3>2. p \notin cleared /\ Holds(p, names) /\ Sound(p)
      BY <2>1, <2>2, <3>1 DEF PathOK, Stages, StageOK
    <3>3. acked[p] \subseteq Whole(p) /\ k \in begun[p]
      BY <2>3, <2>8, <3>2 DEF PathOK, Kept, Stored
    <3>4. PICK has \in SUBSET (begun[p] \ names) :
            acked[p] \ names \subseteq has /\ file[p] \in Ordered(has)
      BY <3>2 DEF Holds
    <3>5. Holds(p, names \ {k})' /\ Sound(p)'
      <4>1. CASE chunks[p][k] # "empty"
        <5> DEFINE f == file[p]
        <5>1. k \in names /\ \A j \in names : k <= j
          BY <2>3 DEF IsNext
        <5>2. f \in Ordered(has) /\ InOrder(f)
          <6>1. f # None
            BY <1>11, <2>2, <2>8, FileOwner DEF CommitAppend, HasFile
          <6>. QED
            BY <3>1, <3>4, <6>1 DEF OrderInv, FileInOrder, InOrder
        <5>3. Follows(f, req[r].size, names)
          BY <1>11, <2>2, <2>8, <3>1 DEF CommitAppend, OrderInv, Following
        <5>4. req[r].size = Len(f) /\ Follows(f, Len(f), names)
          BY <5>3 DEF Follows
        <5>5. /\ file'[p] = Written(f, Len(f), k)
              /\ torn'[p] = IF chunks[p][k] = "whole" THEN torn[p] \ {Len(f) + 1}
                            ELSE torn[p] \cup {Len(f) + 1}
          BY <2>3, <2>8, <4>1, <5>4 DEF TypeOK
        <5>6. has \in SUBSET Chunks /\ has \cap names = {}
          BY <1>2, <3>4
        <5>7. f \in Seq(Int)
          BY <5>2, <5>6, OrderedType
        <5> HIDE DEF f
        <5>8. Written(f, Len(f), k) \in Ordered(has \cup {k})
          BY <5>1, <5>2, <5>4, <5>6, OrderedAppend
        <5>9. has \cup {k} \in SUBSET (begun[p] \ (names \ {k}))
              /\ acked[p] \ (names \ {k}) \subseteq has \cup {k}
          BY <3>3, <3>4
        <5>10. Holds(p, names \ {k})'
          BY <2>6, <5>5, <5>8, <5>9 DEF Holds
        <5>11. /\ DOMAIN Written(f, Len(f), k) = 1 .. Len(f) + 1
               /\ Written(f, Len(f), k)[Len(f) + 1] = k
               /\ \A i \in 1 .. Len(f) : Written(f, Len(f), k)[i] = f[i]
          BY <5>7, WrittenBehind
        <5>12. ASSUME NEW i \in 1 .. Len(f) + 1, file'[p][i] \in acked[p] PROVE i \notin torn'[p]
          <6>1. CASE i = Len(f) + 1
            <7>1. k \in acked[p]
              BY <5>5, <5>11, <5>12, <6>1
            <7>2. chunks[p][k] = "whole"
              BY <3>3, <7>1 DEF Whole
            <7>. QED
              BY <5>5, <6>1, <7>2
          <6>2. CASE i \in 1 .. Len(f)
            <7>1. i \in DOMAIN f /\ f[i] \in acked[p] /\ i # Len(f) + 1
              BY <5>5, <5>7, <5>11, <5>12, <6>2
            <7>2. i \notin torn[p]
              BY <3>2, <7>1 DEF Sound, f
            <7>. QED
              BY <5>5, <7>1, <7>2
          <6>. QED
            BY <5>7, <6>1, <6>2
        <5>13. Sound(p)'
          BY <2>6, <5>5, <5>11, <5>12 DEF Sound
        <5>. QED
          BY <5>10, <5>13
      <4>2. CASE chunks[p][k] = "empty"
        <5>1. k \notin acked[p] /\ UNCHANGED <<file, torn>>
          BY <2>3, <2>8, <3>3, <4>2 DEF Whole
        <5>2. acked[p] \ (names \ {k}) = acked[p] \ names
          BY <5>1
        <5>3. has \in SUBSET (begun[p] \ (names \ {k}))
          BY <3>4
        <5>. QED
          BY <2>6, <3>2, <3>4, <5>1, <5>2, <5>3 DEF Holds, Sound
      <4>. QED
        BY <4>1, <4>2
    <3>8. StageOK(q, p)'
      BY <2>4, <2>6, <3>2, <3>5 DEF StageOK
    <3>6. Emptied(p)' /\ Shows(p)'
      BY <1>2, <2>6, <3>2 DEF Emptied, Shows, Stored
    <3>7. (\A g \in Requests \ {r} : Commits(g, p) => StageOK(req[g], p))'
      BY <2>5, <3>1 DEF Commits
    <3>. QED
      BY <2>4, <2>6, <2>8, <3>1, <3>6, <3>7, <3>8, Advances DEF CommitOps
  <2>. QED
    BY <2>7, <2>8
<1>18. ASSUME NEW r \in Requests, CommitBreaks(r) PROVE PathOK(p)'
  <2>1. req[r] \in Committing /\ req[r].op = "append" /\ Busy(r, "append")
    BY <1>18, BusyType DEF CommitBreaks, CommitOps, Busy
  <2>2. PICK o \in Paths : o = req[r].path
    BY <1>1, <2>1
  <2>3. /\ UNCHANGED <<driver, asset, chunks, begun, acked, cleared>>
        /\ \A g \in Requests : req'[g] = IF g = r THEN None ELSE req[g]
    BY <1>18 DEF CommitBreaks, Done, TypeOK, history, uploads
  <2>4. CASE o # p
    <3>1. file'[p] = file[p] /\ torn'[p] = torn[p]
      BY <1>18, <2>2, <2>4 DEF CommitBreaks, TypeOK
    <3>. QED
      BY <2>3, <3>1, Elsewhere
  <2>5. CASE o = p
    <3>1. Commits(r, p) /\ \A g \in Requests : Commits(g, p) => g = r
      BY <2>1, <2>2, <2>5, Alone
    <3>2. p \notin cleared /\ ~UploadsNow(p)
      BY <2>1, <3>1 DEF PathOK, Stages, StageOK, Apart, CommitsNow, Commits
    <3>3. \A g \in Requests : ~Commits(g, p)' /\ ~(Busy(g, "copy") /\ req[g].path = p)'
      BY <2>3, <3>1, <3>2 DEF Commits, UploadsNow, Busy
    <3>4. acked'[p] \subseteq Whole(p)' /\ Stored(p)' \subseteq begun'[p]
      BY <2>3, <3>2 DEF PathOK, Kept, Whole, Stored
    <3>. QED
      BY <2>3, <3>2, <3>3, <3>4, Uploading
  <2>. QED
    BY <2>4, <2>5
<1>12. ASSUME NEW r \in Requests, CommitRemove(r) PROVE PathOK(p)'
  <2>1. req[r] \in Committing /\ req[r].op = "append" /\ req[r].names = {}
    BY <1>12, BusyType DEF CommitRemove, CommitOps, Busy, CopiedAll
  <2>2. PICK o \in Paths : o = req[r].path
    BY <1>1, <2>1
  <2>3. UNCHANGED <<driver, asset, file, torn, begun, acked>> /\ cleared' = cleared \cup {o}
    BY <1>12, <2>2 DEF CommitRemove
  <2>4. PICK q : q = [req[r] EXCEPT !.op = "stat"]
    OBVIOUS
  <2>5. /\ o # p => chunks'[p] = chunks[p]
        /\ req'[r] = q \/ req'[r] = None
        /\ \A g \in Requests \ {r} :
             \/ req'[g] = req[g]
             \/ /\ Busy(g, "copy") /\ req[g].path = o
                /\ req'[g] = [req[g] EXCEPT !.into = "gone"]
    <3>1. o # p => chunks'[p] = chunks[p]
      BY <1>12, <2>2 DEF CommitRemove, TypeOK
    <3>2. req'[r] = q \/ req'[r] = None
      BY <1>12, <2>4 DEF CommitRemove
    <3>3. ASSUME NEW g \in Requests \ {r}
          PROVE  \/ req'[g] = req[g]
                 \/ /\ Busy(g, "copy") /\ req[g].path = o
                    /\ req'[g] = [req[g] EXCEPT !.into = "gone"]
      BY <1>12, <2>2 DEF CommitRemove
    <3>. QED
      BY <3>1, <3>2, <3>3
  <2>6. q.op = "stat" /\ q.path = o
    BY <2>1, <2>2, <2>4 DEF Committing
  <2>7. CASE o # p
    <3>1. ASSUME NEW g \in Requests
          PROVE  req'[g] = req[g] \/ req'[g] = None \/ req'[g].path # p
      <4>1. CASE g = r
        BY <2>5, <2>6, <2>7, <4>1
      <4>2. CASE req'[g] = [req[g] EXCEPT !.into = "gone"] /\ Busy(g, "copy") /\ req[g].path = o
        <5>1. req'[g].path = req[g].path
          BY <4>2, BusyType DEF Copying
        <5>. QED
          BY <2>7, <4>2, <5>1
      <4>. QED
        BY <2>5, <4>1, <4>2
    <3>2. chunks'[p] = chunks[p] /\ (p \in cleared' <=> p \in cleared)
      BY <2>3, <2>5, <2>7
    <3>. QED
      BY <2>3, <3>1, <3>2, Elsewhere
  <2>8. CASE o = p
    <3>1. /\ Commits(r, p) /\ driver = "local"
          /\ \A g \in Requests : Commits(g, p) => g = r
      BY <1>12, <2>2, <2>8, Alone DEF CommitRemove
    <3>2. InFile(p)
      <4>1. StageOK(req[r], p)
        BY <3>1 DEF PathOK, Stages
      <4>. QED
        BY <2>1, <4>1 DEF StageOK, InFile
    <3>3. \A g \in Requests : ~(Busy(g, "copy") /\ req[g].path = p)
      BY <3>1 DEF PathOK, Apart, CommitsNow, Commits, UploadsNow
    <3>4. \A g \in Requests \ {r} : req'[g] = req[g]
      BY <2>5, <2>8, <3>3
    <3>5. ~UploadsNow(p)'
      BY <2>5, <2>6, <3>3, <3>4 DEF UploadsNow, Busy
    <3>6. ASSUME NEW g \in Requests, Commits(g, p)' PROVE StageOK(req[g], p)'
      <4>1. g = r /\ req'[g] = q
        BY <2>5, <3>1, <3>4, <3>6 DEF Commits
      <4>. QED
        BY <2>3, <2>6, <2>8, <3>2, <4>1 DEF StageOK, InFile, Holds, Sound
    <3>7. Stages(p)'
      BY <3>6 DEF Stages
    <3>8. Kept(p)' /\ Emptied(p)'
      BY <2>3, <2>8, <3>1 DEF Kept, Emptied
    <3>9. Shows(p)'
      BY <2>3 DEF PathOK, Shows, InFile, Holds, Sound
    <3>. QED
      BY <3>5, <3>7, <3>8, <3>9 DEF PathOK, Apart
  <2>. QED
    BY <2>7, <2>8
<1>13. ASSUME NEW r \in Requests, CommitPut(r) PROVE PathOK(p)'
  <2>1. req[r] \in Committing /\ req[r].op = "put" /\ driver = "sqlite"
    BY <1>13, BusyType DEF CommitPut, CommitOps, Busy, OrderInv, OwnCommits, TypeOK
  <2>2. PICK o, q : o \in Paths /\ o = req[r].path /\ q = [req[r] EXCEPT !.op = "forget"]
    BY <1>1, <2>1
  <2>3. q # None /\ q.op = "forget" /\ q.path = o
    BY <2>1, <2>2, ChunkAssumption DEF Committing
  <2>4. PICK s \in Ordered(req[r].names) : file' = [file EXCEPT ![o] = s]
    BY <1>13, <2>2 DEF CommitPut
  <2>9. torn' = [torn EXCEPT ![o] = {}]
    BY <1>13, <2>2 DEF CommitPut
  <2>5. req' = [req EXCEPT ![r] = q] /\ UNCHANGED <<driver, asset, chunks, begun, acked, cleared>>
    BY <1>13, <2>2 DEF CommitPut, Goes, history, uploads
  <2>6. \A g \in Requests : req'[g] = IF g = r THEN q ELSE req[g]
    BY <2>5 DEF TypeOK
  <2>7. CASE o # p
    BY <2>3, <2>4, <2>5, <2>6, <2>7, <2>9, Elsewhere DEF TypeOK
  <2>8. CASE o = p
    <3>1. Commits(r, p) /\ req[r].names = acked[p]
      BY <2>1, <2>2, <2>8, ChunkAssumption DEF Commits, PathOK, Stages, StageOK, Committing
    <3>2. file'[p] = s /\ s \in Ordered(acked[p])
      BY <2>4, <2>8, <3>1 DEF TypeOK
    <3>3. InFile(p)' /\ (InFile(p) => Len(file'[p]) = Len(file[p]))
      <4>1. begun[p] = acked[p]
        BY <2>1 DEF StoreInv
      <4>2. Holds(p, {})'
        BY <2>5, <3>2, <4>1 DEF Holds
      <4>3. Sound(p)'
        BY <2>8, <2>9 DEF Sound, TypeOK
      <4>4. InFile(p) => file[p] \in Ordered(acked[p])
        <5>1. ASSUME NEW has \in SUBSET (begun[p] \ {}), acked[p] \ {} \subseteq has PROVE has = acked[p]
          BY <4>1, <5>1
        <5>. QED
          BY <5>1 DEF InFile, Holds
      <4>. QED
        BY <1>2, <3>2, <4>2, <4>3, <4>4, OrderedLen DEF InFile
    <3>4. StageOK(q, p)'
      BY <2>3, <3>3 DEF StageOK
    <3>5. Emptied(p)' /\ Shows(p)'
      BY <2>5, <3>3 DEF PathOK, Emptied, Shows, Stored
    <3>6. ASSUME NEW g \in Requests \ {r}, Commits(g, p)' PROVE StageOK(req[g], p)'
      <4>1. req'[g] = req[g] /\ StageOK(req[g], p) /\ req[g].op \notin {"create", "append"}
        BY <2>1, <2>6, <3>6 DEF Commits, PathOK, Stages, OrderInv, OwnCommits, Busy
      <4>. QED
        BY <2>5, <3>3, <4>1 DEF StageOK
    <3>. QED
      BY <2>3, <2>5, <2>8, <3>1, <3>4, <3>5, <3>6, Advances DEF CommitOps
  <2>. QED
    BY <2>7, <2>8
<1>14. ASSUME NEW r \in Requests, CommitForget(r) PROVE PathOK(p)'
  <2>1. req[r] \in Committing /\ req[r].op = "forget" /\ driver = "sqlite"
    BY <1>14, BusyType DEF CommitForget, CommitOps, Busy, OrderInv, OwnCommits, TypeOK
  <2>2. PICK o, q : o \in Paths /\ o = req[r].path /\ q = [req[r] EXCEPT !.op = "stat"]
    BY <1>1, <2>1
  <2>3. q # None /\ q.op = "stat" /\ q.path = o
    BY <2>1, <2>2, ChunkAssumption DEF Committing
  <2>4. /\ req' = [req EXCEPT ![r] = q] /\ UNCHANGED <<driver, asset, file, torn, begun, acked>>
        /\ chunks' = [chunks EXCEPT ![o] = [k \in Chunks |-> None]]
        /\ cleared' = cleared \cup {o}
    BY <1>14, <2>2 DEF CommitForget, Goes
  <2>5. \A g \in Requests : req'[g] = IF g = r THEN q ELSE req[g]
    BY <2>4 DEF TypeOK
  <2>6. CASE o # p
    BY <2>3, <2>4, <2>5, <2>6, Elsewhere DEF TypeOK
  <2>7. CASE o = p
    <3>1. Commits(r, p) /\ InFile(p)
      BY <2>1, <2>2, <2>7, ChunkAssumption DEF Commits, PathOK, Stages, StageOK
    <3>2. InFile(p)' /\ p \in cleared'
      BY <2>4, <2>7, <3>1 DEF InFile, Holds, Sound
    <3>3. StageOK(q, p)'
      BY <2>3, <3>2 DEF StageOK
    <3>4. Emptied(p)'
      <4>1. chunks'[p] = [k \in Chunks |-> None]
        BY <2>4, <2>7 DEF TypeOK
      <4>. QED
        BY <4>1 DEF Emptied, Stored
    <3>5. Shows(p)'
      BY <2>4, <3>2 DEF PathOK, Shows
    <3>6. ASSUME NEW g \in Requests \ {r}, Commits(g, p)' PROVE StageOK(req[g], p)'
      <4>1. req'[g] = req[g] /\ StageOK(req[g], p) /\ req[g].op \notin {"create", "append"}
        BY <2>1, <2>5, <3>6 DEF Commits, PathOK, Stages, OrderInv, OwnCommits, Busy
      <4>. QED
        BY <2>4, <3>2, <4>1 DEF StageOK
    <3>. QED
      BY <2>3, <2>4, <2>7, <3>1, <3>2, <3>3, <3>4, <3>5, <3>6, Advances DEF CommitOps
  <2>. QED
    BY <2>6, <2>7
<1>15. ASSUME NEW r \in Requests, CommitStat(r) \/ CommitRecord(r) PROVE PathOK(p)'
  <2>1. req[r] \in Committing /\ req[r].op \in {"stat", "record"}
    BY <1>15, BusyType DEF CommitStat, CommitRecord, CommitOps, Busy
  <2>2. PICK o, n, q :
          /\ o \in Paths /\ o = req[r].path /\ n = Len(file[o])
          /\ q = IF req[r].op = "stat" THEN [req[r] EXCEPT !.op = "record", !.size = n]
                 ELSE [req[r] EXCEPT !.op = "close"]
    BY <1>1, <2>1
  <2>3. /\ q.path = o /\ q # None
        /\ req[r].op = "stat" => q.op = "record" /\ q.size = n
        /\ req[r].op = "record" => q.op = "close"
    <3>1. CASE req[r].op = "stat"
      <4>1. q = [req[r] EXCEPT !.op = "record", !.size = n] /\ n \in Nat
        <5>1. file[o] \in Seq(Int)
          BY <1>15, <2>2, <3>1, FileOwner DEF CommitStat, CommitRecord, HasFile, TypeOK, Busy
        <5>. QED
          BY <2>2, <3>1, <5>1
      <4>2. q \in Committing /\ q.path = o /\ q.op = "record" /\ q.size = n
        BY <2>1, <2>2, <4>1 DEF Committing
      <4>. QED
        BY <3>1, <4>2, ChunkAssumption
    <3>2. CASE req[r].op = "record"
      <4>1. q = [req[r] EXCEPT !.op = "close"]
        BY <2>2, <3>2
      <4>2. q \in Committing /\ q.path = o /\ q.op = "close"
        BY <2>1, <2>2, <4>1 DEF Committing
      <4>. QED
        BY <3>2, <4>2, ChunkAssumption
    <3>. QED
      BY <2>1, <3>1, <3>2
  <2>4. /\ UNCHANGED <<driver, file, torn, chunks, begun, acked, cleared>>
        /\ req' = [req EXCEPT ![r] = q]
        /\ IF req[r].op = "stat" THEN asset' = asset
           ELSE asset' = [asset EXCEPT ![o] = req[r].size]
    BY <1>15, <2>1, <2>2 DEF CommitStat, CommitRecord, Goes, Busy, history, uploads
  <2>5. \A g \in Requests : req'[g] = IF g = r THEN q ELSE req[g]
    BY <2>4 DEF TypeOK
  <2>6. CASE o # p
    <3>1. asset'[p] = asset[p]
      BY <2>4, <2>6 DEF TypeOK
    <3>. QED
      BY <2>3, <2>4, <2>5, <2>6, <3>1, Elsewhere
  <2>7. CASE o = p
    <3>1. Commits(r, p) /\ StageOK(req[r], p)
      BY <2>1, <2>2, <2>7, ChunkAssumption DEF Commits, PathOK, Stages
    <3>2. p \in cleared /\ InFile(p) /\ (req[r].op = "record" => req[r].size = Len(file[p]))
      BY <2>1, <3>1 DEF StageOK
    <3>3. InFile(p)'
      BY <2>4, <3>2 DEF InFile, Holds, Sound
    <3>4. StageOK(q, p)'
      BY <2>1, <2>2, <2>3, <2>4, <2>7, <3>2, <3>3 DEF StageOK
    <3>5. Emptied(p)'
      BY <2>4 DEF PathOK, Emptied, Stored
    <3>6. Shows(p)'
      <4>1. asset'[p] = IF req[r].op = "stat" THEN asset[p] ELSE req[r].size
        BY <2>4, <2>7 DEF TypeOK
      <4>. QED
        BY <2>1, <2>4, <3>2, <3>3, <4>1 DEF PathOK, Shows
    <3>7. ASSUME NEW g \in Requests \ {r}, Commits(g, p)' PROVE StageOK(req[g], p)'
      <4>1. req'[g] = req[g] /\ StageOK(req[g], p)
        BY <2>5, <3>7 DEF Commits, PathOK, Stages
      <4>2. PICK c : c = req[g] /\ req'[g] = c
        BY <4>1
      <4>3. Holds(p, c.names) => Holds(p, c.names)'
        BY <2>4 DEF Holds
      <4>4. Sound(p) => Sound(p)'
        BY <2>4 DEF Sound
      <4>5. StageOK(c, p)'
        BY <2>4, <3>3, <4>1, <4>2, <4>3, <4>4 DEF StageOK
      <4>. QED
        BY <4>2, <4>5
    <3>8. q.op \in CommitOps
      BY <2>1, <2>3 DEF CommitOps
    <3>. QED
      BY <2>3, <2>4, <2>7, <3>1, <3>2, <3>4, <3>5, <3>6, <3>7, <3>8, Advances
  <2>. QED
    BY <2>6, <2>7
<1>16. CASE Restart
  <2>1. (\A g \in Requests : req'[g] = None) /\ UNCHANGED <<driver, asset, file, torn, begun, acked>>
    BY <1>16 DEF Restart
  <2>2. CASE driver = "sqlite" /\ Stored(p) # {}
    <3>1. p \in cleared' /\ Stored(p)' = {}
      <4>1. p \in cleared'
        BY <1>16, <2>2 DEF Restart
      <4>2. chunks'[p] = [k \in Chunks |-> None]
        BY <1>16, <2>2 DEF Restart
      <4>. QED
        BY <4>1, <4>2 DEF Stored
    <3>2. Kept(p)' /\ Emptied(p)' /\ Shows(p)'
      BY <2>1, <3>1 DEF PathOK, Kept, Emptied, Shows, InFile, Holds, Sound
    <3>3. Apart(p)' /\ Stages(p)'
      BY <2>1 DEF Apart, Stages, UploadsNow, Commits, Busy
    <3>. QED
      BY <3>2, <3>3 DEF PathOK
  <2>3. CASE driver = "sqlite" /\ Stored(p) = {}
    <3>1. chunks'[p] = chunks[p]
      <4>1. chunks'[p] = [k \in Chunks |-> None]
        BY <1>16, <2>3 DEF Restart
      <4>2. \A k \in Chunks : chunks[p][k] = None
        BY <2>3 DEF Stored
      <4>3. chunks[p] \in [Chunks -> {None, "empty", "part", "whole"}]
        BY DEF TypeOK
      <4>. QED
        BY <4>1, <4>2, <4>3
    <3>2. p \in cleared' <=> p \in cleared
      BY <1>16, <2>3 DEF Restart
    <3>. QED
      BY <2>1, <3>1, <3>2, Elsewhere
  <2>4. CASE driver # "sqlite"
    BY <1>16, <2>1, <2>4, Elsewhere DEF Restart
  <2>. QED
    BY <2>2, <2>3, <2>4
<1>17. CASE UNCHANGED vars
  BY <1>17, Elsewhere DEF vars, uploads, history
<1>. QED
  BY <1>3, <1>4, <1>5, <1>6, <1>7, <1>8, <1>9, <1>10, <1>11, <1>12, <1>13, <1>14,
     <1>15, <1>16, <1>17, <1>18
  DEF Next, Handler

\* Of a path whose calls came neither late nor over a commit, a recorded asset has
\* every chunk whose latest upload was acknowledged, whole and in order, with no hole
\* and of the size recorded, whatever fails or crashes; what else is in it was left
\* by an upload that broke off.
THEOREM RecordedWhole == Spec => []RecordedIsWhole
<1>1. Init => WholeInv
  <2> SUFFICES ASSUME Init PROVE WholeInv
    OBVIOUS
  <2>1. StoreInv
    BY ChunkAssumption DEF Init, StoreInv, Busy
  <2>2. ASSUME NEW p \in Paths PROVE PathOK(p)
    <3>1. Kept(p)
      BY ChunkAssumption DEF Init, Kept, Whole, Stored, Busy
    <3>. QED
      BY <3>1 DEF Init, PathOK, Apart, Emptied, Stages, Shows, CommitsNow, Commits
  <2>. QED
    BY <2>1, <2>2 DEF WholeInv
<1>2. TypeOK /\ OrderInv /\ WholeInv /\ [Next]_vars => WholeInv'
  <2> SUFFICES ASSUME TypeOK, OrderInv, WholeInv, [Next]_vars PROVE WholeInv'
    OBVIOUS
  <2>1. StoreInv' /\ disturbed \subseteq disturbed'
    BY NextStore DEF WholeInv
  <2>2. ASSUME NEW p \in Paths \ disturbed' PROVE PathOK(p)'
    BY <2>1, NextPath DEF WholeInv
  <2>. QED
    BY <2>1, <2>2 DEF WholeInv
<1>3. Spec => []WholeInv
  BY <1>1, <1>2, TypeCorrect, OrderAlways, PTL DEF Spec
<1>4. WholeInv => RecordedIsWhole
  <2> SUFFICES ASSUME WholeInv, NEW p \in Paths \ disturbed, asset[p] # None
               PROVE  /\ \E has \in SUBSET begun[p] : acked[p] \subseteq has /\ file[p] \in Ordered(has)
                      /\ \A i \in DOMAIN file[p] : file[p][i] \in acked[p] => i \notin torn[p]
                      /\ asset[p] = Len(file[p])
    BY DEF RecordedIsWhole
  <2>1. InFile(p) /\ asset[p] = Len(file[p])
    BY DEF WholeInv, PathOK, Shows
  <2>2. begun[p] \ {} = begun[p] /\ acked[p] \ {} = acked[p]
    OBVIOUS
  <2>. QED
    BY <2>1, <2>2 DEF InFile, Holds, Sound
<1>. QED
  BY <1>3, <1>4, PTL

=============================================================================
