----------------------------- MODULE ChunkUpload -----------------------------
(***************************************************************************)
(* Files that arrive in chunks: core/services/asset_service.go over the    *)
(* local store (infrastructure/filestore/local.go) and the SQLite store    *)
(* (sqlite_p2p.go).  The local store keeps chunks as files in a directory  *)
(* and copies them one by one into the committed file; the SQLite store    *)
(* keeps them in a map of the process, under a lock it gives up while it   *)
(* writes the file.  No lock is held for a path, and any call can come     *)
(* twice, late, or while another one for the same path is on its way.      *)
(*                                                                         *)
(* Data abstraction.  There is one user and one file, so one look-up of    *)
(* sessions.  A stored chunk is empty, whole or a part of one: the local   *)
(* store copies it from the request into its file, and that can break off  *)
(* anywhere.  Uploads of one number carry the same bytes.  A file is the   *)
(* sequence of the numbers of the chunks in it, with -1 for a hole; torn   *)
(* are the places that have part of their chunk only.  Sizes are counted   *)
(* in such pieces.                                                         *)
(***************************************************************************)
EXTENDS Integers, Sequences, FiniteSets

CONSTANTS
    Paths,      \* what a new session may get for a path
    Chunks,     \* chunk numbers
    Requests,   \* handlers that may be busy at a time
    MaxCalls,   \* bound: calls in a behaviour
    None

Opening == [op : {"open"}, path : Paths]
\* into: the file the handler made, one that another upload has emptied since,
\* or one that has been removed from the directory.
Copying == [op : {"copy"}, path : Paths, no : Chunks, into : {"own", "shared", "gone"}]
\* names: chunks still to be copied, or those assembled.  size: what this
\* handler has written, later the size it read.
Committing ==
    [op : {"create", "append", "put", "forget", "stat", "record", "close"},
     path : Paths, names : SUBSET Chunks, size : Nat]

ASSUME ChunkAssumption ==
    /\ Chunks \subseteq Nat /\ IsFiniteSet(Chunks)
    /\ MaxCalls \in Nat
    /\ None \notin {"empty", "part", "whole"}
    /\ None \notin Nat
    /\ None \notin Seq(Int)
    /\ None \notin Opening \cup Copying \cup Committing

VARIABLES
    driver,     \* the file store configured: "local" or "sqlite"
    sessions,   \* paths with an UploadSession record
    chunks,     \* what is stored of each chunk
    file,       \* the committed file
    torn,       \* places in it that have a part of their chunk only
    asset,      \* the Size of the Asset record
    req,        \* what each handler is about to do
    calls,      \* number of calls so far
    told,       \* history: paths that ChunkStatus has returned
    unsaved,    \* history: those of them whose session was not saved
    begun,      \* history: chunks whose upload was begun
    acked,      \* history: chunks whose latest upload was acknowledged
    cleared,    \* history: paths whose chunks have been taken away
    disturbed,  \* history: paths with calls that came late, or over each other
    overlaid,   \* history: paths with two local commits at a time
    shared      \* history: every look-up of a session saw all of them

vars == <<driver, sessions, chunks, file, torn, asset, req, calls,
          told, unsaved, begun, acked, cleared, disturbed, overlaid, shared>>
opens == <<told, unsaved, shared>>
uploads == <<begun, acked, cleared, disturbed, overlaid>>
history == <<opens, uploads>>

Busy(r, op) == req[r] # None /\ req[r].op = op
Done(r) == req' = [req EXCEPT ![r] = None]
Goes(r, op) == req' = [req EXCEPT ![r].op = op]

\* History: which calls for a path are on their way.
OpensNow == \E r \in Requests : Busy(r, "open")
UploadsNow(p) == \E r \in Requests : Busy(r, "copy") /\ req[r].path = p
CommitsNow(p) ==
    \E r \in Requests : req[r] # None /\ req[r].op \notin {"open", "copy"} /\ req[r].path = p

IsCall == calls < MaxCalls /\ calls' = calls + 1

\* GetUploadedChunks
Stored(p) == {k \in Chunks : chunks[p][k] # None}

Hole == -1

Ascends(s) == \A i, j \in DOMAIN s : i < j => s[i] < s[j]

\* The elements of a finite set of numbers, sorted.
Ordered(S) == {s \in [1 .. Cardinality(S) -> S] : Ascends(s)}

-----------------------------------------------------------------------------
(* ChunkStatus.  A call that finds a session changes nothing. *)

\* Mutant of NoSession: what is there is not seen.
NoSessionEver == TRUE

NoSession == sessions = {}

\* List finds no session, or fails, which passes for the same: a new path.
StatusList(r, fails) ==
    /\ req[r] = None
    /\ IsCall
    /\ NoSession \/ fails
    /\ \E p \in Paths \ told :
         /\ \A g \in Requests : Busy(g, "open") => req[g].path # p
         /\ req' = [req EXCEPT ![r] = [op |-> "open", path |-> p]]
    /\ shared' = (shared /\ ~fails /\ ~OpensNow)
    /\ UNCHANGED <<driver, sessions, chunks, file, torn, asset, told, unsaved, uploads>>

\* The session is saved; if that fails the path is returned all the same.
StatusSave(r, fails) ==
    /\ Busy(r, "open")
    /\ LET p == req[r].path IN
         /\ sessions' = IF fails THEN sessions ELSE sessions \cup {p}
         /\ told' = told \cup {p}
         /\ unsaved' = IF fails THEN unsaved \cup {p} ELSE unsaved
    /\ Done(r)
    /\ UNCHANGED <<driver, chunks, file, torn, asset, calls, shared, uploads>>

-----------------------------------------------------------------------------
(* UploadChunk *)

\* An upload is out of place once chunks have gone into a file.
DisturbedByUpload(p) ==
    disturbed' = IF CommitsNow(p) \/ p \in cleared THEN disturbed \cup {p} ELSE disturbed

\* SQLite: into the map, under the lock.
UploadMap(p, k) ==
    /\ driver = "sqlite"
    /\ p \in told
    /\ IsCall
    /\ chunks' = [chunks EXCEPT ![p][k] = "whole"]
    /\ begun' = [begun EXCEPT ![p] = @ \cup {k}]
    /\ acked' = [acked EXCEPT ![p] = @ \cup {k}]
    /\ DisturbedByUpload(p)
    /\ UNCHANGED <<driver, sessions, file, torn, asset, req, opens, cleared, overlaid>>

\* Local: os.Create makes the file or empties the one that is there, under the
\* uploads of the same chunk that still write to it, ...
UploadCreate(r, p, k) ==
    /\ driver = "local"
    /\ p \in told
    /\ req[r] = None
    /\ IsCall
    /\ chunks' = [chunks EXCEPT ![p][k] = "empty"]
    /\ req' = [g \in Requests |->
          IF g = r THEN [op |-> "copy", path |-> p, no |-> k, into |-> "own"]
          ELSE IF Busy(g, "copy") /\ req[g].path = p /\ req[g].no = k /\ req[g].into = "own"
               THEN [req[g] EXCEPT !.into = "shared"] ELSE req[g]]
    /\ begun' = [begun EXCEPT ![p] = @ \cup {k}]
    /\ acked' = [acked EXCEPT ![p] = @ \ {k}]
    /\ DisturbedByUpload(p)
    /\ UNCHANGED <<driver, sessions, file, torn, asset, opens, cleared, overlaid>>

\* ... io.Copy writes to it, ...
UploadWrite(r) ==
    /\ Busy(r, "copy")
    /\ req[r].into # "gone"
    /\ LET p == req[r].path
           k == req[r].no
       IN  /\ chunks[p][k] = "empty"
           /\ chunks' = [chunks EXCEPT ![p][k] = "part"]
    /\ UNCHANGED <<driver, sessions, file, torn, asset, req, calls, history>>

\* ... and comes to the end.  What a file emptied on the way has then is what was
\* written since, by either upload; one that was removed is filled unseen.
UploadCopy(r) ==
    /\ Busy(r, "copy")
    /\ LET p == req[r].path
           k == req[r].no
       IN  \/ /\ req[r].into = "own"
              /\ chunks' = [chunks EXCEPT ![p][k] = "whole"]
              /\ acked' = [acked EXCEPT ![p] = @ \cup {k}]
           \/ /\ req[r].into = "shared"
              /\ \E has \in {chunks[p][k], "part", "whole"} :
                   /\ chunks[p][k] = "whole" => has = "whole"
                   /\ chunks' = [chunks EXCEPT ![p][k] = has]
              /\ acked' = acked
           \/ /\ req[r].into = "gone"
              /\ chunks' = chunks
              /\ acked' = [acked EXCEPT ![p] = @ \cup {k}]
    /\ Done(r)
    /\ UNCHANGED <<driver, sessions, file, torn, asset, calls, opens, begun, cleared, disturbed, overlaid>>

-----------------------------------------------------------------------------
(* CommitChunks of the local store *)

\* The names of the chunks are read.
CommitList(r, p) ==
    /\ driver = "local"
    /\ p \in told
    /\ req[r] = None
    /\ IsCall
    /\ req' = [req EXCEPT ![r] =
                 [op |-> "create", path |-> p, names |-> Stored(p), size |-> 0]]
    /\ disturbed' = IF UploadsNow(p) \/ CommitsNow(p) \/ p \in cleared
                    THEN disturbed \cup {p} ELSE disturbed
    /\ overlaid' = IF CommitsNow(p) THEN overlaid \cup {p} ELSE overlaid
    /\ UNCHANGED <<driver, sessions, chunks, file, torn, asset, opens, begun, acked, cleared>>

\* os.Create makes the file or empties the one that is there.
CommitCreate(r) ==
    /\ Busy(r, "create")
    /\ file' = [file EXCEPT ![req[r].path] = <<>>]
    /\ torn' = [torn EXCEPT ![req[r].path] = {}]
    /\ Goes(r, "append")
    /\ UNCHANGED <<driver, sessions, chunks, asset, calls, history>>

\* A write at an offset: past the end it leaves a hole.
Written(f, at, k) ==
    [i \in 1 .. (IF at < Len(f) THEN Len(f) ELSE at + 1) |->
        IF i = at + 1 THEN k ELSE IF i <= Len(f) THEN f[i] ELSE Hole]

IsNext(k, names) == k \in names /\ \A j \in names : k <= j

\* The next chunk, if its file is still there, is copied behind the last one, as
\* much of it as its file has.
CommitAppend(r) ==
    /\ Busy(r, "append")
    /\ LET p == req[r].path
           at == req[r].size
       IN
       \E k \in Chunks :
         /\ IsNext(k, req[r].names)
         /\ chunks[p][k] # None
         /\ IF chunks[p][k] = "empty"
            THEN /\ UNCHANGED <<file, torn>>
                 /\ req' = [req EXCEPT ![r].names = @ \ {k}]
            ELSE /\ file' = [file EXCEPT ![p] = Written(@, at, k)]
                 /\ torn' = [torn EXCEPT ![p] =
                       IF chunks[p][k] = "whole" THEN @ \ {at + 1} ELSE @ \cup {at + 1}]
                 /\ req' = [req EXCEPT ![r].names = @ \ {k}, ![r].size = @ + 1]
    /\ UNCHANGED <<driver, sessions, chunks, asset, calls, history>>

\* The copy breaks off, or the process dies in it: part of the chunk is in the file.
CommitBreaks(r) ==
    /\ Busy(r, "append")
    /\ LET p == req[r].path
           at == req[r].size
       IN
       \E k \in Chunks :
         /\ IsNext(k, req[r].names)
         /\ chunks[p][k] \in {"part", "whole"}
         /\ file' = [file EXCEPT ![p] = Written(@, at, k)]
         /\ torn' = [torn EXCEPT ![p] = @ \cup {at + 1}]
    /\ Done(r)
    /\ UNCHANGED <<driver, sessions, chunks, asset, calls, history>>

\* Mutant of CopiedAll: the chunks are removed before the last one is copied.
CopiedAllButOne(names) == Cardinality(names) <= 1

CopiedAll(names) == names = {}

\* os.RemoveAll, or what it does of it before it fails, and the commit with it.
\* Uploads still copying go on with files that have no name.
CommitRemove(r) ==
    /\ Busy(r, "append")
    /\ CopiedAll(req[r].names)
    /\ LET p == req[r].path IN
       \E gone \in SUBSET Stored(p) :
         /\ chunks' = [chunks EXCEPT ![p] =
                         [k \in Chunks |-> IF k \in gone THEN None ELSE @[k]]]
         /\ req' = [g \in Requests |->
              IF g = r THEN IF gone = Stored(p) THEN [req[r] EXCEPT !.op = "stat"] ELSE None
              ELSE IF Busy(g, "copy") /\ req[g].path = p /\ req[g].no \in gone
                   THEN [req[g] EXCEPT !.into = "gone"] ELSE req[g]]
         /\ cleared' = cleared \cup {p}
    /\ UNCHANGED <<driver, sessions, file, torn, asset, calls, opens, begun, acked, disturbed, overlaid>>

-----------------------------------------------------------------------------
(* CommitChunks of the SQLite store *)

\* The chunks are joined under the lock.  Without chunks the call fails.
CommitAssemble(r, p) ==
    /\ driver = "sqlite"
    /\ p \in told
    /\ req[r] = None
    /\ IsCall
    /\ Stored(p) # {}
    /\ req' = [req EXCEPT ![r] =
                 [op |-> "put", path |-> p, names |-> Stored(p), size |-> 0]]
    /\ UNCHANGED <<driver, sessions, chunks, file, torn, asset, history>>

\* Mutant of CommitPut: whether it fails is not looked at.
CommitPutUnchecked(r) ==
    /\ Busy(r, "put")
    /\ \/ file' = file
       \/ \E s \in Ordered(req[r].names) : file' = [file EXCEPT ![req[r].path] = s]
    /\ torn' = torn
    /\ Goes(r, "forget")
    /\ UNCHANGED <<driver, sessions, chunks, asset, calls, history>>

\* Upload: one statement, insert or replace.
CommitPut(r) ==
    /\ Busy(r, "put")
    /\ \E s \in Ordered(req[r].names) : file' = [file EXCEPT ![req[r].path] = s]
    /\ torn' = [torn EXCEPT ![req[r].path] = {}]
    /\ Goes(r, "forget")
    /\ UNCHANGED <<driver, sessions, chunks, asset, calls, history>>

\* "delete(s.chunks, path)", with whatever has been added since.
CommitForget(r) ==
    /\ Busy(r, "forget")
    /\ chunks' = [chunks EXCEPT ![req[r].path] = [k \in Chunks |-> None]]
    /\ cleared' = cleared \cup {req[r].path}
    /\ Goes(r, "stat")
    /\ UNCHANGED <<driver, sessions, file, torn, asset, calls, opens, begun, acked, disturbed, overlaid>>

-----------------------------------------------------------------------------
(* CommitChunks of the service: the rest *)

\* GetMetadata
CommitStat(r) ==
    /\ Busy(r, "stat")
    /\ req' = [req EXCEPT ![r].op = "record", ![r].size = Len(file[req[r].path])]
    /\ UNCHANGED <<driver, sessions, chunks, file, torn, asset, calls, history>>

\* Save of the asset
CommitRecord(r) ==
    /\ Busy(r, "record")
    /\ asset' = [asset EXCEPT ![req[r].path] = req[r].size]
    /\ Goes(r, "close")
    /\ UNCHANGED <<driver, sessions, chunks, file, torn, calls, history>>

\* Delete of the session.  Its error is dropped.
CommitClose(r, fails) ==
    /\ Busy(r, "close")
    /\ sessions' = IF fails THEN sessions ELSE sessions \ {req[r].path}
    /\ Done(r)
    /\ UNCHANGED <<driver, chunks, file, torn, asset, calls, history>>

MayFail == {"copy", "create", "append", "put", "stat", "record"}

\* Mutant of Fails: the session goes, too.
FailsAndCloses(r) ==
    /\ \E op \in MayFail : Busy(r, op)
    /\ sessions' = sessions \ {req[r].path}
    /\ Done(r)
    /\ UNCHANGED <<driver, chunks, file, torn, asset, calls, history>>

\* A call fails, of an upload or a commit, or a chunk to be copied has gone: what
\* is done stays done, what an upload has written of its chunk, too.
Fails(r) ==
    /\ \E op \in MayFail : Busy(r, op)
    /\ Done(r)
    /\ UNCHANGED <<driver, sessions, chunks, file, torn, asset, calls, history>>

-----------------------------------------------------------------------------

\* The process dies and starts again.  The map of chunks was in its memory.
Restart ==
    /\ req' = [r \in Requests |-> None]
    /\ IF driver = "sqlite"
       THEN /\ chunks' = [p \in Paths |-> [k \in Chunks |-> None]]
            /\ cleared' = cleared \cup {p \in Paths : Stored(p) # {}}
       ELSE UNCHANGED <<chunks, cleared>>
    /\ UNCHANGED <<driver, sessions, file, torn, asset, calls, opens, begun, acked, disturbed, overlaid>>

Init ==
    /\ driver \in {"local", "sqlite"}
    /\ sessions = {}
    /\ chunks = [p \in Paths |-> [k \in Chunks |-> None]]
    /\ file = [p \in Paths |-> None]
    /\ torn = [p \in Paths |-> {}]
    /\ asset = [p \in Paths |-> None]
    /\ req = [r \in Requests |-> None]
    /\ calls = 0
    /\ told = {} /\ unsaved = {}
    /\ begun = [p \in Paths |-> {}]
    /\ acked = [p \in Paths |-> {}]
    /\ cleared = {} /\ disturbed = {} /\ overlaid = {}
    /\ shared = TRUE

Handler(r) ==
    \/ \E fails \in BOOLEAN : StatusList(r, fails) \/ StatusSave(r, fails) \/ CommitClose(r, fails)
    \/ \E p \in Paths, k \in Chunks : UploadCreate(r, p, k)
    \/ UploadWrite(r) \/ UploadCopy(r) \/ Fails(r)
    \/ \E p \in Paths : CommitList(r, p) \/ CommitAssemble(r, p)
    \/ CommitCreate(r) \/ CommitAppend(r) \/ CommitBreaks(r) \/ CommitRemove(r)
    \/ CommitPut(r) \/ CommitForget(r) \/ CommitStat(r) \/ CommitRecord(r)

Next ==
    \/ \E r \in Requests : Handler(r)
    \/ \E p \in Paths, k \in Chunks : UploadMap(p, k)
    \/ Restart

Spec == Init /\ [][Next]_vars

-----------------------------------------------------------------------------
(* Properties *)

\* A handler that has made the file.
HasFile(r) == \E op \in {"append", "forget", "stat", "record", "close"} : Busy(r, op)

\* Every variable has its type, and who works on a file has one.
TypeOK ==
    /\ driver \in {"local", "sqlite"}
    /\ sessions \subseteq told /\ told \subseteq Paths /\ unsaved \subseteq told
    /\ chunks \in [Paths -> [Chunks -> {None, "empty", "part", "whole"}]]
    /\ file \in [Paths -> Seq(Int) \cup {None}]
    /\ torn \in [Paths -> SUBSET Nat]
    /\ asset \in [Paths -> Nat \cup {None}]
    /\ req \in [Requests -> Opening \cup Copying \cup Committing \cup {None}]
    /\ \A r \in Requests : HasFile(r) => file[req[r].path] # None
    /\ calls \in 0 .. MaxCalls
    /\ begun \in [Paths -> SUBSET Chunks]
    /\ acked \in [Paths -> SUBSET Chunks]
    /\ cleared \in SUBSET Paths /\ disturbed \in SUBSET Paths /\ overlaid \in SUBSET Paths
    /\ shared \in BOOLEAN

\* An asset that is recorded has every chunk whose latest upload was acknowledged,
\* and has it whole, in order, with no hole and of the size recorded.  Of other
\* chunks it may have what an upload that broke off has left: a commit does not
\* know the one from the other, so only a client whose uploads all came through
\* has in the asset what it sent.  A commit that broke off itself may be tried
\* again, unless it had begun to take chunks away; calls that come after that, or
\* over a commit, are not looked at.
RecordedIsWhole ==
    \A p \in Paths \ disturbed :
        asset[p] # None =>
            /\ \E has \in SUBSET begun[p] : acked[p] \subseteq has /\ file[p] \in Ordered(has)
            /\ \A i \in DOMAIN file[p] : file[p][i] \in acked[p] => i \notin torn[p]
            /\ asset[p] = Len(file[p])

\* Whatever is in a file, half-written ones included, is in the order of the
\* chunk numbers, none twice and none missing in the middle as a hole, unless
\* two commits of the local store wrote over each other.
FileInOrder ==
    \A p \in Paths \ overlaid :
        file[p] # None => Ascends(file[p]) /\ \A i \in DOMAIN file[p] : file[p][i] # Hole

\* As long as the asset is not recorded, the client can find its session.
SessionUntilRecorded ==
    \A p \in told \ unsaved : p \in sessions \/ asset[p] # None

\* Look-ups that saw all there is, and one at a time, agree on one session.
OneSession == shared /\ unsaved = {} => Cardinality(sessions) <= 1

=============================================================================
