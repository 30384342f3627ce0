----------------------------- MODULE TempAccess ------------------------------
(***************************************************************************)
(* Files with a time to live: the open GET of core/api/temp_access_api.go, *)
(* the managed upload, deletion and cleanup of core/api/mcp_api.go,        *)
(* core/services/temp_access_service.go between them, and PurgeExpired as  *)
(* each store of infrastructure/filestore does it.  Other files are in the *)
(* same store.  Requests are a few calls of it each; between two of them   *)
(* time passes and other requests come.  One tick of the clock is what the *)
(* stores tell apart.                                                      *)
(***************************************************************************)
EXTENDS Integers, FiniteSets

CONSTANTS
    Files,
    PathOf,        \* the path of each file, or None: [Files -> path or None]
    Starts,        \* files whose names begin with the path's: [path -> SUBSET Files]
    TTL, Role,     \* the configuration: [path -> ticks], [path -> role]
    Roles,         \* who manages: [user -> SUBSET role]
    Procs,         \* requests at one time
    MaxClock,      \* bound: ticks
    MaxFaults,     \* bound: failed calls of the store
    None

Paths == DOMAIN TTL

TempAccessAssumption ==
    /\ MaxClock \in Nat /\ MaxFaults \in Nat
    /\ None \notin Paths /\ None \notin 0 .. MaxClock
    /\ PathOf \in [Files -> Paths \cup {None}]
    /\ Starts \in [Paths -> SUBSET Files]
    /\ TTL \in [Paths -> Nat]

VARIABLES
    store,    \* "local", "gcs", "s3" or "sql"
    clock,
    files,    \* [Files -> when it was stored, or None]
    req, faults

vars == <<store, clock, files, req, faults>>

\* now: when it looked at the clock; left: what a purge has still to look at;
\* doomed: what it looked at, found expired and has still to remove.
Idle == [pc |-> "idle", file |-> None, path |-> None, now |-> 0, left |-> {}, doomed |-> {}]

Begin(p, local) == req[p].pc = "idle" /\ req' = [req EXCEPT ![p] = local]
Done(p) == req' = [req EXCEPT ![p] = Idle]
Same == UNCHANGED <<store, clock, faults>>
Fault == faults < MaxFaults /\ faults' = faults + 1 /\ UNCHANGED <<store, clock>>

\* A call whose error ends the request.  A walk of the disk has none, and
\* neither has a removal other than the batches of S3.
Fail(p) ==
    /\ req[p].pc # "idle" /\ Fault /\ Done(p) /\ UNCHANGED files
    /\ req[p].pc = "purge" => store # "local" /\ (req[p].doomed # {} => store = "s3")

Manages(user, path) == Role[path] \in Roles[user]
Expired(made, path, now) == now > made + TTL[path]

-----------------------------------------------------------------------------
(* The open GET *)

Get(p, file) ==
    /\ PathOf[file] # None
    /\ Begin(p, [Idle EXCEPT !.pc = "get", !.file = file, !.path = PathOf[file]])
    /\ Same /\ UNCHANGED files

IsExpired(p) ==
    /\ req[p].pc = "get" /\ Same /\ UNCHANGED files
    /\ LET made == files[req[p].file]
       IN IF made = None \/ Expired(made, req[p].path, clock)
          THEN Done(p)
          ELSE req' = [req EXCEPT ![p].pc = "download", ![p].now = clock]

\* What is there by now, under whatever metadata; or it is gone.
Download(p) == req[p].pc = "download" /\ Done(p) /\ Same /\ UNCHANGED files

-----------------------------------------------------------------------------
(* The managed requests *)

Upload(user, file) ==
    /\ PathOf[file] # None /\ Manages(user, PathOf[file])
    /\ files' = [files EXCEPT ![file] = clock]
    /\ UNCHANGED <<store, clock, req, faults>>

\* Another service stores a file of its own.
Store(file) ==
    /\ PathOf[file] = None /\ files' = [files EXCEPT ![file] = clock]
    /\ UNCHANGED <<store, clock, req, faults>>

Delete(p, user, file) ==
    /\ PathOf[file] # None /\ Manages(user, PathOf[file])
    /\ Begin(p, [Idle EXCEPT !.pc = "delete", !.file = file])
    /\ Same /\ UNCHANGED files

DeleteFile(p) ==
    /\ req[p].pc = "delete" /\ Done(p) /\ Same
    /\ files' = [files EXCEPT ![req[p].file] = None]

-----------------------------------------------------------------------------
(* PurgeExpired *)

\* The local store walks the path's directory; the others go by the text the
\* names begin with, and no slash ends it.
Scope(path) == IF store = "local" THEN {f \in Files : PathOf[f] = path} ELSE Starts[path]

CleanupExpired(p, user, path) ==
    /\ Manages(user, path)
    /\ Begin(p, [Idle EXCEPT !.pc = "purge", !.path = path, !.now = clock, !.left = Scope(path)])
    /\ Same /\ UNCHANGED files

\* Mutant of Outlived: a file goes at the last tick it may be read.
OutlivedSooner(p, file) ==
    files[file] # None /\ req[p].now - files[file] >= TTL[req[p].path]

Outlived(p, file) ==
    files[file] # None /\ req[p].now - files[file] > TTL[req[p].path]

\* One statement for all rows, against the time of the request.
PurgeRows(p) ==
    /\ store = "sql" /\ req[p].pc = "purge" /\ Done(p) /\ Same
    /\ files' = [f \in Files |-> IF f \in req[p].left /\ Outlived(p, f) THEN None ELSE files[f]]

\* The next file of the walk, or the next page of the listing.
Look(p, page) ==
    /\ store # "sql" /\ req[p].pc = "purge" /\ req[p].doomed = {}
    /\ page \subseteq req[p].left /\ page # {} /\ (store = "local" => Cardinality(page) = 1)
    /\ req' = [req EXCEPT ![p].left = @ \ page, ![p].doomed = {f \in page : Outlived(p, f)}]
    /\ Same /\ UNCHANGED files

\* By name, whatever is under it by now; a removal that fails is passed over.
Remove(p, file) ==
    /\ req[p].pc = "purge" /\ file \in req[p].doomed
    /\ req' = [req EXCEPT ![p].doomed = @ \ {file}]
    /\ \/ Same /\ files' = [files EXCEPT ![file] = None]
       \/ store # "s3" /\ Fault /\ UNCHANGED files

PurgeReturns(p) ==
    /\ store # "sql" /\ req[p].pc = "purge" /\ req[p].left = {} /\ req[p].doomed = {}
    /\ Done(p) /\ Same /\ UNCHANGED files

-----------------------------------------------------------------------------
Tick == clock < MaxClock /\ clock' = clock + 1 /\ UNCHANGED <<store, files, req, faults>>

Init ==
    /\ store \in {"local", "gcs", "s3", "sql"} /\ clock = 0
    /\ files = [f \in Files |-> None]
    /\ req = [p \in Procs |-> Idle] /\ faults = 0

Next ==
    \/ \E p \in Procs :
          \/ \E file \in Files : Get(p, file) \/ Remove(p, file)
          \/ \E user \in DOMAIN Roles, file \in Files : Delete(p, user, file)
          \/ \E user \in DOMAIN Roles, path \in Paths : CleanupExpired(p, user, path)
          \/ \E page \in SUBSET Files : Look(p, page)
          \/ IsExpired(p) \/ Download(p) \/ DeleteFile(p) \/ PurgeRows(p) \/ PurgeReturns(p)
          \/ Fail(p)
    \/ \E user \in DOMAIN Roles, file \in Files : Upload(user, file)
    \/ \E file \in Files : Store(file)
    \/ Tick

Spec == Init /\ [][Next]_vars

-----------------------------------------------------------------------------
(* Properties *)

TypeOK ==
    /\ store \in {"local", "gcs", "s3", "sql"} /\ clock \in 0..MaxClock /\ faults \in 0..MaxFaults
    /\ files \in [Files -> (0..MaxClock) \cup {None}]
    /\ \A p \in Procs : /\ req[p].now \in 0..clock /\ req[p].left \cup req[p].doomed \subseteq Files
                        /\ req[p].path \in Paths \cup {None}

\* This is a step of a purge.
Purges(p) == req[p].pc = "purge" /\ req'[p] # req[p]

\* A file that somebody may still read is taken away only if its deletion was
\* asked for, or it was stored after the purge that takes it had begun, or it
\* is of another path whose name begins with the purged one's.
SparesLiveFiles ==
    \A f \in Files : files[f] # None /\ files'[f] = None =>
        \E p \in Procs :
            \/ req[p].pc = "delete" /\ req[p].file = f
            \/ /\ Purges(p)
               /\ \/ PathOf[f] = req[p].path /\ Expired(files[f], PathOf[f], clock)
                  \/ files[f] >= req[p].now
                  \/ PathOf[f] # req[p].path /\ store # "local"

\* No file is served that was over its time when the request asked.
ServesInTime ==
    \A p \in Procs : req[p].pc = "download" /\ files[req[p].file] # None =>
        ~ Expired(files[req[p].file], req[p].path, req[p].now)

\* A file with a time to live can be read as long as it lasts and not longer,
\* whatever purges, uploads and downloads run side by side.
ExpiryKept == SparesLiveFiles /\ ServesInTime

\* The first without its last excuse: a cleanup takes "all files in the path
\* that have exceeded their TTL" (docs/temporary_file_access.md:57).
CleansItsPathOnly ==
    \A f \in Files, p \in Procs :
        files[f] # None /\ files'[f] = None /\ Purges(p) => PathOf[f] = req[p].path

=============================================================================
