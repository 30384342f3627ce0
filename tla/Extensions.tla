----------------------------- MODULE Extensions -----------------------------
(***************************************************************************)
(* App extensions (core/app_extensions): archives dropped into a directory *)
(* are discovered by an initial scan and by a watcher goroutine, and       *)
(* mounted on request.  The table maps an extension's id to an info        *)
(* object; a scan puts a new object there while a mount may still hold the *)
(* old one.  Grants and secrets live in memory beside the table.           *)
(*                                                                         *)
(* Data abstraction.  An archive is a version, the id its metadata gives,  *)
(* and whether both signature files are there (verification looks at no    *)
(* more).  A file is "partial" while it is being written.                  *)
(***************************************************************************)
EXTENDS Integers, FiniteSets

CONSTANTS
    Files,        \* names of .jar files, in the order ReadDir lists them: numbers
    IdOf,         \* the extension id each file carries: [Files -> ids]
    Admins,       \* request goroutines
    MaxVersion,   \* bound: archives written in a behaviour
    Closed, None

ExtIds == {IdOf[f] : f \in Files}
Archive == [version : 1 .. MaxVersion, signed : BOOLEAN, partial : BOOLEAN]
Info == [version : 1 .. MaxVersion, file : Files, verified : BOOLEAN,
         status : {"active", "untrusted"}]

ExtensionsAssumption ==
    /\ Files \subseteq Int /\ MaxVersion \in Nat
    /\ None \notin Archive /\ None \notin Info
    /\ None \notin [id : ExtIds, info : Info, tools : BOOLEAN]

VARIABLES
    dir,       \* the extensions directory: [Files -> Archive or None]
    table,     \* AppExtensionService.extensions: [ExtIds -> Info or None]
    watcher,   \* the goroutine that scans: where it is, and the files left
    event,     \* a write event of the directory waits for the watcher
    mount,     \* a MountExtension of each admin: the info it read and its archive
    tools,     \* tools registered for an id: whose open archive they read, or Closed
    grants,    \* permissions granted to an extension
    vault,     \* secrets of an extension
    version,   \* number of archives written so far
    unseen     \* history: files written while nothing watched the directory

admin == <<mount, tools, grants, vault>>
disk == <<dir, version>>
vars == <<dir, table, watcher, event, mount, tools, grants, vault, version, unseen>>

-----------------------------------------------------------------------------
(* The directory *)

Watched == watcher.pc \notin {"boot", "bootScan"}

\* An archive is written: first its beginning, then the rest; every write raises
\* an event once the watcher has the directory.
WriteBegin(f) ==
    /\ version < MaxVersion
    /\ version' = version + 1
    /\ \E signed \in BOOLEAN :
         dir' = [dir EXCEPT ![f] = [version |-> version', signed |-> signed, partial |-> TRUE]]
    /\ event' = (event \/ Watched)
    /\ UNCHANGED <<table, watcher, admin, unseen>>

WriteEnd(f) ==
    /\ dir[f] # None /\ dir[f].partial
    /\ dir' = [dir EXCEPT ![f].partial = FALSE]
    /\ event' = (event \/ Watched)
    /\ unseen' = IF Watched THEN unseen \ {f} ELSE unseen \cup {f}
    /\ UNCHANGED <<table, watcher, admin, version>>

\* Nothing follows a removal: the watcher looks at writes and creations only.
Remove(f) ==
    /\ dir[f] # None
    /\ dir' = [dir EXCEPT ![f] = None]
    /\ UNCHANGED <<table, watcher, event, admin, version, unseen>>

Whole(f) == dir[f] # None /\ ~ dir[f].partial

-----------------------------------------------------------------------------
(* Discovery *)

\* inspectExtensionArchive: an archive that does not open is an error; an
\* unsigned one is untrusted; a verified one is active before any mount.
Inspect(f) ==
    [version |-> dir[f].version, file |-> f, verified |-> dir[f].signed,
     status |-> IF dir[f].signed THEN "active" ELSE "untrusted"]

Present == {f \in Files : dir[f] # None}

\* Start: the first scan runs before the watcher is given the directory.
Start ==
    /\ watcher.pc = "boot"
    /\ watcher' = [pc |-> "bootScan", left |-> Present]
    /\ UNCHANGED <<disk, table, event, admin, unseen>>

\* The watcher takes an event and sleeps before it scans, so that the events of
\* that time wait in the queue.
TakeEvent ==
    /\ watcher.pc = "wait" /\ event
    /\ event' = FALSE
    /\ watcher' = [watcher EXCEPT !.pc = "sleep"]
    /\ UNCHANGED <<disk, table, admin, unseen>>

Scan ==
    /\ watcher.pc = "sleep"
    /\ watcher' = [pc |-> "scan", left |-> Present]
    /\ UNCHANGED <<disk, table, event, admin, unseen>>

\* LoadExtension of the next file: a new info object, or an error that is logged.
LoadExtension(f) ==
    /\ f \in watcher.left
    /\ \A g \in watcher.left : f <= g
    /\ table' = IF Whole(f) THEN [table EXCEPT ![IdOf[f]] = Inspect(f)] ELSE table
    /\ watcher' = [watcher EXCEPT !.left = @ \ {f}]
    /\ unseen' = IF Whole(f) THEN unseen \ {f} ELSE unseen
    /\ UNCHANGED <<disk, event, admin>>

\* Mutant of EventsLeft: the queue is drained once the scan is over.
EventsLeftDrained == FALSE

EventsLeft == event

ScanEnds ==
    /\ watcher.pc \in {"scan", "bootScan"} /\ watcher.left = {}
    /\ watcher' = [watcher EXCEPT !.pc = "wait"]
    /\ event' = EventsLeft
    /\ UNCHANGED <<disk, table, admin, unseen>>

-----------------------------------------------------------------------------
(* Requests of an administrator, which wait for NewApp to return *)

\* MountExtension, up to zip.OpenReader: the info is read under the lock, and
\* an unknown or unverified extension, or a file that does not open, is an error.
MountOpen(a, id) ==
    /\ Watched /\ mount[a] = None
    /\ table[id] # None /\ table[id].verified
    /\ Whole(table[id].file)
    /\ mount' = [mount EXCEPT ![a] = [id |-> id, info |-> table[id], tools |-> FALSE]]
    /\ UNCHANGED <<disk, table, watcher, event, tools, grants, vault, unseen>>

\* The definitions are set up (their failures are warnings), then the tools are
\* registered; they read the archive that this call has open.
MountTools(a) ==
    /\ mount[a] # None /\ ~ mount[a].tools
    /\ mount' = [mount EXCEPT ![a].tools = TRUE]
    /\ tools' = [tools EXCEPT ![mount[a].id] = a]
    /\ UNCHANGED <<disk, table, watcher, event, grants, vault, unseen>>

\* Mutant of Activated: the status is set through the table.
ActivatedInTable(a) == [table EXCEPT ![mount[a].id].status = "active"]

\* The status is set on the object that was read, in the table or no longer.
Activated(a) ==
    IF table[mount[a].id] = mount[a].info
    THEN [table EXCEPT ![mount[a].id].status = "active"]
    ELSE table

\* MountExtension returns and closes the archive.
MountReturns(a) ==
    /\ mount[a] # None /\ mount[a].tools
    /\ table' = Activated(a)
    /\ tools' = [tools EXCEPT ![mount[a].id] = IF @ = a THEN Closed ELSE @]
    /\ mount' = [mount EXCEPT ![a] = None]
    /\ UNCHANGED <<disk, watcher, event, grants, vault, unseen>>

\* AuthorizePermission appends a grant (and an audit record); SetSecret upserts.
AuthorizePermission(id) ==
    /\ Watched
    /\ grants' = grants \cup {id}
    /\ UNCHANGED <<disk, table, watcher, event, mount, tools, vault, unseen>>

SetSecret(id) ==
    /\ Watched
    /\ vault' = vault \cup {id}
    /\ UNCHANGED <<disk, table, watcher, event, mount, tools, grants, unseen>>

\* What the router agent is offered, and what a tool call runs with: the archive
\* it was registered with must still be open.
GetRoutingDocs == {id \in ExtIds : table[id] # None /\ table[id].status = "active"}

Execute(id) ==
    IF tools[id] \in Admins /\ table[id] # None
    THEN [env |-> id \in vault, net |-> id \in grants]
    ELSE None

-----------------------------------------------------------------------------

\* All of the service's state is in memory: this is a start, and a restart.
Boot ==
    /\ table' = [id \in ExtIds |-> None]
    /\ watcher' = [pc |-> "boot", left |-> {}]
    /\ event' = FALSE
    /\ mount' = [a \in Admins |-> None]
    /\ tools' = [id \in ExtIds |-> None]
    /\ grants' = {} /\ vault' = {}
    /\ unseen' = {}

Crash == watcher.pc # "boot" /\ Boot /\ UNCHANGED disk

Init ==
    /\ dir = [f \in Files |-> None] /\ version = 0
    /\ table = [id \in ExtIds |-> None]
    /\ watcher = [pc |-> "boot", left |-> {}]
    /\ event = FALSE
    /\ mount = [a \in Admins |-> None]
    /\ tools = [id \in ExtIds |-> None]
    /\ grants = {} /\ vault = {}
    /\ unseen = {}

Next ==
    \/ \E f \in Files : WriteBegin(f) \/ WriteEnd(f) \/ Remove(f) \/ LoadExtension(f)
    \/ Start \/ TakeEvent \/ Scan \/ ScanEnds
    \/ \E a \in Admins : \/ \E id \in ExtIds : MountOpen(a, id)
                          \/ MountTools(a) \/ MountReturns(a)
    \/ \E id \in ExtIds : AuthorizePermission(id) \/ SetSecret(id)
    \/ Crash

Spec == Init /\ [][Next]_vars

-----------------------------------------------------------------------------
(* Properties *)

TypeOK ==
    /\ dir \in [Files -> Archive \cup {None}]
    /\ table \in [ExtIds -> Info \cup {None}]
    /\ watcher.pc \in {"boot", "bootScan", "wait", "sleep", "scan"}
    /\ watcher.left \subseteq Files
    /\ event \in BOOLEAN
    /\ tools \in [ExtIds -> Admins \cup {Closed, None}]
    /\ grants \subseteq ExtIds /\ vault \subseteq ExtIds /\ unseen \subseteq Files
    /\ version \in 0 .. MaxVersion

OwnId(f) == \A g \in Files \ {f} : IdOf[g] # IdOf[f]

\* When the watcher has nothing left to do, the table shows each complete
\* archive as it is on disk: the newest version, active if and only if that one
\* is verified; whatever was written while it slept or scanned, and whatever
\* mounts of an older version ended meanwhile.  A file written between the first
\* scan and the start of the watcher is the exception, and so is one whose id
\* another file carries too: there the last one loaded is shown.
TableIsCurrent ==
    watcher.pc = "wait" /\ ~ event =>
        \A f \in Files \ unseen :
            Whole(f) /\ OwnId(f) => table[IdOf[f]] = Inspect(f)

\* The tools of a mounted extension can be called ("Support for BizDefs, Agentic
\* tools, polyglot sandboxed scripts", README.md:26).
MountedToolsRun ==
    \A id \in GetRoutingDocs : tools[id] # None => Execute(id) # None

=============================================================================
