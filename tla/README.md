# A TLA+ verification project for aigen-app

aigen-app is a content management system in one Go process: entities with
schemas, stored as JSON records in a relational or document database; a REST,
GraphQL and agent API over them; schema migrations of extensions ("business
definitions"); users, permissions and login; file uploads; engagement counters;
an agent-driven dashboard; messaging channels; a rotating log file. This
directory models the parts of it in which something can go wrong that a test
would hardly reach: requests and background goroutines that share records,
bounded channels, locks that are given up half way, writes in pairs without a
transaction, failing calls, crashes and restarts.

All paths below are relative to `src/`. `PROJECT.json` has, for every definition,
the lines it was translated from.

Contents: 1 inventory, 2 plan, 3 modules, 4 runs and bounds, 5 fairness,
6 proofs, 7 where code and documents part, 8 what is not modelled, 9 how to run.

## 1. Inventory

Everything runs in one process, started by `main.go` through `framework/`. Fiber
serves each request in a goroutine of its own. The services (`core/services/`)
keep little state in memory and most of it in the *record store*: rows
`(namespace, key, value, metadata)` behind `IPrimaryDao`
(`infrastructure/relationdbdao/`), with drivers for memory, SQLite, PostgreSQL,
SurrealDB and Firestore. There are no transactions: a DAO call is atomic,
two DAO calls are not. That, and the goroutines the services start themselves, is
where the hard behaviour comes from.

| Component | State | Operations | Interacts with | Hard behaviour | Correct when |
|---|---|---|---|---|---|
| Record store | rows with a revision | Get, List with filters, sort and offset, Save (upsert), SaveConditional, Delete | called by every service | Save ignores the stored revision; each driver translates filters, sorts and offsets its own way | a conditional save never overwrites a row its caller has not seen; the drivers agree |
| EntityService | none of its own | Insert, Update (Get then Save), Delete, List/Single with just-in-time evolution | record store, EvolutionService, permissions, core users | read-modify-write without a condition; second writes whose error is dropped | stamps tell the truth; the user stores agree |
| EvolutionService | manifests by entity | RegisterManifest, EvolveRecord, ScrubEntity in the background | record store, EntityService, cms tools, extensions | paging over rows that change; two scrubs at once; mounts in between; crash half way | no live write overwritten, no record missed, the scrub ends |
| EngagementService | channel of 100, buffer of 50 | Track, worker, flush, flushCounts | HTTP handlers, record store | a full channel, a crash with a batch in memory, two writes per status | every status counted once, in order, eventually |
| A2UIService, A2UIApi | components, subscribers' channels | UpdateComponent, Subscribe, Unsubscribe, Stream, increment | agents' tools, browsers over SSE | snapshot and send in two critical sections; close against send; slow clients | clients converge; no send on a closed channel; no waiting |
| LogRotator | open file, size; files on disk | Write, rotate, pruneBackups, Close, open | logger, file system | failing rename or open; two rotations in a second; restart | no line vanishes unaccounted; file and backups stay bounded |
| AuthService, two user stores | core users by email, entity users by key | Login, Me, Register, LinkChannel, BootstrapAdmin, reset-pass | EntityService, record store, admin tool | every operation writes twice, errors dropped; copies made on a miss | one password per user; a deleted user stays deleted; a start changes nobody's record but the administrator's and demo accounts |
| AssetService, file stores | sessions, chunks, files | ChunkStatus, UploadChunk, CommitChunks, Save, Delete | local, SQLite, S3 stores | two sessions for one file, commit tried again | a committed file is the chunks in order |
| TempAccessService, MCP API | files under configured paths | open GET (IsExpired, Download), managed upload, deletion and cleanup (PurgeExpired) | file stores | a purge removes by name what it listed before; a check and a download apart | a file can be read for its time, and not longer |
| SchemaService | schema rows, one per `schemaId` | Save (up to five DAO calls), publish, unpublish, Delete, ByNameOrDefault, LoadLoadedEntity | every reader of entities, start-up, mounts | older rows are written back whole from a listing; versions share a key; entities refer to each other in circles | a set-up definition is in force; a name stays resolvable; loading ends |
| PermissionService, RBAC API | permission rows | HasAccess, GetRowFilters, GetFieldPermissions | middleware, EntityService | four reads per request, one after the other, two of which drop their errors | nothing shown or stored that was not granted |
| ChannelService, InteractionService | channel rows, log of messages | SendNotification, HandleInbound, Log, UpdateStatus, RegisterChannel, VerifyChannel | gateways, agents, file store, auth | a crash or a failure between log, post and status; an answer that is lost | the status tells what was sent |
| WhatsAppService, LoginByChannel | one-time passwords in a map; users and their channels | GenerateOTP, VerifyOTP, first login, link, enrolment | auth, channels | user, channel and verification are saved one after the other; two logins at once | one user for a phone number |
| AppExtensionService | table of extensions, grants, secrets, tools | Start, Scan, LoadExtension, MountExtension, Execute | file system, evolution, schemas, agents | files that are written while a scan runs; a mount that ends after a rescan | the table is what is on disk |
| Business definitions | seed rows, schemas | setup at start and on a mount | schemas, record store | failure half way, the next start | no record is seeded twice |
| Notification, comment, commerce, audit services | records of their own | mark one or all as read, save, delete, checkout, log | record store | read-modify-write, dropped errors | read when, and only when, the owner asked |
| ChatService, router agent | sessions in memory, the question asked last | ProcessMessage, select, route | interactions, extensions, permissions, language model | the answer comes in a later message, after things changed | a number goes to what stood at it |
| Query, page and GraphQL APIs; static files; command line tools; configuration | none | single reads | record store | little | - |

Components, their status and the reason for it are listed again in
`PROJECT.json`, as are the 40 hazards found while reading, each at its line.

## 2. Plan

Order: the most important shared state first.

1. `RecordDao` - the store, as operators. *Done.*
2. `EntityEvolution` extends it - live traffic against background migration. *Done, with proofs.*
3. `Engagement` - the bounded pipeline, which implements the abstract `EngagementQueue`. *Done, with proofs.*
4. `A2UIBroadcast` - the dashboard stream. *Done, with proofs.*
5. `LogRotator` - files under failing system calls. *Done, with proofs.*
6. `UserStores` - two stores without a transaction. *Done, with proofs.*
7. `ChunkUpload` - chunk sessions over the local and the SQLite file store, with commits
   tried again. *Done, with proofs.*
8. `Schemas` - Save call by call, the setups that save, the readers. *Done, with proofs.*
9. `Accounts` and `Messaging` - logins over a channel with one-time passwords; messages out and in. *Done, with proofs.*
10. `Access` - permissions on the way of a request. *Done, with proofs.*
11. `Extensions` and `SeedData` - discovery and mounts; the loader of seed data. *Done, with proofs.*
12. `Drivers`, `Notices`, `Router` - the five stores side by side; the small services; the router agent.
    *Done, with proofs.*
13. `TempAccess` - the purge of temporary files against uploads and downloads. *Done, with proofs.*
14. `Services` - the modules of 8 to 13 side by side. *Done, with proofs.*

`EntityEvolution` composes the entity API, the evolution service and the record
store; `UserStores` composes the entity API, the auth service and the start of the process.
`Schemas` composes the schema API, the setup of business definitions and the mount of an
extension; `Accounts` the login, the channel rows and the one-time passwords; `Access` the middleware,
the permissions and the entity service. The remaining modules are separate, as the code is:
they share no state.

## 3. Modules

Each handler is split exactly at its DAO calls (or lock operations), because
another goroutine can run there and nowhere else that matters. Where nothing
can come between, several calls are one action. Failing calls are actions of
their own. History variables are marked as such and no guard reads them.

### RecordDao

Operators `Save`, `SaveConditional`, `Matches`, `Delete`, `Page`, `Pages`, on a function
from keys to records or `None`. Two facts of `infrastructure/relationdbdao/` carry
everything that follows: `Save` is an upsert that writes *the caller's revision
plus one* whatever the row holds; `SaveConditional` writes only over the revision
named. `Pages` is what `List` without filters and sorts may return. Four drivers go through
the keys in order, so that a page is fixed by its `LIMIT` and `OFFSET` (`Page`).
Postgres adds no `ORDER BY` unless it is asked for one (`postgres.go:147`): rows come
as they lie in the heap, where an `UPDATE` may move its row, and with
`ListsInKeyOrder = FALSE` a page is any set of rows of the right number. `HonoursOffset = FALSE` stands
for a driver whose `List` drops the offset (`firestore.go:147`).

### EntityEvolution

| TLA+ | Code |
|---|---|
| `store` | rows of the entity's namespace: revision, `SchemaVersionDate`, body |
| `manifest` | `EvolutionService.manifests[entity]` |
| `req[w]` | an `Update` between its Get and its Save |
| `scrub[s]` | locals of a `ScrubEntity` call: offset, page, failures |
| `watch[s]` | history: what has happened to the records since that call started |
| `Insert`, `UpdateRead`/`UpdateSave`/`UpdateFails`, `DeleteRecord` | `EntityService.Insert`, `Update`, `Delete` |
| `ScrubStart`, `ScrubList`, `ScrubSkip`, `ScrubSave`, `ScrubPageEnd`, `...Fails` | `cms_bizdef_evolve`, the loop of `ScrubEntity` |
| `MountTimeline`, `Crash` | an extension mounted at run time; a restart |

A record's body is the set of client writes merged into it, so that a lost update
is visible; `applied` is the set of schema versions whose actions were run over it,
so that a version run twice or skipped is visible when compared with the stamp. A
date is a number and `Stamp` is what is left of it after RFC 3339 formatting.

Properties: `StampTruthful` (the stamp says exactly what was run over the record, in
rows, in flight and in pages), `ScrubComplete` (a run without failures misses at most one
undisturbed record for every record deleted while it ran; where rows come in no order that
holds for a single page only, and `MayMiss` says so), `ScrubKeepsUnforkedWrites` (a scrub overwrites a client's
write only where another client's Save forked the row's history), `ScrubEnds`.

### Engagement

`calls` are handlers in `Track`, `ch` the channel, `buffer` and `worker` the worker's
locals; `status` and `count` the two namespaces it writes. `FlushStatus` is `Get` and
`Save` of the status, `FlushCount` the read and write of the counter: only the
worker writes either, so each pair is one step, while a failure or crash falls
between the two. `Get`'s dropped error is the parameter `found`.

Properties: `CountsConserved` (what was tracked is in the counter, the buffer or
the channel, each once), `VisitsCountVisitors`, `TrackReturns`, `EverythingFlushed`, and
`ImplementsQueue`; proved only: `OneBatchAtRisk`, `StatusNeverGoesBack`.

`EngagementQueue` is what the pipeline promises, without channel, batch or ticker: one
queue of accepted statuses, taken from the front and written, the status first and
then its counter; a write may fail, and a crash may take the queue. `Engagement`
implements it under the mapping `pending <- buffer \o ch` and a `stage` read off the worker's
program counter: `TrackSend` is the enqueueing, receiving a status is a stutter
(the queue is the same whether its head is in the channel or in the buffer), and
the flush's writes are the queue's.

### A2UIBroadcast

`components` and `chans` are the service's two maps, `upd` the goroutines in
`UpdateComponent` or in the increment action, `shown` what a browser shows. `Store` is
the first critical section, `StartSending`/`Send`/`Return` the second, under the read
lock: `NoReader` is the condition under which the lock can be taken for writing
(`Store`, `Connect`, `Disconnect`). `ReadCount` and `WriteCount` are the unlocked
read-modify-write of the counter, on a map that all snapshots share.

Properties: `NoSendOnClosed`, `SettledIsCurrent`, `ShownNeverGoesBack`, `CountExact`,
`UpdateReturns`; proved only: `ChannelsBounded`.

### LogRotator

The mutex is held for the whole of `Write`, so a Write is one step; its outcomes
(`WritePlain`, `WriteRotating`, `WriteRenameFails`, `WriteReopening`, `WriteFails`,
`WriteRefused`) differ in which system calls fail. A backup's name is the
second it was made in; `covered` and `pruned` are the lines gone in the two ways a
backup can go. `SizeAfterOpen` is `open`'s treatment of a file that is not there yet.

Properties: `LostOnlyTwoWays`, `PrunedOldestFirst`; proved only: `TypeOK`, `SizeCoversFile`. `BackupsBounded` is stated
beside them and in no run.

### ChunkUpload

| TLA+ | Code |
|---|---|
| `driver` | which file store is configured; chosen once |
| `sessions`, `asset` | the `UploadSession` and `Asset` records |
| `chunks` | local: files in the chunk directory; SQLite: the map `s.chunks` |
| `file`, `torn` | the committed file, and the places in it that have a part of their chunk only |
| `req[r]` | the call a handler makes next, and what it has read |
| `StatusList`, `StatusSave` | `AssetService.ChunkStatus` |
| `UploadMap`; `UploadCreate`, `UploadWrite`, `UploadCopy` | `UploadChunk` of the SQLite store (under its lock); of the local one (`os.Create`, the first bytes of `io.Copy`, its end) |
| `CommitList`, `CommitCreate`, `CommitAppend`, `CommitBreaks`, `CommitRemove` | `CommitChunks` of the local store; a copy that breaks off |
| `CommitAssemble`, `CommitPut`, `CommitForget` | `CommitChunks` of the SQLite store, whose lock is given up for the write |
| `CommitStat`, `CommitRecord`, `CommitClose` | the rest of `AssetService.CommitChunks` |
| `Fails`, `Restart` | a failing call; a crash, after which the SQLite chunks are gone |

There is one user and one file. A file is the sequence of the numbers of its chunks,
with -1 for a hole. A stored chunk is empty, a part or whole: an upload to the local store that fails or
dies on the way leaves what it has written, and a commit copies what it finds. Uploads of one number carry the same bytes.
The local commit copies
with a write offset of its own, so that two of them at a time write over each
other (`Written`). Two uploads of one chunk write to one file (`into`): the later one empties it under the
earlier, whose end then makes no whole chunk; a chunk's file that is removed while it is being filled is filled
without a name. `os.RemoveAll` is one step that removes any subset of the
chunks and fails when that is not all of them.

No lock is held for a path and nothing stops a client from sending a call twice or late,
so the properties name what they excuse, each in a history variable: `disturbed` paths have
had an upload during or after a commit, or a local commit during an upload, during
another commit or after one; `overlaid` ones two local commits at a
time; `unsaved` ones a session whose Save failed; `shared` is FALSE once two look-ups of a
session overlapped or one failed. `acked` are the chunks whose latest upload was acknowledged, `begun` those with any upload.

Properties: `RecordedIsWhole` (a recorded asset has every acknowledged chunk, whole and in order, and besides only
what broken uploads have left),
`SessionUntilRecorded`, `OneSession`; proved only: `FileInOrder`.

### UserStores

`entity` and `core` are the two namespaces that hold every user; `req[r]` is the
DAO call a request makes next and what it works on. Actions follow the handlers
call by call: `Insert`, `UpdatePassword`/`UpdateOther`/`UpdateSave`, `Mirror`, `Delete`/`DeleteCore`/
`DeleteEntity`, `LoginMiss`/`MeMiss`/`Lookup`, `Register`, `LinkChannel`/`SaveCore`/`SaveEntity`,
`ResetPass`, `Fails`. `Num` is `StringToInt64ID`: an
entity key that is not a number gets a numeric one.

`start` is the progress of a start of the process, during which no request is served: `Sync` is
`syncUserStores` (core records that are missing, rows that are missing, rows without a role), run before
and after the administrator is set up; the Saves of any emails may fail, and their errors are dropped.
`SetAdmin` is the branch of `BootstrapAdmin` for credentials in the environment, which gives an existing
user the configured password, in both stores; `FirstAdmin` the one for a deployment without an
administrator; `AdminExists` the one where there is one; `RemoveDemo` deletes a demo account with the demo password. What the
bootstrap saves and deletes goes through the same `SaveCore`, `SaveEntity`, `DeleteCore`, `DeleteEntity` and `Fails` as
a request's, call by call, and `Restart` cuts a start short as it does requests. Of roles
only what `syncUserStores` changes is kept, whether a row has one; whether a core user is an administrator
is a choice, so that a start may take any branch. The reads of a start are taken to succeed. The code takes a `Get` that
fails for a record that is not there (`auth_service.go:569`, `:590`, `:762`) and saves over what is: `RestartRepairs` speaks of
Saves and Deletes that fail, not of reads.
The bootstrap is a step like any other for the history variables: an administrator whose account had been
deleted comes back with `SetAdmin` or `FirstAdmin`, which take the email out of `gone`.

The code keeps nobody from giving two users one email, or from working on a user
somebody else is working on; and a request that fails between its two writes leaves
the stores apart. An email to which that has happened is put in `loose`; what is
promised is promised of the others. This makes the conditions explicit under which
the stores agree, instead of leaving the events out.

Properties: `LoginFollowsEntity`, `DeletedStaysGone`, `RestartRepairs`.

### Schemas

`rows` is the namespace of schemas, keyed by `schemaId`; `op[p]` a `Save` under way and the loop
of the setup around it, one action per DAO call: `SetupLookup`, `Begin`, `ListLatest`,
`WriteBackLatest`, `ListPublished`, `WriteBackPublished`, `Put`. What is written back is the row as it was
listed, with a member `is_latest` beside the row's own `isLatest`, so that the row stays latest: that is
what the code does, and why a name has several latest rows. `NewApp` runs the setup of the enabled definitions
and the home page as the process `Main`; `ApiSave`, `Publish`, `Unpublish`, `DeleteSchema` and
`MountExtension` come from requests; `Crash` starts over. `LoadStart`/`LoadEntity` is the depth-first
load of an entity and what it refers to. `sure` is history: the names a setup has looked up and nobody
else has written since.

Properties: `MountTakesEffect`, `NameStaysResolvable`, `LoadEnds`.

### SeedData

`copies` counts each seed record in the store, `pos` is where the loader's two loops are. The
loader looks at the first entity only (`Stored`, `Seeded`), children are inserted into their own
entity, and clients write and delete once the process serves. Property: `SeededAtMostOnce`; if clients
emptied the first entity the next start seeds the others again (`emptied`).

### Extensions

`dir` is the directory, `table` the map of infos, `watcher` the goroutine with its first scan, its sleep
of half a second after an event and its scans, `mount[a]` a `MountExtension` with the info it
read before. `unseen` are the files written between the first scan and `watcher.Add`. `tools[id]` says
whose open archive the tools of a mounted extension read, `Closed` once that mount has returned.
Property: `TableIsCurrent`, of the files whose id no other file carries (`OwnId`: of two with one id the table
shows the one loaded last); `MountedToolsRun` does not hold, see section 7.

### Accounts

`req[p]` is a login between two of its DAO calls: `FindChannel`, `Me`, `FindPhone`, `CreateUser`,
`RegisterChannel`, `VerifyList`, `VerifySave`, `Issue`. One-time passwords are "none", "valid" or "expired".
Enrolment of a time-based secret and the channel API work on the same rows. Two faults of the code
matter and are modelled as they are: the error of a look-up is taken for "not linked", and a decoded user
has no secret (`Decoded`). Property: `OneUserPerPhone`, which names in `risk` the phones it does not
speak of; the comment at it lists them.

### Messaging

`send[s]` is a `SendNotification` going through the user's channels: `NextChannel`, `LogPending`, `PostToGateway`
(whose answer may be an error, or lost after the gateway took the message: `accepted`), `StatusGet`,
`StatusSave`. `Webhook`, `UploadMedia`, `SaveAsset`, `LogInbound` is the way of an inbound message.
Property: `StatusTellsTruth`, but for interactions hit by a fault between post and status (`spoiled`).

### Access

A request is `RBACMiddleware` (HasAccess on the name in the route), `RowFilters`, `Read`,
`FieldPermissions`, `Save`, `Answer`, each a read of the store of its own; the permission tables change between any
two. The pure functions of the permission service are the operators `HasAccess`, `GetRowFilters`,
`GetFieldPermissions`. `granted` is history: everything granted at some moment of the request. Property:
`OnlyWhatWasGranted`; `blind` marks the requests whose read of the field permissions failed, which the code lets
see and write everything.

### Drivers

One store and five views of it: what each driver's `List` finds (`MemoryMatches`, `SqliteWhere`, ...),
in which order (`MemoryRank`, `TypedRank`, `PostgresRank`), which page and what total. The order of texts in
Postgres is a constant of its own (`Collation`): `rec->>'f'` is sorted by the collation of the database, which
nothing in the code chooses, while the other four compare bytes. A value is a text and its kind (text, num, null), because that is what the drivers
treat differently. Property: `DriversAgree` on what was found for filters whose kind fits the stored one
(`KindsFit`), and on pages for sorts by distinct texts (`OrderFits`); for Postgres as far as its collation puts these
texts as their bytes do (`CollatesAsBytes`), which "C" does for all texts. The conditional writes are not compared here: they are in
`RecordDao`. The other exceptions it
names are real: SQLite refuses an offset without a limit, Firestore drops the offset and reports the length
of the page as the total, numbers and texts of equal print match on some drivers only.

### Notices

Notifications, comments, the audit log and checkouts; an operation is one action per DAO call
(`MarkGet`, `MarkSave`; `MarkAllList`, `MarkAllSave`, `MarkAllReturns`; `DeleteSingle`, `DeleteSave`;
`FetchProduct`, `InsertCheckout`). Property: `ReadAsAsked`, with the histories `asked` and `cleared`.

### Router

`Message`, `SessionGet`, `SessionCreate` are `ProcessMessage`; `Resolve` finds the targets open to the user, `Select`
reads the question logged last and looks the answer up in its options, `Initial` routes or asks
(`Ask`), `Route` hands over. `newest` is the newest routing interaction of a user, `asked` the history of questions.
Property: `RoutedAsShown`. (The permission is asked when the options are put together, not again when one is
selected.)

### TempAccess

`Get`, `IsExpired` and `Download` are the open GET: what is downloaded is what is there by then. `Upload`, `Delete`
and `CleanupExpired` need the path's role. A purge takes the time when it begins, looks (`Look`) at one file of a
walk or one page of a listing, and removes (`Remove`) by name what it found over its time; the SQL stores do it all
in one statement (`PurgeRows`). `Scope` is what it looks at: the directory in the local store, and in the others all
names that begin with the path's. Property: `ExpiryKept`, that no file which `IsExpired` would let through is taken
away unasked and none beyond it is served; a file stored anew while the purge runs, and one outside the path
whose name begins with it, are the exceptions it names. `CleansItsPathOnly`, without the second exception, does not hold.

## 4. Runs and bounds

| Run | Instance | States | Shows |
|---|---|---|---|
| `evolution_safety` | 2 keys, 2 writers, 1 scrubber, pages of 1, timelines {1}, {1,2}, 2 writes; symmetric writers | 673 000 | safety under updates that race, deletes, mounts, restarts, on a driver that lists in key order |
| `evolution_two_scrubs` | 1 writer, 2 scrubbers, pages of 2, 1 write | 261 000 | every scrub ends, with two at once, on a driver that lists in any order |
| `evolution_overwrites` | as the first | violation | see section 7 |
| `engagement` | 2 users, 2 handlers, channel 1, flush at 2, 3 calls | 114 000 | all properties of the pipeline, and that it implements `EngagementQueue` |
| `a2ui` | 2 components, 2 updaters, 2 clients, channels of 1, 3 updates | 755 000 | all properties of the stream |
| `a2ui_overtaken` | channels of 3: no update is dropped | violation | see section 7 |
| `log_rotator` | lines of 1 and 2, files of 3, 1 backup, 3 seconds, 5 writes | 35 000 | all properties of the rotator |
| `log_rotator_half_empty` | 2 backups | violation | see section 7 |
| `uploads` | 2 paths, chunks 0 and 1, 2 handlers, 6 calls, either store; symmetric paths and handlers | 1 434 000 | all properties of chunked uploads |
| `users` | 3 keys (key 2 is not a number and stands for 3), 2 emails (one the administrator's, one a demo account), 2 requests, 1 password set by a request; of a start the saves of the second email may fail; symmetric requests | 3 761 000 | all properties of the two stores |
| `users_reset` | 1 user | violation | see section 7 |
| `services` | one instance each of the ten modules about the services around the core, see below | 837 000 | ten modules, a property or more of each |

`services` checks ten modules in one run: `Services` makes an instance of each under constants and variables
of its own and states their properties, and `Init` chooses the one that runs, so the states are the sum of theirs and not
the product; `MCServices` has the values of the constants. `Schemas`: 3 names (one built in, one the home page), 4 keys, 2 requests, 1 fault, a setup at the
start and one by a mount, definitions that refer to each other in a circle. `SeedData`: three entries
of two entities, two with a child, 3 starts. `Extensions`: 2 files of 2 extensions, 2 archives written, 1 request. `Accounts`: 1 phone, 2 types of
channel, 2 requests, 2 users, 1 fault. `Messaging`: 3 channels of which one is not verified and one has no gateway, 2 sends,
1 inbound message, 1 fault. `Access`: an entity with two fields at two levels, one of them a link, four
permission rows, 3 requests one after the other, 1 change, 1 fault. `Drivers`: 2 keys, 5 values of three
kinds, three of them texts which the collation sorts otherwise than bytes do, 4 filters. `Notices`: 2 users, 2 notifications, 2 requests at a time, 3 in all, 1 fault. `Router`: one sub-agent, 2
extensions, 2 messages at a time, 1 fault, 1 change. `TempAccess`: a file under a path with a life of 1 tick and
another whose name begins with the path's, 2 requests, 3 ticks, 1 fault, each of the four kinds of store.

Why these are enough. The races are between two parties, so two of each kind are
present wherever the same handler can run twice. Page size 1 over two keys makes
a scrub cross a page boundary, with an empty last page; size 2 makes a full page. Two timelines
where the second extends the first make a mount in the middle of a scrub
matter. Two writes let an update race another and still leave one scrub to be
deceived. The channel of 1 and the flush at 2 reach "full" with three calls; the real
capacities (100, 50, 10) only put the same event further away, and the theorems
hold for all of them. A file of 3 with lines of 1 and 2 rotates with and
without a remainder, and 5 writes in 3 seconds give both two rotations in one second and rotations
in different ones. Three keys of which two share a number, and two emails, are the smallest instance
in which users collide by number, by email, or not at all; the environment's password is the
one of the earlier deployment, so that a start after a change of password sets an older one, and a demo account's may
have been changed or not. Two
paths are two sessions for one file; two chunks give an order, a middle and a hole; six calls
are a status, two uploads and a commit, and two more that may come late or twice. `MaxOffset` in
`EntityEvolution` only merges offsets past the last record: every page there is empty.

Deadlock checking is off exactly where a bound on the number of calls lets the
system come to rest; see each `.cfg`.

Configurations to run by hand: most show behaviour that no document of the
repository denies, but a maintainer should know it; the last five are taken up in section 7.
Each ends in a counterexample:

| Command | Shows |
|---|---|
| `tlc -config MCEntityEvolution_misses.cfg MCEntityEvolution` | on Postgres the second page need not be cut from the order of the first: the scrub gets a record twice, another never, and reports success, though nothing was deleted (`ScrubUpgradesUndeleted`). With `ListsInKeyOrder = TRUE` and `ScrubUpgradesAll` instead, a record deleted between two pages shifts the rest and the scrub skips one |
| `tlc -config MCEntityEvolution_backdated.cfg MCEntityEvolution` | a version added with an earlier date than one applied is never run (`JitReadComplete`) |
| `tlc -config MCEntityEvolution_fraction.cfg MCEntityEvolution` | a date with a fraction of a second is stamped without it, and its actions run again at every access (`EvolvedIsLatest`) |
| `tlc -config MCEntityEvolution_no_offset.cfg MCEntityEvolution` | on a driver that drops the offset, a scrub of more than a page never ends (`ScrubEnds`) |
| `tlc -config MCLogRotator_covered.cfg MCLogRotator` | two rotations in one second: the second backup replaces the first (`LostOnlyByPruning`) |
| `tlc -config MCA2UIBroadcast_full.cfg MCA2UIBroadcast` | a client whose channel was full stays behind after reading everything (`AllNotified`) |
| `tlc -config MCA2UIBroadcast_lost.cfg MCA2UIBroadcast` | two increments at once count once (`IncrementsCounted`) |
| `tlc -config MCChunkUpload_retry.cfg MCChunkUpload` | a commit of the local store that is tried again after its chunks were removed empties the committed file (`RecordedNotEmptied`). With `NothingTorn` instead: a chunk whose upload broke off is committed with the part it has (and `ChunkStatus` counts it as uploaded) |
| `tlc -config MCServices_tools.cfg MCServices` | a mounted extension whose tools cannot be called (`MountedToolsRun`); see section 7 |
| `tlc -config MCServices_totp.cfg MCServices` | an enrolled user whose secret does not come back from the store (`EnrolledIsRecognised`); see section 7 |
| `tlc -config MCServices_prefix.cfg MCServices` | a cleanup of one path that removes a file outside it, whose name begins with the path's (`CleansItsPathOnly`); see section 7 |
| `tlc -config MCUserStores.cfg MCUserStores`, with the invariants and properties replaced by `PROPERTY CredentialsNeverAltered` and `DemoEmails = {}` | a start sets the administrator's password anew; see section 7 |
| `tlc -config MCChunkUpload_restart.cfg MCChunkUpload` | a restart loses acknowledged chunks of the SQLite store (`AckedKept`); see section 7 |

## 5. Fairness

- `EntityEvolution`: weak fairness of each scrubber's own steps - a goroutine that can
  run is scheduled. Nothing is assumed of clients, who may write for ever
  (within the bound) or never.
- `Engagement`: weak fairness of the worker, which always has a step when there is a
  status (its ticker fires every five seconds); strong fairness of `TrackSend`, because the room a
  handler waits for comes and goes, and Go serves senders waiting on one channel in
  the order they came, so that one is not overtaken for ever.
- `A2UIBroadcast`: weak fairness of the steps of `UpdateComponent` after its first critical
  section. Nothing is assumed of `Deliver`: a client may never read, and `UpdateReturns`
  says that this holds up nobody.
- `Schemas`: weak fairness of `LoadEntity`, the steps of a request that loads entities and waits for nobody.
- `LogRotator`, `ChunkUpload`, `UserStores` and the other modules of `services` state safety only and no fairness.

## 6. Proofs

Each proof module extends its component's module; the theorems hold for all
values of the constants that satisfy the named assumption (`DaoAssumption` and
`EvolutionAssumption`, `EngagementAssumption`, `BroadcastAssumption`,
`RotatorAssumption`, `ChunkAssumption`, `UserAssumption`, `ServicesAssumption`), none of which bounds the number of processes,
keys, users or capacities. Four sets are assumed finite: the chunk numbers of a file; the keys of the schema
table, so that of the rows of one name there is one with the highest id; the router's targets, which it puts in
a list; and the values the drivers may hold, of which there is a highest rank. All leaves are proved.

`ServicesAssumption` joins those of the parts (`AccessAssumption`, `NoticesAssumption`, `SeedDataAssumption`,
`MessagingAssumption`, `AccountsAssumption`, `TempAccessAssumption`, `SchemasAssumption`, `ExtensionsAssumption`,
`RouterAssumption`, `DriversAssumption`), and the theorems about the parts are theorems of
`Services`' `Spec`, the one that the run `services` checks. `PartStarts` and `PartSteps` reduce each to its part: a behaviour in which a
part runs starts in an initial state of that part, and every step of it is a step of that part or leaves its variables alone.

| Module | Theorem | Argument |
|---|---|---|
| `EntityEvolutionProofs` | `TypeCorrect` | inductive as it stands; in particular stored revisions are at least 1 |
| | `NeverLies` (`StampTruthful`) | if versions are only appended and dated in whole seconds; `EvolveRecordTruthful` says that evolving a truthful record by any timeline of the history gives a truthful one, and truth is then carried through stores, requests and pages |
| | `OnlyForksAreLost` (`ScrubKeepsUnforkedWrites`) | not inductive: it needs `PageCurrent`, that a page row whose revision still is the stored one holds the same body, unless the key is marked as forked; each client Save either moves the revision on by one or marks the key |
| | `MissesAtMost` (`ScrubComplete`) | if the driver honours the offset, versions are dated in whole seconds and the batch size is not 0 (`cms_bizdef_evolve` passes any number on unchecked, and with 0 the first page is empty and the scrub ends having done nothing). `ScrubInv`: a record the scrub owes an upgrade has it, or has its copy in the page in hand, or stands at or after the next page's offset where rows come in key order (`ToCome`), but for as many records as the run may have lost (`Budget`). The lemmas count the rows before a key: as long as no row is deleted no row moves towards the front (`RankGrows`), a deletion takes one row at most over the boundary between two pages (`DeleteLosesOne`), and a page with a row behind it is full (`PageFull`, by `RanksReached`), so that a short page is the last one, and a short first page the whole store in whatever order it comes (`OnlyPage`) |
| `EngagementProofs` | `TypeCorrect` | with `worker # "select" => buffer # <<>>` |
| | `BoundedRisk` (`OneBatchAtRisk`) | with `RoomToReceive`: the worker receives only below the flush size |
| | `StatusInOrder` (`StatusNeverGoesBack`) | with `InOrder`: numbers rise along store, buffer, channel and `sent` |
| | `QueueRefined` (`ImplementsQueue`) | initial states map to the empty queue; a step of the pipeline is one of the queue or leaves it alone. Receiving moves the head of `ch` behind `buffer`, which `ConcatShift` shows to be no change of `buffer \o ch`; a flush takes the head of a `buffer` that is not empty, by the invariant above |
| | `EachCountedOnce` (`CountsConserved`) | what is due of a sequence is the sum over its statuses; appending, moving to the buffer and flushing one status shift that sum from one place to the next |
| | `VisitorsBound` (`VisitsCountVisitors`) | not inductive: between the two writes of a new visit the user has its status and is not counted (`Uncounted`, `VisitInv`) |
| `A2UIBroadcastProofs` | `TypeCorrect`, `ChannelsFit` | inductive together with the next one |
| | `NeverPanics` (`NoSendOnClosed`) | with `TodoSubscribed`: whoever is still to be sent to is subscribed, kept by the read lock |
| | `CountOnlyRaces` (`CountExact`) | with `ReadInv`: a count read is at most the count, and equal to it while nobody else is counting |
| | `SettledShowsState` (`SettledIsCurrent`) | `SInv`: while updates do not overlap there is one at most and it sends the state (`OneUpdate`); what was sent last to a client that is not waiting for its turn is the state (`SentIsCurrent`) |
| | `NeverShowsOlder` (`ShownNeverGoesBack`) | with `Ordered`: snapshots lie in a channel in order, after the one shown and before the state |
| `LogRotatorProofs` | `TypeCorrect`, `NeverUnnoticed` (`SizeCoversFile`), `LossAccounted` (`LostOnlyTwoWays`) | one inductive invariant; `PruneFacts` and `RenameFacts` say where the lines of a file go |
| | `OldestGoFirst` (`PrunedOldestFirst`) | with `PruneInv`: the modification times of backups order their lines, every backup is older than the open file, and what was pruned older than both. Of two backups with one modification time one at most has lines, so it does not matter which of them the sort puts first |
| `ChunkUploadProofs` | `TypeCorrect` | inductive as it stands, with the clause that a handler that has made the file has one |
| | `OrderKept` (`FileInOrder`) | not inductive: `OrderInv` adds that on a path that is not overlaid there is one commit at a time (`OneWriter`), and that what it has still to copy comes after what it has copied, with its offset at the end of the file (`Following`) |
| | `SessionFound` (`SessionUntilRecorded`) | with `Recorded`: a handler that is about to close a session has recorded the asset |
| | `SessionsAgree` (`OneSession`) | `OneInv`: a look-up about to save a session has found none, and no other is about to |
| | `RecordedWhole` (`RecordedIsWhole`) | far from inductive: `PathOK` says of each undisturbed path, stage by stage of its commit, which chunks are kept and which of them are whole, that nobody else works on it, what has been emptied, and what a complete file shows; it rests on the order proved by `OrderInv` |
| `UserStoresProofs` | `TypeCorrect` | inductive as it stands |
| | `BootRepairs` (`RestartRepairs`) | with `BootWork`: during a start one thing at a time is under way, the saving of the administrator or the removal of a demo account that still has the demo password. `Syncs` says what the two loops make of the stores, `StartKeeps` what each step of a start leaves alone |
| | `DeletedForGood` (`DeletedStaysGone`) | with `OwnsWork`: an email that is not loose is in one request's hands at most, and a request that is deleting, copying or saving is the one; `OrderlyKeeps` shows that a step within these limits leaves deleted emails alone |
| | `LoginAgrees` (`LoginFollowsEntity`) | with `Tidy`, what each request has looked up when it is where it is, and `AllFit`: an email nothing excuses has one row, and is copied, or in the hands of the one request that is about to copy what it holds |
| `AccessProofs` | `AccessTypeCorrect` | with `Begun`: what a request knows at each step |
| | `NothingLeaks` (`OnlyWhatWasGranted`) | with `UpToDate`, that the history of a request under way has all that is granted now, and `ByGrant`, that the permissions it acts by are in that history |
| | `PartsTypeCorrect` (`ServicesTypeOK`) | from the invariants of the parts; to those of `Schemas` and `Extensions` it adds the variables they do not speak of (`SchemasRecords`, `ExtensionsBeside`) |
| `ServicesProofs` | `SeededOnce` (`SeededAtMostOnce`) | `SeedsIInv`: as long as no client emptied the first entity, the entries the loop has not reached have no copy, and of the one it is at only what it has just inserted |
| | `LogIsTrue` (`StatusTellsTruth`) | `MessagesIInv` follows each message through the stages of its send: what is logged and what the gateway took before, at and after the post |
| | `OneUser` (`OneUserPerPhone`) | with `Creating`, that a login about to create a user has seen none; `OneSearches`, that one login of a phone searches at a time unless the phone is at risk; and that an enrolment saves a user under the number it has |
| | `NoticesTypeCorrect` | with `NoticesBounds`: an audit record for each request at most |
| | `OwnersDecide` (`ReadAsAsked`) | with `Marking`, that a notification about to be saved is there and its owner's, and `Clearing`, that those a MarkAllAsRead has saved are read; `Grows` says that no step removes a notification, makes it unread or gives it to another, and `GoodGrows` that all other requests are then as they were |
| | `LiveFilesStay` (`ExpiryKept`) | with `TempGood`: what a purge has listed as doomed was over its time at the time the purge looked at the clock, or has been stored anew since then |
| | `MountWorks` (`MountTakesEffect`) | with `Applied`: of a name a setup has seen and nobody else touched, either the setup is done with it and it resolves to the definition, or the `Save` in hand carries the definition to the row the name resolves to or to a first row (`SaverWrites`). `Untouched` says that the steps of other processes leave such a name as it resolves, `HighestExists` that of finitely many rows one has the highest id |
| | `NamesStay` (`NameStaysResolvable`) | a builtin name always resolves (`BuiltinGood`), any other only while one of its rows is there (`ResolvesTo`, `ResolvesToNone`): one that stops resolving has lost a row it had |
| | `TableFollowsDisk` (`TableIsCurrent`) | with `ToBeScanned`: the table has a complete file as it is on disk, or the watcher has an event, sleeps, or has the file left to scan; and with `Active`, that an info verified is active before any mount, so that a mount which ends late changes nothing |
| | `AnswersFollowQuestions` (`RoutedAsShown`) | with `Routing`, that a message which has its target got it from a question put to its user or from what was open when it came (`Shown`), and `Pending`, that a question waiting for its answer was put; questions put are only added to (`RoutingStays`) |
| | `DriversExchangeable` (`DriversAgree`) | from the type of the store alone, driver by driver: `MatchesAgree` for one filter and one record, `OrderAgrees` for two records under a sort by distinct texts, and from these `FoundAgree` and `ListsAgree`; `CollatesAsBytes` is what `OrderAgrees` needs of Postgres |

Six of them (`LogRotatorProofs`' `TypeCorrect`, `BoundedRisk`, `StatusInOrder`, `ChannelsFit`, `NeverUnnoticed`, `OrderKept`) state invariants that
no run checks any more: the proof says all that a run would.

Only model-checked: the liveness properties (`ScrubEnds`, `TrackReturns`,
`EverythingFlushed`, `UpdateReturns`, `LoadEnds`), which the prover does not reach. Every
invariant and action property that a passing run checks is proved. The longer inductive invariants (`ScrubInv`, `WholeInv`, `AllFit`,
`PruneInv`, `SInv`) were checked with TLC on the instances of the runs before they were proved.

## 7. Where code and documents part

1. *Scrubs may overwrite live updates* (`evolution_overwrites`). A scrub lists a row at
   revision 1; a client inserts over its id, and the upsert of `Insert` starts again at revision 1;
   the scrub's conditional save matches the new row and overwrites it. Two racing updates
   write one revision twice and lead to the same, if a newer timeline is mounted before the scrub
   reaches the row. `ARCHITECTURE.md:111` says that revisions
   ensure "that background migrations never overwrite live user updates". The property that holds is
   `ScrubKeepsUnforkedWrites`.
2. *The dashboard may stay at an older state* (`a2ui_overtaken`). The lock is given up
   between snapshot and send, so of two updates the older may be sent last, with room
   in every channel.
3. *Every write rotates after the first rotation* (`log_rotator_half_empty`). `open` sets the size only
   when the file exists; a new file inherits the size of the one renamed away.
4. *reset-pass does not last* (`users_reset`). The tool saves the core record only; the next
   update of any field of the user mirrors the old password back.

Others, shown by configurations to be run by hand. *The tools of a mounted extension cannot be called*
(`MCServices_tools.cfg`): `MountExtension` hands the open archive to the sandbox and closes it when it returns
(`core/app_extensions/service.go`, `defer r.Close()`), so a call of a tool reads from a closed file, while
`README.md:26` offers "Support for BizDefs, Agentic tools, polyglot sandboxed scripts".
*An enrolled user is not known to have enrolled* (`MCServices_totp.cfg`): the secret is stored as `totpSecret`
and decoded as `totp_secret`, while `core/api/auth_api.go:237` says "LoginByChannel handles finding user and
verifying TOTP if token is provided".
*Uploads to the SQLite store do not survive a restart* (`MCChunkUpload_restart.cfg`). `conductor/archive/code-review-remediation/spec.md` asks in 3.2 to
"implement database table persistence for multi-part file chunks", and the plan beside it ticks "support
persistent chunk storage" off; the chunks are in a map.
*A cleanup reaches beyond its path* (`MCServices_prefix.cfg`). The S3, GCS and SQL stores purge every name that begins with
the path's text, so a cleanup of `tmp` takes old files of `tmp2`, and any other file called `tmp...`, with it; `docs/temporary_file_access.md:57`
says that it deletes "all files in the path that have exceeded their TTL".
*A start may set the administrator's password anew* (`CredentialsNeverAltered`, see section 4). With credentials in the
environment, `BootstrapAdmin` overwrites password and roles of the user with that email in both stores at every start
(`core/services/auth_service.go:685-797`), before it looks for administrators, and deletes demo accounts; a password changed since
then is lost. `docs/user_lifecycle_and_rbac.md:177` says that with an administrator present the bootstrap is skipped and "existing administrative setups and
credentials are never overwritten or altered". A test asks for the overwriting
(`core/services/auth_bootstrapping_test.go:73`), so it is the document that is wrong.
*A scrub may skip records on Postgres* (`MCEntityEvolution_misses.cfg`): its pages are separate unsorted `List` calls,
which `postgres.go:147` sends without `ORDER BY`, and the scrub's own updates move rows in between, while
`ARCHITECTURE.md:109` says that it "iterates through all records of an entity and permanently upgrades them".

Met while modelling, and in the models as they are: the routes of `RBACApi` use the middleware without the
name of a resource, so every request to them is refused (`core/api/rbac_api.go:53`); role `admin` passes
`HasAccess` and has no field permissions of its own; on the memory driver, the last of several sorts is the
primary one; the comment API takes every caller for the administrator.

## 8. What is not modelled

- Filters other than equality (no driver looks at them), several sorts at once, connecting to
  the databases and creating tables; the junction calls of EntityService, which do nothing.
- Query, page and GraphQL services, static files: read-only translation of requests into List calls.
- The memory driver's sharing of maps between a read and the store: it is for tests.
- Data races on Go maps (`manifests`, a component's attributes) as such: what the model
  shows is the interleavings; that the runtime may also stop the program is covered
  where a crash is an action, and named where it is not.
- Uploads: several files and users (each has sessions of its own), the bytes within a chunk beyond empty, part
  and whole, the S3, GCS, PostgreSQL
  and SurrealDB stores, `Save` and `Delete` of assets.
- The roles of users beyond whether a row has one; the file the generated password of an administrator is written to.
- Tokens, password hashing and time-based codes: cryptography.
- The agent runtime, language models and other libraries.
- The components of section 1 without a module; see the plan.

## 9. How to run

    tlc -workers 2 -config MCEngagement.cfg MCEngagement
    tlapm EngagementProofs.tla

and the same for the others. The longest run takes about two minutes, the longest proof
a few.
