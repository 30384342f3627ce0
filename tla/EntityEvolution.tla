--------------------------- MODULE EntityEvolution ---------------------------
(***************************************************************************)
(* Live entity traffic against the background schema migration.            *)
(*                                                                         *)
(* core/services/entity_service.go serves Insert, Update, Delete and the   *)
(* reads of one entity's records; core/services/evolution_service.go       *)
(* brings a record up to the newest version of the entity's timeline, both *)
(* just in time (inside a read or an Update) and in a background goroutine *)
(* (ScrubEntity, started by the tool cms_bizdef_evolve).  The two share    *)
(* nothing but the record store: an Update is a Get followed by an         *)
(* unconditional Save, the scrubber a List followed by one SaveConditional *)
(* per row, and every other call may fall between those steps.             *)
(*                                                                         *)
(* Data abstraction.  A client write is a number; a record's body is the   *)
(* set of writes merged into it (Update merges its fields into the body it *)
(* read, Insert starts a body of its own).  A schema version is its date.  *)
(* A timeline is the set of dates in evolution.json, and applied is the    *)
(* set of versions whose actions have been run over the body.              *)
(***************************************************************************)
EXTENDS RecordDao

CONSTANTS
    Writers,       \* request goroutines that may run an Update at a time
    Scrubbers,     \* background goroutines that run ScrubEntity
    Timelines,     \* the contents evolution.json may have, as sets of dates
    BootTimeline,  \* the one SetupBizDefEvolution registers at start-up
    Stamp,         \* what is left of a date once it is formatted as RFC 3339
    BatchSize,     \* batchSize of ScrubEntity
    MaxWrites,     \* bound: client writes in a behaviour
    MaxOffset      \* bound: the largest offset told apart from those after it

Dates == UNION Timelines
WriteIds == 1 .. MaxWrites

\* The body and metadata of a record; ver = 0 is an empty SchemaVersionDate.
\* A record in memory that was never saved has revision 0.
Record ==
    [rev : Nat, ver : Nat, applied : SUBSET Dates, data : SUBSET WriteIds]

\* A stored record went through Save or SaveConditional at least once.
StoredRecord == [rev : Nat \ {0}, ver : Nat,
                 applied : SUBSET Dates, data : SUBSET WriteIds]

\* An Update between its Get and its Save: the key and the record it will save.
Request == [key : Keys, held : Record]

\* evolution.json has finitely many versions, so a non-empty set of them has a
\* last one; formatting a date drops its fraction of a second; and no record or request is the value that stands for "none".
ASSUME EvolutionAssumption ==
    /\ Dates \subseteq Nat \ {0}
    /\ \A S \in SUBSET Dates : S # {} => \E d \in S : \A e \in S : e <= d
    /\ BootTimeline \in Timelines
    /\ Stamp \in [Dates -> Nat]
    /\ \A d \in Dates : Stamp[d] <= d
    /\ BatchSize \in Nat
    /\ MaxWrites \in Nat
    /\ MaxOffset \in Nat
    /\ MaxOffset >= Cardinality(Keys)  \* from there on every page is empty
    /\ None \notin Record
    /\ None \notin Request

VARIABLES
    store,     \* the rows of aigen_records in the entity's namespace
    manifest,  \* EvolutionService.manifests, this entity's timeline
    req,       \* the Update each writer has in flight, or None
    scrub,     \* the local variables of each ScrubEntity call
    writes,    \* number of client writes so far: names the next one
    watch      \* history variable, see "What a scrub is told nothing of"

vars == <<store, manifest, req, scrub, writes, watch>>

-----------------------------------------------------------------------------
(* EvolveRecord *)

Last(S) == CHOOSE d \in S : \A e \in S : e <= d

\* The versions after the record's own date.
Pending(rec, timeline) == {d \in timeline : d > rec.ver}

\* Mutant of EvolveRecord: the actions are run and the metadata is left alone.
EvolveRecordUnstamped(rec, timeline) ==
    [rec EXCEPT !.applied = @ \cup Pending(rec, timeline)]

\* Runs the actions of every pending version in date order, and stamps the
\* record with the last one, as far as its text tells it.
EvolveRecord(rec, timeline) ==
    LET pending == Pending(rec, timeline)
    IN  IF pending = {} THEN rec
        ELSE [rec EXCEPT !.ver = Stamp[Last(pending)], !.applied = @ \cup pending]

-----------------------------------------------------------------------------
(* Local state of ScrubEntity *)

NoRows == [k \in Keys |-> None]

\* pc "list": about to call List; "rows": inside the loop over the page, recs
\* holding the records of it that are not reached yet, as List returned them;
\* "done": returned without an error; "idle": not running (never started, List
\* failed, or the process died).  full is len(recs) = batchSize, clean is
\* totalFailed = 0.
IdleScrub == [pc |-> "idle", offset |-> 0, recs |-> NoRows, full |-> FALSE,
              clean |-> TRUE]

ScrubState ==
    [pc : {"idle", "list", "rows", "done"}, offset : Nat,
     recs : [Keys -> StoredRecord \cup {None}], full : BOOLEAN, clean : BOOLEAN]

Running(s) == scrub[s].pc \in {"list", "rows"}

-----------------------------------------------------------------------------
(* What a scrub is told nothing of: watch[s] is the history of the records   *)
(* since the start of the ScrubEntity call that s is in, or has finished.    *)
(*   goal    the versions that have been on the timeline ever since          *)
(*   must    the keys present at its start that have since been neither      *)
(*           deleted, nor inserted anew, nor saved by an Update that had     *)
(*           read them under a timeline without all of goal                  *)
(*   gone    how many records have been deleted while it ran, counted up to  *)
(*           the number of keys                                              *)
(*   forked  the keys of the page in hand written, since it was listed, by a *)
(*           Save that did not continue the stored revision: an Update that  *)
(*           lost a race, or a write that re-created the record              *)

Watch == [goal : SUBSET Dates, must : SUBSET Keys, gone : 0 .. Cardinality(Keys),
          forked : SUBSET Keys]

NoWatch == [goal |-> {}, must |-> {}, gone |-> 0, forked |-> {}]

\* The histories after a client wrote rec over key k with Save.
WatchSave(k, rec) ==
    watch' = [s \in Scrubbers |->
        [watch[s] EXCEPT
           !.must = IF \A d \in watch[s].goal : d <= rec.ver THEN @ ELSE @ \ {k},
           !.forked = IF Matches(store, k, rec.rev) \/ scrub[s].pc # "rows"
                      THEN @ ELSE @ \cup {k}]]

\* The histories after a client deleted key k.
OneMore(n) == IF n < Cardinality(Keys) THEN n + 1 ELSE n

WatchDelete(k) ==
    watch' = [s \in Scrubbers |->
        [watch[s] EXCEPT !.must = @ \ {k},
                         !.gone = IF Running(s) THEN OneMore(@) ELSE @]]

-----------------------------------------------------------------------------
(* Live requests (EntityService) *)

\* Insert: one upsert with fresh metadata, over whatever the key held before.
\* The caller's fields are already in the format of the day, yet the metadata
\* carries no schema version.
NewRecord(id) == [rev |-> 0, ver |-> 0, applied |-> {}, data |-> {id}]

Insert(k) ==
    /\ writes < MaxWrites
    /\ writes' = writes + 1
    /\ store' = Save(store, k, NewRecord(writes'))
    /\ WatchSave(k, NewRecord(writes'))
    /\ UNCHANGED <<manifest, req, scrub>>

\* Update, up to the call of Save: Get, EvolveRecord, merge the caller's fields.
UpdateRead(w, k) ==
    /\ req[w] = None
    /\ store[k] # None
    /\ writes < MaxWrites
    /\ writes' = writes + 1
    /\ req' = [req EXCEPT ![w] =
                 [key  |-> k,
                  held |-> [EvolveRecord(store[k], manifest) EXCEPT !.data = @ \cup {writes'}]]]
    /\ UNCHANGED <<store, manifest, scrub, watch>>

\* Update, the Save: whatever the row has become since, and even if it is gone.
UpdateSave(w) ==
    /\ req[w] # None
    /\ store' = Save(store, req[w].key, req[w].held)
    /\ WatchSave(req[w].key, req[w].held)
    /\ req' = [req EXCEPT ![w] = None]
    /\ UNCHANGED <<manifest, scrub, writes>>

\* Save reports an error to the caller and nothing is written.
UpdateFails(w) ==
    /\ req[w] # None
    /\ req' = [req EXCEPT ![w] = None]
    /\ UNCHANGED <<store, manifest, scrub, writes, watch>>

\* Delete of an entity other than User: one DAO call.
DeleteRecord(k) ==
    /\ store[k] # None
    /\ store' = Delete(store, k)
    /\ WatchDelete(k)
    /\ UNCHANGED <<manifest, req, scrub, writes>>

-----------------------------------------------------------------------------
(* The background migration (EvolutionService.ScrubEntity) *)

\* cms_bizdef_evolve starts a goroutine; nothing stops a second one.
ScrubStart(s) ==
    /\ ~Running(s)
    /\ scrub' = [scrub EXCEPT ![s] = [IdleScrub EXCEPT !.pc = "list"]]
    /\ watch' = [watch EXCEPT ![s] =
                   [NoWatch EXCEPT !.goal = manifest, !.must = Present(store)]]
    /\ UNCHANGED <<store, manifest, req, writes>>

\* One List, without a sort.  No record: the loop is left.
ScrubList(s) ==
    /\ scrub[s].pc = "list"
    /\ \E page \in Pages(store, scrub[s].offset, BatchSize) :
         scrub' = [scrub EXCEPT ![s] =
             IF page = {} THEN [@ EXCEPT !.pc = "done"]
             ELSE [@ EXCEPT
                     !.pc = "rows",
                     !.recs = [k \in Keys |-> IF k \in page THEN store[k] ELSE None],
                     !.full = Cardinality(page) >= BatchSize]]
    /\ watch' = [watch EXCEPT ![s].forked = {}]
    /\ UNCHANGED <<store, manifest, req, writes>>

\* List reports an error: ScrubEntity returns it.
ScrubListFails(s) ==
    /\ scrub[s].pc = "list"
    /\ scrub' = [scrub EXCEPT ![s] = IdleScrub]
    /\ watch' = [watch EXCEPT ![s] = NoWatch]
    /\ UNCHANGED <<store, manifest, req, writes>>

\* The row the loop over the page has reached.
NextRow(s, k) ==
    /\ scrub[s].pc = "rows"
    /\ k \in Present(scrub[s].recs)
    /\ ListsInKeyOrder => \A j \in Present(scrub[s].recs) : k <= j

\* The row needs no change.
ScrubSkip(s, k) ==
    /\ NextRow(s, k)
    /\ Pending(scrub[s].recs[k], manifest) = {}
    /\ scrub' = [scrub EXCEPT ![s].recs[k] = None]
    /\ UNCHANGED <<store, manifest, req, writes, watch>>

\* The row is evolved and saved at the revision List returned.  A conflict is
\* counted in totalFailed and the row is left to a later run.
ScrubSave(s, k) ==
    /\ NextRow(s, k)
    /\ Pending(scrub[s].recs[k], manifest) # {}
    /\ LET rec == scrub[s].recs[k]
       IN  /\ store' = SaveConditional(store, k, EvolveRecord(rec, manifest), rec.rev)
           /\ scrub' = [scrub EXCEPT
                          ![s].recs[k] = None,
                          ![s].clean = @ /\ Matches(store, k, rec.rev)]
    /\ UNCHANGED <<manifest, req, writes, watch>>

\* SaveConditional fails for another reason: counted like a conflict.
ScrubSaveFails(s, k) ==
    /\ NextRow(s, k)
    /\ Pending(scrub[s].recs[k], manifest) # {}
    /\ scrub' = [scrub EXCEPT ![s].recs[k] = None, ![s].clean = FALSE]
    /\ UNCHANGED <<store, manifest, req, writes, watch>>

\* Mutants of NextOffset: one row too far, and not at all.
NextOffsetSkips(offset) ==
    IF offset + BatchSize >= MaxOffset THEN MaxOffset ELSE offset + BatchSize + 1
NextOffsetStuck(offset) == offset

NextOffset(offset) ==
    IF offset + BatchSize > MaxOffset THEN MaxOffset ELSE offset + BatchSize

\* End of a page: a short page is the last one, a full one moves the offset.
ScrubPageEnd(s) ==
    /\ scrub[s].pc = "rows"
    /\ Present(scrub[s].recs) = {}
    /\ LET this == scrub[s]
       IN  scrub' = [scrub EXCEPT ![s] =
             IF this.full
             THEN [this EXCEPT !.pc = "list", !.offset = NextOffset(this.offset),
                               !.full = FALSE]
             ELSE [this EXCEPT !.pc = "done"]]
    /\ UNCHANGED <<store, manifest, req, writes, watch>>

-----------------------------------------------------------------------------
(* The rest of the process *)

\* POST .../mount of an extension registers its evolution.json while requests
\* and migrations run.
MountTimeline(timeline) ==
    /\ timeline # manifest
    /\ manifest' = timeline
    /\ watch' = [s \in Scrubbers |-> [watch[s] EXCEPT !.goal = @ \cap timeline]]
    /\ UNCHANGED <<store, req, scrub, writes>>

\* The process dies and starts again: its goroutines are gone, the rows stay,
\* and only the timeline on disk is registered again.
Crash ==
    /\ manifest' = BootTimeline
    /\ req' = [w \in Writers |-> None]
    /\ scrub' = [s \in Scrubbers |-> IdleScrub]
    /\ watch' = [s \in Scrubbers |-> NoWatch]
    /\ UNCHANGED <<store, writes>>

-----------------------------------------------------------------------------

\* Rows left by an earlier deployment: saved once, and evolved by it or not.
OldRecord(timeline) ==
    [rev |-> 1, ver |-> IF timeline = {} THEN 0 ELSE Stamp[Last(timeline)],
     applied |-> timeline, data |-> {}]

Init ==
    /\ store \in [Keys -> {OldRecord({}), OldRecord(BootTimeline), None}]
    /\ manifest = BootTimeline
    /\ req = [w \in Writers |-> None]
    /\ scrub = [s \in Scrubbers |-> IdleScrub]
    /\ writes = 0
    /\ watch = [s \in Scrubbers |-> NoWatch]

Live ==
    \/ \E k \in Keys : Insert(k) \/ DeleteRecord(k)
    \/ \E w \in Writers : \/ \E k \in Keys : UpdateRead(w, k)
                          \/ UpdateSave(w)
                          \/ UpdateFails(w)

ScrubStep(s) ==
    \/ ScrubList(s) \/ ScrubListFails(s) \/ ScrubPageEnd(s)
    \/ \E k \in Keys : ScrubSkip(s, k) \/ ScrubSave(s, k) \/ ScrubSaveFails(s, k)

Next ==
    \/ Live
    \/ \E s \in Scrubbers : ScrubStart(s) \/ ScrubStep(s)
    \/ \E timeline \in Timelines : MountTimeline(timeline)
    \/ Crash

Spec == Init /\ [][Next]_vars

\* The scheduler runs every goroutine that can run.
FairSpec == Spec /\ \A s \in Scrubbers : WF_vars(ScrubStep(s))

-----------------------------------------------------------------------------
(* Properties *)

\* Every variable has its type; in particular every stored record has reached
\* revision 1 (revision 0 is omitted from the metadata JSON, so that the WHERE
\* clause of SaveConditional could never match it).
TypeOK ==
    /\ store \in [Keys -> StoredRecord \cup {None}]
    /\ manifest \in Timelines
    /\ req \in [Writers -> Request \cup {None}]
    /\ scrub \in [Scrubbers -> ScrubState]
    /\ writes \in 0 .. MaxWrites
    /\ watch \in [Scrubbers -> Watch]

\* evolution.json is only ever extended with versions dated after the others.
AppendOnly ==
    \A m, n \in Timelines : \A d \in m, e \in n : e <= d => e \in m

\* Every version of evolution.json is dated to the second.
WholeSeconds == \A d \in Dates : Stamp[d] = d

\* The body and the stamp of a record agree: the versions run over it are those
\* up to its date, none skipped and none run a second time.
Truthful(rec) == rec.applied = {d \in Dates : d <= rec.ver}

\* The stamp never lies, in the rows, in what an Update holds between its two
\* DAO calls, and in the page a scrub works on, whatever the interleaving of
\* updates, scrubs, mounts and restarts: what EvolveRecord skips on the next
\* access is what has been done, and what it runs has not been done.
StampTruthful ==
    /\ \A k \in Keys : store[k] # None => Truthful(store[k])
    /\ \A w \in Writers : req[w] # None => Truthful(req[w].held)
    /\ \A s \in Scrubbers, k \in Keys :
         scrub[s].recs[k] # None => Truthful(scrub[s].recs[k])

\* A read answers with EvolveRecord of the stored row (Single, List): every
\* version of the timeline has been run over what the caller gets ("applies all
\* necessary transformations to bring a record to the latest version",
\* core/services/evolution_service.go:31).
JitReadComplete ==
    \A k \in Keys : store[k] # None =>
        manifest \subseteq EvolveRecord(store[k], manifest).applied

\* A record that has just been evolved is at the latest version: nothing of the
\* timeline is left to run over it again (same comment, and ARCHITECTURE.md:105:
\* an upgrade is for records "on an older version than the manifest").
EvolvedIsLatest ==
    \A k \in Keys : store[k] # None =>
        Pending(EvolveRecord(store[k], manifest), manifest) = {}

\* Row k is written by a scrubber in this step.
SavedByScrub(s, k) ==
    /\ scrub[s].recs[k] # None
    /\ scrub'[s] = [scrub[s] EXCEPT !.recs[k] = None]
    /\ store'[k] # store[k]

\* A scrubber's write keeps every client write the row holds, unless since the
\* List a client's Save forked the row's history.
ScrubKeepsUnforkedWrites ==
    [][\A s \in Scrubbers, k \in Keys :
         SavedByScrub(s, k) /\ k \notin watch[s].forked
           => store[k].data \subseteq store'[k].data]_vars

\* What the documentation promises without that condition ("background
\* migrations never overwrite live user updates", ARCHITECTURE.md:111).
ScrubNeverOverwritesLiveUpdates ==
    [][\A s \in Scrubbers, k \in Keys :
         SavedByScrub(s, k) => store[k].data \subseteq store'[k].data]_vars

\* The row is at least at every version of the timeline.
Upgraded(k, timeline) ==
    store[k] # None /\ \A d \in timeline : d <= store[k].ver

\* The records of scrub s that were there when it started, were left to it, and are
\* not at every version that has been on the timeline since.
Missed(s) == {k \in watch[s].must : ~Upgraded(k, watch[s].goal)}

\* How many records a scrub may miss and end well all the same.  Where rows come in
\* key order: one for every record deleted while it ran, since the row that moves
\* over the boundary between two pages is one.  Where rows come in any order: none
\* as long as there is one page only, and any number of them after that.
MayMiss(s) ==
    IF ListsInKeyOrder THEN watch[s].gone
    ELSE IF scrub[s].offset = 0 THEN 0 ELSE Cardinality(Keys)

\* A run of ScrubEntity that ends without an error or a failed row has upgraded
\* every record that was there when it started, up to those MayMiss allows for:
\* inserts and updates between its pages, and the pages it changes itself, make a
\* run over rows in key order miss none.
ScrubComplete ==
    \A s \in Scrubbers :
        scrub[s].pc = "done" /\ scrub[s].clean
          => Cardinality(Missed(s)) <= MayMiss(s)

\* The same without allowance ("iterates through all records of an entity and
\* permanently upgrades them", ARCHITECTURE.md:109).
ScrubUpgradesAll ==
    \A s \in Scrubbers :
        scrub[s].pc = "done" /\ scrub[s].clean => Missed(s) = {}

\* The same if no record is deleted meanwhile.
ScrubUpgradesUndeleted ==
    \A s \in Scrubbers :
        scrub[s].pc = "done" /\ scrub[s].clean /\ watch[s].gone = 0 => Missed(s) = {}

\* A background migration ends.
ScrubEnds == \A s \in Scrubbers : Running(s) ~> ~Running(s)

=============================================================================
