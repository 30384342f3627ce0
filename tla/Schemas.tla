------------------------------- MODULE Schemas -------------------------------
(***************************************************************************)
(* Schemas and the ways they change while the server runs.                 *)
(*                                                                         *)
(* core/services/schema_service.go keeps one row per schemaId.  A Save is  *)
(* up to five calls of the record store (two listings, the write-back of   *)
(* what each returned, the final upsert), another request may run between  *)
(* any two of them, and each may fail.  Saves come from the API            *)
(* (core/api/schema_api.go), from the business definitions set up at       *)
(* start-up or by the mount of an extension (core/bizdefs/setup.go), and   *)
(* from the bootstrap of the home page.  Readers find a schema by name.    *)
(*                                                                         *)
(* Data abstraction.  A definition is a model value.  A name stands for a  *)
(* name together with its type: HomeName is the page, the others entities. *)
(* Ids and new schemaIds are random: any value that was not drawn before,  *)
(* in no order.  No body with deleted = true is posted.                    *)
(***************************************************************************)
EXTENDS Integers, FiniteSets

CONSTANTS
    Names, HomeName,   \* names; the home page is one of them
    BuiltinKey,        \* the schemaId of each built-in entity: [SUBSET Names -> Keys]
    HomeKey,           \* "default-home-page"
    Keys,              \* schemaIds; those no constant names are drawn at random
    Defs,              \* contents of a schema
    Builtin, OldHome, NewHome,  \* contents fixed in the code; OldHome names PostgreSQL
    Refs,              \* entities named by a definition's attributes: [Defs -> SUBSET Names]
    Ids,               \* positive numbers
    BootFS, ExtFS,     \* schemas/ of the enabled bizdefs and of an extension: name -> definition
    Bodies,            \* schemas that clients post: {<<name, definition>>}
    Savers,            \* request goroutines, interchangeable, one request each
    MaxOps,            \* bound: requests of a behaviour
    MaxFaults,         \* bound: failed calls of the store and crashes of a behaviour
    None

Main == "main"         \* the goroutine that runs NewApp
Procs == Savers \cup {Main}

Row == [name : Names, def : Defs, status : {"draft", "published"},
        latest : BOOLEAN, id : Ids \cup {0}]

SchemasAssumption ==
    /\ IsFiniteSet(Keys) /\ None \notin Keys /\ None \notin Row
    /\ HomeName \in Names /\ HomeKey \in Keys
    /\ DOMAIN BuiltinKey \subseteq Names
    /\ \A n \in DOMAIN BuiltinKey : BuiltinKey[n] \in Keys
    /\ {Builtin, OldHome, NewHome} \subseteq Defs /\ Bodies \subseteq Names \X Defs
    /\ \A fs \in {BootFS, ExtFS} :
          DOMAIN fs \subseteq Names /\ \A n \in DOMAIN fs : fs[n] \in Defs
    /\ Refs \in [Defs -> SUBSET Names]
    /\ Ids \subseteq Nat \ {0} /\ MaxOps \in Nat /\ MaxFaults \in Nat
    /\ Main \notin Savers

VARIABLES
    rows,     \* the namespace of schemas: [Keys -> Row or None]
    op,       \* the local variables of a Save and of the loop that calls it
    phase,    \* how far NewApp has come
    load,     \* a LoadLoadedEntity in flight
    drawn,    \* keys and ids used so far, and the numbers of requests and faults
    sure      \* history: names a setup has looked up, not written by others since

vars == <<rows, op, phase, load, drawn, sure>>

-----------------------------------------------------------------------------
(* Lookups *)

\* List with the given filters: a lookup without a status asks for isLatest.
All(rs, names, status) ==
    {k \in Keys : /\ rs[k] # None
                  /\ rs[k].name \in names
                  /\ IF status = None THEN rs[k].latest ELSE rs[k].status = status}

ById(rs, id) == {k \in Keys : rs[k] # None /\ rs[k].id = id}

\* The defaults fixed in the code: never saved, so without an id.
GetBuiltinEntitySchema(n) ==
    [name |-> n, def |-> Builtin, status |-> "published", latest |-> TRUE, id |-> 0]

BySchemaId(rs, k) ==
    IF rs[k] # None THEN rs[k]
    ELSE LET ns == {n \in DOMAIN BuiltinKey : BuiltinKey[n] = k}
         IN  IF ns = {} THEN None ELSE GetBuiltinEntitySchema(CHOOSE n \in ns : TRUE)

\* One of the keys, where it does not matter which: fresh ones, or those of rows
\* with one id.
SomeKey(ks) == CHOOSE k \in ks : TRUE

Highest(rs, ks) == {k \in ks : \A j \in ks : rs[j].id <= rs[k].id}

\* The key a name resolves to: the highest id of the rows that match.
ByNameOrDefault(rs, n, status) ==
    LET found == All(rs, {n}, status)
    IN  IF found # {} THEN SomeKey(Highest(rs, found))
        ELSE IF n \in DOMAIN BuiltinKey THEN BuiltinKey[n] ELSE None

\* What the name stands for.
Schema(rs, n) ==
    LET k == ByNameOrDefault(rs, n, None)
    IN  IF k = None THEN None
        ELSE IF All(rs, {n}, None) = {} THEN GetBuiltinEntitySchema(n) ELSE rs[k]

-----------------------------------------------------------------------------
(* SchemaService.Save *)

\* kind: who called Save; todo: what a setup has left of fs; copy: the row a
\* listing returned, until it is written back.
Idle == [pc |-> "idle", kind |-> "api", key |-> None, row |-> None, pub |-> FALSE,
         copy |-> None, fs |-> <<>>, todo |-> {}]

\* Mutant of Begin: the row gets an id of its own at every save.
BeginRenumbered(o, k, row, pub) ==
    [o EXCEPT !.pc = "latest", !.key = k, !.pub = pub,
              !.row = [row EXCEPT !.id = 0, !.latest = TRUE,
                                  !.status = IF pub THEN "published" ELSE "draft"]]

Begin(o, k, row, pub) ==
    [o EXCEPT !.pc = "latest", !.key = k, !.pub = pub,
              !.row = [row EXCEPT
                         !.latest = TRUE,
                         !.status = IF pub \/ row.id = 0 THEN "published" ELSE "draft"]]

\* The name a save is about to write.
Busy(p) == {r.name : r \in {op[p].row} \ {None}}

\* The names of the row at k before and after a step of p: the setups of others,
\* and p's own but for the name it is working on, are sure of them no longer.
Disturb(p, k) ==
    LET hit == {r.name : r \in {rows[k], rows'[k]} \ {None}}
    IN  sure' = [q \in Procs |-> sure[q] \ IF q = p THEN hit \ Busy(p) ELSE hit]

Become(p, o) == op' = [op EXCEPT ![p] = o]

\* The first listing: the row of this schemaId, if it is the latest.
ListLatest(p) ==
    /\ op[p].pc = "latest"
    /\ LET o == op[p]
           r == rows[o.key]
       IN  Become(p, IF r # None /\ r.latest
                     THEN [o EXCEPT !.copy = r, !.pc = "back"]
                     ELSE [o EXCEPT !.pc = IF o.pub THEN "published" ELSE "put"])
    /\ UNCHANGED <<rows, phase, load, drawn, sure>>

\* Mutant of Outdated: the flag is written under the name the decoder knows.
OutdatedNoMore(copy) == [copy EXCEPT !.latest = FALSE]

\* The copy written back carries "is_latest", which no reader decodes.
Outdated(copy) == copy

WriteBackLatest(p) ==
    /\ op[p].pc = "back"
    /\ rows' = [rows EXCEPT ![op[p].key] = Outdated(op[p].copy)]
    /\ Disturb(p, op[p].key)
    /\ Become(p, [op[p] EXCEPT !.copy = None,
                               !.pc = IF op[p].pub THEN "published" ELSE "put"])
    /\ UNCHANGED <<phase, load, drawn>>

\* The second listing, when the save publishes.
ListPublished(p) ==
    /\ op[p].pc = "published"
    /\ LET r == rows[op[p].key]
       IN  Become(p, IF r # None /\ r.status = "published"
                     THEN [op[p] EXCEPT !.copy = r, !.pc = "back2"]
                     ELSE [op[p] EXCEPT !.pc = "put"])
    /\ UNCHANGED <<rows, phase, load, drawn, sure>>

\* The copy carries "publication_status": nothing a reader decodes changes.
WriteBackPublished(p) ==
    /\ op[p].pc = "back2"
    /\ rows' = [rows EXCEPT ![op[p].key] = op[p].copy]
    /\ Disturb(p, op[p].key)
    /\ Become(p, [op[p] EXCEPT !.copy = None, !.pc = "put"])
    /\ UNCHANGED <<phase, load, drawn>>

\* What the caller does next: a setup goes on with the names it has left.
Saved(o) ==
    IF o.kind = "setup" /\ o.todo # {}
    THEN [Idle EXCEPT !.pc = "lookup", !.kind = "setup", !.fs = o.fs, !.todo = o.todo]
    ELSE [Idle EXCEPT !.pc = "ended", !.kind = o.kind, !.fs = o.fs]

Put(p) ==
    /\ op[p].pc = "put"
    /\ \E id \in IF op[p].row.id # 0 THEN {op[p].row.id} ELSE Ids \ drawn.ids :
         /\ rows' = [rows EXCEPT ![op[p].key] = [op[p].row EXCEPT !.id = id]]
         /\ drawn' = [drawn EXCEPT !.ids = @ \cup {id}]
    /\ Disturb(p, op[p].key)
    /\ Become(p, Saved(op[p]))
    /\ UNCHANGED <<phase, load>>

Fault == drawn.faults < MaxFaults /\ drawn' = [drawn EXCEPT !.faults = @ + 1]

\* A call of the store fails: Save and the setup it is part of return the error.
Fail(p) ==
    /\ op[p].pc \notin {"idle", "ended"}
    /\ Become(p, [Idle EXCEPT !.pc = IF p = Main THEN "ended" ELSE "idle",
                              !.kind = op[p].kind])
    /\ sure' = [sure EXCEPT ![p] = {}]
    /\ Fault
    /\ UNCHANGED <<rows, phase, load>>

-----------------------------------------------------------------------------
(* Business definitions (SetupBizDefFromFS), at start-up and on a mount *)

Setup(p, fs) ==
    /\ Become(p, [Idle EXCEPT !.pc = IF DOMAIN fs = {} THEN "ended" ELSE "lookup",
                              !.kind = "setup", !.fs = fs, !.todo = DOMAIN fs])
    /\ sure' = [sure EXCEPT ![p] = {}]

FreshKeys == {k \in Keys : /\ k \notin drawn.keys /\ k # HomeKey
                           /\ \A n \in DOMAIN BuiltinKey : BuiltinKey[n] # k}

\* Save with an empty schemaId: it is drawn at random; nothing depends on which.
NewSchema(p, o, row) ==
    /\ FreshKeys # {}
    /\ LET k == SomeKey(FreshKeys)
       IN  /\ Become(p, Begin(o, k, row, TRUE))
           /\ drawn' = [drawn EXCEPT !.keys = @ \cup {k}]

Unsaved(n, d) == [GetBuiltinEntitySchema(n) EXCEPT !.def = d]

\* One turn of the loop over the map of entities, in any order.
SetupLookup(p) ==
    /\ op[p].pc = "lookup" /\ op[p].kind = "setup"
    /\ \E n \in op[p].todo :
         LET s == Schema(rows, n)
             o == [op[p] EXCEPT !.todo = @ \ {n}]
             d == o.fs[n]
         IN  /\ sure' = [sure EXCEPT ![p] = @ \cup {n}]
             /\ \/ /\ s # None /\ s.def = d
                   /\ Become(p, Saved(o))
                   /\ UNCHANGED drawn
                \/ /\ s # None /\ s.def # d
                   /\ Become(p, Begin(o, ByNameOrDefault(rows, n, None),
                                      [s EXCEPT !.def = d], TRUE))
                   /\ UNCHANGED drawn
                \/ s = None /\ NewSchema(p, o, Unsaved(n, d))
    /\ UNCHANGED <<rows, phase, load>>

\* BootstrapDefaultHomePage: an old text is replaced, an absent page created
\* under its fixed key; the error of the replacement is dropped like any other.
BootstrapDefaultHomePage ==
    /\ op[Main].pc = "lookup" /\ op[Main].kind = "home"
    /\ LET s == Schema(rows, HomeName)
       IN  Become(Main,
             IF s = None THEN Begin(op[Main], HomeKey, Unsaved(HomeName, NewHome), TRUE)
             ELSE IF s.def = OldHome
             THEN Begin(op[Main], ByNameOrDefault(rows, HomeName, None),
                        [s EXCEPT !.def = NewHome], TRUE)
             ELSE Saved(op[Main]))
    /\ UNCHANGED <<rows, phase, load, drawn, sure>>

\* NewApp: the bizdefs, then the home page, then requests; errors are warnings.
Boot ==
    \/ /\ phase = "bizdefs" /\ op[Main].pc = "idle"
       /\ Setup(Main, BootFS) /\ UNCHANGED phase
    \/ /\ phase = "bizdefs" /\ op[Main].pc = "ended" /\ phase' = "home"
       /\ Become(Main, [Idle EXCEPT !.pc = "lookup", !.kind = "home"])
       /\ sure' = [sure EXCEPT ![Main] = {}]
    \/ /\ phase = "home" /\ op[Main].pc = "ended" /\ phase' = "serve"
       /\ Become(Main, Idle) /\ UNCHANGED sure

NewApp == Boot /\ UNCHANGED <<rows, load, drawn>>

-----------------------------------------------------------------------------
(* Requests *)

Accepted(ks, ids) ==
    /\ phase = "serve" /\ drawn.ops < MaxOps
    /\ drawn' = [drawn EXCEPT !.keys = @ \cup ks, !.ids = @ \cup ids, !.ops = @ + 1]
Free(p) ==
    /\ op[p].pc = "idle"
    /\ p = CHOOSE q \in Savers : op[q].pc = "idle"

\* POST /api/schemas: the body names a schemaId or leaves it to be drawn, and
\* carries the id it was read with or none.
ApiSave(p, k, pub) ==
    /\ Free(p) /\ Accepted({k}, {})
    /\ k \in FreshKeys => k = SomeKey(FreshKeys)
    /\ \E body \in Bodies, id \in {0} \cup {r.id : r \in {rows[k]} \ {None}} :
         Become(p, Begin(Idle, k, [Unsaved(body[1], body[2]) EXCEPT !.id = id], pub))
    /\ sure' = [sure EXCEPT ![p] = {}]
    /\ UNCHANGED <<rows, phase, load>>

\* POST publish: the stored schema, or a built-in one, is read and saved again.
Publish(p, k) ==
    /\ Free(p) /\ Accepted({}, {})
    /\ BySchemaId(rows, k) # None
    /\ Become(p, Begin(Idle, k, BySchemaId(rows, k), TRUE))
    /\ sure' = [sure EXCEPT ![p] = {}]
    /\ UNCHANGED <<rows, phase, load>>

\* POST unpublish: a built-in schema is given an id, so that it becomes a draft.
Unpublish(p, k) ==
    /\ Free(p)
    /\ BySchemaId(rows, k) # None
    /\ LET r == BySchemaId(rows, k)
       IN  \E id \in IF r.id = 0 THEN Ids \ drawn.ids ELSE {r.id} :
             /\ Accepted({}, {id})
             /\ Become(p, Begin(Idle, k, [r EXCEPT !.id = id], FALSE))
    /\ sure' = [sure EXCEPT ![p] = {}]
    /\ UNCHANGED <<rows, phase, load>>

\* DELETE: by schemaId, or by a numeric id whose row is looked up first.
DeleteSchema(k) ==
    /\ Accepted({}, {})
    /\ rows[k] # None /\ ById(rows, rows[k].id) = {k}
    /\ rows' = [rows EXCEPT ![k] = None]
    /\ sure' = [q \in Procs |-> sure[q] \ {rows[k].name}]
    /\ UNCHANGED <<op, phase, load>>

\* POST mount of an extension.
MountExtension(p) ==
    /\ Free(p) /\ Accepted({}, {})
    /\ Setup(p, ExtFS)
    /\ UNCHANGED <<rows, phase, load>>

\* LoadLoadedEntity: every entity reached through lookups, junctions and
\* collections is loaded once, each by a lookup of its own.
NoLoad == [pc |-> "idle", todo |-> {}, processed |-> {}]

LoadStart(n) ==
    /\ load.pc # "run" /\ Accepted({}, {})
    /\ load' = [pc |-> "run", todo |-> {n}, processed |-> {}]
    /\ UNCHANGED <<rows, op, phase, sure>>

\* Mutant of Unprocessed: the map of processed entities is not consulted.
UnprocessedAll(names, processed) == names

Unprocessed(names, processed) == names \ processed

LoadEntity ==
    /\ load.pc = "run"
    /\ \E n \in load.todo :
         LET s == Schema(rows, n)
             done == load.processed \cup {n}
             refs == IF s = None THEN {} ELSE Refs[s.def]
             todo == Unprocessed((load.todo \ {n}) \cup refs, done)
         IN  load' = IF s = None \/ n = HomeName THEN [NoLoad EXCEPT !.pc = "failed"]
                     ELSE IF todo = {} THEN [NoLoad EXCEPT !.pc = "ok"]
                     ELSE [load EXCEPT !.todo = todo, !.processed = done]
    /\ UNCHANGED <<rows, op, phase, drawn, sure>>

\* The process dies and starts again.
Crash ==
    /\ phase' = "bizdefs"
    /\ op' = [p \in Procs |-> Idle]
    /\ load' = NoLoad
    /\ sure' = [p \in Procs |-> {}]
    /\ Fault
    /\ UNCHANGED rows

-----------------------------------------------------------------------------

\* An empty database, or one an earlier version left its home page in.
Init ==
    /\ \/ rows = [k \in Keys |-> None]
          /\ drawn = [keys |-> {}, ids |-> {}, ops |-> 0, faults |-> 0]
       \/ \E id \in Ids :
            /\ rows = [k \in Keys |-> IF k = HomeKey
                         THEN [Unsaved(HomeName, OldHome) EXCEPT !.id = id] ELSE None]
            /\ drawn = [keys |-> {}, ids |-> {id}, ops |-> 0, faults |-> 0]
    /\ op = [p \in Procs |-> Idle]
    /\ phase = "bizdefs"
    /\ load = NoLoad
    /\ sure = [p \in Procs |-> {}]

SaveStep(p) ==
    \/ ListLatest(p) \/ WriteBackLatest(p) \/ ListPublished(p) \/ WriteBackPublished(p)
    \/ Put(p) \/ Fail(p) \/ SetupLookup(p)

Next ==
    \/ \E p \in Procs : SaveStep(p)
    \/ NewApp \/ BootstrapDefaultHomePage
    \/ \E p \in Savers, k \in Keys :
         \/ \E pub \in BOOLEAN : ApiSave(p, k, pub)
         \/ Publish(p, k) \/ Unpublish(p, k)
    \/ \E k \in Keys : DeleteSchema(k)
    \/ \E p \in Savers : MountExtension(p)
    \/ \E n \in Names : LoadStart(n)
    \/ LoadEntity
    \/ Crash

Spec == Init /\ [][Next]_vars

-----------------------------------------------------------------------------
(* Properties *)

TypeOK ==
    /\ rows \in [Keys -> Row \cup {None}]
    /\ \A p \in Procs :
         /\ op[p].pc \in {"idle", "lookup", "latest", "back", "published", "back2", "put", "ended"}
         /\ op[p].key \in Keys \cup {None}
         /\ {op[p].row, op[p].copy} \subseteq Row \cup {None}
         /\ op[p].todo \subseteq Names
    /\ phase \in {"bizdefs", "home", "serve"}
    /\ load.todo \cup load.processed \subseteq Names
    /\ drawn.ids \subseteq Ids /\ drawn.keys \subseteq Keys
    /\ sure \in [Procs -> SUBSET Names]

\* A setup puts in force every definition it is through with, whatever schemas
\* of the same name it met and whatever failed or crashed before, unless someone
\* else wrote a schema of that name since the setup looked it up.
MountTakesEffect ==
    \A p \in Procs : op[p].kind = "setup" =>
        \A n \in sure[p] \ (op[p].todo \cup Busy(p)) : Schema(rows, n).def = op[p].fs[n]

\* A name that resolves goes on resolving through every step of a save, failed
\* or overtaken or cut short by a crash: only a deletion, or a write that gives
\* the row another name, may take it away.
KeepsNames ==
    \A n \in Names :
      Schema(rows, n) # None /\ Schema(rows', n) = None =>
        \E k \in All(rows, {n}, None) : rows'[k] = None \/ rows'[k].name # n

NameStaysResolvable == [][KeepsNames]_vars

\* Loading an entity ends, cycles among the entities notwithstanding.
LoadEnds == [](load.pc = "run" => <>(load.pc # "run"))

=============================================================================
