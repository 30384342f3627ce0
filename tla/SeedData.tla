------------------------------ MODULE SeedData ------------------------------
(***************************************************************************)
(* Seed data of a business definition (core/bizdefs/setup.go), inserted by *)
(* NewApp before it serves requests.  The loader keeps no mark of what it  *)
(* has done: it takes the seed for loaded when the entity of the first     *)
(* entry has any record.  Inserts are single upserts, each may fail, and   *)
(* the process may die between two of them.                                *)
(*                                                                         *)
(* Data abstraction.  An entry is its entity and the number of records of  *)
(* its collections; Record <<e, 0>> is entry e's own, <<e, c>> its c-th    *)
(* child.  References between entries are data and left out.               *)
(***************************************************************************)
EXTENDS Integers, Sequences

CONSTANTS
    Entries,     \* Seq of [entity, children]
    MaxCopies,   \* bound: copies of a record told apart
    MaxStarts    \* bound: starts of the process

\* There is an entry, and records of a collection are counted.
SeedDataAssumption ==
    /\ Len(Entries) \in Nat \ {0} /\ MaxCopies \in Nat \ {0} /\ MaxStarts \in Nat \ {0}
    /\ \A e \in 1 .. Len(Entries) : Entries[e].children \in Nat

Records == UNION {{e} \X (0 .. Entries[e].children) : e \in 1 .. Len(Entries)}
First == Entries[1].entity

\* Records that make List of the first entity non-empty (a collection's records
\* belong to another entity).
Marks == {r \in Records : r[2] = 0 /\ Entries[r[1]].entity = First}

VARIABLES
    copies,   \* how often each seed record is stored
    own,      \* whether clients have records of their own in the first entity
    pos,      \* the record to insert next, or AtList, or Serving
    emptied,  \* history: clients have removed every record of the first entity
    starts

vars == <<copies, own, pos, emptied, starts>>

Stored == \E r \in Marks : copies[r] > 0

AtList == <<0, 0>>
Serving == <<Len(Entries) + 1, 0>>

\* Mutant of After: the loop over the children does not end.
AfterPast(r) == <<r[1], r[2] + 1>>

\* What the loops reach after record r.
After(r) ==
    IF r[2] < Entries[r[1]].children THEN <<r[1], r[2] + 1>>
    ELSE <<r[1] + 1, 0>>

\* Mutant of Seeded: the existing records are not looked for.
SeededNever == FALSE

Seeded == Stored \/ own

\* List with limit 1 of the first entry's entity: any record, and all is skipped.
List ==
    /\ pos = AtList
    /\ pos' = IF Seeded THEN Serving ELSE <<1, 0>>
    /\ UNCHANGED <<copies, own, emptied, starts>>

\* Insert of an entry, CollectionInsert of a child.
Insert ==
    /\ pos \in Records
    /\ copies' = [copies EXCEPT ![pos] = IF @ < MaxCopies THEN @ + 1 ELSE @]
    /\ pos' = After(pos)
    /\ UNCHANGED <<own, emptied, starts>>

\* Listing or inserting fails: the loader returns, NewApp warns and goes on.
Fail ==
    /\ pos # Serving
    /\ pos' = Serving
    /\ UNCHANGED <<copies, own, emptied, starts>>

\* Clients delete a seed record, insert and delete records of their own.
ClientDeletes(r) ==
    /\ pos = Serving /\ copies[r] > 0
    /\ copies' = [copies EXCEPT ![r] = @ - 1]
    /\ emptied' = (emptied \/ (r \in Marks /\ ~ own /\ \A m \in Marks : copies'[m] = 0))
    /\ UNCHANGED <<own, pos, starts>>

ClientWrites ==
    /\ pos = Serving /\ own' = ~ own
    /\ emptied' = (emptied \/ (own /\ ~ Stored))
    /\ UNCHANGED <<copies, pos, starts>>

\* The process dies and starts again.
Crash ==
    /\ starts < MaxStarts /\ starts' = starts + 1
    /\ pos' = AtList
    /\ UNCHANGED <<copies, own, emptied>>

Init ==
    /\ copies = [r \in Records |-> 0]
    /\ own = FALSE /\ pos = AtList /\ emptied = FALSE /\ starts = 1

Next ==
    \/ List \/ Insert \/ Fail
    \/ \E r \in Records : ClientDeletes(r)
    \/ ClientWrites \/ Crash

Spec == Init /\ [][Next]_vars

-----------------------------------------------------------------------------
(* Properties *)

TypeOK ==
    /\ copies \in [Records -> 0 .. MaxCopies]
    /\ own \in BOOLEAN /\ emptied \in BOOLEAN
    /\ pos \in Records \cup {AtList, Serving}
    /\ starts \in 1 .. MaxStarts

\* "Checks if data already exists to prevent duplicate seeding"
\* (docs/bizdef_architecture.md:67): no seed record is stored twice, whatever
\* fails half way and however often the process starts, unless clients emptied
\* the first entity, the only one the loader looks at.
SeededAtMostOnce == emptied \/ \A r \in Records : copies[r] <= 1

=============================================================================
