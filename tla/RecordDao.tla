------------------------------ MODULE RecordDao ------------------------------
(***************************************************************************)
(* The record store every service of the CMS writes to: IPrimaryDao        *)
(* (infrastructure/relationdbdao/interface.go), one namespace of it, as    *)
(* operators on a function from keys to records.                           *)
(*                                                                         *)
(* Each DAO call is one atomic step of the database.  A record carries at  *)
(* least the field rev (MetaData.Revision); what else it carries is left   *)
(* to the module that uses the store.  The two write paths differ in one   *)
(* point that the whole project turns on:                                  *)
(*   - Save is an upsert.  It never looks at the stored record, and the    *)
(*     revision it writes is the caller's plus one;                        *)
(*   - SaveConditional writes only over the revision the caller names.     *)
(***************************************************************************)
EXTENDS Integers, FiniteSets

CONSTANTS
    Keys,           \* record keys, numbered in their order as texts
    None,           \* "no record" (Get returns nil)
    HonoursOffset,  \* FALSE for Firestore, whose List drops Pagination.Offset
    ListsInKeyOrder \* FALSE for Postgres, whose List has no ORDER BY unless the
                    \* caller asks for one

ASSUME DaoAssumption ==
    /\ Keys \subseteq Nat
    /\ IsFiniteSet(Keys)
    /\ HonoursOffset \in BOOLEAN
    /\ ListsInKeyOrder \in BOOLEAN

\* The keys that have a record.
Present(store) == {k \in Keys : store[k] # None}

\* Mutant of Save: the revision is not incremented.
SaveKeepsRevision(store, k, rec) == [store EXCEPT ![k] = rec]

\* Save: "rec.MetaData.Revision++", then INSERT ... ON CONFLICT DO UPDATE.
Save(store, k, rec) == [store EXCEPT ![k] = [rec EXCEPT !.rev = @ + 1]]

\* Mutant of Matches: the WHERE clause without its revision.
MatchesAnyRevision(store, k, expected) == store[k] # None

\* The WHERE clause of SaveConditional: the row exists at that revision.
Matches(store, k, expected) == store[k] # None /\ store[k].rev = expected

\* What SaveConditional leaves behind: unchanged when no row matches (an error
\* for the caller), the record at the next revision otherwise.
SaveConditional(store, k, rec, expected) ==
    IF Matches(store, k, expected)
    THEN [store EXCEPT ![k] = [rec EXCEPT !.rev = expected + 1]]
    ELSE store

\* Delete: removes the row, and with it the revision it had reached.
Delete(store, k) == [store EXCEPT ![k] = None]

\* The position of a key when the rows come in key order.
Rank(store, k) == Cardinality({j \in Present(store) : j < k})

\* List with LIMIT limit OFFSET offset on rows in key order: the keys of one page.
Page(store, offset, limit) ==
    LET from == IF HonoursOffset THEN offset ELSE 0
    IN  {k \in Present(store) : Rank(store, k) \in from .. from + limit - 1}

\* What an unfiltered, unsorted List may return.  Four drivers go through the keys
\* in order (a sort by Key, the primary key of a WITHOUT ROWID table, a range of
\* record ids, document ids).  SQL promises no order to the fifth: the rows come as
\* they lie in the heap, where every UPDATE may put its row in another place, so
\* that two pages need not be cut from the same order.  Only their length is sure.
Pages(store, offset, limit) ==
    LET page == Page(store, offset, limit)
    IN  IF ListsInKeyOrder THEN {page}
        ELSE {rows \in SUBSET Present(store) : Cardinality(rows) = Cardinality(page)}

=============================================================================
