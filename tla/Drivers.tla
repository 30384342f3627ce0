------------------------------ MODULE Drivers -------------------------------
(***************************************************************************)
(* The five drivers behind IPrimaryDao (infrastructure/relationdbdao):     *)
(* memory, SQLite, Postgres, SurrealDB and Firestore.  Services are        *)
(* written against the interface and tested on one driver; here each       *)
(* driver's List is stated by itself, and DriversAgree says on which       *)
(* queries they may be exchanged for each other.  The conditional writes   *)
(* compare the stored revision with the expected one, alike in all five.   *)
(*                                                                         *)
(* A value is its text and its kind: JSON keeps 1 and "1" apart, some      *)
(* drivers do not.  The orders of texts and of numbers are constants.      *)
(***************************************************************************)
EXTENDS Integers, FiniteSets

CONSTANTS
    Keys,          \* record keys, numbered in their order
    Fields,        \* fields of a record
    Values,        \* [text, kind]; kind is "text", "num" or "null"
    TextRank,      \* place of each text among texts, compared byte by byte
    Collation,     \* its place by the collation of the Postgres database
    NumRank,       \* place of each text among numbers
    Filters,       \* filters: [field, match, values]
    Limits,        \* page lengths asked for
    MaxRevision,   \* bound: writes of one record
    None

Recs == UNION {[D -> Values] : D \in SUBSET Fields}

DriversAssumption ==
    /\ Keys \subseteq Int /\ IsFiniteSet(Values)
    /\ Values \subseteq [text : DOMAIN TextRank, kind : {"text", "num", "null"}]
    /\ \A text \in DOMAIN TextRank :
         TextRank[text] \in 0 .. Cardinality(Values) /\ Collation[text] \in 0 .. Cardinality(Values)
    /\ \A v \in Values : v.kind = "num" => NumRank[v.text] \in 0 .. Cardinality(Values)
    /\ \A f \in Filters : f.values \subseteq Values
    /\ MaxRevision \in Nat /\ None \notin [rec : Recs, rev : 1..MaxRevision]

VARIABLE store     \* one namespace: [Keys -> [rec, rev] or None]

Present == {k \in Keys : store[k] # None}
Rec(k) == store[k].rec
Has(k, field) == field \in DOMAIN Rec(k)
Row(rec, rev) == [rec |-> rec, rev |-> rev]

-----------------------------------------------------------------------------
(* Filters.  Only "equals" is honoured; the values are alternatives. *)

\* Mutant of MemoryMatches: a field that is absent matches.
MemoryMatchesAbsent(k, f) ==
    Has(k, f.field) => (f.match = "equals" => \E v \in f.values : v.text = Rec(k)[f.field].text)

\* Memory prints both sides; a filter of any match wants the field to be there.
MemoryMatches(k, f) ==
    /\ Has(k, f.field)
    /\ f.match = "equals" => \E v \in f.values : v.text = Rec(k)[f.field].text

Ignored(f) == f.match # "equals" \/ f.values = {}

\* json_extract keeps the kind; no comparison with NULL is true.
SqliteWhere(k, f) ==
    \/ Ignored(f)
    \/ Has(k, f.field) /\ Rec(k)[f.field] \in f.values /\ Rec(k)[f.field].kind # "null"

\* ->> gives text, or NULL.
PostgresWhere(k, f) ==
    \/ Ignored(f)
    \/ /\ Has(k, f.field) /\ Rec(k)[f.field].kind # "null"
       /\ \E v \in f.values : v.kind # "null" /\ v.text = Rec(k)[f.field].text

SurrealWhere(k, f) == Ignored(f) \/ (Has(k, f.field) /\ Rec(k)[f.field] \in f.values)

FirestoreWhere(k, f) == Ignored(f) \/ (Has(k, f.field) /\ Rec(k)[f.field] \in f.values)

Matches(driver, k, f) == CASE driver = "memory" -> MemoryMatches(k, f)
                           [] driver = "sqlite" -> SqliteWhere(k, f)
                           [] driver = "postgres" -> PostgresWhere(k, f)
                           [] driver = "surreal" -> SurrealWhere(k, f)
                           [] driver = "firestore" -> FirestoreWhere(k, f)

-----------------------------------------------------------------------------
(* Order.  A query has one sort or none: [field, desc]. *)

Highest == Cardinality(Values) + 1

\* Memory compares the bytes of the texts, and prints a missing value too, as nil.
MemoryRank(k, field) == TextRank[IF Has(k, field) THEN Rec(k)[field].text ELSE "<nil>"]

\* ORDER BY rec->>'field' follows the collation of the database; nothing comes last.
PostgresRank(k, field) ==
    IF Has(k, field) /\ Rec(k)[field].kind # "null" THEN Collation[Rec(k)[field].text] ELSE Highest

\* SQLite, SurrealDB and Firestore: nothing, numbers, texts.
TypedRank(k, field) ==
    IF ~Has(k, field) \/ Rec(k)[field].kind = "null" THEN -1
    ELSE IF Rec(k)[field].kind = "num" THEN NumRank[Rec(k)[field].text]
    ELSE Highest + TextRank[Rec(k)[field].text]

Rank(driver, k, field) == CASE driver = "memory" -> MemoryRank(k, field)
                            [] driver = "postgres" -> PostgresRank(k, field)
                            [] OTHER -> TypedRank(k, field)

\* Records of equal rank come in an order of the driver's own, here by key.
Before(driver, j, k, sort) ==
    IF sort = None THEN j < k
    ELSE LET a == Rank(driver, j, sort.field)
             b == Rank(driver, k, sort.field)
         IN IF a = b THEN j < k ELSE IF sort.desc THEN a > b ELSE a < b

\* The records from position offset on, at most limit of them.
Slice(driver, found, sort, offset, limit) ==
    {k \in found :
        LET at == Cardinality({j \in found : Before(driver, j, k, sort)})
        IN at >= offset /\ (limit = None \/ at < offset + limit)}

-----------------------------------------------------------------------------
(* List, each with the total it reports beside the page.  A query is       *)
(* [filters, sort, offset, limit]; offset 0 stands for none.               *)

Error == [page |-> {}, total |-> -1]
Found(driver, q) == {k \in Present : \A f \in q.filters : Matches(driver, k, f)}

MemoryList(q) ==
    LET found == Found("memory", q)
    IN [page |-> Slice("memory", found, q.sort, q.offset, q.limit), total |-> Cardinality(found)]

\* OFFSET without LIMIT is no SQLite statement.
SqliteList(q) ==
    LET found == Found("sqlite", q)
    IN IF q.offset > 0 /\ q.limit = None THEN Error
       ELSE [page |-> Slice("sqlite", found, q.sort, q.offset, q.limit), total |-> Cardinality(found)]

PostgresList(q) ==
    LET found == Found("postgres", q)
    IN [page |-> Slice("postgres", found, q.sort, q.offset, q.limit), total |-> Cardinality(found)]

SurrealList(q) ==
    LET found == Found("surreal", q)
    IN [page |-> Slice("surreal", found, q.sort, q.offset, q.limit), total |-> Cardinality(found)]

\* The offset is dropped, the total is the page's length, and a record
\* without the field it is to be sorted by is left out.
FirestoreList(q) ==
    LET found == {k \in Found("firestore", q) : q.sort = None \/ Has(k, q.sort.field)}
        page == Slice("firestore", found, q.sort, 0, q.limit)
    IN [page |-> page, total |-> Cardinality(page)]

-----------------------------------------------------------------------------
(* Writes *)

Saved(k, rec, rev) == [store EXCEPT ![k] = Row(rec, rev + 1)]

\* Save takes the caller's revision, which may be of any earlier read.
Save(k, rec, rev) == rev < MaxRevision /\ store' = Saved(k, rec, rev)

\* A write only over the revision the caller names; anything else is an error.
SaveConditional(k, rec, rev) ==
    /\ store[k] # None /\ store[k].rev = rev
    /\ rev < MaxRevision
    /\ store' = Saved(k, rec, rev)

Delete(k) == store' = [store EXCEPT ![k] = None]

-----------------------------------------------------------------------------
Init == store = [k \in Keys |-> None]

Next == \E k \in Keys :
            \/ \E rec \in Recs, rev \in 0..MaxRevision : Save(k, rec, rev) \/ SaveConditional(k, rec, rev)
            \/ Delete(k)

Spec == Init /\ [][Next]_store

-----------------------------------------------------------------------------
(* Properties *)

TypeOK == store \in [Keys -> [rec : Recs, rev : 1..MaxRevision] \cup {None}]

Sorts == [field : Fields, desc : BOOLEAN]
Queries == [filters : SUBSET Filters, sort : Sorts \cup {None}, offset : {0} \cup Limits, limit : Limits \cup {None}]

\* A query asks for equality with values of the kind the records hold there.
KindsFit(q) == \A f \in q.filters :
    /\ f.match = "equals" /\ f.values # {}
    /\ \A v \in f.values : v.kind # "null"
    /\ \A k \in Present, v \in f.values : Has(k, f.field) => Rec(k)[f.field].kind = v.kind

\* It sorts by a field that holds a text of its own in every record.
OrderFits(q) ==
    /\ q.sort # None
    /\ \A k \in Present : Has(k, q.sort.field) /\ Rec(k)[q.sort.field].kind = "text"
    /\ \A j, k \in Present : j # k => Rec(j)[q.sort.field] # Rec(k)[q.sort.field]

\* The collation of the Postgres database puts the texts to be sorted as their bytes
\* do: so does "C", and so do most others as long as case and punctuation are alike.
CollatesAsBytes(q) == \A j, k \in Present :
    LET a == Rec(j)[q.sort.field].text
        b == Rec(k)[q.sort.field].text
    IN Collation[a] < Collation[b] <=> TextRank[a] < TextRank[b]

\* On a query of equalities of the right kind all five drivers find the same
\* records; if it is sorted by distinct texts the pages are the same too, and the
\* totals, except that Firestore knows neither offset nor total, and that Postgres
\* cuts its pages from another order where its collation has one.
DriversAgree ==
    \A q \in Queries : KindsFit(q) =>
         /\ \A driver \in {"sqlite", "postgres", "surreal", "firestore"} :
                Found(driver, q) = Found("memory", q)
         /\ OrderFits(q) =>
              /\ CollatesAsBytes(q) => PostgresList(q) = MemoryList(q)
              /\ SurrealList(q) = MemoryList(q)
              /\ q.offset = 0 \/ q.limit # None => SqliteList(q) = MemoryList(q)
              /\ q.offset = 0 => FirestoreList(q).page = MemoryList(q).page

=============================================================================
