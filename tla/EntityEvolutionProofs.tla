------------------------ MODULE EntityEvolutionProofs ------------------------
(***************************************************************************)
(* Proofs about EntityEvolution, for every set of keys, writers and        *)
(* scrubbers, every batch size and every set of timelines:                 *)
(*   TypeCorrect        every variable keeps its type                      *)
(*   NeverLies          schema stamps are truthful, if timelines only grow *)
(*                      and are dated in whole seconds                     *)
(*   OnlyForksAreLost   a scrubber can overwrite a client's write only if  *)
(*                      a client's Save forked the row's history           *)
(*   MissesAtMost       a scrub that ends clean has missed one record at   *)
(*                      most for each one deleted meanwhile, and none on   *)
(*                      its only page, if the driver honours offsets,      *)
(*                      dates are in whole seconds and the batch size is   *)
(*                      not 0                                              *)
(***************************************************************************)
EXTENDS EntityEvolution, FiniteSetTheorems, TLAPS

USE DaoAssumption, EvolutionAssumption

-----------------------------------------------------------------------------
(* Lemmas about the operators *)

\* A non-empty set of versions has a last one, and Last returns it.
LEMMA LastOfDates ==
    ASSUME NEW S \in SUBSET Dates, S # {}
    PROVE  Last(S) \in S /\ \A e \in S : e <= Last(S)
BY DEF Last

\* What EvolveRecord changes and what it leaves alone.
LEMMA EvolveRecordType ==
    ASSUME NEW rec \in Record, NEW timeline \in Timelines
    PROVE  /\ EvolveRecord(rec, timeline) \in Record
           /\ EvolveRecord(rec, timeline).rev = rec.rev
           /\ EvolveRecord(rec, timeline).data = rec.data
<1> DEFINE pending == Pending(rec, timeline)
<1>1. pending \in SUBSET Dates
  BY DEF Pending, Dates
<1>2. CASE pending = {}
  BY <1>2 DEF EvolveRecord
<1>3. CASE pending # {}
  <2>1. Last(pending) \in Dates
    BY <1>1, <1>3, LastOfDates
  <2>2. EvolveRecord(rec, timeline) =
          [rec EXCEPT !.ver = Stamp[Last(pending)], !.applied = @ \cup pending]
    BY <1>3 DEF EvolveRecord
  <2>3. Stamp[Last(pending)] \in Nat /\ rec.applied \cup pending \in SUBSET Dates
    BY <1>1, <2>1 DEF Record
  <2> HIDE DEF pending
  <2>. QED
    BY <2>2, <2>3 DEF Record
<1>. QED
  BY <1>2, <1>3

Rows == [Keys -> StoredRecord \cup {None}]

\* Save writes a stored record, one revision above the caller's.
LEMMA SaveType ==
    ASSUME NEW st \in Rows, NEW k \in Keys, NEW rec \in Record
    PROVE  /\ Save(st, k, rec) \in Rows
           /\ Save(st, k, rec)[k] # None
           /\ Save(st, k, rec)[k].rev = rec.rev + 1
           /\ Save(st, k, rec)[k].data = rec.data
           /\ Save(st, k, rec)[k].ver = rec.ver
           /\ Save(st, k, rec)[k].applied = rec.applied
           /\ \A j \in Keys \ {k} : Save(st, k, rec)[j] = st[j]
<1> DEFINE new == [rec EXCEPT !.rev = @ + 1]
<1>1. /\ new \in StoredRecord
      /\ new.rev = rec.rev + 1 /\ new.data = rec.data
      /\ new.ver = rec.ver /\ new.applied = rec.applied
  BY DEF Record, StoredRecord
<1>2. new # None
  BY <1>1 DEF StoredRecord, Record
<1>3. Save(st, k, rec) = [st EXCEPT ![k] = new]
  BY DEF Save
<1>. QED
  BY <1>1, <1>2, <1>3 DEF Rows

\* A stored record is a record.
LEMMA StoredIsRecord == StoredRecord \subseteq Record
BY DEF StoredRecord, Record

\* SaveConditional leaves the rows alone or writes the one it names.
LEMMA SaveConditionalType ==
    ASSUME NEW st \in Rows, NEW k \in Keys, NEW rec \in Record
    PROVE  /\ SaveConditional(st, k, rec, rec.rev) \in Rows
           /\ ~Matches(st, k, rec.rev) => SaveConditional(st, k, rec, rec.rev) = st
           /\ Matches(st, k, rec.rev)
                => SaveConditional(st, k, rec, rec.rev) = Save(st, k, rec)
<1>1. CASE ~Matches(st, k, rec.rev)
  BY <1>1 DEF SaveConditional
<1>2. CASE Matches(st, k, rec.rev)
  <2>1. [rec EXCEPT !.rev = rec.rev + 1] = [rec EXCEPT !.rev = @ + 1]
    OBVIOUS
  <2>. QED
    BY <1>2, <2>1, SaveType DEF SaveConditional, Save
<1>. QED
  BY <1>1, <1>2

-----------------------------------------------------------------------------
(* Type correctness *)

\* Values the actions build.
LEMMA NewRecordType ==
    ASSUME NEW id \in WriteIds
    PROVE  NewRecord(id) \in Record
BY DEF NewRecord, Record

LEMMA WatchFields ==
    ASSUME NEW w \in Watch, NEW must \in SUBSET Keys, NEW forked \in SUBSET Keys
    PROVE  [w EXCEPT !.must = must, !.forked = forked] \in Watch
BY DEF Watch

LEMMA WatchSaveType ==
    ASSUME watch \in [Scrubbers -> Watch], NEW k, NEW rec, WatchSave(k, rec), k \in Keys
    PROVE  watch' \in [Scrubbers -> Watch]
<1>1. ASSUME NEW s \in Scrubbers PROVE watch'[s] \in Watch
  <2> DEFINE must == IF \A d \in watch[s].goal : d <= rec.ver
                     THEN watch[s].must ELSE watch[s].must \ {k}
             forked == IF Matches(store, k, rec.rev) \/ scrub[s].pc # "rows"
                       THEN watch[s].forked ELSE watch[s].forked \cup {k}
  <2>1. watch'[s] = [watch[s] EXCEPT !.must = must, !.forked = forked]
    BY DEF WatchSave
  <2>2. watch[s] \in Watch
    OBVIOUS
  <2>3. must \in SUBSET Keys /\ forked \in SUBSET Keys
    BY <2>2 DEF Watch
  <2> HIDE DEF must, forked
  <2>4. [watch[s] EXCEPT !.must = must, !.forked = forked] \in Watch
    BY <2>2, <2>3, WatchFields
  <2>. QED
    BY <2>1, <2>4
<1>2. watch' = [s \in Scrubbers |-> watch'[s]]
  BY DEF WatchSave
<1>. QED
  BY <1>1, <1>2

\* What a deletion makes of the number of deletions.
GoneAfter(s) == IF Running(s) THEN OneMore(watch[s].gone) ELSE watch[s].gone

LEMMA CountType ==
    /\ Cardinality(Keys) \in Nat
    /\ \A n \in 0 .. Cardinality(Keys) : OneMore(n) \in 0 .. Cardinality(Keys)
<1>1. Cardinality(Keys) \in Nat
  BY FS_CardinalityType
<1>. QED
  BY <1>1 DEF OneMore

LEMMA IdleTypes == IdleScrub \in ScrubState /\ NoWatch \in Watch
BY CountType DEF IdleScrub, NoRows, ScrubState, NoWatch, Watch

LEMMA InitTypeOK == Init => TypeOK
<1> SUFFICES ASSUME Init PROVE TypeOK
  OBVIOUS
<1>2. ASSUME NEW timeline \in SUBSET Dates
      PROVE  OldRecord(timeline) \in StoredRecord
  <2> DEFINE ver == IF timeline = {} THEN 0 ELSE Stamp[Last(timeline)]
  <2>1. ver \in Nat
    BY LastOfDates
  <2>2. OldRecord(timeline) = [rev |-> 1, ver |-> ver, applied |-> timeline, data |-> {}]
    BY DEF OldRecord
  <2> HIDE DEF ver
  <2>. QED
    BY <2>1, <2>2 DEF StoredRecord
<1>3. BootTimeline \in SUBSET Dates
  BY DEF Dates
<1>4. store \in [Keys -> StoredRecord \cup {None}]
  BY <1>2, <1>3 DEF Init
<1>5. scrub \in [Scrubbers -> ScrubState] /\ watch \in [Scrubbers -> Watch]
  BY IdleTypes DEF Init
<1>. QED
  BY <1>4, <1>5 DEF Init, TypeOK

\* A scrubber that reaches a row takes it from its page, and leaves the rest.
LEMMA ScrubSaveRecs ==
    ASSUME scrub \in [Scrubbers -> ScrubState],
           NEW s \in Scrubbers, NEW k \in Keys, NEW clean,
           scrub' = [scrub EXCEPT ![s].recs[k] = None, ![s].clean = clean]
    PROVE  \A t \in Scrubbers, j \in Keys :
             scrub'[t].recs[j] # None => scrub'[t].recs[j] = scrub[t].recs[j]
<1> SUFFICES ASSUME NEW t \in Scrubbers, NEW j \in Keys, scrub'[t].recs[j] # None
             PROVE  scrub'[t].recs[j] = scrub[t].recs[j]
  OBVIOUS
<1>1. scrub[s].recs \in [Keys -> StoredRecord \cup {None}]
  BY DEF ScrubState
<1>2. CASE t # s
  BY <1>2
<1>3. CASE t = s
  <2>1. scrub'[t].recs = [scrub[s].recs EXCEPT ![k] = None]
    BY <1>3 DEF ScrubState
  <2>2. j # k
    BY <1>1, <2>1
  <2>. QED
    BY <1>1, <1>3, <2>1, <2>2
<1>. QED
  BY <1>2, <1>3

LEMMA NextTypeOK == TypeOK /\ [Next]_vars => TypeOK'
<1> SUFFICES ASSUME TypeOK, [Next]_vars PROVE TypeOK'
  OBVIOUS
<1> USE DEF TypeOK
<1>1. ASSUME NEW k \in Keys, Insert(k) PROVE TypeOK'
  <2>1. writes' \in WriteIds
    BY <1>1 DEF Insert, WriteIds
  <2>2. store' \in [Keys -> StoredRecord \cup {None}]
    BY <1>1, <2>1, NewRecordType, SaveType DEF Insert, Rows
  <2>3. watch' \in [Scrubbers -> Watch]
    BY <1>1, WatchSaveType DEF Insert
  <2>. QED
    BY <1>1, <2>1, <2>2, <2>3 DEF Insert, WriteIds
<1>2. ASSUME NEW k \in Keys, DeleteRecord(k) PROVE TypeOK'
  <2>1. watch' \in [Scrubbers -> Watch]
    <3>1. ASSUME NEW s \in Scrubbers PROVE GoneAfter(s) \in 0 .. Cardinality(Keys)
      BY <3>1, CountType DEF GoneAfter, Watch
    <3>2. ASSUME NEW s \in Scrubbers, NEW gone \in 0 .. Cardinality(Keys)
          PROVE  [watch[s] EXCEPT !.must = @ \ {k}, !.gone = gone] \in Watch
      BY DEF Watch
    <3>3. watch' = [s \in Scrubbers |->
                      [watch[s] EXCEPT !.must = @ \ {k}, !.gone = GoneAfter(s)]]
      BY <1>2 DEF DeleteRecord, WatchDelete, GoneAfter
    <3>. QED
      BY <3>1, <3>2, <3>3
  <2>2. store' \in [Keys -> StoredRecord \cup {None}]
    BY <1>2 DEF DeleteRecord, Delete
  <2>. QED
    BY <1>2, <2>1, <2>2 DEF DeleteRecord
<1>3. ASSUME NEW w \in Writers, NEW k \in Keys, UpdateRead(w, k) PROVE TypeOK'
  <2> DEFINE evolved == EvolveRecord(store[k], manifest)
             held == [evolved EXCEPT !.data = @ \cup {writes'}]
  <2>1. writes' \in WriteIds
    BY <1>3 DEF UpdateRead, WriteIds
  <2>2. evolved \in Record
    BY <1>3, StoredIsRecord, EvolveRecordType DEF UpdateRead
  <2>3. held \in Record
    BY <2>1, <2>2 DEF Record
  <2>4. [key |-> k, held |-> held] \in Request
    BY <2>3 DEF Request
  <2>. QED
    BY <1>3, <2>1, <2>4 DEF UpdateRead, WriteIds
<1>4. ASSUME NEW w \in Writers, UpdateSave(w) PROVE TypeOK'
  <2>1. req[w].key \in Keys /\ req[w].held \in Record
    BY <1>4 DEF UpdateSave, Request
  <2>2. store' \in [Keys -> StoredRecord \cup {None}]
    BY <1>4, <2>1, SaveType DEF UpdateSave, Rows
  <2>3. watch' \in [Scrubbers -> Watch]
    BY <1>4, <2>1, WatchSaveType DEF UpdateSave
  <2>. QED
    BY <1>4, <2>2, <2>3 DEF UpdateSave
<1>5. ASSUME NEW w \in Writers, UpdateFails(w) PROVE TypeOK'
  BY <1>5 DEF UpdateFails
<1>6. ASSUME NEW s \in Scrubbers, ScrubStart(s) PROVE TypeOK'
  <2>1. [IdleScrub EXCEPT !.pc = "list"] \in ScrubState
    BY IdleTypes DEF IdleScrub, ScrubState
  <2>2. [NoWatch EXCEPT !.goal = manifest, !.must = Present(store)] \in Watch
    BY IdleTypes DEF NoWatch, Watch, Present, Dates
  <2>. QED
    BY <1>6, <2>1, <2>2 DEF ScrubStart
<1>7. ASSUME NEW s \in Scrubbers, ScrubList(s) PROVE TypeOK'
  <2>0. PICK page \in Pages(store, scrub[s].offset, BatchSize) :
          scrub' = [scrub EXCEPT ![s] =
             IF page = {} THEN [@ EXCEPT !.pc = "done"]
             ELSE [@ EXCEPT
                     !.pc = "rows",
                     !.recs = [k \in Keys |-> IF k \in page THEN store[k] ELSE None],
                     !.full = Cardinality(page) >= BatchSize]]
    BY <1>7 DEF ScrubList
  <2> DEFINE recs == [k \in Keys |-> IF k \in page THEN store[k] ELSE None]
             full == Cardinality(page) >= BatchSize
             new == [scrub[s] EXCEPT !.pc = "rows", !.recs = recs, !.full = full]
  <2>1. full \in BOOLEAN /\ recs \in [Keys -> StoredRecord \cup {None}]
    OBVIOUS
  <2>2. scrub[s] \in ScrubState
    OBVIOUS
  <2>3. [scrub[s] EXCEPT !.pc = "done"] \in ScrubState
    BY <2>2 DEF ScrubState
  <2>4. new \in ScrubState
    <3> HIDE DEF recs, full
    <3>. QED
      BY <2>1, <2>2 DEF ScrubState
  <2>5. \/ scrub' = [scrub EXCEPT ![s] = [scrub[s] EXCEPT !.pc = "done"]]
        \/ scrub' = [scrub EXCEPT ![s] = new]
    BY <2>0, Zenon
  <2>6. scrub' \in [Scrubbers -> ScrubState]
    <3> HIDE DEF new
    <3>. QED
      BY <2>3, <2>4, <2>5
  <2>7. watch' \in [Scrubbers -> Watch]
    <3>1. [watch[s] EXCEPT !.forked = {}] \in Watch
      BY DEF Watch
    <3>2. watch' = [watch EXCEPT ![s] = [watch[s] EXCEPT !.forked = {}]]
      BY <1>7 DEF ScrubList
    <3>. QED
      BY <3>1, <3>2
  <2>. QED
    BY <1>7, <2>6, <2>7, Zenon DEF ScrubList
<1>8. ASSUME NEW s \in Scrubbers, ScrubListFails(s) PROVE TypeOK'
  BY <1>8, IdleTypes DEF ScrubListFails
<1>9. ASSUME NEW s \in Scrubbers, NEW k \in Keys, ScrubSkip(s, k) PROVE TypeOK'
  <2> DEFINE after == [scrub[s] EXCEPT !.recs[k] = None]
  <2>1. after \in ScrubState
    <3>1. scrub[s] \in ScrubState
      OBVIOUS
    <3>2. [scrub[s].recs EXCEPT ![k] = None] \in [Keys -> StoredRecord \cup {None}]
      BY <3>1 DEF ScrubState
    <3>. QED
      BY <3>1, <3>2 DEF ScrubState
  <2>2. scrub' = [scrub EXCEPT ![s] = after]
    BY <1>9, Zenon DEF ScrubSkip
  <2>3. scrub' \in [Scrubbers -> ScrubState]
    <3> HIDE DEF after
    <3>. QED
      BY <2>1, <2>2
  <2>. QED
    BY <1>9, <2>3 DEF ScrubSkip
<1>10. ASSUME NEW s \in Scrubbers, NEW k \in Keys, ScrubSave(s, k) PROVE TypeOK'
  <2> DEFINE rec == scrub[s].recs[k]
             new == EvolveRecord(rec, manifest)
  <2>1. rec \in StoredRecord
    BY <1>10 DEF ScrubSave, NextRow, Present, ScrubState
  <2>2. new \in Record /\ new.rev = rec.rev
    BY <2>1, StoredIsRecord, EvolveRecordType
  <2>3. store' \in [Keys -> StoredRecord \cup {None}]
    <3>1. store' = SaveConditional(store, k, new, new.rev)
      BY <1>10, <2>2 DEF ScrubSave
    <3>. QED
      BY <2>2, <3>1, SaveConditionalType DEF Rows
  <2>4. scrub' \in [Scrubbers -> ScrubState]
    <3> DEFINE clean == scrub[s].clean /\ Matches(store, k, rec.rev)
               after == [scrub[s] EXCEPT !.recs[k] = None, !.clean = clean]
    <3>1. clean \in BOOLEAN /\ scrub[s] \in ScrubState
      OBVIOUS
    <3>2. after \in ScrubState
      <4> HIDE DEF clean
      <4>. QED
        BY <3>1 DEF ScrubState
    <3>3. scrub' = [scrub EXCEPT ![s] = after]
      BY <1>10, Zenon DEF ScrubSave
    <3> HIDE DEF after
    <3>. QED
      BY <3>2, <3>3
  <2>. QED
    BY <1>10, <2>3, <2>4 DEF ScrubSave
<1>11. ASSUME NEW s \in Scrubbers, NEW k \in Keys, ScrubSaveFails(s, k) PROVE TypeOK'
  <2> DEFINE after == [scrub[s] EXCEPT !.recs[k] = None, !.clean = FALSE]
  <2>1. after \in ScrubState
    <3>1. scrub[s] \in ScrubState
      OBVIOUS
    <3>2. [scrub[s].recs EXCEPT ![k] = None] \in [Keys -> StoredRecord \cup {None}]
      BY <3>1 DEF ScrubState
    <3>. QED
      BY <3>1, <3>2 DEF ScrubState
  <2>2. scrub' = [scrub EXCEPT ![s] = after]
    BY <1>11, Zenon DEF ScrubSaveFails
  <2>3. scrub' \in [Scrubbers -> ScrubState]
    <3> HIDE DEF after
    <3>. QED
      BY <2>1, <2>2
  <2>. QED
    BY <1>11, <2>3 DEF ScrubSaveFails
<1>12. ASSUME NEW s \in Scrubbers, ScrubPageEnd(s) PROVE TypeOK'
  <2> DEFINE offset == NextOffset(scrub[s].offset)
             next == [scrub[s] EXCEPT !.pc = "list", !.offset = offset, !.full = FALSE]
             done == [scrub[s] EXCEPT !.pc = "done"]
  <2>1. scrub[s] \in ScrubState
    OBVIOUS
  <2>2. offset \in Nat
    BY <2>1 DEF NextOffset, ScrubState
  <2>3. next \in ScrubState /\ done \in ScrubState
    <3> HIDE DEF offset
    <3>. QED
      BY <2>1, <2>2 DEF ScrubState
  <2>4. scrub' = [scrub EXCEPT ![s] = next] \/ scrub' = [scrub EXCEPT ![s] = done]
    <3>1. CASE scrub[s].full
      BY <1>12, <3>1, Zenon DEF ScrubPageEnd
    <3>2. CASE ~scrub[s].full
      BY <1>12, <3>2, Zenon DEF ScrubPageEnd
    <3>. QED
      BY <3>1, <3>2
  <2>5. scrub' \in [Scrubbers -> ScrubState]
    <3> HIDE DEF next, done
    <3>. QED
      BY <2>3, <2>4
  <2>. QED
    BY <1>12, <2>5 DEF ScrubPageEnd
<1>13. ASSUME NEW timeline \in Timelines, MountTimeline(timeline) PROVE TypeOK'
  <2>1. ASSUME NEW s \in Scrubbers PROVE [watch[s] EXCEPT !.goal = @ \cap timeline] \in Watch
    BY DEF Watch
  <2>2. watch' \in [Scrubbers -> Watch]
    BY <1>13, <2>1 DEF MountTimeline
  <2>. QED
    BY <1>13, <2>2 DEF MountTimeline
<1>14. CASE Crash
  BY <1>14, IdleTypes DEF Crash
<1>15. CASE UNCHANGED vars
  BY <1>15 DEF vars
<1>. QED
  BY <1>1, <1>2, <1>3, <1>4, <1>5, <1>6, <1>7, <1>8, <1>9, <1>10, <1>11,
     <1>12, <1>13, <1>14, <1>15 DEF Next, Live, ScrubStep

\* Every variable keeps its type, and every stored record has a revision the
\* conditional save can match, along every behaviour.
THEOREM TypeCorrect == Spec => []TypeOK
BY InitTypeOK, NextTypeOK, PTL DEF Spec

-----------------------------------------------------------------------------
(* Schema stamps *)

\* The versions EvolveRecord runs are those between the old and the new stamp,
\* because a timeline that has a version has every earlier one.
LEMMA EvolveRecordTruthful ==
    ASSUME AppendOnly, WholeSeconds, NEW rec \in Record, Truthful(rec), NEW timeline \in Timelines
    PROVE  Truthful(EvolveRecord(rec, timeline))
<1> DEFINE pending == Pending(rec, timeline)
           new == EvolveRecord(rec, timeline)
<1>1. CASE pending = {}
  BY <1>1 DEF EvolveRecord
<1>2. CASE pending # {}
  <2>1. pending \in SUBSET Dates
    BY DEF Pending, Dates
  <2>2. Last(pending) \in pending /\ \A d \in pending : d <= Last(pending)
    BY <1>2, <2>1, LastOfDates
  <2>3. new.ver = Last(pending) /\ new.applied = rec.applied \cup pending
    <3>1. new.ver = Stamp[Last(pending)] /\ new.applied = rec.applied \cup pending
      BY <1>2 DEF EvolveRecord, Record
    <3>. QED
      BY <2>1, <2>2, <3>1 DEF WholeSeconds
  <2>4. rec.ver \in Nat /\ Last(pending) \in timeline /\ rec.ver < Last(pending)
    <3>1. rec.ver \in Nat
      BY DEF Record
    <3>. QED
      BY <2>2, <3>1 DEF Pending
  <2>5. ASSUME NEW d \in Dates
        PROVE  d \in rec.applied \cup pending <=> d <= Last(pending)
    <3>1. d \in Nat /\ Last(pending) \in Nat
      BY <2>1, <2>2
    <3>2. d \in rec.applied <=> d <= rec.ver
      BY DEF Truthful
    <3>3. d <= Last(pending) => d \in timeline
      BY <2>4 DEF AppendOnly, Dates
    <3>. QED
      BY <2>2, <2>4, <3>1, <3>2, <3>3 DEF Pending
  <2>6. rec.applied \cup pending \subseteq Dates
    BY <2>1 DEF Record
  <2>. QED
    BY <2>3, <2>5, <2>6 DEF Truthful
<1>. QED
  BY <1>1, <1>2

\* No version is dated at or before the empty date.
LEMMA NothingBeforeZero == {d \in Dates : d <= 0} = {}
<1>1. ASSUME NEW d \in Dates PROVE ~(d <= 0)
  <2>1. d \in Nat \ {0}
    OBVIOUS
  <2>. QED
    BY <2>1
<1>. QED
  BY <1>1

\* Save stores the stamp and the body it is given.
LEMMA SaveTruthful ==
    ASSUME NEW st \in Rows, NEW k \in Keys, NEW rec \in Record, Truthful(rec)
    PROVE  /\ Truthful(Save(st, k, rec)[k])
           /\ \A j \in Keys \ {k} : Save(st, k, rec)[j] = st[j]
<1>1. /\ Save(st, k, rec)[k].ver = rec.ver /\ Save(st, k, rec)[k].applied = rec.applied
      /\ \A j \in Keys \ {k} : Save(st, k, rec)[j] = st[j]
  BY SaveType
<1>2. PICK new : new = Save(st, k, rec)[k]
  OBVIOUS
<1>3. Truthful(new)
  BY <1>1, <1>2 DEF Truthful
<1>. QED
  BY <1>1, <1>2, <1>3

LEMMA InitTruthful == ASSUME AppendOnly, WholeSeconds PROVE Init => StampTruthful
<1> SUFFICES ASSUME Init PROVE StampTruthful
  OBVIOUS
<1>1. Truthful(OldRecord({}))
  <2>1. OldRecord({}).ver = 0 /\ OldRecord({}).applied = {}
    BY DEF OldRecord
  <2>. QED
    BY <2>1, NothingBeforeZero DEF Truthful
<1>2. Truthful(OldRecord(BootTimeline))
  <2>1. CASE BootTimeline = {}
    BY <1>1, <2>1
  <2>2. CASE BootTimeline # {}
    <3> DEFINE last == Last(BootTimeline)
    <3>1. BootTimeline \in SUBSET Dates
      BY DEF Dates
    <3>2. last \in BootTimeline /\ \A d \in BootTimeline : d <= last
      BY <2>2, <3>1, LastOfDates
    <3>3. \A d \in Dates : d <= last => d \in BootTimeline
      BY <3>2 DEF AppendOnly, Dates
    <3>4. /\ OldRecord(BootTimeline).ver = last
          /\ OldRecord(BootTimeline).applied = BootTimeline
      BY <2>2, <3>1, <3>2 DEF OldRecord, WholeSeconds
    <3>. QED
      BY <3>1, <3>2, <3>3, <3>4 DEF Truthful
  <2>. QED
    BY <2>1, <2>2
<1>. QED
  BY <1>1, <1>2 DEF Init, StampTruthful, IdleScrub, NoRows

LEMMA NextTruthful ==
    ASSUME AppendOnly, WholeSeconds
    PROVE  TypeOK /\ StampTruthful /\ [Next]_vars => StampTruthful'
<1> SUFFICES ASSUME TypeOK, StampTruthful, [Next]_vars PROVE StampTruthful'
  OBVIOUS
<1>0. store \in Rows
  BY DEF TypeOK, Rows
<1>1. ASSUME NEW k \in Keys, Insert(k) PROVE StampTruthful'
  <2>1. writes' \in WriteIds
    BY <1>1 DEF Insert, WriteIds, TypeOK
  <2>2. NewRecord(writes') \in Record /\ Truthful(NewRecord(writes'))
    <3>1. NewRecord(writes').ver = 0 /\ NewRecord(writes').applied = {}
      BY DEF NewRecord
    <3>. QED
      BY <2>1, <3>1, NewRecordType, NothingBeforeZero DEF Truthful
  <2>3. Truthful(store'[k]) /\ \A j \in Keys \ {k} : store'[j] = store[j]
    BY <1>0, <1>1, <2>2, SaveTruthful DEF Insert
  <2>. QED
    BY <1>1, <2>3 DEF Insert, StampTruthful
<1>2. ASSUME NEW k \in Keys, DeleteRecord(k) PROVE StampTruthful'
  BY <1>2 DEF DeleteRecord, Delete, StampTruthful, TypeOK
<1>3. ASSUME NEW w \in Writers, NEW k \in Keys, UpdateRead(w, k) PROVE StampTruthful'
  <2> DEFINE evolved == EvolveRecord(store[k], manifest)
             held == [evolved EXCEPT !.data = @ \cup {writes'}]
  <2>1. store[k] \in Record /\ Truthful(store[k]) /\ manifest \in Timelines
    BY <1>3, StoredIsRecord DEF UpdateRead, StampTruthful, TypeOK
  <2>2. evolved \in Record /\ Truthful(evolved)
    BY <2>1, EvolveRecordType, EvolveRecordTruthful
  <2>3. Truthful(held)
    BY <2>2 DEF Truthful, Record
  <2>4. req' = [req EXCEPT ![w] = [key |-> k, held |-> held]]
    BY <1>3 DEF UpdateRead
  <2>. QED
    BY <1>3, <2>3, <2>4 DEF UpdateRead, StampTruthful, TypeOK
<1>4. ASSUME NEW w \in Writers, UpdateSave(w) PROVE StampTruthful'
  <2> DEFINE k == req[w].key
  <2>1. k \in Keys /\ req[w].held \in Record /\ Truthful(req[w].held)
    BY <1>4 DEF UpdateSave, Request, StampTruthful, TypeOK
  <2>a. store' = Save(store, k, req[w].held)
    BY <1>4 DEF UpdateSave
  <2> HIDE DEF k
  <2>2. Truthful(store'[k]) /\ \A j \in Keys \ {k} : store'[j] = store[j]
    BY <1>0, <2>1, <2>a, SaveTruthful
  <2> USE DEF k
  <2>. QED
    BY <1>4, <2>1, <2>2 DEF UpdateSave, StampTruthful, TypeOK
<1>5. ASSUME NEW w \in Writers, UpdateFails(w) PROVE StampTruthful'
  BY <1>5 DEF UpdateFails, StampTruthful, TypeOK
<1>6. ASSUME NEW s \in Scrubbers, ScrubStart(s) PROVE StampTruthful'
  BY <1>6 DEF ScrubStart, IdleScrub, NoRows, StampTruthful, TypeOK
<1>7. ASSUME NEW s \in Scrubbers, ScrubList(s) PROVE StampTruthful'
  <2>1. ASSUME NEW k \in Keys, scrub'[s].recs[k] # None
        PROVE  Truthful(scrub'[s].recs[k])
    <3>1. scrub'[s].recs[k] \in {store[k], scrub[s].recs[k]}
      BY <1>7, <2>1 DEF ScrubList, ScrubState, TypeOK
    <3>. QED
      BY <2>1, <3>1 DEF StampTruthful
  <2>2. \A t \in Scrubbers \ {s} : scrub'[t] = scrub[t]
    BY <1>7 DEF ScrubList, TypeOK
  <2>. QED
    BY <1>7, <2>1, <2>2 DEF ScrubList, StampTruthful
<1>8. ASSUME NEW s \in Scrubbers, ScrubListFails(s) PROVE StampTruthful'
  BY <1>8 DEF ScrubListFails, IdleScrub, NoRows, StampTruthful, TypeOK
<1>9. ASSUME NEW s \in Scrubbers, NEW k \in Keys, ScrubSkip(s, k) PROVE StampTruthful'
  BY <1>9 DEF ScrubSkip, StampTruthful, ScrubState, TypeOK
<1>10. ASSUME NEW s \in Scrubbers, NEW k \in Keys, ScrubSave(s, k) PROVE StampTruthful'
  <2> DEFINE rec == scrub[s].recs[k]
             new == EvolveRecord(rec, manifest)
  <2>1. rec \in Record /\ Truthful(rec) /\ manifest \in Timelines
    BY <1>10, StoredIsRecord
    DEF ScrubSave, NextRow, Present, StampTruthful, ScrubState, TypeOK
  <2>2. new \in Record /\ new.rev = rec.rev /\ Truthful(new)
    BY <2>1, EvolveRecordType, EvolveRecordTruthful
  <2>3. store' = store \/ store' = Save(store, k, new)
    <3>1. store' = SaveConditional(store, k, new, new.rev)
      BY <1>10, <2>2 DEF ScrubSave
    <3>. QED
      BY <1>0, <2>2, <3>1, SaveConditionalType
  <2>4. \A j \in Keys : store'[j] # None => Truthful(store'[j])
    <3>1. CASE store' = store
      BY <3>1 DEF StampTruthful
    <3>2. CASE store' = Save(store, k, new)
      <4>1. Truthful(store'[k]) /\ \A j \in Keys \ {k} : store'[j] = store[j]
        <5> HIDE DEF new
        <5>. QED
          BY <1>0, <2>2, <3>2, SaveTruthful
      <4>. QED
        BY <4>1 DEF StampTruthful
    <3>. QED
      BY <2>3, <3>1, <3>2
  <2>5. ASSUME NEW t \in Scrubbers, NEW j \in Keys, scrub'[t].recs[j] # None
        PROVE  scrub'[t].recs[j] = scrub[t].recs[j]
    <3> DEFINE clean == scrub[s].clean /\ Matches(store, k, rec.rev)
    <3>1. scrub' = [scrub EXCEPT ![s].recs[k] = None, ![s].clean = clean]
      BY <1>10, Zenon DEF ScrubSave
    <3> HIDE DEF clean
    <3>. QED
      BY <2>5, <3>1, ScrubSaveRecs DEF TypeOK
  <2>6. req' = req
    BY <1>10 DEF ScrubSave
  <2> HIDE DEF rec, new
  <2>. QED
    BY <2>4, <2>5, <2>6 DEF StampTruthful
<1>11. ASSUME NEW s \in Scrubbers, NEW k \in Keys, ScrubSaveFails(s, k)
       PROVE  StampTruthful'
  BY <1>11 DEF ScrubSaveFails, StampTruthful, ScrubState, TypeOK
<1>12. ASSUME NEW s \in Scrubbers, ScrubPageEnd(s) PROVE StampTruthful'
  BY <1>12 DEF ScrubPageEnd, StampTruthful, ScrubState, TypeOK
<1>13. ASSUME NEW timeline \in Timelines, MountTimeline(timeline) PROVE StampTruthful'
  BY <1>13 DEF MountTimeline, StampTruthful
<1>14. CASE Crash
  BY <1>14 DEF Crash, IdleScrub, NoRows, StampTruthful
<1>15. CASE UNCHANGED vars
  BY <1>15 DEF vars, StampTruthful
<1>. QED
  BY <1>1, <1>2, <1>3, <1>4, <1>5, <1>6, <1>7, <1>8, <1>9, <1>10, <1>11,
     <1>12, <1>13, <1>14, <1>15 DEF Next, Live, ScrubStep

\* As long as evolution.json is only appended to, with whole seconds, no stored record, no record
\* held by a request and no row in a scrubber's hands ever carries a stamp that
\* differs from the versions run over its body.
THEOREM NeverLies ==
    ASSUME AppendOnly, WholeSeconds
    PROVE  Spec => []StampTruthful
<1>1. Init => StampTruthful
  BY InitTruthful
<1>2. TypeOK /\ StampTruthful /\ [Next]_vars => StampTruthful'
  BY NextTruthful
<1>. QED
  BY <1>1, <1>2, TypeCorrect, PTL DEF Spec

-----------------------------------------------------------------------------
(* What a scrubber may overwrite *)

\* The page in a scrubber's hands is never ahead of the rows it was read from,
\* and at the same revision it is the same body, unless a client's Save has
\* forked the row: revisions are only comparable along one line of history.
PageCurrent ==
    \A s \in Scrubbers, k \in Keys :
        scrub[s].recs[k] # None =>
          /\ scrub[s].pc = "rows"
          /\ k \notin watch[s].forked /\ store[k] # None =>
               /\ store[k].rev >= scrub[s].recs[k].rev
               /\ store[k].rev = scrub[s].recs[k].rev
                    => store[k].data = scrub[s].recs[k].data

\* The part of PageCurrent that relates one row to its copy.
CopyCurrent(row, copy) ==
    row # None => /\ row.rev >= copy.rev
                  /\ row.rev = copy.rev => row.data = copy.data

\* A row that is saved over its own revision moves past every copy of it.
LEMMA NextRevision ==
    ASSUME NEW st \in Rows, NEW k \in Keys, NEW rec \in Record,
           Matches(st, k, rec.rev), NEW copy \in StoredRecord, CopyCurrent(st[k], copy)
    PROVE  CopyCurrent(Save(st, k, rec)[k], copy)
<1> DEFINE new == Save(st, k, rec)[k]
<1>1. new.rev = rec.rev + 1
  BY SaveType
<1>2. st[k] # None /\ st[k].rev = rec.rev
  BY DEF Matches
<1>3. rec.rev >= copy.rev
  BY <1>2 DEF CopyCurrent
<1>4. rec.rev \in Nat /\ copy.rev \in Nat
  BY DEF Record, StoredRecord
<1>5. CopyCurrent(new, copy)
  <2> HIDE DEF new
  <2>. QED
    BY <1>1, <1>3, <1>4 DEF CopyCurrent
<1>. QED
  BY <1>5

\* PageCurrent after a client's Save of rec over row k.
LEMMA ClientSaveCurrent ==
    ASSUME TypeOK, PageCurrent, NEW k \in Keys, NEW rec \in Record,
           store' = Save(store, k, rec), WatchSave(k, rec), scrub' = scrub
    PROVE  PageCurrent'
<1> SUFFICES ASSUME NEW s \in Scrubbers, NEW j \in Keys, scrub[s].recs[j] # None,
                    j \notin watch'[s].forked
             PROVE  /\ scrub[s].pc = "rows"
                    /\ CopyCurrent(store'[j], scrub[s].recs[j])
  BY DEF PageCurrent, CopyCurrent
<1>1. scrub[s].pc = "rows"
  BY DEF PageCurrent
<1>2. store \in Rows /\ scrub[s].recs[j] \in StoredRecord
  BY DEF TypeOK, Rows, ScrubState
<1>3. /\ watch[s].forked \subseteq watch'[s].forked
      /\ ~Matches(store, k, rec.rev) => k \in watch'[s].forked
  <2>1. watch[s] \in Watch
    BY DEF TypeOK
  <2>2. watch'[s].forked = IF Matches(store, k, rec.rev) \/ scrub[s].pc # "rows"
                           THEN watch[s].forked ELSE watch[s].forked \cup {k}
    BY <2>1 DEF WatchSave, Watch
  <2>. QED
    BY <1>1, <2>2
<1>4. CopyCurrent(store[j], scrub[s].recs[j])
  BY <1>3 DEF PageCurrent, CopyCurrent
<1>5. CASE j = k
  <2>1. Matches(store, k, rec.rev)
    BY <1>3, <1>5
  <2>2. CopyCurrent(Save(store, k, rec)[k], scrub[s].recs[j])
    BY <1>2, <1>4, <1>5, <2>1, NextRevision
  <2>. QED
    BY <1>1, <1>5, <2>2
<1>6. CASE j # k
  <2>1. store'[j] = store[j]
    BY <1>2, <1>6, SaveType
  <2>. QED
    BY <1>1, <1>4, <2>1
<1>. QED
  BY <1>5, <1>6

LEMMA NextPageCurrent == TypeOK /\ PageCurrent /\ [Next]_vars => PageCurrent'
<1> SUFFICES ASSUME TypeOK, PageCurrent, [Next]_vars PROVE PageCurrent'
  OBVIOUS
<1>1. ASSUME NEW k \in Keys, Insert(k) PROVE PageCurrent'
  <2>1. writes' \in WriteIds
    BY <1>1 DEF Insert, WriteIds, TypeOK
  <2>. QED
    BY <1>1, <2>1, NewRecordType, ClientSaveCurrent DEF Insert
<1>2. ASSUME NEW k \in Keys, DeleteRecord(k) PROVE PageCurrent'
  <2>1. ASSUME NEW s \in Scrubbers PROVE watch'[s].forked = watch[s].forked
    <3>1. watch[s] \in Watch
      BY DEF TypeOK
    <3>. QED
      BY <1>2, <3>1 DEF DeleteRecord, WatchDelete, Watch
  <2>2. scrub' = scrub /\ \A j \in Keys : store'[j] \in {store[j], None}
    BY <1>2 DEF DeleteRecord, Delete, TypeOK
  <2>. QED
    BY <2>1, <2>2 DEF PageCurrent
<1>3. ASSUME NEW w \in Writers, NEW k \in Keys, UpdateRead(w, k) PROVE PageCurrent'
  BY <1>3 DEF UpdateRead, PageCurrent
<1>4. ASSUME NEW w \in Writers, UpdateSave(w) PROVE PageCurrent'
  <2>1. req[w].key \in Keys /\ req[w].held \in Record
    BY <1>4 DEF UpdateSave, Request, TypeOK
  <2>. QED
    BY <1>4, <2>1, ClientSaveCurrent DEF UpdateSave
<1>5. ASSUME NEW w \in Writers, UpdateFails(w) PROVE PageCurrent'
  BY <1>5 DEF UpdateFails, PageCurrent
<1>6. ASSUME NEW s \in Scrubbers, ScrubStart(s) PROVE PageCurrent'
  BY <1>6 DEF ScrubStart, IdleScrub, NoRows, PageCurrent, TypeOK
<1>7. ASSUME NEW s \in Scrubbers, ScrubList(s) PROVE PageCurrent'
  <2>1. \A t \in Scrubbers \ {s} : scrub'[t] = scrub[t] /\ watch'[t] = watch[t]
    BY <1>7 DEF ScrubList, TypeOK
  <2>2. ASSUME NEW k \in Keys, scrub'[s].recs[k] # None
        PROVE  scrub'[s].pc = "rows" /\ CopyCurrent(store[k], scrub'[s].recs[k])
    <3>1. scrub[s].recs[k] = None
      BY <1>7 DEF ScrubList, PageCurrent
    <3>2. scrub'[s].pc = "rows" /\ scrub'[s].recs[k] = store[k]
      BY <1>7, <2>2, <3>1 DEF ScrubList, ScrubState, TypeOK
    <3>3. store[k].rev \in Nat
      BY <2>2, <3>2 DEF TypeOK, StoredRecord
    <3>. QED
      BY <3>2, <3>3 DEF CopyCurrent
  <2>. QED
    BY <1>7, <2>1, <2>2 DEF ScrubList, PageCurrent, CopyCurrent
<1>8. ASSUME NEW s \in Scrubbers, ScrubListFails(s) PROVE PageCurrent'
  BY <1>8 DEF ScrubListFails, IdleScrub, NoRows, PageCurrent, TypeOK
<1>9. ASSUME NEW s \in Scrubbers, NEW k \in Keys, ScrubSkip(s, k) PROVE PageCurrent'
  BY <1>9 DEF ScrubSkip, PageCurrent, ScrubState, TypeOK
<1>10. ASSUME NEW s \in Scrubbers, NEW k \in Keys, ScrubSave(s, k) PROVE PageCurrent'
  <2> DEFINE rec == scrub[s].recs[k]
             new == EvolveRecord(rec, manifest)
  <2>1. store \in Rows /\ new \in Record /\ new.rev = rec.rev
    <3>1. rec \in Record /\ manifest \in Timelines
      BY <1>10, StoredIsRecord DEF ScrubSave, NextRow, Present, ScrubState, TypeOK
    <3>. QED
      BY <3>1, EvolveRecordType DEF TypeOK, Rows
  <2>2. store' = SaveConditional(store, k, new, new.rev)
    BY <1>10, <2>1 DEF ScrubSave
  <2>3. ASSUME NEW t \in Scrubbers, NEW j \in Keys, scrub'[t].recs[j] # None
        PROVE  scrub'[t].pc = scrub[t].pc /\ scrub'[t].recs[j] = scrub[t].recs[j]
    BY <1>10, <2>3 DEF ScrubSave, ScrubState, TypeOK
  <2>4. ASSUME NEW t \in Scrubbers, NEW j \in Keys, scrub[t].recs[j] # None,
               j \notin watch[t].forked
        PROVE  CopyCurrent(store'[j], scrub[t].recs[j])
    <3> DEFINE copy == scrub[t].recs[j]
    <3>1. copy \in StoredRecord
      BY <2>4 DEF ScrubState, TypeOK
    <3>2. CopyCurrent(store[j], copy)
      BY <2>4 DEF PageCurrent, CopyCurrent
    <3> HIDE DEF copy, new
    <3>3. CASE Matches(store, k, new.rev) /\ j = k
      <4>1. store' = Save(store, k, new)
        BY <2>1, <2>2, <3>3, SaveConditionalType
      <4>2. CopyCurrent(Save(store, k, new)[k], copy)
        BY <2>1, <3>1, <3>2, <3>3, NextRevision
      <4>. QED
        BY <3>3, <4>1, <4>2 DEF copy
    <3>4. CASE ~(Matches(store, k, new.rev) /\ j = k)
      <4>1. store'[j] = store[j]
        <5>1. CASE Matches(store, k, new.rev)
          <6>1. j # k
            BY <3>4, <5>1
          <6>2. store' = Save(store, k, new)
            BY <2>1, <2>2, <5>1, SaveConditionalType
          <6>. QED
            BY <2>1, <6>1, <6>2, SaveType
        <5>2. CASE ~Matches(store, k, new.rev)
          BY <2>1, <2>2, <5>2, SaveConditionalType
        <5>. QED
          BY <5>1, <5>2
      <4>. QED
        BY <3>2, <4>1 DEF copy
    <3>. QED
      BY <3>3, <3>4
  <2>5. watch' = watch
    BY <1>10 DEF ScrubSave
  <2>6. ASSUME NEW t \in Scrubbers, NEW j \in Keys, scrub'[t].recs[j] # None
        PROVE  /\ scrub'[t].pc = "rows"
               /\ j \notin watch'[t].forked => CopyCurrent(store'[j], scrub'[t].recs[j])
    <3>1. scrub[t].recs[j] # None /\ scrub[t].pc = "rows"
      BY <2>3, <2>6 DEF PageCurrent
    <3>. QED
      BY <2>3, <2>4, <2>5, <2>6, <3>1
  <2>. QED
    BY <2>6 DEF PageCurrent, CopyCurrent
<1>11. ASSUME NEW s \in Scrubbers, NEW k \in Keys, ScrubSaveFails(s, k)
       PROVE  PageCurrent'
  BY <1>11 DEF ScrubSaveFails, PageCurrent, ScrubState, TypeOK
<1>12. ASSUME NEW s \in Scrubbers, ScrubPageEnd(s) PROVE PageCurrent'
  <2>1. \A k \in Keys : scrub'[s].recs[k] = None
    BY <1>12 DEF ScrubPageEnd, Present, ScrubState, TypeOK
  <2>2. \A t \in Scrubbers \ {s} : scrub'[t] = scrub[t]
    BY <1>12 DEF ScrubPageEnd, TypeOK
  <2>. QED
    BY <1>12, <2>1, <2>2 DEF ScrubPageEnd, PageCurrent
<1>13. ASSUME NEW timeline \in Timelines, MountTimeline(timeline) PROVE PageCurrent'
  <2>1. ASSUME NEW s \in Scrubbers PROVE watch'[s].forked = watch[s].forked
    BY <1>13 DEF MountTimeline, TypeOK, Watch
  <2>. QED
    BY <1>13, <2>1 DEF MountTimeline, PageCurrent
<1>14. CASE Crash
  BY <1>14 DEF Crash, IdleScrub, NoRows, PageCurrent
<1>15. CASE UNCHANGED vars
  BY <1>15 DEF vars, PageCurrent
<1>. QED
  BY <1>1, <1>2, <1>3, <1>4, <1>5, <1>6, <1>7, <1>8, <1>9, <1>10, <1>11,
     <1>12, <1>13, <1>14, <1>15 DEF Next, Live, ScrubStep

\* Only the conditional save of ScrubEntity writes a row while its page moves on.
LEMMA ScrubWrites ==
    ASSUME TypeOK, Next, NEW s \in Scrubbers, NEW k \in Keys, SavedByScrub(s, k)
    PROVE  ScrubSave(s, k)
<1>1. scrub'[s] # scrub[s] /\ store'[k] # store[k]
  BY DEF SavedByScrub, ScrubState, TypeOK
<1>2. PICK t \in Scrubbers, j \in Keys : ScrubSave(t, j)
  BY <1>1
  DEF Next, Live, ScrubStep, Insert, DeleteRecord, UpdateRead, UpdateSave, UpdateFails,
      ScrubStart, ScrubList, ScrubListFails, ScrubPageEnd, ScrubSkip, ScrubSaveFails,
      MountTimeline, Crash
<1>3. t = s
  BY <1>1, <1>2 DEF ScrubSave, TypeOK
<1>4. j = k
  BY <1>1, <1>2 DEF ScrubSave, SaveConditional, TypeOK
<1>. QED
  BY <1>2, <1>3, <1>4

\* A conditional save writes the body it read, so it loses nothing unless the row
\* was forked: the guard of SaveConditional protects every client that continued
\* the stored revision.
LEMMA ScrubStepKeeps ==
    TypeOK /\ PageCurrent /\ [Next]_vars =>
      [\A s \in Scrubbers, k \in Keys :
         SavedByScrub(s, k) /\ k \notin watch[s].forked
           => store[k].data \subseteq store'[k].data]_vars
<1> SUFFICES ASSUME TypeOK, PageCurrent, Next, NEW s \in Scrubbers, NEW k \in Keys,
                    SavedByScrub(s, k), k \notin watch[s].forked
             PROVE  store[k].data \subseteq store'[k].data
  OBVIOUS
<1> DEFINE rec == scrub[s].recs[k]
           new == EvolveRecord(rec, manifest)
<1>1. ScrubSave(s, k)
  BY ScrubWrites
<1>2. store \in Rows /\ rec # None /\ rec \in Record /\ manifest \in Timelines
  BY <1>1, StoredIsRecord DEF ScrubSave, NextRow, Present, ScrubState, TypeOK, Rows
<1>3. new \in Record /\ new.rev = rec.rev /\ new.data = rec.data
  BY <1>2, EvolveRecordType
<1>4. store' = SaveConditional(store, k, new, new.rev)
  BY <1>1, <1>3 DEF ScrubSave
<1>5. store'[k] # store[k]
  BY DEF SavedByScrub
<1>6. store[k].data = rec.data
  <2>1. Matches(store, k, new.rev)
    <3> HIDE DEF new
    <3>. QED
      BY <1>2, <1>3, <1>4, <1>5, SaveConditionalType
  <2>. QED
    BY <1>2, <1>3, <2>1 DEF PageCurrent, Matches
<1>7. store'[k].data = new.data
  <2> HIDE DEF new
  <2>1. store' = Save(store, k, new)
    BY <1>2, <1>3, <1>4, <1>5, SaveConditionalType
  <2>. QED
    BY <1>2, <1>3, <2>1, SaveType
<1>. QED
  BY <1>3, <1>6, <1>7

\* A migration running beside live traffic never overwrites a client's write, save
\* for a row that a client's own Save forked after the page was listed.
THEOREM OnlyForksAreLost == Spec => ScrubKeepsUnforkedWrites
<1>1. Init => PageCurrent
  <2>1. Init => \A s \in Scrubbers, k \in Keys : scrub[s].recs[k] = None
    BY DEF Init, IdleScrub, NoRows
  <2>. QED
    BY <2>1 DEF PageCurrent
<1>2. TypeOK /\ PageCurrent /\ [Next]_vars => PageCurrent'
  BY NextPageCurrent
<1>3. Spec => []PageCurrent
  BY <1>1, <1>2, TypeCorrect, PTL DEF Spec
<1>. QED
  BY <1>3, TypeCorrect, ScrubStepKeeps, PTL DEF Spec, ScrubKeepsUnforkedWrites

-----------------------------------------------------------------------------
(* A migration that ends well has missed no record *)

\* What scrubber s has still to do for row k: the row is on a page to come, or in
\* the page in hand as it was listed.
ToCome(s, k) ==
    \/ scrub[s].pc = "list" /\ scrub[s].offset = 0
    \/ scrub[s].pc = "list" /\ ListsInKeyOrder /\ Rank(store, k) >= scrub[s].offset
    \/ scrub[s].pc = "rows" /\ scrub[s].full /\ ListsInKeyOrder
         /\ Rank(store, k) >= scrub[s].offset + BatchSize
    \/ scrub[s].pc = "rows" /\ scrub[s].recs[k] # None /\ scrub[s].recs[k] = store[k]

Served(s, k) == Upgraded(k, watch[s].goal) \/ ToCome(s, k)

\* The rows the scrub will miss, and how many it may have lost already.
Lost(s) == {k \in watch[s].must : ~Served(s, k)}

Budget(s) ==
    IF ListsInKeyOrder THEN watch[s].gone
    ELSE IF scrub[s].offset = 0 /\ ~(scrub[s].pc = "rows" /\ scrub[s].full) THEN 0
    ELSE Cardinality(Keys)

MissesFew(s) ==
    /\ watch[s].goal \subseteq manifest
    /\ \A k \in watch[s].must : store[k] # None
    /\ scrub[s].pc # "idle" /\ scrub[s].clean => Cardinality(Lost(s)) <= Budget(s)

ScrubInv == \A s \in Scrubbers : MissesFew(s)

\* The lost rows can be counted.
LEMMA LostCount ==
    ASSUME NEW lost \in SUBSET Keys
    PROVE  /\ IsFiniteSet(lost) /\ Cardinality(lost) \in Nat
           /\ Cardinality(lost) <= Cardinality(Keys)
BY FS_Subset, FS_CardinalityType

LEMMA BudgetType ==
    ASSUME TypeOK, TypeOK', NEW s \in Scrubbers
    PROVE  /\ Budget(s) \in Nat /\ Lost(s) \in SUBSET Keys
           /\ Budget(s)' \in Nat /\ Lost(s)' \in SUBSET Keys
<1>1. Cardinality(Keys) \in Nat
  BY CountType
<1>2. Budget(s) \in Nat /\ Lost(s) \in SUBSET Keys
  BY <1>1 DEF Budget, Lost, TypeOK, Watch
<1>3. Budget(s)' \in Nat /\ Lost(s)' \in SUBSET Keys
  BY <1>1 DEF Budget, Lost, TypeOK, Watch
<1>. QED
  BY <1>2, <1>3

\* A step that loses no more rows, or after which any number may be lost.
LEMMA FewKept ==
    ASSUME TypeOK, TypeOK', NEW s \in Scrubbers, MissesFew(s),
           watch'[s].goal \subseteq manifest',
           \A k \in watch'[s].must : store'[k] # None,
           scrub'[s].pc # "idle" /\ scrub'[s].clean =>
             /\ scrub[s].pc # "idle" /\ scrub[s].clean
             /\ \/ Budget(s)' = Cardinality(Keys)
                \/ Lost(s)' \subseteq Lost(s) /\ Budget(s) <= Budget(s)'
    PROVE  MissesFew(s)'
<1> SUFFICES ASSUME scrub'[s].pc # "idle", scrub'[s].clean
             PROVE  Cardinality(Lost(s)') <= Budget(s)'
  BY DEF MissesFew
<1>1. /\ Budget(s) \in Nat /\ Lost(s) \in SUBSET Keys
      /\ Budget(s)' \in Nat /\ Lost(s)' \in SUBSET Keys
  BY BudgetType
<1>2. CASE Budget(s)' = Cardinality(Keys)
  BY <1>1, <1>2, LostCount
<1>3. CASE Lost(s)' \subseteq Lost(s) /\ Budget(s) <= Budget(s)'
  <2>1. Cardinality(Lost(s)') <= Cardinality(Lost(s))
    BY <1>1, <1>3, LostCount, FS_Subset
  <2>2. Cardinality(Lost(s)) <= Budget(s)
    BY DEF MissesFew
  <2>. QED
    BY <1>1, <1>3, <2>1, <2>2, LostCount
<1>. QED
  BY <1>2, <1>3

\* The rows before key k.
Below(st, k) == {j \in Present(st) : j < k}

LEMMA BelowFacts ==
    ASSUME NEW st, NEW k \in Keys
    PROVE  /\ Rank(st, k) = Cardinality(Below(st, k)) /\ Rank(st, k) \in Nat
           /\ IsFiniteSet(Below(st, k)) /\ Rank(st, k) < MaxOffset
<1>1. Below(st, k) \subseteq Keys \ {k}
  BY DEF Below, Present
<1>2. IsFiniteSet(Keys \ {k}) /\ Cardinality(Keys \ {k}) = Cardinality(Keys) - 1
  BY FS_RemoveElement
<1>3. IsFiniteSet(Below(st, k)) /\ Cardinality(Below(st, k)) <= Cardinality(Keys \ {k})
  BY <1>1, <1>2, FS_Subset
<1>4. Cardinality(Keys) \in Nat /\ Cardinality(Below(st, k)) \in Nat
  BY <1>3, FS_CardinalityType
<1>5. Rank(st, k) = Cardinality(Below(st, k))
  BY DEF Rank, Below
<1>. QED
  BY <1>2, <1>3, <1>4, <1>5

\* As long as no row goes, no row moves towards the front.
LEMMA RankGrows ==
    ASSUME NEW st, NEW new, Present(st) \subseteq Present(new), NEW k \in Keys
    PROVE  Rank(st, k) <= Rank(new, k)
<1>1. Below(st, k) \subseteq Below(new, k)
  BY DEF Below
<1>. QED
  BY <1>1, BelowFacts, FS_Subset

LEMMA RankLess ==
    ASSUME NEW st, NEW i \in Present(st), NEW j \in Keys, i < j
    PROVE  Rank(st, i) < Rank(st, j)
<1>1. i \in Keys
  BY DEF Present
<1>2. i \in Below(st, j)
  BY DEF Below
<1>3. Below(st, i) \subseteq Below(st, j) \ {i}
  <2> SUFFICES ASSUME NEW h \in Below(st, i) PROVE h \in Below(st, j) /\ h # i
    OBVIOUS
  <2>1. h \in Present(st) /\ h \in Nat /\ i \in Nat /\ j \in Nat /\ h < i
    BY <1>1 DEF Below, Present
  <2>. QED
    BY <2>1 DEF Below
<1>4. /\ IsFiniteSet(Below(st, j) \ {i})
      /\ Cardinality(Below(st, j) \ {i}) = Cardinality(Below(st, j)) - 1
  BY <1>2, BelowFacts, FS_RemoveElement
<1>5. Cardinality(Below(st, i)) <= Cardinality(Below(st, j) \ {i})
  BY <1>3, <1>4, FS_Subset
<1>. QED
  BY <1>1, <1>4, <1>5, BelowFacts

\* The rows before k have all the ranks there are below that of k ...
LEMMA RanksReached ==
    ASSUME NEW st, NEW k \in Keys, NEW i \in Nat, i < Rank(st, k)
    PROVE  \E j \in Present(st) : Rank(st, j) = i
<1> DEFINE P == Below(st, k)
           n == Rank(st, k)
           r == [j \in P |-> Rank(st, j)]
<1>1. P \subseteq Present(st) /\ P \subseteq Keys
  BY DEF Below, Present
<1>2. n \in Nat /\ n = Cardinality(P) /\ IsFiniteSet(P)
  BY BelowFacts
<1>3. ASSUME NEW j \in P PROVE Rank(st, j) \in 0 .. n - 1
  <2>1. Rank(st, j) < n /\ Rank(st, j) \in Nat
    BY <1>1, <1>3, RankLess, BelowFacts DEF Below
  <2>. QED
    BY <1>2, <2>1
<1>4. ASSUME NEW a \in P, NEW b \in P, Rank(st, a) = Rank(st, b) PROVE a = b
  <2>1. a \in Nat /\ b \in Nat /\ Rank(st, a) \in Nat /\ Rank(st, b) \in Nat
    BY <1>1, BelowFacts
  <2>2. ~(a < b) /\ ~(b < a)
    BY <1>1, <1>4, <2>1, RankLess
  <2>. QED
    BY <2>1, <2>2
<1> HIDE DEF P, n
<1>5. r \in Injection(P, 0 .. n - 1)
  BY <1>3, <1>4 DEF Injection, IsInjective
<1>6. IsFiniteSet(0 .. n - 1) /\ Cardinality(0 .. n - 1) = n
  <2>1. PICK b \in Int : b = n - 1
    BY <1>2
  <2>2. IsFiniteSet(0 .. b) /\ Cardinality(0 .. b) = IF 0 > b THEN 0 ELSE b - 0 + 1
    BY 0 \in Int, FS_Interval, Zenon
  <2>3. Cardinality(0 .. b) = n
    BY <1>2, <2>1, <2>2
  <2>. QED
    BY <2>1, <2>2, <2>3
<1>7. r \in Surjection(P, 0 .. n - 1)
  BY <1>2, <1>5, <1>6, FS_Injection
<1>8. i \in 0 .. n - 1
  BY <1>2 DEF n
<1>9. PICK j \in P : r[j] = i
  BY <1>7, <1>8 DEF Surjection
<1>. QED
  BY <1>1, <1>9

\* ... so that a page before a row is full.
LEMMA PageFull ==
    ASSUME HonoursOffset, NEW st, NEW offset \in Nat, NEW k \in Keys,
           Rank(st, k) >= offset + BatchSize
    PROVE  Cardinality(Page(st, offset, BatchSize)) >= BatchSize
<1> DEFINE Q == Page(st, offset, BatchSize)
           I == offset .. offset + BatchSize - 1
           g == [j \in Q |-> Rank(st, j)]
<1>1. Q = {j \in Present(st) : Rank(st, j) \in I}
  BY DEF Page
<1>2. Q \subseteq Keys
  BY <1>1 DEF Present
<1>3. IsFiniteSet(Q)
  BY <1>2, FS_Subset
<1>4. ASSUME NEW i \in I PROVE \E j \in Q : Rank(st, j) = i
  <2>1. i \in Nat /\ i < Rank(st, k)
    BY BelowFacts
  <2>2. PICK j \in Present(st) : Rank(st, j) = i
    BY <2>1, RanksReached
  <2>. QED
    BY <1>1, <2>2
<1>5. g \in Surjection(Q, I)
  <2>1. \A j \in Q : Rank(st, j) \in I
    BY <1>1
  <2> HIDE DEF Q, I
  <2>. QED
    BY <1>4, <2>1 DEF Surjection
<1>6. Cardinality(I) = BatchSize
  <2>1. Cardinality(I) = IF offset > offset + BatchSize - 1 THEN 0
                         ELSE offset + BatchSize - 1 - offset + 1
    BY FS_Interval
  <2>. QED
    BY <2>1
<1> HIDE DEF Q, I, g
<1>7. Cardinality(I) <= Cardinality(Q)
  BY <1>3, <1>5, FS_Surjection
<1>8. Cardinality(Q) \in Nat
  BY <1>3, FS_CardinalityType
<1>. QED
  BY <1>6, <1>7, <1>8 DEF Q

\* A page that may be listed has the length of the one in key order, and rows only.
LEMMA PageLength ==
    ASSUME NEW st, NEW offset \in Nat, NEW page \in Pages(st, offset, BatchSize)
    PROVE  /\ page \subseteq Present(st)
           /\ Cardinality(page) = Cardinality(Page(st, offset, BatchSize))
           /\ ListsInKeyOrder => page = Page(st, offset, BatchSize)
BY DEF Pages, Page

\* A first page that is not full holds every row, in whatever order rows come.
LEMMA OnlyPage ==
    ASSUME HonoursOffset, NEW st, NEW page \in Pages(st, 0, BatchSize),
           ~(Cardinality(page) >= BatchSize)
    PROVE  page = Present(st)
<1>1. /\ page \subseteq Present(st)
      /\ Cardinality(page) = Cardinality(Page(st, 0, BatchSize))
  BY PageLength
<1>2. Page(st, 0, BatchSize) = Present(st)
  <2> SUFFICES ASSUME NEW k \in Present(st) PROVE k \in Page(st, 0, BatchSize)
    BY DEF Page
  <2>1. k \in Keys
    BY DEF Present
  <2>2. ~(Rank(st, k) >= 0 + BatchSize)
    BY <1>1, <2>1, PageFull
  <2>3. Rank(st, k) \in 0 .. 0 + BatchSize - 1
    BY <2>1, <2>2, BelowFacts
  <2>. QED
    BY <2>3 DEF Page
<1>3. IsFiniteSet(Present(st))
  BY FS_Subset DEF Present
<1>. QED
  BY <1>1, <1>2, <1>3, FS_Subset

\* Dated in whole seconds, an evolved record is at every version of the timeline.
LEMMA EvolvedAll ==
    ASSUME WholeSeconds, NEW rec \in Record, NEW timeline \in Timelines
    PROVE  \A d \in timeline : d <= EvolveRecord(rec, timeline).ver
<1> DEFINE pending == Pending(rec, timeline)
<1>1. pending \in SUBSET Dates /\ timeline \in SUBSET Dates /\ rec.ver \in Nat
  BY DEF Pending, Dates, Record
<1>2. CASE pending = {}
  <2>1. \A d \in timeline : ~(d > rec.ver)
    BY <1>2 DEF Pending
  <2>. QED
    BY <1>1, <1>2, <2>1 DEF EvolveRecord
<1>3. CASE pending # {}
  <2>1. Last(pending) \in pending /\ \A e \in pending : e <= Last(pending)
    BY <1>1, <1>3, LastOfDates
  <2>2. EvolveRecord(rec, timeline).ver = Last(pending)
    <3>1. EvolveRecord(rec, timeline) =
            [rec EXCEPT !.ver = Stamp[Last(pending)], !.applied = @ \cup pending]
      BY <1>3 DEF EvolveRecord
    <3>2. Stamp[Last(pending)] = Last(pending)
      BY <1>1, <2>1 DEF WholeSeconds
    <3> HIDE DEF pending
    <3>. QED
      BY <3>1, <3>2 DEF Record
  <2>3. rec.ver < Last(pending) /\ Last(pending) \in Nat
    BY <1>1, <2>1 DEF Pending
  <2>4. ASSUME NEW d \in timeline PROVE d <= Last(pending)
    <3>1. CASE d > rec.ver
      BY <2>1, <3>1 DEF Pending
    <3>2. CASE ~(d > rec.ver)
      <4>1. d \in Nat
        BY <1>1
      <4> HIDE DEF pending
      <4>. QED
        BY <1>1, <2>3, <3>2, <4>1
    <3>. QED
      BY <3>1, <3>2
  <2>. QED
    BY <2>2, <2>4
<1>. QED
  BY <1>2, <1>3

\* A step of others: rows stay, or are written at every version of the goal; where
\* the order of the keys counts, no row goes.
LEMMA Bystander ==
    ASSUME TypeOK, TypeOK', NEW s \in Scrubbers, MissesFew(s), scrub'[s] = scrub[s],
           watch'[s].goal \subseteq watch[s].goal, watch'[s].goal \subseteq manifest',
           watch'[s].must \subseteq watch[s].must, watch'[s].gone >= watch[s].gone,
           ListsInKeyOrder /\ Running(s) => Present(store) \subseteq Present(store'),
           \A k \in watch'[s].must :
               \/ store'[k] = store[k]
               \/ store'[k] # None /\ \A d \in watch'[s].goal : d <= store'[k].ver
    PROVE  MissesFew(s)'
<1>1. Budget(s) <= Budget(s)'
  <2>1. watch[s].gone \in Nat /\ watch'[s].gone \in Nat /\ Cardinality(Keys) \in Nat
    BY CountType DEF TypeOK, Watch
  <2>. QED
    BY <2>1 DEF Budget
<1>2. ASSUME NEW k \in watch'[s].must, store'[k] = store[k], Served(s, k)
      PROVE  Served(s, k)'
  <2>1. Upgraded(k, watch[s].goal) => Upgraded(k, watch[s].goal)'
    BY <1>2 DEF Upgraded
  <2>2. ASSUME ToCome(s, k) PROVE ToCome(s, k)'
    <3>1. k \in Keys /\ scrub[s].offset \in Nat
      BY DEF TypeOK, ScrubState, Watch
    <3>2. CASE ListsInKeyOrder /\ Running(s)
      <4>1. Rank(store, k) <= Rank(store', k)
        BY <3>1, <3>2, RankGrows
      <4>2. Rank(store, k) \in Nat /\ Rank(store', k) \in Nat
        BY <3>1, BelowFacts
      <4>3. \A b \in Nat : Rank(store, k) >= b => Rank(store', k) >= b
        BY <4>1, <4>2
      <4>4. scrub[s].offset + BatchSize \in Nat
        BY <3>1
      <4>. QED
        BY <1>2, <2>2, <3>1, <4>3, <4>4 DEF ToCome
    <3>3. CASE ~(ListsInKeyOrder /\ Running(s))
      BY <1>2, <2>2, <3>3 DEF ToCome, Running
    <3>. QED
      BY <3>2, <3>3
  <2>. QED
    BY <1>2, <2>1, <2>2 DEF Served, Upgraded
<1>3. \A k \in watch'[s].must : Served(s, k) => Served(s, k)'
  BY <1>2 DEF Served, Upgraded
<1>4. Lost(s)' \subseteq Lost(s)
  BY <1>3 DEF Lost
<1>5. \A k \in watch'[s].must : store'[k] # None
  BY DEF MissesFew
<1>. QED
  BY <1>1, <1>4, <1>5, FewKept

LEMMA OneElementMore ==
    ASSUME NEW S, IsFiniteSet(S), NEW x
    PROVE  IsFiniteSet(S \cup {x}) /\ Cardinality(S \cup {x}) <= Cardinality(S) + 1
<1>1. /\ IsFiniteSet(S \cup {x})
      /\ Cardinality(S \cup {x}) = IF x \in S THEN Cardinality(S) ELSE Cardinality(S) + 1
  BY FS_AddElement, Zenon
<1>2. Cardinality(S) \in Nat
  BY FS_CardinalityType
<1>. QED
  BY <1>1, <1>2

\* Where the order of the keys counts, a row that goes moves those behind it one place
\* towards the front ...
LEMMA RankAfterDelete ==
    ASSUME NEW st, NEW new, NEW k \in Keys, NEW j \in Keys,
           \A i \in Keys \ {k} : new[i] = st[i]
    PROVE  Rank(st, j) <= Rank(new, j) + 1
<1>1. Below(st, j) \subseteq Below(new, j) \cup {k}
  BY DEF Below, Present
<1>2. /\ IsFiniteSet(Below(new, j) \cup {k})
      /\ Cardinality(Below(new, j) \cup {k}) <= Cardinality(Below(new, j)) + 1
  BY BelowFacts, OneElementMore
<1>3. Cardinality(Below(st, j)) <= Cardinality(Below(new, j) \cup {k})
  BY <1>1, <1>2, FS_Subset
<1>. QED
  BY <1>2, <1>3, BelowFacts, FS_CardinalityType

\* ... and only one of them over the boundary between two pages.
LEMMA DeleteLosesOne ==
    ASSUME TypeOK, TypeOK', NEW s \in Scrubbers, MissesFew(s), ListsInKeyOrder,
           Running(s), scrub'[s] = scrub[s], NEW k \in Keys,
           \A j \in Keys \ {k} : store'[j] = store[j], manifest' = manifest,
           watch'[s].goal = watch[s].goal, watch'[s].must = watch[s].must \ {k},
           watch'[s].gone = OneMore(watch[s].gone)
    PROVE  MissesFew(s)'
<1> DEFINE bound == IF scrub[s].pc = "list" THEN scrub[s].offset
                    ELSE scrub[s].offset + BatchSize
<1>1. bound \in Nat /\ watch[s].must \subseteq Keys /\ scrub[s].pc \in {"list", "rows"}
  BY DEF TypeOK, ScrubState, Watch, Running
<1>2. ASSUME NEW j \in Lost(s)', j \notin Lost(s) PROVE j \in Present(store) /\ Rank(store, j) = bound
  <2>1. j \in watch[s].must /\ j # k /\ j \in Keys /\ store'[j] = store[j] /\ ~Served(s, j)'
    BY <1>1, <1>2 DEF Lost
  <2>2. Served(s, j)
    BY <1>2, <2>1 DEF Lost
  <2>3. store[j] # None /\ j \in Present(store)
    BY <2>1 DEF MissesFew, Present
  <2>4. ToCome(s, j) /\ ~ToCome(s, j)'
    BY <2>1, <2>2 DEF Served, Upgraded
  <2>5. Rank(store, j) >= bound /\ ~(Rank(store', j) >= bound)
    BY <1>1, <2>1, <2>4 DEF ToCome, bound
  <2>6. /\ Rank(store, j) <= Rank(store', j) + 1
        /\ Rank(store, j) \in Nat /\ Rank(store', j) \in Nat
    BY <2>1, RankAfterDelete, BelowFacts
  <2> HIDE DEF bound
  <2>. QED
    BY <1>1, <2>3, <2>5, <2>6
<1>3. ASSUME NEW i \in Lost(s)', NEW j \in Lost(s)', i \notin Lost(s), j \notin Lost(s)
      PROVE  i = j
  <2>1. /\ i \in Present(store) /\ j \in Present(store)
        /\ Rank(store, i) = bound /\ Rank(store, j) = bound
    BY <1>2, <1>3
  <2>2. i \in Keys /\ j \in Keys /\ i \in Nat /\ j \in Nat
    BY <2>1 DEF Present
  <2>3. ~(i < j) /\ ~(j < i)
    <3> HIDE DEF bound
    <3>. QED
      BY <1>1, <2>1, <2>2, RankLess
  <2>. QED
    BY <2>2, <2>3
<1> HIDE DEF bound
<1>4. /\ Lost(s) \in SUBSET Keys /\ Lost(s)' \in SUBSET Keys
  BY BudgetType
<1>5. /\ Budget(s) = watch[s].gone /\ Budget(s)' = OneMore(watch[s].gone)
      /\ watch[s].gone \in 0 .. Cardinality(Keys) /\ Cardinality(Keys) \in Nat
  BY CountType DEF Budget, TypeOK, Watch
<1>6. ASSUME Cardinality(Lost(s)) <= Budget(s) PROVE Cardinality(Lost(s)') <= Budget(s)'
  <2>1. CASE Lost(s)' \subseteq Lost(s)
    <3>1. Cardinality(Lost(s)') <= Cardinality(Lost(s))
      BY <1>4, <2>1, LostCount, FS_Subset
    <3>. QED
      BY <1>4, <1>5, <1>6, <3>1, LostCount DEF OneMore
  <2>2. CASE ~(Lost(s)' \subseteq Lost(s))
    <3>1. PICK j \in Lost(s)' : j \notin Lost(s)
      BY <2>2
    <3>2. Lost(s)' \subseteq Lost(s) \cup {j}
      BY <1>3, <3>1
    <3>3. IsFiniteSet(Lost(s) \cup {j}) /\ Cardinality(Lost(s) \cup {j}) = Cardinality(Lost(s)) + 1
      BY <1>4, <3>1, LostCount, FS_AddElement
    <3>4. Cardinality(Lost(s)') <= Cardinality(Lost(s)) + 1
      BY <3>2, <3>3, FS_Subset
    <3>5. /\ Cardinality(Lost(s)') \in Nat /\ Cardinality(Lost(s)) \in Nat
          /\ Cardinality(Lost(s)') <= Cardinality(Keys)
      BY <1>4, LostCount
    <3>. QED
      BY <1>5, <1>6, <3>4, <3>5 DEF OneMore
  <2>. QED
    BY <2>1, <2>2
<1>7. /\ watch'[s].goal \subseteq manifest'
      /\ \A j \in watch'[s].must : store'[j] # None
  BY <1>1 DEF MissesFew
<1>. QED
  BY <1>6, <1>7 DEF MissesFew

\* A step that takes row k from the page in hand: the run is not clean, or the row
\* is at every version now, or it is as it was and had been when it was listed.
LEMMA RowDone ==
    ASSUME TypeOK, TypeOK', NEW s \in Scrubbers, NEW k \in Keys, MissesFew(s),
           scrub[s].pc = "rows", scrub'[s].pc = "rows",
           scrub'[s].offset = scrub[s].offset, scrub'[s].full = scrub[s].full,
           scrub'[s].clean => scrub[s].clean,
           \A j \in Keys \ {k} : scrub'[s].recs[j] = scrub[s].recs[j],
           \A j \in Keys \ {k} : store'[j] = store[j],
           Present(store) \subseteq Present(store'), manifest' = manifest, watch' = watch,
           scrub'[s].clean =>
             \/ store'[k] # None /\ \A d \in manifest : d <= store'[k].ver
             \/ store'[k] = store[k] /\ \A d \in manifest : d <= scrub[s].recs[k].ver
    PROVE  MissesFew(s)'
<1>a. /\ watch[s].must \subseteq Keys /\ watch'[s].goal \subseteq manifest'
      /\ \A j \in watch'[s].must : store'[j] # None
  BY DEF MissesFew, TypeOK, Watch, Present
<1>b. Budget(s)' = Budget(s)
  BY DEF Budget
<1> SUFFICES ASSUME scrub'[s].clean, NEW j \in watch[s].must, Served(s, j)
             PROVE  Served(s, j)'
  <2>1. scrub'[s].clean => Lost(s)' \subseteq Lost(s)
    BY DEF Lost
  <2>2. Budget(s) <= Budget(s)'
    BY <1>b, BudgetType
  <2>. QED
    BY <1>a, <2>1, <2>2, FewKept
<1>1. /\ store[j] # None /\ (Upgraded(j, watch[s].goal) \/ ToCome(s, j))
      /\ watch[s].goal \subseteq manifest
  BY DEF MissesFew, Served
<1>2. j \in Keys
  BY <1>a
<1>3. ASSUME store'[j] = store[j], Rank(store, j) >= scrub[s].offset + BatchSize,
             scrub[s].full, ListsInKeyOrder
      PROVE  ToCome(s, j)'
  <2>1. /\ Rank(store, j) <= Rank(store', j)
        /\ Rank(store, j) \in Nat /\ Rank(store', j) \in Nat
    BY <1>2, RankGrows, BelowFacts
  <2>2. scrub[s].offset \in Nat
    BY DEF TypeOK, ScrubState
  <2>3. Rank(store', j) >= scrub'[s].offset + BatchSize
    BY <1>3, <2>1, <2>2
  <2>. QED
    BY <1>3, <2>3 DEF ToCome
<1>4. CASE store'[j] # None /\ \A d \in manifest : d <= store'[j].ver
  BY <1>1, <1>4 DEF Upgraded, Served
<1>5. CASE store'[j] = store[j] /\ (j = k => \A d \in manifest : d <= scrub[s].recs[k].ver)
  <2>1. CASE Upgraded(j, watch[s].goal)
    BY <1>1, <1>5, <2>1 DEF Upgraded, Served
  <2>2. CASE /\ scrub[s].full /\ ListsInKeyOrder
             /\ Rank(store, j) >= scrub[s].offset + BatchSize
    BY <1>3, <1>5, <2>2 DEF Served
  <2>3. CASE scrub[s].recs[j] # None /\ scrub[s].recs[j] = store[j]
    <3>1. CASE j = k
      BY <1>1, <1>5, <2>3, <3>1 DEF Upgraded, Served
    <3>2. CASE j # k
      <4>1. scrub'[s].recs[j] = scrub[s].recs[j]
        BY <1>2, <3>2
      <4>. QED
        BY <1>1, <1>5, <2>3, <4>1 DEF ToCome, Served
    <3>. QED
      BY <3>1, <3>2
  <2>. QED
    BY <1>1, <2>1, <2>2, <2>3 DEF ToCome
<1>. QED
  BY <1>2, <1>4, <1>5

\* What the scrubber's save does to the rows.
LEMMA ScrubSaveFacts ==
    ASSUME WholeSeconds, TypeOK, NEW s \in Scrubbers, NEW k \in Keys, ScrubSave(s, k)
    PROVE  /\ \A j \in Keys \ {k} : store'[j] = store[j]
           /\ Present(store) \subseteq Present(store')
           /\ \/ store'[k] # None /\ \A d \in manifest : d <= store'[k].ver
              \/ store'[k] = store[k] /\ ~Matches(store, k, scrub[s].recs[k].rev)
<1> DEFINE rec == scrub[s].recs[k]
           new == EvolveRecord(rec, manifest)
<1>1. store \in Rows /\ rec \in Record /\ manifest \in Timelines
  BY StoredIsRecord DEF ScrubSave, NextRow, Present, ScrubState, TypeOK, Rows
<1>2. new \in Record /\ new.rev = rec.rev /\ \A d \in manifest : d <= new.ver
  BY <1>1, EvolveRecordType, EvolvedAll
<1>3. store' = SaveConditional(store, k, new, new.rev)
  BY <1>2 DEF ScrubSave
<1>4. CASE ~Matches(store, k, new.rev)
  <2>1. store' = store
    BY <1>1, <1>2, <1>3, <1>4, SaveConditionalType
  <2>. QED
    BY <1>2, <1>4, <2>1
<1>5. CASE Matches(store, k, new.rev)
  <2>1. store' = Save(store, k, new)
    BY <1>1, <1>2, <1>3, <1>5, SaveConditionalType
  <2> HIDE DEF new
  <2>2. /\ store'[k] # None /\ store'[k].ver = new.ver
        /\ \A j \in Keys \ {k} : store'[j] = store[j]
    BY <1>1, <1>2, <2>1, SaveType
  <2>3. Present(store) \subseteq Present(store')
    BY <2>2 DEF Present
  <2>. QED
    BY <1>2, <2>2, <2>3
<1>. QED
  BY <1>4, <1>5

\* What taking row k from the page in hand does to the scrubbers.
LEMMA RowTaken ==
    ASSUME TypeOK, NEW s \in Scrubbers, NEW k \in Keys, NEW clean \in BOOLEAN,
           \/ scrub' = [scrub EXCEPT ![s].recs[k] = None, ![s].clean = clean]
           \/ scrub' = [scrub EXCEPT ![s].recs[k] = None] /\ clean = scrub[s].clean
    PROVE  /\ scrub'[s].pc = scrub[s].pc /\ scrub'[s].offset = scrub[s].offset
           /\ scrub'[s].full = scrub[s].full /\ scrub'[s].clean = clean
           /\ \A j \in Keys \ {k} : scrub'[s].recs[j] = scrub[s].recs[j]
           /\ \A t \in Scrubbers \ {s} : scrub'[t] = scrub[t]
<1>1. scrub \in [Scrubbers -> ScrubState] /\ scrub[s] \in ScrubState
  BY DEF TypeOK
<1>2. scrub[s].recs \in [Keys -> StoredRecord \cup {None}]
  BY <1>1 DEF ScrubState
<1>3. CASE scrub' = [scrub EXCEPT ![s].recs[k] = None, ![s].clean = clean]
  BY <1>1, <1>2, <1>3 DEF ScrubState
<1>4. CASE scrub' = [scrub EXCEPT ![s].recs[k] = None] /\ clean = scrub[s].clean
  BY <1>1, <1>2, <1>4 DEF ScrubState
<1>. QED
  BY <1>3, <1>4

\* A client's Save of rec over row k.
LEMMA ClientSaveMissesFew ==
    ASSUME TypeOK, TypeOK', ScrubInv, NEW k \in Keys, NEW rec \in Record,
           store' = Save(store, k, rec), WatchSave(k, rec),
           scrub' = scrub, manifest' = manifest
    PROVE  ScrubInv'
<1> SUFFICES ASSUME NEW s \in Scrubbers PROVE MissesFew(s)'
  BY DEF ScrubInv
<1>1. MissesFew(s) /\ watch[s] \in Watch /\ watch[s].goal \subseteq manifest
  BY DEF ScrubInv, MissesFew, TypeOK
<1>2. /\ store'[k] # None /\ store'[k].ver = rec.ver
      /\ \A j \in Keys \ {k} : store'[j] = store[j]
  BY SaveType DEF TypeOK, Rows
<1>3. Present(store) \subseteq Present(store')
  BY <1>2 DEF Present
<1>4. /\ watch'[s].goal = watch[s].goal /\ watch'[s].gone = watch[s].gone
      /\ watch'[s].must =
           IF \A d \in watch[s].goal : d <= rec.ver THEN watch[s].must
           ELSE watch[s].must \ {k}
  <2> DEFINE must == IF \A d \in watch[s].goal : d <= rec.ver
                     THEN watch[s].must ELSE watch[s].must \ {k}
             forked == IF Matches(store, k, rec.rev) \/ scrub[s].pc # "rows"
                       THEN watch[s].forked ELSE watch[s].forked \cup {k}
  <2>1. watch'[s] = [watch[s] EXCEPT !.must = must, !.forked = forked]
    BY DEF WatchSave
  <2> HIDE DEF must, forked
  <2>2. /\ watch'[s].goal = watch[s].goal /\ watch'[s].gone = watch[s].gone
        /\ watch'[s].must = must
    BY <1>1, <2>1 DEF Watch
  <2>. QED
    BY <2>2 DEF must
<1>5. watch[s].must \subseteq Keys /\ watch'[s].gone >= watch[s].gone
  BY <1>1, <1>4 DEF Watch
<1>6. ASSUME NEW j \in watch'[s].must
      PROVE  \/ store'[j] = store[j]
             \/ store'[j] # None /\ \A d \in watch'[s].goal : d <= store'[j].ver
  <2>1. j \in Keys
    BY <1>4, <1>5
  <2>2. CASE j # k
    BY <1>2, <2>1, <2>2
  <2>3. CASE j = k
    BY <1>2, <1>4, <2>3
  <2>. QED
    BY <2>2, <2>3
<1>. QED
  BY <1>1, <1>3, <1>4, <1>5, <1>6, Bystander

\* Scrubbers other than s in a step of s.
LEMMA OthersMissFew ==
    ASSUME TypeOK, TypeOK', ScrubInv, NEW s \in Scrubbers, manifest' = manifest,
           Present(store) \subseteq Present(store'),
           \A j \in Keys : \/ store'[j] = store[j]
                           \/ store'[j] # None /\ \A d \in manifest : d <= store'[j].ver,
           \A t \in Scrubbers \ {s} : scrub'[t] = scrub[t] /\ watch'[t] = watch[t]
    PROVE  \A t \in Scrubbers \ {s} : MissesFew(t)'
<1> SUFFICES ASSUME NEW t \in Scrubbers \ {s} PROVE MissesFew(t)'
  OBVIOUS
<1>1. /\ MissesFew(t) /\ watch[t].goal \subseteq manifest /\ watch[t].must \subseteq Keys
      /\ scrub'[t] = scrub[t] /\ watch'[t] = watch[t] /\ watch'[t].gone >= watch[t].gone
  BY DEF ScrubInv, MissesFew, TypeOK, Watch
<1>2. \A k \in watch'[t].must :
        \/ store'[k] = store[k]
        \/ store'[k] # None /\ \A d \in watch'[t].goal : d <= store'[k].ver
  BY <1>1
<1>. QED
  BY <1>1, <1>2, Bystander

\* A page that is listed: a row still to come is on it, or behind a full one.
LEMMA ListMissesFew ==
    ASSUME HonoursOffset, BatchSize # 0, TypeOK, TypeOK', NEW s \in Scrubbers,
           MissesFew(s), ScrubList(s)
    PROVE  MissesFew(s)'
<1>0. PICK page \in Pages(store, scrub[s].offset, BatchSize) :
        scrub' = [scrub EXCEPT ![s] =
             IF page = {} THEN [@ EXCEPT !.pc = "done"]
             ELSE [@ EXCEPT
                     !.pc = "rows",
                     !.recs = [k \in Keys |-> IF k \in page THEN store[k] ELSE None],
                     !.full = Cardinality(page) >= BatchSize]]
  BY DEF ScrubList
<1> DEFINE recs == [k \in Keys |-> IF k \in page THEN store[k] ELSE None]
           full == Cardinality(page) >= BatchSize
           listed == [scrub[s] EXCEPT !.pc = "rows", !.recs = recs, !.full = full]
<1>1. scrub[s] \in ScrubState /\ watch[s] \in Watch /\ scrub[s].offset \in Nat
  BY DEF TypeOK, ScrubState
<1>2. /\ watch'[s].goal = watch[s].goal /\ watch'[s].must = watch[s].must
      /\ watch'[s].gone = watch[s].gone /\ store' = store /\ manifest' = manifest
  BY <1>1 DEF ScrubList, TypeOK, Watch
<1>3. /\ scrub'[s].clean = scrub[s].clean /\ scrub'[s].offset = scrub[s].offset
      /\ \/ page = {} /\ scrub'[s].pc = "done"
         \/ /\ page # {} /\ scrub'[s].pc = "rows"
            /\ scrub'[s].recs = recs /\ scrub'[s].full = full
  <2>1. CASE page = {}
    <3>1. scrub'[s] = [scrub[s] EXCEPT !.pc = "done"]
      BY <1>0, <2>1, Zenon DEF TypeOK
    <3>. QED
      BY <1>1, <2>1, <3>1 DEF ScrubState
  <2>2. CASE page # {}
    <3>1. scrub'[s] = listed
      BY <1>0, <2>2, Zenon DEF TypeOK
    <3> HIDE DEF recs, full
    <3>. QED
      BY <1>1, <2>2, <3>1 DEF ScrubState
  <2>. QED
    BY <2>1, <2>2
<1> HIDE DEF listed
<1>4. scrub[s].pc = "list" /\ (full => page # {})
  <2>1. Cardinality({}) = 0 /\ ~(0 >= BatchSize)
    BY FS_EmptySet
  <2>2. ASSUME page = {} PROVE ~full
    BY <2>1, <2>2
  <2>. QED
    BY <2>2 DEF ScrubList
\* A row still to come is on the page, or behind it, or rows come in any order and
\* there is another page to come.
<1>5. ASSUME NEW k \in watch[s].must, ToCome(s, k)
      PROVE  \/ ~ListsInKeyOrder /\ scrub'[s].pc = "rows" /\ scrub'[s].full
             \/ ToCome(s, k)'
  <2>1. k \in Keys /\ store[k] # None /\ k \in Present(store)
    BY <1>1 DEF MissesFew, Watch, Present
  <2>2. ASSUME k \in page PROVE ToCome(s, k)'
    <3>1. scrub'[s].pc = "rows" /\ scrub'[s].recs[k] = store[k]
      BY <1>3, <2>1, <2>2
    <3>. QED
      BY <1>2, <2>1, <3>1 DEF ToCome
  <2>3. CASE ListsInKeyOrder
    <3>1. page = Page(store, scrub[s].offset, BatchSize)
      BY <1>1, <2>3, PageLength
    <3>0. Rank(store, k) \in Nat
      BY <2>1, BelowFacts
    <3>2. Rank(store, k) \in Nat /\ Rank(store, k) >= scrub[s].offset
      BY <1>1, <1>4, <1>5, <2>3, <3>0 DEF ToCome
    <3>3. CASE Rank(store, k) >= scrub[s].offset + BatchSize
      <4>1. Cardinality(page) >= BatchSize
        BY <1>1, <2>1, <3>1, <3>3, PageFull
      <4>2. scrub'[s].full /\ scrub'[s].pc = "rows"
        BY <1>3, <1>4, <4>1
      <4>. QED
        BY <1>2, <1>3, <2>3, <3>3, <4>2 DEF ToCome
    <3>4. CASE ~(Rank(store, k) >= scrub[s].offset + BatchSize)
      <4>1. Rank(store, k) \in scrub[s].offset .. scrub[s].offset + BatchSize - 1
        BY <1>1, <3>2, <3>4
      <4>2. k \in page
        BY <2>1, <3>1, <4>1 DEF Page
      <4>. QED
        BY <2>2, <4>2
    <3>. QED
      BY <3>3, <3>4
  <2>4. CASE ~ListsInKeyOrder
    <3>1. scrub[s].offset = 0
      BY <1>4, <1>5, <2>4 DEF ToCome
    <3>2. CASE full
      BY <1>3, <1>4, <2>4, <3>2
    <3>3. CASE ~full
      <4>1. page = Present(store)
        BY <3>1, <3>3, OnlyPage
      <4>. QED
        BY <2>1, <2>2, <4>1
    <3>. QED
      BY <3>2, <3>3
  <2>. QED
    BY <2>3, <2>4
<1> HIDE DEF recs, full
<1>6. CASE ~ListsInKeyOrder /\ scrub'[s].pc = "rows" /\ scrub'[s].full
  <2>1. Budget(s)' = Cardinality(Keys)
    BY <1>6 DEF Budget
  <2>. QED
    BY <1>2, <1>3, <1>4, <2>1, FewKept DEF MissesFew
<1>7. CASE ~(~ListsInKeyOrder /\ scrub'[s].pc = "rows" /\ scrub'[s].full)
  <2>1. \A k \in watch[s].must : Served(s, k) => Served(s, k)'
    BY <1>2, <1>5, <1>7 DEF Served, Upgraded
  <2>2. Lost(s)' \subseteq Lost(s)
    BY <1>2, <2>1 DEF Lost
  <2>3. Budget(s)' = Budget(s)
    BY <1>2, <1>3, <1>4, <1>7 DEF Budget
  <2>4. Budget(s) <= Budget(s)'
    BY <2>3, BudgetType
  <2>. QED
    BY <1>2, <1>3, <1>4, <2>2, <2>4, FewKept DEF MissesFew
<1>. QED
  BY <1>6, <1>7

\* A page that is finished: what is still to come begins where the next one does.
LEMMA PageEndMissesFew ==
    ASSUME BatchSize # 0, TypeOK, TypeOK', NEW s \in Scrubbers, MissesFew(s),
           ScrubPageEnd(s)
    PROVE  MissesFew(s)'
<1> DEFINE offset == NextOffset(scrub[s].offset)
           next == [scrub[s] EXCEPT !.pc = "list", !.offset = offset, !.full = FALSE]
<1>1. scrub[s] \in ScrubState /\ watch[s] \in Watch /\ scrub[s].offset \in Nat
  BY DEF TypeOK, ScrubState
<1>2. /\ store' = store /\ manifest' = manifest /\ watch' = watch
      /\ scrub[s].pc = "rows" /\ \A k \in Keys : scrub[s].recs[k] = None
  BY DEF ScrubPageEnd, Present
<1>3. /\ scrub'[s].clean = scrub[s].clean
      /\ scrub[s].full => scrub'[s].pc = "list" /\ scrub'[s].offset = offset
      /\ ~scrub[s].full => scrub'[s].pc = "done" /\ scrub'[s].offset = scrub[s].offset
  <2>1. CASE scrub[s].full
    <3>1. scrub'[s] = next
      BY <2>1, Zenon DEF ScrubPageEnd, TypeOK
    <3> HIDE DEF offset
    <3>2. /\ scrub'[s].clean = scrub[s].clean
          /\ scrub'[s].pc = "list" /\ scrub'[s].offset = offset
      BY <1>1, <3>1 DEF ScrubState
    <3>. QED
      BY <2>1, <3>2
  <2>2. CASE ~scrub[s].full
    <3>1. scrub'[s] = [scrub[s] EXCEPT !.pc = "done"]
      BY <2>2, Zenon DEF ScrubPageEnd, TypeOK
    <3>. QED
      BY <1>1, <2>2, <3>1 DEF ScrubState
  <2>. QED
    BY <2>1, <2>2
<1> HIDE DEF next
<1>4. ASSUME NEW k \in watch[s].must, Served(s, k), ListsInKeyOrder \/ ~scrub[s].full
      PROVE  Served(s, k)'
  <2>1. k \in Keys /\ store[k] # None
    BY <1>1 DEF MissesFew, Watch
  <2>2. CASE Upgraded(k, watch[s].goal)
    BY <1>2, <2>2 DEF Upgraded, Served
  <2>3. CASE ToCome(s, k)
    <3>1. /\ scrub[s].full /\ ListsInKeyOrder
          /\ Rank(store, k) >= scrub[s].offset + BatchSize
      BY <1>2, <2>1, <2>3 DEF ToCome
    <3>2. Rank(store, k) \in Nat /\ Rank(store, k) < MaxOffset
      BY <2>1, BelowFacts
    <3>3. offset = scrub[s].offset + BatchSize
      BY <1>1, <3>1, <3>2 DEF NextOffset
    <3>. QED
      BY <1>2, <1>3, <3>1, <3>3 DEF ToCome, Served
  <2>. QED
    BY <1>4, <2>2, <2>3 DEF Served
<1> HIDE DEF offset
<1>5. CASE ListsInKeyOrder \/ ~scrub[s].full
  <2>1. Lost(s)' \subseteq Lost(s)
    BY <1>2, <1>4, <1>5 DEF Lost
  <2>2. Budget(s)' = Budget(s)
    BY <1>2, <1>3, <1>5 DEF Budget
  <2>3. Budget(s) <= Budget(s)'
    BY <2>2, BudgetType
  <2>. QED
    BY <1>2, <1>3, <2>1, <2>3, FewKept DEF MissesFew
<1>6. CASE ~ListsInKeyOrder /\ scrub[s].full
  <2>1. Budget(s) = Cardinality(Keys)
    BY <1>2, <1>6 DEF Budget
  <2>2. Budget(s)' = Cardinality(Keys) \/ Cardinality(Keys) = 0
    <3>1. CASE Cardinality(Keys) = 0
      BY <3>1
    <3>2. CASE Cardinality(Keys) # 0
      <4>1. offset # 0
        BY <1>1, <3>2, CountType DEF offset, NextOffset
      <4>. QED
        BY <1>3, <1>6, <4>1 DEF Budget
    <3>. QED
      BY <3>1, <3>2
  <2>3. Budget(s)' = Cardinality(Keys)
    BY <1>6, <2>2 DEF Budget
  <2>. QED
    BY <1>2, <1>3, <2>3, FewKept DEF MissesFew
<1>. QED
  BY <1>5, <1>6

LEMMA NextScrubInv ==
    ASSUME HonoursOffset, WholeSeconds, BatchSize # 0
    PROVE  TypeOK /\ ScrubInv /\ [Next]_vars => ScrubInv'
<1> SUFFICES ASSUME TypeOK, ScrubInv, [Next]_vars PROVE ScrubInv'
  OBVIOUS
<1>a. TypeOK'
  BY NextTypeOK
<1>b. ASSUME NEW s \in Scrubbers
      PROVE  /\ MissesFew(s) /\ scrub[s] \in ScrubState /\ watch[s] \in Watch
             /\ watch[s].goal \subseteq manifest /\ watch[s].must \subseteq Keys
  BY DEF ScrubInv, MissesFew, TypeOK, Watch
\* Clients
<1>1. ASSUME NEW k \in Keys, Insert(k) PROVE ScrubInv'
  <2>1. NewRecord(writes') \in Record
    BY <1>1, <1>a, NewRecordType DEF Insert, TypeOK, WriteIds
  <2>. QED
    BY <1>1, <1>a, <2>1, ClientSaveMissesFew DEF Insert
<1>2. ASSUME NEW k \in Keys, DeleteRecord(k) PROVE ScrubInv'
  <2> SUFFICES ASSUME NEW s \in Scrubbers PROVE MissesFew(s)'
    BY DEF ScrubInv
  <2>1. scrub' = scrub /\ manifest' = manifest /\ \A j \in Keys \ {k} : store'[j] = store[j]
    BY <1>2 DEF DeleteRecord, Delete, TypeOK
  <2>2. watch'[s] = [watch[s] EXCEPT !.must = @ \ {k}, !.gone = GoneAfter(s)]
    BY <1>2 DEF DeleteRecord, WatchDelete, GoneAfter
  <2>3. /\ watch'[s].goal = watch[s].goal /\ watch'[s].must = watch[s].must \ {k}
        /\ watch'[s].gone = GoneAfter(s)
    BY <1>b, <2>2 DEF Watch
  <2>4. CASE ListsInKeyOrder /\ Running(s)
    <3>1. watch'[s].gone = OneMore(watch[s].gone)
      BY <2>3, <2>4 DEF GoneAfter
    <3>. QED
      BY <1>a, <1>b, <2>1, <2>3, <2>4, <3>1, DeleteLosesOne
  <2>5. CASE ~(ListsInKeyOrder /\ Running(s))
    <3>1. watch'[s].gone >= watch[s].gone
      <4>1. watch[s].gone \in Nat /\ Cardinality(Keys) \in Nat
        BY <1>b, CountType DEF Watch
      <4>. QED
        BY <2>3, <4>1 DEF GoneAfter, OneMore
    <3>2. \A j \in watch'[s].must : store'[j] = store[j]
      BY <1>b, <2>1, <2>3
    <3>. QED
      BY <1>a, <1>b, <2>1, <2>3, <2>5, <3>1, <3>2, Bystander
  <2>. QED
    BY <2>4, <2>5
<1>3. ASSUME NEW w \in Writers, UpdateSave(w) PROVE ScrubInv'
  <2>1. PICK k \in Keys, rec \in Record : k = req[w].key /\ rec = req[w].held
    BY <1>3 DEF UpdateSave, Request, TypeOK
  <2>2. store' = Save(store, k, rec) /\ WatchSave(k, rec)
    BY <1>3, <2>1 DEF UpdateSave
  <2>. QED
    BY <1>3, <1>a, <2>2, ClientSaveMissesFew DEF UpdateSave
\* Steps that leave the rows and the scrubbers alone
<1>4. ASSUME store' = store, scrub' = scrub, manifest' = manifest, watch' = watch
      PROVE  ScrubInv'
  <2> SUFFICES ASSUME NEW s \in Scrubbers PROVE MissesFew(s)'
    BY DEF ScrubInv
  <2>1. watch'[s].gone >= watch[s].gone
    BY <1>4, <1>b DEF Watch
  <2>. QED
    BY <1>4, <1>a, <1>b, <2>1, Bystander
<1>5. ASSUME NEW timeline \in Timelines, MountTimeline(timeline) PROVE ScrubInv'
  <2> SUFFICES ASSUME NEW s \in Scrubbers PROVE MissesFew(s)'
    BY DEF ScrubInv
  <2>1. watch'[s] = [watch[s] EXCEPT !.goal = @ \cap timeline]
    BY <1>5 DEF MountTimeline
  <2>2. /\ watch'[s].goal = watch[s].goal \cap timeline
        /\ watch'[s].must = watch[s].must /\ watch'[s].gone >= watch[s].gone
    BY <1>b, <2>1 DEF Watch
  <2>3. store' = store /\ scrub' = scrub /\ manifest' = timeline
    BY <1>5 DEF MountTimeline
  <2>. QED
    BY <1>a, <1>b, <2>2, <2>3, Bystander
\* Nobody scrubs
<1>6. ASSUME NEW s \in Scrubbers, scrub'[s] = IdleScrub, watch'[s] = NoWatch
      PROVE  MissesFew(s)'
  BY <1>6 DEF MissesFew, IdleScrub, NoWatch
<1>7. CASE Crash
  BY <1>6, <1>7 DEF Crash, ScrubInv
\* A scrubber
<1>8. ASSUME NEW s \in Scrubbers, ScrubStart(s) \/ ScrubStep(s), MissesFew(s)',
             \/ store' = store
             \/ \E k \in Keys : ScrubSave(s, k)
      PROVE  ScrubInv'
  <2>1. /\ manifest' = manifest
        /\ \A t \in Scrubbers \ {s} : scrub'[t] = scrub[t] /\ watch'[t] = watch[t]
    BY <1>8
    DEF ScrubStart, ScrubStep, ScrubList, ScrubListFails, ScrubPageEnd, ScrubSkip,
        ScrubSave, ScrubSaveFails, TypeOK
  <2>2. /\ Present(store) \subseteq Present(store')
        /\ \A j \in Keys : \/ store'[j] = store[j]
                           \/ store'[j] # None /\ \A d \in manifest : d <= store'[j].ver
    BY <1>8, ScrubSaveFacts
  <2>3. \A t \in Scrubbers \ {s} : MissesFew(t)'
    BY <1>a, <2>1, <2>2, OthersMissFew
  <2>. QED
    BY <1>8, <2>3 DEF ScrubInv
<1>9. ASSUME NEW s \in Scrubbers, ScrubStart(s) PROVE ScrubInv'
  <2>1. /\ scrub'[s] = [IdleScrub EXCEPT !.pc = "list"]
        /\ watch'[s] = [NoWatch EXCEPT !.goal = manifest, !.must = Present(store)]
        /\ store' = store /\ manifest' = manifest
    BY <1>9 DEF ScrubStart, TypeOK
  <2>2. /\ scrub'[s].pc = "list" /\ scrub'[s].offset = 0
        /\ watch'[s].goal = manifest /\ watch'[s].must = Present(store)
    BY <2>1 DEF IdleScrub, NoWatch
  <2>3. Lost(s)' = {}
    BY <2>2 DEF Lost, Served, ToCome
  <2>4. Cardinality(Lost(s)') <= Budget(s)'
    BY <1>a, <2>3, BudgetType, FS_EmptySet
  <2>5. MissesFew(s)'
    BY <2>1, <2>2, <2>4 DEF MissesFew, Present
  <2>. QED
    BY <1>8, <1>9, <2>1, <2>5
<1>10. ASSUME NEW s \in Scrubbers, ScrubList(s) PROVE ScrubInv'
  BY <1>8, <1>10, <1>a, <1>b, ListMissesFew DEF ScrubList, ScrubStep
<1>11. ASSUME NEW s \in Scrubbers, ScrubListFails(s) PROVE ScrubInv'
  <2>1. scrub'[s] = IdleScrub /\ watch'[s] = NoWatch /\ store' = store
    BY <1>11 DEF ScrubListFails, TypeOK
  <2>. QED
    BY <1>6, <1>8, <1>11, <2>1 DEF ScrubStep
<1>12. ASSUME NEW s \in Scrubbers, ScrubPageEnd(s) PROVE ScrubInv'
  BY <1>8, <1>12, <1>a, <1>b, PageEndMissesFew DEF ScrubPageEnd, ScrubStep
<1>13. ASSUME NEW s \in Scrubbers, NEW k \in Keys, ScrubSkip(s, k) PROVE ScrubInv'
  <2>1. /\ scrub[s].pc = "rows" /\ store' = store /\ manifest' = manifest /\ watch' = watch
        /\ scrub' = [scrub EXCEPT ![s].recs[k] = None]
    BY <1>13 DEF ScrubSkip, NextRow
  <2>2. \A d \in manifest : d <= scrub[s].recs[k].ver
    <3>1. scrub[s].recs[k].ver \in Nat
      BY <1>13, <1>b DEF ScrubSkip, NextRow, Present, ScrubState, StoredRecord
    <3>2. manifest \subseteq Nat /\ Pending(scrub[s].recs[k], manifest) = {}
      BY <1>13 DEF ScrubSkip, TypeOK, Dates
    <3>. QED
      BY <3>1, <3>2 DEF Pending
  <2>3. scrub[s].clean \in BOOLEAN
    BY <1>b DEF ScrubState
  <2>4. MissesFew(s)'
    BY <1>a, <1>b, <2>1, <2>2, <2>3, RowTaken, RowDone
  <2>. QED
    BY <1>8, <1>13, <2>1, <2>4 DEF ScrubStep
<1>14. ASSUME NEW s \in Scrubbers, NEW k \in Keys, ScrubSave(s, k) PROVE ScrubInv'
  <2> DEFINE matches == Matches(store, k, scrub[s].recs[k].rev)
  <2>1. PICK clean \in BOOLEAN : clean = (scrub[s].clean /\ matches)
    OBVIOUS
  <2>2. scrub' = [scrub EXCEPT ![s].recs[k] = None, ![s].clean = clean]
    BY <1>14, <2>1, Zenon DEF ScrubSave
  <2>3. scrub[s].pc = "rows" /\ manifest' = manifest /\ watch' = watch
    BY <1>14 DEF ScrubSave, NextRow
  <2>4. /\ \A j \in Keys \ {k} : store'[j] = store[j]
        /\ Present(store) \subseteq Present(store')
        /\ clean => store'[k] # None /\ \A d \in manifest : d <= store'[k].ver
    BY <1>14, <2>1, ScrubSaveFacts
  <2>5. /\ scrub'[s].pc = scrub[s].pc /\ scrub'[s].offset = scrub[s].offset
        /\ scrub'[s].full = scrub[s].full /\ scrub'[s].clean = clean
        /\ \A j \in Keys \ {k} : scrub'[s].recs[j] = scrub[s].recs[j]
    BY <2>2, RowTaken
  <2>6. scrub'[s].clean => scrub[s].clean
    BY <2>1, <2>5
  <2>7. MissesFew(s)'
    <3> HIDE DEF matches
    <3>. QED
      BY <1>a, <1>b, <2>3, <2>4, <2>5, <2>6, RowDone
  <2>. QED
    BY <1>8, <1>14, <2>7 DEF ScrubStep
<1>15. ASSUME NEW s \in Scrubbers, NEW k \in Keys, ScrubSaveFails(s, k) PROVE ScrubInv'
  <2>1. /\ scrub[s].pc = "rows" /\ store' = store /\ manifest' = manifest /\ watch' = watch
        /\ scrub' = [scrub EXCEPT ![s].recs[k] = None, ![s].clean = FALSE]
    BY <1>15 DEF ScrubSaveFails, NextRow
  <2>2. scrub'[s].pc = scrub[s].pc /\ scrub'[s].clean = FALSE
    BY <2>1, RowTaken
  <2>3. MissesFew(s)'
    BY <1>b, <2>1, <2>2 DEF MissesFew
  <2>. QED
    BY <1>8, <1>15, <2>1, <2>3 DEF ScrubStep
<1>16. ASSUME NEW w \in Writers, NEW k \in Keys, UpdateRead(w, k) PROVE ScrubInv'
  BY <1>4, <1>16 DEF UpdateRead
<1>17. ASSUME NEW w \in Writers, UpdateFails(w) PROVE ScrubInv'
  BY <1>4, <1>17 DEF UpdateFails
<1>18. CASE UNCHANGED vars
  BY <1>4, <1>18 DEF vars
<1>. QED
  BY <1>1, <1>2, <1>3, <1>5, <1>7, <1>9, <1>10, <1>11, <1>12, <1>13, <1>14,
     <1>15, <1>16, <1>17, <1>18 DEF Next, Live, ScrubStep

\* A migration that ends clean has upgraded every record it found, whatever clients
\* insert and update between its pages.  On a driver whose rows come in key order it
\* may have missed one for each record deleted meanwhile; on Postgres, whose rows come
\* in any order, it has missed none if there was one page only.  The driver has to
\* honour the offset and the timelines to be dated in whole seconds; a batch size of
\* 0, which cms_bizdef_evolve passes on unchecked (core/services/cms_tools.go:312-315),
\* would end without having seen a row.
THEOREM MissesAtMost      ==
    ASSUME HonoursOffset, WholeSeconds, BatchSize # 0
    PROVE  Spec => []ScrubComplete
<1>1. Init => ScrubInv
  <2> SUFFICES ASSUME Init, NEW s \in Scrubbers PROVE MissesFew(s)
    BY DEF ScrubInv
  <2>1. scrub[s].pc = "idle" /\ watch[s].goal = {} /\ watch[s].must = {}
    BY DEF Init, IdleScrub, NoWatch
  <2>. QED
    BY <2>1 DEF MissesFew
<1>2. TypeOK /\ ScrubInv /\ [Next]_vars => ScrubInv'
  BY NextScrubInv
<1>3. TypeOK /\ ScrubInv => ScrubComplete
  <2> SUFFICES ASSUME TypeOK, ScrubInv, NEW s \in Scrubbers,
                      scrub[s].pc = "done", scrub[s].clean
               PROVE  Cardinality(Missed(s)) <= MayMiss(s)
    BY DEF ScrubComplete
  <2>1. Missed(s) = Lost(s)
    BY DEF Missed, Lost, Served, ToCome
  <2>2. MayMiss(s) = Budget(s)
    BY DEF MayMiss, Budget
  <2>. QED
    BY <2>1, <2>2 DEF ScrubInv, MissesFew
<1>. QED
  BY <1>1, <1>2, <1>3, TypeCorrect, PTL DEF Spec

=============================================================================
