----------------------------- MODULE Engagement ------------------------------
(***************************************************************************)
(* Likes, visits, bookmarks: core/services/engagement_service.go.          *)
(*                                                                         *)
(* Track (one call per HTTP request) puts a status on a bounded channel    *)
(* and returns; one worker goroutine collects statuses in a buffer, and    *)
(* flushes the buffer to the record store when it is full or when a ticker *)
(* fires.  Flushing a status writes two records that no transaction ties   *)
(* together: the user's own status, then the counter of the post.          *)
(*                                                                         *)
(* Data abstraction.  There is one post.  A status is what Track was given *)
(* and its place in the order of the channel; the namespaces of statuses   *)
(* and counters are functions on their keys.                               *)
(***************************************************************************)
EXTENDS Integers, Sequences, FiniteSets

CONSTANTS
    Users,
    Types,      \* engagement types
    Visit,      \* the one that counts a user's first status only
    Handlers,   \* request goroutines that may be in Track at a time
    ChanCap,    \* capacity of EngagementService.ch (100)
    FlushSize,  \* length at which the buffer is flushed (50)
    MaxTracks,  \* bound: calls of Track in a behaviour
    None

Status == [id : Nat \ {0}, user : Users, type : Types, active : BOOLEAN]
Call == [user : Users, type : Types, active : BOOLEAN]

ASSUME EngagementAssumption ==
    /\ Visit \in Types
    /\ ChanCap \in Nat \ {0}
    /\ FlushSize \in Nat \ {0}
    /\ MaxTracks \in Nat
    /\ None \notin Call

VARIABLES
    calls,    \* what each handler is in Track with, or None
    ch,       \* EngagementService.ch
    buffer,   \* the statuses the worker holds and is not done with
    worker,   \* "select", "status" (about to write one), "count" (its counter)
    status,   \* stored statuses: the id of the one stored last, 0 for none
    count,    \* stored counters
    sent,     \* number of statuses put on the channel: names them
    tracked,  \* history: the sum of what they add to each counter
    clean,    \* history: no write has failed and the process has not died
    sighted   \* history: no read of a status has failed

vars == <<calls, ch, buffer, worker, status, count, sent, tracked, clean, sighted>>

\* What a status adds to its counter.
Delta(s) == IF s.active THEN 1 ELSE -1

\* What the statuses of a sequence add to the counter of a type.
Due(seq, t) ==
    LET of(a) == {i \in DOMAIN seq : seq[i].type = t /\ seq[i].active = a}
    IN  Cardinality(of(TRUE)) - Cardinality(of(FALSE))

-----------------------------------------------------------------------------
(* Track *)

\* A request arrives.
TrackCall(h, call) ==
    /\ calls[h] = None
    /\ sent + Cardinality({g \in Handlers : calls[g] # None}) < MaxTracks
    /\ calls' = [calls EXCEPT ![h] = call]
    /\ UNCHANGED <<ch, buffer, worker, status, count, sent, tracked, clean, sighted>>

\* "s.ch <- status": the handler waits for room, whatever becomes of the request.
TrackSend(h) ==
    /\ calls[h] # None
    /\ Len(ch) < ChanCap
    /\ sent' = sent + 1
    /\ LET s == [id |-> sent', user |-> calls[h].user, type |-> calls[h].type,
                 active |-> calls[h].active]
       IN  /\ ch' = Append(ch, s)
           /\ tracked' = [tracked EXCEPT ![s.type] = @ + Delta(s)]
    /\ calls' = [calls EXCEPT ![h] = None]
    /\ UNCHANGED <<buffer, worker, status, count, clean, sighted>>

-----------------------------------------------------------------------------
(* The worker *)

Full(statuses) == Len(statuses) >= FlushSize

Receive ==
    /\ worker = "select"
    /\ ch # <<>>
    /\ buffer' = Append(buffer, Head(ch))
    /\ ch' = Tail(ch)
    /\ worker' = IF Full(buffer') THEN "status" ELSE "select"
    /\ UNCHANGED <<calls, status, count, sent, tracked, clean, sighted>>

\* Mutant of Tick: the ticker, too, waits for a full buffer.
TickWhenFull ==
    /\ worker = "select"
    /\ Full(buffer)
    /\ worker' = "status"
    /\ UNCHANGED <<calls, ch, buffer, status, count, sent, tracked, clean, sighted>>

Tick ==
    /\ worker = "select"
    /\ buffer # <<>>
    /\ worker' = "status"
    /\ UNCHANGED <<calls, ch, buffer, status, count, sent, tracked, clean, sighted>>

\* Mutants of EndOf: the loop is not left, the buffer is not emptied.
EndOfNever == buffer' = Tail(buffer) /\ worker' = "status"
EndOfKeepsLast ==
    IF Len(buffer) = 1 THEN buffer' = buffer /\ worker' = "select"
    ELSE buffer' = Tail(buffer) /\ worker' = "status"

\* The worker is done with the status at hand: the next one, or "buffer = nil".
EndOf ==
    /\ buffer' = Tail(buffer)
    /\ worker' = IF Tail(buffer) = <<>> THEN "select" ELSE "status"

\* Mutant of IsCounted: every visit counts.
IsCountedAlways(s, inserted) == TRUE

IsCounted(s, inserted) == s.type # Visit \/ inserted

\* flush, one status: Get, then Save.  The error of Get is dropped and the
\* status then passes for a new one (found is FALSE).
FlushStatus(found) ==
    /\ worker = "status"
    /\ buffer # <<>>
    /\ LET s == Head(buffer)
           stored == status[<<s.user, s.type>>] # 0
       IN  /\ status' = [status EXCEPT ![<<s.user, s.type>>] = s.id]
           /\ IF IsCounted(s, ~(stored /\ found))
              THEN worker' = "count" /\ buffer' = buffer
              ELSE EndOf
    /\ sighted' = (sighted /\ found)
    /\ UNCHANGED <<calls, ch, count, sent, tracked, clean>>

\* Mutant of FlushStatusFails: the rest of the batch goes with it ("return").
FlushStatusFailsReturns ==
    /\ worker = "status"
    /\ buffer # <<>>
    /\ buffer' = <<>>
    /\ worker' = "select"
    /\ clean' = FALSE
    /\ UNCHANGED <<calls, ch, status, count, sent, tracked, sighted>>

\* Save fails: the status is dropped ("continue").
FlushStatusFails ==
    /\ worker = "status"
    /\ buffer # <<>>
    /\ EndOf
    /\ clean' = FALSE
    /\ UNCHANGED <<calls, ch, status, count, sent, tracked, sighted>>

\* flushCounts: read the counter and write it back.
FlushCount ==
    /\ worker = "count"
    /\ LET s == Head(buffer) IN count' = [count EXCEPT ![s.type] = @ + Delta(s)]
    /\ EndOf
    /\ UNCHANGED <<calls, ch, status, sent, tracked, clean, sighted>>

\* Its Get or its Save fails: the counter never hears of the status.
FlushCountFails ==
    /\ worker = "count"
    /\ EndOf
    /\ clean' = FALSE
    /\ UNCHANGED <<calls, ch, status, count, sent, tracked, sighted>>

\* The process dies and starts again.
Crash ==
    /\ calls' = [h \in Handlers |-> None]
    /\ ch' = <<>>
    /\ buffer' = <<>>
    /\ worker' = "select"
    /\ clean' = FALSE
    /\ UNCHANGED <<status, count, sent, tracked, sighted>>

-----------------------------------------------------------------------------

Init ==
    /\ calls = [h \in Handlers |-> None]
    /\ ch = <<>>
    /\ buffer = <<>>
    /\ worker = "select"
    /\ status = [k \in Users \X Types |-> 0]
    /\ count = [t \in Types |-> 0]
    /\ sent = 0
    /\ tracked = [t \in Types |-> 0]
    /\ clean = TRUE
    /\ sighted = TRUE

Worker ==
    \/ Receive \/ Tick
    \/ \E found \in BOOLEAN : FlushStatus(found)
    \/ FlushStatusFails \/ FlushCount \/ FlushCountFails

Next ==
    \/ \E h \in Handlers : TrackSend(h) \/ \E call \in Call : TrackCall(h, call)
    \/ Worker
    \/ Crash

Spec == Init /\ [][Next]_vars

\* The worker never blocks for good.  Go serves the senders that wait on a
\* channel in the order they came, so a handler is not overtaken for ever.
FairSpec ==
    /\ Spec
    /\ WF_vars(Worker)
    /\ \A h \in Handlers : SF_vars(TrackSend(h))

-----------------------------------------------------------------------------
(* Properties *)

\* Every variable has its type, and the worker works on a status it has.
TypeOK ==
    /\ calls \in [Handlers -> Call \cup {None}]
    /\ ch \in Seq(Status)
    /\ buffer \in Seq(Status)
    /\ worker \in {"select", "status", "count"}
    /\ worker # "select" => buffer # <<>>
    /\ status \in [Users \X Types -> Nat]
    /\ count \in [Types -> Int]
    /\ sent \in Nat
    /\ tracked \in [Types -> Int]
    /\ clean \in BOOLEAN
    /\ sighted \in BOOLEAN

\* Through channel, buffer and flushes every status is counted once: as long as
\* no write fails and the process lives, a counter plus what is still on its
\* way to it is the sum of what was tracked.
CountsConserved ==
    clean => \A t \in Types \ {Visit} :
                 count[t] + Due(buffer, t) + Due(ch, t) = tracked[t]

Visitors == {u \in Users : status[<<u, Visit>>] # 0}

\* A visit is counted when the user's status is new: whatever fails or dies on
\* the way, the counter stays within the number of visitors, unless a read of
\* a status failed.
VisitsCountVisitors ==
    sighted => count[Visit] \in -Cardinality(Visitors) .. Cardinality(Visitors)

\* What a crash can take: a full channel and one batch.
OneBatchAtRisk == Len(ch) <= ChanCap /\ Len(buffer) <= FlushSize

\* A user's stored status is never replaced by one tracked before it.
StatusNeverGoesBack ==
    [][\A k \in Users \X Types : status[k] <= status'[k]]_vars

\* Channel, buffer, batches and ticker do not show: to the store they are one
\* line of statuses, worked off from the front, one at a time and none twice; a
\* failed write costs the status at hand and no other.
Queue == INSTANCE EngagementQueue WITH
    pending <- buffer \o ch,
    stage <- IF worker = "count" THEN "count" ELSE "status"

ImplementsQueue == Queue!Spec

\* A request that tracks an engagement is answered, though the channel is
\* bounded and the handler does not watch its context.
TrackReturns == \A h \in Handlers : calls[h] # None ~> calls[h] = None

InFlight(id) == \E i \in DOMAIN buffer : buffer[i].id = id

\* No status waits in the buffer for ever, however few follow it.
EverythingFlushed == \A id \in 1 .. MaxTracks : InFlight(id) ~> ~InFlight(id)

=============================================================================
