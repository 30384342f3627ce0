--------------------------- MODULE EngagementQueue ---------------------------
(***************************************************************************)
(* What EngagementService promises of a tracked engagement, with no word   *)
(* of channels, buffers, tickers and batches: the accepted statuses form   *)
(* one line.  The first one in it is worked off in two steps, the user's   *)
(* own record and then the counter of the post, or is dropped; no other is *)
(* touched before that.  Statuses are lost together only when the process  *)
(* dies, and then all of them are.                                         *)
(***************************************************************************)
EXTENDS Integers, Sequences

CONSTANTS Users, Types, Visit, Status

VARIABLES
    pending,  \* the accepted statuses that are not worked off
    stage,    \* what is next for the first of them: "status" or "count"
    status,   \* the users' own records
    count     \* the counters

vars == <<pending, stage, status, count>>

Init ==
    /\ pending = <<>>
    /\ stage = "status"
    /\ status = [k \in Users \X Types |-> 0]
    /\ count = [t \in Types |-> 0]

\* One more status, at the end.
Accept ==
    /\ pending' # <<>>
    /\ LET s == pending'[Len(pending')]
       IN  s \in Status /\ pending' = Append(pending, s)
    /\ UNCHANGED <<stage, status, count>>

\* The first status leaves the line.
Leave == pending' = Tail(pending) /\ stage' = "status"

\* Its user's record is written.  It goes on to the counter, but for a visit of
\* a user who has visited before.
Record ==
    /\ stage = "status"
    /\ pending # <<>>
    /\ LET s == Head(pending)
       IN  /\ status' = [status EXCEPT ![<<s.user, s.type>>] = s.id]
           /\ \/ pending' = pending /\ stage' = "count"
              \/ s.type = Visit /\ status[<<s.user, s.type>>] # 0 /\ Leave
    /\ UNCHANGED count

Count ==
    /\ stage = "count"
    /\ pending # <<>>
    /\ LET s == Head(pending)
       IN  count' = [count EXCEPT ![s.type] = @ + IF s.active THEN 1 ELSE -1]
    /\ Leave
    /\ UNCHANGED status

Drop ==
    /\ pending # <<>>
    /\ Leave
    /\ UNCHANGED <<status, count>>

LoseAll ==
    /\ pending' = <<>>
    /\ stage' = "status"
    /\ UNCHANGED <<status, count>>

Next == Accept \/ Record \/ Count \/ Drop \/ LoseAll

Spec == Init /\ [][Next]_vars

=============================================================================
