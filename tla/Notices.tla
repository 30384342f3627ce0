------------------------------ MODULE Notices -------------------------------
(***************************************************************************)
(* The small services that keep one kind of record each: notifications     *)
(* (core/services/notification_service.go), comments (comment_service.go), *)
(* the audit log (audit_service.go) and checkouts (commerce_service.go),   *)
(* with the handlers of core/api that call them.  Each operation is one or *)
(* more calls of the store, which may fail; those of other requests come   *)
(* in between, and a Save replaces the whole record.                       *)
(***************************************************************************)
EXTENDS Integers, FiniteSets

CONSTANTS
    Users,
    Notes,         \* ids of notifications, each fresh when it is sent
    Comments,      \* ids of comments: new ones, and those in a body
    Products,      \* what a checkout may name
    Prices,        \* prices a product may have
    Procs,         \* requests at one time
    MaxRequests,   \* bound: requests
    MaxFaults,     \* bound: failed calls of the store
    None

\* What the theorems assume of the constants.
NoticesAssumption ==
    /\ None \notin [user : Users, read : BOOLEAN] /\ Prices \subseteq Nat
    /\ MaxRequests \in Nat /\ MaxFaults \in Nat

Admin == "admin"   \* whom CommentApi takes every caller for

VARIABLES
    notes,      \* [Notes -> [user, read] or None]
    comments,   \* [Comments -> [by, deleted] or None]
    audit,      \* how many audit records there are
    price,      \* [Products -> price, or None when the product is gone]
    checkouts,  \* checkouts stored: [items, total]
    req, requests, faults,
    asked,      \* history: notifications their owner asked to be read
    cleared     \* history: those a MarkAllAsRead without a fault was given

vars == <<notes, comments, audit, price, checkouts, req, requests, faults, asked, cleared>>
others == <<comments, audit, price, checkouts>>

Idle == [pc |-> "idle", user |-> None, id |-> None, read |-> None, left |-> {},
         given |-> {}, spoiled |-> FALSE, total |-> 0]

Begin(p, local) ==
    /\ req[p].pc = "idle" /\ requests < MaxRequests /\ requests' = requests + 1
    /\ req' = [req EXCEPT ![p] = local] /\ UNCHANGED faults
Done(p) == req' = [req EXCEPT ![p] = Idle]
Step == UNCHANGED <<requests, faults>>
Fault == faults < MaxFaults /\ faults' = faults + 1 /\ UNCHANGED requests

\* A call whose error ends the request.
Fail(p) == /\ req[p].pc \notin {"idle", "rest"} /\ Fault /\ Done(p)
           /\ UNCHANGED <<notes, others, asked, cleared>>

-----------------------------------------------------------------------------
(* Notifications *)

Send(id, user) ==
    /\ notes[id] = None
    /\ notes' = [notes EXCEPT ![id] = [user |-> user, read |-> FALSE]]
    /\ UNCHANGED <<others, req, requests, faults, asked, cleared>>

Unread(user) == {id \in Notes : notes[id] = [user |-> user, read |-> FALSE]}

MarkAsRead(p, user, id) ==
    /\ Begin(p, [Idle EXCEPT !.pc = "note", !.user = user, !.id = id])
    /\ UNCHANGED <<notes, others, asked, cleared>>

\* Mutant of MarkGet: anybody's notification will do.
MarkGetAnyones(p) ==
    /\ req[p].pc = "note" /\ Step
    /\ LET n == notes[req[p].id]
       IN IF n = None
          THEN Done(p) /\ UNCHANGED asked
          ELSE /\ req' = [req EXCEPT ![p].pc = "mark", ![p].read = n]
               /\ asked' = IF n.user = req[p].user THEN asked \cup {req[p].id} ELSE asked
    /\ UNCHANGED <<notes, others, cleared>>

MarkGet(p) ==
    /\ req[p].pc = "note" /\ Step
    /\ LET n == notes[req[p].id]
       IN IF n = None \/ n.user # req[p].user
          THEN Done(p) /\ UNCHANGED asked
          ELSE /\ req' = [req EXCEPT ![p].pc = "mark", ![p].read = n]
               /\ asked' = asked \cup {req[p].id}
    /\ UNCHANGED <<notes, others, cleared>>

MarkSave(p) ==
    /\ req[p].pc = "mark" /\ Step /\ Done(p)
    /\ notes' = [notes EXCEPT ![req[p].id] = [req[p].read EXCEPT !.read = TRUE]]
    /\ UNCHANGED <<others, asked, cleared>>

MarkAllAsRead(p, user) ==
    /\ Begin(p, [Idle EXCEPT !.pc = "all", !.user = user])
    /\ UNCHANGED <<notes, others, asked, cleared>>

MarkAllList(p) ==
    /\ req[p].pc = "all" /\ Step
    /\ LET found == Unread(req[p].user)
       IN /\ req' = [req EXCEPT ![p].pc = "rest", ![p].left = found, ![p].given = found]
          /\ asked' = asked \cup found
    /\ UNCHANGED <<notes, others, cleared>>

\* Each record as it was listed; the error of a Save is not looked at.
MarkAllSave(p, id) ==
    /\ req[p].pc = "rest" /\ id \in req[p].left
    /\ \/ Step /\ req' = [req EXCEPT ![p].left = @ \ {id}]
          /\ notes' = [notes EXCEPT ![id] = [user |-> req[p].user, read |-> TRUE]]
       \/ Fault /\ req' = [req EXCEPT ![p].left = @ \ {id}, ![p].spoiled = TRUE]
          /\ UNCHANGED notes
    /\ UNCHANGED <<others, asked, cleared>>

MarkAllReturns(p) ==
    /\ req[p].pc = "rest" /\ req[p].left = {} /\ Step /\ Done(p)
    /\ cleared' = IF req[p].spoiled THEN cleared ELSE cleared \cup req[p].given
    /\ UNCHANGED <<notes, others, asked>>

-----------------------------------------------------------------------------
(* Comments.  A body with an id replaces the comment of that id, mark of   *)
(* deletion included.                                                      *)

SaveComment(id) ==
    /\ requests < MaxRequests /\ requests' = requests + 1
    /\ comments' = [comments EXCEPT ![id] = [by |-> Admin, deleted |-> FALSE]]
    /\ UNCHANGED <<notes, audit, price, checkouts, req, faults, asked, cleared>>

DeleteComment(p, id) ==
    /\ Begin(p, [Idle EXCEPT !.pc = "comment", !.id = id])
    /\ UNCHANGED <<notes, others, asked, cleared>>

DeleteSingle(p) ==
    /\ req[p].pc = "comment" /\ Step
    /\ LET c == comments[req[p].id]
       IN IF c = None \/ c.by # Admin THEN Done(p)
          ELSE req' = [req EXCEPT ![p].pc = "delete", ![p].read = c]
    /\ UNCHANGED <<notes, others, asked, cleared>>

DeleteSave(p) ==
    /\ req[p].pc = "delete" /\ Step /\ Done(p)
    /\ comments' = [comments EXCEPT ![req[p].id] = [req[p].read EXCEPT !.deleted = TRUE]]
    /\ UNCHANGED <<notes, audit, price, checkouts, asked, cleared>>

\* What List shows of them.
ListComments == {id \in Comments : comments[id] # None /\ ~comments[id].deleted}

-----------------------------------------------------------------------------
(* Audit records are only added: one for each permission of an extension   *)
(* an administrator grants or takes back.                                  *)

Log ==
    /\ requests < MaxRequests /\ requests' = requests + 1 /\ audit' = audit + 1
    /\ UNCHANGED <<notes, comments, price, checkouts, req, faults, asked, cleared>>

-----------------------------------------------------------------------------
(* Commerce *)

\* Another client sets the price of a product, or removes it.
Reprice(product, new) ==
    /\ requests < MaxRequests /\ requests' = requests + 1
    /\ price' = [price EXCEPT ![product] = new]
    /\ UNCHANGED <<notes, comments, audit, checkouts, req, faults, asked, cleared>>

CreateCheckout(p, items) ==
    /\ Begin(p, [Idle EXCEPT !.pc = "items", !.left = items, !.given = items])
    /\ UNCHANGED <<notes, others, asked, cleared>>

\* A product that is missing ends the request; nothing was stored yet.
FetchProduct(p, product) ==
    /\ req[p].pc = "items" /\ product \in req[p].left /\ Step
    /\ IF price[product] = None THEN Done(p)
       ELSE req' = [req EXCEPT ![p].left = @ \ {product}, ![p].total = @ + price[product]]
    /\ UNCHANGED <<notes, others, asked, cleared>>

InsertCheckout(p) ==
    /\ req[p].pc = "items" /\ req[p].left = {} /\ Step /\ Done(p)
    /\ checkouts' = checkouts \cup {[items |-> req[p].given, total |-> req[p].total]}
    /\ UNCHANGED <<notes, comments, audit, price, asked, cleared>>

-----------------------------------------------------------------------------
Init ==
    /\ notes = [id \in Notes |-> None] /\ comments = [id \in Comments |-> None]
    /\ audit = 0 /\ price \in [Products -> Prices] /\ checkouts = {}
    /\ req = [p \in Procs |-> Idle] /\ requests = 0 /\ faults = 0
    /\ asked = {} /\ cleared = {}

Next ==
    \/ \E p \in Procs :
          \/ \E user \in Users : MarkAllAsRead(p, user) \/ \E id \in Notes : MarkAsRead(p, user, id)
          \/ MarkGet(p) \/ MarkSave(p) \/ MarkAllList(p) \/ MarkAllReturns(p) \/ Fail(p)
          \/ \E id \in Notes : MarkAllSave(p, id)
          \/ \E id \in Comments : DeleteComment(p, id)
          \/ DeleteSingle(p) \/ DeleteSave(p) \/ InsertCheckout(p)
          \/ \E items \in SUBSET Products : CreateCheckout(p, items)
          \/ \E product \in Products : FetchProduct(p, product)
    \/ \E id \in Notes, user \in Users : Send(id, user)
    \/ \E id \in Comments : SaveComment(id)
    \/ \E product \in Products, new \in Prices \cup {None} : Reprice(product, new)
    \/ Log

Spec == Init /\ [][Next]_vars

-----------------------------------------------------------------------------
(* Properties *)

TypeOK ==
    /\ notes \in [Notes -> [user : Users, read : BOOLEAN] \cup {None}]
    /\ comments \in [Comments -> [by : {Admin}, deleted : BOOLEAN] \cup {None}]
    /\ audit \in 0..MaxRequests /\ requests \in 0..MaxRequests /\ faults \in 0..MaxFaults
    /\ price \in [Products -> Prices \cup {None}]
    /\ ListComments \subseteq Comments
    /\ asked \cup cleared \subseteq Notes

\* A notification is read only if its owner asked for it, by itself or with
\* all; and once a MarkAllAsRead has ended without a failed call, all that
\* were unread when it looked are read and stay so, whatever runs beside it.
ReadAsAsked ==
    \A id \in Notes : /\ notes[id] # None /\ notes[id].read => id \in asked
                      /\ id \in cleared => notes[id].read

=============================================================================
