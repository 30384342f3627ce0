------------------------------- MODULE Access -------------------------------
(***************************************************************************)
(* Who may see and change which record, row and field                      *)
(* (core/services/permission_service.go, core/api/rbac_api.go), as the     *)
(* requests of core/api/entity_api.go go through it in                     *)
(* core/services/entity_service.go.  A request passes HasAccess, narrows a *)
(* listing by the user's row permissions, reads the records, and asks for  *)
(* its field permissions last; each of the four is a call of the store     *)
(* that may fail, and the permissions may change between any two.          *)
(***************************************************************************)
EXTENDS Integers, FiniteSets

CONSTANTS
    Entity,        \* the entity the requests are about
    Owner,         \* an entity with a collection of Entity
    Link,          \* the field of Entity that collection goes by
    Level,         \* permission level of each attribute: [attribute -> Int]
    Looks,         \* the entity each attribute of type Lookup points to
    Extra,         \* fields a record has beside the attributes
    Values,        \* what a field may hold
    Bodies,        \* request bodies: functions of some fields to Values
    Ids,           \* records
    PermRows,      \* rows DocPerm may come to hold
    UserPermRows,  \* rows UserPermission may come to hold
    Roles,         \* roles in each user's token: [user -> SUBSET role]
    Procs,         \* requests at one time
    MaxFaults,     \* bound: failed calls of the store
    MaxChanges,    \* bound: changes of the permission tables
    MaxRequests,   \* bound: requests
    None

Attributes == DOMAIN Level
Fields == Attributes \cup Extra
\* What the theorems assume of the constants: bodies hold fields, link filters
\* go by an attribute, and None is neither a body nor a set of permissions.
AccessAssumption ==
    /\ Link \in Attributes
    /\ \A b \in Bodies : DOMAIN b \subseteq Fields /\ \A f \in DOMAIN b : b[f] \in Values
    /\ \A r \in UserPermRows : r.value \in Values
    /\ None \notin Bodies /\ \A may \in SUBSET (Attributes \X {"read", "write"}) : may # None
    /\ MaxFaults \in Nat /\ MaxChanges \in Nat /\ MaxRequests \in Nat

Verbs == {"List", "Get", "Create", "Update", "Delete",
          "CollectionList", "CollectionInsert", "Junction", "RBAC"}

VARIABLES perms, userPerms, table, req, faults, changes, requests

vars == <<perms, userPerms, table, req, faults, changes, requests>>
tables == <<perms, userPerms, table>>

\* recs and rec: what the request read; may: its field permissions, None before they
\* are read.  History: granted, all that was granted at some moment of the
\* request; blind, the read of the field permissions failed; shown and wrote,
\* the fields it answered with and the fields it stored from its body.
Idle == [pc |-> "idle", user |-> None, verb |-> None, id |-> None, owner |-> None,
         body |-> None, filters |-> {}, recs |-> {}, rec |-> None, may |-> None,
         granted |-> {}, blind |-> FALSE, shown |-> {}, wrote |-> {}]

-----------------------------------------------------------------------------
(* PermissionService *)

HasAccess(rows, roles, entity, action) ==
    \/ roles \cap {"sa", "admin"} # {}
    \/ \E r \in rows : /\ r.parent = entity /\ r.level = 0 /\ action \in r.may
                       /\ r.role \in roles

\* The rights at a level add up over the rows of the user's roles.
AtLevel(rows, roles, entity, level) ==
    UNION {r.may \cap {"read", "write"} :
             r \in {x \in rows : x.parent = entity /\ x.level = level /\ x.role \in roles}}

\* Pairs of an attribute and a right.  Role admin has none of its own here.
GetFieldPermissions(rows, roles, entity) ==
    {p \in Attributes \X {"read", "write"} :
        "sa" \in roles \/ p[2] \in AtLevel(rows, roles, entity, Level[p[1]])}

\* One filter for each Lookup attribute whose target the user is limited on.
GetRowFilters(rows, user) ==
    {<<a, {r.value : r \in {x \in rows : x.user = user /\ x.allow = Looks[a]}}>> :
        a \in {b \in Attributes : \E x \in rows : x.user = user /\ x.allow = Looks[b]}}

\* A field without an entry in the map is open; without a map, all are.
Open(may, right) == IF may = None THEN Fields
                    ELSE {f \in Fields : f \in Attributes => <<f, right>> \in may}

-----------------------------------------------------------------------------
(* Requests *)

Action(verb) == CASE verb \in {"List", "Get", "CollectionList"} -> "read"
                  [] verb = "Create" -> "create"
                  [] verb = "Delete" -> "delete"
                  [] OTHER -> "write"

\* The name in the route: a collection is asked for under its owner's, and
\* the routes of RBACApi carry none.
Resource(verb) == CASE verb \in {"CollectionList", "CollectionInsert"} -> Owner
                    [] verb = "RBAC" -> None
                    [] OTHER -> Entity

To(p, pc) == req' = [req EXCEPT ![p].pc = pc]
Quiet == UNCHANGED <<faults, changes, requests>>
Fault == faults < MaxFaults /\ faults' = faults + 1 /\ UNCHANGED <<changes, requests>>
RolesOf(p) == Roles[req[p].user]

\* A record read at its key, evolved on the way (module EntityEvolution).
Stored(id) == table[id] # None

Request(p, user, verb, id, owner, body) ==
    /\ req[p].pc \in {"idle", "done"} /\ requests < MaxRequests
    /\ requests' = requests + 1 /\ UNCHANGED <<tables, faults, changes>>
    /\ req' = [req EXCEPT ![p] = [Idle EXCEPT
            !.pc = "access", !.user = user, !.verb = verb, !.id = id, !.owner = owner,
            !.body = body, !.granted = GetFieldPermissions(perms, Roles[user], Entity)]]

RBACMiddleware(p) ==
    /\ req[p].pc = "access"
    /\ LET verb == req[p].verb
       IN IF Resource(verb) = None \/ ~HasAccess(perms, RolesOf(p), Resource(verb), Action(verb))
          THEN To(p, "done")
          ELSE To(p, CASE verb \in {"List", "CollectionList"} -> "rows"
                       [] verb \in {"Get", "Update"} -> "get"
                       [] verb \in {"Create", "CollectionInsert"} -> "fields"
                       [] verb = "Delete" -> "delete"
                       [] verb = "Junction" -> "done")
    /\ UNCHANGED tables /\ Quiet

\* The link filter of a collection is the caller's; the error of the row
\* permissions is dropped, and no filter comes with it.
RowFilters(p) ==
    /\ req[p].pc = "rows"
    /\ \E failed \in BOOLEAN :
          /\ IF failed THEN Fault ELSE Quiet
          /\ req' = [req EXCEPT ![p].pc = "get", ![p].filters =
                (IF failed THEN {} ELSE GetRowFilters(userPerms, req[p].user))
                  \cup (IF req[p].verb = "CollectionList" THEN {<<Link, {req[p].owner}>>} ELSE {})]
    /\ UNCHANGED tables

Matching(filters) == {id \in Ids : Stored(id) /\ \A f \in filters : table[id][f[1]] \in f[2]}

\* List, and the Get of Single and Update.
Read(p) ==
    /\ req[p].pc = "get"
    /\ LET r == req[p]
       IN IF r.verb \in {"List", "CollectionList"}
          THEN req' = [req EXCEPT ![p].pc = "fields", ![p].recs = Matching(r.filters)]
          ELSE IF Stored(r.id)
               THEN req' = [req EXCEPT ![p].pc = "fields", ![p].recs = {r.id}, ![p].rec = table[r.id]]
               ELSE To(p, "done")
    /\ UNCHANGED tables /\ Quiet

\* The error of GetFieldPermissions is dropped: a nil map leaves all open.
FieldPermissions(p) ==
    /\ req[p].pc = "fields"
    /\ LET may == GetFieldPermissions(perms, RolesOf(p), Entity)
           next == IF req[p].verb \in {"Create", "CollectionInsert", "Update"} THEN "save" ELSE "answer"
       IN \/ Quiet /\ req' = [req EXCEPT ![p].pc = next, ![p].may = may]
          \/ Fault /\ req' = [req EXCEPT ![p].pc = next, ![p].may = None, ![p].blind = TRUE]
    /\ UNCHANGED tables

\* What the caller may not write stays as read, or out of a new record, and
\* so does its link to the owner.  The answer is read again by Single.
Save(p) ==
    /\ req[p].pc = "save"
    /\ LET r == req[p]
           base == IF r.verb = "Update" THEN r.rec ELSE [f \in Fields |-> None]
           linked == [f \in DOMAIN r.body \cup {Link} |-> IF f = Link THEN r.owner ELSE r.body[f]]
           body == IF r.verb = "CollectionInsert" THEN linked ELSE r.body
           taken == DOMAIN body \cap Open(r.may, "write")
       IN /\ table' = [table EXCEPT ![r.id] = [f \in Fields |-> IF f \in taken THEN body[f] ELSE base[f]]]
          /\ req' = [req EXCEPT ![p].pc = "get", ![p].verb = "Get", ![p].may = None,
                                ![p].wrote = taken]
    /\ UNCHANGED <<perms, userPerms>> /\ Quiet

\* Mutant of Answer: every field of a record is shown.
AnswerUnfiltered(p) ==
    /\ req[p].pc = "answer"
    /\ req' = [req EXCEPT ![p].pc = "done", ![p].shown = IF req[p].recs = {} THEN {} ELSE Fields]
    /\ UNCHANGED tables /\ Quiet

Answer(p) ==
    /\ req[p].pc = "answer"
    /\ req' = [req EXCEPT ![p].pc = "done",
                          ![p].shown = IF req[p].recs = {} THEN {} ELSE Open(req[p].may, "read")]
    /\ UNCHANGED tables /\ Quiet

Delete(p) ==
    /\ req[p].pc = "delete" /\ To(p, "done")
    /\ table' = [table EXCEPT ![req[p].id] = None]
    /\ UNCHANGED <<perms, userPerms>> /\ Quiet

\* Any other call of the store fails, and the request with it.
Fail(p) ==
    /\ req[p].pc \in {"access", "get", "save", "delete"} /\ Fault
    /\ To(p, "done") /\ UNCHANGED tables

-----------------------------------------------------------------------------
(* The permission tables: rows of two more entities, saved and deleted by *)
(* requests like those above.                                             *)

Change(rows, users) ==
    /\ changes < MaxChanges /\ changes' = changes + 1
    /\ perms' = rows /\ userPerms' = users /\ UNCHANGED <<table, faults, requests>>
    /\ req' = [p \in Procs |->
            IF req[p].pc \in {"idle", "done"} THEN req[p]
            ELSE [req[p] EXCEPT !.granted = @ \cup GetFieldPermissions(rows, RolesOf(p), Entity)]]

SavePermission(row) == row \notin perms /\ Change(perms \cup {row}, userPerms)
DeletePermission(row) == row \in perms /\ Change(perms \ {row}, userPerms)
SaveUserPermission(row) == row \notin userPerms /\ Change(perms, userPerms \cup {row})
DeleteUserPermission(row) == row \in userPerms /\ Change(perms, userPerms \ {row})

-----------------------------------------------------------------------------
Init ==
    /\ perms \in SUBSET PermRows /\ userPerms = {}
    /\ table = [id \in Ids |-> None]
    /\ req = [p \in Procs |-> Idle]
    /\ faults = 0 /\ changes = 0 /\ requests = 0

Next ==
    \/ \E p \in Procs :
          \/ \E user \in DOMAIN Roles, verb \in Verbs, id \in Ids, owner \in Values, body \in Bodies :
                Request(p, user, verb, id, owner, body)
          \/ RBACMiddleware(p) \/ RowFilters(p) \/ Read(p) \/ FieldPermissions(p)
          \/ Save(p) \/ Answer(p) \/ Delete(p) \/ Fail(p)
    \/ \E row \in PermRows : SavePermission(row) \/ DeletePermission(row)
    \/ \E row \in UserPermRows : SaveUserPermission(row) \/ DeleteUserPermission(row)

Spec == Init /\ [][Next]_vars

-----------------------------------------------------------------------------
(* Properties *)

TypeOK ==
    /\ perms \subseteq PermRows /\ userPerms \subseteq UserPermRows
    /\ table \in [Ids -> [Fields -> Values \cup {None}] \cup {None}]
    /\ \A p \in Procs : /\ req[p].verb \in Verbs \cup {None}
                         /\ req[p].granted \subseteq Attributes \X {"read", "write"}
                         /\ req[p].shown \cup req[p].wrote \subseteq Fields
                         /\ req[p].pc = "save" => req[p].body # None
    /\ faults \in 0..MaxFaults /\ changes \in 0..MaxChanges /\ requests \in 0..MaxRequests

\* A request answers with no attribute, and stores no attribute from its
\* body, that the roles of its user were not granted at some moment of the
\* request; one whose read of the field permissions failed is let through.
OnlyWhatWasGranted ==
    \A p \in Procs : req[p].blind
        \/ (req[p].shown \X {"read"} \cup req[p].wrote \X {"write"}) \cap (Attributes \X {"read", "write"})
              \subseteq req[p].granted

=============================================================================
