----------------------------- MODULE AccessProofs -----------------------------
(***************************************************************************)
(* Proofs about Access as a part of Services, for any entity, permission   *)
(* rows, users, bodies and number of requests:                             *)
(*   AccessTypeCorrect   every variable keeps its type                     *)
(*   NothingLeaks        no request shows or stores an attribute its roles *)
(*                       were granted at no moment of it                   *)
(*   PartsTypeCorrect    the variables of all parts of Services keep their *)
(*                       types, which needs the proofs about every part    *)
(***************************************************************************)
EXTENDS ServicesProofs

Pairs == C!Attributes \X {"read", "write"}

RecordSet == [C!Fields -> AccessValues \cup {None}]

Req == [pc : {"idle", "access", "rows", "get", "fields", "save", "answer", "delete", "done"},
        user : DOMAIN AccessRoles \cup {None}, verb : C!Verbs \cup {None}, id : AccessIds \cup
            {None},
        owner : AccessValues \cup {None}, body : AccessBodies \cup {None},
        filters : SUBSET (C!Attributes \X SUBSET AccessValues),
        recs : SUBSET AccessIds, rec : RecordSet \cup {None}, may : (SUBSET Pairs) \cup {None},
        granted : SUBSET Pairs, blind : BOOLEAN, shown : SUBSET C!Fields, wrote : SUBSET C!Fields]

-----------------------------------------------------------------------------
(* The inductive invariant *)

Types ==
    /\ accessPerms \subseteq AccessPermRows /\ accessUserPerms \subseteq AccessUserPermRows
    /\ accessTable \in [AccessIds -> RecordSet \cup {None}]
    /\ accessReq \in [AccessProcs -> Req]
    /\ accessFaults \in 0..AccessMaxFaults /\ accessChanges \in 0..AccessMaxChanges
    /\ accessRequests \in 0..AccessMaxRequests

\* A request under way knows what it is about; an update has read its record.
Begun(r) ==
    /\ r.pc # "idle" => /\ r.verb \in C!Verbs /\ r.id \in AccessIds
                        /\ r.owner \in AccessValues /\ r.body \in AccessBodies
    /\ r.pc \in {"fields", "save"} /\ r.verb = "Update" => r.rec \in RecordSet
    /\ r.pc = "save" => r.verb \in {"Update", "Create", "CollectionInsert"}

\* While a request is under way its history has all that is granted now.
UpToDate(r) == r.pc \notin {"idle", "done"} =>
    C!GetFieldPermissions(accessPerms, AccessRoles[r.user], AccessEntity) \subseteq r.granted

\* The permissions a request acts by were granted.
ByGrant(r) == ~ r.blind /\ r.pc \in {"save", "answer"} => r.may # None /\ r.may \subseteq r.granted

Kept(r) == ~ r.blind =>
    (r.shown \X {"read"} \cup r.wrote \X {"write"}) \cap Pairs \subseteq r.granted

IInv == Types /\ \A p \in AccessProcs : Begun(accessReq[p]) /\ UpToDate(accessReq[p]) /\
    ByGrant(accessReq[p]) /\ Kept(accessReq[p])

-----------------------------------------------------------------------------
(* Lemmas about the operators *)

\* Field permissions are pairs of an attribute and a right.
LEMMA PermissionPairs ==
    ASSUME NEW rows, NEW roles, NEW entity
    PROVE  C!GetFieldPermissions(rows, roles, entity) \in SUBSET Pairs
BY DEF C!GetFieldPermissions, Pairs

\* What permissions open of the attributes is what they hold.
LEMMA OpenGrants ==
    ASSUME NEW may, may # None, NEW right, NEW f \in C!Open(may, right), f \in C!Attributes
    PROVE  <<f, right>> \in may
BY DEF C!Open

LEMMA OpenFields == ASSUME NEW may, NEW right PROVE C!Open(may, right) \subseteq C!Fields
BY DEF C!Open

\* The filters of a user go by attributes and hold values.
LEMMA FilterTypes ==
    ASSUME C!AccessAssumption, NEW rows, rows \subseteq AccessUserPermRows, NEW user
    PROVE  C!GetRowFilters(rows, user) \subseteq C!Attributes \X SUBSET AccessValues
BY DEF C!GetRowFilters, C!AccessAssumption

LEMMA Initially == ASSUME C!AccessAssumption, C!Init PROVE IInv
<1>1. Types
  BY DEF C!Init, Types, Req, C!Idle, C!AccessAssumption
<1>2. \A p \in AccessProcs : Begun(accessReq[p]) /\ UpToDate(accessReq[p]) /\
    ByGrant(accessReq[p]) /\ Kept(accessReq[p])
  BY DEF C!Init, C!Idle, Begun, UpToDate, ByGrant, Kept
<1>. QED
  BY <1>1, <1>2 DEF IInv

-----------------------------------------------------------------------------
(* One request moves and the permissions stay: what is left to show is the *)
(* request's new record.                                                   *)

Good(r) == r \in Req /\ Begun(r) /\ UpToDate(r) /\ ByGrant(r) /\ Kept(r)

LEMMA OneMoves ==
    ASSUME IInv, NEW p \in AccessProcs, NEW r, accessReq' = [accessReq EXCEPT ![p] = r], Good(r),
           UNCHANGED <<accessPerms, accessUserPerms>>,
           accessTable' \in [AccessIds -> RecordSet \cup {None}],
           accessFaults' \in 0..AccessMaxFaults, accessChanges' \in 0..AccessMaxChanges,
               accessRequests' \in 0..AccessMaxRequests
    PROVE  IInv'
<1>1. Types'
  BY DEF IInv, Types, Good
<1>2. ASSUME NEW q \in AccessProcs
      PROVE  (Begun(accessReq[q]) /\ UpToDate(accessReq[q]) /\ ByGrant(accessReq[q]) /\
          Kept(accessReq[q]))'
  <2>1. CASE q = p
    <3>1. accessReq'[q] = r
      BY <2>1 DEF IInv, Types
    <3>. QED
      BY <3>1 DEF Good, Begun, UpToDate, ByGrant, Kept, C!GetFieldPermissions, C!AtLevel
  <2>2. CASE q # p
    <3>1. accessReq'[q] = accessReq[q]
      BY <2>2 DEF IInv, Types
    <3>. QED
      BY <3>1 DEF IInv, Begun, UpToDate, ByGrant, Kept, C!GetFieldPermissions, C!AtLevel
  <2>. QED
    BY <2>1, <2>2
<1>. QED
  BY <1>1, <1>2 DEF IInv

\* The bounds hold through a call that fails and one that does not.
LEMMA Bounds ==
    ASSUME C!AccessAssumption, Types, C!Quiet \/ C!Fault
    PROVE  accessFaults' \in 0..AccessMaxFaults /\ accessChanges' \in 0..AccessMaxChanges /\
        accessRequests' \in 0..AccessMaxRequests
BY DEF Types, C!Quiet, C!Fault, C!AccessAssumption

-----------------------------------------------------------------------------
(* One lemma per action *)

LEMMA RequestKeeps ==
    ASSUME C!AccessAssumption, IInv, NEW p \in AccessProcs, NEW user \in DOMAIN AccessRoles,
        NEW verb \in C!Verbs,
           NEW id \in AccessIds, NEW owner \in AccessValues, NEW body \in AccessBodies,
           C!Request(p, user, verb, id, owner, body)
    PROVE  IInv'
<1> DEFINE r == [C!Idle EXCEPT
            !.pc = "access", !.user = user, !.verb = verb, !.id = id, !.owner = owner,
            !.body = body, !.granted = C!GetFieldPermissions(accessPerms, AccessRoles[user],
                AccessEntity)]
<1>1. accessReq' = [accessReq EXCEPT ![p] = r]
  BY DEF C!Request
<1>2. C!GetFieldPermissions(accessPerms, AccessRoles[user], AccessEntity) \in SUBSET Pairs
  BY PermissionPairs
<1>3. Good(r)
  BY <1>2 DEF Good, C!Idle, Req, Begun, UpToDate, ByGrant, Kept
<1>4. /\ UNCHANGED <<accessPerms, accessUserPerms>>
      /\ accessTable' \in [AccessIds -> RecordSet \cup {None}]
      /\ accessFaults' \in 0..AccessMaxFaults /\ accessChanges' \in 0..AccessMaxChanges
      /\ accessRequests' \in 0..AccessMaxRequests
  BY DEF C!Request, C!tables, IInv, Types, C!AccessAssumption
<1> HIDE DEF r
<1>. QED
  BY <1>1, <1>3, <1>4, OneMoves

\* The record of a request is a record, with the fields of Idle.
LEMMA Current == ASSUME IInv, NEW p \in AccessProcs PROVE Good(accessReq[p])
BY DEF IInv, Types, Good

\* Only the step of a request changes: it is no longer about to save.
LEMMA StepGood ==
    ASSUME NEW r, Good(r), r.pc # "idle", r.pc # "done",
           NEW pc \in {"rows", "get", "delete", "done"}
    PROVE  Good([r EXCEPT !.pc = pc])
BY DEF Good, Req, Begun, UpToDate, ByGrant, Kept

LEMMA FieldsGood ==
    ASSUME NEW r, Good(r), r.pc # "idle", r.pc # "done", r.verb # "Update"
    PROVE  Good([r EXCEPT !.pc = "fields"])
BY DEF Good, Req, Begun, UpToDate, ByGrant, Kept

\* The fields of a request's record, one at a time.
LEMMA ReqPc ==
    ASSUME NEW r \in Req, NEW pc \in {"rows", "get", "fields", "save", "answer", "delete", "done"}
    PROVE  [r EXCEPT !.pc = pc] \in Req
BY DEF Req

LEMMA ReqVerb ==
    ASSUME NEW r \in Req, NEW verb \in C!Verbs PROVE [r EXCEPT !.verb = verb] \in Req
BY DEF Req

LEMMA ReqFilters ==
    ASSUME NEW r \in Req, NEW filters \in SUBSET (C!Attributes \X SUBSET AccessValues)
    PROVE  [r EXCEPT !.filters = filters] \in Req
BY DEF Req

LEMMA ReqRecs ==
    ASSUME NEW r \in Req, NEW recs \in SUBSET AccessIds PROVE [r EXCEPT !.recs = recs] \in Req
BY DEF Req

LEMMA ReqRec ==
    ASSUME NEW r \in Req, NEW rec \in RecordSet PROVE [r EXCEPT !.rec = rec] \in Req
BY DEF Req

LEMMA ReqMay ==
    ASSUME NEW r \in Req, NEW may \in (SUBSET Pairs) \cup {None}
    PROVE  [r EXCEPT !.may = may] \in Req
BY DEF Req

LEMMA ReqBlind ==
    ASSUME NEW r \in Req, NEW blind \in BOOLEAN PROVE [r EXCEPT !.blind = blind] \in Req
BY DEF Req

LEMMA ReqWrote ==
    ASSUME NEW r \in Req, NEW wrote \in SUBSET C!Fields PROVE [r EXCEPT !.wrote = wrote] \in Req
BY DEF Req

\* A step of a request from r to s that Begun, UpToDate, ByGrant and Kept survive.
Continues(r, s) ==
    /\ r.pc \notin {"idle", "done"}
    /\ s.user = r.user /\ s.verb = r.verb /\ s.id = r.id /\ s.owner = r.owner
    /\ s.body = r.body /\ s.granted = r.granted /\ s.shown = r.shown /\ s.wrote = r.wrote
    /\ s.pc \in {"fields", "save"} /\ s.verb = "Update" => s.rec \in RecordSet
    /\ s.pc = "save" => s.verb \in {"Update", "Create", "CollectionInsert"}
    /\ ~ s.blind => ~ r.blind
    /\ ~ s.blind /\ s.pc \in {"save", "answer"} => s.may # None /\ s.may \subseteq s.granted

LEMMA StaysGood ==
    ASSUME NEW r, NEW s \in Req, Good(r), Continues(r, s)
    PROVE  Good(s)
<1>1. Begun(s)
  BY DEF Good, Continues, Begun
<1>2. UpToDate(s)
  BY DEF Good, Continues, UpToDate
<1>3. ByGrant(s)
  BY DEF Good, Continues, ByGrant
<1>4. Kept(s)
  BY DEF Good, Continues, Kept
<1>. QED
  BY <1>1, <1>2, <1>3, <1>4 DEF Good

\* The filters are read, the record, the permissions, or that fails.
LEMMA RowFiltersGood ==
    ASSUME NEW r, Good(r), r.pc = "rows",
        NEW filters \in SUBSET (C!Attributes \X SUBSET AccessValues)
    PROVE  Good([r EXCEPT !.pc = "get", !.filters = filters])
<1> DEFINE s == [r EXCEPT !.pc = "get", !.filters = filters]
<1>1. r \in Req
  BY DEF Good
<1>2. s = [[r EXCEPT !.pc = "get"] EXCEPT !.filters = filters]
  BY <1>1
<1>3. s \in Req
  BY <1>1, <1>2, ReqPc, ReqFilters
<1>4. Continues(r, s)
  BY <1>1 DEF Req, Continues
<1>5. Good(s)
  <2> HIDE DEF s
  <2>. QED
    BY <1>3, <1>4, StaysGood
<1>. QED
  BY <1>5

LEMMA ReadGood ==
    ASSUME NEW r, Good(r), r.pc = "get", NEW id \in AccessIds, NEW rec \in RecordSet
    PROVE  Good([r EXCEPT !.pc = "fields", !.recs = {id}, !.rec = rec])
<1> DEFINE s == [r EXCEPT !.pc = "fields", !.recs = {id}, !.rec = rec]
<1>1. r \in Req /\ {id} \in SUBSET AccessIds
  BY DEF Good
<1>2. s = [[[r EXCEPT !.pc = "fields"] EXCEPT !.recs = {id}] EXCEPT !.rec = rec]
  BY <1>1
<1>3. s \in Req
  BY <1>1, <1>2, ReqPc, ReqRecs, ReqRec
<1>4. Continues(r, s)
  BY <1>1 DEF Req, Continues
<1>5. Good(s)
  <2> HIDE DEF s
  <2>. QED
    BY <1>3, <1>4, StaysGood
<1>. QED
  BY <1>5

LEMMA FieldPermissionsGood ==
    ASSUME NEW r, Good(r), r.pc = "fields", NEW pc \in {"save", "answer"},
           pc = "save" => r.verb \in {"Create", "CollectionInsert", "Update"},
           NEW may \in (SUBSET Pairs) \cup {None}, NEW blind \in BOOLEAN,
           ~ blind => ~ r.blind,
           ~ blind => may # None /\ may \subseteq r.granted
    PROVE  Good([r EXCEPT !.pc = pc, !.may = may, !.blind = blind])
<1> DEFINE s == [r EXCEPT !.pc = pc, !.may = may, !.blind = blind]
<1>1. r \in Req
  BY DEF Good
<1>2. s = [[[r EXCEPT !.pc = pc] EXCEPT !.may = may] EXCEPT !.blind = blind]
  BY <1>1
<1>3. s \in Req
  BY <1>1, <1>2, ReqPc, ReqMay, ReqBlind
<1>4. r.verb = "Update" => r.rec \in RecordSet
  BY DEF Good, Begun
<1>5. Continues(r, s)
  BY <1>1, <1>4 DEF Req, Continues
<1>6. Good(s)
  <2> HIDE DEF s
  <2>. QED
    BY <1>3, <1>5, StaysGood
<1>. QED
  BY <1>6

LEMMA MiddlewareKeeps ==
    ASSUME C!AccessAssumption, IInv, NEW p \in AccessProcs, C!RBACMiddleware(p)
    PROVE  IInv'
<1> DEFINE r(pc) == [accessReq[p] EXCEPT !.pc = pc]
<1>1. Good(accessReq[p]) /\ accessReq[p].pc = "access" /\ accessReq[p].verb \in C!Verbs
  BY Current DEF C!RBACMiddleware, Good, Begun
<1>2. PICK pc : /\ accessReq' = [accessReq EXCEPT ![p] = r(pc)]
                /\ \/ pc \in {"rows", "get", "delete", "done"}
                   \/ pc = "fields" /\ accessReq[p].verb # "Update"
  BY <1>1 DEF C!RBACMiddleware, C!To, C!Verbs, C!Resource
<1>3. Good(r(pc))
  BY <1>1, <1>2, StepGood, FieldsGood
<1>4. /\ UNCHANGED <<accessPerms, accessUserPerms>>
      /\ accessTable' \in [AccessIds -> RecordSet \cup {None}]
      /\ accessFaults' \in 0..AccessMaxFaults /\ accessChanges' \in 0..AccessMaxChanges
      /\ accessRequests' \in 0..AccessMaxRequests
  BY Bounds DEF C!RBACMiddleware, C!tables, IInv, Types
<1> HIDE DEF r
<1>. QED
  BY <1>2, <1>3, <1>4, OneMoves

LEMMA RowFiltersKeeps ==
    ASSUME C!AccessAssumption, IInv, NEW p \in AccessProcs, C!RowFilters(p)
    PROVE  IInv'
<1> DEFINE r(filters) == [accessReq[p] EXCEPT !.pc = "get", !.filters = filters]
<1>1. Good(accessReq[p]) /\ accessReq[p].pc = "rows" /\ accessReq[p].owner \in AccessValues
  BY Current DEF C!RowFilters, Good, Begun
<1>2. PICK failed \in BOOLEAN :
        /\ IF failed THEN C!Fault ELSE C!Quiet
        /\ accessReq' = [accessReq EXCEPT ![p].pc = "get", ![p].filters =
                (IF failed THEN {} ELSE C!GetRowFilters(accessUserPerms, accessReq[p].user))
                  \cup (IF accessReq[p].verb = "CollectionList" THEN {<<AccessLink,
                      {accessReq[p].owner}>>} ELSE {})]
  BY DEF C!RowFilters
<1> DEFINE filters == (IF failed THEN {} ELSE C!GetRowFilters(accessUserPerms, accessReq[p].user))
                  \cup (IF accessReq[p].verb = "CollectionList" THEN {<<AccessLink,
                      {accessReq[p].owner}>>} ELSE {})
<1>3. filters \in SUBSET (C!Attributes \X SUBSET AccessValues)
  <2>1. C!GetRowFilters(accessUserPerms,
      accessReq[p].user) \subseteq C!Attributes \X SUBSET AccessValues
    BY FilterTypes DEF IInv, Types
  <2>2. <<AccessLink, {accessReq[p].owner}>> \in C!Attributes \X SUBSET AccessValues
    BY <1>1 DEF C!AccessAssumption, Pairs
  <2>. QED
    BY <2>1, <2>2
<1> HIDE DEF filters
<1>4. accessReq' = [accessReq EXCEPT ![p] = r(filters)]
  BY <1>2 DEF filters
<1>5. Good(r(filters))
  BY <1>1, <1>3, RowFiltersGood
<1>6. /\ UNCHANGED <<accessPerms, accessUserPerms>>
      /\ accessTable' \in [AccessIds -> RecordSet \cup {None}]
      /\ accessFaults' \in 0..AccessMaxFaults /\ accessChanges' \in 0..AccessMaxChanges
      /\ accessRequests' \in 0..AccessMaxRequests
  BY <1>2, Bounds DEF C!RowFilters, C!tables, IInv, Types
<1> HIDE DEF r
<1>. QED
  BY <1>4, <1>5, <1>6, OneMoves

LEMMA ReadKeeps ==
    ASSUME C!AccessAssumption, IInv, NEW p \in AccessProcs, C!Read(p)
    PROVE  IInv'
<1>1. Good(accessReq[p]) /\ accessReq[p].pc = "get" /\ accessReq[p].id \in AccessIds
  BY Current DEF C!Read, Good, Begun
<1>2. /\ UNCHANGED <<accessPerms, accessUserPerms>>
      /\ accessTable' \in [AccessIds -> RecordSet \cup {None}]
      /\ accessFaults' \in 0..AccessMaxFaults /\ accessChanges' \in 0..AccessMaxChanges
      /\ accessRequests' \in 0..AccessMaxRequests
  BY Bounds DEF C!Read, C!tables, IInv, Types
<1>3. CASE accessReq[p].verb \in {"List", "CollectionList"}
  <2> DEFINE r == [accessReq[p] EXCEPT !.pc = "fields", !.recs = C!Matching(accessReq[p].filters)]
  <2>1. accessReq' = [accessReq EXCEPT ![p] = r]
    BY <1>3 DEF C!Read
  <2>2. C!Matching(accessReq[p].filters) \in SUBSET AccessIds
    BY DEF C!Matching
  <2>3. Good(r)
    BY <1>1, <1>3, <2>2 DEF Good, Req, Begun, UpToDate, ByGrant, Kept
  <2> HIDE DEF r
  <2>. QED
    BY <1>2, <2>1, <2>3, OneMoves
<1>4. CASE accessReq[p].verb \notin {"List", "CollectionList"} /\ C!Stored(accessReq[p].id)
  <2> DEFINE r == [accessReq[p] EXCEPT !.pc = "fields", !.recs = {accessReq[p].id},
      !.rec = accessTable[accessReq[p].id]]
  <2>1. accessReq' = [accessReq EXCEPT ![p] = r]
    BY <1>4 DEF C!Read
  <2>2. accessTable[accessReq[p].id] \in RecordSet
    BY <1>1, <1>4 DEF C!Stored, IInv, Types
  <2>3. Good(r)
    BY <1>1, <2>2, ReadGood
  <2> HIDE DEF r
  <2>. QED
    BY <1>2, <2>1, <2>3, OneMoves
<1>5. CASE accessReq[p].verb \notin {"List", "CollectionList"} /\ ~ C!Stored(accessReq[p].id)
  <2> DEFINE r == [accessReq[p] EXCEPT !.pc = "done"]
  <2>1. accessReq' = [accessReq EXCEPT ![p] = r]
    BY <1>5 DEF C!Read, C!To
  <2>2. Good(r)
    BY <1>1, StepGood
  <2> HIDE DEF r
  <2>. QED
    BY <1>2, <2>1, <2>2, OneMoves
<1>. QED
  BY <1>3, <1>4, <1>5

LEMMA FieldPermissionsKeeps ==
    ASSUME C!AccessAssumption, IInv, NEW p \in AccessProcs, C!FieldPermissions(p)
    PROVE  IInv'
<1> DEFINE may == C!GetFieldPermissions(accessPerms, C!RolesOf(p), AccessEntity)
           next == IF accessReq[p].verb \in {"Create", "CollectionInsert", "Update"} THEN "save"
               ELSE "answer"
<1>1. Good(accessReq[p]) /\ accessReq[p].pc = "fields"
  BY Current DEF C!FieldPermissions, Good
<1>2. /\ UNCHANGED <<accessPerms, accessUserPerms>>
      /\ accessTable' \in [AccessIds -> RecordSet \cup {None}]
  BY DEF C!FieldPermissions, C!tables, IInv, Types
<1>3. accessFaults' \in 0..AccessMaxFaults /\ accessChanges' \in 0..AccessMaxChanges /\
    accessRequests' \in 0..AccessMaxRequests
  BY Bounds DEF C!FieldPermissions, IInv
<1>4. may \in SUBSET Pairs /\ may # None /\ may \subseteq accessReq[p].granted
  <2>1. may \in SUBSET Pairs
    BY PermissionPairs
  <2>2. may \subseteq accessReq[p].granted
    BY <1>1 DEF Good, UpToDate, C!RolesOf
  <2>. QED
    BY <2>1, <2>2 DEF C!AccessAssumption, Pairs
<1>5. next \in {"save", "answer"} /\ (next = "save" => accessReq[p].verb \in {"Create",
    "CollectionInsert", "Update"})
  OBVIOUS
<1>6. CASE accessReq' = [accessReq EXCEPT ![p].pc = next, ![p].may = may]
  <2> DEFINE r == [accessReq[p] EXCEPT !.pc = next, !.may = may]
  <2>1. accessReq' = [accessReq EXCEPT ![p] = r]
    BY <1>6
  <2>2. r = [accessReq[p] EXCEPT !.pc = next, !.may = may, !.blind = accessReq[p].blind]
    <3> HIDE DEF next, may
    <3>. QED
      BY <1>1 DEF Good, Req
  <2>3. accessReq[p].blind \in BOOLEAN
    BY <1>1 DEF Good, Req
  <2> HIDE DEF next, may
  <2>4. Good([accessReq[p] EXCEPT !.pc = next, !.may = may, !.blind = accessReq[p].blind])
    BY <1>1, <1>4, <1>5, <2>3, FieldPermissionsGood
  <2>5. Good(r)
    BY <2>2, <2>4
  <2> HIDE DEF r
  <2>. QED
    BY <1>2, <1>3, <2>1, <2>5, OneMoves
<1>7. CASE accessReq' = [accessReq EXCEPT ![p].pc = next, ![p].may = None, ![p].blind = TRUE]
  <2> DEFINE r == [accessReq[p] EXCEPT !.pc = next, !.may = None, !.blind = TRUE]
  <2>1. accessReq' = [accessReq EXCEPT ![p] = r]
    BY <1>7
  <2> HIDE DEF next, may
  <2>2. Good(r)
    BY <1>1, <1>5, FieldPermissionsGood
  <2> HIDE DEF r
  <2>. QED
    BY <1>2, <1>3, <2>1, <2>2, OneMoves
<1>. QED
  BY <1>6, <1>7 DEF C!FieldPermissions

\* What a save takes from the body is open to the caller's roles.
LEMMA SaveKeeps ==
    ASSUME C!AccessAssumption, IInv, NEW p \in AccessProcs, C!Save(p)
    PROVE  IInv'
<1> DEFINE r == accessReq[p]
           base == IF r.verb = "Update" THEN r.rec ELSE [f \in C!Fields |-> None]
           linked == [f \in DOMAIN r.body \cup {AccessLink} |-> IF f = AccessLink THEN r.owner
               ELSE r.body[f]]
           body == IF r.verb = "CollectionInsert" THEN linked ELSE r.body
           taken == DOMAIN body \cap C!Open(r.may, "write")
           saved == [f \in C!Fields |-> IF f \in taken THEN body[f] ELSE base[f]]
           next == [r EXCEPT !.pc = "get", !.verb = "Get", !.may = None, !.wrote = taken]
<1>1. /\ Good(r) /\ r.pc = "save" /\ r.id \in AccessIds /\ r.owner \in AccessValues
      /\ r.body \in AccessBodies
      /\ r.verb = "Update" => r.rec \in RecordSet
  BY Current DEF C!Save, Good, Begun
<1>2. /\ accessTable' = [accessTable EXCEPT ![r.id] = saved]
      /\ accessReq' = [accessReq EXCEPT ![p] = next]
      /\ UNCHANGED <<accessPerms, accessUserPerms>>
  BY DEF C!Save
<1>3. \A f \in DOMAIN body : body[f] \in AccessValues
  <2>1. \A f \in DOMAIN r.body : r.body[f] \in AccessValues
    BY <1>1 DEF C!AccessAssumption, Pairs
  <2>2. CASE r.verb = "CollectionInsert"
    BY <1>1, <2>1, <2>2
  <2>3. CASE r.verb # "CollectionInsert"
    BY <2>1, <2>3
  <2>. QED
    BY <2>2, <2>3
<1>4. \A f \in C!Fields : base[f] \in AccessValues \cup {None}
  BY <1>1 DEF RecordSet
<1> HIDE DEF base, body
<1>5. saved \in RecordSet
  BY <1>3, <1>4 DEF RecordSet
<1>6. accessTable' \in [AccessIds -> RecordSet \cup {None}]
  <2> HIDE DEF saved
  <2>. QED
    BY <1>1, <1>2, <1>5 DEF IInv, Types
<1>7. accessFaults' \in 0..AccessMaxFaults /\ accessChanges' \in 0..AccessMaxChanges /\
    accessRequests' \in 0..AccessMaxRequests
  BY Bounds DEF C!Save, IInv
<1>8. taken \subseteq C!Fields
  BY OpenFields
<1>9. ~ r.blind => (taken \X {"write"}) \cap Pairs \subseteq r.granted
  <2>1. SUFFICES ASSUME ~ r.blind, NEW f \in taken, f \in C!Attributes
                 PROVE  <<f, "write">> \in r.granted
    BY DEF Pairs
  <2>2. r.may # None /\ r.may \subseteq r.granted
    BY <1>1, <2>1 DEF Good, ByGrant
  <2>. QED
    BY <2>1, <2>2, OpenGrants
<1>10. Good(next)
  <2> HIDE DEF taken
  <2>0. r \in Req /\ taken \in SUBSET C!Fields
    BY <1>1, <1>8 DEF Good
  <2>1. next \in Req
    <3> DEFINE asked == [[r EXCEPT !.pc = "get"] EXCEPT !.verb = "Get"]
    <3>1. asked \in Req
      BY <2>0, ReqPc, ReqVerb DEF C!Verbs
    <3>2. next = [[asked EXCEPT !.may = None] EXCEPT !.wrote = taken]
      BY <2>0
    <3> HIDE DEF asked
    <3>. QED
      BY <2>0, <3>1, <3>2, ReqMay, ReqWrote
  <2>2. Begun(next) /\ UpToDate(next) /\ ByGrant(next)
    BY <1>1 DEF Good, Req, C!Verbs, Begun, UpToDate, ByGrant
  <2>3. ~ r.blind => (r.shown \X {"read"}) \cap Pairs \subseteq r.granted
    BY <1>1 DEF Good, Kept
  <2>4. Kept(next)
    BY <1>1, <1>9, <2>3 DEF Good, Req, Kept
  <2>. QED
    BY <2>1, <2>2, <2>4 DEF Good
<1> HIDE DEF next, r
<1>. QED
  BY <1>2, <1>6, <1>7, <1>10, OneMoves

\* What an answer shows is open to the caller's roles.
LEMMA AnswerKeeps ==
    ASSUME C!AccessAssumption, IInv, NEW p \in AccessProcs, C!Answer(p)
    PROVE  IInv'
<1> DEFINE r == accessReq[p]
           shown == IF r.recs = {} THEN {} ELSE C!Open(r.may, "read")
           next == [r EXCEPT !.pc = "done", !.shown = shown]
<1>1. Good(r) /\ r.pc = "answer"
  BY Current DEF C!Answer, Good
<1>2. accessReq' = [accessReq EXCEPT ![p] = next]
  BY DEF C!Answer
<1>3. /\ UNCHANGED <<accessPerms, accessUserPerms>>
      /\ accessTable' \in [AccessIds -> RecordSet \cup {None}]
      /\ accessFaults' \in 0..AccessMaxFaults /\ accessChanges' \in 0..AccessMaxChanges
      /\ accessRequests' \in 0..AccessMaxRequests
  BY Bounds DEF C!Answer, C!tables, IInv, Types
<1>4. shown \subseteq C!Fields
  BY OpenFields
<1>5. ~ r.blind => (shown \X {"read"}) \cap Pairs \subseteq r.granted
  <2>1. SUFFICES ASSUME ~ r.blind, NEW f \in shown, f \in C!Attributes
                 PROVE  <<f, "read">> \in r.granted
    BY DEF Pairs
  <2>2. r.may # None /\ r.may \subseteq r.granted
    BY <1>1, <2>1 DEF Good, ByGrant
  <2>3. f \in C!Open(r.may, "read")
    BY <2>1
  <2>. QED
    BY <2>1, <2>2, <2>3, OpenGrants
<1>6. Good(next)
  <2> HIDE DEF shown
  <2>1. ~ r.blind => (r.wrote \X {"write"}) \cap Pairs \subseteq r.granted
    BY <1>1 DEF Good, Kept
  <2>2. Kept(next)
    BY <1>1, <1>5, <2>1 DEF Good, Req, Kept
  <2>. QED
    BY <1>1, <1>4, <2>2 DEF Good, Req, Begun, UpToDate, ByGrant
<1> HIDE DEF next
<1>. QED
  BY <1>2, <1>3, <1>6, OneMoves

LEMMA DeleteKeeps ==
    ASSUME C!AccessAssumption, IInv, NEW p \in AccessProcs, C!Delete(p)
    PROVE  IInv'
<1> DEFINE r == [accessReq[p] EXCEPT !.pc = "done"]
<1>1. Good(accessReq[p]) /\ accessReq[p].pc = "delete"
  BY Current DEF C!Delete, Good
<1>2. accessReq' = [accessReq EXCEPT ![p] = r]
  BY DEF C!Delete, C!To
<1>3. Good(r)
  BY <1>1, StepGood
<1>4. /\ UNCHANGED <<accessPerms, accessUserPerms>>
      /\ accessTable' \in [AccessIds -> RecordSet \cup {None}]
      /\ accessFaults' \in 0..AccessMaxFaults /\ accessChanges' \in 0..AccessMaxChanges
      /\ accessRequests' \in 0..AccessMaxRequests
  BY Bounds DEF C!Delete, IInv, Types
<1> HIDE DEF r
<1>. QED
  BY <1>2, <1>3, <1>4, OneMoves

LEMMA FailKeeps ==
    ASSUME C!AccessAssumption, IInv, NEW p \in AccessProcs, C!Fail(p)
    PROVE  IInv'
<1> DEFINE r == [accessReq[p] EXCEPT !.pc = "done"]
<1>1. Good(accessReq[p]) /\ accessReq[p].pc # "idle" /\ accessReq[p].pc # "done"
  BY Current DEF C!Fail, Good
<1>2. accessReq' = [accessReq EXCEPT ![p] = r]
  BY DEF C!Fail, C!To
<1>3. Good(r)
  BY <1>1, StepGood
<1>4. /\ UNCHANGED <<accessPerms, accessUserPerms>>
      /\ accessTable' \in [AccessIds -> RecordSet \cup {None}]
      /\ accessFaults' \in 0..AccessMaxFaults /\ accessChanges' \in 0..AccessMaxChanges
      /\ accessRequests' \in 0..AccessMaxRequests
  BY Bounds DEF C!Fail, C!tables, IInv, Types
<1> HIDE DEF r
<1>. QED
  BY <1>2, <1>3, <1>4, OneMoves

\* A change of the tables adds what it grants to every history under way.
LEMMA ChangeKeeps ==
    ASSUME C!AccessAssumption, IInv, NEW rows, NEW users, rows \subseteq AccessPermRows,
           users \subseteq AccessUserPermRows, C!Change(rows, users)
    PROVE  IInv'
<1> DEFINE new(q) == [accessReq[q] EXCEPT !.granted = @ \cup C!GetFieldPermissions(rows,
    C!RolesOf(q), AccessEntity)]
<1>1. /\ accessPerms' = rows /\ accessUserPerms' = users /\ accessTable' = accessTable
      /\ accessFaults' = accessFaults /\ accessRequests' = accessRequests
      /\ accessChanges' \in 0..AccessMaxChanges
      /\ accessReq' = [q \in AccessProcs |-> IF accessReq[q].pc \in {"idle", "done"}
          THEN accessReq[q] ELSE new(q)]
  BY DEF C!Change, IInv, Types, C!AccessAssumption
<1>2. ASSUME NEW q \in AccessProcs
      PROVE  accessReq'[q] \in Req /\ (Begun(accessReq[q]) /\ UpToDate(accessReq[q]) /\
          ByGrant(accessReq[q]) /\ Kept(accessReq[q]))'
  <2>1. Good(accessReq[q])
    BY Current
  <2>2. CASE accessReq[q].pc \in {"idle", "done"}
    <3>1. accessReq'[q] = accessReq[q]
      BY <1>1, <2>2
    <3>. QED
      BY <2>1, <2>2, <3>1 DEF Good, Begun, UpToDate, ByGrant, Kept
  <2>3. CASE accessReq[q].pc \notin {"idle", "done"}
    <3> DEFINE now == C!GetFieldPermissions(rows, C!RolesOf(q), AccessEntity)
    <3>1. accessReq'[q] = new(q)
      BY <1>1, <2>3
    <3>2. now \in SUBSET Pairs
      BY PermissionPairs
    <3>3. now = C!GetFieldPermissions(accessPerms, AccessRoles[accessReq[q].user], AccessEntity)'
      <4>1. accessReq'[q].user = accessReq[q].user
        BY <2>1, <3>1 DEF Good, Req
      <4>. QED
        BY <1>1, <4>1 DEF C!RolesOf, C!GetFieldPermissions, C!AtLevel
    <3> HIDE DEF now
    <3>4. new(q) = [accessReq[q] EXCEPT !.granted = @ \cup now]
      BY DEF now
    <3> HIDE DEF new
    <3>5. accessReq'[q] \in Req
      BY <2>1, <3>1, <3>2, <3>4 DEF Good, Req
    <3>6. /\ accessReq'[q].granted = accessReq[q].granted \cup now
          /\ accessReq'[q].pc = accessReq[q].pc
          /\ accessReq'[q].may = accessReq[q].may /\ accessReq'[q].blind = accessReq[q].blind
          /\ accessReq'[q].rec = accessReq[q].rec
          /\ accessReq'[q].verb = accessReq[q].verb /\ accessReq'[q].id = accessReq[q].id
          /\ accessReq'[q].owner = accessReq[q].owner
          /\ accessReq'[q].body = accessReq[q].body /\ accessReq'[q].shown = accessReq[q].shown
          /\ accessReq'[q].wrote = accessReq[q].wrote
      BY <2>1, <3>1, <3>4 DEF Good, Req
    <3>7. Begun(accessReq[q])' /\ ByGrant(accessReq[q])' /\ Kept(accessReq[q])'
      BY <2>1, <3>6 DEF Good, Begun, ByGrant, Kept
    <3>8. UpToDate(accessReq[q])'
      BY <3>3, <3>6 DEF UpToDate
    <3>. QED
      BY <3>5, <3>7, <3>8
  <2>. QED
    BY <2>2, <2>3
<1>3. Types'
  BY <1>1, <1>2 DEF IInv, Types
<1>. QED
  BY <1>2, <1>3 DEF IInv

-----------------------------------------------------------------------------
(* The theorems *)

LEMMA Inductive == ASSUME C!AccessAssumption, IInv, [C!Next]_(C!vars) PROVE IInv'
<1>1. CASE UNCHANGED C!vars
  BY <1>1 DEF C!vars, IInv, Types, Begun, UpToDate, ByGrant, Kept, C!GetFieldPermissions, C!AtLevel
<1>2. ASSUME NEW p \in AccessProcs, NEW user \in DOMAIN AccessRoles, NEW verb \in C!Verbs,
    NEW id \in AccessIds,
             NEW owner \in AccessValues, NEW body \in AccessBodies, C!Request(p, user, verb, id,
                 owner, body)
      PROVE  IInv'
  BY <1>2, RequestKeeps
<1>3. ASSUME NEW p \in AccessProcs, \/ C!RBACMiddleware(p) \/ C!RowFilters(p) \/ C!Read(p)
                                    \/ C!FieldPermissions(p)
                                    \/ C!Save(p) \/ C!Answer(p) \/ C!Delete(p) \/ C!Fail(p)
      PROVE  IInv'
  BY <1>3, MiddlewareKeeps, RowFiltersKeeps, ReadKeeps, FieldPermissionsKeeps, SaveKeeps,
     AnswerKeeps, DeleteKeeps, FailKeeps
<1>4. ASSUME NEW row \in AccessPermRows, C!SavePermission(row) \/ C!DeletePermission(row)
      PROVE  IInv'
  <2>1. accessPerms \cup {row} \subseteq AccessPermRows /\ accessPerms \ {row} \subseteq
      AccessPermRows
        /\ accessUserPerms \subseteq AccessUserPermRows
    BY DEF IInv, Types
  <2>. QED
    BY <1>4, <2>1, ChangeKeeps DEF C!SavePermission, C!DeletePermission
<1>5. ASSUME NEW row \in AccessUserPermRows, C!SaveUserPermission(row) \/
    C!DeleteUserPermission(row)
      PROVE  IInv'
  <2>1. accessUserPerms \cup {row} \subseteq AccessUserPermRows /\
      accessUserPerms \ {row} \subseteq AccessUserPermRows
        /\ accessPerms \subseteq AccessPermRows
    BY DEF IInv, Types
  <2>. QED
    BY <1>5, <2>1, ChangeKeeps DEF C!SaveUserPermission, C!DeleteUserPermission
<1>. QED
  BY <1>1, <1>2, <1>3, <1>4, <1>5 DEF C!Next

\* The invariant of the part, while it is the part that runs.
AccessRuns == part = "access" => IInv

LEMMA Invariant == Spec => []AccessRuns
<1>1. Init => AccessRuns
  BY PartStarts, Initially, ServicesAssumption DEF AccessRuns
<1>2. AccessRuns /\ [Next]_allVars => AccessRuns'
  BY PartSteps, Inductive, ServicesAssumption DEF AccessRuns
<1>. QED
  BY <1>1, <1>2, PTL DEF Spec

\* Every variable keeps its type, and a request about to save has a body
\* (EntityService.Insert, Update).
THEOREM AccessTypeCorrect == Spec => [](part = "access" => C!TypeOK)
<1>1. IInv => C!TypeOK
  BY ServicesAssumption DEF IInv, Types, Begun, C!TypeOK, Req, RecordSet, Pairs, C!AccessAssumption
<1>2. AccessRuns => (part = "access" => C!TypeOK)
  BY <1>1 DEF AccessRuns
<1>. QED
  BY <1>2, Invariant, PTL

\* A request whose field permissions were read shows and stores no attribute
\* that was granted to its roles at no moment of the request, whoever changes
\* the tables meanwhile (PermissionService.GetFieldPermissions).
THEOREM NothingLeaks == Spec => []OnlyWhatWasGranted
<1>1. IInv => C!OnlyWhatWasGranted
  BY DEF IInv, Kept, C!OnlyWhatWasGranted, Pairs
<1>2. AccessRuns => OnlyWhatWasGranted
  BY <1>1 DEF AccessRuns, OnlyWhatWasGranted
<1>. QED
  BY <1>2, Invariant, PTL

-----------------------------------------------------------------------------
(* All parts *)

\* The variables of whichever part runs keep their types.
THEOREM PartsTypeCorrect == Spec => []ServicesTypeOK
<1>1. /\ part = "seeds" => SeedsIInv
      /\ part = "messages" => MessagesIInv
      /\ part = "accounts" => AccountsIInv
      /\ part = "router" => RouterIInv
      /\ part = "temp" => TempIInv
      /\ part = "schemas" => S!TypeOK
      /\ part = "extensions" => E!TypeOK
      /\ part = "access" => C!TypeOK
      /\ part = "drivers" => R!TypeOK
      /\ part = "notices" => N!TypeOK
      => ServicesTypeOK
  BY MessagesTypeCorrect, AccountsTypeCorrect, RouterTypeCorrect, TempTypeCorrect,
     ServicesAssumption DEF ServicesAssumption, SeedsIInv, ServicesTypeOK
<1>. QED
  BY <1>1, SeedsInvariant, MessagesInvariant, AccountsInvariant, RouterInvariant, TempInvariant,
     SchemasTypeCorrect, ExtensionsTypeCorrect, AccessTypeCorrect, DriversTypeCorrect,
     NoticesTypeCorrect, PTL

=============================================================================
