------------------------------ MODULE UserStores ------------------------------
(***************************************************************************)
(* Every user is kept twice: as a record of the entity User, which the     *)
(* entity API reads and writes (core/services/entity_service.go), and as   *)
(* the core record Login looks up by email                                 *)
(* (core/services/auth_service.go).  No transaction ties the two together: *)
(* each operation saves one of them, then the other, and drops the error   *)
(* of the second save; Login and Me copy a record that only the entity     *)
(* has.  Every start of the process copies what either store lacks, and    *)
(* sets up the administrator.                                              *)
(*                                                                         *)
(* Data abstraction.  A password is the number of the write that set it.   *)
(* Of the roles only what syncUserStores changes is kept: whether a row of *)
(* the entity has any.  Whether some core user is an administrator is a    *)
(* choice.  Of other fields nothing is kept.  An entity key need not be a  *)
(* number: the core record has the number made of it, Num[key].            *)
(*                                                                         *)
(* Left out: LoginByChannel's users without a password; reads that fail,   *)
(* which a start takes for records that are not there.                     *)
(***************************************************************************)
EXTENDS Integers

CONSTANTS
    Keys,       \* keys of the entity User, numbered in the order of List
    Num,        \* StringToInt64ID: the numeric key that stands for a key
    Emails,     \* numbered in the order of List
    Requests,   \* goroutines that serve requests
    AdminEmail, \* the configured administrator, from the environment or as the
                \* default; None if it is nobody among Emails
    AdminPw,    \* the password configured for it
    DemoEmails, \* the addresses of the demo accounts
    MayFail,    \* bound: emails whose Saves at a start may fail
    MaxWrites,  \* bound: passwords set by requests in a behaviour
    None

Account == [email : Emails, pw : Nat, roled : BOOLEAN]
CoreUser == [id : Keys, pw : Nat]

\* A user as requests save it: with a role.
User(e, n) == [email |-> e, pw |-> n, roled |-> TRUE]

\* The passwords of an earlier deployment; for a demo account, the demo one.
OldPw == 0

ASSUME UserAssumption ==
    /\ Keys \subseteq Nat /\ Emails \subseteq Nat
    /\ \A S \in (SUBSET Keys) \cup (SUBSET Emails) :
         S # {} => \E x \in S : \A y \in S : x <= y
    /\ Num \in [Keys -> Keys]
    /\ \A k \in Keys : Num[Num[k]] = Num[k]
    /\ AdminEmail \in Emails \cup {None} /\ AdminPw \in Nat
    /\ DemoEmails \subseteq Emails /\ MayFail \subseteq Emails
    /\ MaxWrites \in Nat
    /\ None \notin Account \cup CoreUser \cup Keys

VARIABLES
    entity,  \* namespace aigen.bizdef.entities.User
    core,    \* namespace aigen.core.descriptors.User, by email
    req,     \* each request: the DAO call it makes next, and on what
    start,   \* how far the start of the process is, and which demo accounts
             \* it still has to look at
    writes,  \* number of passwords set so far: names the next one
    loose,   \* history: emails with an excuse, see "Excuses"
    gone     \* history: emails whose user was deleted undisturbed

vars == <<entity, core, req, start, writes, loose, gone>>

Idle == [pc |-> "idle", key |-> None, acc |-> None]

\* "save"       Save of the entity, then "mirror"
\* "mirror"     Save of the core record
\* "lookup"     List of the entity: by the email of acc, or by id if key is set
\* "delcore"    Delete of the core record, then "delentity", of the entity
\* "core"       Save of the core record, then "entity", of the entity
Steps == {"idle", "save", "mirror", "lookup", "delcore", "delentity", "core", "entity"}

ReqState == [pc : Steps, key : Keys \cup {None}, acc : Account \cup {None}]

\* "sync"      syncUserStores
\* "admin"     BootstrapAdmin has not decided yet
\* "demo"      the configured administrator is saved, then the demo accounts go
\* "resync"    the deferred syncUserStores, after what is under way
\* "up"        requests are served
Phases == {"sync", "admin", "demo", "resync", "up"}

At(p) == [at |-> p, left |-> {}]

First(S) == CHOOSE x \in S : \A y \in S : x <= y

\* Rows of the entity with an email.
Rows(e) == {k \in Keys : entity[k] # None /\ entity[k].email = e}

\* The email of the row with that key, if there is one.
EmailAt(k) == IF entity[k] = None THEN {} ELSE {entity[k].email}

\* The email has a core record, of the user with that numeric key.
Mirrors(e, i) == core[e] # None /\ core[e].id = i

-----------------------------------------------------------------------------
(* Excuses.  Nothing in the code keeps two users from having one email, two  *)
(* requests from working on one user, or a request from dying between its    *)
(* two writes.  An email is loose once that has happened to it.              *)

\* Request r is about to work with this email.
Holds(r, e) == req[r].acc # None /\ req[r].acc.email = e

\* The email is in another request's hands, or stands for another user as well.
Disturbed(r, k, e) ==
    \/ \E q \in Requests \ {r} : Holds(q, e)
    \/ Rows(e) \ {k} # {}
    \/ core[e] # None /\ ~Mirrors(e, Num[k])

\* Request r begins to work with emails es, for the user with key k.
Begin(r, k, es) ==
    /\ loose' = loose \cup {e \in es : Disturbed(r, k, e)}
    /\ gone' = gone \ es

Unexcused == loose' = loose /\ gone' = gone

\* Request r gives up, its work half done.
Broken(r) == loose' = loose \cup {req[r].acc.email} /\ gone' = gone

-----------------------------------------------------------------------------
(* The entity API on User *)

\* Request r has nothing to do, and the process serves.
Free(r) == start.at = "up" /\ req[r].pc = "idle"

Goto(r, pc, k, acc) == req' = [req EXCEPT ![r] = [pc |-> pc, key |-> k, acc |-> acc]]
Done(r) == req' = [req EXCEPT ![r] = Idle]

\* Insert, up to the Save of the entity, an upsert.
Insert(r, k, e) ==
    /\ Free(r)
    /\ writes < MaxWrites
    /\ writes' = writes + 1
    /\ entity' = [entity EXCEPT ![k] = User(e, writes')]
    /\ Goto(r, "mirror", k, User(e, writes'))
    /\ Begin(r, k, {e} \cup EmailAt(k))
    /\ UNCHANGED <<core, start>>

\* Update, its Get: a new password, ...
UpdatePassword(r, k) ==
    /\ Free(r)
    /\ entity[k] # None
    /\ writes < MaxWrites
    /\ writes' = writes + 1
    /\ Goto(r, "save", k, User(entity[k].email, writes'))
    /\ Begin(r, k, {entity[k].email})
    /\ UNCHANGED <<entity, core, start>>

\* ... or another email, or other fields only (the same email again).
UpdateOther(r, k, e) ==
    /\ Free(r)
    /\ entity[k] # None
    /\ Goto(r, "save", k, User(e, entity[k].pw))
    /\ Begin(r, k, {entity[k].email, e})
    /\ UNCHANGED <<entity, core, writes, start>>

\* Its Save, whatever has become of the record.
UpdateSave(r) ==
    /\ req[r].pc = "save"
    /\ entity' = [entity EXCEPT ![req[r].key] = req[r].acc]
    /\ Goto(r, "mirror", req[r].key, req[r].acc)
    /\ Unexcused
    /\ UNCHANGED <<core, writes, start>>

\* Mutant of Mirror: a core record that is there stays.
MirrorIfAbsent(r) ==
    /\ req[r].pc = "mirror"
    /\ core' = [core EXCEPT ![req[r].acc.email] =
                  IF @ # None THEN @
                  ELSE [id |-> Num[req[r].key], pw |-> req[r].acc.pw]]
    /\ Done(r)
    /\ Unexcused
    /\ UNCHANGED <<entity, writes, start>>

\* The core record that goes with the entity is saved, under its email; the one
\* under an earlier email stays.
Mirror(r) ==
    /\ req[r].pc = "mirror"
    /\ core' = [core EXCEPT ![req[r].acc.email] =
                  [id |-> Num[req[r].key], pw |-> req[r].acc.pw]]
    /\ Done(r)
    /\ Unexcused
    /\ UNCHANGED <<entity, writes, start>>

\* Delete, its Get.
Delete(r, k) ==
    /\ Free(r)
    /\ entity[k] # None
    /\ Goto(r, "delcore", k, User(entity[k].email, entity[k].pw))
    /\ Begin(r, k, {entity[k].email})
    /\ UNCHANGED <<entity, core, writes, start>>

\* Mutant of DeleteCore: the core record stays.
DeleteCoreSkipped(r) ==
    /\ req[r].pc = "delcore"
    /\ Goto(r, "delentity", req[r].key, req[r].acc)
    /\ Unexcused
    /\ UNCHANGED <<entity, core, writes, start>>

DeleteCore(r) ==
    /\ req[r].pc = "delcore"
    /\ core' = [core EXCEPT ![req[r].acc.email] = None]
    /\ Goto(r, "delentity", req[r].key, req[r].acc)
    /\ Unexcused
    /\ UNCHANGED <<entity, writes, start>>

\* The user is gone: for good, if nobody else was at work on the email.
DeleteEntity(r) ==
    /\ req[r].pc = "delentity"
    /\ entity' = [entity EXCEPT ![req[r].key] = None]
    /\ Done(r)
    /\ LET e == req[r].acc.email
       IN  gone' = IF e \in loose THEN gone ELSE gone \cup {e}
    /\ UNCHANGED <<core, writes, loose, start>>

-----------------------------------------------------------------------------
(* AuthService *)

\* Login with an email that has no core record.  (With one, Login changes
\* nothing: the password is compared with the one there.)
LoginMiss(r, e) ==
    /\ Free(r)
    /\ core[e] = None
    /\ Goto(r, "lookup", None, User(e, 0))
    /\ loose' = IF \E q \in Requests \ {r} : Holds(q, e) THEN loose \cup {e} ELSE loose
    /\ UNCHANGED <<entity, core, writes, gone, start>>

\* Me with an id that has no core record.
MeMiss(r, i) ==
    /\ Free(r)
    /\ \A e \in Emails : ~Mirrors(e, i)
    /\ Goto(r, "lookup", i, None)
    /\ UNCHANGED <<entity, core, writes, loose, gone, start>>

\* The rows of the entity a lookup finds.
Found(r) ==
    IF req[r].key = None THEN Rows(req[r].acc.email)
    ELSE {k \in Keys : entity[k] # None /\ Num[k] = req[r].key}

\* Mutant of Lookup: that nothing was found is not noticed.
LookupUnchecked(r) ==
    /\ req[r].pc = "lookup"
    /\ Goto(r, "mirror", IF Found(r) = {} THEN None ELSE First(Found(r)), req[r].acc)
    /\ Unexcused
    /\ UNCHANGED <<entity, core, writes, start>>

\* The first of them, if any, is going to be copied.
Lookup(r) ==
    /\ req[r].pc = "lookup"
    /\ IF Found(r) = {} THEN Done(r) /\ Unexcused
       ELSE LET k == First(Found(r))
            IN  /\ Goto(r, "mirror", k, User(entity[k].email, entity[k].pw))
                /\ loose' = IF Disturbed(r, k, entity[k].email)
                            THEN loose \cup {entity[k].email} ELSE loose
                /\ gone' = gone
    /\ UNCHANGED <<entity, core, writes, start>>

\* An id made of the time: nobody has it.
Fresh(k) ==
    /\ Num[k] = k
    /\ entity[k] = None
    /\ \A f \in Emails : ~Mirrors(f, k)
    /\ \A q \in Requests : req[q].key # k

\* Register: a fresh id, and a core record whatever the email had before.
Register(r, k, e) ==
    /\ Free(r)
    /\ Fresh(k)
    /\ writes < MaxWrites
    /\ writes' = writes + 1
    /\ core' = [core EXCEPT ![e] = [id |-> k, pw |-> writes']]
    /\ Goto(r, "entity", k, User(e, writes'))
    /\ Begin(r, k, {e})
    /\ UNCHANGED <<entity, start>>

\* LinkChannel of a user without a phone number: Me, the first core record with
\* the id, is read and is going to be written back, to both stores.
LinkChannel(r, i) ==
    LET mine == {e \in Emails : Mirrors(e, i)}
    IN  /\ Free(r)
        /\ mine # {}
        /\ LET e == First(mine)
           IN  Goto(r, "core", i, User(e, core[e].pw))
        /\ Begin(r, i, mine \cup EmailAt(i))
        /\ UNCHANGED <<entity, core, writes, start>>

\* The first Save of UpdateUser.
SaveCore(r) ==
    /\ req[r].pc = "core"
    /\ core' = [core EXCEPT ![req[r].acc.email] = [id |-> req[r].key, pw |-> req[r].acc.pw]]
    /\ Goto(r, "entity", req[r].key, req[r].acc)
    /\ Unexcused
    /\ UNCHANGED <<entity, writes, start>>

\* The second Save of UpdateUser and of Register.
SaveEntity(r) ==
    /\ req[r].pc = "entity"
    /\ entity' = [entity EXCEPT ![req[r].key] = req[r].acc]
    /\ Done(r)
    /\ Unexcused
    /\ UNCHANGED <<core, writes, start>>

\* The tool "aigen-admin reset-pass": Get and Save of the core record alone.
ResetPass(r, e) ==
    /\ Free(r)
    /\ core[e] # None
    /\ writes < MaxWrites
    /\ writes' = writes + 1
    /\ Goto(r, "mirror", core[e].id, User(e, writes'))
    /\ loose' = loose \cup {e}
    /\ gone' = gone \ {e}
    /\ UNCHANGED <<entity, core, start>>

-----------------------------------------------------------------------------

\* A DAO call fails.  The request ends, except for the Delete of the core record,
\* whose error is dropped; so does BootstrapAdmin, at its first Save.
Fails(r) ==
    /\ req[r].pc \notin {"idle", "lookup"}
    /\ IF req[r].pc = "delcore" THEN Goto(r, "delentity", req[r].key, req[r].acc)
       ELSE Done(r)
    /\ start' = IF start.at = "demo" /\ req[r].pc = "core" THEN At("resync") ELSE start
    /\ Broken(r)
    /\ UNCHANGED <<entity, core, writes>>

-----------------------------------------------------------------------------
(* A start of the process: BootstrapAdmin, before requests are served.  What it *)
(* saves and deletes it saves and deletes as a request does.                    *)

\* The process dies and starts again: requests, or an earlier start, are cut short.
Restart ==
    /\ req' = [r \in Requests |-> Idle]
    /\ start' = At("sync")
    /\ loose' = loose \cup {req[r].acc.email : r \in {q \in Requests : req[q].acc # None}}
    /\ UNCHANGED <<entity, core, writes, gone>>

\* The start is in this phase, with nothing under way.
Starting(p) == start.at = p /\ \A r \in Requests : req[r] = Idle

\* Mutant of SyncCore: what is there is copied anew.
SyncCoreAnew(e) ==
    IF Rows(e) = {} THEN core[e]
    ELSE [id |-> Num[First(Rows(e))], pw |-> entity[First(Rows(e))].pw]

\* syncUserStores, first loop: an entity whose email has no core record gets one, ...
SyncCore(e) ==
    IF core[e] # None \/ Rows(e) = {} THEN core[e]
    ELSE [id |-> Num[First(Rows(e))], pw |-> entity[First(Rows(e))].pw]

\* ... and one without a role gets one.  Second loop, over the core records after
\* the first one: a user without an entity of its id or its email gets one.
SyncEntity(k, users, reached) ==
    LET lacking == {e \in reached : users[e] # None /\ users[e].id = k /\ Rows(e) = {}}
    IN  IF entity[k] # None
        THEN [entity[k] EXCEPT !.roled = @ \/ entity[k].email \in reached]
        ELSE IF lacking = {} THEN None
        ELSE User(First(lacking), users[First(lacking)].pw)

\* The Saves of emails that are not reached fail, and their errors are dropped.
Sync(reached) ==
    /\ \/ Starting("sync") /\ start' = At("admin")
       \/ Starting("resync") /\ start' = At("up")
    /\ core' = [e \in Emails |-> IF e \in reached THEN SyncCore(e) ELSE core[e]]
    /\ entity' = [k \in Keys |-> SyncEntity(k, core', reached)]
    /\ UNCHANGED <<req, writes, loose, gone>>

\* Credentials in the environment: its password is set for the administrator, whoever
\* has the email, and the entity with the id of the core record becomes its row.  A
\* new administrator has a fresh id.
SetAdmin(r, i) ==
    /\ Starting("admin")
    /\ AdminEmail \in Emails
    /\ IF core[AdminEmail] # None THEN Mirrors(AdminEmail, i) ELSE Fresh(i)
    /\ Goto(r, "core", i, User(AdminEmail, AdminPw))
    /\ Begin(r, i, {AdminEmail} \cup EmailAt(i))
    /\ start' = [at |-> "demo", left |-> DemoEmails \ {AdminEmail}]
    /\ UNCHANGED <<entity, core, writes>>

\* No credentials in the environment, and no core user is an administrator: one is
\* created, whatever record the email has.
FirstAdmin(r, i) ==
    /\ Starting("admin")
    /\ AdminEmail \in Emails
    /\ Fresh(i)
    /\ Goto(r, "core", i, User(AdminEmail, AdminPw))
    /\ Begin(r, i, {AdminEmail})
    /\ start' = At("resync")
    /\ UNCHANGED <<entity, core, writes>>

\* An administrator exists, or BootstrapAdmin ends with an error before it saves.
AdminExists ==
    /\ Starting("admin")
    /\ start' = At("resync")
    /\ UNCHANGED <<entity, core, req, writes, loose, gone>>

\* A demo account that still has the demo password is deleted: its core record, and
\* the entity with the id of that record.
RemoveDemo(r, e) ==
    /\ Starting("demo")
    /\ e \in start.left
    /\ start' = [start EXCEPT !.left = @ \ {e}]
    /\ IF core[e] # None /\ core[e].pw = OldPw
       THEN /\ Goto(r, "delcore", core[e].id, User(e, OldPw))
            /\ Begin(r, core[e].id, {e} \cup EmailAt(core[e].id))
       ELSE req' = req /\ Unexcused
    /\ UNCHANGED <<entity, core, writes>>

DemosDone ==
    /\ Starting("demo")
    /\ start.left = {}
    /\ start' = At("resync")
    /\ UNCHANGED <<entity, core, req, writes, loose, gone>>

\* The process starts over the stores of an earlier deployment: users, some of them
\* not mirrored yet, some without a role.
Init ==
    /\ entity \in [Keys -> {None} \cup [email : Emails, pw : {OldPw}, roled : BOOLEAN]]
    /\ \A e \in Emails : \A j, k \in Rows(e) : j = k
    /\ \E mirrored \in SUBSET {e \in Emails : Rows(e) # {}} :
         core = [e \in Emails |->
                   IF e \in mirrored THEN [id |-> Num[First(Rows(e))], pw |-> OldPw] ELSE None]
    /\ req = [r \in Requests |-> Idle]
    /\ start = At("sync")
    /\ writes = 0
    /\ loose = {}
    /\ gone = {}

EntityApi(r) ==
    \/ \E k \in Keys, e \in Emails : Insert(r, k, e) \/ UpdateOther(r, k, e)
    \/ \E k \in Keys : UpdatePassword(r, k) \/ Delete(r, k)
    \/ UpdateSave(r) \/ Mirror(r) \/ DeleteCore(r) \/ DeleteEntity(r)

Auth(r) ==
    \/ \E e \in Emails : LoginMiss(r, e) \/ ResetPass(r, e)
    \/ \E i \in Keys : MeMiss(r, i) \/ LinkChannel(r, i)
    \/ \E k \in Keys, e \in Emails : Register(r, k, e)
    \/ Lookup(r) \/ SaveCore(r) \/ SaveEntity(r)

Boot ==
    \/ Restart \/ AdminExists \/ DemosDone
    \/ \E failing \in SUBSET MayFail : Sync(Emails \ failing)
    \/ \E r \in Requests, i \in Keys : SetAdmin(r, i) \/ FirstAdmin(r, i)
    \/ \E r \in Requests, e \in Emails : RemoveDemo(r, e)

Next == Boot \/ \E r \in Requests : EntityApi(r) \/ Auth(r) \/ Fails(r)

Spec == Init /\ [][Next]_vars

-----------------------------------------------------------------------------
(* Properties *)

\* Types; a request about to save has what it saves.
TypeOK ==
    /\ entity \in [Keys -> Account \cup {None}]
    /\ core \in [Emails -> CoreUser \cup {None}]
    /\ req \in [Requests -> ReqState]
    /\ \A r \in Requests : req[r].pc \notin {"idle", "lookup"} =>
                              req[r].key # None /\ req[r].acc # None
    /\ start \in [at : Phases, left : SUBSET Emails]
    /\ writes \in Nat
    /\ loose \in SUBSET Emails
    /\ gone \in SUBSET Emails

\* While no request has an email in hand, and none of the excuses applies to it,
\* the password Login accepts for it is the one the entity API shows.
LoginFollowsEntity ==
    \A e \in Emails \ loose : \A k \in Rows(e) :
        (\A r \in Requests : ~Holds(r, e)) =>
            core[e] = None \/ core[e] = [id |-> Num[k], pw |-> entity[k].pw]

\* A user that was deleted with nobody else at work on the email stays deleted,
\* in both stores, through logins, restarts and other users' requests, until a
\* request brings the email back.
DeletedStaysGone == \A e \in gone : core[e] = None /\ Rows(e) = {}

\* No user is in one store only.
Paired(es, cs) ==
    /\ \A k \in Keys : es[k] # None => cs[es[k].email] # None
    /\ \A e \in Emails : cs[e] # None =>
         es[cs[e].id] # None \/ \E k \in Keys : es[k] # None /\ es[k].email = e

\* A start of the process whose calls succeed leaves no user in one store only, and no
\* row without a role.  Whichever Saves and Deletes fail, wherever it is cut short, a core
\* record stays as it is, but the configured administrator's, which has the configured
\* password then, and a demo account's with the demo password, which is deleted; and
\* a row of the entity keeps email and password, but one with the id of these.
RestartRepairs ==
    [][start.at # "up" =>
         /\ Sync(Emails) => /\ Paired(entity', core')
                            /\ \A k \in Keys : entity'[k] # None => entity'[k].roled
         /\ \A e \in Emails : core[e] # None =>
              \/ core'[e] = core[e]
              \/ e = AdminEmail /\ core'[e] # None /\ core'[e].pw = AdminPw
              \/ e \in DemoEmails \ {AdminEmail} /\ core[e].pw = OldPw /\ core'[e] = None
         /\ \A k \in Keys : entity[k] # None =>
              \/ /\ entity'[k] # None
                 /\ entity'[k].email = entity[k].email /\ entity'[k].pw = entity[k].pw
              \/ \E r \in Requests :
                   /\ req[r].pc \in {"entity", "delentity"} /\ req[r].key = k
                   /\ req[r].acc.email \in {AdminEmail} \cup DemoEmails]_vars

\* Once a password has been set, no older one is accepted again ("Resets the
\* password of any existing user", docs/user_lifecycle_and_rbac.md:249).
PasswordNeverGoesBack ==
    [][\A e \in Emails :
         core[e] # None /\ core'[e] # None /\ core'[e].id = core[e].id
           => core[e].pw <= core'[e].pw]_vars

=============================================================================
