--------------------------- MODULE UserStoresProofs ---------------------------
(***************************************************************************)
(* Proofs about UserStores, for any keys, emails and number of requests:   *)
(*   TypeCorrect     every variable keeps its type                         *)
(*   BootRepairs     a start of the process pairs the two stores, and      *)
(*                   changes records of the administrator and of demo      *)
(*                   accounts only                                         *)
(*   DeletedForGood  a user deleted undisturbed stays deleted              *)
(*   LoginAgrees     undisturbed, Login goes by what the entity API shows  *)
(***************************************************************************)
EXTENDS UserStores, TLAPS

LEMMA FirstIn ==
    ASSUME NEW S \in (SUBSET Keys) \cup (SUBSET Emails), S # {}
    PROVE  First(S) \in S
BY UserAssumption DEF First

LEMMA ConstantsType ==
    /\ Keys \subseteq Nat /\ Emails \subseteq Nat
    /\ Num \in [Keys -> Keys] /\ \A k \in Keys : Num[Num[k]] = Num[k]
    /\ AdminEmail \in Emails \cup {None} /\ AdminPw \in Nat /\ DemoEmails \subseteq Emails
    /\ None \notin Account \cup CoreUser \cup Keys
BY UserAssumption

USE ConstantsType DEF User, EmailAt, Free

LEMMA UserType ==
    ASSUME NEW e \in Emails, NEW n \in Nat
    PROVE  /\ User(e, n) \in Account /\ User(e, n) # None
           /\ User(e, n).email = e /\ User(e, n).pw = n /\ User(e, n).roled
<1>1. User(e, n) \in Account
  BY DEF Account
<1>2. User(e, n) # None
  BY <1>1
<1>3. User(e, n).email = e /\ User(e, n).pw = n
  OBVIOUS
<1>4. User(e, n).roled
  OBVIOUS
<1>. QED
  BY <1>1, <1>2, <1>3, <1>4

-----------------------------------------------------------------------------
(* Type correctness *)

LEMMA RowsType == ASSUME NEW e \in Emails PROVE Rows(e) \in SUBSET Keys
BY DEF Rows

LEMMA SyncCoreType ==
    ASSUME TypeOK, NEW e \in Emails
    PROVE  SyncCore(e) \in CoreUser \cup {None}
<1>1. CASE core[e] # None \/ Rows(e) = {}
  BY <1>1 DEF SyncCore, TypeOK
<1>2. CASE core[e] = None /\ Rows(e) # {}
  <2> DEFINE k == First(Rows(e))
  <2>0. k \in Rows(e)
    BY <1>2, RowsType, FirstIn
  <2>1. SyncCore(e) = [id |-> Num[k], pw |-> entity[k].pw]
    BY <1>2 DEF SyncCore
  <2> HIDE DEF k
  <2>2. k \in Keys /\ entity[k] # None
    BY <2>0 DEF Rows
  <2>3. entity[k].pw \in Nat /\ Num[k] \in Keys
    BY <2>2 DEF TypeOK, Account
  <2>. QED
    BY <2>1, <2>3 DEF CoreUser
<1>. QED
  BY <1>1, <1>2

LEMMA SyncCoreCopies ==
    ASSUME TypeOK, NEW e \in Emails
    PROVE  /\ core[e] # None => SyncCore(e) = core[e]
           /\ Rows(e) = {} => SyncCore(e) = core[e]
           /\ core[e] = None /\ Rows(e) # {} =>
                /\ SyncCore(e) # None
                /\ First(Rows(e)) \in Rows(e)
                /\ SyncCore(e) = [id |-> Num[First(Rows(e))], pw |-> entity[First(Rows(e))].pw]
<1>1. CASE core[e] # None \/ Rows(e) = {}
  BY <1>1 DEF SyncCore
<1>2. CASE core[e] = None /\ Rows(e) # {}
  <2>1. PICK k \in Keys : k = First(Rows(e)) /\ k \in Rows(e)
    BY <1>2, RowsType, FirstIn
  <2>2. SyncCore(e) = [id |-> Num[k], pw |-> entity[k].pw]
    BY <1>2, <2>1 DEF SyncCore
  <2>3. entity[k].pw \in Nat /\ Num[k] \in Keys
    BY <2>1 DEF TypeOK, Account, Rows
  <2>4. SyncCore(e) \in CoreUser
    BY <2>2, <2>3 DEF CoreUser
  <2>. QED
    BY <1>2, <2>1, <2>2, <2>4
<1>. QED
  BY <1>1, <1>2

LEMMA SyncEntityCopies ==
    ASSUME TypeOK, NEW k \in Keys, NEW users \in [Emails -> CoreUser \cup {None}],
           NEW reached \in SUBSET Emails
    PROVE  LET row == SyncEntity(k, users, reached)
           IN  /\ entity[k] # None =>
                    /\ row \in Account /\ row.email = entity[k].email /\ row.pw = entity[k].pw
                    /\ entity[k].email \in reached => row.roled
               /\ entity[k] = None =>
                    /\ row \in Account \cup {None}
                    /\ row # None =>
                         /\ row.roled
                         /\ \E e \in reached :
                              /\ users[e] # None /\ users[e].id = k /\ Rows(e) = {}
                              /\ row.email = e /\ row.pw = users[e].pw
                    /\ \A e \in reached :
                         users[e] # None /\ users[e].id = k /\ Rows(e) = {} => row # None
<1> DEFINE row == SyncEntity(k, users, reached)
           lacking == {e \in reached : users[e] # None /\ users[e].id = k /\ Rows(e) = {}}
<1>1. CASE entity[k] # None
  <2>1. row = [entity[k] EXCEPT !.roled = @ \/ entity[k].email \in reached]
    BY <1>1 DEF SyncEntity
  <2>2. entity[k] \in Account
    BY <1>1 DEF TypeOK
  <2> HIDE DEF row
  <2>3. row \in Account /\ row.email = entity[k].email /\ row.pw = entity[k].pw
    BY <2>1, <2>2 DEF Account
  <2>4. entity[k].email \in reached => row.roled
    BY <2>1, <2>2 DEF Account
  <2>. QED
    BY <1>1, <2>3, <2>4 DEF row
<1>2. CASE entity[k] = None /\ lacking = {}
  <2>1. row = None
    BY <1>2 DEF SyncEntity
  <2>. QED
    BY <1>2, <2>1
<1>3. CASE entity[k] = None /\ lacking # {}
  <2>1. PICK e \in lacking : e = First(lacking)
    BY <1>3, FirstIn
  <2>2. row = User(e, users[e].pw)
    BY <1>3, <2>1 DEF SyncEntity
  <2>3. e \in Emails /\ users[e].pw \in Nat
    BY <2>1 DEF CoreUser
  <2>4. row # None /\ row \in Account /\ row.roled /\ row.email = e /\ row.pw = users[e].pw
    <3> HIDE DEF row, lacking
    <3> HIDE DEF User
    <3>. QED
      BY <2>2, <2>3, UserType
  <2>5. e \in reached /\ users[e] # None /\ users[e].id = k /\ Rows(e) = {}
    BY <2>1
  <2> HIDE DEF lacking
  <2>. QED
    BY <1>3, <2>4, <2>5
<1>. QED
  BY <1>1, <1>2, <1>3

\* What syncUserStores makes of the two stores.
LEMMA Syncs ==
    ASSUME TypeOK, NEW reached \in SUBSET Emails, Sync(reached)
    PROVE  /\ \A r \in Requests : req[r] = Idle
           /\ req' = req /\ loose' = loose /\ gone' = gone
           /\ core' \in [Emails -> CoreUser \cup {None}]
           /\ entity' \in [Keys -> Account \cup {None}]
           /\ \A e \in Emails : core[e] # None \/ Rows(e) = {} => core'[e] = core[e]
           /\ \A e \in Emails : core[e] = None /\ core'[e] # None =>
                \E k \in Rows(e) :
                  k = First(Rows(e)) /\ core'[e] = [id |-> Num[k], pw |-> entity[k].pw]
           /\ \A e \in reached : Rows(e) # {} => core'[e] # None
           /\ \A k \in Keys : entity[k] # None =>
                /\ entity'[k] # None
                /\ entity'[k].email = entity[k].email /\ entity'[k].pw = entity[k].pw
                /\ entity[k].email \in reached => entity'[k].roled
           /\ \A k \in Keys : entity[k] = None /\ entity'[k] # None =>
                /\ entity'[k].roled
                /\ \E e \in reached :
                     /\ core'[e] # None /\ core'[e].id = k /\ Rows(e) = {}
                     /\ entity'[k].email = e /\ entity'[k].pw = core'[e].pw
           /\ \A e \in reached : core'[e] # None /\ Rows(e) = {} => entity'[core'[e].id] # None
<1>1. /\ core' = [e \in Emails |-> IF e \in reached THEN SyncCore(e) ELSE core[e]]
      /\ entity' = [k \in Keys |-> SyncEntity(k, core', reached)]
      /\ \A r \in Requests : req[r] = Idle
      /\ req' = req /\ loose' = loose /\ gone' = gone
  BY DEF Sync, Starting
<1>2. core' \in [Emails -> CoreUser \cup {None}]
  BY <1>1, SyncCoreType DEF TypeOK
<1>3. \A e \in Emails : core[e] # None \/ Rows(e) = {} => core'[e] = core[e]
  BY <1>1, SyncCoreCopies
<1>4. ASSUME NEW e \in Emails, core[e] = None, core'[e] # None
      PROVE  \E k \in Rows(e) :
               k = First(Rows(e)) /\ core'[e] = [id |-> Num[k], pw |-> entity[k].pw]
  <2>1. Rows(e) # {}
    BY <1>3, <1>4
  <2>2. core'[e] = SyncCore(e)
    BY <1>1, <1>4
  <2>. QED
    BY <1>4, <2>1, <2>2, SyncCoreCopies
<1>5. \A e \in reached : Rows(e) # {} => core'[e] # None
  BY <1>1, SyncCoreCopies
<1>6. ASSUME NEW k \in Keys, entity[k] # None
      PROVE  /\ entity'[k] \in Account /\ entity'[k] # None
             /\ entity'[k].email = entity[k].email /\ entity'[k].pw = entity[k].pw
             /\ entity[k].email \in reached => entity'[k].roled
  <2>1. entity'[k] = SyncEntity(k, core', reached)
    BY <1>1
  <2>. QED
    BY <1>2, <1>6, <2>1, SyncEntityCopies
<1>7. ASSUME NEW k \in Keys, entity[k] = None
      PROVE  /\ entity'[k] \in Account \cup {None}
             /\ entity'[k] # None =>
                  /\ entity'[k].roled
                  /\ \E e \in reached :
                       /\ core'[e] # None /\ core'[e].id = k /\ Rows(e) = {}
                       /\ entity'[k].email = e /\ entity'[k].pw = core'[e].pw
             /\ \A e \in reached :
                  core'[e] # None /\ core'[e].id = k /\ Rows(e) = {} => entity'[k] # None
  <2>1. entity'[k] = SyncEntity(k, core', reached)
    BY <1>1
  <2>. QED
    <3>1. SyncEntity(k, core', reached) \in Account \cup {None}
      BY <1>2, <1>7, SyncEntityCopies
    <3>2. SyncEntity(k, core', reached) # None =>
            /\ SyncEntity(k, core', reached).roled
            /\ \E e \in reached :
                 /\ core'[e] # None /\ core'[e].id = k /\ Rows(e) = {}
                 /\ SyncEntity(k, core', reached).email = e
                 /\ SyncEntity(k, core', reached).pw = core'[e].pw
      BY <1>2, <1>7, SyncEntityCopies
    <3>3. \A e \in reached :
            core'[e] # None /\ core'[e].id = k /\ Rows(e) = {} =>
              SyncEntity(k, core', reached) # None
      BY <1>2, <1>7, SyncEntityCopies
    <3>. QED
      BY <2>1, <3>1, <3>2, <3>3
<1>8. entity' \in [Keys -> Account \cup {None}]
  <2>1. \A k \in Keys : entity'[k] \in Account \cup {None}
    BY <1>6, <1>7
  <2>. QED
    BY <1>1, <2>1
<1>9. ASSUME NEW e \in reached, core'[e] # None, Rows(e) = {} PROVE entity'[core'[e].id] # None
  <2>1. PICK k \in Keys : k = core'[e].id
    BY <1>2, <1>9 DEF CoreUser
  <2>2. CASE entity[k] # None
    BY <1>6, <2>1, <2>2
  <2>3. CASE entity[k] = None
    BY <1>7, <1>9, <2>1, <2>3
  <2>. QED
    BY <2>2, <2>3
<1>. QED
  BY <1>1, <1>2, <1>3, <1>4, <1>5, <1>6, <1>7, <1>8, <1>9

\* A core record that syncUserStores makes, and a row that it makes.
LEMMA SyncsCore ==
    ASSUME TypeOK, NEW reached \in SUBSET Emails, Sync(reached),
           NEW e \in Emails, core[e] = None, core'[e] # None
    PROVE  \E k \in Rows(e) :
             k = First(Rows(e)) /\ core'[e] = [id |-> Num[k], pw |-> entity[k].pw]
BY Syncs

LEMMA SyncsRow ==
    ASSUME TypeOK, NEW reached \in SUBSET Emails, Sync(reached),
           NEW k \in Keys, entity[k] = None, entity'[k] # None
    PROVE  /\ entity'[k].roled
           /\ \E e \in reached :
                /\ core'[e] # None /\ core'[e].id = k /\ Rows(e) = {}
                /\ entity'[k].email = e /\ entity'[k].pw = core'[e].pw
<1>1. entity'[k].roled
  BY Syncs
<1>2. \E e \in reached :
        /\ core'[e] # None /\ core'[e].id = k /\ Rows(e) = {}
        /\ entity'[k].email = e /\ entity'[k].pw = core'[e].pw
  BY Syncs
<1>. QED
  BY <1>1, <1>2

LEMMA InitTypeOK == Init => TypeOK
<1> SUFFICES ASSUME Init PROVE TypeOK
  OBVIOUS
<1>1. entity \in [Keys -> Account \cup {None}]
  BY DEF Init, Account, OldPw
<1>2. core \in [Emails -> CoreUser \cup {None}]
  <2>1. PICK mirrored \in SUBSET {e \in Emails : Rows(e) # {}} :
          core = [e \in Emails |->
                    IF e \in mirrored THEN [id |-> Num[First(Rows(e))], pw |-> OldPw] ELSE None]
    BY DEF Init
  <2>2. \A e \in mirrored : First(Rows(e)) \in Keys
    BY RowsType, FirstIn
  <2>. QED
    BY <2>1, <2>2 DEF CoreUser, OldPw
<1>3. req \in [Requests -> ReqState] /\ \A r \in Requests : req[r].pc = "idle"
  BY DEF Init, ReqState, Idle, Steps
<1>4. start \in [at : Phases, left : SUBSET Emails]
  BY DEF Init, At, Phases
<1>. QED
  BY <1>1, <1>2, <1>3, <1>4 DEF Init, TypeOK

\* Where a request goes next, it goes with a key and what it saves.
LEMMA GotoType ==
    ASSUME TypeOK, NEW r \in Requests, NEW pc \in Steps, NEW k \in Keys, NEW acc \in Account,
           Goto(r, pc, k, acc)
    PROVE  /\ req' \in [Requests -> ReqState]
           /\ \A q \in Requests : req'[q].pc \notin {"idle", "lookup"} =>
                                     req'[q].key # None /\ req'[q].acc # None
BY DEF TypeOK, Goto, ReqState

LEMMA DoneType ==
    ASSUME TypeOK, NEW r \in Requests, Done(r)
    PROVE  /\ req' \in [Requests -> ReqState]
           /\ \A q \in Requests : req'[q].pc \notin {"idle", "lookup"} =>
                                     req'[q].key # None /\ req'[q].acc # None
BY DEF TypeOK, Done, Idle, ReqState, Steps

LEMMA BeginType ==
    ASSUME TypeOK, NEW r \in Requests, NEW k \in Keys, NEW es \in SUBSET Emails, Begin(r, k, es)
    PROVE  loose' \in SUBSET Emails /\ gone' \in SUBSET Emails
BY DEF TypeOK, Begin

\* What a request holds on its way to a save.
LEMMA HeldType ==
    ASSUME TypeOK, NEW r \in Requests, req[r].pc \notin {"idle", "lookup"}
    PROVE  /\ req[r].key \in Keys /\ req[r].acc \in Account
           /\ req[r].acc.email \in Emails /\ req[r].acc.pw \in Nat
BY DEF TypeOK, ReqState, Account

LEMMA EntityType ==
    ASSUME TypeOK, NEW k \in Keys, entity[k] # None
    PROVE  entity[k] \in Account /\ entity[k].email \in Emails /\ entity[k].pw \in Nat
BY DEF TypeOK, Account

LEMMA RowUser ==
    ASSUME TypeOK, NEW k \in Keys, entity[k] # None
    PROVE  \E acc \in Account :
             acc = User(entity[k].email, entity[k].pw) /\ acc.email = entity[k].email
<1>1. PICK e \in Emails, n \in Nat : e = entity[k].email /\ n = entity[k].pw
  BY EntityType
<1>2. User(e, n) \in Account /\ User(e, n).email = e
  BY UserType
<1>. QED
  BY <1>1, <1>2

LEMMA EmailAtType == ASSUME TypeOK, NEW k \in Keys PROVE EmailAt(k) \in SUBSET Emails
<1>1. entity[k] # None => entity[k].email \in Emails
  BY EntityType
<1>. QED
  BY <1>1

LEMMA CoreType ==
    ASSUME TypeOK, NEW e \in Emails, core[e] # None
    PROVE  core[e] \in CoreUser /\ core[e].id \in Keys /\ core[e].pw \in Nat
BY DEF TypeOK, CoreUser

LEMMA EntityApiTypeOK ==
    ASSUME TypeOK, NEW r \in Requests, EntityApi(r)
    PROVE  TypeOK'
<1> USE DEF Steps
<1>1. ASSUME NEW k \in Keys, NEW e \in Emails, Insert(r, k, e) PROVE TypeOK'
  <2> DEFINE acc == User(e, writes')
  <2>1. writes' \in Nat /\ acc \in Account
    BY <1>1 DEF Insert, TypeOK, Account
  <2>2. Goto(r, "mirror", k, acc) /\ entity' = [entity EXCEPT ![k] = acc]
    BY <1>1 DEF Insert
  <2>3. loose' \in SUBSET Emails /\ gone' \in SUBSET Emails
    BY <1>1, EntityType, BeginType DEF Insert
  <2> HIDE DEF acc
  <2>4. /\ req' \in [Requests -> ReqState]
        /\ \A q \in Requests : req'[q].pc \notin {"idle", "lookup"} =>
                                  req'[q].key # None /\ req'[q].acc # None
    BY <2>1, <2>2, GotoType
  <2>5. entity' \in [Keys -> Account \cup {None}]
    BY <2>1, <2>2 DEF TypeOK
  <2>6. core' = core
    BY <1>1 DEF Insert
  <2>7. start' = start /\ writes' \in Nat
    BY <1>1 DEF Insert, TypeOK
  <2>. QED
    BY <2>1, <2>3, <2>4, <2>5, <2>6, <2>7 DEF TypeOK
<1>2. ASSUME NEW k \in Keys, UpdatePassword(r, k) PROVE TypeOK'
  <2> DEFINE acc == User(entity[k].email, writes')
  <2>1. writes' \in Nat /\ acc \in Account
    BY <1>2, EntityType DEF UpdatePassword, TypeOK, Account
  <2>2. Goto(r, "save", k, acc)
    BY <1>2 DEF UpdatePassword
  <2>3. loose' \in SUBSET Emails /\ gone' \in SUBSET Emails
    BY <1>2, EntityType, BeginType DEF UpdatePassword
  <2> HIDE DEF acc
  <2>. QED
    BY <1>2, <2>1, <2>2, <2>3, GotoType DEF UpdatePassword, TypeOK
<1>3. ASSUME NEW k \in Keys, NEW e \in Emails, UpdateOther(r, k, e) PROVE TypeOK'
  <2> DEFINE acc == User(e, entity[k].pw)
  <2>1. acc \in Account
    BY <1>3, EntityType DEF UpdateOther, Account
  <2>2. Goto(r, "save", k, acc)
    BY <1>3 DEF UpdateOther
  <2>3. loose' \in SUBSET Emails /\ gone' \in SUBSET Emails
    BY <1>3, EntityType, BeginType DEF UpdateOther
  <2> HIDE DEF acc
  <2>. QED
    BY <1>3, <2>1, <2>2, <2>3, GotoType DEF UpdateOther, TypeOK
<1>4. CASE UpdateSave(r)
  BY <1>4, HeldType, GotoType DEF UpdateSave, Unexcused, TypeOK
<1>5. CASE Mirror(r)
  <2>1. [id |-> Num[req[r].key], pw |-> req[r].acc.pw] \in CoreUser
    BY <1>5, HeldType DEF Mirror, CoreUser
  <2>. QED
    BY <1>5, <2>1, DoneType DEF Mirror, Unexcused, TypeOK
<1>6. ASSUME NEW k \in Keys, Delete(r, k) PROVE TypeOK'
  <2>1. entity[k] \in Account /\ entity[k].email \in Emails
    BY <1>6, EntityType DEF Delete
  <2>2. loose' \in SUBSET Emails /\ gone' \in SUBSET Emails
    BY <1>6, <2>1, BeginType DEF Delete
  <2>3. PICK acc \in Account : acc = User(entity[k].email, entity[k].pw)
    BY <1>6, RowUser DEF Delete
  <2>. QED
    BY <1>6, <2>2, <2>3, GotoType DEF Delete, TypeOK
<1>7. CASE DeleteCore(r)
  BY <1>7, HeldType, GotoType DEF DeleteCore, Unexcused, TypeOK
<1>8. CASE DeleteEntity(r)
  BY <1>8, HeldType, DoneType DEF DeleteEntity, TypeOK
<1>. QED
  BY <1>1, <1>2, <1>3, <1>4, <1>5, <1>6, <1>7, <1>8 DEF EntityApi

LEMMA AuthTypeOK ==
    ASSUME TypeOK, NEW r \in Requests, Auth(r)
    PROVE  TypeOK'
<1> USE DEF Steps
<1>1. ASSUME NEW e \in Emails, LoginMiss(r, e) PROVE TypeOK'
  BY <1>1 DEF LoginMiss, Goto, TypeOK, ReqState, Account
<1>2. ASSUME NEW e \in Emails, ResetPass(r, e) PROVE TypeOK'
  <2> DEFINE acc == User(e, writes')
  <2>0. core[e] # None /\ writes' = writes + 1
    BY <1>2 DEF ResetPass
  <2>1. writes' \in Nat /\ acc \in Account /\ core[e].id \in Keys
    <3>1. core[e].id \in Keys
      BY <2>0, CoreType
    <3>2. writes' \in Nat
      BY <2>0 DEF TypeOK
    <3>. QED
      BY <3>1, <3>2 DEF Account
  <2>2. Goto(r, "mirror", core[e].id, acc)
    BY <1>2 DEF ResetPass
  <2> HIDE DEF acc
  <2>. QED
    BY <1>2, <2>1, <2>2, GotoType DEF ResetPass, TypeOK
<1>3. ASSUME NEW i \in Keys, MeMiss(r, i) PROVE TypeOK'
  BY <1>3 DEF MeMiss, Goto, TypeOK, ReqState
<1>4. ASSUME NEW i \in Keys, LinkChannel(r, i) PROVE TypeOK'
  <2> DEFINE mine == {e \in Emails : Mirrors(e, i)}
             e == First(mine)
             acc == User(e, core[e].pw)
  <2>1. e \in Emails /\ core[e] # None
    <3>1. mine # {} /\ mine \in SUBSET Emails
      BY <1>4 DEF LinkChannel
    <3>2. e \in mine
      BY <3>1, FirstIn
    <3>. QED
      BY <3>2 DEF Mirrors
  <2>2. acc \in Account
    <3> HIDE DEF e
    <3>. QED
      BY <2>1, CoreType DEF Account
  <2>3. Goto(r, "core", i, acc)
    BY <1>4 DEF LinkChannel
  <2>4. loose' \in SUBSET Emails /\ gone' \in SUBSET Emails
    <3> DEFINE es == mine \cup EmailAt(i)
    <3>1. Begin(r, i, es)
      BY <1>4 DEF LinkChannel
    <3>2. es \in SUBSET Emails
      BY EntityType
    <3> HIDE DEF es
    <3>. QED
      BY <3>1, <3>2, BeginType
  <2> HIDE DEF acc
  <2>. QED
    BY <1>4, <2>2, <2>3, <2>4, GotoType DEF LinkChannel, TypeOK
<1>5. ASSUME NEW k \in Keys, NEW e \in Emails, Register(r, k, e) PROVE TypeOK'
  <2> DEFINE acc == User(e, writes')
  <2>1. writes' \in Nat /\ acc \in Account /\ [id |-> k, pw |-> writes'] \in CoreUser
    BY <1>5 DEF Register, TypeOK, Account, CoreUser
  <2>2. Goto(r, "entity", k, acc) /\ core' = [core EXCEPT ![e] = [id |-> k, pw |-> writes']]
    BY <1>5 DEF Register
  <2>3. loose' \in SUBSET Emails /\ gone' \in SUBSET Emails
    BY <1>5, BeginType DEF Register
  <2>4. entity' = entity /\ start' = start
    BY <1>5 DEF Register
  <2> HIDE DEF acc
  <2>. QED
    BY <2>1, <2>2, <2>3, <2>4, GotoType DEF TypeOK
<1>6. CASE Lookup(r)
  <2>1. CASE Found(r) = {}
    BY <1>6, <2>1, DoneType DEF Lookup, Unexcused, TypeOK
  <2>2. CASE Found(r) # {}
    <3> DEFINE k == First(Found(r))
    <3>1. Found(r) \in SUBSET Keys /\ \A j \in Found(r) : entity[j] # None
      BY DEF Found, Rows
    <3>2. k \in Keys /\ entity[k] # None
      BY <2>2, <3>1, FirstIn
    <3>3. Goto(r, "mirror", k, User(entity[k].email, entity[k].pw))
      BY <1>6, <2>2 DEF Lookup
    <3>4. loose' \in SUBSET Emails /\ gone' = gone
      <4>1. entity[k].email \in Emails
        BY <3>2, EntityType
      <4>2. loose' \in {loose, loose \cup {entity[k].email}} /\ gone' = gone
        BY <1>6, <2>2 DEF Lookup
      <4> HIDE DEF k
      <4>. QED
        BY <4>1, <4>2 DEF TypeOK
    <3>5. PICK acc \in Account : acc = User(entity[k].email, entity[k].pw)
      BY <3>2, RowUser
    <3>6. UNCHANGED <<entity, core, writes, start>>
      BY <1>6 DEF Lookup
    <3> HIDE DEF k
    <3>. QED
      BY <3>2, <3>3, <3>4, <3>5, <3>6, GotoType DEF TypeOK
  <2>. QED
    BY <2>1, <2>2
<1>7. CASE SaveCore(r)
  <2>1. [id |-> req[r].key, pw |-> req[r].acc.pw] \in CoreUser
    BY <1>7, HeldType DEF SaveCore, CoreUser
  <2>. QED
    BY <1>7, <2>1, HeldType, GotoType DEF SaveCore, Unexcused, TypeOK
<1>8. CASE SaveEntity(r)
  BY <1>8, HeldType, DoneType DEF SaveEntity, Unexcused, TypeOK
<1>. QED
  BY <1>1, <1>2, <1>3, <1>4, <1>5, <1>6, <1>7, <1>8 DEF Auth

LEMMA BootTypeOK ==
    ASSUME TypeOK, Boot
    PROVE  TypeOK'
<1>0. \A p \in Phases : At(p) \in [at : Phases, left : SUBSET Emails]
  BY DEF At
<1>1. CASE Restart
  <2>1. /\ req' \in [Requests -> ReqState] /\ \A r \in Requests : req'[r].pc = "idle"
        /\ start' \in [at : Phases, left : SUBSET Emails]
    BY <1>0, <1>1 DEF Restart, Idle, ReqState, Steps, Phases
  <2>2. loose' \in SUBSET Emails
    <3> DEFINE cut == {req[r].acc.email : r \in {q \in Requests : req[q].acc # None}}
    <3>1. \A r \in Requests : req[r].acc # None => req[r].acc.email \in Emails
      BY DEF TypeOK, ReqState, Account
    <3>2. loose' = loose \cup cut
      BY <1>1 DEF Restart
    <3>3. loose \in SUBSET Emails
      BY DEF TypeOK
    <3>4. cut \in SUBSET Emails
      BY <3>1
    <3> HIDE DEF cut
    <3>. QED
      BY <3>2, <3>3, <3>4
  <2>. QED
    BY <1>1, <2>1, <2>2 DEF Restart, TypeOK
<1>2. CASE AdminExists
  BY <1>0, <1>2 DEF AdminExists, TypeOK, Phases
<1>3. CASE DemosDone
  BY <1>0, <1>3 DEF DemosDone, TypeOK, Phases
<1>4. ASSUME NEW reached \in SUBSET Emails, Sync(reached) PROVE TypeOK'
  <2>1. /\ core' \in [Emails -> CoreUser \cup {None}] /\ entity' \in [Keys -> Account \cup {None}]
        /\ req' = req /\ loose' = loose /\ gone' = gone
    BY <1>4, Syncs
  <2>2. start' \in [at : Phases, left : SUBSET Emails] /\ writes' = writes
    BY <1>0, <1>4 DEF Sync, Phases
  <2>. QED
    BY <2>1, <2>2 DEF TypeOK
<1>5. ASSUME NEW r \in Requests, NEW i \in Keys, SetAdmin(r, i) PROVE TypeOK'
  <2>1. Goto(r, "core", i, User(AdminEmail, AdminPw)) /\ User(AdminEmail, AdminPw) \in Account
    BY <1>5 DEF SetAdmin, Account
  <2>2. loose' \in SUBSET Emails /\ gone' \in SUBSET Emails
    <3>1. {AdminEmail} \cup EmailAt(i) \in SUBSET Emails
      BY <1>5, EntityType DEF SetAdmin
    <3>. QED
      BY <1>5, <3>1, BeginType DEF SetAdmin
  <2>3. start' \in [at : Phases, left : SUBSET Emails]
    BY <1>5 DEF SetAdmin, Phases
  <2>. QED
    BY <1>5, <2>1, <2>2, <2>3, GotoType DEF SetAdmin, TypeOK, Steps
<1>6. ASSUME NEW r \in Requests, NEW i \in Keys, FirstAdmin(r, i) PROVE TypeOK'
  <2>1. Goto(r, "core", i, User(AdminEmail, AdminPw)) /\ User(AdminEmail, AdminPw) \in Account
    BY <1>6 DEF FirstAdmin, Account
  <2>2. loose' \in SUBSET Emails /\ gone' \in SUBSET Emails
    BY <1>6, BeginType DEF FirstAdmin
  <2>3. start' \in [at : Phases, left : SUBSET Emails]
    BY <1>0, <1>6 DEF FirstAdmin, Phases
  <2>. QED
    BY <1>6, <2>1, <2>2, <2>3, GotoType DEF FirstAdmin, TypeOK, Steps
<1>7. ASSUME NEW r \in Requests, NEW e \in Emails, RemoveDemo(r, e) PROVE TypeOK'
  <2>1. /\ start' = [start EXCEPT !.left = @ \ {e}] /\ UNCHANGED <<entity, core, writes>>
    BY <1>7 DEF RemoveDemo
  <2>2. start' \in [at : Phases, left : SUBSET Emails]
    BY <2>1 DEF TypeOK
  <2>3. CASE core[e] # None /\ core[e].pw = OldPw
    <3>1. PICK i \in Keys : i = core[e].id
      BY <2>3, CoreType
    <3>2. Goto(r, "delcore", i, User(e, OldPw)) /\ Begin(r, i, {e} \cup EmailAt(i))
      BY <1>7, <2>3, <3>1 DEF RemoveDemo
    <3>3. User(e, OldPw) \in Account
      BY UserType DEF OldPw
    <3>5. {e} \cup EmailAt(i) \in SUBSET Emails
      BY EmailAtType
    <3>4. loose' \in SUBSET Emails /\ gone' \in SUBSET Emails
      BY <3>2, <3>5, BeginType
    <3>. QED
      BY <2>1, <2>2, <3>2, <3>3, <3>4, GotoType DEF TypeOK, Steps
  <2>4. CASE ~(core[e] # None /\ core[e].pw = OldPw)
    BY <1>7, <2>1, <2>2, <2>4 DEF RemoveDemo, Unexcused, TypeOK
  <2>. QED
    BY <2>3, <2>4
<1>. QED
  BY <1>1, <1>2, <1>3, <1>4, <1>5, <1>6, <1>7 DEF Boot

LEMMA NextTypeOK == TypeOK /\ [Next]_vars => TypeOK'
<1> SUFFICES ASSUME TypeOK, [Next]_vars PROVE TypeOK'
  OBVIOUS
<1>1. ASSUME NEW r \in Requests, EntityApi(r) PROVE TypeOK'
  BY <1>1, EntityApiTypeOK
<1>2. ASSUME NEW r \in Requests, Auth(r) PROVE TypeOK'
  BY <1>2, AuthTypeOK
<1>3. ASSUME NEW r \in Requests, Fails(r) PROVE TypeOK'
  <2>1. req[r].acc.email \in Emails /\ req[r].acc \in Account /\ req[r].key \in Keys
    BY <1>3, HeldType DEF Fails
  <2>2. CASE req[r].pc = "delcore"
    BY <1>3, <2>1, <2>2, GotoType DEF Fails, Broken, TypeOK, Steps
  <2>3. CASE req[r].pc # "delcore"
    <3>1. start' \in [at : Phases, left : SUBSET Emails]
      BY <1>3 DEF Fails, At, Phases, TypeOK
    <3>2. loose' \in SUBSET Emails
      BY <1>3, <2>1 DEF Fails, Broken, TypeOK
    <3>. QED
      BY <1>3, <2>3, <3>1, <3>2, DoneType DEF Fails, Broken, TypeOK
  <2>. QED
    BY <2>2, <2>3
<1>4. CASE Boot
  BY <1>4, BootTypeOK
<1>5. CASE UNCHANGED vars
  BY <1>5 DEF vars, TypeOK
<1>. QED
  BY <1>1, <1>2, <1>3, <1>4, <1>5 DEF Next

\* Every variable of the two user stores keeps its type, and a request about to
\* save has a key and an account.
THEOREM TypeCorrect == Spec => []TypeOK
BY InitTypeOK, NextTypeOK, PTL DEF Spec

-----------------------------------------------------------------------------
(* A start of the process *)

\* Request r saves the administrator; request r deletes a demo account.
SavesAdmin(r) ==
    /\ req[r].pc \in {"core", "entity"}
    /\ req[r].acc # None /\ req[r].acc.email = AdminEmail /\ req[r].acc.pw = AdminPw

RemovesDemo(r) ==
    /\ req[r].pc \in {"delcore", "delentity"}
    /\ req[r].acc # None /\ req[r].acc.email \in DemoEmails \ {AdminEmail}
    /\ req[r].pc = "delcore" =>
         core[req[r].acc.email] # None /\ core[req[r].acc.email].pw = OldPw

\* During a start one thing at a time is under way, and it is one of these two.
BootWork ==
    /\ start.left \subseteq DemoEmails \ {AdminEmail}
    /\ start.at # "up" =>
         /\ \A r \in Requests : req[r] = Idle \/ SavesAdmin(r) \/ RemovesDemo(r)
         /\ \A q, r \in Requests : req[q] # Idle /\ req[r] # Idle => q = r

\* A step of request r, alone with the start.
LEMMA WorkGoesOn ==
    ASSUME TypeOK, BootWork, NEW r \in Requests, req[r] # Idle \/ \A q \in Requests : req[q] = Idle,
           \A q \in Requests \ {r} : req'[q] = req[q],
           start.at = "up" => start'.at = "up", start'.left \subseteq DemoEmails \ {AdminEmail},
           start'.at # "up" => req'[r] = Idle \/ SavesAdmin(r)' \/ RemovesDemo(r)'
    PROVE  BootWork'
<1> SUFFICES ASSUME start'.at # "up"
             PROVE  /\ \A q \in Requests : req'[q] = Idle \/ SavesAdmin(q)' \/ RemovesDemo(q)'
                    /\ \A p, q \in Requests : req'[p] # Idle /\ req'[q] # Idle => p = q
  BY DEF BootWork
<1>1. start.at # "up"
  OBVIOUS
<1>2. \A q \in Requests \ {r} : req[q] = Idle
  BY <1>1 DEF BootWork
<1>. QED
  BY <1>2

LEMMA Gone ==
    ASSUME TypeOK, NEW r \in Requests, NEW pc, NEW k, NEW acc, Goto(r, pc, k, acc)
    PROVE  /\ \A q \in Requests \ {r} : req'[q] = req[q]
           /\ req'[r].pc = pc /\ req'[r].key = k /\ req'[r].acc = acc
BY DEF TypeOK, Goto

LEMMA Ended ==
    ASSUME TypeOK, NEW r \in Requests, Done(r)
    PROVE  req'[r] = Idle /\ \A q \in Requests \ {r} : req'[q] = req[q]
BY DEF TypeOK, Done

\* During a start a request's step is one of these.
LEMMA WorkSteps ==
    ASSUME BootWork, start.at # "up", NEW r \in Requests, EntityApi(r) \/ Auth(r) \/ Fails(r)
    PROVE  \/ SavesAdmin(r) /\ (SaveCore(r) \/ SaveEntity(r) \/ Fails(r))
           \/ RemovesDemo(r) /\ (DeleteCore(r) \/ DeleteEntity(r) \/ Fails(r))
<1>1. EntityApi(r) => \/ req[r].pc \in {"save", "mirror"}
                      \/ req[r].pc = "delcore" /\ DeleteCore(r)
                      \/ req[r].pc = "delentity" /\ DeleteEntity(r)
  <2>1. EntityApi(r) => UpdateSave(r) \/ Mirror(r) \/ DeleteCore(r) \/ DeleteEntity(r)
    BY DEF EntityApi, Insert, UpdateOther, UpdatePassword, Delete
  <2>. QED
    BY <2>1 DEF UpdateSave, Mirror, DeleteCore, DeleteEntity
<1>2. Auth(r) => \/ req[r].pc = "lookup"
                 \/ req[r].pc = "core" /\ SaveCore(r)
                 \/ req[r].pc = "entity" /\ SaveEntity(r)
  <2>1. Auth(r) => Lookup(r) \/ SaveCore(r) \/ SaveEntity(r)
    BY DEF Auth, LoginMiss, ResetPass, MeMiss, LinkChannel, Register
  <2>. QED
    BY <2>1 DEF Lookup, SaveCore, SaveEntity
<1>3. Fails(r) => req[r].pc # "idle"
  BY DEF Fails
<1>4. CASE req[r] = Idle
  BY <1>1, <1>2, <1>3, <1>4 DEF Idle
<1>5. CASE SavesAdmin(r)
  <2>1. req[r].pc \in {"core", "entity"}
    BY <1>5 DEF SavesAdmin
  <2>. QED
    BY <1>1, <1>2, <1>5, <2>1
<1>6. CASE RemovesDemo(r)
  <2>1. req[r].pc \in {"delcore", "delentity"}
    BY <1>6 DEF RemovesDemo
  <2>. QED
    BY <1>1, <1>2, <1>6, <2>1
<1>. QED
  BY <1>4, <1>5, <1>6 DEF BootWork

LEMMA BootWorkInit == Init => BootWork
BY DEF Init, At, BootWork

LEMMA BootWorkRequests ==
    ASSUME TypeOK, BootWork, NEW r \in Requests, EntityApi(r) \/ Auth(r) \/ Fails(r)
    PROVE  BootWork'
<1>0. start' = start \/ start' = At("resync")
  BY DEF EntityApi, Auth, Fails, Insert, UpdatePassword, UpdateOther, UpdateSave, Mirror,
     Delete, DeleteCore, DeleteEntity, LoginMiss, MeMiss, Lookup, Register, LinkChannel,
     SaveCore, SaveEntity, ResetPass
<1>9. start'.left \subseteq DemoEmails \ {AdminEmail}
  BY <1>0 DEF At, BootWork
<1>1. CASE start.at = "up"
  <2>1. start'.at = "up"
    BY <1>1 DEF EntityApi, Auth, Fails, Insert, UpdatePassword, UpdateOther, UpdateSave, Mirror,
       Delete, DeleteCore, DeleteEntity, LoginMiss, MeMiss, Lookup, Register, LinkChannel,
       SaveCore, SaveEntity, ResetPass
  <2>. QED
    BY <1>9, <2>1 DEF BootWork
<1>2. CASE start.at # "up"
  <2>2. \/ SavesAdmin(r) /\ (SaveCore(r) \/ SaveEntity(r) \/ Fails(r))
        \/ RemovesDemo(r) /\ (DeleteCore(r) \/ DeleteEntity(r) \/ Fails(r))
    BY <1>2, WorkSteps
  <2>3. req[r] # Idle
    BY <2>2 DEF SavesAdmin, RemovesDemo, Idle
  <2>4. /\ \A q \in Requests \ {r} : req'[q] = req[q]
        /\ req'[r] = Idle \/ SavesAdmin(r)' \/ RemovesDemo(r)'
    <3>1. CASE SavesAdmin(r) /\ SaveCore(r)
      <4>1. Goto(r, "entity", req[r].key, req[r].acc)
        BY <3>1 DEF SaveCore
      <4>. QED
        BY <3>1, <4>1, Gone DEF SavesAdmin
    <3>2. CASE RemovesDemo(r) /\ (DeleteCore(r) \/ (Fails(r) /\ req[r].pc = "delcore"))
      <4>1. Goto(r, "delentity", req[r].key, req[r].acc)
        BY <3>2 DEF DeleteCore, Fails
      <4>. QED
        BY <3>2, <4>1, Gone DEF RemovesDemo
    <3>3. CASE SaveEntity(r) \/ DeleteEntity(r) \/ (Fails(r) /\ req[r].pc # "delcore")
      <4>1. Done(r)
        BY <3>3 DEF SaveEntity, DeleteEntity, Fails
      <4>. QED
        BY <4>1, Ended
    <3>. QED
      BY <2>2, <3>1, <3>2, <3>3 DEF SavesAdmin
  <2>. QED
    BY <1>2, <1>9, <2>3, <2>4, WorkGoesOn
<1>. QED
  BY <1>1, <1>2

LEMMA BootWorkBoot ==
    ASSUME TypeOK, BootWork, Boot
    PROVE  BootWork'
<1>0. start'.left \subseteq DemoEmails \ {AdminEmail}
  <2>1. start.left \subseteq DemoEmails \ {AdminEmail} /\ start \in [at : Phases, left : SUBSET Emails]
    BY DEF BootWork, TypeOK
  <2>2. CASE \E r \in Requests, e \in Emails : RemoveDemo(r, e)
    <3>1. PICK e \in Emails : start' = [start EXCEPT !.left = @ \ {e}]
      BY <2>2 DEF RemoveDemo
    <3>. QED
      BY <2>1, <3>1
  <2>3. CASE \E r \in Requests, i \in Keys : SetAdmin(r, i) \/ FirstAdmin(r, i)
    BY <2>3 DEF SetAdmin, FirstAdmin, At
  <2>4. CASE Restart \/ AdminExists \/ DemosDone
    BY <2>4 DEF Restart, AdminExists, DemosDone, At
  <2>5. CASE \E failing \in SUBSET MayFail : Sync(Emails \ failing)
    BY <2>5 DEF Sync, At
  <2>. QED
    BY <2>2, <2>3, <2>4, <2>5 DEF Boot
<1>1. CASE Restart
  BY <1>0, <1>1 DEF Restart, BootWork
<1>2. ASSUME \A r \in Requests : req[r] = Idle, req' = req PROVE BootWork'
  BY <1>0, <1>2 DEF BootWork
<1>3. CASE AdminExists \/ DemosDone
  BY <1>2, <1>3 DEF AdminExists, DemosDone, Starting
<1>4. ASSUME NEW reached \in SUBSET Emails, Sync(reached) PROVE BootWork'
  BY <1>2, <1>4, Syncs
<1>5. ASSUME NEW r \in Requests, NEW i \in Keys, SetAdmin(r, i) \/ FirstAdmin(r, i)
      PROVE  BootWork'
  <2>1. PICK acc : acc = User(AdminEmail, AdminPw) /\ Goto(r, "core", i, acc)
    BY <1>5 DEF SetAdmin, FirstAdmin
  <2>5. AdminEmail \in Emails
    BY <1>5 DEF SetAdmin, FirstAdmin
  <2>2. acc # None /\ acc.email = AdminEmail /\ acc.pw = AdminPw
    BY <2>1, <2>5, UserType
  <2>3. start.at # "up" /\ \A q \in Requests : req[q] = Idle
    BY <1>5 DEF SetAdmin, FirstAdmin, Starting
  <2>4. SavesAdmin(r)' /\ \A q \in Requests \ {r} : req'[q] = req[q]
    BY <2>1, <2>2, Gone DEF SavesAdmin
  <2>. QED
    BY <1>0, <2>3, <2>4, WorkGoesOn
<1>6. ASSUME NEW r \in Requests, NEW e \in Emails, RemoveDemo(r, e) PROVE BootWork'
  <2>1. \A q \in Requests : req[q] = Idle
    BY <1>6 DEF RemoveDemo, Starting
  <2>2. CASE core[e] # None /\ core[e].pw = OldPw
    <3>1. PICK acc : acc = User(e, OldPw) /\ Goto(r, "delcore", core[e].id, acc) /\ core' = core
      BY <1>6, <2>2 DEF RemoveDemo
    <3>2. acc # None /\ acc.email = e
      BY <3>1, UserType DEF OldPw
    <3>3. e \in DemoEmails \ {AdminEmail} /\ start.at # "up"
      BY <1>6 DEF RemoveDemo, Starting, BootWork
    <3>4. RemovesDemo(r)' /\ \A q \in Requests \ {r} : req'[q] = req[q]
      BY <2>2, <3>1, <3>2, <3>3, Gone DEF RemovesDemo
    <3>. QED
      BY <1>0, <2>1, <3>3, <3>4, WorkGoesOn
  <2>3. CASE ~(core[e] # None /\ core[e].pw = OldPw)
    BY <1>2, <1>6, <2>1, <2>3 DEF RemoveDemo
  <2>. QED
    BY <2>2, <2>3
<1>. QED
  BY <1>1, <1>3, <1>4, <1>5, <1>6 DEF Boot


\* A start that reaches every email ends with the two stores paired.
LEMMA SyncPairs ==
    ASSUME TypeOK, Sync(Emails)
    PROVE  /\ Paired(entity', core')
           /\ \A k \in Keys : entity'[k] # None => entity'[k].roled
<1>1. ASSUME NEW k \in Keys, entity'[k] # None
      PROVE  core'[entity'[k].email] # None /\ entity'[k].roled
  <2>1. CASE entity[k] # None
    <3>1. entity[k].email \in Emails /\ k \in Rows(entity[k].email)
      BY <2>1 DEF TypeOK, Account, Rows
    <3>2. entity'[k].email = entity[k].email /\ (entity[k].email \in Emails => entity'[k].roled)
      BY <2>1, Syncs
    <3>3. \A e \in Emails : Rows(e) # {} => core'[e] # None
      BY Syncs
    <3>. QED
      BY <3>1, <3>2, <3>3
  <2>2. CASE entity[k] = None
    BY <1>1, <2>2, Syncs
  <2>. QED
    BY <2>1, <2>2
<1>2. ASSUME NEW e \in Emails, core'[e] # None
      PROVE  \/ entity'[core'[e].id] # None
             \/ \E k \in Keys : entity'[k] # None /\ entity'[k].email = e
  <2>1. CASE Rows(e) = {}
    <3>1. \A f \in Emails : core'[f] # None /\ Rows(f) = {} => entity'[core'[f].id] # None
      BY Syncs
    <3>. QED
      BY <1>2, <2>1, <3>1
  <2>2. CASE Rows(e) # {}
    <3>1. PICK k \in Keys : entity[k] # None /\ entity[k].email = e
      BY <2>2 DEF Rows
    <3>2. entity'[k] # None /\ entity'[k].email = entity[k].email
      BY <3>1, Syncs
    <3>. QED
      BY <3>1, <3>2
  <2>. QED
    BY <2>1, <2>2
<1>. QED
  BY <1>1, <1>2 DEF Paired

\* What any step of a start may do to a record of each store.
CoreKept(e) ==
    core[e] # None =>
      \/ core'[e] = core[e]
      \/ e = AdminEmail /\ core'[e] # None /\ core'[e].pw = AdminPw
      \/ e \in DemoEmails \ {AdminEmail} /\ core[e].pw = OldPw /\ core'[e] = None

RowKept(k) ==
    entity[k] # None =>
      \/ /\ entity'[k] # None
         /\ entity'[k].email = entity[k].email /\ entity'[k].pw = entity[k].pw
      \/ \E r \in Requests :
           /\ req[r].pc \in {"entity", "delentity"} /\ req[r].key = k
           /\ req[r].acc.email \in {AdminEmail} \cup DemoEmails

LEMMA WorkKeeps ==
    ASSUME TypeOK, BootWork, start.at # "up",
           NEW r \in Requests, EntityApi(r) \/ Auth(r) \/ Fails(r)
    PROVE  (\A e \in Emails : CoreKept(e)) /\ \A k \in Keys : RowKept(k)
<1>2. \/ SavesAdmin(r) /\ (SaveCore(r) \/ SaveEntity(r) \/ Fails(r))
      \/ RemovesDemo(r) /\ (DeleteCore(r) \/ DeleteEntity(r) \/ Fails(r))
  BY WorkSteps
<1>3. req[r].acc.email \in {AdminEmail} \cup DemoEmails
  BY <1>2 DEF SavesAdmin, RemovesDemo
<1>4. CASE entity' = entity /\ core' = core
  BY <1>4 DEF CoreKept, RowKept
<1>5. CASE SavesAdmin(r) /\ SaveCore(r)
  <2>1. /\ core' = [core EXCEPT ![AdminEmail] = [id |-> req[r].key, pw |-> AdminPw]]
        /\ entity' = entity
    BY <1>5 DEF SavesAdmin, SaveCore
  <2>2. [id |-> req[r].key, pw |-> AdminPw] # None
    <3>1. req[r].key \in Keys
      BY <1>5 DEF SaveCore, TypeOK, ReqState
    <3>. QED
      BY <3>1 DEF CoreUser
  <2>3. core \in [Emails -> CoreUser \cup {None}]
    BY DEF TypeOK
  <2>. QED
    BY <2>1, <2>2, <2>3 DEF CoreKept, RowKept
<1>6. CASE RemovesDemo(r) /\ DeleteCore(r)
  <2>1. PICK e \in DemoEmails \ {AdminEmail} :
          /\ core' = [core EXCEPT ![e] = None] /\ entity' = entity
          /\ core[e].pw = OldPw
    BY <1>6 DEF RemovesDemo, DeleteCore
  <2>3. core \in [Emails -> CoreUser \cup {None}]
    BY DEF TypeOK
  <2>. QED
    BY <2>1, <2>3 DEF CoreKept, RowKept
<1>7. CASE SaveEntity(r) \/ DeleteEntity(r)
  <2>1. PICK row : entity' = [entity EXCEPT ![req[r].key] = row] /\ core' = core
    BY <1>7 DEF SaveEntity, DeleteEntity
  <2>2. req[r].pc \in {"entity", "delentity"}
    BY <1>7 DEF SaveEntity, DeleteEntity
  <2>3. entity \in [Keys -> Account \cup {None}]
    BY DEF TypeOK
  <2>. QED
    BY <1>3, <2>1, <2>2, <2>3 DEF CoreKept, RowKept
<1>. QED
  BY <1>2, <1>4, <1>5, <1>6, <1>7 DEF Fails

LEMMA StartKeeps ==
    ASSUME TypeOK, BootWork, start.at # "up", [Next]_vars
    PROVE  (\A e \in Emails : CoreKept(e)) /\ \A k \in Keys : RowKept(k)
<1>1. CASE entity' = entity /\ core' = core
  BY <1>1 DEF CoreKept, RowKept
<1>2. ASSUME NEW reached \in SUBSET Emails, Sync(reached)
      PROVE  (\A e \in Emails : CoreKept(e)) /\ \A k \in Keys : RowKept(k)
  <2>1. \A e \in Emails : CoreKept(e)
    BY <1>2, Syncs DEF CoreKept
  <2>2. \A k \in Keys : RowKept(k)
    BY <1>2, Syncs DEF RowKept
  <2>. QED
    BY <2>1, <2>2
<1>3. CASE Boot
  <2>1. (\E reached \in SUBSET Emails : Sync(reached)) \/ UNCHANGED <<entity, core>>
    BY <1>3 DEF Boot, Restart, AdminExists, DemosDone, SetAdmin, FirstAdmin, RemoveDemo
  <2>. QED
    BY <1>1, <1>2, <2>1
<1>4. CASE \E r \in Requests : EntityApi(r) \/ Auth(r) \/ Fails(r)
  BY <1>4, WorkKeeps
<1>5. CASE UNCHANGED vars
  BY <1>1, <1>5 DEF vars
<1>. QED
  BY <1>3, <1>4, <1>5 DEF Next

LEMMA BootWorkAlways == Spec => []BootWork
<1>1. ASSUME TypeOK, BootWork, [Next]_vars PROVE BootWork'
  <2>1. CASE Boot
    BY <1>1, <2>1, BootWorkBoot
  <2>2. CASE \E r \in Requests : EntityApi(r) \/ Auth(r) \/ Fails(r)
    BY <1>1, <2>2, BootWorkRequests
  <2>3. CASE UNCHANGED vars
    BY <1>1, <2>3 DEF vars, BootWork, SavesAdmin, RemovesDemo
  <2>. QED
    BY <1>1, <2>1, <2>2, <2>3 DEF Next
<1>. QED
  BY <1>1, BootWorkInit, TypeCorrect, PTL DEF Spec

\* A start of the process whose calls succeed leaves every user in both stores and every
\* row with a role.  Whichever of its Saves and Deletes fail and wherever it is cut short,
\* it changes no record but the configured administrator's, to the configured password,
\* and demo accounts with the demo password, which it deletes (BootstrapAdmin and
\* syncUserStores, core/services/auth_service.go).
THEOREM BootRepairs == Spec => RestartRepairs
<1> DEFINE Repairs ==
       start.at # "up" =>
         /\ Sync(Emails) => /\ Paired(entity', core')
                            /\ \A k \in Keys : entity'[k] # None => entity'[k].roled
         /\ \A e \in Emails : core[e] # None =>
              \/ core'[e] = core[e]
              \/ e = AdminEmail /\ core'[e] # None /\ core'[e].pw = AdminPw
              \/ e \in DemoEmails \ {AdminEmail} /\ core[e].pw = OldPw /\ core'[e] = None
         /\ \A k \in Keys : entity[k] # None =>
              \/ /\ entity'[k] # None
                 /\ entity'[k].email = entity[k].email /\ entity'[k].pw = entity[k].pw
              \/ \E r \in Requests :
                   /\ req[r].pc \in {"entity", "delentity"} /\ req[r].key = k
                   /\ req[r].acc.email \in {AdminEmail} \cup DemoEmails
<1>1. ASSUME TypeOK, BootWork, [Next]_vars, start.at # "up" PROVE Repairs
  <2>1. (\A e \in Emails : CoreKept(e)) /\ \A k \in Keys : RowKept(k)
    BY <1>1, StartKeeps
  <2>2. Sync(Emails) => /\ Paired(entity', core')
                        /\ \A k \in Keys : entity'[k] # None => entity'[k].roled
    BY <1>1, SyncPairs
  <2>. QED
    BY <2>1, <2>2 DEF CoreKept, RowKept
<1>2. TypeOK /\ BootWork /\ [Next]_vars => Repairs
  BY <1>1
<1> HIDE DEF Repairs
<1>3. Spec => [][Repairs]_vars
  BY <1>2, TypeCorrect, BootWorkAlways, PTL DEF Spec
<1>. QED
  BY <1>3 DEF RestartRepairs, Repairs

-----------------------------------------------------------------------------
(* A user deleted undisturbed stays deleted *)

\* Of an email that is not loose one request at most is at work, and a Delete on
\* its way leaves nothing of it; nobody is about to save an email that is gone.
OwnsWork ==
    /\ DeletedStaysGone
    /\ \A r \in Requests, e \in Emails :
         Holds(r, e) /\ req[r].pc # "lookup" => e \notin gone
    /\ \A e \in Emails \ loose : \A r, q \in Requests : Holds(r, e) /\ Holds(q, e) => r = q
    /\ \A e \in Emails \ loose : \A r \in Requests :
         Holds(r, e) /\ req[r].pc \in {"delcore", "delentity"} => Rows(e) \subseteq {req[r].key}
    /\ \A e \in Emails \ loose : \A r \in Requests :
         Holds(r, e) /\ req[r].pc = "delentity" => core[e] = None

\* Request r is alone with an email, if nothing excuses it.
Alone(r, e) == e \in loose' \/ \A q \in Requests \ {r} : ~Holds(q, e)

\* A step of request r that saves nothing but emails in F, which are not gone
\* and its own, and takes up an email only alone.
Orderly(r, F) ==
    /\ \A q \in Requests \ {r} : req'[q] = req[q]
    /\ loose \subseteq loose' /\ gone' \subseteq gone
    /\ \A e \in F : e \notin gone' /\ Alone(r, e)
    /\ \A e \in Emails \ F : Rows(e)' \subseteq Rows(e) /\ core'[e] \in {core[e], None}
    /\ \A e \in Emails : Holds(r, e)' =>
         /\ Holds(r, e) \/ Alone(r, e)
         /\ req'[r].pc # "lookup" => e \notin gone'
         /\ req'[r].pc \in {"delcore", "delentity"} =>
              e \in loose' \/ Rows(e)' \subseteq {req'[r].key}
         /\ req'[r].pc = "delentity" => e \in loose' \/ core'[e] = None

LEMMA OrderlyKeeps ==
    ASSUME TypeOK, OwnsWork, NEW r \in Requests, NEW F, Orderly(r, F)
    PROVE  OwnsWork'
<1>1. DeletedStaysGone'
  <2> SUFFICES ASSUME NEW e \in gone' PROVE core'[e] = None /\ Rows(e)' = {}
    BY DEF DeletedStaysGone
  <2>1. e \in gone /\ e \in Emails /\ e \notin F
    BY DEF Orderly, TypeOK
  <2>2. core[e] = None /\ Rows(e) = {}
    BY <2>1 DEF OwnsWork, DeletedStaysGone
  <2>3. Rows(e)' \subseteq Rows(e) /\ core'[e] \in {core[e], None}
    BY <2>1 DEF Orderly
  <2>. QED
    BY <2>2, <2>3
<1>2. ASSUME NEW q \in Requests, q # r, NEW e \in Emails
      PROVE  /\ req'[q] = req[q]
             /\ Holds(q, e)' <=> Holds(q, e)
             /\ e \notin loose' => e \notin loose
  BY <1>2 DEF Orderly, Holds
<1>3. ASSUME NEW q \in Requests, NEW e \in Emails, Holds(q, e)', req'[q].pc # "lookup"
      PROVE  e \notin gone'
  <2>1. CASE q = r
    BY <1>3, <2>1 DEF Orderly
  <2>2. CASE q # r
    <3>1. e \notin gone
      BY <1>2, <1>3, <2>2 DEF OwnsWork
    <3>. QED
      BY <3>1 DEF Orderly
  <2>. QED
    BY <2>1, <2>2
<1>4. ASSUME NEW e \in Emails \ loose', NEW q \in Requests, q # r, Holds(q, e)'
      PROVE  ~Holds(r, e)' /\ e \notin F
  <2>1. Holds(q, e) /\ e \notin loose
    BY <1>2, <1>4
  <2>2. ~Holds(r, e)
    BY <1>4, <2>1 DEF OwnsWork
  <2>3. ~Alone(r, e)
    BY <1>4, <2>1 DEF Alone
  <2>4. ~Holds(r, e)'
    BY <2>2, <2>3 DEF Orderly
  <2>5. e \notin F
    BY <2>3 DEF Orderly
  <2>. QED
    BY <2>4, <2>5
<1>5. ASSUME NEW e \in Emails \ loose', NEW p \in Requests, NEW q \in Requests,
             Holds(p, e)', Holds(q, e)'
      PROVE  p = q
  <2>1. CASE p = r \/ q = r
    BY <1>4, <1>5, <2>1
  <2>2. CASE p # r /\ q # r
    BY <1>2, <1>5, <2>2 DEF OwnsWork
  <2>. QED
    BY <2>1, <2>2
<1>6. ASSUME NEW e \in Emails \ loose', NEW q \in Requests,
             Holds(q, e)', req'[q].pc \in {"delcore", "delentity"}
      PROVE  /\ Rows(e)' \subseteq {req'[q].key}
             /\ req'[q].pc = "delentity" => core'[e] = None
  <2>1. CASE q = r
    BY <1>6, <2>1 DEF Orderly
  <2>2. CASE q # r
    <3>1. req'[q] = req[q] /\ Holds(q, e) /\ e \notin loose /\ e \notin F
      BY <1>2, <1>4, <1>6, <2>2
    <3>2. Rows(e) \subseteq {req[q].key} /\ (req[q].pc = "delentity" => core[e] = None)
      BY <1>6, <3>1 DEF OwnsWork
    <3>3. Rows(e)' \subseteq Rows(e) /\ core'[e] \in {core[e], None}
      BY <3>1 DEF Orderly
    <3>. QED
      BY <3>1, <3>2, <3>3
  <2>. QED
    BY <2>1, <2>2
<1>. QED
  BY <1>1, <1>3, <1>5, <1>6 DEF OwnsWork


\* A step of request r that touches neither store, and goes on with an email it
\* has in hand already or begins with alone.
LEMMA QuietIsOrderly ==
    ASSUME TypeOK, OwnsWork, NEW r \in Requests, NEW pc, NEW k \in Keys \cup {None}, NEW acc,
           Goto(r, pc, k, acc), UNCHANGED <<entity, core>>,
           loose \subseteq loose', gone' \subseteq gone,
           \A e \in Emails : acc # None /\ acc.email = e =>
             /\ Alone(r, e)
             /\ pc # "lookup" => e \notin gone'
             /\ pc = "delcore" => e \in loose' \/ Rows(e) \subseteq {k},
           pc # "delentity"
    PROVE  OwnsWork'
<1>1. \A q \in Requests \ {r} : req'[q] = req[q]
  BY DEF Goto, TypeOK
<1>2. req'[r] = [pc |-> pc, key |-> k, acc |-> acc]
  BY DEF Goto, TypeOK
<1>3. \A e \in Emails : Rows(e)' = Rows(e)
  BY DEF Rows
<1>4. \A e \in Emails : Holds(r, e)' <=> acc # None /\ acc.email = e
  BY <1>2 DEF Holds
<1>5. Orderly(r, {})
  <2>1. \A e \in Emails : Holds(r, e)' => Alone(r, e) /\ (pc # "lookup" => e \notin gone')
    BY <1>4
  <2>2. \A e \in Emails : Holds(r, e)' /\ pc = "delcore" => e \in loose' \/ Rows(e)' \subseteq {k}
    BY <1>3, <1>4
  <2>3. req'[r].pc = pc /\ req'[r].key = k
    BY <1>2
  <2>4. \A e \in Emails : Rows(e)' \subseteq Rows(e) /\ core'[e] \in {core[e], None}
    BY <1>3
  <2>. QED
    BY <1>1, <2>1, <2>2, <2>3, <2>4 DEF Orderly
<1>. QED
  BY <1>5, OrderlyKeeps


\* What a request begins to work with it has alone, and is not gone.
LEMMA BeginAlone ==
    ASSUME TypeOK, NEW r \in Requests, NEW k \in Keys, NEW es \in SUBSET Emails, Begin(r, k, es)
    PROVE  /\ loose \subseteq loose' /\ gone' \subseteq gone
           /\ \A e \in es : Alone(r, e) /\ e \notin gone' /\ (e \in loose' \/ Rows(e) \subseteq {k})
BY DEF Begin, Disturbed, Alone

\* A step of request r that begins with es, touches neither store, and goes on
\* with an email among es.
LEMMA BeginKeeps ==
    ASSUME TypeOK, OwnsWork, NEW r \in Requests, NEW pc, NEW k \in Keys, NEW acc \in Account,
           NEW es \in SUBSET Emails,
           Begin(r, k, es), Goto(r, pc, k, acc), UNCHANGED <<entity, core>>,
           acc.email \in es, pc # "delentity"
    PROVE  OwnsWork'
<1>1. /\ loose \subseteq loose' /\ gone' \subseteq gone
      /\ \A e \in es : Alone(r, e) /\ e \notin gone' /\ (e \in loose' \/ Rows(e) \subseteq {k})
  BY BeginAlone
<1>2. \A e \in Emails : acc # None /\ acc.email = e =>
        /\ Alone(r, e)
        /\ pc # "lookup" => e \notin gone'
        /\ pc = "delcore" => e \in loose' \/ Rows(e) \subseteq {k}
  BY <1>1
<1>. QED
  BY <1>1, <1>2, QuietIsOrderly

\* A step of request r that saves what it has in hand.
LEMMA SaveKeeps ==
    ASSUME TypeOK, OwnsWork, NEW r \in Requests, req[r].pc \notin {"idle", "lookup"},
           Unexcused,
           NEW next \in {Idle} \cup [pc : {"mirror", "entity"}, key : {req[r].key}, acc : {req[r].acc}],
           req' = [req EXCEPT ![r] = next],
           \A e \in Emails \ {req[r].acc.email} : Rows(e)' \subseteq Rows(e) /\ core'[e] = core[e]
    PROVE  OwnsWork'
<1> DEFINE f == req[r].acc.email
<1>1. f \in Emails /\ req[r].acc # None /\ Holds(r, f)
  BY HeldType DEF TypeOK, Holds
<1>2. /\ loose' = loose /\ gone' = gone
      /\ \A q \in Requests \ {r} : req'[q] = req[q]
      /\ req'[r] = next
  BY DEF Unexcused, TypeOK
<1>3. f \notin gone' /\ Alone(r, f)
  <2>1. f \notin gone
    BY <1>1 DEF OwnsWork
  <2>2. f \in loose \/ \A q \in Requests \ {r} : ~Holds(q, f)
    BY <1>1 DEF OwnsWork
  <2>. QED
    BY <1>2, <2>1, <2>2 DEF Alone
<1>4. ASSUME NEW e \in Emails, Holds(r, e)' PROVE e = f /\ Holds(r, e)
  <2>1. next # Idle
    BY <1>2, <1>4 DEF Holds, Idle
  <2>2. next.acc = req[r].acc
    BY <2>1
  <2>. QED
    BY <1>1, <1>2, <1>4, <2>2 DEF Holds
<1>5. next.pc \notin {"delcore", "delentity"}
  BY DEF Idle
<1>6. Orderly(r, {f})
  BY <1>2, <1>3, <1>4, <1>5 DEF Orderly
<1>. QED
  BY <1>6, OrderlyKeeps

LEMMA EntityApiOwns ==
    ASSUME TypeOK, OwnsWork, NEW r \in Requests, EntityApi(r)
    PROVE  OwnsWork'
<1>1. ASSUME NEW k \in Keys, NEW e \in Emails, Insert(r, k, e) PROVE OwnsWork'
  <2> DEFINE es == {e} \cup EmailAt(k)
             acc == User(e, writes')
  <2>1. es \in SUBSET Emails /\ e \in es
    BY EntityType
  <2>2. /\ req' = [req EXCEPT ![r] = [pc |-> "mirror", key |-> k, acc |-> acc]]
        /\ entity' = [entity EXCEPT ![k] = acc] /\ core' = core /\ Begin(r, k, es)
    BY <1>1 DEF Insert, Goto
  <2> HIDE DEF es
  <2>3. /\ loose \subseteq loose' /\ gone' \subseteq gone
        /\ Alone(r, e) /\ e \notin gone'
    BY <2>1, <2>2, BeginAlone
  <2>4. \A g \in Emails \ {e} : Rows(g)' \subseteq Rows(g)
    BY <2>2 DEF Rows, TypeOK
  <2>5. /\ \A q \in Requests \ {r} : req'[q] = req[q]
        /\ req'[r].pc = "mirror"
        /\ \A g \in Emails : Holds(r, g)' => g = e
    BY <2>2 DEF Holds, TypeOK
  <2> HIDE DEF acc
  <2>6. Orderly(r, {e})
    BY <2>2, <2>3, <2>4, <2>5 DEF Orderly
  <2>. QED
    BY <2>6, OrderlyKeeps
<1>2. ASSUME NEW k \in Keys, UpdatePassword(r, k) PROVE OwnsWork'
  <2> DEFINE acc == User(entity[k].email, writes')
             es == {entity[k].email}
  <2>1. acc \in Account /\ es \in SUBSET Emails /\ acc.email \in es
    BY <1>2, EntityType DEF UpdatePassword, TypeOK, Account
  <2>2. Goto(r, "save", k, acc) /\ Begin(r, k, es) /\ UNCHANGED <<entity, core>>
    BY <1>2 DEF UpdatePassword
  <2> HIDE DEF acc, es
  <2>. QED
    BY <2>1, <2>2, BeginKeeps
<1>3. ASSUME NEW k \in Keys, NEW e \in Emails, UpdateOther(r, k, e) PROVE OwnsWork'
  <2> DEFINE acc == User(e, entity[k].pw)
             es == {entity[k].email, e}
  <2>1. acc \in Account /\ es \in SUBSET Emails /\ acc.email \in es
    BY <1>3, EntityType DEF UpdateOther, Account
  <2>2. Goto(r, "save", k, acc) /\ Begin(r, k, es) /\ UNCHANGED <<entity, core>>
    BY <1>3 DEF UpdateOther
  <2> HIDE DEF acc, es
  <2>. QED
    BY <2>1, <2>2, BeginKeeps
<1>4. CASE UpdateSave(r)
  <2>1. /\ req[r].pc = "save" /\ Unexcused /\ core' = core
        /\ req' = [req EXCEPT ![r] = [pc |-> "mirror", key |-> req[r].key, acc |-> req[r].acc]]
        /\ entity' = [entity EXCEPT ![req[r].key] = req[r].acc]
    BY <1>4 DEF UpdateSave, Goto
  <2>2. \A e \in Emails \ {req[r].acc.email} : Rows(e)' \subseteq Rows(e)
    BY <2>1 DEF Rows, TypeOK
  <2>. QED
    BY <2>1, <2>2, SaveKeeps
<1>5. CASE Mirror(r)
  <2>1. /\ req[r].pc = "mirror" /\ Unexcused /\ entity' = entity
        /\ req' = [req EXCEPT ![r] = Idle]
        /\ \A e \in Emails \ {req[r].acc.email} : core'[e] = core[e]
    BY <1>5 DEF Mirror, Done, TypeOK
  <2>2. \A e \in Emails : Rows(e)' = Rows(e)
    BY <2>1 DEF Rows
  <2>. QED
    BY <2>1, <2>2, SaveKeeps
<1>6. ASSUME NEW k \in Keys, Delete(r, k) PROVE OwnsWork'
  <2>1. entity[k] \in Account /\ {entity[k].email} \in SUBSET Emails
    BY <1>6, EntityType DEF Delete
  <2>2. PICK acc \in Account :
          acc = User(entity[k].email, entity[k].pw) /\ acc.email = entity[k].email
    BY <1>6, RowUser DEF Delete
  <2>3. /\ Goto(r, "delcore", k, acc) /\ Begin(r, k, {entity[k].email})
        /\ UNCHANGED <<entity, core>>
    BY <1>6, <2>2 DEF Delete
  <2>. QED
    BY <2>1, <2>2, <2>3, BeginKeeps
<1>7. CASE DeleteCore(r)
  <2> DEFINE f == req[r].acc.email
  <2>1. /\ req[r].pc = "delcore" /\ loose' = loose /\ gone' = gone /\ entity' = entity
        /\ req' = [req EXCEPT ![r] = [pc |-> "delentity", key |-> req[r].key, acc |-> req[r].acc]]
        /\ core' = [core EXCEPT ![f] = None]
    BY <1>7 DEF DeleteCore, Goto, Unexcused
  <2>2. f \in Emails
    BY <2>1, HeldType
  <2>3. \A e \in Emails : Rows(e)' = Rows(e) /\ core'[e] \in {core[e], None}
    BY <2>1 DEF Rows, TypeOK
  <2>4. /\ \A q \in Requests \ {r} : req'[q] = req[q]
        /\ req'[r].key = req[r].key
        /\ \A e \in Emails : Holds(r, e)' => Holds(r, e) /\ e = f
    BY <2>1 DEF Holds, TypeOK
  <2>5. core'[f] = None
    BY <2>1, <2>2 DEF TypeOK
  <2>6. \A e \in Emails : Holds(r, e) => e \notin gone /\ (e \in loose \/ Rows(e) \subseteq {req[r].key})
    BY <2>1 DEF OwnsWork
  <2> HIDE DEF f
  <2>7. Orderly(r, {})
    BY <2>1, <2>3, <2>4, <2>5, <2>6 DEF Orderly
  <2>. QED
    BY <2>7, OrderlyKeeps
<1>8. CASE DeleteEntity(r)
  <2> DEFINE f == req[r].acc.email
  <2>1. /\ req[r].pc = "delentity" /\ core' = core /\ loose' = loose
        /\ gone' = IF f \in loose THEN gone ELSE gone \cup {f}
        /\ req' = [req EXCEPT ![r] = Idle]
        /\ entity' = [entity EXCEPT ![req[r].key] = None]
    BY <1>8 DEF DeleteEntity, Done
  <2>2. f \in Emails /\ Holds(r, f) /\ req[r].key \in Keys
    BY <2>1, HeldType DEF TypeOK, Holds
  <2>3. \A e \in Emails : Rows(e)' = Rows(e) \ {req[r].key}
    BY <2>1, <2>2 DEF Rows, TypeOK
  <2>4. /\ \A e \in Emails : ~Holds(r, e)'
        /\ \A q \in Requests \ {r} : req'[q] = req[q]
    BY <2>1 DEF Holds, Idle, TypeOK
  <2>5. \A q \in Requests, e \in Emails :
          Holds(q, e)' => q # r /\ req'[q] = req[q] /\ Holds(q, e)
    BY <2>4 DEF Holds
  <2>6. f \notin loose => /\ core[f] = None /\ Rows(f) \subseteq {req[r].key}
                         /\ \A q \in Requests \ {r} : ~Holds(q, f)
    BY <2>1, <2>2 DEF OwnsWork
  <2> HIDE DEF f
  <2>7. DeletedStaysGone'
    <3> SUFFICES ASSUME NEW e \in gone' PROVE core'[e] = None /\ Rows(e)' = {}
      BY DEF DeletedStaysGone
    <3>1. CASE e \in gone
      <4>1. e \in Emails /\ core[e] = None /\ Rows(e) = {}
        BY <3>1 DEF OwnsWork, DeletedStaysGone, TypeOK
      <4>. QED
        BY <4>1, <2>1, <2>3
    <3>2. CASE e \notin gone
      <4>1. e = f /\ f \notin loose
        BY <3>2, <2>1
      <4>. QED
        BY <4>1, <2>1, <2>2, <2>3, <2>6
    <3>. QED
      BY <3>1, <3>2
  <2>8. \A q \in Requests, e \in Emails : Holds(q, e)' /\ req'[q].pc # "lookup" => e \notin gone'
    BY <2>1, <2>5, <2>6 DEF OwnsWork
  <2>9. \A e \in Emails \ loose' : \A p, q \in Requests : Holds(p, e)' /\ Holds(q, e)' => p = q
    BY <2>1, <2>5 DEF OwnsWork
  <2>10. \A e \in Emails \ loose' : \A q \in Requests :
           Holds(q, e)' /\ req'[q].pc \in {"delcore", "delentity"} =>
             /\ Rows(e)' \subseteq {req'[q].key}
             /\ req'[q].pc = "delentity" => core'[e] = None
    BY <2>1, <2>3, <2>5 DEF OwnsWork
  <2>. QED
    BY <2>7, <2>8, <2>9, <2>10 DEF OwnsWork
<1>. QED
  BY <1>1, <1>2, <1>3, <1>4, <1>5, <1>6, <1>7, <1>8 DEF EntityApi


LEMMA AuthOwns ==
    ASSUME TypeOK, OwnsWork, NEW r \in Requests, Auth(r)
    PROVE  OwnsWork'
<1>1. ASSUME NEW e \in Emails, LoginMiss(r, e) PROVE OwnsWork'
  <2> DEFINE acc == User(e, 0)
  <2>1. /\ Goto(r, "lookup", None, acc) /\ UNCHANGED <<entity, core>> /\ gone' = gone
        /\ loose \subseteq loose' /\ Alone(r, e)
    BY <1>1 DEF LoginMiss, Alone
  <2>2. acc.email = e
    OBVIOUS
  <2> HIDE DEF acc
  <2>. QED
    BY <2>1, <2>2, QuietIsOrderly
<1>2. ASSUME NEW e \in Emails, ResetPass(r, e) PROVE OwnsWork'
  <2> DEFINE acc == User(e, writes')
             i == core[e].id
  <2>1. /\ Goto(r, "mirror", i, acc) /\ UNCHANGED <<entity, core>>
        /\ loose' = loose \cup {e} /\ gone' = gone \ {e} /\ core[e] # None
    BY <1>2 DEF ResetPass
  <2>2. i \in Keys /\ acc.email = e /\ Alone(r, e)
    BY <2>1, CoreType DEF Alone
  <2> HIDE DEF acc, i
  <2>3. \A g \in Emails : acc # None /\ acc.email = g => Alone(r, g) /\ g \notin gone'
    BY <2>1, <2>2
  <2>4. loose \subseteq loose' /\ gone' \subseteq gone
    BY <2>1
  <2>. QED
    BY <2>1, <2>2, <2>3, <2>4, QuietIsOrderly
<1>3. ASSUME NEW i \in Keys, MeMiss(r, i) PROVE OwnsWork'
  <2>1. /\ Goto(r, "lookup", i, None) /\ UNCHANGED <<entity, core>>
        /\ loose' = loose /\ gone' = gone
    BY <1>3 DEF MeMiss
  <2>. QED
    BY <2>1, QuietIsOrderly
<1>4. ASSUME NEW i \in Keys, LinkChannel(r, i) PROVE OwnsWork'
  <2> DEFINE mine == {e \in Emails : Mirrors(e, i)}
             e == First(mine)
             acc == User(e, core[e].pw)
             es == mine \cup EmailAt(i)
  <2>1. mine # {} /\ mine \in SUBSET Emails
    BY <1>4 DEF LinkChannel
  <2>2. e \in mine /\ e \in Emails /\ core[e] # None
    <3>1. e \in mine
      BY <2>1, FirstIn
    <3>. QED
      BY <3>1 DEF Mirrors
  <2>3. Goto(r, "core", i, acc) /\ Begin(r, i, es) /\ UNCHANGED <<entity, core>>
    BY <1>4 DEF LinkChannel
  <2>4. es \in SUBSET Emails
    BY <2>1, EntityType
  <2> HIDE DEF mine
  <2>5. e \in es
    BY <2>2
  <2> HIDE DEF e, es
  <2>6. acc \in Account /\ acc.email = e
    BY <2>2, CoreType DEF Account
  <2> HIDE DEF acc
  <2>. QED
    BY <2>3, <2>4, <2>5, <2>6, BeginKeeps
<1>5. ASSUME NEW k \in Keys, NEW e \in Emails, Register(r, k, e) PROVE OwnsWork'
  <2> DEFINE acc == User(e, writes')
  <2>1. /\ req' = [req EXCEPT ![r] = [pc |-> "entity", key |-> k, acc |-> acc]]
        /\ \A g \in Emails \ {e} : core'[g] = core[g]
        /\ entity' = entity /\ Begin(r, k, {e})
    BY <1>5 DEF Register, Goto, TypeOK
  <2>2. /\ loose \subseteq loose' /\ gone' \subseteq gone
        /\ Alone(r, e) /\ e \notin gone'
    BY <2>1, BeginAlone
  <2>3. \A g \in Emails : Rows(g)' = Rows(g)
    BY <2>1 DEF Rows
  <2>4. /\ \A q \in Requests \ {r} : req'[q] = req[q]
        /\ req'[r].pc = "entity"
        /\ \A g \in Emails : Holds(r, g)' => g = e
    BY <2>1 DEF Holds, TypeOK
  <2> HIDE DEF acc
  <2>5. Orderly(r, {e})
    BY <2>1, <2>2, <2>3, <2>4 DEF Orderly
  <2>. QED
    BY <2>5, OrderlyKeeps
<1>6. CASE Lookup(r)
  <2>1. CASE Found(r) = {}
    <3>1. /\ req' = [req EXCEPT ![r] = Idle] /\ UNCHANGED <<entity, core>>
          /\ loose' = loose /\ gone' = gone
      BY <1>6, <2>1 DEF Lookup, Done, Unexcused
    <3>2. Goto(r, "idle", None, None)
      BY <3>1 DEF Goto, Idle
    <3>. QED
      BY <3>1, <3>2, QuietIsOrderly
  <2>2. CASE Found(r) # {}
    <3> DEFINE k == First(Found(r))
               e == entity[k].email
    <3>1. Found(r) \in SUBSET Keys /\ \A j \in Found(r) : entity[j] # None
      BY DEF Found, Rows
    <3>2. k \in Keys /\ entity[k] # None
      BY <2>2, <3>1, FirstIn
    <3>3. /\ Goto(r, "mirror", k, User(entity[k].email, entity[k].pw)) /\ UNCHANGED <<entity, core>> /\ gone' = gone
          /\ loose' = IF Disturbed(r, k, e) THEN loose \cup {e} ELSE loose
      BY <1>6, <2>2 DEF Lookup
    <3> HIDE DEF k
    <3>4. e \in Emails /\ k \in Rows(e)
      BY <3>2, EntityType DEF Rows
    <3>5. loose \subseteq loose' /\ Alone(r, e)
      BY <3>3 DEF Disturbed, Alone
    <3>6. e \notin gone'
      BY <3>3, <3>4 DEF OwnsWork, DeletedStaysGone
    <3>. QED
      BY <3>2, <3>3, <3>5, <3>6, QuietIsOrderly
  <2>. QED
    BY <2>1, <2>2
<1>7. CASE SaveCore(r)
  <2> DEFINE next == [pc |-> "entity", key |-> req[r].key, acc |-> req[r].acc]
  <2>1. /\ req[r].pc = "core" /\ Unexcused /\ entity' = entity
        /\ req' = [req EXCEPT ![r] = next]
        /\ core' = [core EXCEPT ![req[r].acc.email] = [id |-> req[r].key, pw |-> req[r].acc.pw]]
    BY <1>7 DEF SaveCore, Goto
  <2>2. \A e \in Emails \ {req[r].acc.email} : Rows(e)' \subseteq Rows(e) /\ core'[e] = core[e]
    BY <2>1 DEF Rows, TypeOK
  <2>3. next \in {Idle} \cup [pc : {"mirror", "entity"}, key : {req[r].key}, acc : {req[r].acc}]
    OBVIOUS
  <2> HIDE DEF next
  <2>4. req[r].pc \notin {"idle", "lookup"} /\ Unexcused /\ req' = [req EXCEPT ![r] = next]
    BY <2>1
  <2>. QED
    BY <2>2, <2>3, <2>4, SaveKeeps
<1>8. CASE SaveEntity(r)
  <2>1. /\ req[r].pc = "entity" /\ Unexcused /\ core' = core
        /\ req' = [req EXCEPT ![r] = Idle]
        /\ entity' = [entity EXCEPT ![req[r].key] = req[r].acc]
    BY <1>8 DEF SaveEntity, Done
  <2>2. \A e \in Emails \ {req[r].acc.email} : Rows(e)' \subseteq Rows(e) /\ core'[e] = core[e]
    BY <2>1 DEF Rows, TypeOK
  <2>3. req[r].pc \notin {"idle", "lookup"} /\ Unexcused /\ req' = [req EXCEPT ![r] = Idle]
    BY <2>1
  <2>. QED
    BY <2>2, <2>3, SaveKeeps
<1>. QED
  BY <1>1, <1>2, <1>3, <1>4, <1>5, <1>6, <1>7, <1>8 DEF Auth

LEMMA FailsOwns ==
    ASSUME TypeOK, OwnsWork, NEW r \in Requests, Fails(r)
    PROVE  OwnsWork'
<1> DEFINE f == req[r].acc.email
<1>1. /\ req[r].pc \notin {"idle", "lookup"} /\ UNCHANGED <<entity, core>>
      /\ loose' = loose \cup {f} /\ gone' = gone
      /\ req' = [req EXCEPT ![r] = Idle]
         \/ req' = [req EXCEPT ![r] = [pc |-> "delentity", key |-> req[r].key, acc |-> req[r].acc]]
  BY DEF Fails, Broken, Goto, Done
<1>2. \A e \in Emails : Rows(e)' = Rows(e)
  BY <1>1 DEF Rows
<1>3. /\ \A q \in Requests \ {r} : req'[q] = req[q]
      /\ \A e \in Emails : Holds(r, e)' => Holds(r, e) /\ e = f
  BY <1>1 DEF Holds, Idle, TypeOK
<1>4. \A e \in Emails : Holds(r, e) => e \notin gone
  BY <1>1 DEF OwnsWork
<1> HIDE DEF f
<1>5. Orderly(r, {})
  BY <1>1, <1>2, <1>3, <1>4 DEF Orderly
<1>. QED
  BY <1>5, OrderlyKeeps

LEMMA SameOwns ==
    ASSUME OwnsWork, UNCHANGED <<entity, core, req, loose, gone>>
    PROVE  OwnsWork'
<1>1. \A e : Rows(e)' = Rows(e)
  BY DEF Rows
<1>2. \A r, e : Holds(r, e)' <=> Holds(r, e)
  BY DEF Holds
<1>3. DeletedStaysGone'
  BY <1>1 DEF OwnsWork, DeletedStaysGone
<1>. QED
  BY <1>1, <1>2, <1>3 DEF OwnsWork

LEMMA SyncOwns ==
    ASSUME TypeOK, OwnsWork, NEW reached \in SUBSET Emails, Sync(reached)
    PROVE  OwnsWork'
<1>1. /\ req' = req /\ gone' = gone /\ \A r \in Requests : req[r] = Idle
      /\ \A e \in Emails : Rows(e) = {} => core'[e] = core[e]
  BY Syncs
<1>2. \A r \in Requests, e \in Emails : ~Holds(r, e)'
  BY <1>1 DEF Holds, Idle
<1>3. ASSUME NEW e \in gone PROVE core'[e] = None /\ Rows(e)' = {}
  <2>1. e \in Emails /\ core[e] = None /\ Rows(e) = {} /\ core'[e] = None
    BY <1>1, <1>3 DEF OwnsWork, DeletedStaysGone, TypeOK
  <2>2. ASSUME NEW k \in Keys, entity'[k] # None, entity'[k].email = e PROVE FALSE
    <3>1. CASE entity[k] # None
      <4>1. entity'[k].email = entity[k].email
        BY <3>1, Syncs
      <4>. QED
        BY <2>1, <2>2, <3>1, <4>1 DEF Rows
    <3>2. CASE entity[k] = None
      <4>1. PICK g \in reached : core'[g] # None /\ entity'[k].email = g
        BY <2>2, <3>2, SyncsRow
      <4>. QED
        BY <2>1, <2>2, <4>1
    <3>. QED
      BY <3>1, <3>2
  <2>. QED
    BY <2>1, <2>2 DEF Rows
<1>. QED
  BY <1>1, <1>2, <1>3 DEF OwnsWork, DeletedStaysGone

LEMMA BootOwns ==
    ASSUME TypeOK, OwnsWork, Boot
    PROVE  OwnsWork'
<1>1. CASE Restart
  <2>1. gone' = gone /\ UNCHANGED <<entity, core>> /\ \A r \in Requests, e \in Emails : ~Holds(r, e)'
    BY <1>1 DEF Restart, Holds, Idle
  <2>2. \A e : Rows(e)' = Rows(e)
    BY <2>1 DEF Rows
  <2>. QED
    BY <2>1, <2>2 DEF OwnsWork, DeletedStaysGone
<1>2. CASE AdminExists \/ DemosDone
  BY <1>2, SameOwns DEF AdminExists, DemosDone
<1>3. ASSUME NEW reached \in SUBSET Emails, Sync(reached) PROVE OwnsWork'
  BY <1>3, SyncOwns
<1>4. ASSUME NEW r \in Requests, NEW i \in Keys, SetAdmin(r, i) \/ FirstAdmin(r, i)
      PROVE  OwnsWork'
  <2>0. AdminEmail \in Emails /\ AdminPw \in Nat
    BY <1>4 DEF SetAdmin, FirstAdmin
  <2>1. PICK acc \in Account : acc = User(AdminEmail, AdminPw) /\ acc.email = AdminEmail
    BY <2>0, UserType
  <2>2. PICK es \in SUBSET Emails : Begin(r, i, es) /\ AdminEmail \in es
    <3>1. {AdminEmail} \in SUBSET Emails /\ {AdminEmail} \cup EmailAt(i) \in SUBSET Emails
      BY <2>0, EmailAtType
    <3>. QED
      BY <1>4, <3>1 DEF SetAdmin, FirstAdmin
  <2>3. Goto(r, "core", i, acc) /\ UNCHANGED <<entity, core>>
    BY <1>4, <2>1 DEF SetAdmin, FirstAdmin
  <2>. QED
    BY <2>1, <2>2, <2>3, BeginKeeps
<1>5. ASSUME NEW r \in Requests, NEW e \in Emails, RemoveDemo(r, e) PROVE OwnsWork'
  <2>1. CASE core[e] # None /\ core[e].pw = OldPw
    <3>1. PICK i \in Keys : i = core[e].id
      BY <2>1, CoreType
    <3>2. PICK acc \in Account : acc = User(e, OldPw) /\ acc.email = e
      BY UserType DEF OldPw
    <3>3. PICK es \in SUBSET Emails : es = {e} \cup EmailAt(i) /\ e \in es
      BY EmailAtType
    <3>4. Goto(r, "delcore", i, acc) /\ Begin(r, i, es) /\ UNCHANGED <<entity, core>>
      BY <1>5, <2>1, <3>1, <3>2, <3>3 DEF RemoveDemo
    <3>. QED
      BY <3>2, <3>3, <3>4, BeginKeeps
  <2>2. CASE ~(core[e] # None /\ core[e].pw = OldPw)
    BY <1>5, <2>2, SameOwns DEF RemoveDemo, Unexcused
  <2>. QED
    BY <2>1, <2>2
<1>. QED
  BY <1>1, <1>2, <1>3, <1>4, <1>5 DEF Boot


LEMMA OwnsWorkAlways == Spec => []OwnsWork
<1>1. Init => OwnsWork
  BY DEF Init, OwnsWork, DeletedStaysGone, Holds, Idle
<1>2. TypeOK /\ OwnsWork /\ [Next]_vars => OwnsWork'
  <2> SUFFICES ASSUME TypeOK, OwnsWork, [Next]_vars PROVE OwnsWork'
    OBVIOUS
  <2>1. CASE UNCHANGED vars
    <3>1. UNCHANGED <<req, core, loose, gone>>
      BY <2>1 DEF vars
    <3>2. \A e : Rows(e)' = Rows(e)
      BY <2>1 DEF vars, Rows
    <3>3. \A r, e : Holds(r, e)' <=> Holds(r, e)
      BY <3>1 DEF Holds
    <3>4. DeletedStaysGone'
      BY <3>1, <3>2 DEF OwnsWork, DeletedStaysGone
    <3>. QED
      BY <3>1, <3>2, <3>3, <3>4 DEF OwnsWork
  <2>. QED
    BY <2>1, EntityApiOwns, AuthOwns, FailsOwns, BootOwns DEF Next
<1>. QED
  BY <1>1, <1>2, TypeCorrect, PTL DEF Spec

\* A user deleted with nobody else at work on the email stays deleted, in both
\* stores, through Login's and Me's copying and through restarts.
THEOREM DeletedForGood == Spec => []DeletedStaysGone
<1>1. OwnsWork => DeletedStaysGone
  BY DEF OwnsWork
<1>. QED
  BY <1>1, OwnsWorkAlways, PTL

-----------------------------------------------------------------------------
(* What requests and core records go by *)

CoreNumbered == \A e \in Emails : core[e] # None => Num[core[e].id] = core[e].id

\* A request without work holds no account, a lookup by id none either, and what
\* LinkChannel and Register save has a numeric key.
ReqTidy ==
    \A r \in Requests :
        /\ req[r].pc = "idle" => req[r].acc = None
        /\ req[r].pc = "lookup" => req[r].key = None \/ req[r].acc = None
        /\ req[r].pc \in {"core", "entity"} => Num[req[r].key] = req[r].key

Tidy == CoreNumbered /\ ReqTidy

LEMMA GotoTidy ==
    ASSUME TypeOK, ReqTidy, NEW r \in Requests, NEW pc, NEW k, NEW acc, Goto(r, pc, k, acc),
           pc # "idle", pc = "lookup" => k = None \/ acc = None,
           pc \in {"core", "entity"} => Num[k] = k
    PROVE  ReqTidy'
BY DEF TypeOK, ReqTidy, Goto

LEMMA DoneTidy ==
    ASSUME TypeOK, ReqTidy, NEW r \in Requests, Done(r)
    PROVE  ReqTidy'
BY DEF TypeOK, ReqTidy, Done, Idle

LEMMA CoreTidy ==
    ASSUME TypeOK, CoreNumbered, NEW e \in Emails, NEW i \in Keys, NEW n \in Nat, Num[i] = i,
           core' = [core EXCEPT ![e] = [id |-> i, pw |-> n]]
    PROVE  CoreNumbered'
BY DEF TypeOK, CoreNumbered

LEMMA EntityApiTidy ==
    ASSUME TypeOK, Tidy, NEW r \in Requests, EntityApi(r)
    PROVE  Tidy'
<1> USE DEF Tidy
<1>0. core' = core => CoreNumbered'
  BY DEF CoreNumbered
<1>1. ASSUME NEW k \in Keys, NEW e \in Emails, Insert(r, k, e) PROVE Tidy'
  <2> DEFINE acc == User(e, writes')
  <2>1. Goto(r, "mirror", k, acc) /\ core' = core
    BY <1>1 DEF Insert
  <2> HIDE DEF acc
  <2>. QED
    BY <1>0, <2>1, GotoTidy
<1>2. ASSUME NEW k \in Keys, UpdatePassword(r, k) PROVE Tidy'
  <2> DEFINE acc == User(entity[k].email, writes')
  <2>1. Goto(r, "save", k, acc) /\ core' = core
    BY <1>2 DEF UpdatePassword
  <2> HIDE DEF acc
  <2>. QED
    BY <1>0, <2>1, GotoTidy
<1>3. ASSUME NEW k \in Keys, NEW e \in Emails, UpdateOther(r, k, e) PROVE Tidy'
  <2> DEFINE acc == User(e, entity[k].pw)
  <2>1. Goto(r, "save", k, acc) /\ core' = core
    BY <1>3 DEF UpdateOther
  <2> HIDE DEF acc
  <2>. QED
    BY <1>0, <2>1, GotoTidy
<1>4. CASE UpdateSave(r)
  BY <1>0, <1>4, GotoTidy DEF UpdateSave
<1>5. CASE Mirror(r)
  <2>1. /\ req[r].key \in Keys /\ req[r].acc.email \in Emails /\ req[r].acc.pw \in Nat
    BY <1>5, HeldType DEF Mirror
  <2>2. Num[req[r].key] \in Keys /\ Num[Num[req[r].key]] = Num[req[r].key]
    BY <2>1
  <2>3. CoreNumbered'
    BY <1>5, <2>1, <2>2, CoreTidy DEF Mirror
  <2>. QED
    BY <1>5, <2>3, DoneTidy DEF Mirror
<1>6. ASSUME NEW k \in Keys, Delete(r, k) PROVE Tidy'
  BY <1>0, <1>6, GotoTidy DEF Delete
<1>7. CASE DeleteCore(r)
  <2>1. CoreNumbered'
    BY <1>7 DEF DeleteCore, CoreNumbered, TypeOK
  <2>. QED
    BY <1>7, <2>1, GotoTidy DEF DeleteCore
<1>8. CASE DeleteEntity(r)
  BY <1>0, <1>8, DoneTidy DEF DeleteEntity
<1>. QED
  BY <1>1, <1>2, <1>3, <1>4, <1>5, <1>6, <1>7, <1>8 DEF EntityApi

LEMMA AuthTidy ==
    ASSUME TypeOK, Tidy, NEW r \in Requests, Auth(r)
    PROVE  Tidy'
<1> USE DEF Tidy
<1>0. core' = core => CoreNumbered'
  BY DEF CoreNumbered
<1>1. ASSUME NEW e \in Emails, LoginMiss(r, e) PROVE Tidy'
  BY <1>0, <1>1, GotoTidy DEF LoginMiss
<1>2. ASSUME NEW e \in Emails, ResetPass(r, e) PROVE Tidy'
  BY <1>0, <1>2, GotoTidy DEF ResetPass
<1>3. ASSUME NEW i \in Keys, MeMiss(r, i) PROVE Tidy'
  BY <1>0, <1>3, GotoTidy DEF MeMiss
<1>4. ASSUME NEW i \in Keys, LinkChannel(r, i) PROVE Tidy'
  <2> DEFINE mine == {e \in Emails : Mirrors(e, i)}
             acc == User(First(mine), core[First(mine)].pw)
  <2>1. Goto(r, "core", i, acc) /\ core' = core /\ mine # {}
    BY <1>4 DEF LinkChannel
  <2>2. Num[i] = i
    BY <2>1 DEF CoreNumbered, Mirrors
  <2> HIDE DEF acc
  <2>. QED
    BY <1>0, <2>1, <2>2, GotoTidy
<1>5. ASSUME NEW k \in Keys, NEW e \in Emails, Register(r, k, e) PROVE Tidy'
  <2> DEFINE acc == User(e, writes')
  <2>1. /\ Goto(r, "entity", k, acc) /\ Num[k] = k /\ writes' \in Nat
        /\ core' = [core EXCEPT ![e] = [id |-> k, pw |-> writes']]
    BY <1>5 DEF Register, Fresh, TypeOK
  <2> HIDE DEF acc
  <2>2. CoreNumbered'
    BY <2>1, CoreTidy
  <2>. QED
    BY <2>1, <2>2, GotoTidy
<1>6. CASE Lookup(r)
  <2>1. CASE Found(r) = {}
    BY <1>0, <1>6, <2>1, DoneTidy DEF Lookup
  <2>2. CASE Found(r) # {}
    <3> DEFINE k == First(Found(r))
    <3>1. Goto(r, "mirror", k, User(entity[k].email, entity[k].pw)) /\ core' = core
      BY <1>6, <2>2 DEF Lookup
    <3> HIDE DEF k
    <3>. QED
      BY <1>0, <3>1, GotoTidy
  <2>. QED
    BY <2>1, <2>2
<1>7. CASE SaveCore(r)
  <2>1. /\ req[r].key \in Keys /\ req[r].acc.email \in Emails /\ req[r].acc.pw \in Nat
        /\ Num[req[r].key] = req[r].key
    BY <1>7, HeldType DEF SaveCore, ReqTidy
  <2>2. CoreNumbered'
    BY <1>7, <2>1, CoreTidy DEF SaveCore
  <2>. QED
    BY <1>7, <2>1, <2>2, GotoTidy DEF SaveCore
<1>8. CASE SaveEntity(r)
  BY <1>0, <1>8, DoneTidy DEF SaveEntity
<1>. QED
  BY <1>1, <1>2, <1>3, <1>4, <1>5, <1>6, <1>7, <1>8 DEF Auth

LEMMA BootTidy ==
    ASSUME TypeOK, Tidy, Boot
    PROVE  Tidy'
<1> USE DEF Tidy
<1>0. core' = core => CoreNumbered'
  BY DEF CoreNumbered
<1>1. CASE Restart
  BY <1>0, <1>1 DEF Restart, ReqTidy, Idle
<1>2. CASE AdminExists \/ DemosDone
  BY <1>0, <1>2 DEF AdminExists, DemosDone, ReqTidy
<1>3. ASSUME NEW reached \in SUBSET Emails, Sync(reached) PROVE Tidy'
  <2>1. ReqTidy'
    <3>1. req' = req
      BY <1>3, Syncs
    <3>. QED
      BY <3>1 DEF ReqTidy
  <2>2. ASSUME NEW e \in Emails, core'[e] # None PROVE Num[core'[e].id] = core'[e].id
    <3>1. CASE core[e] # None
      <4>1. core'[e] = core[e]
        BY <1>3, <3>1, Syncs
      <4>. QED
        BY <3>1, <4>1 DEF CoreNumbered
    <3>2. CASE core[e] = None
      <4>1. PICK k \in Rows(e) : core'[e] = [id |-> Num[k], pw |-> entity[k].pw]
        BY <1>3, <2>2, <3>2, SyncsCore
      <4>2. k \in Keys
        BY DEF Rows
      <4>. QED
        BY <4>1, <4>2
    <3>. QED
      BY <3>1, <3>2
  <2>. QED
    BY <2>1, <2>2 DEF CoreNumbered
<1>4. ASSUME NEW r \in Requests, NEW i \in Keys, SetAdmin(r, i) \/ FirstAdmin(r, i) PROVE Tidy'
  <2>1. Num[i] = i
    BY <1>4 DEF SetAdmin, FirstAdmin, Fresh, Mirrors, CoreNumbered
  <2>2. PICK acc : Goto(r, "core", i, acc) /\ core' = core
    BY <1>4 DEF SetAdmin, FirstAdmin
  <2>. QED
    BY <1>0, <2>1, <2>2, GotoTidy
<1>5. ASSUME NEW r \in Requests, NEW e \in Emails, RemoveDemo(r, e) PROVE Tidy'
  <2>1. core' = core /\ (req' = req \/ \E acc : Goto(r, "delcore", core[e].id, acc))
    BY <1>5 DEF RemoveDemo
  <2>2. CASE req' = req
    BY <1>0, <2>1, <2>2 DEF ReqTidy
  <2>3. ASSUME NEW acc, Goto(r, "delcore", core[e].id, acc) PROVE Tidy'
    BY <1>0, <2>1, <2>3, GotoTidy
  <2>. QED
    BY <2>1, <2>2, <2>3
<1>. QED
  BY <1>1, <1>2, <1>3, <1>4, <1>5 DEF Boot


LEMMA NextTidy == TypeOK /\ Tidy /\ [Next]_vars => Tidy'
<1> SUFFICES ASSUME TypeOK, Tidy, [Next]_vars PROVE Tidy'
  OBVIOUS
<1>1. ASSUME NEW r \in Requests, Fails(r) PROVE Tidy'
  <2>1. CoreNumbered'
    BY <1>1 DEF Fails, Tidy, CoreNumbered
  <2>2. CASE req[r].pc = "delcore"
    BY <1>1, <2>1, <2>2, GotoTidy DEF Fails, Tidy
  <2>3. CASE req[r].pc # "delcore"
    BY <1>1, <2>1, <2>3, DoneTidy DEF Fails, Tidy
  <2>. QED
    BY <2>2, <2>3
<1>2. CASE Boot
  BY <1>2, BootTidy
<1>3. CASE UNCHANGED vars
  BY <1>3 DEF vars, Tidy, CoreNumbered, ReqTidy
<1>. QED
  BY <1>1, <1>2, <1>3, EntityApiTidy, AuthTidy DEF Next

LEMMA InitTidy == Init => Tidy
<1> SUFFICES ASSUME Init PROVE Tidy
  OBVIOUS
<1>1. PICK mirrored \in SUBSET {e \in Emails : Rows(e) # {}} :
        core = [e \in Emails |->
                  IF e \in mirrored THEN [id |-> Num[First(Rows(e))], pw |-> OldPw] ELSE None]
  BY DEF Init
<1>2. \A e \in mirrored : First(Rows(e)) \in Keys
  BY RowsType, FirstIn
<1>3. CoreNumbered
  BY <1>1, <1>2 DEF CoreNumbered
<1>4. ReqTidy
  BY DEF Init, ReqTidy, Idle
<1>. QED
  BY <1>3, <1>4 DEF Tidy

-----------------------------------------------------------------------------
(* Login follows the entity *)

\* An email's core record, if any, is the copy of its row.
Copied(e) ==
    \A k \in Rows(e) : core[e] = None \/ core[e] = [id |-> Num[k], pw |-> entity[k].pw]

\* What the steps left to a request rest on.
InHand(r, e) ==
    /\ req[r].pc # "lookup" => Rows(e) \subseteq {req[r].key}
    /\ req[r].pc = "lookup" => core[e] = None
    /\ req[r].pc = "mirror" => \A k \in Rows(e) : entity[k].pw = req[r].acc.pw
    /\ req[r].pc = "entity" => core[e] = [id |-> req[r].key, pw |-> req[r].acc.pw]

\* An email of one user at most, whose stores agree or are about to.
Fits(e) ==
    /\ \A j, k \in Rows(e) : j = k
    /\ (\A r \in Requests : ~Holds(r, e)) => Copied(e)
    /\ \A r \in Requests : Holds(r, e) => InHand(r, e)

AllFit == \A e \in Emails \ loose : Fits(e)

\* Nothing of an email but rows goes.
Untouched(e) ==
    /\ Rows(e)' \subseteq Rows(e)
    /\ \A k \in Rows(e)' : entity'[k] = entity[k]
    /\ core'[e] = core[e]

\* A step of request r that touches one email only, which is its own, and leaves it
\* in order.
Works(r, f) ==
    /\ \A q \in Requests \ {r} : req'[q] = req[q]
    /\ loose \subseteq loose'
    /\ \A e \in Emails : Holds(r, e) \/ Holds(r, e)' => e = f
    /\ \A e \in Emails \ {f} : Untouched(e)
    /\ f \in Emails \ loose' =>
         /\ \A q \in Requests \ {r} : ~Holds(q, f)
         /\ \A j, k \in Rows(f)' : j = k
         /\ Holds(r, f)' => InHand(r, f)'
         /\ ~Holds(r, f)' => Copied(f)'

LEMMA WorksFits ==
    ASSUME TypeOK, AllFit, NEW r \in Requests, NEW f, Works(r, f)
    PROVE  AllFit'
<1> SUFFICES ASSUME NEW e \in Emails \ loose' PROVE Fits(e)'
  BY DEF AllFit
<1>1. \A q \in Requests \ {r} : req'[q] = req[q] /\ (Holds(q, e)' <=> Holds(q, e))
  BY DEF Works, Holds
<1>2. CASE e = f
  BY <1>1, <1>2 DEF Works, Fits
<1>3. CASE e # f
  <2>1. Untouched(e) /\ ~Holds(r, e) /\ ~Holds(r, e)'
    BY <1>3 DEF Works
  <2>2. Fits(e)
    BY DEF AllFit, Works
  <2>3. \A j, k \in Rows(e)' : j = k
    BY <2>1, <2>2 DEF Untouched, Fits
  <2>4. (\A q \in Requests : ~Holds(q, e)') => Copied(e)'
    <3>1. (\A q \in Requests : ~Holds(q, e)') => Copied(e)
      BY <1>1, <2>1, <2>2 DEF Fits
    <3>2. Copied(e) => Copied(e)'
      BY <2>1 DEF Untouched, Copied
    <3>. QED
      BY <3>1, <3>2
  <2>5. ASSUME NEW q \in Requests, Holds(q, e)' PROVE InHand(q, e)'
    <3>1. req'[q] = req[q] /\ Holds(q, e)
      BY <1>1, <2>1, <2>5
    <3>2. InHand(q, e)
      BY <2>2, <3>1 DEF Fits
    <3>. QED
      BY <2>1, <3>1, <3>2 DEF Untouched, InHand
  <2>. QED
    BY <2>3, <2>4, <2>5 DEF Fits
<1>. QED
  BY <1>2, <1>3

LEMMA RowSaved ==
    ASSUME TypeOK, NEW k \in Keys, NEW a \in Account, entity' = [entity EXCEPT ![k] = a],
           NEW e \in Emails, a.email = e
    PROVE  Rows(e)' = Rows(e) \cup {k} /\ entity'[k] = a
BY DEF Rows, TypeOK

LEMMA RowElsewhere ==
    ASSUME TypeOK, NEW k \in Keys, NEW a \in Account, entity' = [entity EXCEPT ![k] = a],
           NEW e \in Emails, a.email # e
    PROVE  Rows(e)' \subseteq Rows(e) /\ \A j \in Rows(e)' : entity'[j] = entity[j]
BY DEF Rows, TypeOK

LEMMA RowRemoved ==
    ASSUME TypeOK, NEW k \in Keys, entity' = [entity EXCEPT ![k] = None], NEW e \in Emails
    PROVE  /\ Rows(e)' = Rows(e) \ {k}
           /\ \A j \in Rows(e)' : entity'[j] = entity[j]
BY DEF Rows, TypeOK

LEMMA SameRows == UNCHANGED entity => \A e : Rows(e)' = Rows(e)
BY DEF Rows

LEMMA GotoHolds ==
    ASSUME TypeOK, NEW r \in Requests, NEW pc, NEW k, NEW acc, Goto(r, pc, k, acc)
    PROVE  /\ \A q \in Requests \ {r} : req'[q] = req[q]
           /\ req'[r].pc = pc /\ req'[r].key = k /\ req'[r].acc = acc
           /\ \A e : Holds(r, e)' <=> acc # None /\ acc.email = e
BY DEF TypeOK, Goto, Holds

LEMMA DoneHolds ==
    ASSUME TypeOK, NEW r \in Requests, Done(r)
    PROVE  /\ \A q \in Requests \ {r} : req'[q] = req[q]
           /\ \A e : ~Holds(r, e)'
BY DEF TypeOK, Done, Idle, Holds

LEMMA IdleHolds ==
    ASSUME ReqTidy, NEW r \in Requests, req[r].pc = "idle"
    PROVE  \A e : ~Holds(r, e)
BY DEF ReqTidy, Holds

\* What a request begins with undisturbed.
LEMMA BeginsWith ==
    ASSUME TypeOK, NEW r \in Requests, NEW k \in Keys, NEW es \in SUBSET Emails, Begin(r, k, es)
    PROVE  /\ loose \subseteq loose'
           /\ \A e \in es \ loose' :
                /\ \A q \in Requests \ {r} : ~Holds(q, e)
                /\ Rows(e) \subseteq {k}
                /\ core[e] = None \/ Mirrors(e, Num[k])
BY DEF Begin, Disturbed

\* A step of a request with no email in hand that touches neither store.
LEMMA TakesNone ==
    ASSUME TypeOK, AllFit, NEW r \in Requests, \A q \in Requests \ {r} : req'[q] = req[q],
           \A e : ~Holds(r, e) /\ ~Holds(r, e)', UNCHANGED <<entity, core>>, loose \subseteq loose'
    PROVE  AllFit'
<1>1. PICK f : f \notin Emails
  BY NoSetContainsEverything
<1>2. \A e \in Emails : Untouched(e)
  BY SameRows DEF Untouched
<1>3. Works(r, f)
  BY <1>1, <1>2 DEF Works
<1>. QED
  BY <1>3, WorksFits

\* A step of an idle request that touches neither store and takes up an email.
LEMMA TakesUp ==
    ASSUME TypeOK, AllFit, ReqTidy, NEW r \in Requests, req[r].pc = "idle",
           NEW pc, NEW k \in Keys \cup {None}, NEW acc \in Account, Goto(r, pc, k, acc),
           UNCHANGED <<entity, core>>, loose \subseteq loose',
           acc.email \notin loose' =>
             /\ pc \notin {"mirror", "entity"}
             /\ \A q \in Requests \ {r} : ~Holds(q, acc.email)
             /\ pc # "lookup" => Rows(acc.email) \subseteq {k}
             /\ pc = "lookup" => core[acc.email] = None
    PROVE  AllFit'
<1> DEFINE f == acc.email
<1>1. f \in Emails /\ acc # None
  BY DEF Account
<1>2. /\ \A q \in Requests \ {r} : req'[q] = req[q]
      /\ req'[r].pc = pc /\ req'[r].key = k /\ req'[r].acc = acc
      /\ \A e : Holds(r, e)' <=> e = f
  BY <1>1, GotoHolds
<1>3. \A e : ~Holds(r, e)
  BY IdleHolds
<1>4. \A e : Rows(e)' = Rows(e)
  BY SameRows
<1>5. \A e \in Emails : Untouched(e)
  BY <1>4 DEF Untouched
<1>6. ASSUME f \notin loose'
      PROVE  /\ \A q \in Requests \ {r} : ~Holds(q, f)
             /\ \A i, j \in Rows(f)' : i = j
             /\ InHand(r, f)'
  <2>1. Fits(f)
    BY <1>1, <1>6 DEF AllFit
  <2>2. InHand(r, f)'
    BY <1>2, <1>4, <1>6 DEF InHand
  <2>. QED
    BY <1>4, <1>6, <2>1, <2>2 DEF Fits
<1> HIDE DEF f
<1>7. Works(r, f)
  BY <1>2, <1>3, <1>5, <1>6 DEF Works
<1>. QED
  BY <1>7, WorksFits

\* What is known of the email a request has in hand.
LEMMA HasInHand ==
    ASSUME TypeOK, OwnsWork, AllFit, NEW r \in Requests, req[r].pc \notin {"idle", "lookup"},
           NEW f, f = req[r].acc.email
    PROVE  /\ f \in Emails /\ \A e : Holds(r, e) <=> e = f
           /\ f \notin loose =>
                /\ \A q \in Requests \ {r} : ~Holds(q, f)
                /\ Rows(f) \subseteq {req[r].key}
                /\ InHand(r, f)
                /\ req[r].pc = "delentity" => core[f] = None
<1>1. f \in Emails /\ \A e : Holds(r, e) <=> e = f
  BY HeldType DEF TypeOK, Holds
<1>2. ASSUME f \notin loose
      PROVE  /\ \A q \in Requests \ {r} : ~Holds(q, f)
             /\ InHand(r, f)
             /\ req[r].pc = "delentity" => core[f] = None
  <2>1. \A q \in Requests \ {r} : ~Holds(q, f)
    BY <1>1, <1>2 DEF OwnsWork
  <2>2. InHand(r, f)
    BY <1>1, <1>2 DEF AllFit, Fits
  <2>3. req[r].pc = "delentity" => core[f] = None
    BY <1>1, <1>2 DEF OwnsWork
  <2>. QED
    BY <2>1, <2>2, <2>3
<1>3. f \notin loose => Rows(f) \subseteq {req[r].key}
  BY <1>2 DEF InHand
<1>. QED
  BY <1>1, <1>2, <1>3

LEMMA EntityApiFits ==
    ASSUME TypeOK, OwnsWork, AllFit, ReqTidy, NEW r \in Requests, EntityApi(r)
    PROVE  AllFit'
<1>1. ASSUME NEW k \in Keys, NEW e \in Emails, Insert(r, k, e) PROVE AllFit'
  <2> DEFINE es == {e} \cup EmailAt(k)
             acc == User(e, writes')
  <2>1. es \in SUBSET Emails /\ e \in es /\ acc \in Account /\ acc.email = e
    <3>1. writes' \in Nat
      BY <1>1 DEF Insert, TypeOK
    <3>. QED
      BY <3>1, EntityType DEF Account
  <2>2. /\ req[r].pc = "idle" /\ Goto(r, "mirror", k, acc)
        /\ entity' = [entity EXCEPT ![k] = acc] /\ core' = core /\ Begin(r, k, es)
    BY <1>1 DEF Insert
  <2> HIDE DEF es, acc
  <2>3. /\ loose \subseteq loose'
        /\ e \notin loose' => (\A q \in Requests \ {r} : ~Holds(q, e)) /\ Rows(e) \subseteq {k}
    <3>1. /\ loose \subseteq loose'
          /\ \A g \in es \ loose' :
               (\A q \in Requests \ {r} : ~Holds(q, g)) /\ Rows(g) \subseteq {k}
      BY <2>1, <2>2, BeginsWith
    <3>. QED
      BY <2>1, <3>1
  <2>4. acc # None
    BY <2>1
  <2>5. /\ \A q \in Requests \ {r} : req'[q] = req[q]
        /\ req'[r].pc = "mirror" /\ req'[r].key = k /\ req'[r].acc = acc
        /\ \A g : Holds(r, g)' <=> g = e
    BY <2>1, <2>2, <2>4, GotoHolds
  <2>6. \A g : ~Holds(r, g)
    BY <2>2, IdleHolds
  <2>7. ASSUME NEW g \in Emails \ {e} PROVE Untouched(g)
    <3>1. g \in Emails /\ acc.email # g
      BY <2>1, <2>7
    <3>2. Rows(g)' \subseteq Rows(g) /\ \A j \in Rows(g)' : entity'[j] = entity[j]
      BY <2>1, <2>2, <3>1, RowElsewhere
    <3>. QED
      BY <2>2, <3>2 DEF Untouched
  <2>8. Rows(e)' = Rows(e) \cup {k} /\ entity'[k] = acc
    BY <2>1, <2>2, RowSaved
  <2>9. e \notin loose' => (\A i, j \in Rows(e)' : i = j) /\ InHand(r, e)'
    BY <2>3, <2>5, <2>8 DEF InHand
  <2>10. Works(r, e)
    BY <2>3, <2>5, <2>6, <2>7, <2>9 DEF Works
  <2>. QED
    BY <2>10, WorksFits
<1>2. ASSUME NEW k \in Keys, UpdatePassword(r, k) PROVE AllFit'
  <2> DEFINE acc == User(entity[k].email, writes')
             es == {entity[k].email}
  <2>1. acc \in Account /\ es \in SUBSET Emails /\ acc.email \in es
    BY <1>2, EntityType DEF UpdatePassword, TypeOK, Account
  <2>2. /\ req[r].pc = "idle" /\ Goto(r, "save", k, acc) /\ Begin(r, k, es)
        /\ UNCHANGED <<entity, core>>
    BY <1>2 DEF UpdatePassword
  <2> HIDE DEF acc, es
  <2>3. /\ loose \subseteq loose'
        /\ acc.email \notin loose' =>
             (\A q \in Requests \ {r} : ~Holds(q, acc.email)) /\ Rows(acc.email) \subseteq {k}
    <3>1. /\ loose \subseteq loose'
          /\ \A g \in es \ loose' :
               (\A q \in Requests \ {r} : ~Holds(q, g)) /\ Rows(g) \subseteq {k}
      BY <2>1, <2>2, BeginsWith
    <3>. QED
      BY <2>1, <3>1
  <2>. QED
    BY <2>1, <2>2, <2>3, TakesUp
<1>3. ASSUME NEW k \in Keys, NEW e \in Emails, UpdateOther(r, k, e) PROVE AllFit'
  <2> DEFINE acc == User(e, entity[k].pw)
             es == {entity[k].email, e}
  <2>1. acc \in Account /\ es \in SUBSET Emails /\ acc.email \in es
    BY <1>3, EntityType DEF UpdateOther, Account
  <2>2. /\ req[r].pc = "idle" /\ Goto(r, "save", k, acc) /\ Begin(r, k, es)
        /\ UNCHANGED <<entity, core>>
    BY <1>3 DEF UpdateOther
  <2> HIDE DEF acc, es
  <2>3. /\ loose \subseteq loose'
        /\ acc.email \notin loose' =>
             (\A q \in Requests \ {r} : ~Holds(q, acc.email)) /\ Rows(acc.email) \subseteq {k}
    <3>1. /\ loose \subseteq loose'
          /\ \A g \in es \ loose' :
               (\A q \in Requests \ {r} : ~Holds(q, g)) /\ Rows(g) \subseteq {k}
      BY <2>1, <2>2, BeginsWith
    <3>. QED
      BY <2>1, <3>1
  <2>. QED
    BY <2>1, <2>2, <2>3, TakesUp
<1>4. CASE UpdateSave(r)
  <2>0. PICK f, k, acc : f = req[r].acc.email /\ k = req[r].key /\ acc = req[r].acc
    OBVIOUS
  <2>1. /\ req[r].pc = "save" /\ loose' = loose /\ core' = core
        /\ Goto(r, "mirror", k, acc) /\ entity' = [entity EXCEPT ![k] = acc]
    BY <1>4, <2>0 DEF UpdateSave, Unexcused
  <2>2. k \in Keys /\ acc \in Account /\ acc.email = f /\ acc # None
    BY <2>0, <2>1, HeldType
  <2>3. /\ f \in Emails /\ \A e : Holds(r, e) <=> e = f
        /\ f \notin loose =>
             (\A q \in Requests \ {r} : ~Holds(q, f)) /\ Rows(f) \subseteq {k}
    BY <2>0, <2>1, HasInHand
  <2>4. /\ \A q \in Requests \ {r} : req'[q] = req[q]
        /\ req'[r].pc = "mirror" /\ req'[r].key = k /\ req'[r].acc = acc
        /\ \A g : Holds(r, g)' <=> g = f
    BY <2>1, <2>2, GotoHolds
  <2>5. ASSUME NEW g \in Emails \ {f} PROVE Untouched(g)
    <3>1. g \in Emails /\ acc.email # g
      BY <2>2, <2>5
    <3>2. Rows(g)' \subseteq Rows(g) /\ \A j \in Rows(g)' : entity'[j] = entity[j]
      BY <2>1, <2>2, <3>1, RowElsewhere
    <3>. QED
      BY <2>1, <3>2 DEF Untouched
  <2>6. Rows(f)' = Rows(f) \cup {k} /\ entity'[k] = acc
    BY <2>1, <2>2, <2>3, RowSaved
  <2>7. f \notin loose' => (\A i, j \in Rows(f)' : i = j) /\ InHand(r, f)'
    BY <2>1, <2>3, <2>4, <2>6 DEF InHand
  <2>8. Works(r, f)
    BY <2>1, <2>3, <2>4, <2>5, <2>7 DEF Works
  <2>. QED
    BY <2>8, WorksFits
<1>5. CASE Mirror(r)
  <2>0. PICK f, k, n : f = req[r].acc.email /\ k = req[r].key /\ n = req[r].acc.pw
    OBVIOUS
  <2>1. /\ req[r].pc = "mirror" /\ loose' = loose /\ entity' = entity /\ Done(r)
        /\ core' = [core EXCEPT ![f] = [id |-> Num[k], pw |-> n]]
    BY <1>5, <2>0 DEF Mirror, Unexcused
  <2>2. /\ f \in Emails /\ \A e : Holds(r, e) <=> e = f
        /\ f \notin loose =>
             /\ \A q \in Requests \ {r} : ~Holds(q, f)
             /\ Rows(f) \subseteq {k}
             /\ \A j \in Rows(f) : entity[j].pw = n
    <3>1. /\ f \in Emails /\ \A e : Holds(r, e) <=> e = f
          /\ f \notin loose =>
               /\ \A q \in Requests \ {r} : ~Holds(q, f)
               /\ Rows(f) \subseteq {k}
               /\ InHand(r, f)
      BY <2>0, <2>1, HasInHand
    <3>2. InHand(r, f) => \A j \in Rows(f) : entity[j].pw = n
      BY <2>0, <2>1 DEF InHand
    <3>. QED
      BY <3>1, <3>2
  <2>3. \A g : Rows(g)' = Rows(g)
    BY <2>1, SameRows
  <2>4. (\A q \in Requests \ {r} : req'[q] = req[q]) /\ \A g : ~Holds(r, g)'
    BY <2>1, DoneHolds
  <2>5. \A g \in Emails \ {f} : core'[g] = core[g]
    BY <2>1 DEF TypeOK
  <2>6. core'[f] = [id |-> Num[k], pw |-> n]
    BY <2>1, <2>2 DEF TypeOK
  <2>7. f \notin loose' => (\A i, j \in Rows(f)' : i = j) /\ Copied(f)'
    BY <2>1, <2>2, <2>3, <2>6 DEF Copied
  <2>8. \A g \in Emails \ {f} : Untouched(g)
    BY <2>1, <2>3, <2>5 DEF Untouched
  <2>9. Works(r, f)
    BY <2>1, <2>2, <2>4, <2>7, <2>8 DEF Works
  <2>. QED
    BY <2>9, WorksFits
<1>6. ASSUME NEW k \in Keys, Delete(r, k) PROVE AllFit'
  <2> DEFINE es == {entity[k].email}
  <2>1. es \in SUBSET Emails
    BY <1>6, EntityType DEF Delete
  <2>5. PICK acc \in Account :
          acc = User(entity[k].email, entity[k].pw) /\ acc.email = entity[k].email
    BY <1>6, RowUser DEF Delete
  <2>2. /\ req[r].pc = "idle" /\ Goto(r, "delcore", k, acc) /\ Begin(r, k, es)
        /\ UNCHANGED <<entity, core>>
    BY <1>6, <2>5 DEF Delete
  <2>3. entity[k].email \in es
    OBVIOUS
  <2> HIDE DEF es
  <2>4. /\ loose \subseteq loose'
        /\ entity[k].email \notin loose' =>
             /\ \A q \in Requests \ {r} : ~Holds(q, entity[k].email)
             /\ Rows(entity[k].email) \subseteq {k}
    <3>1. /\ loose \subseteq loose'
          /\ \A g \in es \ loose' :
               (\A q \in Requests \ {r} : ~Holds(q, g)) /\ Rows(g) \subseteq {k}
      BY <2>1, <2>2, BeginsWith
    <3>. QED
      BY <2>3, <3>1
  <2>. QED
    BY <2>2, <2>4, <2>5, TakesUp
<1>7. CASE DeleteCore(r)
  <2>0. PICK f, k, acc : f = req[r].acc.email /\ k = req[r].key /\ acc = req[r].acc
    OBVIOUS
  <2>1. /\ req[r].pc = "delcore" /\ loose' = loose /\ entity' = entity
        /\ Goto(r, "delentity", k, acc) /\ core' = [core EXCEPT ![f] = None]
    BY <1>7, <2>0 DEF DeleteCore, Unexcused
  <2>2. /\ f \in Emails /\ \A e : Holds(r, e) <=> e = f
        /\ f \notin loose =>
             (\A q \in Requests \ {r} : ~Holds(q, f)) /\ Rows(f) \subseteq {k}
    BY <2>0, <2>1, HasInHand
  <2>3. acc # None /\ acc.email = f
    BY <2>0, <2>1, HeldType
  <2>4. /\ \A q \in Requests \ {r} : req'[q] = req[q]
        /\ req'[r].pc = "delentity" /\ req'[r].key = k
        /\ \A g : Holds(r, g)' <=> g = f
    BY <2>1, <2>3, GotoHolds
  <2>5. \A g : Rows(g)' = Rows(g)
    BY <2>1, SameRows
  <2>6. \A g \in Emails \ {f} : core'[g] = core[g]
    BY <2>1 DEF TypeOK
  <2>7. f \notin loose' => (\A i, j \in Rows(f)' : i = j) /\ InHand(r, f)'
    BY <2>1, <2>2, <2>4, <2>5 DEF InHand
  <2>8. \A g \in Emails \ {f} : Untouched(g)
    BY <2>1, <2>5, <2>6 DEF Untouched
  <2>9. Works(r, f)
    BY <2>1, <2>2, <2>4, <2>7, <2>8 DEF Works
  <2>. QED
    BY <2>9, WorksFits
<1>8. CASE DeleteEntity(r)
  <2>0. PICK f, k : f = req[r].acc.email /\ k = req[r].key
    OBVIOUS
  <2>1. /\ req[r].pc = "delentity" /\ loose' = loose /\ core' = core /\ Done(r)
        /\ entity' = [entity EXCEPT ![k] = None]
    BY <1>8, <2>0 DEF DeleteEntity
  <2>2. /\ f \in Emails /\ \A e : Holds(r, e) <=> e = f
        /\ f \notin loose =>
             (\A q \in Requests \ {r} : ~Holds(q, f)) /\ Rows(f) \subseteq {k}
    BY <2>0, <2>1, HasInHand
  <2>3. k \in Keys
    BY <2>0, <2>1, HeldType
  <2>4. (\A q \in Requests \ {r} : req'[q] = req[q]) /\ \A g : ~Holds(r, g)'
    BY <2>1, DoneHolds
  <2>5. ASSUME NEW g \in Emails
        PROVE  Rows(g)' = Rows(g) \ {k} /\ \A j \in Rows(g)' : entity'[j] = entity[j]
    BY <2>1, <2>3, RowRemoved
  <2>6. f \notin loose' => (\A i, j \in Rows(f)' : i = j) /\ Copied(f)'
    BY <2>1, <2>2, <2>5 DEF Copied
  <2>7. \A g \in Emails : Untouched(g)
    BY <2>1, <2>5 DEF Untouched
  <2>8. Works(r, f)
    BY <2>1, <2>2, <2>4, <2>6, <2>7 DEF Works
  <2>. QED
    BY <2>8, WorksFits
<1>. QED
  BY <1>1, <1>2, <1>3, <1>4, <1>5, <1>6, <1>7, <1>8 DEF EntityApi

LEMMA AuthFits ==
    ASSUME TypeOK, OwnsWork, AllFit, ReqTidy, NEW r \in Requests, Auth(r)
    PROVE  AllFit'
<1>1. ASSUME NEW e \in Emails, LoginMiss(r, e) PROVE AllFit'
  <2> DEFINE acc == User(e, 0)
  <2>1. /\ req[r].pc = "idle" /\ Goto(r, "lookup", None, acc) /\ UNCHANGED <<entity, core>>
        /\ core[e] = None /\ loose \subseteq loose'
        /\ e \notin loose' => \A q \in Requests \ {r} : ~Holds(q, e)
    BY <1>1 DEF LoginMiss
  <2>2. acc \in Account /\ acc.email = e
    BY DEF Account
  <2> HIDE DEF acc
  <2>. QED
    BY <2>1, <2>2, TakesUp
<1>2. ASSUME NEW e \in Emails, ResetPass(r, e) PROVE AllFit'
  <2> DEFINE acc == User(e, writes')
             i == core[e].id
  <2>1. /\ req[r].pc = "idle" /\ Goto(r, "mirror", i, acc) /\ UNCHANGED <<entity, core>>
        /\ loose' = loose \cup {e} /\ core[e] # None /\ writes' \in Nat
    BY <1>2 DEF ResetPass, TypeOK
  <2>2. i \in Keys /\ acc \in Account /\ acc.email = e
    BY <2>1, CoreType DEF Account
  <2> HIDE DEF acc, i
  <2>. QED
    BY <2>1, <2>2, TakesUp
<1>3. ASSUME NEW i \in Keys, MeMiss(r, i) PROVE AllFit'
  <2>1. /\ req[r].pc = "idle" /\ Goto(r, "lookup", i, None) /\ UNCHANGED <<entity, core>>
        /\ loose' = loose
    BY <1>3 DEF MeMiss
  <2>2. /\ \A q \in Requests \ {r} : req'[q] = req[q]
        /\ \A e : ~Holds(r, e) /\ ~Holds(r, e)'
    BY <2>1, GotoHolds, IdleHolds
  <2>. QED
    BY <2>1, <2>2, TakesNone
<1>4. ASSUME NEW i \in Keys, LinkChannel(r, i) PROVE AllFit'
  <2> DEFINE mine == {e \in Emails : Mirrors(e, i)}
             f == First(mine)
             acc == User(f, core[f].pw)
             es == mine \cup EmailAt(i)
  <2>1. mine # {} /\ mine \in SUBSET Emails
    BY <1>4 DEF LinkChannel
  <2>2. f \in mine /\ f \in Emails /\ core[f] # None
    <3>1. f \in mine
      BY <2>1, FirstIn
    <3>. QED
      BY <3>1 DEF Mirrors
  <2>3. /\ req[r].pc = "idle" /\ Goto(r, "core", i, acc) /\ Begin(r, i, es)
        /\ UNCHANGED <<entity, core>>
    BY <1>4 DEF LinkChannel
  <2>4. es \in SUBSET Emails
    BY <2>1, EntityType
  <2> HIDE DEF mine
  <2>5. f \in es
    BY <2>2
  <2> HIDE DEF f, es
  <2>6. acc \in Account /\ acc.email \in es
    BY <2>2, <2>5, CoreType DEF Account
  <2> HIDE DEF acc
  <2>7. /\ loose \subseteq loose'
        /\ acc.email \notin loose' =>
             (\A q \in Requests \ {r} : ~Holds(q, acc.email)) /\ Rows(acc.email) \subseteq {i}
    <3>1. /\ loose \subseteq loose'
          /\ \A g \in es \ loose' :
               (\A q \in Requests \ {r} : ~Holds(q, g)) /\ Rows(g) \subseteq {i}
      BY <2>3, <2>4, BeginsWith
    <3>. QED
      BY <2>6, <3>1
  <2>. QED
    BY <2>3, <2>6, <2>7, TakesUp
<1>5. ASSUME NEW k \in Keys, NEW e \in Emails, Register(r, k, e) PROVE AllFit'
  <2> DEFINE acc == User(e, writes')
             es == {e}
  <2>1. /\ req[r].pc = "idle" /\ Goto(r, "entity", k, acc) /\ entity' = entity
        /\ core' = [core EXCEPT ![e] = [id |-> k, pw |-> writes']] /\ Begin(r, k, es)
    BY <1>5 DEF Register
  <2>2. acc \in Account /\ acc # None /\ acc.email = e /\ acc.pw = writes'
    <3>1. writes' \in Nat
      BY <1>5 DEF Register, TypeOK
    <3>. QED
      BY <3>1, UserType
  <2>3. es \in SUBSET Emails /\ e \in es
    OBVIOUS
  <2> HIDE DEF acc, es
  <2>4. /\ loose \subseteq loose'
        /\ e \notin loose' => (\A q \in Requests \ {r} : ~Holds(q, e)) /\ Rows(e) \subseteq {k}
    <3>1. /\ loose \subseteq loose'
          /\ \A g \in es \ loose' :
               (\A q \in Requests \ {r} : ~Holds(q, g)) /\ Rows(g) \subseteq {k}
      BY <2>1, <2>3, BeginsWith
    <3>. QED
      BY <2>3, <3>1
  <2>5. /\ \A q \in Requests \ {r} : req'[q] = req[q]
        /\ req'[r].pc = "entity" /\ req'[r].key = k /\ req'[r].acc = acc
        /\ \A g : Holds(r, g)' <=> g = e
    BY <2>1, <2>2, GotoHolds
  <2>6. \A g : ~Holds(r, g)
    BY <2>1, IdleHolds
  <2>7. \A g : Rows(g)' = Rows(g)
    BY <2>1, SameRows
  <2>8. core'[e] = [id |-> k, pw |-> acc.pw] /\ \A g \in Emails \ {e} : core'[g] = core[g]
    BY <2>1, <2>2 DEF TypeOK
  <2>9. e \notin loose' => (\A i, j \in Rows(e)' : i = j) /\ InHand(r, e)'
    BY <2>4, <2>5, <2>7, <2>8 DEF InHand
  <2>10. \A g \in Emails \ {e} : Untouched(g)
    BY <2>1, <2>7, <2>8 DEF Untouched
  <2>11. Works(r, e)
    BY <2>4, <2>5, <2>6, <2>9, <2>10 DEF Works
  <2>. QED
    BY <2>11, WorksFits
<1>6. CASE Lookup(r)
  <2>0. /\ req[r].pc = "lookup" /\ UNCHANGED <<entity, core>>
        /\ req[r].key = None \/ req[r].acc = None
    BY <1>6 DEF Lookup, ReqTidy
  <2>1. \A g : Rows(g)' = Rows(g)
    BY <2>0, SameRows
  <2>2. \A g \in Emails : Untouched(g)
    BY <2>0, <2>1 DEF Untouched
  <2>3. CASE Found(r) = {}
    <3>1. Done(r) /\ loose' = loose
      BY <1>6, <2>3 DEF Lookup, Unexcused
    <3>2. (\A q \in Requests \ {r} : req'[q] = req[q]) /\ \A g : ~Holds(r, g)'
      BY <3>1, DoneHolds
    <3>3. CASE req[r].acc = None
      <4>1. \A g : ~Holds(r, g)
        BY <3>3 DEF Holds
      <4>. QED
        BY <2>0, <3>1, <3>2, <4>1, TakesNone
    <3>4. CASE req[r].acc # None
      <4>1. PICK f : f = req[r].acc.email
        OBVIOUS
      <4>2. f \in Emails /\ \A g : Holds(r, g) <=> g = f
        BY <3>4, <4>1 DEF Holds, TypeOK, ReqState, Account
      <4>3. Rows(f)' = {}
        BY <2>0, <2>1, <2>3, <3>4, <4>1 DEF Found
      <4>4. f \notin loose' => \A q \in Requests \ {r} : ~Holds(q, f)
        BY <3>1, <4>2 DEF OwnsWork
      <4>5. (\A i, j \in Rows(f)' : i = j) /\ Copied(f)'
        BY <4>3 DEF Copied
      <4>6. Works(r, f)
        BY <2>2, <3>1, <3>2, <4>2, <4>4, <4>5 DEF Works
      <4>. QED
        BY <4>6, WorksFits
    <3>. QED
      BY <3>3, <3>4
  <2>4. CASE Found(r) # {}
    <3>1. Found(r) \in SUBSET Keys /\ \A j \in Found(r) : entity[j] # None
      BY DEF Found, Rows
    <3>2. First(Found(r)) \in Found(r)
      BY <2>4, <3>1, FirstIn
    <3>3. PICK k \in Keys : k = First(Found(r)) /\ k \in Found(r) /\ entity[k] # None
      BY <3>1, <3>2
    <3>4. PICK acc \in Account :
            acc = User(entity[k].email, entity[k].pw) /\ acc.email = entity[k].email
      BY <3>3, RowUser
    <3>5. PICK f \in Emails : f = acc.email
      BY DEF Account
    <3>6. /\ Goto(r, "mirror", k, acc)
          /\ loose' = IF Disturbed(r, k, f) THEN loose \cup {f} ELSE loose
      BY <1>6, <2>4, <3>3, <3>4, <3>5 DEF Lookup
    <3>7. /\ \A q \in Requests \ {r} : req'[q] = req[q]
          /\ req'[r].pc = "mirror" /\ req'[r].key = k /\ req'[r].acc = acc
          /\ \A g : Holds(r, g)' <=> g = f
      BY <3>5, <3>6, GotoHolds
    <3>8. \A g : Holds(r, g) => g = f
      BY <2>0, <3>3, <3>4, <3>5 DEF Holds, Found, Rows
    <3>9. f \notin loose' => (\A q \in Requests \ {r} : ~Holds(q, f)) /\ Rows(f) \subseteq {k}
      BY <3>6 DEF Disturbed
    <3>10. f \notin loose' => (\A i, j \in Rows(f)' : i = j) /\ InHand(r, f)'
      BY <2>0, <2>1, <3>4, <3>7, <3>9 DEF InHand
    <3>11. Works(r, f)
      BY <2>2, <3>6, <3>7, <3>8, <3>9, <3>10 DEF Works
    <3>. QED
      BY <3>11, WorksFits
  <2>. QED
    BY <2>3, <2>4
<1>7. CASE SaveCore(r)
  <2>0. PICK f, k, acc : f = req[r].acc.email /\ k = req[r].key /\ acc = req[r].acc
    OBVIOUS
  <2>1. /\ req[r].pc = "core" /\ loose' = loose /\ entity' = entity
        /\ Goto(r, "entity", k, acc) /\ core' = [core EXCEPT ![f] = [id |-> k, pw |-> acc.pw]]
    BY <1>7, <2>0 DEF SaveCore, Unexcused
  <2>2. /\ f \in Emails /\ \A e : Holds(r, e) <=> e = f
        /\ f \notin loose =>
             (\A q \in Requests \ {r} : ~Holds(q, f)) /\ Rows(f) \subseteq {k}
    BY <2>0, <2>1, HasInHand
  <2>3. acc # None /\ acc.email = f
    BY <2>0, <2>1, HeldType
  <2>4. /\ \A q \in Requests \ {r} : req'[q] = req[q]
        /\ req'[r].pc = "entity" /\ req'[r].key = k /\ req'[r].acc = acc
        /\ \A g : Holds(r, g)' <=> g = f
    BY <2>1, <2>3, GotoHolds
  <2>5. \A g : Rows(g)' = Rows(g)
    BY <2>1, SameRows
  <2>6. core'[f] = [id |-> k, pw |-> acc.pw] /\ \A g \in Emails \ {f} : core'[g] = core[g]
    BY <2>1, <2>2 DEF TypeOK
  <2>7. f \notin loose' => (\A i, j \in Rows(f)' : i = j) /\ InHand(r, f)'
    BY <2>1, <2>2, <2>4, <2>5, <2>6 DEF InHand
  <2>8. \A g \in Emails \ {f} : Untouched(g)
    BY <2>1, <2>5, <2>6 DEF Untouched
  <2>9. Works(r, f)
    BY <2>1, <2>2, <2>4, <2>7, <2>8 DEF Works
  <2>. QED
    BY <2>9, WorksFits
<1>8. CASE SaveEntity(r)
  <2>0. PICK f, k, acc : f = req[r].acc.email /\ k = req[r].key /\ acc = req[r].acc
    OBVIOUS
  <2>1. /\ req[r].pc = "entity" /\ loose' = loose /\ core' = core /\ Done(r)
        /\ entity' = [entity EXCEPT ![k] = acc]
    BY <1>8, <2>0 DEF SaveEntity, Unexcused
  <2>2. /\ f \in Emails /\ \A e : Holds(r, e) <=> e = f
        /\ f \notin loose =>
             /\ \A q \in Requests \ {r} : ~Holds(q, f)
             /\ Rows(f) \subseteq {k}
             /\ core[f] = [id |-> k, pw |-> acc.pw]
    <3>1. /\ f \in Emails /\ \A e : Holds(r, e) <=> e = f
          /\ f \notin loose =>
               /\ \A q \in Requests \ {r} : ~Holds(q, f)
               /\ Rows(f) \subseteq {k}
               /\ InHand(r, f)
      BY <2>0, <2>1, HasInHand
    <3>2. InHand(r, f) => core[f] = [id |-> k, pw |-> acc.pw]
      BY <2>0, <2>1 DEF InHand
    <3>. QED
      BY <3>1, <3>2
  <2>3. k \in Keys /\ acc \in Account /\ acc.email = f /\ Num[k] = k
    BY <2>0, <2>1, HeldType DEF ReqTidy
  <2>4. (\A q \in Requests \ {r} : req'[q] = req[q]) /\ \A g : ~Holds(r, g)'
    BY <2>1, DoneHolds
  <2>5. ASSUME NEW g \in Emails \ {f} PROVE Untouched(g)
    <3>1. g \in Emails /\ acc.email # g
      BY <2>3, <2>5
    <3>2. Rows(g)' \subseteq Rows(g) /\ \A j \in Rows(g)' : entity'[j] = entity[j]
      BY <2>1, <2>3, <3>1, RowElsewhere
    <3>. QED
      BY <2>1, <3>2 DEF Untouched
  <2>6. Rows(f)' = Rows(f) \cup {k} /\ entity'[k] = acc
    BY <2>1, <2>2, <2>3, RowSaved
  <2>7. f \notin loose' => (\A i, j \in Rows(f)' : i = j) /\ Copied(f)'
    BY <2>1, <2>2, <2>3, <2>6 DEF Copied
  <2>8. Works(r, f)
    BY <2>1, <2>2, <2>4, <2>5, <2>7 DEF Works
  <2>. QED
    BY <2>8, WorksFits
<1>. QED
  BY <1>1, <1>2, <1>3, <1>4, <1>5, <1>6, <1>7, <1>8 DEF Auth

LEMMA FailsFits ==
    ASSUME TypeOK, OwnsWork, AllFit, NEW r \in Requests, Fails(r)
    PROVE  AllFit'
<1>1. PICK f, acc : f = req[r].acc.email /\ acc = req[r].acc
  OBVIOUS
<1>2. /\ req[r].pc \notin {"idle", "lookup"} /\ UNCHANGED <<entity, core>>
      /\ loose' = loose \cup {f}
      /\ Done(r) \/ Goto(r, "delentity", req[r].key, acc)
  BY <1>1 DEF Fails, Broken
<1>3. /\ f \in Emails /\ \A e : Holds(r, e) <=> e = f
      /\ acc # None /\ acc.email = f
  BY <1>1, <1>2, HasInHand, HeldType
<1>4. (\A q \in Requests \ {r} : req'[q] = req[q]) /\ \A g : Holds(r, g)' => g = f
  BY <1>2, <1>3, DoneHolds, GotoHolds
<1>5. \A g \in Emails : Untouched(g)
  BY <1>2, SameRows DEF Untouched
<1>6. Works(r, f)
  BY <1>2, <1>3, <1>4, <1>5 DEF Works
<1>. QED
  BY <1>6, WorksFits

LEMMA SameFits ==
    ASSUME AllFit, UNCHANGED <<entity, core, req, loose>>
    PROVE  AllFit'
<1>1. \A e : Rows(e)' = Rows(e)
  BY SameRows
<1>2. \A r, e : Holds(r, e)' <=> Holds(r, e)
  BY DEF Holds
<1>. QED
  BY <1>1, <1>2 DEF AllFit, Fits, Copied, InHand

LEMMA SyncFits ==
    ASSUME TypeOK, AllFit, CoreNumbered, NEW reached \in SUBSET Emails, Sync(reached)
    PROVE  AllFit'
<1> SUFFICES ASSUME NEW e \in Emails \ loose' PROVE Fits(e)'
  BY DEF AllFit
<1>1. req' = req /\ loose' = loose /\ \A r \in Requests : req[r] = Idle
  BY Syncs
<1>2. \A r \in Requests : ~Holds(r, e) /\ ~Holds(r, e)'
  BY <1>1 DEF Holds, Idle
<1>3. e \notin loose /\ Copied(e) /\ \A j, k \in Rows(e) : j = k
  BY <1>1, <1>2 DEF AllFit, Fits
<1>4. ASSUME NEW k \in Rows(e)', k \notin Rows(e)
      PROVE  Rows(e) = {} /\ core'[e] # None /\ core'[e].id = k /\ core'[e].pw = entity'[k].pw
  <2>1. k \in Keys /\ entity'[k] # None /\ entity'[k].email = e
    BY DEF Rows
  <2>2. entity[k] = None
    <3>1. entity[k] # None => entity'[k].email = entity[k].email
      BY <2>1, Syncs
    <3>. QED
      BY <1>4, <2>1, <3>1 DEF Rows
  <2>3. PICK g \in reached : /\ core'[g] # None /\ core'[g].id = k /\ Rows(g) = {}
                             /\ entity'[k].email = g /\ entity'[k].pw = core'[g].pw
    BY <2>1, <2>2, Syncs
  <2>. QED
    BY <2>1, <2>3
<1>5. ASSUME NEW k \in Rows(e) PROVE k \in Keys /\ entity'[k].pw = entity[k].pw
  BY Syncs DEF Rows
<1>6. CASE Rows(e) # {}
  <2>1. Rows(e)' \subseteq Rows(e)
    BY <1>4, <1>6
  <2>2. PICK k \in Rows(e) : Rows(e) = {k}
    BY <1>3, <1>6
  <2>3. core'[e] = None \/ core'[e] = [id |-> Num[k], pw |-> entity[k].pw]
    <3>1. CASE core[e] = None
      <4>1. core'[e] # None => \E j \in Rows(e) : core'[e] = [id |-> Num[j], pw |-> entity[j].pw]
        BY <3>1, SyncsCore
      <4>. QED
        BY <2>2, <4>1
    <3>2. CASE core[e] # None
      <4>1. core'[e] = core[e]
        BY <3>2, Syncs
      <4>. QED
        BY <1>3, <2>2, <4>1 DEF Copied
    <3>. QED
      BY <3>1, <3>2
  <2>. QED
    BY <1>2, <1>5, <2>1, <2>2, <2>3 DEF Fits, Copied
<1>7. CASE Rows(e) = {}
  <2>1. core'[e] = core[e]
    BY <1>7, Syncs
  <2>2. ASSUME NEW k \in Rows(e)'
        PROVE  core'[e] = [id |-> Num[k], pw |-> entity'[k].pw] /\ core'[e].id = k
    <3>1. core'[e] # None /\ core'[e].id = k /\ core'[e].pw = entity'[k].pw
      BY <1>4, <1>7, <2>2
    <3>2. Num[k] = k
      BY <2>1, <3>1 DEF CoreNumbered
    <3>3. core'[e] \in CoreUser
      BY <2>1, <3>1 DEF TypeOK
    <3>. QED
      BY <3>1, <3>2, <3>3 DEF CoreUser
  <2>. QED
    BY <1>2, <2>2 DEF Fits, Copied
<1>. QED
  BY <1>6, <1>7

LEMMA BootFits ==
    ASSUME TypeOK, OwnsWork, AllFit, Tidy, Boot
    PROVE  AllFit'
<1>0. ReqTidy /\ CoreNumbered
  BY DEF Tidy
<1>1. CASE Restart
  <2> SUFFICES ASSUME NEW e \in Emails \ loose' PROVE Fits(e)'
    BY DEF AllFit
  <2>1. /\ UNCHANGED <<entity, core>> /\ req' = [r \in Requests |-> Idle]
        /\ loose' = loose \cup {req[r].acc.email : r \in {q \in Requests : req[q].acc # None}}
    BY <1>1 DEF Restart
  <2>2. e \notin loose /\ \A r \in Requests : ~Holds(r, e) /\ ~Holds(r, e)'
    BY <2>1 DEF Holds, Idle
  <2>3. Copied(e) /\ \A j, k \in Rows(e) : j = k
    BY <2>2 DEF AllFit, Fits
  <2>4. Rows(e)' = Rows(e)
    BY <2>1, SameRows
  <2>. QED
    BY <2>1, <2>2, <2>3, <2>4 DEF Fits, Copied
<1>2. CASE AdminExists \/ DemosDone
  BY <1>2, SameFits DEF AdminExists, DemosDone
<1>3. ASSUME NEW reached \in SUBSET Emails, Sync(reached) PROVE AllFit'
  BY <1>0, <1>3, SyncFits
<1>4. ASSUME NEW r \in Requests, NEW i \in Keys, SetAdmin(r, i) \/ FirstAdmin(r, i)
      PROVE  AllFit'
  <2>0. AdminEmail \in Emails /\ AdminPw \in Nat
    BY <1>4 DEF SetAdmin, FirstAdmin
  <2>1. PICK acc \in Account : acc = User(AdminEmail, AdminPw) /\ acc.email = AdminEmail
    BY <2>0, UserType
  <2>2. PICK es \in SUBSET Emails : Begin(r, i, es) /\ AdminEmail \in es
    <3>1. {AdminEmail} \in SUBSET Emails /\ {AdminEmail} \cup EmailAt(i) \in SUBSET Emails
      BY <2>0, EmailAtType
    <3>. QED
      BY <1>4, <3>1 DEF SetAdmin, FirstAdmin
  <2>3. /\ Goto(r, "core", i, acc) /\ UNCHANGED <<entity, core>>
        /\ req[r].pc = "idle"
    BY <1>4, <2>1 DEF SetAdmin, FirstAdmin, Starting, Idle
  <2>4. /\ loose \subseteq loose'
        /\ acc.email \notin loose' =>
             (\A q \in Requests \ {r} : ~Holds(q, acc.email)) /\ Rows(acc.email) \subseteq {i}
    BY <2>1, <2>2, BeginsWith
  <2>. QED
    BY <1>0, <2>3, <2>4, TakesUp
<1>5. ASSUME NEW r \in Requests, NEW e \in Emails, RemoveDemo(r, e) PROVE AllFit'
  <2>1. CASE core[e] # None /\ core[e].pw = OldPw
    <3>1. PICK i \in Keys : i = core[e].id
      BY <2>1, CoreType
    <3>2. PICK acc \in Account : acc = User(e, OldPw) /\ acc.email = e
      BY UserType DEF OldPw
    <3>3. PICK es \in SUBSET Emails : es = {e} \cup EmailAt(i) /\ e \in es
      BY EmailAtType
    <3>4. /\ Goto(r, "delcore", i, acc) /\ Begin(r, i, es) /\ UNCHANGED <<entity, core>>
          /\ req[r].pc = "idle"
      BY <1>5, <2>1, <3>1, <3>2, <3>3 DEF RemoveDemo, Starting, Idle
    <3>5. /\ loose \subseteq loose'
          /\ acc.email \notin loose' =>
               (\A q \in Requests \ {r} : ~Holds(q, acc.email)) /\ Rows(acc.email) \subseteq {i}
      <4>1. /\ loose \subseteq loose'
            /\ \A g \in es \ loose' :
                 (\A q \in Requests \ {r} : ~Holds(q, g)) /\ Rows(g) \subseteq {i}
        BY <3>4, BeginsWith
      <4>. QED
        BY <3>2, <3>3, <4>1
    <3>. QED
      BY <1>0, <3>4, <3>5, TakesUp
  <2>2. CASE ~(core[e] # None /\ core[e].pw = OldPw)
    BY <1>5, <2>2, SameFits DEF RemoveDemo, Unexcused
  <2>. QED
    BY <2>1, <2>2
<1>. QED
  BY <1>1, <1>2, <1>3, <1>4, <1>5 DEF Boot


LEMMA InitFits == Init => AllFit
<1> SUFFICES ASSUME Init, NEW e \in Emails PROVE Fits(e)
  BY DEF AllFit
<1>1. PICK mirrored \in SUBSET {g \in Emails : Rows(g) # {}} :
        core = [g \in Emails |->
                  IF g \in mirrored THEN [id |-> Num[First(Rows(g))], pw |-> OldPw] ELSE None]
  BY DEF Init
<1>2. (\A j, k \in Rows(e) : j = k) /\ \A r \in Requests : ~Holds(r, e)
  BY DEF Init, Idle, Holds
<1>3. ASSUME NEW k \in Rows(e), core[e] # None
      PROVE  core[e] = [id |-> Num[k], pw |-> entity[k].pw]
  <2>1. First(Rows(e)) = k
    BY <1>2, <1>3, RowsType, FirstIn
  <2>2. entity[k].pw = OldPw
    <3>1. k \in Keys /\ entity[k] # None
      BY <1>3 DEF Rows
    <3>2. entity \in [Keys -> {None} \cup [email : Emails, pw : {OldPw}, roled : BOOLEAN]]
      BY DEF Init
    <3>. QED
      BY <3>1, <3>2
  <2>. QED
    BY <1>1, <1>3, <2>1, <2>2
<1>. QED
  BY <1>2, <1>3 DEF Fits, Copied

\* Of an email nothing excuses, the password Login accepts is the one the entity API
\* shows as soon as no request works on it: through every interleaving of the entity
\* API, Login, Me, Register, LinkChannel and reset-pass, and through restarts.
THEOREM LoginAgrees == Spec => []LoginFollowsEntity
<1>1. TypeOK /\ OwnsWork /\ AllFit /\ Tidy /\ [Next]_vars => AllFit'
  <2> SUFFICES ASSUME TypeOK, OwnsWork, AllFit, Tidy, [Next]_vars PROVE AllFit'
    OBVIOUS
  <2>1. CASE UNCHANGED vars
    <3>1. UNCHANGED <<req, core, loose, entity>>
      BY <2>1 DEF vars
    <3>2. \A e : Rows(e)' = Rows(e)
      BY <3>1, SameRows
    <3>3. \A r, e : Holds(r, e)' <=> Holds(r, e)
      BY <3>1 DEF Holds
    <3>. QED
      BY <3>1, <3>2, <3>3 DEF AllFit, Fits, Copied, InHand
  <2>. QED
    BY <2>1, EntityApiFits, AuthFits, FailsFits, BootFits DEF Next, Tidy
<1>2. AllFit => LoginFollowsEntity
  BY DEF AllFit, Fits, Copied, LoginFollowsEntity
<1>. QED
  BY <1>1, <1>2, InitFits, InitTidy, NextTidy, OwnsWorkAlways, TypeCorrect, PTL DEF Spec

=============================================================================
