------------------------------ MODULE Accounts ------------------------------
(***************************************************************************)
(* Accounts reached over a messaging channel (LoginByChannel of            *)
(* core/services/auth_service.go, the channel rows of channel_service.go,  *)
(* the one-time passwords of whatsapp_service.go and their handlers in     *)
(* core/api).  A first login creates the user and then links the channel,  *)
(* each with calls of the record store of its own: another login may run   *)
(* between any two, the errors of the link are dropped, and the process    *)
(* may die half way.                                                       *)
(*                                                                         *)
(* Data abstraction.  Users are numbers, drawn in order; a user is its     *)
(* phone and whether a TOTP secret is stored.  The key of a channel row is *)
(* the user and the identifier, whatever its type.                         *)
(***************************************************************************)
EXTENDS Integers, FiniteSets

CONSTANTS
    Phones,        \* identifiers
    Types,         \* channel types
    WhatsApp,      \* the one of them whose identifiers are phone numbers
    Procs,         \* request goroutines, one request each
    MaxUsers,      \* bound: users created
    MaxFaults,     \* bound: failed calls of the store and crashes
    None

Users == 1 .. MaxUsers
Channel == [type : Types, verified : BOOLEAN]
User == [phone : Phones, totp : BOOLEAN]

AccountsAssumption ==
    /\ WhatsApp \in Types /\ MaxUsers \in Nat /\ MaxFaults \in Nat
    /\ None \notin User \cup Phones

VARIABLES
    users,      \* the core users: [Users -> User or None]
    channels,   \* [Users \X Phones -> Channel or None]
    otp,        \* one-time password of a phone: "none", "valid" or "expired"
    req,        \* the local variables of each request
    tokens,     \* users for whom a token was issued (and an attempt logged)
    drawn,      \* number of users created
    faults,
    risk        \* history, see OneUserPerPhone

vars == <<users, channels, otp, req, tokens, drawn, faults, risk>>

Idle == [pc |-> "idle", type |-> None, phone |-> None, code |-> FALSE, user |-> None,
         rows |-> {}]

-----------------------------------------------------------------------------
(* Lookups *)

\* GetChannelByIdentifier: one row of the type and the identifier, if any; that
\* it is verified is not asked.
GetChannelByIdentifier(type, phone) ==
    {u \in Users : channels[<<u, phone>>] # None /\ channels[<<u, phone>>].type = type}

\* Mutant of ByPhone: a user is looked for under the linked channels only.
ByPhoneNever(phone) == {}

ByPhone(phone) == {u \in Users : users[u] # None /\ users[u].phone = phone}

\* Decoding a stored user looks for "totp_secret", which is stored as
\* "totpSecret": the secret does not come back.
Decoded(user) == [user EXCEPT !.totp = FALSE]

Free(p) == req[p].pc = "idle" /\ p = CHOOSE q \in Procs : req[q].pc = "idle"

Step(p, pc) == req' = [req EXCEPT ![p].pc = pc]

Fault == faults < MaxFaults /\ faults' = faults + 1

\* The logins of a phone that may yet create a user.
Searching(phone) ==
    {p \in Procs : req[p].phone = phone /\ req[p].pc \in {"find", "phone", "create"}}

-----------------------------------------------------------------------------
(* LoginByChannel *)

Begin(p, type, phone, code) ==
    /\ Free(p)
    /\ req' = [req EXCEPT ![p] = [Idle EXCEPT !.pc = "find", !.type = type,
                                              !.phone = phone, !.code = code]]
    /\ risk' = IF Searching(phone) = {} THEN risk ELSE risk \cup {phone}

\* POST login/channel, the gateway's reverse login, and the TOTP form: the
\* last two carry a token.
DoLoginByChannel(p, type, phone, code) ==
    /\ Begin(p, type, phone, code)
    /\ UNCHANGED <<users, channels, otp, tokens, drawn, faults>>

\* POST whatsapp/verify: VerifyOTP takes a password once and not after it
\* expired; a wrong one changes nothing.
WhatsAppVerify(p, phone) ==
    /\ otp[phone] = "valid"
    /\ otp' = [otp EXCEPT ![phone] = "none"]
    /\ Begin(p, WhatsApp, phone, FALSE)
    /\ UNCHANGED <<users, channels, tokens, drawn, faults>>

\* The listing of channels; its failure is taken for "not linked".
FindChannel(p) ==
    /\ req[p].pc = "find"
    /\ LET found == GetChannelByIdentifier(req[p].type, req[p].phone)
           next == IF req[p].type = WhatsApp THEN "phone" ELSE "create"
       IN  \/ /\ found # {}
              /\ \E u \in found :
                   req' = [req EXCEPT ![p].pc = "me", ![p].user = u]
              /\ UNCHANGED <<faults, risk>>
           \/ found = {} /\ Step(p, next) /\ UNCHANGED <<faults, risk>>
           \/ Fault /\ Step(p, next) /\ risk' = risk \cup {req[p].phone}
    /\ UNCHANGED <<users, channels, otp, tokens, drawn>>

\* Me: the linked user is read, or the login fails.
Me(p) ==
    /\ req[p].pc = "me"
    /\ \/ users[req[p].user] # None /\ Step(p, "totp") /\ UNCHANGED faults
       \/ users[req[p].user] = None /\ Step(p, "ended") /\ UNCHANGED faults
       \/ Fault /\ Step(p, "ended")
    /\ UNCHANGED <<users, channels, otp, tokens, drawn, risk>>

\* Not linked: a user with that phone, whose channel is then linked.
FindPhone(p) ==
    /\ req[p].pc = "phone"
    /\ LET found == ByPhone(req[p].phone)
       IN  \/ /\ found # {}
              /\ \E u \in found :
                   req' = [req EXCEPT ![p].pc = "register", ![p].user = u]
              /\ UNCHANGED <<faults, risk>>
           \/ found = {} /\ Step(p, "create") /\ UNCHANGED <<faults, risk>>
           \/ Fault /\ Step(p, "create") /\ risk' = risk \cup {req[p].phone}
    /\ UNCHANGED <<users, channels, otp, tokens, drawn>>

\* No user: a login with a token fails, another creates one under a new id.
CreateUser(p) ==
    /\ req[p].pc = "create"
    /\ \/ req[p].code /\ Step(p, "ended") /\ UNCHANGED <<users, drawn, faults, risk>>
       \/ /\ ~ req[p].code /\ drawn < MaxUsers
          /\ drawn' = drawn + 1
          /\ users' = [users EXCEPT ![drawn'] = [phone |-> req[p].phone, totp |-> FALSE]]
          /\ req' = [req EXCEPT ![p].pc = "register", ![p].user = drawn']
          /\ risk' = IF req[p].type = WhatsApp THEN risk ELSE risk \cup {req[p].phone}
          /\ UNCHANGED faults
       \/ ~ req[p].code /\ Fault /\ Step(p, "ended") /\ UNCHANGED <<users, drawn, risk>>
    /\ UNCHANGED <<channels, otp, tokens>>

\* RegisterChannel upserts an unverified row; its error is dropped here.
RegisterChannel(p) ==
    /\ req[p].pc = "register"
    /\ \/ /\ channels' = [channels EXCEPT ![<<req[p].user, req[p].phone>>] =
                            [type |-> req[p].type, verified |-> FALSE]]
          /\ UNCHANGED faults
       \/ Fault /\ UNCHANGED channels
    /\ Step(p, "verify")
    /\ UNCHANGED <<users, otp, tokens, drawn, risk>>

\* VerifyChannel lists the user's rows of the type ...
VerifyList(p) ==
    /\ req[p].pc = "verify"
    /\ \/ /\ req' = [req EXCEPT ![p].pc = "save",
                        ![p].rows = {k \in {req[p].user} \X Phones :
                                       channels[k] # None /\ channels[k].type = req[p].type}]
          /\ UNCHANGED faults
       \/ Fault /\ Step(p, "totp")
    /\ UNCHANGED <<users, channels, otp, tokens, drawn, risk>>

\* ... and saves the copy of each, verified; the first error ends it.
VerifySave(p) ==
    /\ req[p].pc = "save"
    /\ \/ /\ req[p].rows = {} /\ Step(p, "totp") /\ UNCHANGED <<channels, faults>>
       \/ /\ \E k \in req[p].rows :
               /\ channels' = [channels EXCEPT ![k] = [type |-> req[p].type, verified |-> TRUE]]
               /\ req' = [req EXCEPT ![p].rows = @ \ {k}]
          /\ UNCHANGED faults
       \/ /\ req[p].rows # {} /\ Fault /\ UNCHANGED channels
          /\ req' = [req EXCEPT ![p].pc = "totp", ![p].rows = {}]
    /\ UNCHANGED <<users, otp, tokens, drawn, risk>>

\* A token given over WhatsApp is checked against the decoded user's secret;
\* then the JWT is issued and the attempt logged.
Issue(p) ==
    /\ req[p].pc = "totp"
    /\ LET user == users[req[p].user]
           enrolled == user # None /\ Decoded(user).totp
       IN  tokens' = IF req[p].phone # None /\ (req[p].code /\ req[p].type = WhatsApp => enrolled)
                     THEN tokens \cup {req[p].user} ELSE tokens
    /\ req' = [req EXCEPT ![p] = [Idle EXCEPT !.pc = "ended"]]
    /\ UNCHANGED <<users, channels, otp, drawn, faults, risk>>

-----------------------------------------------------------------------------
(* The other requests *)

\* POST whatsapp/callback: GenerateOTP replaces the phone's password.
GenerateOTP(phone) ==
    /\ otp' = [otp EXCEPT ![phone] = "valid"]
    /\ UNCHANGED <<users, channels, req, tokens, drawn, faults, risk>>

Expire(phone) ==
    /\ otp[phone] = "valid"
    /\ otp' = [otp EXCEPT ![phone] = "expired"]
    /\ UNCHANGED <<users, channels, req, tokens, drawn, faults, risk>>

\* POST whatsapp/totp/enroll: a new secret is stored with the user as read, which
\* brings back a user deleted meanwhile.
WhatsAppTOTPEnroll(p, u) ==
    /\ Free(p) /\ u \in tokens /\ users[u] # None
    /\ req' = [req EXCEPT ![p] = [Idle EXCEPT !.pc = "enroll", !.user = u,
                                              !.phone = users[u].phone]]
    /\ UNCHANGED <<users, channels, otp, tokens, drawn, faults, risk>>

EnrollSave(p) ==
    /\ req[p].pc = "enroll"
    /\ \/ /\ users' = [users EXCEPT ![req[p].user] = [phone |-> req[p].phone, totp |-> TRUE]]
          /\ UNCHANGED faults
       \/ Fault /\ UNCHANGED users
    /\ req' = [req EXCEPT ![p] = [Idle EXCEPT !.pc = "ended"]]
    /\ UNCHANGED <<channels, otp, tokens, drawn, risk>>

\* POST channels: a user registers an identifier of any type, unverified.
ApiRegister(u, type, phone) ==
    /\ u \in tokens
    /\ channels' = [channels EXCEPT ![<<u, phone>>] = [type |-> type, verified |-> FALSE]]
    /\ UNCHANGED <<users, otp, req, tokens, drawn, faults, risk>>

\* POST channels/verify, the same VerifyChannel.
ApiVerify(p, u, type) ==
    /\ Free(p) /\ u \in tokens
    /\ req' = [req EXCEPT ![p] = [Idle EXCEPT !.pc = "verify", !.type = type, !.user = u]]
    /\ UNCHANGED <<users, channels, otp, tokens, drawn, faults, risk>>

\* The user is deleted (EntityService.Delete); the rows of its channels stay.
DeleteUser(u) ==
    /\ users[u] # None
    /\ users' = [users EXCEPT ![u] = None]
    /\ risk' = IF \E p \in Procs : req[p].pc = "enroll" /\ req[p].user = u
               THEN risk \cup {users[u].phone} ELSE risk
    /\ UNCHANGED <<channels, otp, req, tokens, drawn, faults>>

Crash ==
    /\ Fault
    /\ req' = [p \in Procs |-> IF req[p].pc = "idle" THEN Idle ELSE [Idle EXCEPT !.pc = "ended"]]
    /\ otp' = [phone \in Phones |-> "none"]
    /\ UNCHANGED <<users, channels, tokens, drawn, risk>>

-----------------------------------------------------------------------------

Init ==
    /\ users = [u \in Users |-> None]
    /\ channels = [k \in Users \X Phones |-> None]
    /\ otp = [phone \in Phones |-> "none"]
    /\ req = [p \in Procs |-> Idle]
    /\ tokens = {} /\ drawn = 0 /\ faults = 0 /\ risk = {}

LoginStep(p) ==
    \/ FindChannel(p) \/ Me(p) \/ FindPhone(p) \/ CreateUser(p)
    \/ RegisterChannel(p) \/ VerifyList(p) \/ VerifySave(p) \/ Issue(p) \/ EnrollSave(p)

Next ==
    \/ \E p \in Procs :
         \/ LoginStep(p)
         \/ \E phone \in Phones :
              \/ WhatsAppVerify(p, phone)
              \/ \E type \in Types, code \in BOOLEAN : DoLoginByChannel(p, type, phone, code)
         \/ \E u \in Users : \/ WhatsAppTOTPEnroll(p, u)
                            \/ \E type \in Types : ApiVerify(p, u, type)
    \/ \E phone \in Phones : GenerateOTP(phone) \/ Expire(phone)
    \/ \E u \in Users :
         \/ DeleteUser(u)
         \/ \E type \in Types, phone \in Phones : ApiRegister(u, type, phone)
    \/ Crash

Spec == Init /\ [][Next]_vars

-----------------------------------------------------------------------------
(* Properties *)

TypeOK ==
    /\ users \in [Users -> User \cup {None}]
    /\ channels \in [Users \X Phones -> Channel \cup {None}]
    /\ otp \in [Phones -> {"none", "valid", "expired"}]
    /\ \A p \in Procs : /\ req[p].user \in Users \cup {None}
                        /\ req[p].rows \subseteq Users \X Phones
    /\ tokens \subseteq Users /\ risk \subseteq Phones
    /\ drawn \in 0 .. MaxUsers /\ faults \in 0 .. MaxFaults

\* One phone number never gets a second user: a login that created the user and
\* died or failed before it linked the channel is completed by the next one.
\* Excused are the phones in risk: two of whose logins searched at a time, a
\* lookup of which failed (the code goes on as if it had found nothing), that
\* served as the identifier of another type of channel, or whose user was
\* deleted under an enrolment that saves it again.
OneUserPerPhone ==
    \A phone \in Phones \ risk, u, v \in Users :
        /\ users[u] # None /\ users[u].phone = phone
        /\ users[v] # None /\ users[v].phone = phone
        => u = v

\* A user who enrolled can log in with a code ("LoginByChannel handles finding
\* user and verifying TOTP if token is provided", core/api/auth_api.go:237).
EnrolledIsRecognised ==
    \A u \in Users : users[u] # None /\ users[u].totp => Decoded(users[u]).totp

=============================================================================
