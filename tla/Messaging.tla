----------------------------- MODULE Messaging -----------------------------
(***************************************************************************)
(* Messages to and from users over the channels they linked                *)
(* (core/services/channel_service.go) and the record kept of each          *)
(* (core/services/interaction_service.go).  A notification goes to every   *)
(* verified channel in turn: the interaction is logged as pending, posted  *)
(* to the channel's gateway, and its status updated by a Get and a Save.   *)
(* Any call of the store may fail, the gateway's answer may be an error or *)
(* get lost, and the process may die between two steps.                    *)
(***************************************************************************)
EXTENDS Integers, FiniteSets

CONSTANTS
    Channels,      \* the user's channel rows
    Verified,      \* those that are authenticated
    Preferred,     \* those of a preferred type; all of them when none is asked
    Enabled,       \* those whose gateway is enabled and has a URL
    Senders,       \* calls of SendNotification, one each
    MaxFaults,     \* bound: failed store calls, lost answers and crashes
    MaxInbound,    \* bound: webhook calls
    None

MessagingAssumption ==
    /\ Verified \subseteq Channels
    /\ MaxFaults \in Nat /\ MaxInbound \in Nat
    /\ None \notin Channels \cup {"pending", "failed", "delivered"}

\* The interaction of a send: a random id is fresh, so the send names it.
Ids == Senders \X Channels
Status == {"pending", "failed", "delivered"}

VARIABLES
    log,        \* outbound interactions: [Ids -> Status or None]
    accepted,   \* how many messages the gateway has taken for each
    send,       \* the local variables of each SendNotification
    inbound,    \* the webhook call in progress
    received,   \* inbound interactions logged: the asset each one names
    files,      \* uploaded media; recorded, those with an asset row
    recorded,
    faults,
    spoiled     \* history: interactions hit by a fault

vars == <<log, accepted, send, inbound, received, files, recorded, faults, spoiled>>
inVars == <<inbound, received, files, recorded>>

Idle == [pc |-> "idle", left |-> {}, to |-> None, status |-> None]
Id(s) == <<s, send[s].to>>

Fault == faults < MaxFaults /\ faults' = faults + 1
FaultIn(s) == Fault /\ spoiled' = spoiled \cup {Id(s)}
NoFault == UNCHANGED <<faults, spoiled>>

-----------------------------------------------------------------------------
(* SendNotification *)

\* Channels not verified, or not of a preferred type, are passed over.
SendNotification(s) ==
    /\ send[s].pc = "idle"
    /\ send' = [send EXCEPT ![s] = [Idle EXCEPT !.pc = "next",
                                                !.left = Verified \cap Preferred]]
    /\ UNCHANGED <<log, accepted, inVars>> /\ NoFault

\* The next channel; an error of the one before did not stop the loop.
NextChannel(s) ==
    /\ send[s].pc = "next"
    /\ IF send[s].left = {} THEN send' = [send EXCEPT ![s].pc = "ended"]
       ELSE \E c \in send[s].left :
              send' = [send EXCEPT ![s].pc = "log", ![s].to = c, ![s].left = @ \ {c}]
    /\ UNCHANGED <<log, accepted, inVars>> /\ NoFault

\* sendToGateway logs the interaction; that this may fail is not looked at.
LogPending(s) ==
    /\ send[s].pc = "log"
    /\ \/ log' = [log EXCEPT ![Id(s)] = "pending"] /\ NoFault
       \/ FaultIn(s) /\ UNCHANGED log
    /\ send' = [send EXCEPT ![s].pc = "post"]
    /\ UNCHANGED <<accepted, inVars>>

Settle(s, status) == send' = [send EXCEPT ![s].pc = "get", ![s].status = status]

\* Mutant of Verdict: only the error of the call is looked at.
VerdictIgnoresStatus(status) == "delivered"

\* An answer of 400 or more is a failure.
Verdict(status) == IF status >= 400 THEN "failed" ELSE "delivered"

\* The POST: no gateway; taken or refused and answered; or no answer, taken or not.
PostToGateway(s) ==
    /\ send[s].pc = "post"
    /\ \/ /\ send[s].to \notin Enabled /\ Settle(s, "failed")
          /\ UNCHANGED accepted /\ NoFault
       \/ /\ send[s].to \in Enabled /\ NoFault
          /\ \/ Settle(s, Verdict(200)) /\ accepted' = [accepted EXCEPT ![Id(s)] = @ + 1]
             \/ Settle(s, Verdict(500)) /\ UNCHANGED accepted
       \/ /\ send[s].to \in Enabled /\ FaultIn(s) /\ Settle(s, "failed")
          /\ \E n \in {0, 1} : accepted' = [accepted EXCEPT ![Id(s)] = @ + n]
    /\ UNCHANGED <<log, inVars>>

\* UpdateStatus: the Get; an interaction that is not there is an error.
StatusGet(s) ==
    /\ send[s].pc = "get"
    /\ \/ /\ send' = [send EXCEPT ![s].pc = IF log[Id(s)] = None THEN "next" ELSE "save"]
          /\ NoFault
       \/ FaultIn(s) /\ send' = [send EXCEPT ![s].pc = "next"]
    /\ UNCHANGED <<log, accepted, inVars>>

StatusSave(s) ==
    /\ send[s].pc = "save"
    /\ \/ log' = [log EXCEPT ![Id(s)] = send[s].status] /\ NoFault
       \/ FaultIn(s) /\ UNCHANGED log
    /\ send' = [send EXCEPT ![s].pc = "next"]
    /\ UNCHANGED <<accepted, inVars>>

-----------------------------------------------------------------------------
(* HandleInbound *)

outVars == <<log, accepted, send, spoiled>>

\* A webhook call, with media or without; the channel lookup only adds a user id.
Webhook(media) ==
    /\ inbound.pc = "idle" /\ inbound.n < MaxInbound
    /\ inbound' = [pc |-> IF media THEN "upload" ELSE "log", n |-> inbound.n + 1, media |-> FALSE]
    /\ UNCHANGED <<received, files, recorded, faults, outVars>>

\* The upload, under a random name; without it the text is logged as it came.
UploadMedia ==
    /\ inbound.pc = "upload"
    /\ \/ /\ files' = files \cup {inbound.n} /\ UNCHANGED faults
          /\ inbound' = [inbound EXCEPT !.pc = "asset"]
       \/ Fault /\ UNCHANGED files /\ inbound' = [inbound EXCEPT !.pc = "log"]
    /\ UNCHANGED <<received, recorded, outVars>>

\* The asset row, whose error is dropped; the message becomes the asset's URL.
SaveAsset ==
    /\ inbound.pc = "asset"
    /\ \/ recorded' = recorded \cup {inbound.n} /\ UNCHANGED faults
       \/ Fault /\ UNCHANGED recorded
    /\ inbound' = [inbound EXCEPT !.pc = "log", !.media = TRUE]
    /\ UNCHANGED <<received, files, outVars>>

\* The interaction is logged as processed, or the webhook answers 500.
LogInbound ==
    /\ inbound.pc = "log"
    /\ \/ /\ received' = received \cup {[n |-> inbound.n, media |-> inbound.media]}
          /\ UNCHANGED faults
       \/ Fault /\ UNCHANGED received
    /\ inbound' = [inbound EXCEPT !.pc = "idle"]
    /\ UNCHANGED <<files, recorded, outVars>>

Crash ==
    /\ Fault
    /\ send' = [s \in Senders |-> IF send[s].pc = "idle" THEN Idle ELSE [Idle EXCEPT !.pc = "ended"]]
    /\ spoiled' = spoiled \cup {Id(s) : s \in {t \in Senders : send[t].to # None}}
    /\ inbound' = [inbound EXCEPT !.pc = "idle"]
    /\ UNCHANGED <<log, accepted, received, files, recorded>>

-----------------------------------------------------------------------------

Init ==
    /\ log = [i \in Ids |-> None]
    /\ accepted = [i \in Ids |-> 0]
    /\ send = [s \in Senders |-> Idle]
    /\ inbound = [pc |-> "idle", n |-> 0, media |-> FALSE]
    /\ received = {} /\ files = {} /\ recorded = {}
    /\ faults = 0 /\ spoiled = {}

SendStep(s) ==
    \/ NextChannel(s) \/ LogPending(s) \/ PostToGateway(s) \/ StatusGet(s) \/ StatusSave(s)

Next ==
    \/ \E s \in Senders : SendNotification(s) \/ SendStep(s)
    \/ \E media \in BOOLEAN : Webhook(media)
    \/ UploadMedia \/ SaveAsset \/ LogInbound \/ Crash

Spec == Init /\ [][Next]_vars

-----------------------------------------------------------------------------
(* Properties *)

TypeOK ==
    /\ log \in [Ids -> Status \cup {None}]
    /\ accepted \in [Ids -> 0 .. 1]
    /\ \A s \in Senders :
         /\ send[s].pc \in {"idle", "next", "log", "post", "get", "save", "ended"}
         /\ send[s].left \subseteq Channels /\ send[s].to \in Channels \cup {None}
    /\ inbound.pc \in {"idle", "upload", "asset", "log"} /\ inbound.n \in 0 .. MaxInbound
    /\ files \cup recorded \subseteq 1 .. MaxInbound
    /\ faults \in 0 .. MaxFaults /\ spoiled \subseteq Senders \X (Channels \cup {None})

Open(i) == send[i[1]].to = i[2] /\ send[i[1]].pc \in {"post", "get", "save"}

\* The log is the truth about what was sent: no message is posted twice, and
\* once a send is through with a channel its interaction is settled, delivered
\* if and only if the gateway took it, unless a fault hit that very send.
StatusTellsTruth ==
    \A i \in Ids :
        /\ accepted[i] <= 1
        /\ log[i] # None /\ ~ Open(i) /\ i \notin spoiled
             => log[i] = IF accepted[i] = 1 THEN "delivered" ELSE "failed"

=============================================================================
