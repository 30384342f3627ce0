---------------------------- MODULE A2UIBroadcast -----------------------------
(***************************************************************************)
(* The dashboard stream: core/services/a2ui_service.go and the handlers of *)
(* core/api/a2ui_api.go.                                                   *)
(*                                                                         *)
(* UpdateComponent changes the state under the lock, takes a snapshot,     *)
(* gives the lock up, and sends the snapshot to every subscriber under the *)
(* read lock, which several of them may hold.  A send never waits: a       *)
(* subscriber whose channel is full misses the snapshot.  Stream reads the *)
(* channel of its subscriber and writes what it gets to the client.        *)
(*                                                                         *)
(* Data abstraction.  A component's value is the number of the update that *)
(* wrote it.  The count that the "increment" action keeps in the component *)
(* "counter-text" is apart: it is changed in place, with no lock, in a map *)
(* that the state and all its snapshots share.  Left out: a tool that      *)
(* replaces "counter-text", and what Go may also do when two goroutines    *)
(* write a map at once, stop the program.                                  *)
(***************************************************************************)
EXTENDS Integers, Sequences, FiniteSets

CONSTANTS
    Components,
    CounterText, \* the component that "increment" updates
    Updaters,    \* goroutines that call UpdateComponent: tools, Action
    Clients,     \* connections to Stream
    ChanCap,     \* capacity of a subscriber's channel (10)
    MaxUpdates,  \* bound: number of updates
    None

Snapshot == [Components -> Nat]

ASSUME BroadcastAssumption ==
    /\ ChanCap \in Nat \ {0}
    /\ MaxUpdates \in Nat
    /\ CounterText \in Components
    /\ None \notin Snapshot \cup Seq(Snapshot)

VARIABLES
    components,  \* A2UIService.components
    chans,       \* subscribers: a client's channel, or None without one
    shown,       \* what the client shows: the last snapshot written to it, or None
    upd,         \* each updater: its snapshot and the clients still to be sent
                 \* it; before that, in Action, the count it read
    count,       \* the count in the shared map of "counter-text"
    updates,     \* number of updates so far
    panicked,    \* a send on a closed channel has happened
    missed,      \* history: clients that a full channel kept a snapshot from
    overtaken,   \* history: updates have been in progress at the same time
    counted,     \* history: increments whose write was made
    racing       \* history: two increments have been under way together

vars == <<components, chans, shown, upd, count, updates, panicked, missed,
          overtaken, counted, racing>>

counter == <<count, counted, racing>>

Idle == [pc |-> "idle", snap |-> None, todo |-> {}, read |-> 0]

UpdState == [pc : {"idle", "counting", "counted", "unlocked", "sending"},
             snap : Snapshot \cup {None}, todo : SUBSET Clients, read : Nat]

\* An increment has read the count, and perhaps written it, and not stored it.
InAction(u) == upd[u].pc \in {"counting", "counted"}

\* UpdateComponent has stored the component and has not returned.
InUpdate(u) == upd[u].pc \in {"unlocked", "sending"}

\* Bound: one more update can begin.
Room == updates + Cardinality({u \in Updaters : InAction(u)}) < MaxUpdates

Subscribers == {c \in Clients : chans[c] # None}

\* Nobody holds the read lock: the lock can be taken for writing.
NoReader == \A u \in Updaters : upd[u].pc # "sending"

-----------------------------------------------------------------------------
(* Action, with action type "increment", up to its call of UpdateComponent *)

\* GetComponent, and "count := textComp.Attributes["count"].(float64)".
ReadCount(u) ==
    /\ upd[u].pc = "idle"
    /\ Room
    /\ upd' = [upd EXCEPT ![u].pc = "counting", ![u].read = count]
    /\ racing' = (racing \/ \E v \in Updaters : upd[v].pc = "counting")
    /\ UNCHANGED <<components, chans, shown, count, updates, panicked, missed,
                   overtaken, counted>>

\* Mutant of WriteCount: the count is written as it was read.
WriteCountBack(u) ==
    /\ upd[u].pc = "counting"
    /\ count' = upd[u].read
    /\ counted' = counted + 1
    /\ upd' = [upd EXCEPT ![u].pc = "counted", ![u].read = 0]
    /\ UNCHANGED <<components, chans, shown, updates, panicked, missed, overtaken,
                   racing>>

\* "count++" and the write into the map.
WriteCount(u) ==
    /\ upd[u].pc = "counting"
    /\ count' = upd[u].read + 1
    /\ counted' = counted + 1
    /\ upd' = [upd EXCEPT ![u].pc = "counted", ![u].read = 0]
    /\ UNCHANGED <<components, chans, shown, updates, panicked, missed, overtaken,
                   racing>>

-----------------------------------------------------------------------------
(* UpdateComponent *)

\* A tool updates a component of its own; Action the counter it has written.
MayStore(u, k) ==
    \/ upd[u].pc = "idle" /\ k # CounterText /\ Room
    \/ upd[u].pc = "counted" /\ k = CounterText

\* Mutant of Store: the state is not serialized.
StoreNoSnapshot(u, k) ==
    /\ MayStore(u, k)
    /\ NoReader
    /\ updates' = updates + 1
    /\ components' = [components EXCEPT ![k] = updates']
    /\ upd' = [upd EXCEPT ![u].pc = "unlocked"]
    /\ overtaken' = (overtaken \/ \E v \in Updaters : InUpdate(v))
    /\ UNCHANGED <<chans, shown, counter, panicked, missed>>

\* Mutant of Store: the state is serialized before the component is stored.
StoreStale(u, k) ==
    /\ MayStore(u, k)
    /\ NoReader
    /\ updates' = updates + 1
    /\ components' = [components EXCEPT ![k] = updates']
    /\ upd' = [upd EXCEPT ![u] = [Idle EXCEPT !.pc = "unlocked", !.snap = components]]
    /\ overtaken' = (overtaken \/ \E v \in Updaters : InUpdate(v))
    /\ UNCHANGED <<chans, shown, counter, panicked, missed>>

\* The first critical section: the component is stored, the state is serialized.
Store(u, k) ==
    /\ MayStore(u, k)
    /\ NoReader
    /\ updates' = updates + 1
    /\ components' = [components EXCEPT ![k] = updates']
    /\ upd' = [upd EXCEPT ![u] = [Idle EXCEPT !.pc = "unlocked", !.snap = components']]
    /\ overtaken' = (overtaken \/ \E v \in Updaters : InUpdate(v))
    /\ UNCHANGED <<chans, shown, counter, panicked, missed>>

\* The read lock: no subscriber comes or goes until it is given back.
StartSending(u) ==
    /\ upd[u].pc = "unlocked"
    /\ upd' = [upd EXCEPT ![u].pc = "sending", ![u].todo = Subscribers]
    /\ UNCHANGED <<components, chans, shown, counter, updates, panicked, missed, overtaken>>

\* Mutant of Send: it waits for room in the channel.
SendWaiting(u, c) ==
    /\ upd[u].pc = "sending"
    /\ c \in upd[u].todo
    /\ chans[c] # None
    /\ Len(chans[c]) < ChanCap
    /\ chans' = [chans EXCEPT ![c] = Append(@, upd[u].snap)]
    /\ upd' = [upd EXCEPT ![u].todo = @ \ {c}]
    /\ UNCHANGED <<components, shown, counter, updates, panicked, missed, overtaken>>

\* One turn of the loop over the subscribers, in any order (a map): the
\* non-blocking send.  A send on a closed channel would be a panic.
Send(u, c) ==
    /\ upd[u].pc = "sending"
    /\ c \in upd[u].todo
    /\ upd' = [upd EXCEPT ![u].todo = @ \ {c}]
    /\ IF chans[c] = None THEN panicked' = TRUE /\ UNCHANGED <<chans, missed>>
       ELSE IF Len(chans[c]) < ChanCap
       THEN /\ chans' = [chans EXCEPT ![c] = Append(@, upd[u].snap)]
            /\ UNCHANGED <<panicked, missed>>
       ELSE missed' = missed \cup {c} /\ UNCHANGED <<chans, panicked>>
    /\ UNCHANGED <<components, shown, counter, updates, overtaken>>

\* The read lock is given back.
Return(u) ==
    /\ upd[u].pc = "sending"
    /\ upd[u].todo = {}
    /\ upd' = [upd EXCEPT ![u] = Idle]
    /\ UNCHANGED <<components, chans, shown, counter, updates, panicked, missed, overtaken>>

-----------------------------------------------------------------------------
(* Stream *)

\* Mutant of Connect: the channel starts empty.
ConnectEmpty(c) ==
    /\ chans[c] = None
    /\ NoReader
    /\ chans' = [chans EXCEPT ![c] = <<>>]
    /\ shown' = [shown EXCEPT ![c] = None]
    /\ missed' = missed \ {c}
    /\ UNCHANGED <<components, upd, counter, updates, panicked, overtaken>>

\* Subscribe, under the lock: the channel starts with the state of the moment.
Connect(c) ==
    /\ chans[c] = None
    /\ NoReader
    /\ chans' = [chans EXCEPT ![c] = <<components>>]
    /\ shown' = [shown EXCEPT ![c] = None]
    /\ missed' = missed \ {c}
    /\ UNCHANGED <<components, upd, counter, updates, panicked, overtaken>>

\* "components := <-ch", and the snapshot goes to the client.
Deliver(c) ==
    /\ chans[c] \notin {None, <<>>}
    /\ shown' = [shown EXCEPT ![c] = Head(chans[c])]
    /\ chans' = [chans EXCEPT ![c] = Tail(@)]
    /\ UNCHANGED <<components, upd, counter, updates, panicked, missed, overtaken>>

\* Mutant of Disconnect: Unsubscribe takes no lock.
DisconnectUnlocked(c) ==
    /\ chans[c] # None
    /\ chans' = [chans EXCEPT ![c] = None]
    /\ shown' = [shown EXCEPT ![c] = None]
    /\ UNCHANGED <<components, upd, counter, updates, panicked, missed, overtaken>>

\* The client goes; Unsubscribe closes the channel, under the lock.
Disconnect(c) ==
    /\ chans[c] # None
    /\ NoReader
    /\ chans' = [chans EXCEPT ![c] = None]
    /\ shown' = [shown EXCEPT ![c] = None]
    /\ UNCHANGED <<components, upd, counter, updates, panicked, missed, overtaken>>

-----------------------------------------------------------------------------

Init ==
    /\ components = [k \in Components |-> 0]
    /\ chans = [c \in Clients |-> None]
    /\ shown = [c \in Clients |-> None]
    /\ upd = [u \in Updaters |-> Idle]
    /\ count = 0
    /\ updates = 0
    /\ panicked = FALSE
    /\ missed = {}
    /\ overtaken = FALSE
    /\ counted = 0
    /\ racing = FALSE

Sending(u) == StartSending(u) \/ Return(u) \/ \E c \in Clients : Send(u, c)

Next ==
    \/ \E u \in Updaters : \/ ReadCount(u) \/ WriteCount(u) \/ Sending(u)
                            \/ \E k \in Components : Store(u, k)
    \/ \E c \in Clients : Connect(c) \/ Deliver(c) \/ Disconnect(c)

Spec == Init /\ [][Next]_vars

\* Goroutines in UpdateComponent run.  Nothing is assumed of clients: a slow one
\* need never read.
FairSpec == Spec /\ \A u \in Updaters : WF_vars(Sending(u))

-----------------------------------------------------------------------------
(* Properties *)

\* Types; an UpdateComponent under way has its snapshot (a2ui_service.go:49).
TypeOK ==
    /\ components \in Snapshot
    /\ chans \in [Clients -> Seq(Snapshot) \cup {None}]
    /\ shown \in [Clients -> Snapshot \cup {None}]
    /\ upd \in [Updaters -> UpdState]
    /\ \A u \in Updaters : InUpdate(u) => upd[u].snap # None
    /\ count \in Nat
    /\ updates \in Nat
    /\ panicked \in BOOLEAN
    /\ missed \in SUBSET Clients
    /\ overtaken \in BOOLEAN
    /\ counted \in Nat
    /\ racing \in BOOLEAN

\* UpdateComponent sends to channels it found in the map, while clients connect
\* and disconnect: none of them is closed before the send.
NoSendOnClosed == ~panicked

\* A channel never holds more than its capacity; in particular the first
\* snapshot, sent with the lock held, does not wait.
ChannelsBounded == \A c \in Subscribers : Len(chans[c]) <= ChanCap

\* Nothing is on its way to the client.
Settled(c) ==
    /\ chans[c] = <<>>
    /\ \A u \in Updaters : ~InUpdate(u)

\* A client that has read all it was sent shows the state of the server, unless
\* its channel was full at some time or updates were under way together.
SettledIsCurrent ==
    \A c \in Clients :
        Settled(c) /\ c \notin missed /\ ~overtaken => shown[c] = components

\* The same without the conditions ("Notify all subscribers of the update",
\* core/services/a2ui_service.go:52).
AllNotified == \A c \in Clients : Settled(c) => shown[c] = components

\* The same where channels have room for everything.
AllNotifiedWithRoom ==
    \A c \in Clients : Settled(c) /\ c \notin missed => shown[c] = components

\* What a client that stays connected shows of a component never goes back, as
\* long as updates do not overlap, whatever it missed.
ShownNeverGoesBack ==
    [][\A c \in Clients, k \in Components :
         (chans[c] # None /\ chans'[c] # None /\ shown[c] # None /\ ~overtaken)
           => shown[c][k] <= shown'[c][k]]_vars

\* The count in the shared map is never above the increments made, and increments
\* are lost only where two of them had read the count together.
CountExact == count <= counted /\ (count = counted \/ racing)

\* "increment the counter in the service" (core/api/a2ui_api.go:83), for
\* increments that run together as well.
IncrementsCounted == count = counted

\* No client, however slow, keeps UpdateComponent from returning.
UpdateReturns == \A u \in Updaters : InUpdate(u) ~> ~InUpdate(u)

=============================================================================
