------------------------------- MODULE Router -------------------------------
(***************************************************************************)
(* A message to the agents: ChatService.ProcessMessage                     *)
(* (core/services/chat_service.go) brings the session about and runs the   *)
(* root agent, and the router agent (core/agentic/agents/router_agent.go)  *)
(* sends the message on to a sub-agent or an extension.  When it cannot    *)
(* tell which, it asks: the question is stored as an interaction, and the  *)
(* user's next message is taken for the answer.  In between extensions     *)
(* come and go, permissions change, other messages of the user arrive, and *)
(* the process restarts: the question survives that, the session does not. *)
(***************************************************************************)
EXTENDS Integers, Sequences, FiniteSets, SequencesExt

CONSTANTS
    Subs,          \* the sub-agents, in the order of the configuration
    Exts,          \* extensions that may be running
    Users,         \* identifiers: a user's id, "guest", or the A2A peer's
    Peers,         \* those of Users whose requests carry no user and roles
    Inputs,        \* [number, within, holds]: the option it numbers, the
                   \* targets whose names it is part of, and those it names
    Classifies,    \* TRUE if a classifier model is configured
    Procs,         \* messages at one time
    MaxMessages,   \* bound: messages
    MaxFaults,     \* bound: failed calls of the store, and restarts
    MaxChanges,    \* bound: changes of extensions and permissions
    None

Targets == Range(Subs) \cup Exts
Questions == UNION {SetToSeqs(T) : T \in SUBSET Targets}

RouterAssumption ==
    /\ IsFiniteSet(Targets)
    /\ MaxMessages \in Nat /\ MaxFaults \in Nat /\ MaxChanges \in Nat

VARIABLES
    running,    \* extensions in the table of running ones
    allowed,    \* [Users -> targets DocPerm lets the user read]
    sessions,   \* users with a session, in memory
    newest,     \* [Users -> newest routing interaction: its options if it
                \*  is pending, <<>> otherwise]
    req, messages, faults, changes,
    asked       \* history: [Users -> questions put, each with what was
                \*  open to the user then]

vars == <<running, allowed, sessions, newest, req, messages, faults, changes, asked>>
world == <<running, allowed>>

Idle == [pc |-> "idle", user |-> None, input |-> None, open |-> <<>>, target |-> None,
         answer |-> FALSE]

Step == UNCHANGED <<messages, faults, changes>>
Fault == faults < MaxFaults /\ faults' = faults + 1 /\ UNCHANGED <<messages, changes>>
To(p, pc) == req' = [req EXCEPT ![p].pc = pc]
Done(p) == req' = [req EXCEPT ![p] = Idle]

-----------------------------------------------------------------------------
(* ProcessMessage *)

Message(p, user, input) ==
    /\ req[p].pc = "idle" /\ messages < MaxMessages /\ messages' = messages + 1
    /\ req' = [req EXCEPT ![p] = [Idle EXCEPT !.pc = "session", !.user = user, !.input = input]]
    /\ UNCHANGED <<world, sessions, newest, asked, faults, changes>>

SessionGet(p) ==
    /\ req[p].pc = "session" /\ Step
    /\ To(p, IF req[p].user \in sessions THEN "targets" ELSE "create")
    /\ UNCHANGED <<world, sessions, newest, asked>>

\* Of two first messages the second finds the session there, and fails.  The
\* history a new session is given changes no state of this module.
SessionCreate(p) ==
    /\ req[p].pc = "create" /\ Step
    /\ IF req[p].user \in sessions THEN Done(p) ELSE To(p, "targets")
    /\ sessions' = sessions \cup {req[p].user}
    /\ UNCHANGED <<world, newest, asked>>

-----------------------------------------------------------------------------
(* The router *)

\* Sub-agents come in the order of the configuration and before extensions,
\* which come in that of a Go map.
InOrder(open) ==
    \A i, j \in DOMAIN open : i < j /\ open[j] \in Range(Subs) =>
        \E m, n \in DOMAIN Subs : m < n /\ Subs[m] = open[i] /\ Subs[n] = open[j]

\* What the user may read of all targets, a failed check leaving its target out.
Resolve(p) ==
    /\ req[p].pc = "targets"
    /\ \E failed \in SUBSET Targets :
          LET may == {t \in Range(Subs) \cup running :
                        req[p].user \in Peers \/ t \in allowed[req[p].user] \ failed}
          IN /\ IF failed = {} THEN Step ELSE Cardinality(failed) = 1 /\ Fault
             /\ IF may = {} THEN Done(p)
                ELSE \E open \in SetToSeqs(may) :
                        /\ InOrder(open)
                        /\ req' = [req EXCEPT ![p].pc = "state", ![p].open = open]
    /\ UNCHANGED <<world, sessions, newest, asked>>

First(is) == {i \in is : \A j \in is : i <= j}
Answers(input, options) == {i \in DOMAIN options : i = input.number \/ options[i] \in input.within}

\* Mutant of Chosen: the number is looked up among what is open now.
ChosenNow(p, options) ==
    {IF i \in DOMAIN req[p].open THEN req[p].open[i] ELSE options[i] :
        i \in First(Answers(req[p].input, options))}

Chosen(p, options) == {options[i] : i \in First(Answers(req[p].input, options))}

\* A question is pending: the message answers it or is not understood.
\* Whether the user may still read the option is not asked again.
Select(p) ==
    /\ req[p].pc = "state" /\ newest[req[p].user] # <<>> /\ Step
    /\ LET options == newest[req[p].user]
       IN IF Answers(req[p].input, options) = {} THEN Done(p)
          ELSE \E t \in Chosen(p, options) :
                 req' = [req EXCEPT ![p].pc = "clear", ![p].target = t, ![p].answer = TRUE]
    /\ UNCHANGED <<world, sessions, newest, asked>>

\* The interaction that ends the question; the error of Log is dropped.
Clear(p) ==
    /\ req[p].pc = "clear" /\ To(p, "route")
    /\ \/ Step /\ newest' = [newest EXCEPT ![req[p].user] = <<>>]
       \/ Fault /\ UNCHANGED newest
    /\ UNCHANGED <<world, sessions, asked>>

\* No question, or the read of it failed: the only target, else the first one
\* the message names, else the one a model names, else the user is asked.
Initial(p) ==
    /\ req[p].pc = "state"
    /\ IF newest[req[p].user] = <<>> THEN Step ELSE Fault
    /\ LET open == req[p].open
           named == {i \in DOMAIN open : open[i] \in req[p].input.holds}
           go(t) == req' = [req EXCEPT ![p].pc = "route", ![p].target = t]
       IN IF Len(open) = 1 THEN go(open[1])
          ELSE IF named # {} THEN \E i \in First(named) : go(open[i])
          ELSE \/ Classifies /\ \E t \in Range(open) : go(t)
               \/ To(p, "ask")
    /\ UNCHANGED <<world, sessions, newest, asked>>

\* The options are shown whether or not Log stored them.
Ask(p) ==
    /\ req[p].pc = "ask" /\ Done(p)
    /\ \/ Step /\ newest' = [newest EXCEPT ![req[p].user] = req[p].open]
       \/ Fault /\ UNCHANGED newest
    /\ asked' = [asked EXCEPT ![req[p].user] = @ \cup {req[p].open}]
    /\ UNCHANGED <<world, sessions>>

\* The sub-agent or the extension's root agent runs; an extension that is
\* gone is reported as a failure to route.
Route(p) ==
    /\ req[p].pc = "route" /\ Step
    /\ IF req[p].target \in Range(Subs) \cup running THEN To(p, "routed") ELSE Done(p)
    /\ UNCHANGED <<world, sessions, newest, asked>>

Reply(p) ==
    /\ req[p].pc = "routed" /\ Step /\ Done(p)
    /\ UNCHANGED <<world, sessions, newest, asked>>

-----------------------------------------------------------------------------
(* What changes meanwhile *)

Changed == changes < MaxChanges /\ changes' = changes + 1 /\ UNCHANGED <<sessions, newest, req, messages, faults, asked>>

ExtensionChange(e) ==
    /\ Changed /\ UNCHANGED allowed
    /\ running' = IF e \in running THEN running \ {e} ELSE running \cup {e}

PermissionChange(user, t) ==
    /\ Changed /\ UNCHANGED running
    /\ allowed' = [allowed EXCEPT ![user] = IF t \in @ THEN @ \ {t} ELSE @ \cup {t}]

Restart ==
    /\ Fault /\ sessions' = {} /\ req' = [p \in Procs |-> Idle]
    /\ UNCHANGED <<world, newest, asked>>

-----------------------------------------------------------------------------
Init ==
    /\ running \in SUBSET Exts /\ allowed = [u \in Users |-> Targets]
    /\ sessions = {} /\ newest = [u \in Users |-> <<>>]
    /\ req = [p \in Procs |-> Idle]
    /\ messages = 0 /\ faults = 0 /\ changes = 0
    /\ asked = [u \in Users |-> {}]

Next ==
    \/ \E p \in Procs :
          \/ \E user \in Users, input \in Inputs : Message(p, user, input)
          \/ SessionGet(p) \/ SessionCreate(p) \/ Resolve(p) \/ Select(p) \/ Clear(p)
          \/ Initial(p) \/ Ask(p) \/ Route(p) \/ Reply(p)
    \/ \E e \in Exts : ExtensionChange(e)
    \/ \E user \in Users, t \in Targets : PermissionChange(user, t)
    \/ Restart

Spec == Init /\ [][Next]_vars

-----------------------------------------------------------------------------
(* Properties *)

TypeOK ==
    /\ running \subseteq Exts /\ allowed \in [Users -> SUBSET Targets]
    /\ sessions \subseteq Users /\ newest \in [Users -> Questions]
    /\ \A p \in Procs : /\ req[p].user \in Users \cup {None} /\ req[p].open \in Questions
                        /\ req[p].target \in Targets \cup {None}
    /\ messages \in 0..MaxMessages /\ faults \in 0..MaxFaults /\ changes \in 0..MaxChanges

\* A message that answers a question by number goes to the target that stood
\* at that number in a question put to this user, however the extensions and
\* the permissions have changed since; any other goes to one of the targets
\* that were open to the user when the message came.
RoutedAsShown ==
    \A p \in Procs : req[p].pc = "routed" =>
        IF req[p].answer
        THEN \E q \in asked[req[p].user] : \E i \in Answers(req[p].input, q) : q[i] = req[p].target
        ELSE req[p].target \in Range(req[p].open)

=============================================================================
