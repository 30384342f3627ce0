------------------------- MODULE A2UIBroadcastProofs --------------------------
(***************************************************************************)
(* Proofs about A2UIBroadcast, for every set of components, updaters and   *)
(* clients and every capacity of the channels:                             *)
(*   TypeCorrect        every variable keeps its type                      *)
(*   NeverPanics        no snapshot is sent on a closed channel            *)
(*   ChannelsFit        no channel is filled beyond its capacity           *)
(*   CountOnlyRaces     increments are lost only to overlapping ones       *)
(*   SettledShowsState  a client that has read everything shows the state  *)
(*   NeverShowsOlder    what a client shows never goes back                *)
(***************************************************************************)
EXTENDS A2UIBroadcast, TLAPS, SequenceTheorems

USE BroadcastAssumption

\* While an updater sends, the clients left to it have their channels: the read
\* lock it holds keeps them from going.
TodoSubscribed ==
    \A u \in Updaters :
        upd[u].pc = "sending" => \A c \in upd[u].todo : chans[c] # None

IInv == TypeOK /\ TodoSubscribed /\ NoSendOnClosed /\ ChannelsBounded

-----------------------------------------------------------------------------
(* Sequences *)

LEMMA AppendType ==
    ASSUME NEW S, NEW q \in Seq(S), NEW e \in S
    PROVE  Append(q, e) \in Seq(S) /\ Len(Append(q, e)) = Len(q) + 1
OBVIOUS

LEMMA TailType ==
    ASSUME NEW S, NEW q \in Seq(S), q # <<>>
    PROVE  /\ Head(q) \in S /\ Tail(q) \in Seq(S)
           /\ Len(q) \in Nat \ {0} /\ Len(Tail(q)) = Len(q) - 1
OBVIOUS

LEMMA SingleType ==
    ASSUME NEW S, NEW e \in S
    PROVE  <<e>> \in Seq(S) /\ Len(<<e>>) = 1
OBVIOUS

-----------------------------------------------------------------------------
(* Type correctness *)

LEMMA InitTypeOK == Init => TypeOK
<1> SUFFICES ASSUME Init PROVE TypeOK
  OBVIOUS
<1>1. components \in Snapshot
  BY DEF Init, Snapshot
<1>2. Idle \in UpdState /\ Idle.pc = "idle"
  BY DEF Idle, UpdState
<1>. QED
  BY <1>1, <1>2 DEF Init, TypeOK, InUpdate

\* What one updater does to its own record.
LEMMA UpdStep ==
    ASSUME TypeOK, NEW u \in Updaters, NEW r \in UpdState,
           r.pc \in {"unlocked", "sending"} => r.snap # None,
           upd' = [upd EXCEPT ![u] = r]
    PROVE  /\ upd' \in [Updaters -> UpdState]
           /\ \A v \in Updaters : InUpdate(v)' => upd'[v].snap # None
<1>1. upd \in [Updaters -> UpdState]
  BY DEF TypeOK
<1>2. upd' \in [Updaters -> UpdState]
  BY <1>1
<1>3. ASSUME NEW v \in Updaters, InUpdate(v)' PROVE upd'[v].snap # None
  <2>1. CASE v = u
    BY <1>1, <1>3, <2>1 DEF InUpdate
  <2>2. CASE v # u
    <3>1. upd'[v] = upd[v]
      BY <1>1, <2>2
    <3>. QED
      BY <1>3, <3>1 DEF TypeOK, InUpdate
  <2>. QED
    BY <2>1, <2>2
<1>. QED
  BY <1>2, <1>3

LEMMA NextTypeOK == TypeOK /\ [Next]_vars => TypeOK'
<1> SUFFICES ASSUME TypeOK, [Next]_vars PROVE TypeOK'
  OBVIOUS
<1> USE DEF TypeOK, UpdState
<1>1. ASSUME NEW u \in Updaters, NEW k \in Components, Store(u, k) PROVE TypeOK'
  <2>0. updates' \in Nat /\ components' = [components EXCEPT ![k] = updates']
    BY <1>1 DEF Store
  <2>1. updates' \in Nat /\ components' \in Snapshot /\ components' # None
    BY <2>0 DEF Snapshot
  <2>2. upd' = [upd EXCEPT ![u] = [Idle EXCEPT !.pc = "unlocked", !.snap = components']]
    BY <1>1 DEF Store
  <2>3. [Idle EXCEPT !.pc = "unlocked", !.snap = components'] \in UpdState
    BY <2>1 DEF Idle
  <2>4. upd' \in [Updaters -> UpdState] /\ \A v \in Updaters : InUpdate(v)' => upd'[v].snap # None
    BY <2>1, <2>2, <2>3, UpdStep DEF Idle
  <2>. QED
    BY <1>1, <2>1, <2>4 DEF Store, counter
<1>2. ASSUME NEW u \in Updaters, StartSending(u) PROVE TypeOK'
  <2> DEFINE r == [upd[u] EXCEPT !.pc = "sending", !.todo = Subscribers]
  <2>1. upd[u] \in UpdState /\ InUpdate(u)
    BY <1>2 DEF StartSending, InUpdate
  <2>2. upd[u].snap # None
    BY <2>1
  <2>3. r \in UpdState /\ r.snap # None
    BY <2>1, <2>2 DEF Subscribers
  <2>4. upd' = [upd EXCEPT ![u] = r]
    BY <1>2 DEF StartSending
  <2>5. upd' \in [Updaters -> UpdState] /\ \A v \in Updaters : InUpdate(v)' => upd'[v].snap # None
    BY <2>3, <2>4, UpdStep
  <2>. QED
    BY <1>2, <2>5 DEF StartSending, counter
<1>3. ASSUME NEW u \in Updaters, NEW c \in Clients, Send(u, c) PROVE TypeOK'
  <2>1. chans' \in [Clients -> Seq(Snapshot) \cup {None}]
    <3>1. CASE chans' = chans
      BY <3>1
    <3>2. CASE chans[c] # None /\ chans' = [chans EXCEPT ![c] = Append(@, upd[u].snap)]
      <4>1. chans[c] \in Seq(Snapshot) /\ upd[u].snap \in Snapshot
        BY <1>3, <3>2 DEF Send, InUpdate
      <4>2. Append(chans[c], upd[u].snap) \in Seq(Snapshot)
        BY <4>1, AppendType
      <4>. QED
        BY <3>2, <4>2
    <3>. QED
      BY <1>3, <3>1, <3>2 DEF Send
  <2>2. upd' \in [Updaters -> UpdState] /\ \A v \in Updaters : InUpdate(v)' => upd'[v].snap # None
    <3> DEFINE r == [upd[u] EXCEPT !.todo = @ \ {c}]
    <3>1. upd[u] \in UpdState /\ InUpdate(u)
      BY <1>3 DEF Send, InUpdate
    <3>2. upd[u].snap # None
      BY <3>1
    <3>3. r \in UpdState /\ r.snap # None
      BY <3>1, <3>2
    <3>4. upd' = [upd EXCEPT ![u] = r]
      BY <1>3 DEF Send
    <3>. QED
      BY <3>3, <3>4, UpdStep
  <2>3. missed' \in SUBSET Clients /\ panicked' \in BOOLEAN
    BY <1>3 DEF Send
  <2>. QED
    BY <1>3, <2>1, <2>2, <2>3 DEF Send, counter
<1>4. ASSUME NEW u \in Updaters, Return(u) PROVE TypeOK'
  BY <1>4 DEF Return, Idle, counter, InUpdate
<1>5. ASSUME NEW c \in Clients, Connect(c) PROVE TypeOK'
  <2>1. <<components>> \in Seq(Snapshot)
    BY SingleType
  <2>. QED
    BY <1>5, <2>1 DEF Connect, counter, InUpdate
<1>6. ASSUME NEW c \in Clients, Deliver(c) PROVE TypeOK'
  <2>1. chans[c] \in Seq(Snapshot) /\ chans[c] # <<>>
    BY <1>6 DEF Deliver
  <2>2. Head(chans[c]) \in Snapshot /\ Tail(chans[c]) \in Seq(Snapshot)
    BY <2>1, TailType
  <2>. QED
    BY <1>6, <2>2 DEF Deliver, counter, InUpdate
<1>7. ASSUME NEW c \in Clients, Disconnect(c) PROVE TypeOK'
  BY <1>7 DEF Disconnect, counter, InUpdate
<1>8. ASSUME NEW u \in Updaters, ReadCount(u) PROVE TypeOK'
  <2> DEFINE r == [upd[u] EXCEPT !.pc = "counting", !.read = count]
  <2>1. upd[u] \in UpdState /\ count \in Nat
    OBVIOUS
  <2>2. r \in UpdState /\ r.pc = "counting"
    BY <2>1
  <2>3. upd' = [upd EXCEPT ![u] = r]
    BY <1>8 DEF ReadCount
  <2>4. upd' \in [Updaters -> UpdState] /\ \A v \in Updaters : InUpdate(v)' => upd'[v].snap # None
    BY <2>2, <2>3, UpdStep
  <2>5. racing' \in BOOLEAN
    BY <1>8 DEF ReadCount
  <2>. QED
    BY <1>8, <2>4, <2>5 DEF ReadCount
<1>9. ASSUME NEW u \in Updaters, WriteCount(u) PROVE TypeOK'
  <2>1. upd[u].read \in Nat /\ count' = upd[u].read + 1
    BY <1>9 DEF WriteCount
  <2>2. count' \in Nat /\ counted' \in Nat
    BY <1>9, <2>1 DEF WriteCount
  <2> DEFINE r == [upd[u] EXCEPT !.pc = "counted", !.read = 0]
  <2>3. upd[u] \in UpdState
    OBVIOUS
  <2>4. r \in UpdState /\ r.pc = "counted"
    BY <2>3
  <2>5. upd' = [upd EXCEPT ![u] = r]
    BY <1>9 DEF WriteCount
  <2>6. upd' \in [Updaters -> UpdState] /\ \A v \in Updaters : InUpdate(v)' => upd'[v].snap # None
    BY <2>4, <2>5, UpdStep
  <2>. QED
    BY <1>9, <2>2, <2>6 DEF WriteCount
<1>10. CASE UNCHANGED vars
  BY <1>10 DEF vars, InUpdate
<1>. QED
  BY <1>1, <1>2, <1>3, <1>4, <1>5, <1>6, <1>7, <1>8, <1>9, <1>10 DEF Next, Sending

\* Every variable of the dashboard stream keeps its type, and an UpdateComponent
\* under way has its snapshot.
THEOREM TypeCorrect == Spec => []TypeOK
BY InitTypeOK, NextTypeOK, PTL DEF Spec

-----------------------------------------------------------------------------
(* The locks keep channels open, and the capacity test keeps them bounded *)

LEMMA InitIInv == Init => IInv
<1> SUFFICES ASSUME Init PROVE IInv
  OBVIOUS
<1>1. TypeOK
  BY InitTypeOK
<1>2. TodoSubscribed
  BY DEF Init, Idle, TodoSubscribed
<1>3. NoSendOnClosed
  BY DEF Init, NoSendOnClosed
<1>4. ChannelsBounded
  BY DEF Init, ChannelsBounded, Subscribers
<1>. QED
  BY <1>1, <1>2, <1>3, <1>4 DEF IInv

\* Channels come and go only while no updater sends.
LEMMA NextTodo == IInv /\ [Next]_vars => TodoSubscribed'
<1> SUFFICES ASSUME IInv, [Next]_vars, NEW v \in Updaters, upd'[v].pc = "sending",
                    NEW d \in upd'[v].todo
             PROVE  chans'[d] # None
  BY DEF TodoSubscribed
<1> USE DEF IInv, TypeOK, UpdState, TodoSubscribed
<1>0. v \in DOMAIN upd /\ upd[v] \in UpdState
  OBVIOUS
<1>1. ASSUME NEW u \in Updaters, NEW k \in Components, Store(u, k) PROVE chans'[d] # None
  BY <1>1 DEF Store, Idle
<1>2. ASSUME NEW u \in Updaters, StartSending(u) PROVE chans'[d] # None
  BY <1>2 DEF StartSending, Subscribers
<1>3. ASSUME NEW u \in Updaters, NEW c \in Clients, Send(u, c) PROVE chans'[d] # None
  <2>1. d \in Clients /\ chans[d] # None
    BY <1>3 DEF Send
  <2>2. CASE chans' = chans
    BY <2>1, <2>2
  <2>3. CASE chans[c] # None /\ chans' = [chans EXCEPT ![c] = Append(@, upd[u].snap)]
    <3>1. chans[c] \in Seq(Snapshot) /\ upd[u].snap \in Snapshot
      BY <1>3, <2>3 DEF Send, InUpdate
    <3>2. Append(chans[c], upd[u].snap) \in Seq(Snapshot)
      BY <3>1, AppendType
    <3>. QED
      BY <2>1, <2>3, <3>2
  <2>. QED
    BY <1>3, <2>2, <2>3 DEF Send
<1>4. ASSUME NEW u \in Updaters, Return(u) PROVE chans'[d] # None
  BY <1>4 DEF Return, Idle
<1>5. ASSUME NEW c \in Clients, Connect(c) PROVE chans'[d] # None
  BY <1>5 DEF Connect, NoReader
<1>6. ASSUME NEW c \in Clients, Deliver(c) PROVE chans'[d] # None
  <2>1. chans[c] \in Seq(Snapshot) /\ chans[c] # <<>>
    BY <1>6 DEF Deliver
  <2>2. Tail(chans[c]) \in Seq(Snapshot)
    BY <2>1, TailType
  <2>4. Tail(chans[c]) # None
    BY <2>2
  <2>3. d \in Clients /\ chans[d] # None
    BY <1>6 DEF Deliver
  <2>. QED
    BY <1>6, <2>3, <2>4 DEF Deliver
<1>7. ASSUME NEW c \in Clients, Disconnect(c) PROVE chans'[d] # None
  BY <1>7 DEF Disconnect, NoReader
<1>8. ASSUME NEW u \in Updaters, ReadCount(u) \/ WriteCount(u) PROVE chans'[d] # None
  <2>1. chans' = chans /\ upd'[u].pc # "sending" /\ (v # u => upd'[v] = upd[v])
    BY <1>8 DEF ReadCount, WriteCount
  <2>. QED
    BY <2>1
<1>9. CASE UNCHANGED vars
  BY <1>9 DEF vars
<1>. QED
  BY <1>1, <1>2, <1>3, <1>4, <1>5, <1>6, <1>7, <1>8, <1>9 DEF Next, Sending

LEMMA NextNoSendOnClosed == IInv /\ [Next]_vars => NoSendOnClosed'
<1> SUFFICES ASSUME IInv, [Next]_vars PROVE panicked' = panicked
  BY DEF IInv, NoSendOnClosed
<1>1. ASSUME NEW u \in Updaters, NEW c \in Clients, Send(u, c) PROVE panicked' = panicked
  BY <1>1 DEF Send, IInv, TodoSubscribed
<1>. QED
  BY <1>1 DEF Next, Sending, ReadCount, WriteCount, Store, StartSending, Return, Connect, Deliver, Disconnect, vars

LEMMA NextChannelsBounded == IInv /\ [Next]_vars => ChannelsBounded'
<1> SUFFICES ASSUME IInv, [Next]_vars, NEW d \in Clients, chans'[d] # None
             PROVE  Len(chans'[d]) <= ChanCap
  BY DEF ChannelsBounded, Subscribers
<1> USE DEF IInv, TypeOK, UpdState
<1>0. chans[d] # None => chans[d] \in Seq(Snapshot) /\ Len(chans[d]) <= ChanCap
  BY DEF ChannelsBounded, Subscribers
<1>1. CASE chans' = chans
  BY <1>0, <1>1
<1>2. ASSUME NEW u \in Updaters, NEW c \in Clients, Send(u, c) PROVE Len(chans'[d]) <= ChanCap
  <2>1. CASE chans[c] # None /\ Len(chans[c]) < ChanCap
             /\ chans' = [chans EXCEPT ![c] = Append(@, upd[u].snap)]
    <3>1. chans[c] \in Seq(Snapshot) /\ upd[u].snap \in Snapshot
      BY <1>2, <2>1 DEF Send, InUpdate
    <3>2. Len(Append(chans[c], upd[u].snap)) = Len(chans[c]) + 1 /\ Len(chans[c]) \in Nat
      BY <3>1, AppendType
    <3>3. Len(Append(chans[c], upd[u].snap)) <= ChanCap
      BY <2>1, <3>2
    <3>. QED
      BY <1>0, <2>1, <3>3
  <2>. QED
    BY <1>1, <1>2, <2>1 DEF Send
<1>3. ASSUME NEW c \in Clients, Connect(c) PROVE Len(chans'[d]) <= ChanCap
  BY <1>0, <1>3, SingleType DEF Connect
<1>4. ASSUME NEW c \in Clients, Deliver(c) PROVE Len(chans'[d]) <= ChanCap
  <2>1. chans[c] \in Seq(Snapshot) /\ chans[c] # <<>> /\ chans[c] # None
    BY <1>4 DEF Deliver
  <2>2. Len(Tail(chans[c])) = Len(chans[c]) - 1 /\ Len(chans[c]) \in Nat
    BY <2>1, TailType
  <2>3. Len(chans[c]) <= ChanCap
    BY <2>1 DEF ChannelsBounded, Subscribers
  <2>4. Len(Tail(chans[c])) <= ChanCap
    BY <2>2, <2>3
  <2>. QED
    BY <1>0, <1>4, <2>4 DEF Deliver
<1>5. ASSUME NEW c \in Clients, Disconnect(c) PROVE Len(chans'[d]) <= ChanCap
  BY <1>0, <1>5 DEF Disconnect
<1>. QED
  BY <1>1, <1>2, <1>3, <1>4, <1>5 DEF Next, Sending, ReadCount, WriteCount, Store, StartSending, Return, vars

LEMMA NextIInv == IInv /\ [Next]_vars => IInv'
BY NextTypeOK, NextTodo, NextNoSendOnClosed, NextChannelsBounded DEF IInv

\* UpdateComponent never sends on a channel that Unsubscribe has closed, whoever
\* connects and disconnects meanwhile.
THEOREM NeverPanics == Spec => []NoSendOnClosed
<1>1. IInv => NoSendOnClosed
  BY DEF IInv
<1>. QED
  BY <1>1, InitIInv, NextIInv, PTL DEF Spec

\* A subscriber's channel never holds more than its capacity, so the send that
\* Subscribe makes under the lock never waits.
THEOREM ChannelsFit == Spec => []ChannelsBounded
<1>1. IInv => ChannelsBounded
  BY DEF IInv
<1>. QED
  BY <1>1, InitIInv, NextIInv, PTL DEF Spec

-----------------------------------------------------------------------------
(* The count *)

\* An increment under way has read no more than the increments made; and until
\* two of them are under way together, the one there is has read them all.
ReadInv ==
    /\ \A u \in Updaters : upd[u].pc = "counting" => upd[u].read <= counted
    /\ ~racing =>
         \A u, v \in Updaters :
             upd[u].pc = "counting" =>
                 /\ upd[u].read = count
                 /\ upd[v].pc = "counting" => u = v

CInv == TypeOK /\ CountExact /\ ReadInv

LEMMA NextCInv == CInv /\ [Next]_vars => CInv'
<1> SUFFICES ASSUME CInv, [Next]_vars PROVE CountExact' /\ ReadInv'
  BY NextTypeOK DEF CInv
<1> USE DEF CInv, TypeOK, UpdState, CountExact, ReadInv
<1>1. ASSUME NEW u \in Updaters, ReadCount(u) PROVE CountExact' /\ ReadInv'
  BY <1>1 DEF ReadCount
<1>2. ASSUME NEW u \in Updaters, WriteCount(u) PROVE CountExact' /\ ReadInv'
  BY <1>2 DEF WriteCount
<1>3. ASSUME NEW u \in Updaters, NEW k \in Components, Store(u, k)
      PROVE  CountExact' /\ ReadInv'
  BY <1>3 DEF Store, MayStore, Idle, counter
<1>4. ASSUME NEW u \in Updaters, Sending(u) PROVE CountExact' /\ ReadInv'
  <2>1. UNCHANGED counter
    BY <1>4 DEF Sending, StartSending, Send, Return
  <2>2. \A v \in Updaters : upd'[v].pc = "counting" => upd'[v] = upd[v]
    BY <1>4 DEF Sending, StartSending, Send, Return, Idle
  <2>. QED
    BY <2>1, <2>2 DEF counter
<1>5. ASSUME NEW c \in Clients, Connect(c) \/ Deliver(c) \/ Disconnect(c)
      PROVE  CountExact' /\ ReadInv'
  BY <1>5 DEF Connect, Deliver, Disconnect, counter
<1>6. CASE UNCHANGED vars
  BY <1>6 DEF vars
<1>. QED
  BY <1>1, <1>2, <1>3, <1>4, <1>5, <1>6 DEF Next

\* The count never exceeds the increments made, and falls short of them only
\* after two increments had read it together.
THEOREM CountOnlyRaces == Spec => []CountExact
<1>1. Init => CInv
  <2>1. Init => CountExact /\ ReadInv
    BY DEF Init, Idle, CountExact, ReadInv
  <2>. QED
    BY <2>1, InitTypeOK DEF CInv
<1>2. CInv => CountExact
  BY DEF CInv
<1>. QED
  BY <1>1, <1>2, NextCInv, PTL DEF Spec

-----------------------------------------------------------------------------
(* What a client gets is in order, and ends with the state of the server *)

\* An updater with this record has still to make its turn for client c.
Awaits(r, c) == r.pc = "unlocked" \/ (r.pc = "sending" /\ c \in r.todo)

\* The last snapshot sent to a client with this channel and this display.
LastSent(q, s) == IF q = <<>> THEN s ELSE q[Len(q)]

\* Updates that do not overlap: there is one at most, and its snapshot is the state.
OneUpdate ==
    ~overtaken =>
        /\ \A u, v \in Updaters : InUpdate(u) /\ InUpdate(v) => u = v
        /\ \A u \in Updaters : InUpdate(u) => upd[u].snap = components

\* What was sent last is the state, once the update under way has had its turn.
SentIsCurrent ==
    ~overtaken =>
        \A c \in Clients :
            chans[c] # None /\ c \notin missed /\ (\A u \in Updaters : ~Awaits(upd[u], c))
              => LastSent(chans[c], shown[c]) = components

\* One snapshot is no newer than another.
NotAfter(s, t) == \A k \in Components : s[k] <= t[k]

\* Snapshots lie in a channel in order, after the one shown and before the state.
InOrder(q, s, now) ==
    /\ \A i \in 1 .. Len(q) : NotAfter(q[i], now)
    /\ \A i, j \in 1 .. Len(q) : i < j => NotAfter(q[i], q[j])
    /\ s # None => NotAfter(s, now) /\ \A i \in 1 .. Len(q) : NotAfter(s, q[i])

Ordered ==
    /\ \A k \in Components : components[k] <= updates
    /\ ~overtaken => \A c \in Clients : chans[c] # None => InOrder(chans[c], shown[c], components)

SInv == TypeOK /\ OneUpdate /\ SentIsCurrent /\ Ordered

\* Snapshots are compared component by component.
LEMMA NotAfterReflexive == ASSUME NEW s \in Snapshot PROVE NotAfter(s, s)
BY DEF NotAfter, Snapshot

LEMMA NotAfterTransitive ==
    ASSUME NEW r \in Snapshot, NEW s \in Snapshot, NEW t \in Snapshot,
           NotAfter(r, s), NotAfter(s, t)
    PROVE  NotAfter(r, t)
BY DEF NotAfter, Snapshot

\* A channel that starts, gets the state of the moment, is read, sees an update.
LEMMA OrderStarts ==
    ASSUME NEW now \in Snapshot
    PROVE  InOrder(<<now>>, None, now) /\ LastSent(<<now>>, None) = now
BY NotAfterReflexive DEF InOrder, LastSent

LEMMA OrderSent ==
    ASSUME NEW q \in Seq(Snapshot), NEW s, NEW now \in Snapshot
    PROVE  /\ LastSent(Append(q, now), s) = now
           /\ InOrder(q, s, now) => InOrder(Append(q, now), s, now)
<1> DEFINE p == Append(q, now)
<1>1. Len(p) = Len(q) + 1 /\ p[Len(p)] = now /\ p # <<>>
  OBVIOUS
<1>2. ASSUME NEW i \in 1 .. Len(q) PROVE p[i] = q[i]
  OBVIOUS
<1>3. ASSUME NEW i \in 1 .. Len(p) PROVE i \in 1 .. Len(q) \/ i = Len(p)
  BY <1>1
<1> HIDE DEF p
<1>4. LastSent(p, s) = now
  BY <1>1 DEF LastSent
<1>5. ASSUME InOrder(q, s, now) PROVE InOrder(p, s, now)
  <2>1. ASSUME NEW i \in 1 .. Len(p) PROVE NotAfter(p[i], now)
    BY <1>1, <1>2, <1>3, <1>5, NotAfterReflexive DEF InOrder
  <2>2. ASSUME NEW i \in 1 .. Len(p), NEW j \in 1 .. Len(p), i < j PROVE NotAfter(p[i], p[j])
    <3>1. i \in 1 .. Len(q)
      BY <1>1, <2>2
    <3>2. CASE j = Len(p)
      BY <1>1, <2>1, <3>2
    <3>3. CASE j \in 1 .. Len(q)
      BY <1>2, <1>5, <2>2, <3>1, <3>3 DEF InOrder
    <3>. QED
      BY <1>3, <3>2, <3>3
  <2>3. ASSUME s # None PROVE NotAfter(s, now) /\ \A i \in 1 .. Len(p) : NotAfter(s, p[i])
    BY <1>1, <1>2, <1>3, <1>5, <2>3 DEF InOrder
  <2>. QED
    BY <2>1, <2>2, <2>3 DEF InOrder
<1>. QED
  BY <1>4, <1>5 DEF p

LEMMA OrderRead ==
    ASSUME NEW q \in Seq(Snapshot), q # <<>>, NEW s, NEW now
    PROVE  /\ LastSent(Tail(q), Head(q)) = LastSent(q, s)
           /\ InOrder(q, s, now) =>
                InOrder(Tail(q), Head(q), now) /\ (s # None => NotAfter(s, Head(q)))
<1> DEFINE p == Tail(q)
<1>1. Len(q) \in Nat \ {0} /\ Len(p) = Len(q) - 1 /\ p \in Seq(Snapshot) /\ Head(q) = q[1]
  OBVIOUS
<1>2. ASSUME NEW i \in 1 .. Len(p) PROVE p[i] = q[i + 1] /\ i + 1 \in 1 .. Len(q)
  <2>1. i \in 1 .. (Len(q) - 1)
    BY <1>1
  <2>2. p[i] = q[i + 1]
    BY <2>1
  <2>. QED
    BY <1>1, <2>1, <2>2
<1> HIDE DEF p
<1>3. p = <<>> <=> Len(p) = 0
  BY <1>1, EmptySeq
<1>4. LastSent(p, Head(q)) = LastSent(q, s)
  <2>0. q # <<>>
    OBVIOUS
  <2>1. CASE Len(q) = 1
    BY <1>1, <1>3, <2>0, <2>1 DEF LastSent
  <2>2. CASE Len(q) # 1
    <3>1. Len(p) \in 1 .. Len(p) /\ Len(p) + 1 = Len(q)
      BY <1>1, <2>2
    <3>2. p[Len(p)] = q[Len(q)]
      BY <1>2, <3>1
    <3>. QED
      BY <1>1, <1>3, <2>0, <2>2, <3>2 DEF LastSent
  <2>. QED
    BY <2>1, <2>2
<1>5. ASSUME InOrder(q, s, now) PROVE InOrder(p, Head(q), now) /\ (s # None => NotAfter(s, Head(q)))
  <2>1. 1 \in 1 .. Len(q)
    BY <1>1
  <2>2. ASSUME NEW i \in 1 .. Len(p) PROVE NotAfter(p[i], now) /\ NotAfter(Head(q), p[i])
    <3>1. 1 < i + 1
      BY <1>1
    <3>. QED
      BY <1>1, <1>2, <1>5, <2>1, <3>1 DEF InOrder
  <2>3. ASSUME NEW i \in 1 .. Len(p), NEW j \in 1 .. Len(p), i < j PROVE NotAfter(p[i], p[j])
    <3>1. i + 1 < j + 1
      BY <1>1, <2>3
    <3>. QED
      BY <1>2, <1>5, <3>1 DEF InOrder
  <2>4. NotAfter(Head(q), now) /\ (s # None => NotAfter(s, Head(q)))
    BY <1>1, <1>5, <2>1 DEF InOrder
  <2>. QED
    BY <2>2, <2>3, <2>4 DEF InOrder
<1>. QED
  BY <1>4, <1>5 DEF p

LEMMA OrderKept ==
    ASSUME NEW q \in Seq(Snapshot), NEW s \in Snapshot \cup {None}, NEW now \in Snapshot,
           NEW later \in Snapshot, InOrder(q, s, now), NotAfter(now, later)
    PROVE  InOrder(q, s, later)
<1>1. ASSUME NEW i \in 1 .. Len(q) PROVE q[i] \in Snapshot
  OBVIOUS
<1>. QED
  BY <1>1, NotAfterTransitive DEF InOrder

\* Every step but Store leaves the state, and leaves updates as they were.
LEMMA UpdateGoesOn ==
    ASSUME TypeOK, [Next]_vars, NEW v \in Updaters, InUpdate(v)',
           \A u \in Updaters, k \in Components : ~Store(u, k)
    PROVE  /\ InUpdate(v) /\ upd'[v].snap = upd[v].snap
           /\ UNCHANGED <<components, updates, overtaken>>
<1>1. upd \in [Updaters -> UpdState]
  BY DEF TypeOK
<1>2. ASSUME NEW u \in Updaters, ReadCount(u) \/ WriteCount(u) PROVE upd'[v] = upd[v]
  BY <1>1, <1>2 DEF ReadCount, WriteCount, InUpdate, UpdState
<1>3. ASSUME NEW u \in Updaters, Sending(u)
      PROVE  InUpdate(v) /\ upd'[v].snap = upd[v].snap
  <2>1. CASE v # u
    BY <1>1, <1>3, <2>1 DEF Sending, StartSending, Send, Return, InUpdate
  <2>2. CASE v = u
    <3>1. upd[u] \in UpdState /\ InUpdate(u)
      BY <1>1, <1>3 DEF Sending, StartSending, Send, Return, InUpdate
    <3>2. ~Return(u)
      BY <1>1, <2>2 DEF Return, Idle, InUpdate
    <3>3. upd'[u].snap = upd[u].snap
      BY <1>1, <1>3, <3>1, <3>2 DEF Sending, StartSending, Send, UpdState
    <3>. QED
      BY <2>2, <3>1, <3>3
  <2>. QED
    BY <2>1, <2>2
<1>4. ASSUME NEW c \in Clients, Connect(c) \/ Deliver(c) \/ Disconnect(c) PROVE upd' = upd
  BY <1>4 DEF Connect, Deliver, Disconnect
<1>5. UNCHANGED vars => upd' = upd
  BY DEF vars
<1>6. InUpdate(v) /\ upd'[v].snap = upd[v].snap
  BY <1>2, <1>3, <1>4, <1>5 DEF Next, InUpdate
<1>7. UNCHANGED <<components, updates, overtaken>>
  BY DEF Next, Sending, ReadCount, WriteCount, StartSending, Send, Return, Connect, Deliver,
         Disconnect, counter, vars
<1>. QED
  BY <1>6, <1>7

LEMMA NextOneUpdate == TypeOK /\ OneUpdate /\ [Next]_vars => OneUpdate'
<1> SUFFICES ASSUME TypeOK, OneUpdate, [Next]_vars, ~overtaken',
                    NEW u \in Updaters, InUpdate(u)'
             PROVE  /\ upd'[u].snap = components'
                    /\ \A v \in Updaters : InUpdate(v)' => u = v
  BY DEF OneUpdate
<1>1. ASSUME NEW w \in Updaters, NEW k \in Components, Store(w, k)
      PROVE  /\ upd'[u].snap = components'
             /\ \A v \in Updaters : InUpdate(v)' => u = v
  <2>1. \A v \in Updaters : ~InUpdate(v)
    BY <1>1 DEF Store
  <2>2. upd' = [upd EXCEPT ![w] = [Idle EXCEPT !.pc = "unlocked", !.snap = components']]
    BY <1>1 DEF Store
  <2>3. \A v \in Updaters : v # w => upd'[v] = upd[v]
    BY <2>2 DEF TypeOK
  <2>4. \A v \in Updaters : InUpdate(v)' => v = w
    BY <2>1, <2>3 DEF InUpdate
  <2>5. upd'[w].snap = components'
    BY <2>2 DEF TypeOK, Idle
  <2>. QED
    BY <2>4, <2>5
<1>2. CASE \A w \in Updaters, k \in Components : ~Store(w, k)
  BY <1>2, UpdateGoesOn DEF OneUpdate
<1>. QED
  BY <1>1, <1>2

\* What a client has been sent, by what a step does to it.
LEMMA NextSentIsCurrent ==
    TypeOK /\ OneUpdate /\ SentIsCurrent /\ [Next]_vars => SentIsCurrent'
<1> SUFFICES ASSUME TypeOK, OneUpdate, SentIsCurrent, [Next]_vars, ~overtaken',
                    NEW d \in Clients, chans'[d] # None, d \notin missed',
                    \A v \in Updaters : ~Awaits(upd'[v], d)
             PROVE  LastSent(chans'[d], shown'[d]) = components'
  BY DEF SentIsCurrent
<1>0. upd \in [Updaters -> UpdState] /\ chans \in [Clients -> Seq(Snapshot) \cup {None}]
  BY DEF TypeOK
<1>1. ASSUME NEW u \in Updaters, ReadCount(u) \/ WriteCount(u)
      PROVE  LastSent(chans'[d], shown'[d]) = components'
  <2>1. \A v \in Updaters : Awaits(upd[v], d) => Awaits(upd'[v], d)
    BY <1>0, <1>1 DEF ReadCount, WriteCount, Awaits
  <2>. QED
    BY <1>1, <2>1 DEF ReadCount, WriteCount, SentIsCurrent
<1>2. ASSUME NEW u \in Updaters, NEW k \in Components, Store(u, k) PROVE FALSE
  <2>1. upd'[u].pc = "unlocked"
    BY <1>0, <1>2 DEF Store, Idle
  <2>2. Awaits(upd'[u], d)
    BY <2>1 DEF Awaits
  <2>. QED
    BY <2>2
<1>3. ASSUME NEW u \in Updaters, StartSending(u) PROVE FALSE
  <2>1. upd'[u].pc = "sending" /\ upd'[u].todo = Subscribers /\ chans' = chans
    BY <1>0, <1>3 DEF StartSending, UpdState
  <2>2. d \in upd'[u].todo
    BY <2>1 DEF Subscribers
  <2>3. Awaits(upd'[u], d)
    BY <2>1, <2>2 DEF Awaits
  <2>. QED
    BY <2>3
<1>4. ASSUME NEW u \in Updaters, NEW c \in Clients, Send(u, c)
      PROVE  LastSent(chans'[d], shown'[d]) = components'
  <2>1. UNCHANGED <<components, shown, overtaken>>
    BY <1>4 DEF Send
  <2>2. CASE d = c
    <3>1. upd[u].snap = components
      BY <1>4, <2>1 DEF Send, InUpdate, OneUpdate
    <3>2. chans[d] \in Seq(Snapshot) /\ chans'[d] = Append(chans[d], components)
      BY <1>0, <1>4, <2>2, <3>1 DEF Send
    <3>3. components \in Snapshot
      BY DEF TypeOK
    <3>. QED
      BY <2>1, <3>2, <3>3, OrderSent
  <2>3. CASE d # c
    <3>1. chans'[d] = chans[d] /\ d \notin missed
      BY <1>0, <1>4, <2>3 DEF Send
    <3>2. ASSUME NEW v \in Updaters, Awaits(upd[v], d) PROVE Awaits(upd'[v], d)
      <4>1. CASE v # u
        BY <1>0, <1>4, <3>2, <4>1 DEF Send
      <4>2. CASE v = u
        <5>1. upd'[u] = [upd[u] EXCEPT !.todo = @ \ {c}] /\ upd[u] \in UpdState
          BY <1>0, <1>4 DEF Send
        <5>. QED
          BY <2>3, <3>2, <4>2, <5>1 DEF Awaits, UpdState
      <4>. QED
        BY <4>1, <4>2
    <3>. QED
      BY <2>1, <3>1, <3>2 DEF SentIsCurrent
  <2>. QED
    BY <2>2, <2>3
<1>5. ASSUME NEW u \in Updaters, Return(u) PROVE LastSent(chans'[d], shown'[d]) = components'
  <2>1. \A v \in Updaters : Awaits(upd[v], d) => Awaits(upd'[v], d)
    BY <1>0, <1>5 DEF Return, Awaits
  <2>. QED
    BY <1>5, <2>1 DEF Return, SentIsCurrent
<1>6. ASSUME NEW c \in Clients, UNCHANGED <<upd, components, overtaken>>, missed \subseteq missed' \cup {c},
             \A e \in Clients \ {c} : chans'[e] = chans[e] /\ shown'[e] = shown[e],
             LastSent(chans'[c], shown'[c]) \in {components, LastSent(chans[c], shown[c])},
             chans[c] = None \/ c \in missed => LastSent(chans'[c], shown'[c]) = components
      PROVE  LastSent(chans'[d], shown'[d]) = components'
  BY <1>6 DEF SentIsCurrent
<1>7. ASSUME NEW c \in Clients, Connect(c) PROVE LastSent(chans'[d], shown'[d]) = components'
  <2>1. chans'[c] = <<components>> /\ shown'[c] = None
    BY <1>0, <1>7 DEF Connect, TypeOK
  <2>2. LastSent(chans'[c], shown'[c]) = components
    BY <2>1, OrderStarts DEF TypeOK
  <2>. QED
    BY <1>6, <1>7, <2>2 DEF Connect, TypeOK
<1>8. ASSUME NEW c \in Clients, Deliver(c) PROVE LastSent(chans'[d], shown'[d]) = components'
  <2>1. chans[c] \in Seq(Snapshot) /\ chans[c] # <<>>
    BY <1>0, <1>8 DEF Deliver
  <2>2. chans'[c] = Tail(chans[c]) /\ shown'[c] = Head(chans[c])
    BY <1>0, <1>8 DEF Deliver, TypeOK
  <2>3. LastSent(chans'[c], shown'[c]) = LastSent(chans[c], shown[c])
    BY <2>1, <2>2, OrderRead
  <2>4. UNCHANGED <<upd, components, overtaken, missed>> /\ chans[c] # None
        /\ \A e \in Clients \ {c} : chans'[e] = chans[e] /\ shown'[e] = shown[e]
    BY <1>0, <1>8 DEF Deliver, TypeOK
  <2>. QED
    BY <2>3, <2>4 DEF SentIsCurrent
<1>9. ASSUME NEW c \in Clients, Disconnect(c) PROVE LastSent(chans'[d], shown'[d]) = components'
  <2>1. d # c /\ chans'[d] = chans[d] /\ shown'[d] = shown[d]
    BY <1>0, <1>9 DEF Disconnect, TypeOK
  <2>. QED
    BY <1>9, <2>1 DEF Disconnect, SentIsCurrent
<1>10. CASE UNCHANGED vars
  BY <1>10 DEF vars, SentIsCurrent
<1>. QED
  BY <1>1, <1>2, <1>3, <1>4, <1>5, <1>7, <1>8, <1>9, <1>10 DEF Next, Sending

LEMMA NextOrdered == TypeOK /\ OneUpdate /\ Ordered /\ [Next]_vars => Ordered'
<1> SUFFICES ASSUME TypeOK, OneUpdate, Ordered, [Next]_vars
             PROVE  /\ \A k \in Components : components'[k] <= updates'
                    /\ ~overtaken' => \A c \in Clients :
                         chans'[c] # None => InOrder(chans'[c], shown'[c], components')
  BY DEF Ordered
<1>0. /\ components \in Snapshot /\ updates \in Nat
      /\ chans \in [Clients -> Seq(Snapshot) \cup {None}]
      /\ shown \in [Clients -> Snapshot \cup {None}]
  BY DEF TypeOK
<1>1. ASSUME NEW u \in Updaters, NEW k \in Components, Store(u, k)
      PROVE  /\ \A j \in Components : components'[j] <= updates'
             /\ ~overtaken' => \A c \in Clients :
                  chans'[c] # None => InOrder(chans'[c], shown'[c], components')
  <2>1. updates' = updates + 1 /\ components' = [components EXCEPT ![k] = updates']
    BY <1>1 DEF Store
  <2>2. components' \in Snapshot
    BY <1>0, <2>1 DEF Snapshot
  <2>3. \A j \in Components : components[j] <= components'[j] /\ components'[j] <= updates'
    BY <1>0, <2>1 DEF Ordered, Snapshot
  <2>4. NotAfter(components, components')
    BY <2>3 DEF NotAfter
  <2>5. ASSUME ~overtaken', NEW c \in Clients, chans'[c] # None
        PROVE  InOrder(chans'[c], shown'[c], components')
    <3>1. ~overtaken /\ chans' = chans /\ shown' = shown
      BY <1>1, <2>5 DEF Store
    <3>2. chans[c] \in Seq(Snapshot) /\ shown[c] \in Snapshot \cup {None}
      BY <1>0, <2>5, <3>1
    <3>3. InOrder(chans[c], shown[c], components)
      BY <2>5, <3>1 DEF Ordered
    <3>4. InOrder(chans[c], shown[c], components')
      BY <1>0, <2>2, <2>4, <3>2, <3>3, OrderKept
    <3>. QED
      BY <3>1, <3>4
  <2>. QED
    BY <2>3, <2>5
<1>2. ASSUME UNCHANGED <<components, updates, overtaken>>,
             ~overtaken => \A c \in Clients :
                 chans'[c] # None => \/ chans'[c] = chans[c] /\ shown'[c] = shown[c]
                                     \/ InOrder(chans'[c], shown'[c], components)
      PROVE  /\ \A k \in Components : components'[k] <= updates'
             /\ ~overtaken' => \A c \in Clients :
                  chans'[c] # None => InOrder(chans'[c], shown'[c], components')
  BY <1>2 DEF Ordered
<1>3. ASSUME NEW u \in Updaters, NEW c \in Clients, Send(u, c), ~overtaken, NEW d \in Clients,
             chans'[d] # None
      PROVE  \/ chans'[d] = chans[d] /\ shown'[d] = shown[d]
             \/ InOrder(chans'[d], shown'[d], components)
  <2>1. CASE chans' = chans
    BY <1>3, <2>1 DEF Send
  <2>2. CASE chans[c] # None /\ chans' = [chans EXCEPT ![c] = Append(@, upd[u].snap)]
    <3>1. upd[u].snap = components
      BY <1>3 DEF Send, InUpdate, OneUpdate
    <3>2. CASE d = c
      <4>1. chans[d] \in Seq(Snapshot) /\ chans'[d] = Append(chans[d], components)
        BY <1>0, <2>2, <3>1, <3>2
      <4>2. InOrder(chans[d], shown[d], components)
        BY <1>3, <2>2, <3>2 DEF Ordered
      <4>3. shown' = shown
        BY <1>3 DEF Send
      <4>. QED
        BY <1>0, <4>1, <4>2, <4>3, OrderSent
    <3>3. CASE d # c
      BY <1>0, <1>3, <2>2, <3>3 DEF Send
    <3>. QED
      BY <3>2, <3>3
  <2>. QED
    BY <1>3, <2>1, <2>2 DEF Send
<1>4. ASSUME NEW c \in Clients, Connect(c), NEW d \in Clients
      PROVE  \/ chans'[d] = chans[d] /\ shown'[d] = shown[d]
             \/ InOrder(chans'[d], shown'[d], components)
  <2>1. CASE d = c
    <3>1. chans'[d] = <<components>> /\ shown'[d] = None
      BY <1>0, <1>4, <2>1 DEF Connect
    <3>. QED
      BY <1>0, <3>1, OrderStarts
  <2>2. CASE d # c
    BY <1>0, <1>4, <2>2 DEF Connect
  <2>. QED
    BY <2>1, <2>2
<1>5. ASSUME NEW c \in Clients, Deliver(c), ~overtaken, NEW d \in Clients
      PROVE  \/ chans'[d] = chans[d] /\ shown'[d] = shown[d]
             \/ InOrder(chans'[d], shown'[d], components)
  <2>1. CASE d = c
    <3>1. chans[d] \in Seq(Snapshot) /\ chans[d] # <<>> /\ chans[d] # None
      BY <1>0, <1>5, <2>1 DEF Deliver
    <3>2. chans'[d] = Tail(chans[d]) /\ shown'[d] = Head(chans[d])
      BY <1>0, <1>5, <2>1 DEF Deliver
    <3>3. InOrder(chans[d], shown[d], components)
      BY <1>5, <3>1 DEF Ordered
    <3>. QED
      BY <3>1, <3>2, <3>3, OrderRead
  <2>2. CASE d # c
    BY <1>0, <1>5, <2>2 DEF Deliver
  <2>. QED
    BY <2>1, <2>2
<1>6. ASSUME NEW c \in Clients, Disconnect(c), NEW d \in Clients, chans'[d] # None
      PROVE  chans'[d] = chans[d] /\ shown'[d] = shown[d]
  BY <1>0, <1>6 DEF Disconnect
<1>7. CASE \A u \in Updaters, k \in Components : ~Store(u, k)
  <2>1. UNCHANGED <<components, updates, overtaken>>
    BY <1>7 DEF Next, Sending, ReadCount, WriteCount, StartSending, Send, Return, Connect,
                Deliver, Disconnect, counter, vars
  <2>2. ASSUME NEW u \in Updaters, ReadCount(u) \/ WriteCount(u) \/ StartSending(u) \/ Return(u)
        PROVE  chans' = chans /\ shown' = shown
    BY <2>2 DEF ReadCount, WriteCount, StartSending, Return
  <2>3. ASSUME ~overtaken, NEW d \in Clients, chans'[d] # None
        PROVE  \/ chans'[d] = chans[d] /\ shown'[d] = shown[d]
               \/ InOrder(chans'[d], shown'[d], components)
    BY <1>3, <1>4, <1>5, <1>6, <1>7, <2>2, <2>3 DEF Next, Sending, vars
  <2>. QED
    BY <1>2, <2>1, <2>3
<1>. QED
  BY <1>1, <1>7

LEMMA InitSInv == Init => SInv
<1> SUFFICES ASSUME Init PROVE SInv
  OBVIOUS
<1>1. TypeOK
  BY InitTypeOK
<1>2. OneUpdate
  BY DEF Init, Idle, InUpdate, OneUpdate
<1>3. SentIsCurrent
  BY DEF Init, SentIsCurrent
<1>4. Ordered
  BY DEF Init, Ordered
<1>. QED
  BY <1>1, <1>2, <1>3, <1>4 DEF SInv

LEMMA NextSInv == SInv /\ [Next]_vars => SInv'
BY NextTypeOK, NextOneUpdate, NextSentIsCurrent, NextOrdered DEF SInv

\* A client that has read all it was sent shows the state of the server, unless its
\* channel was full at some time or updates were under way together.
THEOREM SettledShowsState == Spec => []SettledIsCurrent
<1>1. SInv => SettledIsCurrent
  <2> SUFFICES ASSUME SInv, NEW c \in Clients, Settled(c), c \notin missed, ~overtaken
               PROVE  shown[c] = components
    BY DEF SettledIsCurrent
  <2>1. \A u \in Updaters : ~Awaits(upd[u], c)
    BY DEF Settled, InUpdate, Awaits
  <2>2. chans[c] = <<>> /\ chans[c] # None
    BY BroadcastAssumption, EmptySeq DEF Settled
  <2>. QED
    BY <2>1, <2>2 DEF SInv, SentIsCurrent, LastSent
<1>. QED
  BY <1>1, InitSInv, NextSInv, PTL DEF Spec

\* One step shows a client nothing older than what it showed.
LEMMA DeliversForward ==
    SInv /\ [Next]_vars =>
      [\A c \in Clients, k \in Components :
         (chans[c] # None /\ chans'[c] # None /\ shown[c] # None /\ ~overtaken)
           => shown[c][k] <= shown'[c][k]]_vars
<1> SUFFICES ASSUME SInv, Next, NEW d \in Clients, NEW k \in Components,
                    chans[d] # None, chans'[d] # None, shown[d] # None, ~overtaken
             PROVE  shown[d][k] <= shown'[d][k]
  OBVIOUS
<1>0. /\ chans \in [Clients -> Seq(Snapshot) \cup {None}] /\ shown[d] \in Snapshot
      /\ shown \in [Clients -> Snapshot \cup {None}]
  BY DEF SInv, TypeOK
<1>1. CASE shown'[d] = shown[d]
  BY <1>0, <1>1 DEF Snapshot
<1>2. ASSUME NEW c \in Clients, Deliver(c) PROVE shown[d][k] <= shown'[d][k]
  <2>1. CASE d = c
    <3>1. chans[d] \in Seq(Snapshot) /\ chans[d] # <<>> /\ shown'[d] = Head(chans[d])
      BY <1>0, <1>2, <2>1 DEF Deliver
    <3>2. InOrder(chans[d], shown[d], components)
      BY DEF SInv, Ordered
    <3>. QED
      BY <3>1, <3>2, OrderRead DEF NotAfter
  <2>2. CASE d # c
    BY <1>0, <1>1, <1>2, <2>2 DEF Deliver
  <2>. QED
    BY <2>1, <2>2
<1>3. ASSUME NEW c \in Clients, Connect(c) \/ Disconnect(c) PROVE shown'[d] = shown[d]
  BY <1>0, <1>3 DEF Connect, Disconnect
<1>4. ASSUME NEW u \in Updaters, ReadCount(u) \/ WriteCount(u) \/ Sending(u)
                                 \/ \E j \in Components : Store(u, j)
      PROVE  shown' = shown
  BY <1>4 DEF ReadCount, WriteCount, Sending, StartSending, Send, Return, Store
<1>. QED
  BY <1>1, <1>2, <1>3, <1>4 DEF Next

\* What a client that stays connected shows of a component never goes back, whatever
\* snapshots a full channel kept from it, as long as updates do not overlap.
THEOREM NeverShowsOlder == Spec => ShownNeverGoesBack
<1>1. Spec => []SInv
  BY InitSInv, NextSInv, PTL DEF Spec
<1>. QED
  BY <1>1, DeliversForward, PTL DEF Spec, ShownNeverGoesBack

=============================================================================
