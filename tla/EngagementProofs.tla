--------------------------- MODULE EngagementProofs ---------------------------
(***************************************************************************)
(* Proofs about Engagement, for every number of users and handlers and     *)
(* every capacity of the channel and the buffer:                           *)
(*   TypeCorrect      every variable keeps its type                        *)
(*   BoundedRisk      a crash takes at most a full channel and one batch   *)
(*   StatusInOrder    stored statuses follow the order of the channel      *)
(*   QueueRefined     the pipeline implements EngagementQueue              *)
(*   EachCountedOnce  no count is lost or doubled on the way to the store  *)
(*   VisitorsBound    the visits counted are at most the visitors          *)
(***************************************************************************)
EXTENDS Engagement, SequenceTheorems, FiniteSetTheorems, TLAPS

USE EngagementAssumption

-----------------------------------------------------------------------------
(* Sequences *)

LEMMA TailType ==
    ASSUME NEW S, NEW q \in Seq(S), q # <<>>
    PROVE  /\ Head(q) \in S /\ Tail(q) \in Seq(S)
           /\ Len(q) \in Nat \ {0} /\ Len(Tail(q)) = Len(q) - 1
           /\ \A i \in DOMAIN Tail(q) : i + 1 \in DOMAIN q /\ Tail(q)[i] = q[i + 1]
           /\ 1 \in DOMAIN q /\ Head(q) = q[1]
OBVIOUS

LEMMA AppendType ==
    ASSUME NEW S, NEW q \in Seq(S), NEW e \in S
    PROVE  /\ Append(q, e) \in Seq(S)
           /\ Len(Append(q, e)) = Len(q) + 1
           /\ Append(q, e) # <<>>
           /\ \A i \in DOMAIN Append(q, e) :
                \/ i \in DOMAIN q /\ Append(q, e)[i] = q[i]
                \/ i = Len(q) + 1 /\ Append(q, e)[i] = e
OBVIOUS

-----------------------------------------------------------------------------
(* Type correctness *)

LEMMA EndOfType ==
    ASSUME buffer \in Seq(Status), buffer # <<>>, EndOf
    PROVE  /\ buffer' \in Seq(Status)
           /\ worker' \in {"select", "status", "count"}
           /\ worker' # "select" => buffer' # <<>>
           /\ buffer' = Tail(buffer)
BY TailType DEF EndOf

LEMMA NextTypeOK == TypeOK /\ [Next]_vars => TypeOK'
<1> SUFFICES ASSUME TypeOK, [Next]_vars PROVE TypeOK'
  OBVIOUS
<1> USE DEF TypeOK
<1>1. ASSUME NEW h \in Handlers, NEW call \in Call, TrackCall(h, call) PROVE TypeOK'
  BY <1>1 DEF TrackCall
<1>2. ASSUME NEW h \in Handlers, TrackSend(h) PROVE TypeOK'
  <2> DEFINE s == [id |-> sent', user |-> calls[h].user, type |-> calls[h].type,
                   active |-> calls[h].active]
  <2>1. calls[h] \in Call /\ sent' \in Nat \ {0}
    BY <1>2 DEF TrackSend
  <2>2. s \in Status /\ Delta(s) \in Int
    BY <2>1 DEF Status, Call, Delta
  <2>3. ch' = Append(ch, s) /\ tracked' = [tracked EXCEPT ![s.type] = @ + Delta(s)]
    BY <1>2, Zenon DEF TrackSend
  <2>4. ch' \in Seq(Status) /\ tracked' \in [Types -> Int]
    <3> HIDE DEF s
    <3>1. s.type \in Types
      BY <2>2 DEF Status
    <3>. QED
      BY <2>2, <2>3, <3>1, AppendType
  <2>. QED
    BY <1>2, <2>1, <2>4 DEF TrackSend
<1>3. CASE Receive
  <2>1. Head(ch) \in Status /\ Tail(ch) \in Seq(Status)
    BY <1>3, TailType DEF Receive
  <2>2. buffer' \in Seq(Status) /\ buffer' # <<>>
    BY <1>3, <2>1, AppendType DEF Receive
  <2>. QED
    BY <1>3, <2>1, <2>2 DEF Receive
<1>4. CASE Tick
  BY <1>4 DEF Tick
<1>5. ASSUME NEW found \in BOOLEAN, FlushStatus(found) PROVE TypeOK'
  <2> DEFINE s == Head(buffer)
  <2>1. s \in Status /\ buffer # <<>>
    BY <1>5, TailType DEF FlushStatus
  <2>2. status' = [status EXCEPT ![<<s.user, s.type>>] = s.id]
    BY <1>5 DEF FlushStatus
  <2>3. status' \in [Users \X Types -> Nat]
    <3> HIDE DEF s
    <3>. QED
      BY <2>1, <2>2 DEF Status
  <2>4. \/ worker' = "count" /\ buffer' = buffer
        \/ EndOf
    BY <1>5, Zenon DEF FlushStatus
  <2>5. /\ buffer' \in Seq(Status) /\ worker' \in {"select", "status", "count"}
        /\ worker' # "select" => buffer' # <<>>
    BY <2>1, <2>4, EndOfType
  <2>6. sighted' \in BOOLEAN
    BY <1>5 DEF FlushStatus
  <2>. QED
    BY <1>5, <2>3, <2>5, <2>6 DEF FlushStatus
<1>6. CASE FlushStatusFails
  BY <1>6, EndOfType DEF FlushStatusFails
<1>7. CASE FlushCount
  <2> DEFINE s == Head(buffer)
  <2>1. s \in Status /\ buffer # <<>> /\ Delta(s) \in Int
    BY <1>7, TailType DEF FlushCount, Delta
  <2>2. count' = [count EXCEPT ![s.type] = @ + Delta(s)]
    BY <1>7 DEF FlushCount
  <2>3. count' \in [Types -> Int]
    <3> HIDE DEF s
    <3>. QED
      BY <2>1, <2>2 DEF Status
  <2>. QED
    BY <1>7, <2>1, <2>3, EndOfType DEF FlushCount
<1>8. CASE FlushCountFails
  BY <1>8, EndOfType DEF FlushCountFails
<1>9. CASE Crash
  <2>1. <<>> \in Seq(Status)
    OBVIOUS
  <2>2. calls' \in [Handlers -> Call \cup {None}]
    BY <1>9 DEF Crash
  <2>. QED
    BY <1>9, <2>1, <2>2 DEF Crash
<1>10. CASE UNCHANGED vars
  BY <1>10 DEF vars
<1>. QED
  BY <1>1, <1>2, <1>3, <1>4, <1>5, <1>6, <1>7, <1>8, <1>9, <1>10 DEF Next, Worker

\* Every variable keeps its type along every behaviour.
THEOREM TypeCorrect == Spec => []TypeOK
<1>1. Init => TypeOK
  BY DEF Init, TypeOK
<1>. QED
  BY <1>1, NextTypeOK, PTL DEF Spec

-----------------------------------------------------------------------------
(* What a crash can take *)

\* The worker goes back to select only with room in its buffer.
RoomToReceive == worker = "select" => Len(buffer) < FlushSize

LEMMA EndOfRoom ==
    ASSUME buffer \in Seq(Status), buffer # <<>>, Len(buffer) <= FlushSize, EndOf
    PROVE  Len(buffer') <= FlushSize /\ (worker' = "select" => Len(buffer') < FlushSize)
BY TailType DEF EndOf

LEMMA NextBounded ==
    TypeOK /\ OneBatchAtRisk /\ RoomToReceive /\ [Next]_vars
      => OneBatchAtRisk' /\ RoomToReceive'
<1> SUFFICES ASSUME TypeOK, OneBatchAtRisk, RoomToReceive, [Next]_vars
             PROVE  OneBatchAtRisk' /\ RoomToReceive'
  OBVIOUS
<1> USE DEF TypeOK, OneBatchAtRisk, RoomToReceive
<1>1. ASSUME NEW h \in Handlers, NEW call \in Call, TrackCall(h, call)
      PROVE  OneBatchAtRisk' /\ RoomToReceive'
  BY <1>1 DEF TrackCall
<1>2. ASSUME NEW h \in Handlers, TrackSend(h) PROVE OneBatchAtRisk' /\ RoomToReceive'
  <2>1. PICK s : ch' = Append(ch, s)
    BY <1>2 DEF TrackSend
  <2>2. Len(ch') = Len(ch) + 1 /\ Len(ch) < ChanCap /\ Len(ch) \in Nat
    BY <1>2, <2>1 DEF TrackSend
  <2>3. Len(ch') <= ChanCap
    BY <2>2
  <2>. QED
    BY <1>2, <2>3 DEF TrackSend
<1>3. CASE Receive
  <2>1. Head(ch) \in Status /\ Len(ch') <= ChanCap
    BY <1>3, TailType DEF Receive
  <2>2. Len(buffer') = Len(buffer) + 1
    BY <1>3, <2>1, AppendType DEF Receive
  <2>3. worker' = "select" => ~(Len(buffer') >= FlushSize)
    BY <1>3 DEF Receive, Full
  <2>4. Len(buffer) < FlushSize /\ Len(buffer) \in Nat
    BY <1>3 DEF Receive
  <2>. QED
    BY <2>1, <2>2, <2>3, <2>4
<1>4. CASE Tick
  BY <1>4 DEF Tick
<1>5. ASSUME NEW found \in BOOLEAN, FlushStatus(found)
      PROVE  OneBatchAtRisk' /\ RoomToReceive'
  <2>1. \/ worker' = "count" /\ buffer' = buffer
        \/ EndOf
    BY <1>5, Zenon DEF FlushStatus
  <2>2. buffer # <<>> /\ ch' = ch
    BY <1>5 DEF FlushStatus
  <2>. QED
    BY <2>1, <2>2, EndOfRoom
<1>6. CASE FlushStatusFails
  BY <1>6, EndOfRoom DEF FlushStatusFails
<1>7. CASE FlushCount
  BY <1>7, EndOfRoom DEF FlushCount
<1>8. CASE FlushCountFails
  BY <1>8, EndOfRoom DEF FlushCountFails
<1>9. CASE Crash
  BY <1>9 DEF Crash
<1>10. CASE UNCHANGED vars
  BY <1>10 DEF vars
<1>. QED
  BY <1>1, <1>2, <1>3, <1>4, <1>5, <1>6, <1>7, <1>8, <1>9, <1>10 DEF Next, Worker

\* Channel and buffer never hold more than their capacities: a crash takes no
\* more engagements than that, whatever the load.
THEOREM BoundedRisk == Spec => []OneBatchAtRisk
<1>1. Init => OneBatchAtRisk /\ RoomToReceive
  BY DEF Init, OneBatchAtRisk, RoomToReceive
<1>. QED
  BY <1>1, NextBounded, TypeCorrect, PTL DEF Spec

-----------------------------------------------------------------------------
(* The order of statuses *)

Sorted(seq) == \A i, j \in DOMAIN seq : i <= j => seq[i].id <= seq[j].id

\* From the store over the buffer and the channel to the next one to be sent,
\* statuses are in the order they were sent in.
InOrder ==
    /\ Sorted(buffer) /\ Sorted(ch)
    /\ \A j \in DOMAIN ch : ch[j].id <= sent
    /\ \A i \in DOMAIN buffer : buffer[i].id <= sent
    /\ \A i \in DOMAIN buffer, j \in DOMAIN ch : buffer[i].id <= ch[j].id
    /\ \A k \in Users \X Types :
         /\ status[k] <= sent
         /\ \A i \in DOMAIN buffer : status[k] <= buffer[i].id
         /\ \A j \in DOMAIN ch : status[k] <= ch[j].id

LEMMA EndOfInOrder ==
    ASSUME TypeOK, InOrder, buffer # <<>>, EndOf, UNCHANGED <<ch, status, sent>>
    PROVE  InOrder'
<1>1. buffer' = Tail(buffer)
  BY DEF EndOf
<1>2. \A i \in DOMAIN buffer' : i \in Int /\ i + 1 \in DOMAIN buffer /\ buffer'[i] = buffer[i + 1]
  BY <1>1, TailType DEF TypeOK
<1>3. Sorted(buffer')
  BY <1>2 DEF InOrder, Sorted
<1>. QED
  BY <1>2, <1>3 DEF InOrder, Sorted

LEMMA NextInOrder == TypeOK /\ InOrder /\ [Next]_vars => InOrder'
<1> SUFFICES ASSUME TypeOK, InOrder, [Next]_vars PROVE InOrder'
  OBVIOUS
<1>1. ASSUME NEW h \in Handlers, NEW call \in Call, TrackCall(h, call) PROVE InOrder'
  BY <1>1 DEF TrackCall, InOrder, Sorted
<1>2. ASSUME NEW h \in Handlers, TrackSend(h) PROVE InOrder'
  <2> DEFINE s == [id |-> sent', user |-> calls[h].user, type |-> calls[h].type,
                   active |-> calls[h].active]
  <2>1. s.id = sent' /\ sent' = sent + 1 /\ sent \in Nat /\ s \in Status
    BY <1>2 DEF TrackSend, TypeOK, Call, Status
  <2>2. ch' = Append(ch, s)
    BY <1>2, Zenon DEF TrackSend
  <2> HIDE DEF s
  <2>3. ASSUME NEW j \in DOMAIN ch'
        PROVE  \/ j \in DOMAIN ch /\ ch'[j] = ch[j]
               \/ j = Len(ch) + 1 /\ ch'[j] = s
    BY <2>1, <2>2, <2>3, AppendType DEF TypeOK
  <2>4. \A j \in DOMAIN ch : j \in 1 .. Len(ch) /\ Len(ch) \in Nat /\ ch[j].id \in Nat
    <3>1. \A j \in DOMAIN ch : j \in 1 .. Len(ch) /\ Len(ch) \in Nat /\ ch[j] \in Status
      BY DEF TypeOK
    <3>. QED
      BY <3>1 DEF Status
  <2>5. \A i \in DOMAIN buffer : buffer[i].id \in Nat
    <3>1. \A i \in DOMAIN buffer : buffer[i] \in Status
      BY DEF TypeOK
    <3>. QED
      BY <3>1 DEF Status
  <2>6. \A j \in DOMAIN ch' : ch'[j].id <= sent'
    BY <2>1, <2>3, <2>4 DEF InOrder
  <2>7. Sorted(ch')
    <3> SUFFICES ASSUME NEW i \in DOMAIN ch', NEW j \in DOMAIN ch', i <= j
                 PROVE  ch'[i].id <= ch'[j].id
      BY DEF Sorted
    <3>1. CASE i \in DOMAIN ch /\ ch'[i] = ch[i] /\ j \in DOMAIN ch /\ ch'[j] = ch[j]
      BY <3>1 DEF InOrder, Sorted
    <3>2. CASE j = Len(ch) + 1 /\ ch'[j] = s
      BY <2>1, <2>6, <3>2
    <3>3. CASE i = Len(ch) + 1 /\ j \in DOMAIN ch
      BY <2>4, <3>3
    <3>. QED
      BY <2>3, <3>1, <3>2, <3>3
  <2>8. buffer' = buffer /\ status' = status
    BY <1>2 DEF TrackSend
  <2>9. \A i \in DOMAIN buffer, j \in DOMAIN ch' : buffer[i].id <= ch'[j].id
    BY <2>1, <2>3, <2>5 DEF InOrder
  <2>10. \A k \in Users \X Types, j \in DOMAIN ch' : status[k] <= ch'[j].id
    BY <2>1, <2>3 DEF InOrder, TypeOK
  <2>11. \A k \in Users \X Types : status[k] <= sent'
    BY <2>1 DEF InOrder, TypeOK
  <2>12. \A i \in DOMAIN buffer : buffer[i].id <= sent'
    BY <2>1, <2>5 DEF InOrder
  <2>. QED
    BY <2>6, <2>7, <2>8, <2>9, <2>10, <2>11, <2>12 DEF InOrder
<1>3. CASE Receive
  <2> DEFINE s == Head(ch)
  <2>1. s \in Status /\ s = ch[1] /\ 1 \in DOMAIN ch
    BY <1>3, TailType DEF Receive, TypeOK
  <2>2. buffer' = Append(buffer, s) /\ ch' = Tail(ch) /\ status' = status /\ sent' = sent
    BY <1>3 DEF Receive
  <2>3. ASSUME NEW i \in DOMAIN buffer'
        PROVE  \/ i \in DOMAIN buffer /\ buffer'[i] = buffer[i]
               \/ i = Len(buffer) + 1 /\ buffer'[i] = ch[1]
    BY <2>1, <2>2, <2>3, AppendType DEF TypeOK
  <2>4. \A j \in DOMAIN ch' :
          j \in Nat /\ 1 <= j + 1 /\ j + 1 \in DOMAIN ch /\ ch'[j] = ch[j + 1]
    BY <1>3, <2>2, TailType DEF Receive, TypeOK
  <2>5. \A i \in DOMAIN buffer : i \in 1 .. Len(buffer) /\ Len(buffer) \in Nat
    BY DEF TypeOK
  <2>6. Sorted(ch')
    BY <2>4 DEF InOrder, Sorted
  <2>7. Sorted(buffer')
    <3> SUFFICES ASSUME NEW i \in DOMAIN buffer', NEW j \in DOMAIN buffer', i <= j
                 PROVE  buffer'[i].id <= buffer'[j].id
      BY DEF Sorted
    <3>1. ch[1].id <= ch[1].id
      BY <2>1 DEF Status
    <3>2. CASE j \in DOMAIN buffer /\ buffer'[j] = buffer[j]
      BY <2>3, <2>5, <3>2 DEF InOrder, Sorted
    <3>3. CASE buffer'[j] = ch[1]
      BY <2>1, <2>3, <3>1, <3>3 DEF InOrder
    <3>. QED
      BY <2>3, <3>2, <3>3
  <2>8. \A i \in DOMAIN buffer', j \in DOMAIN ch' : buffer'[i].id <= ch'[j].id
    BY <2>1, <2>3, <2>4 DEF InOrder, Sorted
  <2>9. \A i \in DOMAIN buffer' : buffer'[i].id <= sent
    BY <2>1, <2>3 DEF InOrder
  <2>10. \A k \in Users \X Types, i \in DOMAIN buffer' : status[k] <= buffer'[i].id
    BY <2>1, <2>3 DEF InOrder
  <2>11. \A j \in DOMAIN ch' : ch'[j].id <= sent
    BY <2>4 DEF InOrder
  <2>12. \A k \in Users \X Types, j \in DOMAIN ch' : status[k] <= ch'[j].id
    BY <2>4 DEF InOrder
  <2>13. \A k \in Users \X Types : status[k] <= sent
    BY DEF InOrder
  <2>. QED
    BY <2>2, <2>6, <2>7, <2>8, <2>9, <2>10, <2>11, <2>12, <2>13 DEF InOrder
<1>4. CASE Tick
  BY <1>4 DEF Tick, InOrder, Sorted
<1>5. ASSUME NEW found \in BOOLEAN, FlushStatus(found) PROVE InOrder'
  <2> DEFINE s == Head(buffer)
  <2>1. buffer # <<>> /\ s \in Status /\ s = buffer[1] /\ 1 \in DOMAIN buffer
    BY <1>5, TailType DEF FlushStatus, TypeOK
  <2>2. status' = [status EXCEPT ![<<s.user, s.type>>] = s.id]
    BY <1>5 DEF FlushStatus
  <2>3. ASSUME NEW k \in Users \X Types PROVE status'[k] \in {status[k], buffer[1].id}
    BY <2>1, <2>2 DEF TypeOK
  <2>4. ASSUME NEW k \in Users \X Types
        PROVE  /\ status'[k] <= sent
               /\ \A i \in DOMAIN buffer : status'[k] <= buffer[i].id
               /\ \A j \in DOMAIN ch : status'[k] <= ch[j].id
    <3>1. \A i \in DOMAIN buffer : i \in Nat /\ 1 <= i
      BY DEF TypeOK
    <3>2. \A i \in DOMAIN buffer : buffer[1].id <= buffer[i].id
      BY <2>1, <3>1 DEF InOrder, Sorted
    <3>. QED
      BY <2>1, <2>3, <3>2 DEF InOrder
  <2>5. ch' = ch /\ sent' = sent
    BY <1>5 DEF FlushStatus
  <2>6. buffer' = buffer \/ buffer' = Tail(buffer)
    BY <1>5, Zenon DEF FlushStatus, EndOf
  <2>7. CASE buffer' = buffer
    BY <2>4, <2>5, <2>7 DEF InOrder
  <2>8. CASE buffer' = Tail(buffer)
    <3>1. \A i \in DOMAIN buffer' :
            i \in Int /\ i + 1 \in DOMAIN buffer /\ buffer'[i] = buffer[i + 1]
      BY <2>1, <2>8, TailType DEF TypeOK
    <3>2. Sorted(buffer')
      BY <3>1 DEF InOrder, Sorted
    <3>. QED
      BY <2>4, <2>5, <3>1, <3>2 DEF InOrder
  <2>. QED
    BY <2>6, <2>7, <2>8
<1>6. CASE FlushStatusFails
  BY <1>6, EndOfInOrder DEF FlushStatusFails
<1>7. CASE FlushCount
  BY <1>7, EndOfInOrder DEF FlushCount, TypeOK
<1>8. CASE FlushCountFails
  BY <1>8, EndOfInOrder DEF FlushCountFails, TypeOK
<1>9. CASE Crash
  BY <1>9 DEF Crash, InOrder, Sorted
<1>10. CASE UNCHANGED vars
  BY <1>10 DEF vars, InOrder, Sorted
<1>. QED
  BY <1>1, <1>2, <1>3, <1>4, <1>5, <1>6, <1>7, <1>8, <1>9, <1>10 DEF Next, Worker

\* Only a flush writes a status, and it writes the oldest one on its way.
LEMMA StatusStep ==
    TypeOK /\ InOrder /\ [Next]_vars =>
      [\A k \in Users \X Types : status[k] <= status'[k]]_vars
<1> SUFFICES ASSUME TypeOK, InOrder, Next, NEW k \in Users \X Types
             PROVE  status[k] <= status'[k]
  OBVIOUS
<1>1. status[k] \in Nat
  BY DEF TypeOK
<1>2. CASE status' = status
  BY <1>1, <1>2
<1>3. ASSUME NEW found \in BOOLEAN, FlushStatus(found)
      PROVE  status[k] <= status'[k]
  <2> DEFINE s == Head(buffer)
  <2>1. s = buffer[1] /\ 1 \in DOMAIN buffer
    BY <1>3, TailType DEF FlushStatus, TypeOK
  <2>2. status' = [status EXCEPT ![<<s.user, s.type>>] = s.id]
    BY <1>3 DEF FlushStatus
  <2>3. status'[k] \in {status[k], s.id}
    BY <2>2 DEF TypeOK
  <2>4. status[k] <= s.id
    BY <2>1 DEF InOrder
  <2>. QED
    BY <1>1, <2>3, <2>4
<1>. QED
  BY <1>2, <1>3
  DEF Next, Worker, TrackCall, TrackSend, Receive, Tick, FlushStatusFails, FlushCount,
      FlushCountFails, Crash

\* No user's stored status is ever replaced by an older one: neither the channel,
\* nor the batches, nor a restart reorders two engagements.
THEOREM StatusInOrder == Spec => StatusNeverGoesBack
<1>1. Init => InOrder
  BY DEF Init, InOrder, Sorted
<1>2. Spec => []InOrder
  BY <1>1, NextInOrder, TypeCorrect, PTL DEF Spec
<1>. QED
  BY <1>2, TypeCorrect, StatusStep, PTL DEF Spec, StatusNeverGoesBack

-----------------------------------------------------------------------------
(* The pipeline is a queue *)

Line == buffer \o ch
Stage == IF worker = "count" THEN "count" ELSE "status"

LEMMA ConcatHeadTail ==
    ASSUME NEW S, NEW p \in Seq(S), NEW q \in Seq(S), p # <<>>
    PROVE  /\ p \o q # <<>>
           /\ Head(p \o q) = Head(p)
           /\ Tail(p \o q) = Tail(p) \o q
<1> DEFINE h == Head(p)
           t == Tail(p)
<1>1. h \in S /\ t \in Seq(S)
  BY HeadTailProperties
<1>2. p = <<h>> \o t
  OBVIOUS
<1> HIDE DEF h, t
<1>3. <<h>> \in Seq(S) /\ t \o q \in Seq(S)
  BY <1>1, ConcatProperties
<1>4. p \o q = <<h>> \o (t \o q)
  BY <1>1, <1>2, <1>3, ConcatAssociative
<1>5. ASSUME NEW r \in Seq(S)
      PROVE  <<h>> \o r # <<>> /\ Head(<<h>> \o r) = h /\ Tail(<<h>> \o r) = r
  BY <1>1
<1>6. p \o q # <<>> /\ Head(p \o q) = h /\ Tail(p \o q) = t \o q
  BY <1>3, <1>4, <1>5
<1>. QED
  BY <1>6 DEF h, t

LEMMA ConcatAppend ==
    ASSUME NEW S, NEW p \in Seq(S), NEW q \in Seq(S), NEW e \in S
    PROVE  p \o Append(q, e) = Append(p \o q, e)
<1>1. Append(q, e) = q \o <<e>> /\ <<e>> \in Seq(S)
  BY AppendIsConcat
<1>2. p \o q \in Seq(S)
  BY ConcatProperties
<1>3. Append(p \o q, e) = (p \o q) \o <<e>>
  BY <1>2, AppendIsConcat
<1>. QED
  BY <1>1, <1>3, ConcatAssociative

LEMMA ConcatShift ==
    ASSUME NEW S, NEW p \in Seq(S), NEW q \in Seq(S), q # <<>>
    PROVE  Append(p, Head(q)) \o Tail(q) = p \o q
<1>1. Head(q) \in S /\ Tail(q) \in Seq(S) /\ <<Head(q)>> \o Tail(q) = q
  <2>1. Head(q) \in S /\ Tail(q) \in Seq(S)
    BY HeadTailProperties
  <2>2. <<Head(q)>> \o Tail(q) = q
    OBVIOUS
  <2>. QED
    BY <2>1, <2>2
<1>2. Append(p, Head(q)) = p \o <<Head(q)>> /\ <<Head(q)>> \in Seq(S)
  BY <1>1, AppendIsConcat
<1>3. (p \o <<Head(q)>>) \o Tail(q) = p \o (<<Head(q)>> \o Tail(q))
  BY <1>1, <1>2, ConcatAssociative
<1>. QED
  BY <1>1, <1>2, <1>3

\* The worker is done with the status at hand: it leaves the line.
LEMMA EndOfLeaves ==
    ASSUME TypeOK, buffer # <<>>, EndOf, ch' = ch
    PROVE  Line # <<>> /\ Line' = Tail(Line) /\ Stage' = "status"
BY ConcatHeadTail DEF EndOf, TypeOK, Line, Stage

LEMMA QueueStep == TypeOK /\ [Next]_vars => [Queue!Next]_(Queue!vars)
<1> SUFFICES ASSUME TypeOK, [Next]_vars
             PROVE  Queue!Next \/ UNCHANGED <<Line, Stage, status, count>>
  BY DEF Queue!vars, Line, Stage
<1> DEFINE Stutter == UNCHANGED <<Line, Stage, status, count>>
<1>0. buffer \in Seq(Status) /\ ch \in Seq(Status) /\ Line \in Seq(Status)
  BY ConcatProperties DEF TypeOK, Line
<1>1. ASSUME NEW h \in Handlers, NEW call \in Call, TrackCall(h, call) PROVE Stutter
  BY <1>1 DEF TrackCall, Line, Stage
<1>2. ASSUME NEW h \in Handlers, TrackSend(h) PROVE Queue!Accept
  <2> DEFINE s == [id |-> sent', user |-> calls[h].user, type |-> calls[h].type,
                   active |-> calls[h].active]
  <2>1. s \in Status
    BY <1>2 DEF TrackSend, TypeOK, Call, Status
  <2>2. ch' = Append(ch, s) /\ buffer' = buffer
    BY <1>2, Zenon DEF TrackSend
  <2> HIDE DEF s
  <2>3. Line' = Append(Line, s)
    BY <1>0, <2>1, <2>2, ConcatAppend DEF Line
  <2>4. Line' # <<>> /\ Line'[Len(Line')] = s
    BY <1>0, <2>1, <2>3, AppendProperties
  <2>5. Stage' = Stage /\ status' = status /\ count' = count
    BY <1>2 DEF TrackSend, Stage
  <2>. QED
    BY <2>1, <2>3, <2>4, <2>5 DEF Queue!Accept, Line, Stage
<1>3. ASSUME Receive PROVE Stutter
  <2>1. Line' = Line
    BY <1>0, <1>3, ConcatShift DEF Receive, Line
  <2>. QED
    BY <1>3, <2>1 DEF Receive, Stage
<1>4. ASSUME Tick PROVE Stutter
  BY <1>4 DEF Tick, Line, Stage
<1>5. ASSUME NEW found \in BOOLEAN, FlushStatus(found) PROVE Queue!Record
  <2>1. buffer # <<>> /\ Stage = "status" /\ ch' = ch /\ count' = count
    BY <1>5 DEF FlushStatus, Stage
  <2>2. Line # <<>> /\ Head(Line) = Head(buffer)
    BY <1>0, <2>1, ConcatHeadTail DEF Line
  <2> DEFINE s == Head(buffer)
  <2>3. status' = [status EXCEPT ![<<s.user, s.type>>] = s.id]
    BY <1>5 DEF FlushStatus
  <2>4. \/ worker' = "count" /\ buffer' = buffer
        \/ s.type = Visit /\ status[<<s.user, s.type>>] # 0 /\ EndOf
    BY <1>5, Zenon DEF FlushStatus, IsCounted
  <2> HIDE DEF s
  <2>5. \/ Line' = Line /\ Stage' = "count"
        \/ s.type = Visit /\ status[<<s.user, s.type>>] # 0
           /\ Line' = Tail(Line) /\ Stage' = "status"
    BY <2>1, <2>4, EndOfLeaves DEF Line, Stage
  <2>6. Head(Line) = s
    BY <2>2 DEF s
  <2>. QED
    BY <2>1, <2>2, <2>3, <2>5, <2>6 DEF Queue!Record, Queue!Leave, Line, Stage
<1>6. ASSUME FlushStatusFails PROVE Queue!Drop
  BY <1>6, EndOfLeaves DEF FlushStatusFails, Queue!Drop, Queue!Leave, Line, Stage
<1>7. ASSUME FlushCount PROVE Queue!Count
  <2>1. buffer # <<>> /\ Stage = "count"
    BY <1>7 DEF FlushCount, Stage, TypeOK
  <2>2. Head(Line) = Head(buffer)
    BY <1>0, <2>1, ConcatHeadTail DEF Line
  <2>3. Line # <<>> /\ Line' = Tail(Line) /\ Stage' = "status"
    BY <1>7, <2>1, EndOfLeaves DEF FlushCount
  <2>4. count' = [count EXCEPT ![Head(Line).type] =
                     @ + IF Head(Line).active THEN 1 ELSE -1]
    BY <1>7, <2>2 DEF FlushCount, Delta
  <2>5. status' = status
    BY <1>7 DEF FlushCount
  <2>. QED
    BY <2>1, <2>3, <2>4, <2>5 DEF Queue!Count, Queue!Leave, Line, Stage
<1>8. ASSUME FlushCountFails PROVE Queue!Drop
  <2>1. buffer # <<>>
    BY <1>8 DEF FlushCountFails, TypeOK
  <2>. QED
    BY <1>8, <2>1, EndOfLeaves DEF FlushCountFails, Queue!Drop, Queue!Leave, Line, Stage
<1>9. ASSUME Crash PROVE Queue!LoseAll
  <2>1. Line' = <<>> /\ Stage' = "status"
    BY <1>9, ConcatEmptySeq, EmptySeq DEF Crash, Line, Stage
  <2>. QED
    BY <1>9, <2>1 DEF Crash, Queue!LoseAll, Line, Stage
<1>10. ASSUME UNCHANGED vars PROVE Stutter
  BY <1>10 DEF vars, Line, Stage
<1>. QED
  BY <1>1, <1>2, <1>3, <1>4, <1>5, <1>6, <1>7, <1>8, <1>9, <1>10
  DEF Next, Worker, Queue!Next

\* Whatever the channel, the batches, the ticker and the interleaving of requests
\* do, the store sees one line of statuses, worked off from the front one at a time.
THEOREM QueueRefined == Spec => ImplementsQueue
<1>1. Init => Queue!Init
  <2>1. <<>> \o <<>> = <<>>
    BY ConcatEmptySeq, EmptySeq
  <2>. QED
    BY <2>1 DEF Init, Queue!Init
<1>. QED
  BY <1>1, QueueStep, TypeCorrect, PTL DEF Spec, ImplementsQueue, Queue!Spec

-----------------------------------------------------------------------------
(* What is due *)

\* The places in a sequence of the statuses of a type that add d to its counter.
Places(q, t, d) == {i \in DOMAIN q : q[i].type = t /\ Delta(q[i]) = d}

\* What a status adds to the counter of a type.
Adds(s, t) == IF s.type = t THEN Delta(s) ELSE 0

LEMMA DuePlaces ==
    ASSUME NEW q \in Seq(Status), NEW t
    PROVE  Due(q, t) = Cardinality(Places(q, t, 1)) - Cardinality(Places(q, t, -1))
<1>1. \A i \in DOMAIN q : q[i].active \in BOOLEAN
  <2>1. \A i \in DOMAIN q : q[i] \in Status
    OBVIOUS
  <2>. QED
    BY <2>1 DEF Status
<1>2. Places(q, t, 1) = {i \in DOMAIN q : q[i].type = t /\ q[i].active = TRUE}
  BY <1>1 DEF Places, Delta
<1>3. Places(q, t, -1) = {i \in DOMAIN q : q[i].type = t /\ q[i].active = FALSE}
  BY <1>1 DEF Places, Delta
<1>. QED
  BY <1>2, <1>3, Zenon DEF Due

LEMMA PlacesFinite ==
    ASSUME NEW q \in Seq(Status), NEW t, NEW d
    PROVE  IsFiniteSet(Places(q, t, d)) /\ Cardinality(Places(q, t, d)) \in Nat
<1>1. Len(q) \in Nat /\ DOMAIN q = 1 .. Len(q)
  OBVIOUS
<1>2. IsFiniteSet(1 .. Len(q))
  BY <1>1, FS_Interval
<1>3. Places(q, t, d) \in SUBSET (1 .. Len(q))
  BY <1>1 DEF Places
<1>4. IsFiniteSet(Places(q, t, d))
  BY <1>2, <1>3, FS_Subset
<1>. QED
  BY <1>4, FS_CardinalityType

LEMMA PlacesAppend ==
    ASSUME NEW q \in Seq(Status), NEW s \in Status, NEW t, NEW d
    PROVE  Cardinality(Places(Append(q, s), t, d)) =
             IF s.type = t /\ Delta(s) = d THEN Cardinality(Places(q, t, d)) + 1
             ELSE Cardinality(Places(q, t, d))
<1>1. /\ Len(q) \in Nat /\ DOMAIN q = 1 .. Len(q)
      /\ DOMAIN Append(q, s) = 1 .. Len(q) + 1
      /\ Append(q, s)[Len(q) + 1] = s
      /\ \A i \in 1 .. Len(q) : Append(q, s)[i] = q[i]
  OBVIOUS
<1>2. Len(q) + 1 \notin Places(q, t, d)
  BY <1>1 DEF Places
<1>3. CASE s.type = t /\ Delta(s) = d
  <2>1. Places(Append(q, s), t, d) = Places(q, t, d) \cup {Len(q) + 1}
    BY <1>1, <1>3 DEF Places
  <2>. QED
    <3>1. IsFiniteSet(Places(q, t, d)) /\ Cardinality(Places(q, t, d)) \in Nat
      BY PlacesFinite
    <3>2. Cardinality(Places(q, t, d) \cup {Len(q) + 1}) = Cardinality(Places(q, t, d)) + 1
      BY <1>2, <3>1, FS_AddElement
    <3>. QED
      BY <1>3, <2>1, <3>2
<1>4. CASE ~(s.type = t /\ Delta(s) = d)
  <2>1. Places(Append(q, s), t, d) = Places(q, t, d)
    BY <1>1, <1>4 DEF Places
  <2>. QED
    BY <1>4, <2>1
<1>. QED
  BY <1>3, <1>4

\* The tail holds the places but the first, each one place earlier.
LEMMA PlacesTail ==
    ASSUME NEW q \in Seq(Status), q # <<>>, NEW t, NEW d
    PROVE  Cardinality(Places(q, t, d)) =
             IF Head(q).type = t /\ Delta(Head(q)) = d
             THEN Cardinality(Places(Tail(q), t, d)) + 1
             ELSE Cardinality(Places(Tail(q), t, d))
<1> DEFINE P == Places(Tail(q), t, d)
           R == Places(q, t, d) \ {1}
           f == [i \in P |-> i + 1]
<1>1. /\ Len(q) \in Nat /\ DOMAIN q = 1 .. Len(q) /\ 1 \in DOMAIN q /\ Head(q) = q[1]
      /\ Tail(q) \in Seq(Status) /\ DOMAIN Tail(q) = 1 .. Len(q) - 1
      /\ \A i \in 1 .. Len(q) - 1 : Tail(q)[i] = q[i + 1]
  OBVIOUS
<1>2. \A i \in P : i \in Int /\ i + 1 \in R
  BY <1>1 DEF Places
<1>3. \A j \in R : j \in Int /\ j - 1 \in P
  BY <1>1 DEF Places
<1>4. f \in Bijection(P, R)
  <2>1. f \in [P -> R] /\ \A i \in P : f[i] = i + 1
    BY <1>2
  <2>2. \A i, j \in P : f[i] = f[j] => i = j
    BY <1>2, <2>1
  <2>3. \A j \in R : \E i \in P : f[i] = j
    <3>1. \A j \in R : f[j - 1] = j
      BY <1>3, <2>1
    <3>. QED
      BY <1>3, <3>1
  <2> HIDE DEF f, P, R
  <2>. QED
    BY <2>1, <2>2, <2>3 DEF Bijection, Injection, Surjection, IsInjective
<1>5. IsFiniteSet(P) /\ Cardinality(P) \in Nat
  BY <1>1, PlacesFinite
<1>6. Cardinality(R) = Cardinality(P)
  <2> HIDE DEF f, P, R
  <2>1. ExistsBijection(P, R)
    BY <1>4 DEF ExistsBijection
  <2>. QED
    BY <1>5, <2>1, FS_Bijection
<1>7. IsFiniteSet(Places(q, t, d)) /\ Cardinality(Places(q, t, d)) \in Nat
  BY PlacesFinite
<1>8. Cardinality(R) = IF 1 \in Places(q, t, d) THEN Cardinality(Places(q, t, d)) - 1
                       ELSE Cardinality(Places(q, t, d))
  BY <1>7, FS_RemoveElement
<1>9. 1 \in Places(q, t, d) <=> Head(q).type = t /\ Delta(Head(q)) = d
  BY <1>1 DEF Places
<1> HIDE DEF P, R
<1>10. CASE Head(q).type = t /\ Delta(Head(q)) = d
  BY <1>5, <1>6, <1>7, <1>8, <1>9, <1>10 DEF P
<1>11. CASE ~(Head(q).type = t /\ Delta(Head(q)) = d)
  BY <1>6, <1>8, <1>9, <1>11 DEF P
<1>. QED
  BY <1>10, <1>11

LEMMA DueInt ==
    ASSUME NEW q \in Seq(Status), NEW t
    PROVE  Due(q, t) \in Int
BY DuePlaces, PlacesFinite

LEMMA DeltaIs == \A s : Delta(s) = 1 \/ Delta(s) = -1
BY DEF Delta

LEMMA DueAppend ==
    ASSUME NEW q \in Seq(Status), NEW s \in Status, NEW t
    PROVE  Due(Append(q, s), t) = Due(q, t) + Adds(s, t)
<1>1. Append(q, s) \in Seq(Status)
  OBVIOUS
<1>2. Cardinality(Places(q, t, 1)) \in Nat /\ Cardinality(Places(q, t, -1)) \in Nat
  BY PlacesFinite
<1>3. /\ Cardinality(Places(Append(q, s), t, 1)) =
           IF s.type = t /\ Delta(s) = 1 THEN Cardinality(Places(q, t, 1)) + 1
           ELSE Cardinality(Places(q, t, 1))
      /\ Cardinality(Places(Append(q, s), t, -1)) =
           IF s.type = t /\ Delta(s) = -1 THEN Cardinality(Places(q, t, -1)) + 1
           ELSE Cardinality(Places(q, t, -1))
  BY PlacesAppend
<1>4. /\ Due(Append(q, s), t) =
           Cardinality(Places(Append(q, s), t, 1)) - Cardinality(Places(Append(q, s), t, -1))
      /\ Due(q, t) = Cardinality(Places(q, t, 1)) - Cardinality(Places(q, t, -1))
  BY <1>1, DuePlaces, Zenon
<1>5. Delta(s) = 1 \/ Delta(s) = -1
  BY DeltaIs
<1>. QED
  BY <1>2, <1>3, <1>4, <1>5 DEF Adds

LEMMA DueTail ==
    ASSUME NEW q \in Seq(Status), q # <<>>, NEW t
    PROVE  Due(q, t) = Due(Tail(q), t) + Adds(Head(q), t)
<1>1. Tail(q) \in Seq(Status)
  BY TailType
<1>2. /\ Cardinality(Places(Tail(q), t, 1)) \in Nat
      /\ Cardinality(Places(Tail(q), t, -1)) \in Nat
  BY <1>1, PlacesFinite
<1>3. /\ Cardinality(Places(q, t, 1)) =
           IF Head(q).type = t /\ Delta(Head(q)) = 1
           THEN Cardinality(Places(Tail(q), t, 1)) + 1
           ELSE Cardinality(Places(Tail(q), t, 1))
      /\ Cardinality(Places(q, t, -1)) =
           IF Head(q).type = t /\ Delta(Head(q)) = -1
           THEN Cardinality(Places(Tail(q), t, -1)) + 1
           ELSE Cardinality(Places(Tail(q), t, -1))
  BY PlacesTail
<1>4. /\ Due(Tail(q), t) =
           Cardinality(Places(Tail(q), t, 1)) - Cardinality(Places(Tail(q), t, -1))
      /\ Due(q, t) = Cardinality(Places(q, t, 1)) - Cardinality(Places(q, t, -1))
  BY <1>1, DuePlaces, Zenon
<1>5. Delta(Head(q)) = 1 \/ Delta(Head(q)) = -1
  BY DeltaIs
<1>. QED
  BY <1>2, <1>3, <1>4, <1>5 DEF Adds

LEMMA DueEmpty == \A t : Due(<<>>, t) = 0
<1> SUFFICES ASSUME NEW t PROVE Due(<<>>, t) = 0
  OBVIOUS
<1>1. Places(<<>>, t, 1) = {} /\ Places(<<>>, t, -1) = {}
  BY DEF Places
<1>. QED
  <2>1. <<>> \in Seq(Status)
    OBVIOUS
  <2>2. Due(<<>>, t) =
          Cardinality(Places(<<>>, t, 1)) - Cardinality(Places(<<>>, t, -1))
    BY <2>1, DuePlaces, Zenon
  <2>3. Cardinality({}) = 0
    BY FS_EmptySet
  <2>4. Due(<<>>, t) = Cardinality({}) - Cardinality({})
    BY <1>1, <2>2, Zenon
  <2>. QED
    BY <2>3, <2>4

-----------------------------------------------------------------------------
(* Counters *)

\* The worker is done with a status that does not count, or that has been counted.
LEMMA EndOfDue ==
    ASSUME buffer \in Seq(Status), buffer # <<>>, EndOf, NEW t
    PROVE  Due(buffer', t) = Due(buffer, t) - Adds(Head(buffer), t)
<1>1. buffer' = Tail(buffer) /\ Tail(buffer) \in Seq(Status)
  BY TailType DEF EndOf
<1>2. Due(buffer, t) = Due(Tail(buffer), t) + Adds(Head(buffer), t)
  BY DueTail
<1>3. Due(Tail(buffer), t) \in Int
  BY <1>1, DueInt
<1>4. Adds(Head(buffer), t) \in Int
  BY DEF Adds, Delta
<1>. QED
  BY <1>1, <1>2, <1>3, <1>4

LEMMA NextCounts == TypeOK /\ CountsConserved /\ [Next]_vars => CountsConserved'
<1> SUFFICES ASSUME TypeOK, CountsConserved, [Next]_vars, clean', NEW t \in Types \ {Visit}
             PROVE  (count[t] + Due(buffer, t) + Due(ch, t) = tracked[t])'
  BY DEF CountsConserved
<1> DEFINE Goal == (count[t] + Due(buffer, t) + Due(ch, t) = tracked[t])'
<1>0. /\ buffer \in Seq(Status) /\ ch \in Seq(Status)
      /\ count[t] \in Int /\ tracked[t] \in Int
      /\ Due(buffer, t) \in Int /\ Due(ch, t) \in Int
  BY DueInt DEF TypeOK
<1>00. clean => count[t] + Due(buffer, t) + Due(ch, t) = tracked[t]
  BY DEF CountsConserved
<1>1. ASSUME NEW h \in Handlers, NEW call \in Call, TrackCall(h, call) PROVE Goal
  BY <1>00, <1>1 DEF TrackCall
<1>2. ASSUME NEW h \in Handlers, TrackSend(h) PROVE Goal
  <2> DEFINE s == [id |-> sent', user |-> calls[h].user, type |-> calls[h].type,
                   active |-> calls[h].active]
  <2>1. s \in Status
    BY <1>2 DEF TrackSend, TypeOK, Call, Status
  <2>2. ch' = Append(ch, s) /\ tracked' = [tracked EXCEPT ![s.type] = @ + Delta(s)]
    BY <1>2, Zenon DEF TrackSend
  <2>3. count' = count /\ buffer' = buffer /\ clean' = clean
    BY <1>2 DEF TrackSend
  <2> HIDE DEF s
  <2>4. Due(ch', t) = Due(ch, t) + Adds(s, t)
    BY <1>0, <2>1, <2>2, DueAppend
  <2>5. tracked'[t] = tracked[t] + Adds(s, t) /\ Adds(s, t) \in Int
    <3>1. tracked \in [Types -> Int] /\ s.type \in Types
      BY <2>1 DEF TypeOK, Status
    <3>2. Delta(s) \in Int
      BY DEF Delta
    <3>. QED
      BY <1>0, <2>2, <3>1, <3>2 DEF Adds
  <2>. QED
    BY <1>0, <1>00, <2>3, <2>4, <2>5
<1>3. CASE Receive
  <2>1. /\ Head(ch) \in Status /\ ch # <<>> /\ ch' = Tail(ch)
        /\ buffer' = Append(buffer, Head(ch))
    BY <1>0, <1>3, TailType DEF Receive
  <2>2. Due(buffer', t) = Due(buffer, t) + Adds(Head(ch), t)
    BY <1>0, <2>1, DueAppend
  <2>3. Due(ch, t) = Due(ch', t) + Adds(Head(ch), t)
    BY <1>0, <2>1, DueTail
  <2>4. Due(ch', t) \in Int
    BY <1>0, <2>1, TailType, DueInt
  <2>5. Adds(Head(ch), t) \in Int
    BY DEF Adds, Delta
  <2>6. count' = count /\ tracked' = tracked /\ clean' = clean
    BY <1>3 DEF Receive
  <2>. QED
    BY <1>0, <1>00, <2>2, <2>3, <2>4, <2>5, <2>6
<1>4. CASE Tick
  BY <1>00, <1>4 DEF Tick
<1>5. ASSUME NEW found \in BOOLEAN, FlushStatus(found) PROVE Goal
  <2>1. count' = count /\ tracked' = tracked /\ clean' = clean /\ ch' = ch /\ buffer # <<>>
    BY <1>5 DEF FlushStatus
  <2>2. \/ buffer' = buffer
        \/ Head(buffer).type = Visit /\ EndOf
    BY <1>5, Zenon DEF FlushStatus, IsCounted
  <2>3. CASE buffer' = buffer
    BY <1>00, <2>1, <2>3
  <2>4. CASE Head(buffer).type = Visit /\ EndOf
    <3>1. Due(buffer', t) = Due(buffer, t) - Adds(Head(buffer), t)
      BY <1>0, <2>1, <2>4, EndOfDue
    <3>2. Adds(Head(buffer), t) = 0
      BY <2>4 DEF Adds
    <3>. QED
      BY <1>0, <1>00, <2>1, <3>1, <3>2
  <2>. QED
    BY <2>2, <2>3, <2>4
<1>6. CASE FlushStatusFails
  BY <1>6 DEF FlushStatusFails
<1>7. CASE FlushCount
  <2> DEFINE s == Head(buffer)
  <2>1. buffer # <<>>
    BY <1>7 DEF FlushCount, TypeOK
  <2>2. Due(buffer', t) = Due(buffer, t) - Adds(s, t)
    BY <1>0, <1>7, <2>1, EndOfDue DEF FlushCount
  <2>3. count' = [count EXCEPT ![s.type] = @ + Delta(s)]
    BY <1>7 DEF FlushCount
  <2>4. count'[t] = count[t] + Adds(s, t) /\ Adds(s, t) \in Int
    <3>1. count \in [Types -> Int]
      BY DEF TypeOK
    <3>2. Delta(s) \in Int
      BY DEF Delta
    <3> HIDE DEF s
    <3>. QED
      BY <1>0, <2>3, <3>1, <3>2 DEF Adds
  <2>5. tracked' = tracked /\ clean' = clean /\ ch' = ch
    BY <1>7 DEF FlushCount
  <2> HIDE DEF s
  <2>. QED
    BY <1>0, <1>00, <2>2, <2>4, <2>5
<1>8. CASE FlushCountFails
  BY <1>8 DEF FlushCountFails
<1>9. CASE Crash
  BY <1>9 DEF Crash
<1>10. CASE UNCHANGED vars
  BY <1>00, <1>10 DEF vars
<1>. QED
  BY <1>1, <1>2, <1>3, <1>4, <1>5, <1>6, <1>7, <1>8, <1>9, <1>10 DEF Next, Worker

\* Whatever the capacities and however requests, batches and ticks interleave: until
\* a write fails or the process dies, a counter plus what is on its way to it is the
\* sum of what was tracked, so no engagement is lost on the way and none counted twice.
THEOREM EachCountedOnce == Spec => []CountsConserved
<1>1. Init => CountsConserved
  <2> SUFFICES ASSUME Init, NEW t \in Types PROVE count[t] + Due(buffer, t) + Due(ch, t) = tracked[t]
    BY DEF CountsConserved
  <2>1. Due(buffer, t) = 0 /\ Due(ch, t) = 0
    BY DueEmpty DEF Init
  <2>. QED
    BY <2>1 DEF Init
<1>. QED
  BY <1>1, NextCounts, TypeCorrect, PTL DEF Spec

-----------------------------------------------------------------------------
(* Visits *)

\* Between the two records of a new visit its user is a visitor already and the
\* counter has yet to hear of it.
Uncounted == IF worker = "count" /\ Head(buffer).type = Visit THEN 1 ELSE 0

VisitInv ==
    /\ IsFiniteSet(Visitors)
    /\ sighted => /\ count[Visit] <= Cardinality(Visitors) - Uncounted
                  /\ -count[Visit] <= Cardinality(Visitors) - Uncounted

LEMMA SameVisitors ==
    ASSUME VisitInv, status' = status, count'[Visit] = count[Visit], sighted' = sighted,
           count[Visit] \in Int, Uncounted' = Uncounted \/ Uncounted' = 0
    PROVE  VisitInv'
<1>1. Visitors' = Visitors
  BY DEF Visitors
<1>2. Cardinality(Visitors) \in Nat
  BY FS_CardinalityType DEF VisitInv
<1>3. Uncounted \in {0, 1}
  BY DEF Uncounted
<1>. QED
  BY <1>1, <1>2, <1>3 DEF VisitInv

LEMMA NextVisitInv == TypeOK /\ VisitInv /\ [Next]_vars => VisitInv'
<1> SUFFICES ASSUME TypeOK, VisitInv, [Next]_vars PROVE VisitInv'
  OBVIOUS
<1>0. /\ count[Visit] \in Int /\ count \in [Types -> Int]
      /\ Cardinality(Visitors) \in Nat /\ Uncounted \in {0, 1}
  BY FS_CardinalityType DEF TypeOK, VisitInv, Uncounted
<1>1. ASSUME NEW h \in Handlers, NEW call \in Call, TrackCall(h, call) PROVE VisitInv'
  BY <1>0, <1>1, SameVisitors DEF TrackCall, Uncounted
<1>2. ASSUME NEW h \in Handlers, TrackSend(h) PROVE VisitInv'
  BY <1>0, <1>2, SameVisitors DEF TrackSend, Uncounted
<1>3. CASE Receive
  BY <1>0, <1>3, SameVisitors DEF Receive, Uncounted
<1>4. CASE Tick
  BY <1>0, <1>4, SameVisitors DEF Tick, Uncounted
<1>5. ASSUME NEW found \in BOOLEAN, FlushStatus(found) PROVE VisitInv'
  <2> DEFINE s == Head(buffer)
             k == <<s.user, s.type>>
  <2>1. /\ buffer # <<>> /\ worker = "status" /\ count' = count
        /\ sighted' = (sighted /\ found)
        /\ status' = [status EXCEPT ![k] = s.id]
    BY <1>5 DEF FlushStatus
  <2>2. \/ worker' = "count" /\ buffer' = buffer /\ (s.type = Visit => ~(status[k] # 0 /\ found))
        \/ s.type = Visit /\ status[k] # 0 /\ found /\ EndOf
    BY <1>5, Zenon DEF FlushStatus, IsCounted
  <2>3. s.user \in Users /\ s.type \in Types /\ s.id \in Nat \ {0}
    <3>1. s \in Status
      BY <2>1, TailType DEF TypeOK
    <3>. QED
      BY <3>1 DEF Status
  <2>4. Uncounted = 0
    BY <2>1 DEF Uncounted
  <2>5. status \in [Users \X Types -> Nat]
    BY DEF TypeOK
  <2>6. Uncounted' = IF worker' = "count" /\ s.type = Visit THEN 1 ELSE 0
    BY <2>2 DEF Uncounted, EndOf
  <2>7. CASE s.type # Visit
    <3>1. \A u \in Users : status'[<<u, Visit>>] = status[<<u, Visit>>]
      BY <2>1, <2>5, <2>7
    <3>2. Visitors' = Visitors
      BY <3>1 DEF Visitors
    <3>. QED
      BY <1>0, <2>1, <2>4, <2>6, <2>7, <3>2 DEF VisitInv
  <2>8. CASE s.type = Visit /\ status[k] # 0
    <3>1. \A u \in Users : status'[<<u, Visit>>] # 0 <=> status[<<u, Visit>>] # 0
      BY <2>1, <2>3, <2>5, <2>8
    <3>2. Visitors' = Visitors
      BY <3>1 DEF Visitors
    <3>3. ~found \/ Uncounted' = 0
      BY <2>2, <2>6, <2>8 DEF EndOf
    <3> HIDE DEF s, k
    <3>. QED
      BY <1>0, <2>1, <2>4, <2>6, <2>8, <3>2, <3>3 DEF VisitInv
  <2>9. CASE s.type = Visit /\ status[k] = 0
    <3>1. \A u \in Users : status'[<<u, Visit>>] # 0 <=> u = s.user \/ status[<<u, Visit>>] # 0
      BY <2>1, <2>3, <2>5, <2>9
    <3>2. Visitors' = Visitors \cup {s.user} /\ s.user \notin Visitors
      BY <2>3, <2>9, <3>1 DEF Visitors
    <3>3. IsFiniteSet(Visitors') /\ Cardinality(Visitors') = Cardinality(Visitors) + 1
      BY <3>2, FS_AddElement DEF VisitInv
    <3>4. Uncounted' \in {0, 1}
      BY <2>6
    <3> HIDE DEF s, k
    <3>5. sighted' => sighted
      BY <2>1
    <3>6. sighted => /\ count[Visit] <= Cardinality(Visitors)
                     /\ -count[Visit] <= Cardinality(Visitors)
      BY <1>0, <2>4 DEF VisitInv
    <3>7. sighted' => /\ count'[Visit] <= Cardinality(Visitors') - Uncounted'
                      /\ -count'[Visit] <= Cardinality(Visitors') - Uncounted'
      BY <1>0, <2>1, <3>3, <3>4, <3>5, <3>6
    <3>. QED
      BY <3>3, <3>7 DEF VisitInv
  <2>. QED
    BY <2>7, <2>8, <2>9
<1>6. CASE FlushStatusFails
  BY <1>0, <1>6, SameVisitors DEF FlushStatusFails, EndOf, Uncounted
<1>7. CASE FlushCount
  <2> DEFINE s == Head(buffer)
  <2>1. /\ worker = "count" /\ count' = [count EXCEPT ![s.type] = @ + Delta(s)]
        /\ Visitors' = Visitors /\ sighted' = sighted /\ worker' # "count"
    BY <1>7 DEF FlushCount, EndOf, Visitors
  <2>2. Uncounted' = 0
    BY <2>1 DEF Uncounted
  <2>3. CASE s.type = Visit
    <3>1. Uncounted = 1
      BY <2>1, <2>3 DEF Uncounted
    <3>2. Delta(s) \in {1, -1}
      BY DEF Delta
    <3>3. count'[Visit] = count[Visit] + Delta(s)
      BY <1>0, <2>1, <2>3
    <3>. QED
      BY <1>0, <2>1, <2>2, <3>1, <3>2, <3>3 DEF VisitInv
  <2>4. CASE s.type # Visit
    <3>1. count'[Visit] = count[Visit]
      BY <1>0, <2>1, <2>4
    <3>. QED
      BY <1>0, <2>1, <2>2, <3>1 DEF VisitInv
  <2>. QED
    BY <2>3, <2>4
<1>8. CASE FlushCountFails
  BY <1>0, <1>8, SameVisitors DEF FlushCountFails, EndOf, Uncounted
<1>9. CASE Crash
  BY <1>0, <1>9, SameVisitors DEF Crash, Uncounted
<1>10. CASE UNCHANGED vars
  BY <1>0, <1>10, SameVisitors DEF vars, Uncounted
<1>. QED
  BY <1>1, <1>2, <1>3, <1>4, <1>5, <1>6, <1>7, <1>8, <1>9, <1>10 DEF Next, Worker

\* A user's visit counts once, however often it is tracked and wherever the process
\* dies between the two records: as long as every read of a status succeeds, the
\* counter lies within the number of visitors.
THEOREM VisitorsBound == Spec => []VisitsCountVisitors
<1>1. Init => VisitInv
  <2> SUFFICES ASSUME Init PROVE VisitInv
    OBVIOUS
  <2>1. Visitors = {} /\ Uncounted = 0 /\ count[Visit] = 0
    BY DEF Init, Visitors, Uncounted
  <2>. QED
    BY <2>1, FS_EmptySet DEF VisitInv
<1>2. TypeOK /\ VisitInv => VisitsCountVisitors
  <2> SUFFICES ASSUME TypeOK, VisitInv, sighted
               PROVE  count[Visit] \in -Cardinality(Visitors) .. Cardinality(Visitors)
    BY DEF VisitsCountVisitors
  <2>1. Cardinality(Visitors) \in Nat /\ Uncounted \in {0, 1} /\ count[Visit] \in Int
    BY FS_CardinalityType DEF TypeOK, VisitInv, Uncounted
  <2>. QED
    BY <2>1 DEF VisitInv
<1>. QED
  BY <1>1, <1>2, NextVisitInv, TypeCorrect, PTL DEF Spec

=============================================================================
