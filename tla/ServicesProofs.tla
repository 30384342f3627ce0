--------------------------- MODULE ServicesProofs ---------------------------
EXTENDS Services, TLAPS, FiniteSetTheorems

-----------------------------------------------------------------------------
(* A behaviour is one of one part *)

LEMMA PartStarts ==
    Init => /\ part = "schemas" => S!Init
            /\ part = "seeds" => D!Init
            /\ part = "extensions" => E!Init
            /\ part = "accounts" => A!Init
            /\ part = "messages" => M!Init
            /\ part = "access" => C!Init
            /\ part = "notices" => N!Init
            /\ part = "router" => T!Init
            /\ part = "temp" => F!Init
BY Zenon DEF Init

LEMMA PartSteps ==
    [Next]_allVars =>
        /\ part' = part
        /\ part = "schemas" => [S!Next]_(S!vars)
        /\ part = "seeds" => [D!Next]_(D!vars)
        /\ part = "extensions" => [E!Next]_(E!vars)
        /\ part = "accounts" => [A!Next]_(A!vars)
        /\ part = "messages" => [M!Next]_(M!vars)
        /\ part = "access" => [C!Next]_(C!vars)
        /\ part = "notices" => [N!Next]_(N!vars)
        /\ part = "router" => [T!Next]_(T!vars)
        /\ part = "temp" => [F!Next]_(F!vars)
<1>1. UNCHANGED allVars =>
        /\ part' = part
        /\ UNCHANGED S!vars /\ UNCHANGED D!vars /\ UNCHANGED E!vars /\ UNCHANGED A!vars
        /\ UNCHANGED M!vars /\ UNCHANGED C!vars /\ UNCHANGED N!vars
        /\ UNCHANGED T!vars /\ UNCHANGED F!vars
  BY DEF allVars, schemasVars, seedsVars, extensionsVars, accountsVars, messagesVars,
         accessVars, driversVars, noticesVars, routerVars, tempVars,
         S!vars, D!vars, E!vars, A!vars, M!vars, C!vars, N!vars, T!vars, F!vars
<1>2. Next =>
        /\ part' = part
        /\ \/ part = "schemas" /\ S!Next
           \/ part = "seeds" /\ D!Next
           \/ part = "extensions" /\ E!Next
           \/ part = "accounts" /\ A!Next
           \/ part = "messages" /\ M!Next
           \/ part = "access" /\ C!Next
           \/ part = "drivers" /\ R!Next
           \/ part = "notices" /\ N!Next
           \/ part = "router" /\ T!Next
           \/ part = "temp" /\ F!Next
  BY DEF Next, RunSchemas, RunSeedData, RunExtensions, RunAccounts, RunMessaging,
         RunAccess, RunDrivers, RunNotices, RunRouter, RunTempAccess
<1>. QED
  BY <1>1, <1>2

-----------------------------------------------------------------------------
(* Seed data *)

\* The loop over the entries comes to r before it comes to s.
Before(r, s) == r[1] < s[1] \/ (r[1] = s[1] /\ r[2] < s[2])

\* While clients have not emptied the first entity, an entity the loader takes
\* for empty means that nothing is stored, and what it has still to insert is
\* not stored yet.
SeedsIInv ==
    /\ D!TypeOK
    /\ seedsEmptied \/
         /\ \A r \in D!Records : seedsCopies[r] <= 1
         /\ D!Seeded \/ \A r \in D!Records : seedsCopies[r] = 0
         /\ seedsPos \in D!Records =>
              /\ \A r \in D!Records : seedsCopies[r] = 0 \/ Before(r, seedsPos)
              /\ seedsPos # <<1, 0>> => D!Seeded

LEMMA RecordPairs ==
    ASSUME D!SeedDataAssumption
    PROVE  /\ <<1, 0>> \in D!Marks /\ D!Marks \subseteq D!Records
           /\ D!AtList \notin D!Records /\ D!Serving \notin D!Records
           /\ \A r : r \in D!Records <=>
                  /\ r = <<r[1], r[2]>> /\ r[1] \in 1 .. Len(SeedsEntries)
                  /\ r[2] \in 0 .. SeedsEntries[r[1]].children
<1>1. \A r : r \in D!Records <=>
                  /\ r = <<r[1], r[2]>> /\ r[1] \in 1 .. Len(SeedsEntries)
                  /\ r[2] \in 0 .. SeedsEntries[r[1]].children
  BY DEF D!Records
<1>2. <<1, 0>> \in D!Records
  BY <1>1 DEF D!SeedDataAssumption
<1>3. D!AtList \notin D!Records /\ D!Serving \notin D!Records
  BY <1>1 DEF D!SeedDataAssumption, D!AtList, D!Serving
<1>. QED
  BY <1>1, <1>2, <1>3 DEF D!Marks, D!First

\* The loop goes on to the next record, or is over.
LEMMA AfterNext ==
    ASSUME D!SeedDataAssumption, NEW r \in D!Records
    PROVE  /\ D!After(r) \in D!Records \cup {D!Serving} /\ D!After(r) # <<1, 0>>
           /\ \A s \in D!Records : s = r \/ Before(s, r) => Before(s, D!After(r))
<1> DEFINE e == r[1]
           c == r[2]
           n == Len(SeedsEntries)
           k == SeedsEntries[e].children
<1>1. r = <<e, c>> /\ e \in 1 .. n /\ c \in 0 .. k /\ n \in Nat /\ k \in Nat
  BY RecordPairs DEF D!SeedDataAssumption
<1>2. D!After(r) = IF c < k THEN <<e, c + 1>> ELSE <<e + 1, 0>>
  BY DEF D!After
<1>3. CASE c < k
  <2>1. D!After(r) = <<e, c + 1>> /\ c + 1 \in 0 .. k
    BY <1>1, <1>2, <1>3
  <2>2. D!After(r) \in D!Records
    BY <1>1, <2>1, RecordPairs
  <2>3. ASSUME NEW s \in D!Records, s = r \/ Before(s, r) PROVE Before(s, D!After(r))
    <3>1. s[1] \in Nat /\ s[2] \in Int
      BY RecordPairs DEF D!SeedDataAssumption
    <3>. QED
      BY <1>1, <2>1, <2>3, <3>1 DEF Before
  <2>. QED
    BY <1>1, <2>1, <2>2, <2>3
<1>4. CASE ~ (c < k)
  <2>1. D!After(r) = <<e + 1, 0>> /\ e + 1 # 1
    BY <1>1, <1>2, <1>4
  <2>2. D!After(r) \in D!Records \cup {D!Serving}
    <3>1. CASE e = n
      BY <1>1, <2>1, <3>1 DEF D!Serving
    <3>2. CASE e # n
      <4>1. e + 1 \in 1 .. n
        BY <1>1, <3>2
      <4>2. 0 \in 0 .. SeedsEntries[e + 1].children
        BY <4>1 DEF D!SeedDataAssumption
      <4>. QED
        BY <2>1, <4>1, <4>2, RecordPairs
    <3>. QED
      BY <3>1, <3>2
  <2>4. ASSUME NEW s \in D!Records, s = r \/ Before(s, r) PROVE Before(s, D!After(r))
    <3>1. s[1] \in Nat
      BY RecordPairs DEF D!SeedDataAssumption
    <3>. QED
      BY <1>1, <2>1, <2>4, <3>1 DEF Before
  <2>. QED
    BY <2>1, <2>2, <2>4
<1>. QED
  BY <1>3, <1>4

LEMMA SeedsInitially == ASSUME D!SeedDataAssumption, D!Init PROVE SeedsIInv
<1>1. D!TypeOK
  <2>1. 0 \in 0 .. SeedsMaxCopies /\ 1 \in 1 .. SeedsMaxStarts
    BY DEF D!SeedDataAssumption
  <2>2. seedsCopies \in [D!Records -> 0 .. SeedsMaxCopies]
    BY <2>1 DEF D!Init
  <2>. QED
    BY <2>1, <2>2 DEF D!Init, D!TypeOK
<1>2. seedsPos \notin D!Records
  BY RecordPairs DEF D!Init
<1>. QED
  BY <1>1, <1>2 DEF D!Init, SeedsIInv

LEMMA ListKeeps == ASSUME D!SeedDataAssumption, SeedsIInv, D!List PROVE SeedsIInv'
<1>1. <<1, 0>> \in D!Records /\ D!Serving \notin D!Records
  BY RecordPairs
<1>2. D!TypeOK'
  BY <1>1 DEF D!List, SeedsIInv, D!TypeOK
<1>3. UNCHANGED <<seedsCopies, seedsOwn, seedsEmptied>>
  BY DEF D!List
<1>4. D!Seeded' <=> D!Seeded
  BY <1>3 DEF D!Seeded, D!Stored
<1>5. seedsPos' \in D!Records => ~ D!Seeded /\ seedsPos' = <<1, 0>>
  BY <1>1 DEF D!List
<1>. QED
  BY <1>2, <1>3, <1>4, <1>5 DEF SeedsIInv

LEMMA InsertKeeps == ASSUME D!SeedDataAssumption, SeedsIInv, D!Insert PROVE SeedsIInv'
<1> DEFINE r == seedsPos
<1>1. /\ r \in D!Records /\ seedsPos' = D!After(r)
      /\ seedsCopies' = [seedsCopies EXCEPT ![r] = IF @ < SeedsMaxCopies THEN @ + 1 ELSE @]
      /\ UNCHANGED <<seedsOwn, seedsEmptied, seedsStarts>>
  BY DEF D!Insert
<1>2. seedsCopies \in [D!Records -> 0 .. SeedsMaxCopies] /\ SeedsMaxCopies \in Nat \ {0}
  BY DEF SeedsIInv, D!TypeOK, D!SeedDataAssumption
<1>3. /\ seedsCopies'[r] \in 0 .. SeedsMaxCopies
      /\ seedsCopies'[r] # 0 /\ seedsCopies'[r] <= seedsCopies[r] + 1
      /\ \A s \in D!Records \ {r} : seedsCopies'[s] = seedsCopies[s]
  BY <1>1, <1>2
<1>4. D!TypeOK'
  BY <1>1, <1>2, AfterNext DEF SeedsIInv, D!TypeOK
<1>5. CASE seedsEmptied
  BY <1>1, <1>4, <1>5 DEF SeedsIInv
<1>6. CASE ~ seedsEmptied
  <2>1. seedsCopies[r] = 0
    <3>1. ~ Before(r, r)
      BY <1>1, RecordPairs DEF Before
    <3>. QED
      BY <1>1, <1>6, <3>1 DEF SeedsIInv
  <2>2. \A s \in D!Records : seedsCopies'[s] <= 1
    BY <1>1, <1>3, <1>6, <2>1 DEF SeedsIInv
  <2>3. D!Seeded'
    <3>1. CASE r = <<1, 0>>
      BY <1>2, <1>3, <3>1, RecordPairs DEF D!Seeded, D!Stored
    <3>2. CASE r # <<1, 0>>
      <4>1. seedsOwn \/ D!Stored
        BY <1>1, <1>6, <3>2 DEF SeedsIInv, D!Seeded
      <4>2. D!Stored => D!Stored'
        <5>1. ASSUME NEW m \in D!Marks, seedsCopies[m] > 0 PROVE seedsCopies'[m] > 0
          <6>1. m \in D!Records /\ seedsCopies'[r] > 0
            BY <1>2, <1>3, RecordPairs
          <6>. QED
            BY <1>3, <5>1, <6>1
        <5>. QED
          BY <5>1 DEF D!Stored
      <4>. QED
        BY <1>1, <4>1, <4>2 DEF D!Seeded
    <3>. QED
      BY <3>1, <3>2
  <2>4. \A s \in D!Records : seedsCopies'[s] = 0 \/ Before(s, D!After(r))
    BY <1>1, <1>3, <1>6, AfterNext DEF SeedsIInv
  <2>. QED
    BY <1>1, <1>4, <2>2, <2>3, <2>4 DEF SeedsIInv
<1>. QED
  BY <1>5, <1>6

\* The loader is over, or starts again.
LEMMA StopKeeps ==
    ASSUME D!SeedDataAssumption, SeedsIInv, seedsPos' \in {D!AtList, D!Serving},
           UNCHANGED <<seedsCopies, seedsOwn, seedsEmptied>>, seedsStarts' \in 1 .. SeedsMaxStarts
    PROVE  SeedsIInv'
<1>1. seedsPos' \notin D!Records
  BY RecordPairs
<1>2. D!TypeOK'
  BY DEF SeedsIInv, D!TypeOK
<1>3. D!Seeded' <=> D!Seeded
  BY DEF D!Seeded, D!Stored
<1>. QED
  BY <1>1, <1>2, <1>3 DEF SeedsIInv

LEMMA ClientDeletesKeeps ==
    ASSUME D!SeedDataAssumption, SeedsIInv, NEW r \in D!Records, D!ClientDeletes(r)
    PROVE  SeedsIInv'
<1>1. /\ seedsPos = D!Serving /\ seedsCopies[r] > 0
      /\ seedsCopies' = [seedsCopies EXCEPT ![r] = @ - 1]
      /\ UNCHANGED <<seedsOwn, seedsPos, seedsStarts>>
  BY DEF D!ClientDeletes
<1>2. seedsCopies \in [D!Records -> 0 .. SeedsMaxCopies] /\ SeedsMaxCopies \in Nat \ {0}
  BY DEF SeedsIInv, D!TypeOK, D!SeedDataAssumption
<1>3. /\ seedsCopies'[r] = seedsCopies[r] - 1 /\ seedsCopies[r] \in 0 .. SeedsMaxCopies
      /\ \A s \in D!Records \ {r} : seedsCopies'[s] = seedsCopies[s]
  BY <1>1, <1>2
<1>4. seedsEmptied' \in BOOLEAN
  BY DEF D!ClientDeletes, SeedsIInv, D!TypeOK
<1>5. D!TypeOK'
  <2>1. seedsCopies' \in [D!Records -> 0 .. SeedsMaxCopies]
    <3>1. seedsCopies[r] - 1 \in 0 .. SeedsMaxCopies
      BY <1>1, <1>2, <1>3
    <3>. QED
      BY <1>1, <1>2, <3>1
  <2>. QED
    BY <1>1, <1>4, <2>1 DEF SeedsIInv, D!TypeOK
<1>6. seedsPos' \notin D!Records
  BY <1>1, RecordPairs
<1>7. CASE ~ seedsEmptied'
  <2>1. /\ ~ seedsEmptied
        /\ r \notin D!Marks \/ seedsOwn \/ \E m \in D!Marks : seedsCopies'[m] # 0
    BY <1>7 DEF D!ClientDeletes, SeedsIInv, D!TypeOK
  <2>2. \A s \in D!Records : seedsCopies'[s] <= 1
    BY <1>2, <1>3, <2>1 DEF SeedsIInv
  <2>3. D!Seeded
    <3>1. ~ \A s \in D!Records : seedsCopies[s] = 0
      BY <1>1
    <3>. QED
      BY <2>1, <3>1 DEF SeedsIInv
  <2>4. D!Seeded'
    <3>1. CASE seedsOwn
      BY <1>1, <3>1 DEF D!Seeded
    <3>2. CASE ~ seedsOwn /\ r \in D!Marks
      <4>1. PICK m \in D!Marks : seedsCopies'[m] # 0
        BY <2>1, <3>2
      <4>2. m \in D!Records /\ seedsCopies'[m] \in Nat
        BY <1>5, RecordPairs DEF D!TypeOK
      <4>. QED
        BY <4>1, <4>2 DEF D!Seeded, D!Stored
    <3>3. CASE ~ seedsOwn /\ r \notin D!Marks
      BY <1>3, <2>3, <3>3, RecordPairs DEF D!Seeded, D!Stored
    <3>. QED
      BY <3>1, <3>2, <3>3
  <2>. QED
    BY <1>5, <1>6, <2>2, <2>4 DEF SeedsIInv
<1>. QED
  BY <1>4, <1>5, <1>7 DEF SeedsIInv

LEMMA ClientWritesKeeps ==
    ASSUME D!SeedDataAssumption, SeedsIInv, D!ClientWrites
    PROVE  SeedsIInv'
<1>1. /\ seedsPos = D!Serving /\ seedsOwn' = ~ seedsOwn
      /\ seedsEmptied' = (seedsEmptied \/ (seedsOwn /\ ~ D!Stored))
      /\ UNCHANGED <<seedsCopies, seedsPos, seedsStarts>>
  BY DEF D!ClientWrites
<1>2. seedsPos' \notin D!Records
  BY <1>1, RecordPairs
<1>3. D!TypeOK'
  BY <1>1 DEF SeedsIInv, D!TypeOK
<1>4. D!Stored' <=> D!Stored
  BY <1>1 DEF D!Stored
<1>5. CASE ~ seedsEmptied'
  <2>1. ~ seedsEmptied /\ (seedsOwn => D!Stored) /\ seedsOwn \in BOOLEAN
    BY <1>1, <1>5 DEF SeedsIInv, D!TypeOK
  <2>2. D!Seeded'
    BY <1>1, <1>4, <2>1 DEF D!Seeded
  <2>. QED
    BY <1>1, <1>2, <1>3, <2>1, <2>2 DEF SeedsIInv
<1>. QED
  BY <1>3, <1>5 DEF SeedsIInv, D!TypeOK

LEMMA SeedsInductive ==
    ASSUME D!SeedDataAssumption, SeedsIInv, [D!Next]_(D!vars)
    PROVE  SeedsIInv'
<1>1. CASE UNCHANGED D!vars
  <2>1. UNCHANGED <<seedsCopies, seedsOwn, seedsPos, seedsEmptied, seedsStarts>>
    BY <1>1 DEF D!vars
  <2>2. D!TypeOK' /\ (D!Seeded' <=> D!Seeded)
    BY <2>1 DEF SeedsIInv, D!TypeOK, D!Seeded, D!Stored
  <2>. QED
    BY <2>1, <2>2 DEF SeedsIInv
<1>2. CASE D!Fail \/ D!Crash
  BY <1>2, StopKeeps
  DEF D!Fail, D!Crash, SeedsIInv, D!TypeOK, D!SeedDataAssumption, D!Serving, D!AtList
<1>. QED
  BY <1>1, <1>2, ListKeeps, InsertKeeps, ClientDeletesKeeps, ClientWritesKeeps DEF D!Next

LEMMA SeedsInvariant == Spec => [](part = "seeds" => SeedsIInv)
<1> DEFINE Runs == part = "seeds" => SeedsIInv
<1>1. Init => Runs
  BY PartStarts, SeedsInitially, ServicesAssumption
<1>2. Runs /\ [Next]_allVars => Runs'
  BY PartSteps, SeedsInductive, ServicesAssumption
<1>. QED
  BY <1>1, <1>2, PTL DEF Spec

\* The seed is never stored twice, whichever inserts fail and however often the
\* process dies and starts, unless clients emptied the first entity
\* (SetupBizDefTestData).
THEOREM SeededOnce == Spec => []SeededAtMostOnce
<1>1. (part = "seeds" => SeedsIInv) => SeededAtMostOnce
  BY DEF SeedsIInv, SeededAtMostOnce, D!SeededAtMostOnce
<1>. QED
  BY <1>1, SeedsInvariant, PTL

-----------------------------------------------------------------------------
(* Messages *)

SendState == [pc : {"idle", "next", "log", "post", "get", "save", "ended"},
              left : SUBSET MessagesChannels, to : MessagesChannels \cup {None},
              status : M!Status \cup {None}]

MessagesTypes ==
    /\ messagesLog \in [M!Ids -> M!Status \cup {None}]
    /\ messagesAccepted \in [M!Ids -> 0 .. 1]
    /\ messagesSend \in [MessagesSenders -> SendState]
    /\ messagesInbound \in [pc : {"idle", "upload", "asset", "log"}, n : 0 .. MessagesMaxInbound,
                            media : BOOLEAN]
    /\ messagesInbound.pc # "idle" => messagesInbound.n # 0
    /\ messagesFiles \cup messagesRecorded \subseteq 1 .. MessagesMaxInbound
    /\ messagesFaults \in 0 .. MessagesMaxFaults
    /\ messagesSpoiled \subseteq MessagesSenders \X (MessagesChannels \cup {None})

\* The status that a number of messages taken calls for.
Truth(n) == IF n = 1 THEN "delivered" ELSE "failed"

\* What send s has done on channel c: nothing before its turn, one post at most
\* while it lasts, of which it then knows the outcome.
Sending(s, c) ==
    /\ messagesSend[s].to = c => c \notin messagesSend[s].left
    /\ \/ messagesSend[s].pc = "idle"
       \/ c \in messagesSend[s].left
       \/ messagesSend[s].to = c /\ messagesSend[s].pc = "log"
       => messagesLog[<<s, c>>] = None /\ messagesAccepted[<<s, c>>] = 0
    /\ messagesSend[s].to = c /\ messagesSend[s].pc = "post" => messagesAccepted[<<s, c>>] = 0
    /\ <<s, c>> \notin messagesSpoiled =>
         /\ messagesSend[s].to = c /\ messagesSend[s].pc \in {"get", "save"} =>
              messagesSend[s].status = Truth(messagesAccepted[<<s, c>>])
         /\ messagesLog[<<s, c>>] # None =>
              \/ messagesLog[<<s, c>>] = Truth(messagesAccepted[<<s, c>>])
              \/ messagesSend[s].to = c /\ messagesSend[s].pc \in {"post", "get", "save"}

\* A send under way has a channel in hand, and a post that ended a status.
InHand(s) ==
    /\ messagesSend[s].pc \in {"log", "post", "get", "save"} => messagesSend[s].to # None
    /\ messagesSend[s].pc \in {"get", "save"} => messagesSend[s].status # None

MessagesIInv ==
    /\ MessagesTypes
    /\ \A s \in MessagesSenders : InHand(s) /\ \A c \in MessagesChannels : Sending(s, c)

LEMMA MessagesInitially == ASSUME M!MessagingAssumption, M!Init PROVE MessagesIInv
<1>1. M!Idle \in SendState
  BY DEF M!Idle, SendState
<1>2. MessagesTypes
  BY <1>1 DEF M!Init, MessagesTypes, M!MessagingAssumption
<1>3. ASSUME NEW s \in MessagesSenders, NEW c \in MessagesChannels PROVE Sending(s, c)
  BY DEF M!Init, M!Idle, M!MessagingAssumption, Sending, M!Ids
<1>4. ASSUME NEW s \in MessagesSenders PROVE InHand(s)
  BY DEF M!Init, M!Idle, InHand
<1>. QED
  BY <1>2, <1>3, <1>4 DEF MessagesIInv

\* A step of one send, about the channel it has in hand if it writes at all:
\* what is left to show is what the new state of that send says.
LEMMA OneSends ==
    ASSUME MessagesIInv, MessagesTypes', NEW s \in MessagesSenders, NEW r,
           messagesSend' = [messagesSend EXCEPT ![s] = r],
           \A i \in M!Ids : i = M!Id(s) \/ ( messagesLog'[i] = messagesLog[i]
                                           /\ messagesAccepted'[i] = messagesAccepted[i]),
           messagesSpoiled \subseteq messagesSpoiled',
           InHand(s)', \A c \in MessagesChannels : Sending(s, c)'
    PROVE  MessagesIInv'
<1>1. ASSUME NEW t \in MessagesSenders, t # s, NEW c \in MessagesChannels
      PROVE  (InHand(t) /\ Sending(t, c))'
  <2>1. messagesSend'[t] = messagesSend[t]
    BY <1>1 DEF MessagesIInv, MessagesTypes
  <2>2. <<t, c>> \in M!Ids /\ <<t, c>> # M!Id(s)
    BY <1>1 DEF M!Ids, M!Id
  <2>. QED
    BY <1>1, <2>1, <2>2 DEF MessagesIInv, InHand, Sending
<1>2. ASSUME NEW t \in MessagesSenders, t # s PROVE InHand(t)'
  <2>1. messagesSend'[t] = messagesSend[t]
    BY <1>2 DEF MessagesIInv, MessagesTypes
  <2>. QED
    BY <2>1 DEF MessagesIInv, InHand
<1>. QED
  BY <1>1, <1>2 DEF MessagesIInv

\* What is known of a send.
LEMMA SendNow ==
    ASSUME MessagesIInv, NEW s \in MessagesSenders
    PROVE  /\ messagesSend[s] \in SendState /\ InHand(s)
           /\ \A c \in MessagesChannels : Sending(s, c) /\ <<s, c>> \in M!Ids
BY DEF MessagesIInv, MessagesTypes, M!Ids

\* A call that fails or does not, in a send.
LEMMA SendFaults ==
    ASSUME M!MessagingAssumption, MessagesTypes, NEW s \in MessagesSenders,
           M!NoFault \/ M!FaultIn(s)
    PROVE  /\ messagesFaults' \in 0 .. MessagesMaxFaults
           /\ messagesSpoiled \subseteq messagesSpoiled'
           /\ messagesSpoiled' \subseteq MessagesSenders \X (MessagesChannels \cup {None})
           /\ \A i : i \in messagesSpoiled' => i \in messagesSpoiled \/ i = M!Id(s)
<1>1. CASE M!NoFault
  BY <1>1 DEF M!NoFault, MessagesTypes
<1>2. CASE M!FaultIn(s)
  <2>1. messagesFaults' \in 0 .. MessagesMaxFaults /\ messagesSpoiled' = messagesSpoiled \cup
      {M!Id(s)}
    BY <1>2 DEF M!FaultIn, M!Fault, MessagesTypes, M!MessagingAssumption
  <2>2. M!Id(s) \in MessagesSenders \X (MessagesChannels \cup {None})
    BY DEF M!Id, MessagesTypes, SendState
  <2>. QED
    BY <2>1, <2>2 DEF MessagesTypes
<1>. QED
  BY <1>1, <1>2

LEMMA SendNotificationKeeps ==
    ASSUME M!MessagingAssumption, MessagesIInv, NEW s \in MessagesSenders, M!SendNotification(s)
    PROVE  MessagesIInv'
<1> DEFINE r == [M!Idle EXCEPT !.pc = "next",
                               !.left = MessagesVerified \cap MessagesPreferred]
<1>1. /\ messagesSend' = [messagesSend EXCEPT ![s] = r] /\ messagesSend[s].pc = "idle"
      /\ UNCHANGED <<messagesLog, messagesAccepted, messagesSpoiled>>
  BY DEF M!SendNotification, M!NoFault
<1>2. /\ r \in SendState /\ r.pc = "next" /\ r.to = None /\ None \notin MessagesChannels
  BY DEF M!Idle, SendState, M!MessagingAssumption
<1> HIDE DEF r
<1>3. messagesSend'[s] = r
  BY <1>1 DEF MessagesIInv, MessagesTypes
<1>4. MessagesTypes'
  BY <1>1, <1>2 DEF M!SendNotification, M!NoFault, M!inVars, MessagesIInv, MessagesTypes
<1>5. \A c \in MessagesChannels : Sending(s, c)'
  BY <1>1, <1>2, <1>3, SendNow DEF Sending
<1>6. InHand(s)'
  BY <1>2, <1>3 DEF InHand
<1>. QED
  BY <1>1, <1>4, <1>5, <1>6, OneSends

LEMMA NextChannelKeeps ==
    ASSUME M!MessagingAssumption, MessagesIInv, NEW s \in MessagesSenders, M!NextChannel(s)
    PROVE  MessagesIInv'
<1>1. /\ messagesSend[s].pc = "next" /\ messagesSend[s] \in SendState
      /\ UNCHANGED <<messagesLog, messagesAccepted, messagesSpoiled>>
  BY SendNow DEF M!NextChannel, M!NoFault
<1>2. CASE messagesSend' = [messagesSend EXCEPT ![s].pc = "ended"]
  <2> DEFINE r == [messagesSend[s] EXCEPT !.pc = "ended"]
  <2>1. /\ r \in SendState /\ r.pc = "ended" /\ r.to = messagesSend[s].to
        /\ r.left = messagesSend[s].left
    BY <1>1 DEF SendState
  <2>2. messagesSend' = [messagesSend EXCEPT ![s] = r]
    BY <1>2
  <2> HIDE DEF r
  <2>3. messagesSend'[s] = r
    BY <2>2 DEF MessagesIInv, MessagesTypes
  <2>4. MessagesTypes'
    BY <1>1, <2>1, <2>2 DEF M!NextChannel, M!NoFault, M!inVars, MessagesIInv, MessagesTypes
  <2>5. \A c \in MessagesChannels : Sending(s, c)'
    BY <1>1, <2>1, <2>3, SendNow DEF Sending
  <2>6. InHand(s)'
    BY <2>1, <2>3 DEF InHand
  <2>. QED
    BY <1>1, <2>2, <2>4, <2>5, <2>6, OneSends
<1>3. ASSUME NEW c \in messagesSend[s].left,
             messagesSend' = [messagesSend EXCEPT ![s].pc = "log", ![s].to = c,
                                                  ![s].left = @ \ {c}]
      PROVE  MessagesIInv'
  <2> DEFINE r == [messagesSend[s] EXCEPT !.pc = "log", !.to = c, !.left = @ \ {c}]
  <2>1. c \in MessagesChannels /\ c # None
    BY <1>1 DEF SendState, M!MessagingAssumption
  <2>2. /\ r \in SendState /\ r.pc = "log" /\ r.to = c /\ r.left = messagesSend[s].left \ {c}
    BY <1>1, <2>1 DEF SendState
  <2>3. messagesSend' = [messagesSend EXCEPT ![s] = r]
    BY <1>3
  <2> HIDE DEF r
  <2>4. messagesSend'[s] = r
    BY <2>3 DEF MessagesIInv, MessagesTypes
  <2>5. MessagesTypes'
    BY <1>1, <2>2, <2>3 DEF M!NextChannel, M!NoFault, M!inVars, MessagesIInv, MessagesTypes
  <2>6. \A d \in MessagesChannels : Sending(s, d)'
    BY <1>1, <1>3, <2>2, <2>4, SendNow DEF Sending
  <2>7. InHand(s)'
    BY <2>1, <2>2, <2>4 DEF InHand
  <2>. QED
    BY <1>1, <2>3, <2>5, <2>6, <2>7, OneSends
<1>. QED
  BY <1>2, <1>3 DEF M!NextChannel

LEMMA LogPendingKeeps ==
    ASSUME M!MessagingAssumption, MessagesIInv, NEW s \in MessagesSenders, M!LogPending(s)
    PROVE  MessagesIInv'
<1> DEFINE r == [messagesSend[s] EXCEPT !.pc = "post"]
           c == messagesSend[s].to
<1>1. /\ messagesSend[s].pc = "log" /\ messagesSend[s] \in SendState
      /\ messagesSend' = [messagesSend EXCEPT ![s] = r] /\ UNCHANGED messagesAccepted
      /\ M!NoFault \/ M!FaultIn(s)
      /\ messagesLog' = [messagesLog EXCEPT ![M!Id(s)] = "pending"] \/ UNCHANGED messagesLog
  BY SendNow DEF M!LogPending
<1>2. c \in MessagesChannels /\ M!Id(s) = <<s, c>> /\ <<s, c>> \in M!Ids
  BY <1>1, SendNow DEF InHand, SendState, M!Id, M!Ids
<1>3. r \in SendState /\ r.pc = "post" /\ r.to = c /\ r.left = messagesSend[s].left
  BY <1>1 DEF SendState
<1> HIDE DEF r, c
<1>4. messagesSend'[s] = r
  BY <1>1 DEF MessagesIInv, MessagesTypes
<1>5. \A i \in M!Ids : i = <<s, c>> \/ messagesLog'[i] = messagesLog[i]
  BY <1>1, <1>2 DEF MessagesIInv, MessagesTypes
<1>6. MessagesTypes'
  <2>1. messagesLog' \in [M!Ids -> M!Status \cup {None}]
    BY <1>1, <1>2 DEF MessagesIInv, MessagesTypes, M!Status
  <2>. QED
    BY <1>1, <1>3, <2>1, SendFaults DEF M!LogPending, M!inVars, MessagesIInv, MessagesTypes
<1>7. ASSUME NEW d \in MessagesChannels PROVE Sending(s, d)'
  <2>1. messagesSpoiled \subseteq messagesSpoiled'
    BY <1>1, SendFaults DEF MessagesIInv
  <2>2. CASE d = c
    BY <1>1, <1>3, <1>4, <2>2, SendNow DEF Sending, c
  <2>3. CASE d # c
    <3>1. messagesLog'[<<s, d>>] = messagesLog[<<s, d>>]
      BY <1>5, <2>3, SendNow
    <3>. QED
      BY <1>1, <1>3, <1>4, <2>1, <2>3, <3>1, SendNow DEF Sending, c
  <2>. QED
    BY <2>2, <2>3
<1>8. InHand(s)'
  BY <1>1, <1>3, <1>4, SendNow DEF InHand, c
<1>9. messagesSpoiled \subseteq messagesSpoiled'
  BY <1>1, SendFaults DEF MessagesIInv
<1>. QED
  BY <1>1, <1>2, <1>5, <1>6, <1>7, <1>8, <1>9, OneSends

LEMMA PostToGatewayKeeps ==
    ASSUME M!MessagingAssumption, MessagesIInv, NEW s \in MessagesSenders, M!PostToGateway(s)
    PROVE  MessagesIInv'
<1> DEFINE c == messagesSend[s].to
           r(status) == [messagesSend[s] EXCEPT !.pc = "get", !.status = status]
<1>1. /\ messagesSend[s].pc = "post" /\ messagesSend[s] \in SendState
      /\ UNCHANGED messagesLog /\ (M!NoFault \/ M!FaultIn(s))
  BY SendNow DEF M!PostToGateway
<1>2. c \in MessagesChannels /\ M!Id(s) = <<s, c>> /\ <<s, c>> \in M!Ids
  BY <1>1, SendNow DEF InHand, SendState, M!Id, M!Ids
<1>3. messagesAccepted[<<s, c>>] = 0 /\ messagesAccepted \in [M!Ids -> 0 .. 1]
  BY <1>1, <1>2, SendNow DEF Sending, MessagesIInv, MessagesTypes
<1> DEFINE Posted(status, n) ==
             /\ messagesSend' = [messagesSend EXCEPT ![s].pc = "get", ![s].status = status]
             /\ messagesAccepted' = [messagesAccepted EXCEPT ![<<s, c>>] = n]
             /\ status = Truth(n) \/ <<s, c>> \in messagesSpoiled'
<1>4. PICK status \in {"failed", "delivered"}, n \in {0, 1} : Posted(status, n)
  <2>1. ASSUME UNCHANGED messagesAccepted
        PROVE  messagesAccepted' = [messagesAccepted EXCEPT ![<<s, c>>] = 0]
    BY <1>2, <1>3, <2>1
  <2>2. ASSUME NEW n \in {0, 1},
               messagesAccepted' = [messagesAccepted EXCEPT ![M!Id(s)] = @ + n]
        PROVE  messagesAccepted' = [messagesAccepted EXCEPT ![<<s, c>>] = n]
    <3>1. messagesAccepted[<<s, c>>] + n = n
      BY <1>3
    <3>. QED
      BY <1>2, <2>2, <3>1, Zenon
  <2>3. CASE M!Settle(s, "failed") /\ UNCHANGED messagesAccepted
    <3>1. Posted("failed", 0)
      BY <2>1, <2>3 DEF M!Settle, Truth
    <3>. QED
      BY <3>1
  <2>4. CASE /\ M!Settle(s, M!Verdict(200))
             /\ messagesAccepted' = [messagesAccepted EXCEPT ![M!Id(s)] = @ + 1]
    <3>1. M!Verdict(200) = "delivered"
      BY DEF M!Verdict
    <3>2. Posted("delivered", 1)
      BY <2>2, <2>4, <3>1 DEF M!Settle, Truth
    <3>. QED
      BY <3>2
  <2>5. CASE M!Settle(s, M!Verdict(500)) /\ UNCHANGED messagesAccepted
    <3>1. M!Verdict(500) = "failed"
      BY DEF M!Verdict
    <3>. QED
      BY <2>3, <2>5, <3>1
  <2>6. ASSUME M!FaultIn(s), M!Settle(s, "failed"), NEW n \in {0, 1},
               messagesAccepted' = [messagesAccepted EXCEPT ![M!Id(s)] = @ + n]
        PROVE  Posted("failed", n)
    BY <1>2, <2>2, <2>6 DEF M!Settle, M!FaultIn
  <2> HIDE DEF Posted
  <2>. QED
    BY <2>3, <2>4, <2>5, <2>6 DEF M!PostToGateway
<1>5. /\ r(status) \in SendState /\ r(status).pc = "get" /\ r(status).to = c
      /\ r(status).left = messagesSend[s].left /\ r(status).status = status /\ status # None
  BY <1>1, <1>4 DEF SendState, M!Status, M!MessagingAssumption
<1>6. messagesSend' = [messagesSend EXCEPT ![s] = r(status)]
  BY <1>4
<1> HIDE DEF r, c
<1>7. messagesSend'[s] = r(status)
  BY <1>6 DEF MessagesIInv, MessagesTypes
<1>8. /\ messagesAccepted'[<<s, c>>] = n
      /\ \A i \in M!Ids : i = <<s, c>> \/ messagesAccepted'[i] = messagesAccepted[i]
      /\ messagesAccepted' \in [M!Ids -> 0 .. 1]
  BY <1>2, <1>3, <1>4
<1>9. messagesSpoiled \subseteq messagesSpoiled'
  BY <1>1, SendFaults DEF MessagesIInv
<1>10. MessagesTypes'
  BY <1>1, <1>5, <1>6, <1>8, SendFaults DEF M!PostToGateway, M!inVars, MessagesIInv, MessagesTypes
<1>11. ASSUME NEW d \in MessagesChannels PROVE Sending(s, d)'
  <2>1. CASE d = c
    BY <1>1, <1>2, <1>4, <1>5, <1>7, <1>8, <1>9, <2>1, SendNow DEF Sending, c
  <2>2. CASE d # c
    <3>1. messagesAccepted'[<<s, d>>] = messagesAccepted[<<s, d>>]
      BY <1>8, <2>2, SendNow
    <3>. QED
      BY <1>1, <1>5, <1>7, <1>9, <2>2, <3>1, SendNow DEF Sending, c
  <2>. QED
    BY <2>1, <2>2
<1>12. InHand(s)'
  BY <1>2, <1>5, <1>7, SendNow DEF InHand, M!MessagingAssumption
<1>. QED
  BY <1>1, <1>2, <1>6, <1>8, <1>9, <1>10, <1>11, <1>12, OneSends

\* The Get of an update, and the end of one that did not find the interaction.
LEMMA StatusGetKeeps ==
    ASSUME M!MessagingAssumption, MessagesIInv, NEW s \in MessagesSenders, M!StatusGet(s)
    PROVE  MessagesIInv'
<1> DEFINE c == messagesSend[s].to
           r(pc) == [messagesSend[s] EXCEPT !.pc = pc]
<1>1. /\ messagesSend[s].pc = "get" /\ messagesSend[s] \in SendState
      /\ UNCHANGED <<messagesLog, messagesAccepted>> /\ (M!NoFault \/ M!FaultIn(s))
  BY SendNow DEF M!StatusGet
<1>2. c \in MessagesChannels /\ M!Id(s) = <<s, c>> /\ <<s, c>> \in M!Ids
  BY <1>1, SendNow DEF InHand, SendState, M!Id, M!Ids
<1>3. PICK pc \in {"next", "save"} :
        /\ messagesSend' = [messagesSend EXCEPT ![s].pc = pc]
        /\ pc = "next" => messagesLog[<<s, c>>] = None \/ <<s, c>> \in messagesSpoiled'
  BY <1>2 DEF M!StatusGet, M!FaultIn
<1>4. /\ r(pc) \in SendState /\ r(pc).pc = pc /\ r(pc).to = c
      /\ r(pc).left = messagesSend[s].left /\ r(pc).status = messagesSend[s].status
  BY <1>1 DEF SendState
<1>5. messagesSend' = [messagesSend EXCEPT ![s] = r(pc)]
  BY <1>3
<1> HIDE DEF r, c
<1>6. messagesSend'[s] = r(pc)
  BY <1>5 DEF MessagesIInv, MessagesTypes
<1>7. messagesSpoiled \subseteq messagesSpoiled'
  BY <1>1, SendFaults DEF MessagesIInv
<1>8. MessagesTypes'
  BY <1>1, <1>4, <1>5, SendFaults DEF M!StatusGet, M!inVars, MessagesIInv, MessagesTypes
<1>9. ASSUME NEW d \in MessagesChannels PROVE Sending(s, d)'
  <2>1. CASE d = c
    BY <1>1, <1>3, <1>4, <1>6, <1>7, <2>1, SendNow DEF Sending, c
  <2>2. CASE d # c
    BY <1>1, <1>4, <1>6, <1>7, <2>2, SendNow DEF Sending, c
  <2>. QED
    BY <2>1, <2>2
<1>10. InHand(s)'
  BY <1>1, <1>4, <1>6, SendNow DEF InHand, c
<1>. QED
  BY <1>1, <1>5, <1>7, <1>8, <1>9, <1>10, OneSends

LEMMA StatusSaveKeeps ==
    ASSUME M!MessagingAssumption, MessagesIInv, NEW s \in MessagesSenders, M!StatusSave(s)
    PROVE  MessagesIInv'
<1> DEFINE c == messagesSend[s].to
           r == [messagesSend[s] EXCEPT !.pc = "next"]
<1>1. /\ messagesSend[s].pc = "save" /\ messagesSend[s] \in SendState
      /\ messagesSend' = [messagesSend EXCEPT ![s] = r] /\ UNCHANGED messagesAccepted
      /\ M!NoFault \/ M!FaultIn(s)
      /\ \/ messagesLog' = [messagesLog EXCEPT ![M!Id(s)] = messagesSend[s].status]
         \/ UNCHANGED messagesLog /\ M!Id(s) \in messagesSpoiled'
  BY SendNow DEF M!StatusSave, M!FaultIn
<1>2. c \in MessagesChannels /\ M!Id(s) = <<s, c>> /\ <<s, c>> \in M!Ids
  BY <1>1, SendNow DEF InHand, SendState, M!Id, M!Ids
<1>3. r \in SendState /\ r.pc = "next" /\ r.to = c /\ r.left = messagesSend[s].left
  BY <1>1 DEF SendState
<1>4. messagesSend[s].status \in M!Status
  BY <1>1, SendNow DEF InHand, SendState
<1> HIDE DEF r, c
<1>5. messagesSend'[s] = r
  BY <1>1 DEF MessagesIInv, MessagesTypes
<1>6. /\ \A i \in M!Ids : i = <<s, c>> \/ messagesLog'[i] = messagesLog[i]
      /\ messagesLog'[<<s, c>>] = messagesSend[s].status \/ <<s, c>> \in messagesSpoiled'
      /\ messagesLog' \in [M!Ids -> M!Status \cup {None}]
  BY <1>1, <1>2, <1>4 DEF MessagesIInv, MessagesTypes
<1>7. messagesSpoiled \subseteq messagesSpoiled'
  BY <1>1, SendFaults DEF MessagesIInv
<1>8. MessagesTypes'
  BY <1>1, <1>3, <1>6, SendFaults DEF M!StatusSave, M!inVars, MessagesIInv, MessagesTypes
<1>9. ASSUME NEW d \in MessagesChannels PROVE Sending(s, d)'
  <2>1. CASE d = c
    BY <1>1, <1>3, <1>5, <1>6, <1>7, <2>1, SendNow DEF Sending, c
  <2>2. CASE d # c
    <3>1. messagesLog'[<<s, d>>] = messagesLog[<<s, d>>]
      BY <1>6, <2>2, SendNow
    <3>. QED
      BY <1>1, <1>3, <1>5, <1>7, <2>2, <3>1, SendNow DEF Sending, c
  <2>. QED
    BY <2>1, <2>2
<1>10. InHand(s)'
  BY <1>3, <1>5 DEF InHand
<1>. QED
  BY <1>1, <1>2, <1>6, <1>7, <1>8, <1>9, <1>10, OneSends

\* A step that leaves the sends alone.
LEMMA NoneSends ==
    ASSUME MessagesIInv, MessagesTypes',
           UNCHANGED <<messagesLog, messagesAccepted, messagesSend, messagesSpoiled>>
    PROVE  MessagesIInv'
BY DEF MessagesIInv, InHand, Sending

LEMMA InboundKeeps ==
    ASSUME M!MessagingAssumption, MessagesIInv,
           \/ \E media \in BOOLEAN : M!Webhook(media)
           \/ M!UploadMedia \/ M!SaveAsset \/ M!LogInbound
    PROVE  MessagesIInv'
<1>1. UNCHANGED M!outVars
  BY DEF M!Webhook, M!UploadMedia, M!SaveAsset, M!LogInbound
<1>2. /\ messagesInbound.n \in 0 .. MessagesMaxInbound
      /\ messagesInbound.pc # "idle" => messagesInbound.n \in 1 .. MessagesMaxInbound
      /\ messagesFaults \in 0 .. MessagesMaxFaults
  BY DEF MessagesIInv, MessagesTypes, M!MessagingAssumption
<1>3. messagesFaults' \in 0 .. MessagesMaxFaults
  BY <1>2 DEF M!Webhook, M!UploadMedia, M!SaveAsset, M!LogInbound, M!Fault, M!MessagingAssumption
<1> DEFINE InboundTypes ==
             /\ messagesInbound \in [pc : {"idle", "upload", "asset", "log"},
                                     n : 0 .. MessagesMaxInbound, media : BOOLEAN]
             /\ messagesInbound.pc # "idle" => messagesInbound.n # 0
             /\ messagesFiles \cup messagesRecorded \subseteq 1 .. MessagesMaxInbound
<1>4. InboundTypes'
  <2>1. ASSUME NEW media \in BOOLEAN, M!Webhook(media) PROVE InboundTypes'
    BY <1>2, <2>1 DEF M!Webhook, MessagesIInv, MessagesTypes, M!MessagingAssumption
  <2>2. CASE M!UploadMedia
    BY <1>2, <2>2 DEF M!UploadMedia, MessagesIInv, MessagesTypes
  <2>3. CASE M!SaveAsset
    BY <1>2, <2>3 DEF M!SaveAsset, MessagesIInv, MessagesTypes
  <2>4. CASE M!LogInbound
    BY <1>2, <2>4 DEF M!LogInbound, MessagesIInv, MessagesTypes
  <2>. QED
    BY <2>1, <2>2, <2>3, <2>4
<1>5. UNCHANGED <<messagesLog, messagesAccepted, messagesSend, messagesSpoiled>>
  BY <1>1 DEF M!outVars
<1>6. MessagesTypes'
  BY <1>3, <1>4, <1>5 DEF MessagesIInv, MessagesTypes
<1>. QED
  BY <1>5, <1>6, NoneSends

LEMMA MessagesCrashKeeps ==
    ASSUME M!MessagingAssumption, MessagesIInv, M!Crash
    PROVE  MessagesIInv'
<1> DEFINE over == [M!Idle EXCEPT !.pc = "ended"]
<1>1. /\ M!Idle \in SendState /\ M!Idle.pc = "idle" /\ M!Idle.to = None /\ M!Idle.left = {}
      /\ over \in SendState /\ over.pc = "ended" /\ over.to = None /\ over.left = {}
      /\ None \notin MessagesChannels
  BY DEF M!Idle, SendState, M!MessagingAssumption
<1>2. /\ messagesSend' = [s \in MessagesSenders |->
                            IF messagesSend[s].pc = "idle" THEN M!Idle ELSE over]
      /\ messagesSpoiled' = messagesSpoiled
           \cup {M!Id(s) : s \in {t \in MessagesSenders : messagesSend[t].to # None}}
      /\ messagesInbound' = [messagesInbound EXCEPT !.pc = "idle"]
      /\ UNCHANGED <<messagesLog, messagesAccepted, messagesFiles, messagesRecorded>>
      /\ M!Fault
  BY Zenon DEF M!Crash
<1> HIDE DEF over
<1>3. MessagesTypes'
  <2>1. messagesSend' \in [MessagesSenders -> SendState]
    BY <1>1, <1>2
  <2>2. messagesFaults' \in 0 .. MessagesMaxFaults
    BY <1>2 DEF M!Fault, MessagesIInv, MessagesTypes, M!MessagingAssumption
  <2>3. messagesSpoiled' \subseteq MessagesSenders \X (MessagesChannels \cup {None})
    BY <1>2 DEF M!Id, MessagesIInv, MessagesTypes, SendState
  <2>4. /\ messagesInbound' \in [pc : {"idle", "upload", "asset", "log"},
                                 n : 0 .. MessagesMaxInbound, media : BOOLEAN]
        /\ messagesInbound'.pc = "idle"
    BY <1>2 DEF MessagesIInv, MessagesTypes
  <2>. QED
    BY <1>2, <2>1, <2>2, <2>3, <2>4 DEF MessagesIInv, MessagesTypes
<1>4. ASSUME NEW s \in MessagesSenders PROVE InHand(s)'
  BY <1>1, <1>2 DEF InHand
<1>5. ASSUME NEW s \in MessagesSenders, NEW c \in MessagesChannels PROVE Sending(s, c)'
  <2>1. messagesSend'[s] = IF messagesSend[s].pc = "idle" THEN M!Idle ELSE over
    BY <1>2
  <2>2. messagesSend[s].to = c => <<s, c>> \in messagesSpoiled'
    BY <1>1, <1>2 DEF M!Id
  <2>3. messagesSpoiled \subseteq messagesSpoiled'
    BY <1>2
  <2>. QED
    BY <1>1, <1>2, <2>1, <2>2, <2>3, SendNow DEF Sending
<1>. QED
  BY <1>3, <1>4, <1>5 DEF MessagesIInv

LEMMA MessagesInductive ==
    ASSUME M!MessagingAssumption, MessagesIInv, [M!Next]_(M!vars)
    PROVE  MessagesIInv'
<1>1. CASE UNCHANGED M!vars
  <2>1. MessagesTypes'
    BY <1>1 DEF M!vars, MessagesIInv, MessagesTypes
  <2>. QED
    BY <1>1, <2>1, NoneSends DEF M!vars
<1>2. ASSUME NEW s \in MessagesSenders, M!SendNotification(s) \/ M!SendStep(s)
      PROVE  MessagesIInv'
  BY <1>2, SendNotificationKeeps, NextChannelKeeps, LogPendingKeeps, PostToGatewayKeeps,
     StatusGetKeeps, StatusSaveKeeps DEF M!SendStep
<1>. QED
  BY <1>1, <1>2, InboundKeeps, MessagesCrashKeeps DEF M!Next

LEMMA MessagesInvariant == Spec => [](part = "messages" => MessagesIInv)
<1> DEFINE Runs == part = "messages" => MessagesIInv
<1>1. Init => Runs
  BY PartStarts, MessagesInitially, ServicesAssumption
<1>2. Runs /\ [Next]_allVars => Runs'
  BY PartSteps, MessagesInductive, ServicesAssumption
<1>. QED
  BY <1>1, <1>2, PTL DEF Spec

\* Whatever senders run side by side and whichever calls fail, no message is
\* posted twice, and one that no fault hit is logged as delivered if and only if
\* the gateway took it (ChannelService.sendToGateway).
THEOREM LogIsTrue == Spec => []StatusTellsTruth
<1>1. ASSUME MessagesIInv PROVE M!StatusTellsTruth
  <2>1. SUFFICES ASSUME NEW s \in MessagesSenders, NEW c \in MessagesChannels
                 PROVE  /\ messagesAccepted[<<s, c>>] <= 1
                        /\ /\ messagesLog[<<s, c>>] # None /\ ~ M!Open(<<s, c>>)
                           /\ <<s, c>> \notin messagesSpoiled
                           => messagesLog[<<s, c>>] = Truth(messagesAccepted[<<s, c>>])
    BY DEF M!StatusTellsTruth, M!Ids, Truth
  <2>2. messagesAccepted[<<s, c>>] \in 0 .. 1
    BY <1>1, SendNow DEF MessagesIInv, MessagesTypes
  <2>. QED
    BY <1>1, <2>2, SendNow DEF Sending, M!Open
<1>2. (part = "messages" => MessagesIInv) => StatusTellsTruth
  BY <1>1 DEF StatusTellsTruth
<1>. QED
  BY <1>2, MessagesInvariant, PTL

-----------------------------------------------------------------------------
(* Accounts *)

AccountsReq == [pc : {"idle", "find", "me", "phone", "create", "register", "verify", "save",
                      "totp", "enroll", "ended"},
                type : AccountsTypes \cup {None}, phone : AccountsPhones \cup {None},
                code : BOOLEAN, user : A!Users \cup {None},
                rows : SUBSET (A!Users \X AccountsPhones)]

AccountsRest ==
    /\ accountsChannels \in [A!Users \X AccountsPhones -> A!Channel \cup {None}]
    /\ accountsOtp \in [AccountsPhones -> {"none", "valid", "expired"}]
    /\ accountsTokens \subseteq A!Users /\ accountsRisk \subseteq AccountsPhones
    /\ accountsFaults \in 0 .. AccountsMaxFaults

AccountsTypesOK ==
    /\ accountsUsers \in [A!Users -> A!User \cup {None}]
    /\ accountsReq \in [AccountsProcs -> AccountsReq]
    /\ accountsDrawn \in 0 .. AccountsMaxUsers
    /\ AccountsRest

\* A request under way knows what its next calls are about.
Underway(r) ==
    /\ r.pc \in {"find", "phone", "create", "register", "verify", "save"} =>
        r.type \in AccountsTypes
    /\ r.pc \in {"find", "phone", "create", "register", "enroll"} => r.phone \in AccountsPhones
    /\ r.pc \in {"me", "register", "verify", "save", "totp", "enroll"} => r.user \in A!Users

IsSearching(r) == r.pc \in {"find", "phone", "create"}

Has(u, phone) == accountsUsers[u] # None /\ accountsUsers[u].phone = phone

\* An enrolment saves the user it read, under the number the user has, or had
\* until it was deleted.
Enrolling(r) == r.pc = "enroll" =>
    /\ r.user <= accountsDrawn
    /\ Has(r.user, r.phone) \/ (accountsUsers[r.user] = None /\ r.phone \in accountsRisk)

\* A login about to create a user has seen that there is none.
Creating(r) == r.pc = "create" /\ r.type = AccountsWhatsApp /\ r.phone \notin accountsRisk =>
    \A u \in A!Users : ~ Has(u, r.phone)

\* Of a phone not at risk one login searches at a time.
OneSearches ==
    \A p, q \in AccountsProcs :
        /\ IsSearching(accountsReq[p]) /\ IsSearching(accountsReq[q])
        /\ accountsReq[p].phone = accountsReq[q].phone /\ accountsReq[p].phone \notin accountsRisk
        => p = q

OneHas ==
    \A phone \in AccountsPhones \ accountsRisk, u, v \in A!Users :
        Has(u, phone) /\ Has(v, phone) => u = v

\* Enrolments of one user read one number.
SameNumber ==
    \A p, q \in AccountsProcs :
        /\ accountsReq[p].pc = "enroll" /\ accountsReq[q].pc = "enroll"
        /\ accountsReq[p].user = accountsReq[q].user
        => accountsReq[p].phone = accountsReq[q].phone

AccountsIInv ==
    /\ AccountsTypesOK /\ OneSearches /\ OneHas /\ SameNumber
    /\ \A u \in A!Users : accountsUsers[u] # None => u <= accountsDrawn
    /\ \A p \in AccountsProcs : /\ Underway(accountsReq[p])
                                /\ Enrolling(accountsReq[p]) /\ Creating(accountsReq[p])

LEMMA AccountsInitially == ASSUME A!AccountsAssumption, A!Init PROVE AccountsIInv
<1>1. A!Idle \in AccountsReq /\ A!Idle.pc = "idle"
  BY DEF A!Idle, AccountsReq
<1>2. AccountsTypesOK
  BY <1>1 DEF A!Init, AccountsTypesOK, AccountsRest, A!AccountsAssumption
<1>. QED
  BY <1>1, <1>2 DEF A!Init, AccountsIInv, OneSearches, OneHas, SameNumber, Has, IsSearching,
      Underway,
     Enrolling, Creating

\* What is known of a request.
LEMMA LoginNow ==
    ASSUME AccountsIInv, NEW p \in AccountsProcs
    PROVE  /\ accountsReq[p] \in AccountsReq /\ Underway(accountsReq[p])
           /\ Enrolling(accountsReq[p]) /\ Creating(accountsReq[p])
BY DEF AccountsIInv, AccountsTypesOK

\* A step of one request that leaves the users alone.
LEMMA OneLogs ==
    ASSUME AccountsIInv, AccountsRest', NEW p \in AccountsProcs, NEW r \in AccountsReq,
           accountsReq' = [accountsReq EXCEPT ![p] = r], Underway(r),
           UNCHANGED <<accountsUsers, accountsDrawn>>, accountsRisk \subseteq accountsRisk',
           IsSearching(r) =>
               \/ r.phone \in accountsRisk'
               \/ IsSearching(accountsReq[p]) /\ accountsReq[p].phone = r.phone
               \/ \A q \in AccountsProcs : ~ (IsSearching(accountsReq[q]) /\
                   accountsReq[q].phone = r.phone),
           r.pc = "create" => r.phone \in accountsRisk' \/ \A u \in A!Users : ~ Has(u, r.phone)
               \/ r.type # AccountsWhatsApp,
           r.pc = "enroll" => Has(r.user, r.phone)
    PROVE  AccountsIInv'
<1>1. /\ accountsReq'[p] = r
      /\ \A q \in AccountsProcs \ {p} : accountsReq'[q] = accountsReq[q]
  BY DEF AccountsIInv, AccountsTypesOK
<1>. AccountsTypesOK'
  BY DEF AccountsIInv, AccountsTypesOK
<1>2. \A u, phone : Has(u, phone)' <=> Has(u, phone)
  BY DEF Has
<1>3. OneSearches'
  <2>1. SUFFICES ASSUME NEW x \in AccountsProcs, NEW y \in AccountsProcs,
                        IsSearching(accountsReq'[x]), IsSearching(accountsReq'[y]),
                        accountsReq'[x].phone = accountsReq'[y].phone,
                        accountsReq'[x].phone \notin accountsRisk'
                 PROVE  x = y
    BY DEF OneSearches, IsSearching
  <2>2. CASE x # p /\ y # p
    BY <1>1, <2>1, <2>2 DEF AccountsIInv, OneSearches
  <2>3. CASE x = p /\ y # p
    BY <1>1, <2>1, <2>3 DEF AccountsIInv, OneSearches
  <2>4. CASE x # p /\ y = p
    BY <1>1, <2>1, <2>4 DEF AccountsIInv, OneSearches
  <2>. QED
    BY <2>2, <2>3, <2>4
<1>4. OneHas'
  BY <1>2 DEF AccountsIInv, OneHas
<1>5. SameNumber'
  <2>1. ASSUME NEW q \in AccountsProcs \ {p}, accountsReq[q].pc = "enroll", r.pc = "enroll",
               accountsReq[q].user = r.user
        PROVE  accountsReq[q].phone = r.phone
    BY <2>1 DEF AccountsIInv, Enrolling, Has
  <2>. QED
    BY <1>1, <2>1 DEF AccountsIInv, SameNumber
<1>6. ASSUME NEW q \in AccountsProcs
      PROVE  (Underway(accountsReq[q]) /\ Enrolling(accountsReq[q]) /\ Creating(accountsReq[q]))'
  <2>1. CASE q = p
    <3>1. r.pc = "enroll" => r.user \in A!Users
      BY DEF Underway
    <3>2. Underway(r) /\ (r.pc = "enroll" => r.user <= accountsDrawn)
      BY <3>1 DEF AccountsIInv, Has
    <3>. QED
      BY <1>1, <1>2, <2>1, <3>2 DEF Underway, Enrolling, Creating
  <2>2. CASE q # p
    BY <1>1, <1>2, <2>2, LoginNow DEF Underway, Enrolling, Creating
  <2>. QED
    BY <2>1, <2>2
<1>. QED
  BY <1>3, <1>4, <1>5, <1>6 DEF AccountsIInv

\* A step of no request that leaves the users alone.
LEMMA NoneLogs ==
    ASSUME AccountsIInv, AccountsRest',
           UNCHANGED <<accountsUsers, accountsDrawn, accountsReq, accountsRisk>>
    PROVE  AccountsIInv'
BY DEF AccountsIInv, AccountsTypesOK, OneSearches, OneHas, SameNumber, Has, Underway, Enrolling,
   Creating, IsSearching

\* Failed calls and quiet ones keep the bound.
LEMMA LoginFaults ==
    ASSUME A!AccountsAssumption, AccountsIInv, A!Fault \/ UNCHANGED accountsFaults
    PROVE  accountsFaults' \in 0 .. AccountsMaxFaults
BY DEF A!AccountsAssumption, AccountsIInv, AccountsTypesOK, AccountsRest, A!Fault

\* Only the place of one request changes, and what its call wrote.
LEMMA PlaceKeeps ==
    ASSUME AccountsIInv, AccountsRest', NEW p \in AccountsProcs,
           NEW pc \in {"phone", "create", "verify", "totp", "ended"}, A!Step(p, pc),
           UNCHANGED <<accountsUsers, accountsDrawn>>, accountsRisk \subseteq accountsRisk',
           pc \in {"phone", "create"} => IsSearching(accountsReq[p]),
           pc = "create" =>
               \/ accountsReq[p].phone \in accountsRisk'
               \/ \A u \in A!Users : ~ Has(u, accountsReq[p].phone)
               \/ accountsReq[p].type # AccountsWhatsApp,
           pc = "verify" => accountsReq[p].pc = "register",
           pc = "totp" => accountsReq[p].pc \in {"me", "verify", "save"}
    PROVE  AccountsIInv'
<1> DEFINE r == [accountsReq[p] EXCEPT !.pc = pc]
<1>1. accountsReq[p] \in AccountsReq /\ Underway(accountsReq[p])
  BY LoginNow
<1>2. /\ r \in AccountsReq /\ r.pc = pc /\ r.phone = accountsReq[p].phone
      /\ r.type = accountsReq[p].type /\ r.user = accountsReq[p].user
  BY <1>1 DEF AccountsReq
<1>3. accountsReq' = [accountsReq EXCEPT ![p] = r]
  BY DEF A!Step
<1> HIDE DEF r
<1>4. Underway(r)
  BY <1>1, <1>2 DEF Underway, IsSearching
<1>. QED
  BY <1>2, <1>3, <1>4, OneLogs DEF IsSearching

LEMMA BeginKeepsLogins ==
    ASSUME A!AccountsAssumption, AccountsIInv, NEW p \in AccountsProcs, NEW type \in AccountsTypes,
           NEW phone \in AccountsPhones, NEW code \in BOOLEAN, A!Begin(p, type, phone, code),
           UNCHANGED <<accountsUsers, accountsChannels, accountsTokens, accountsDrawn,
               accountsFaults>>,
           accountsOtp' \in [AccountsPhones -> {"none", "valid", "expired"}]
    PROVE  AccountsIInv'
<1> DEFINE r == [A!Idle EXCEPT !.pc = "find", !.type = type, !.phone = phone, !.code = code]
<1>1. /\ r \in AccountsReq /\ r.pc = "find" /\ r.phone = phone /\ r.type = type
  BY DEF A!Idle, AccountsReq
<1>2. /\ accountsReq' = [accountsReq EXCEPT ![p] = r]
      /\ accountsRisk' = IF A!Searching(phone) = {} THEN accountsRisk ELSE accountsRisk \cup {phone}
  BY DEF A!Begin
<1> HIDE DEF r
<1>3. AccountsRest' /\ accountsRisk \subseteq accountsRisk'
  BY <1>2 DEF AccountsIInv, AccountsTypesOK, AccountsRest
<1>4. \/ phone \in accountsRisk'
      \/ \A q \in AccountsProcs : ~ (IsSearching(accountsReq[q]) /\ accountsReq[q].phone = phone)
  BY <1>2 DEF A!Searching, IsSearching
<1>. QED
  BY <1>1, <1>2, <1>3, <1>4, OneLogs DEF Underway

LEMMA FindChannelKeeps ==
    ASSUME A!AccountsAssumption, AccountsIInv, NEW p \in AccountsProcs, A!FindChannel(p)
    PROVE  AccountsIInv'
<1> DEFINE next == IF accountsReq[p].type = AccountsWhatsApp THEN "phone" ELSE "create"
           found == A!GetChannelByIdentifier(accountsReq[p].type, accountsReq[p].phone)
<1>1. /\ accountsReq[p].pc = "find" /\ accountsReq[p] \in AccountsReq
      /\ accountsReq[p].phone \in AccountsPhones
      /\ UNCHANGED <<accountsUsers, accountsChannels, accountsOtp, accountsTokens, accountsDrawn>>
      /\ A!Fault \/ UNCHANGED accountsFaults
      /\ accountsRisk' = accountsRisk \/ accountsRisk' = accountsRisk \cup {accountsReq[p].phone}
  BY LoginNow DEF A!FindChannel, Underway
<1>2. AccountsRest' /\ accountsRisk \subseteq accountsRisk'
  BY <1>1, LoginFaults DEF AccountsIInv, AccountsTypesOK, AccountsRest
<1>3. CASE A!Step(p, next)
  BY <1>1, <1>2, <1>3, PlaceKeeps DEF IsSearching
<1>4. ASSUME NEW u \in found, accountsReq' = [accountsReq EXCEPT ![p].pc = "me", ![p].user = u]
      PROVE  AccountsIInv'
  <2> DEFINE r == [accountsReq[p] EXCEPT !.pc = "me", !.user = u]
  <2>1. u \in A!Users
    BY DEF A!GetChannelByIdentifier
  <2>2. r \in AccountsReq /\ r.pc = "me" /\ r.user = u
    BY <1>1, <2>1 DEF AccountsReq
  <2>3. accountsReq' = [accountsReq EXCEPT ![p] = r]
    BY <1>4
  <2> HIDE DEF r
  <2>. QED
    BY <1>1, <1>2, <2>1, <2>2, <2>3, OneLogs DEF Underway, IsSearching
<1>. QED
  BY <1>3, <1>4 DEF A!FindChannel

LEMMA FindPhoneKeeps ==
    ASSUME A!AccountsAssumption, AccountsIInv, NEW p \in AccountsProcs, A!FindPhone(p)
    PROVE  AccountsIInv'
<1> DEFINE found == A!ByPhone(accountsReq[p].phone)
<1>1. /\ accountsReq[p].pc = "phone" /\ accountsReq[p] \in AccountsReq
      /\ accountsReq[p].phone \in AccountsPhones /\ accountsReq[p].type \in AccountsTypes
      /\ UNCHANGED <<accountsUsers, accountsChannels, accountsOtp, accountsTokens, accountsDrawn>>
      /\ A!Fault \/ UNCHANGED accountsFaults
      /\ accountsRisk' = accountsRisk \/ accountsRisk' = accountsRisk \cup {accountsReq[p].phone}
  BY LoginNow DEF A!FindPhone, Underway
<1>2. AccountsRest' /\ accountsRisk \subseteq accountsRisk'
  BY <1>1, LoginFaults DEF AccountsIInv, AccountsTypesOK, AccountsRest
<1>3. CASE /\ A!Step(p, "create")
           /\ found = {} \/ accountsReq[p].phone \in accountsRisk'
  <2>1. \/ accountsReq[p].phone \in accountsRisk'
        \/ \A u \in A!Users : ~ Has(u, accountsReq[p].phone)
    BY <1>3 DEF A!ByPhone, Has
  <2>. QED
    BY <1>1, <1>2, <1>3, <2>1, PlaceKeeps DEF IsSearching
<1>4. ASSUME NEW u \in found,
             accountsReq' = [accountsReq EXCEPT ![p].pc = "register", ![p].user = u]
      PROVE  AccountsIInv'
  <2> DEFINE r == [accountsReq[p] EXCEPT !.pc = "register", !.user = u]
  <2>1. u \in A!Users
    BY DEF A!ByPhone
  <2>2. /\ r \in AccountsReq /\ r.pc = "register" /\ r.user = u
        /\ r.phone = accountsReq[p].phone /\ r.type = accountsReq[p].type
    BY <1>1, <2>1 DEF AccountsReq
  <2>3. accountsReq' = [accountsReq EXCEPT ![p] = r]
    BY <1>4
  <2> HIDE DEF r
  <2>. QED
    BY <1>1, <1>2, <2>1, <2>2, <2>3, OneLogs DEF Underway, IsSearching
<1>. QED
  BY <1>1, <1>3, <1>4 DEF A!FindPhone

\* The user is new to the phone, or the phone is at risk.
LEMMA CreateUserKeeps ==
    ASSUME A!AccountsAssumption, AccountsIInv, NEW p \in AccountsProcs, A!CreateUser(p)
    PROVE  AccountsIInv'
<1>1. /\ accountsReq[p].pc = "create" /\ accountsReq[p] \in AccountsReq
      /\ accountsReq[p].phone \in AccountsPhones /\ accountsReq[p].type \in AccountsTypes
      /\ UNCHANGED <<accountsChannels, accountsOtp, accountsTokens>>
      /\ A!Fault \/ UNCHANGED accountsFaults
  BY LoginNow DEF A!CreateUser, Underway
<1>2. CASE A!Step(p, "ended") /\ UNCHANGED <<accountsUsers, accountsDrawn, accountsRisk>>
  <2>1. AccountsRest'
    BY <1>1, <1>2, LoginFaults DEF AccountsIInv, AccountsTypesOK, AccountsRest
  <2>. QED
    BY <1>2, <2>1, PlaceKeeps
<1>3. ASSUME accountsDrawn < AccountsMaxUsers, accountsDrawn' = accountsDrawn + 1,
             accountsUsers' = [accountsUsers EXCEPT ![accountsDrawn'] =
                                 [phone |-> accountsReq[p].phone, totp |-> FALSE]],
             accountsReq' = [accountsReq EXCEPT ![p].pc = "register", ![p].user = accountsDrawn'],
             accountsRisk' = IF accountsReq[p].type = AccountsWhatsApp THEN accountsRisk
                             ELSE accountsRisk \cup {accountsReq[p].phone},
             UNCHANGED accountsFaults
      PROVE  AccountsIInv'
  <2> DEFINE n == accountsDrawn + 1
             new == [phone |-> accountsReq[p].phone, totp |-> FALSE]
             r == [accountsReq[p] EXCEPT !.pc = "register", !.user = n]
  <2>1. n \in A!Users /\ accountsDrawn \in 0 .. AccountsMaxUsers /\ AccountsMaxUsers \in Nat
    BY <1>3 DEF A!Users, AccountsIInv, AccountsTypesOK, A!AccountsAssumption
  <2>2. new \in A!User /\ new # None /\ new.phone = accountsReq[p].phone
    <3>1. new \in A!User /\ new.phone = accountsReq[p].phone
      BY <1>1 DEF A!User
    <3> HIDE DEF new
    <3>. QED
      BY <3>1 DEF A!AccountsAssumption
  <2>3. /\ r \in AccountsReq /\ r.pc = "register" /\ r.user = n
        /\ r.phone = accountsReq[p].phone /\ r.type = accountsReq[p].type
    BY <1>1, <2>1 DEF AccountsReq
  <2>4. /\ accountsReq' = [accountsReq EXCEPT ![p] = r]
        /\ accountsUsers' = [accountsUsers EXCEPT ![n] = new] /\ accountsDrawn' = n
    BY <1>3
  <2> HIDE DEF n, new, r
  <2>5. /\ accountsReq'[p] = r /\ \A q \in AccountsProcs \ {p} : accountsReq'[q] = accountsReq[q]
        /\ accountsUsers'[n] = new
        /\ \A u \in A!Users \ {n} : accountsUsers'[u] = accountsUsers[u]
    BY <2>1, <2>4 DEF AccountsIInv, AccountsTypesOK
  <2>6. AccountsTypesOK'
    <3>1. AccountsRest'
      BY <1>1, <1>3 DEF AccountsIInv, AccountsTypesOK, AccountsRest, A!Users
    <3>2. accountsUsers' \in [A!Users -> A!User \cup {None}]
      BY <2>1, <2>2, <2>4 DEF AccountsIInv, AccountsTypesOK
    <3>3. accountsReq' \in [AccountsProcs -> AccountsReq]
      BY <2>3, <2>4 DEF AccountsIInv, AccountsTypesOK
    <3>4. accountsDrawn' \in 0 .. AccountsMaxUsers
      BY <2>1, <2>4 DEF A!Users, n
    <3>5. A!Users' = A!Users /\ AccountsReq' = AccountsReq /\ A!User' = A!User
      BY DEF A!Users, AccountsReq, A!User
    <3>. QED
      BY <3>1, <3>2, <3>3, <3>4, <3>5 DEF AccountsTypesOK
  <2>7. accountsRisk \subseteq accountsRisk'
    BY <1>3
  <2>8. \/ accountsReq[p].phone \in accountsRisk'
        \/ \A u \in A!Users : ~ Has(u, accountsReq[p].phone)
    BY <1>1, <1>3, LoginNow DEF Creating
  <2>9. OneHas'
    <3>1. SUFFICES ASSUME NEW phone \in AccountsPhones \ accountsRisk', NEW u \in A!Users,
                          NEW v \in A!Users, Has(u, phone)', Has(v, phone)'
                   PROVE  u = v
      BY DEF OneHas, A!Users
    <3>2. CASE phone # accountsReq[p].phone
      BY <2>2, <2>5, <2>7, <3>1, <3>2 DEF AccountsIInv, OneHas, Has
    <3>3. CASE phone = accountsReq[p].phone
      <4>1. \A w \in A!Users : ~ Has(w, phone)
        BY <2>8, <3>1, <3>3
      <4>2. \A w \in A!Users : Has(w, phone)' => w = n
        BY <2>5, <4>1 DEF Has
      <4>. QED
        BY <3>1, <4>2
    <3>. QED
      BY <3>2, <3>3
  <2>10. OneSearches'
    BY <2>3, <2>5, <2>7 DEF AccountsIInv, OneSearches, IsSearching
  <2>11. \A u \in A!Users : accountsUsers'[u] # None => u <= accountsDrawn'
    BY <2>1, <2>4, <2>5 DEF AccountsIInv, A!Users, n
  <2>12. ASSUME NEW q \in AccountsProcs
         PROVE  (Underway(accountsReq[q]) /\ Enrolling(accountsReq[q]) /\ Creating(accountsReq[q]))'
    <3>1. CASE q = p
      BY <1>1, <2>1, <2>3, <2>5, <3>1 DEF Underway, Enrolling, Creating
    <3>2. CASE q # p
      <4>1. Underway(accountsReq'[q])
        BY <2>5, <3>2, LoginNow DEF Underway
      <4>2. ASSUME accountsReq[q].pc = "enroll" PROVE Enrolling(accountsReq[q])'
        <5>1. accountsReq[q].user \in A!Users /\ accountsReq[q].user # n
          BY <2>1, <4>2, LoginNow DEF Underway, Enrolling, A!Users, n
        <5>. QED
          BY <2>1, <2>4, <2>5, <2>7, <3>2, <5>1, LoginNow DEF Enrolling, Has, A!Users, n
      <4>3. ASSUME accountsReq[q].pc = "create", accountsReq[q].type = AccountsWhatsApp,
                   accountsReq[q].phone \notin accountsRisk'
            PROVE  \A u \in A!Users : ~ Has(u, accountsReq[q].phone)'
        <5>1. accountsReq[q].phone # accountsReq[p].phone
          BY <1>1, <2>7, <3>2, <4>3 DEF AccountsIInv, OneSearches, IsSearching
        <5>2. \A u \in A!Users : ~ Has(u, accountsReq[q].phone)
          BY <2>7, <4>3, LoginNow DEF Creating
        <5>. QED
          BY <2>2, <2>5, <5>1, <5>2 DEF Has
      <4>. QED
        BY <2>5, <3>2, <4>1, <4>2, <4>3 DEF Enrolling, Creating, Has
    <3>. QED
      BY <3>1, <3>2
  <2>13. SameNumber'
    BY <2>3, <2>5 DEF AccountsIInv, SameNumber
  <2>. QED
    BY <2>6, <2>9, <2>10, <2>11, <2>12, <2>13 DEF AccountsIInv, A!Users
<1>. QED
  BY <1>2, <1>3 DEF A!CreateUser

LEMMA MeKeeps ==
    ASSUME A!AccountsAssumption, AccountsIInv, NEW p \in AccountsProcs, A!Me(p)
    PROVE  AccountsIInv'
<1>1. /\ accountsReq[p].pc = "me" /\ (A!Fault \/ UNCHANGED accountsFaults)
      /\ A!Step(p, "totp") \/ A!Step(p, "ended")
      /\ UNCHANGED <<accountsUsers, accountsChannels, accountsOtp, accountsTokens, accountsDrawn,
                     accountsRisk>>
  BY DEF A!Me
<1>2. AccountsRest'
  BY <1>1, LoginFaults DEF AccountsIInv, AccountsTypesOK, AccountsRest
<1>. QED
  BY <1>1, <1>2, PlaceKeeps

LEMMA RegisterChannelKeeps ==
    ASSUME A!AccountsAssumption, AccountsIInv, NEW p \in AccountsProcs, A!RegisterChannel(p)
    PROVE  AccountsIInv'
<1> DEFINE row == [type |-> accountsReq[p].type, verified |-> FALSE]
<1>1. /\ accountsReq[p].pc = "register" /\ (A!Fault \/ UNCHANGED accountsFaults)
      /\ A!Step(p, "verify")
      /\ UNCHANGED <<accountsUsers, accountsOtp, accountsTokens, accountsDrawn, accountsRisk>>
      /\ \/ UNCHANGED accountsChannels
         \/ accountsChannels' = [accountsChannels EXCEPT
                                   ![<<accountsReq[p].user, accountsReq[p].phone>>] = row]
  BY DEF A!RegisterChannel
<1>2. row \in A!Channel
  BY <1>1, LoginNow DEF Underway, A!Channel
<1> HIDE DEF row
<1>3. accountsChannels' \in [A!Users \X AccountsPhones -> A!Channel \cup {None}]
  BY <1>1, <1>2 DEF AccountsIInv, AccountsTypesOK, AccountsRest
<1>4. AccountsRest'
  BY <1>1, <1>3, LoginFaults DEF AccountsIInv, AccountsTypesOK, AccountsRest
<1>. QED
  BY <1>1, <1>4, PlaceKeeps

\* A request's record with another place and other rows.
LEMMA RowsKeep ==
    ASSUME AccountsIInv, AccountsRest', NEW p \in AccountsProcs, accountsReq[p].pc \in {"verify",
        "save"},
           NEW pc \in {"save", "totp"}, NEW rows \in SUBSET (A!Users \X AccountsPhones),
           accountsReq' = [accountsReq EXCEPT ![p].pc = pc, ![p].rows = rows],
           UNCHANGED <<accountsUsers, accountsDrawn, accountsRisk>>
    PROVE  AccountsIInv'
<1> DEFINE r == [accountsReq[p] EXCEPT !.pc = pc, !.rows = rows]
<1>1. accountsReq[p] \in AccountsReq /\ Underway(accountsReq[p])
  BY LoginNow
<1>2. r \in AccountsReq /\ r.pc = pc /\ r.type = accountsReq[p].type /\ r.user = accountsReq[p].user
  BY <1>1 DEF AccountsReq
<1>3. accountsReq' = [accountsReq EXCEPT ![p] = r]
  OBVIOUS
<1> HIDE DEF r
<1>. QED
  BY <1>1, <1>2, <1>3, OneLogs DEF Underway, IsSearching

LEMMA VerifyListKeeps ==
    ASSUME A!AccountsAssumption, AccountsIInv, NEW p \in AccountsProcs, A!VerifyList(p)
    PROVE  AccountsIInv'
<1> DEFINE rows == {k \in {accountsReq[p].user} \X AccountsPhones :
                      accountsChannels[k] # None /\ accountsChannels[k].type = accountsReq[p].type}
<1>1. /\ accountsReq[p].pc = "verify" /\ (A!Fault \/ UNCHANGED accountsFaults)
      /\ UNCHANGED <<accountsUsers, accountsChannels, accountsOtp, accountsTokens, accountsDrawn,
                     accountsRisk>>
      /\ \/ accountsReq' = [accountsReq EXCEPT ![p].pc = "save", ![p].rows = rows]
         \/ A!Step(p, "totp")
  BY DEF A!VerifyList
<1>2. AccountsRest'
  BY <1>1, LoginFaults DEF AccountsIInv, AccountsTypesOK, AccountsRest
<1>3. rows \in SUBSET (A!Users \X AccountsPhones)
  BY <1>1, LoginNow DEF Underway
<1> HIDE DEF rows
<1>. QED
  BY <1>1, <1>2, <1>3, PlaceKeeps, RowsKeep

LEMMA VerifySaveKeeps ==
    ASSUME A!AccountsAssumption, AccountsIInv, NEW p \in AccountsProcs, A!VerifySave(p)
    PROVE  AccountsIInv'
<1> DEFINE row == [type |-> accountsReq[p].type, verified |-> TRUE]
<1>1. /\ accountsReq[p].pc = "save" /\ accountsReq[p] \in AccountsReq
      /\ A!Fault \/ UNCHANGED accountsFaults
      /\ UNCHANGED <<accountsUsers, accountsOtp, accountsTokens, accountsDrawn, accountsRisk>>
  BY LoginNow DEF A!VerifySave
<1>2. row \in A!Channel /\ accountsReq[p].rows \in SUBSET (A!Users \X AccountsPhones)
  BY <1>1, LoginNow DEF Underway, A!Channel, AccountsReq
<1> HIDE DEF row
<1>3. ASSUME UNCHANGED accountsChannels,
             \/ A!Step(p, "totp")
             \/ accountsReq' = [accountsReq EXCEPT ![p].pc = "totp", ![p].rows = {}]
      PROVE  AccountsIInv'
  <2>1. AccountsRest'
    BY <1>1, <1>3, LoginFaults DEF AccountsIInv, AccountsTypesOK, AccountsRest
  <2>2. CASE A!Step(p, "totp")
    BY <1>1, <2>1, <2>2, PlaceKeeps
  <2>3. CASE accountsReq' = [accountsReq EXCEPT ![p].pc = "totp", ![p].rows = {}]
    <3>1. {} \in SUBSET (A!Users \X AccountsPhones)
      OBVIOUS
    <3>. QED
      BY <1>1, <2>1, <2>3, <3>1, RowsKeep
  <2>. QED
    BY <1>3, <2>2, <2>3
<1>4. ASSUME NEW k \in accountsReq[p].rows,
             accountsChannels' = [accountsChannels EXCEPT ![k] = row],
             accountsReq' = [accountsReq EXCEPT ![p].rows = @ \ {k}]
      PROVE  AccountsIInv'
  <2> DEFINE rows == accountsReq[p].rows \ {k}
  <2>1. accountsChannels' \in [A!Users \X AccountsPhones -> A!Channel \cup {None}]
    BY <1>2, <1>4 DEF AccountsIInv, AccountsTypesOK, AccountsRest
  <2>2. AccountsRest'
    BY <1>1, <2>1, LoginFaults DEF AccountsIInv, AccountsTypesOK, AccountsRest
  <2>3. accountsReq' = [accountsReq EXCEPT ![p].pc = "save", ![p].rows = rows]
    BY <1>1, <1>4 DEF AccountsIInv, AccountsTypesOK, AccountsReq
  <2>4. rows \in SUBSET (A!Users \X AccountsPhones)
    BY <1>2
  <2> HIDE DEF rows
  <2>. QED
    BY <1>1, <2>2, <2>3, <2>4, RowsKeep
<1>. QED
  BY <1>3, <1>4 DEF A!VerifySave, row

\* A request that is over leaves no trace in its record.
LEMMA OverKeeps ==
    ASSUME AccountsIInv, AccountsRest', NEW p \in AccountsProcs,
           accountsReq' = [accountsReq EXCEPT ![p] = [A!Idle EXCEPT !.pc = "ended"]],
           UNCHANGED <<accountsUsers, accountsDrawn, accountsRisk>>
    PROVE  AccountsIInv'
<1> DEFINE r == [A!Idle EXCEPT !.pc = "ended"]
<1>1. r \in AccountsReq /\ r.pc = "ended"
  BY DEF A!Idle, AccountsReq
<1> HIDE DEF r
<1>. QED
  BY <1>1, OneLogs DEF Underway, IsSearching, r

LEMMA IssueKeeps ==
    ASSUME A!AccountsAssumption, AccountsIInv, NEW p \in AccountsProcs, A!Issue(p)
    PROVE  AccountsIInv'
<1>1. /\ accountsReq[p].pc = "totp" /\ accountsReq[p].user \in A!Users
      /\ UNCHANGED <<accountsUsers, accountsChannels, accountsOtp, accountsDrawn, accountsFaults,
                     accountsRisk>>
      /\ accountsTokens' \subseteq accountsTokens \cup {accountsReq[p].user}
      /\ accountsReq' = [accountsReq EXCEPT ![p] = [A!Idle EXCEPT !.pc = "ended"]]
  BY LoginNow DEF A!Issue, Underway
<1>2. AccountsRest'
  BY <1>1 DEF AccountsIInv, AccountsTypesOK, AccountsRest
<1>. QED
  BY <1>1, <1>2, OverKeeps

LEMMA WhatsAppTOTPEnrollKeeps ==
    ASSUME A!AccountsAssumption, AccountsIInv, NEW p \in AccountsProcs, NEW u \in A!Users,
           A!WhatsAppTOTPEnroll(p, u)
    PROVE  AccountsIInv'
<1> DEFINE r == [A!Idle EXCEPT !.pc = "enroll", !.user = u, !.phone = accountsUsers[u].phone]
<1>1. /\ accountsUsers[u] # None /\ accountsReq' = [accountsReq EXCEPT ![p] = r]
      /\ UNCHANGED <<accountsUsers, accountsChannels, accountsOtp, accountsTokens, accountsDrawn,
                     accountsFaults, accountsRisk>>
  BY DEF A!WhatsAppTOTPEnroll
<1>2. accountsUsers[u].phone \in AccountsPhones
  BY <1>1 DEF AccountsIInv, AccountsTypesOK, A!User
<1>3. r \in AccountsReq /\ r.pc = "enroll" /\ r.user = u /\ r.phone = accountsUsers[u].phone
  BY <1>2 DEF A!Idle, AccountsReq
<1> HIDE DEF r
<1>4. AccountsRest'
  BY <1>1 DEF AccountsIInv, AccountsTypesOK, AccountsRest
<1>. QED
  BY <1>1, <1>2, <1>3, <1>4, OneLogs DEF Underway, IsSearching, Has

LEMMA ApiVerifyKeeps ==
    ASSUME A!AccountsAssumption, AccountsIInv, NEW p \in AccountsProcs, NEW u \in A!Users,
           NEW type \in AccountsTypes, A!ApiVerify(p, u, type)
    PROVE  AccountsIInv'
<1> DEFINE r == [A!Idle EXCEPT !.pc = "verify", !.type = type, !.user = u]
<1>1. /\ accountsReq' = [accountsReq EXCEPT ![p] = r]
      /\ UNCHANGED <<accountsUsers, accountsChannels, accountsOtp, accountsTokens, accountsDrawn,
                     accountsFaults, accountsRisk>>
  BY DEF A!ApiVerify
<1>2. r \in AccountsReq /\ r.pc = "verify" /\ r.user = u /\ r.type = type
  BY DEF A!Idle, AccountsReq
<1> HIDE DEF r
<1>3. AccountsRest'
  BY <1>1 DEF AccountsIInv, AccountsTypesOK, AccountsRest
<1>. QED
  BY <1>1, <1>2, <1>3, OneLogs DEF Underway, IsSearching

\* The user is saved again as it was read: it has the number already, or had it
\* until somebody deleted it and the number is at risk.
LEMMA EnrollSaveKeeps ==
    ASSUME A!AccountsAssumption, AccountsIInv, NEW p \in AccountsProcs, A!EnrollSave(p)
    PROVE  AccountsIInv'
<1>1. /\ accountsReq[p].pc = "enroll" /\ accountsReq[p].user \in A!Users
      /\ accountsReq[p].phone \in AccountsPhones
      /\ accountsReq[p].user <= accountsDrawn
      /\ \/ accountsReq[p].phone \in accountsRisk
         \/ Has(accountsReq[p].user, accountsReq[p].phone)
      /\ UNCHANGED <<accountsChannels, accountsOtp, accountsTokens, accountsDrawn, accountsRisk>>
      /\ A!Fault \/ UNCHANGED accountsFaults
      /\ accountsReq' = [accountsReq EXCEPT ![p] = [A!Idle EXCEPT !.pc = "ended"]]
  BY LoginNow DEF A!EnrollSave, Underway, Enrolling
<1>2. AccountsRest'
  BY <1>1, LoginFaults DEF AccountsIInv, AccountsTypesOK, AccountsRest
<1>3. CASE UNCHANGED accountsUsers
  BY <1>1, <1>2, <1>3, OverKeeps
<1>4. CASE accountsUsers' = [accountsUsers EXCEPT ![accountsReq[p].user] =
                               [phone |-> accountsReq[p].phone, totp |-> TRUE]]
  <2> DEFINE n == accountsReq[p].user
             new == [phone |-> accountsReq[p].phone, totp |-> TRUE]
             r == [A!Idle EXCEPT !.pc = "ended"]
  <2>1. new \in A!User /\ new # None /\ new.phone = accountsReq[p].phone
    <3>1. new \in A!User /\ new.phone = accountsReq[p].phone
      BY <1>1 DEF A!User
    <3> HIDE DEF new
    <3>. QED
      BY <3>1 DEF A!AccountsAssumption
  <2>2. r \in AccountsReq /\ r.pc = "ended"
    BY DEF A!Idle, AccountsReq
  <2>3. /\ accountsUsers' = [accountsUsers EXCEPT ![n] = new]
        /\ accountsReq' = [accountsReq EXCEPT ![p] = r] /\ n \in A!Users
    BY <1>1, <1>4
  <2> HIDE DEF n, new, r
  <2>4. /\ accountsReq'[p] = r /\ \A q \in AccountsProcs \ {p} : accountsReq'[q] = accountsReq[q]
        /\ accountsUsers'[n] = new
        /\ \A u \in A!Users \ {n} : accountsUsers'[u] = accountsUsers[u]
    BY <2>3 DEF AccountsIInv, AccountsTypesOK
  <2>5. AccountsTypesOK'
    BY <1>1, <1>2, <2>1, <2>2, <2>3 DEF AccountsIInv, AccountsTypesOK
  <2>6. \A u \in A!Users, phone \in AccountsPhones :
          /\ Has(u, phone)' /\ phone \notin accountsRisk => Has(u, phone)
          /\ Has(u, phone) => Has(u, phone)' \/ u = n
    BY <1>1, <2>1, <2>4 DEF Has, n
  <2>7. OneHas'
    BY <1>1, <2>6 DEF AccountsIInv, OneHas
  <2>8. OneSearches'
    BY <1>1, <2>2, <2>4 DEF AccountsIInv, OneSearches, IsSearching
  <2>9. \A u \in A!Users : accountsUsers'[u] # None => u <= accountsDrawn'
    BY <1>1, <2>4 DEF AccountsIInv, n
  <2>10. ASSUME NEW q \in AccountsProcs
         PROVE  (Underway(accountsReq[q]) /\ Enrolling(accountsReq[q]) /\ Creating(accountsReq[q]))'
    <3>1. CASE q = p
      BY <2>2, <2>4, <3>1 DEF Underway, Enrolling, Creating
    <3>2. CASE q # p
      <4>1. accountsReq'[q] = accountsReq[q] /\ Underway(accountsReq'[q])
        BY <2>4, <3>2, LoginNow DEF Underway
      <4>2. Creating(accountsReq[q])'
        BY <1>1, <2>6, <4>1, LoginNow DEF Creating, Underway
      <4>3. ASSUME accountsReq[q].pc = "enroll" PROVE Enrolling(accountsReq[q])'
        <5>1. /\ accountsReq[q].user \in A!Users /\ accountsReq[q].user <= accountsDrawn
              /\ \/ Has(accountsReq[q].user, accountsReq[q].phone)
                 \/ /\ accountsUsers[accountsReq[q].user] = None
                    /\ accountsReq[q].phone \in accountsRisk
          BY <4>3, LoginNow DEF Underway, Enrolling
        <5>2. CASE accountsReq[q].user = n
          <6>1. accountsReq[q].phone = accountsReq[p].phone
            BY <1>1, <4>3, <5>2 DEF AccountsIInv, SameNumber, n
          <6>. QED
            BY <1>1, <2>1, <2>4, <4>1, <5>1, <5>2, <6>1 DEF Enrolling, Has
        <5>3. CASE accountsReq[q].user # n
          BY <1>1, <2>4, <4>1, <5>1, <5>3 DEF Enrolling, Has
        <5>. QED
          BY <5>2, <5>3
      <4>. QED
        BY <4>1, <4>2, <4>3 DEF Enrolling
    <3>. QED
      BY <3>1, <3>2
  <2>11. SameNumber'
    BY <2>2, <2>4 DEF AccountsIInv, SameNumber
  <2>. QED
    BY <2>5, <2>7, <2>8, <2>9, <2>10, <2>11 DEF AccountsIInv
<1>. QED
  BY <1>3, <1>4 DEF A!EnrollSave

LEMMA LoginStarts ==
    ASSUME A!AccountsAssumption, AccountsIInv, NEW p \in AccountsProcs,
        NEW phone \in AccountsPhones,
           \/ A!WhatsAppVerify(p, phone)
           \/ \E type \in AccountsTypes, code \in BOOLEAN : A!DoLoginByChannel(p, type, phone, code)
    PROVE  AccountsIInv'
<1>1. /\ AccountsWhatsApp \in AccountsTypes
      /\ accountsOtp \in [AccountsPhones -> {"none", "valid", "expired"}]
  BY DEF A!AccountsAssumption, AccountsIInv, AccountsTypesOK, AccountsRest
<1>2. CASE A!WhatsAppVerify(p, phone)
  <2>1. accountsOtp' \in [AccountsPhones -> {"none", "valid", "expired"}]
    BY <1>1, <1>2 DEF A!WhatsAppVerify
  <2>2. /\ A!Begin(p, AccountsWhatsApp, phone, FALSE)
        /\ UNCHANGED <<accountsUsers, accountsChannels, accountsTokens, accountsDrawn,
            accountsFaults>>
    BY <1>2 DEF A!WhatsAppVerify
  <2>. QED
    BY <1>1, <2>1, <2>2, BeginKeepsLogins
<1>3. ASSUME NEW type \in AccountsTypes, NEW code \in BOOLEAN, A!DoLoginByChannel(p, type, phone,
    code)
      PROVE  AccountsIInv'
  BY <1>1, <1>3, BeginKeepsLogins DEF A!DoLoginByChannel
<1>. QED
  BY <1>2, <1>3

LEMMA PasswordsKeep ==
    ASSUME A!AccountsAssumption, AccountsIInv, NEW phone \in AccountsPhones,
           A!GenerateOTP(phone) \/ A!Expire(phone)
    PROVE  AccountsIInv'
<1>1. UNCHANGED <<accountsUsers, accountsChannels, accountsReq, accountsTokens, accountsDrawn,
                  accountsFaults, accountsRisk>>
  BY DEF A!GenerateOTP, A!Expire
<1>2. accountsOtp' \in [AccountsPhones -> {"none", "valid", "expired"}]
  BY DEF A!GenerateOTP, A!Expire, AccountsIInv, AccountsTypesOK, AccountsRest
<1>3. AccountsRest'
  BY <1>1, <1>2 DEF AccountsIInv, AccountsTypesOK, AccountsRest
<1>. QED
  BY <1>1, <1>3, NoneLogs

LEMMA ApiRegisterKeeps ==
    ASSUME A!AccountsAssumption, AccountsIInv, NEW u \in A!Users, NEW type \in AccountsTypes,
           NEW phone \in AccountsPhones, A!ApiRegister(u, type, phone)
    PROVE  AccountsIInv'
<1> DEFINE row == [type |-> type, verified |-> FALSE]
<1>1. /\ accountsChannels' = [accountsChannels EXCEPT ![<<u, phone>>] = row]
      /\ UNCHANGED <<accountsUsers, accountsOtp, accountsReq, accountsTokens, accountsDrawn,
                     accountsFaults, accountsRisk>>
  BY DEF A!ApiRegister
<1>2. row \in A!Channel
  BY DEF A!Channel
<1> HIDE DEF row
<1>3. accountsChannels' \in [A!Users \X AccountsPhones -> A!Channel \cup {None}]
  BY <1>1, <1>2 DEF AccountsIInv, AccountsTypesOK, AccountsRest
<1>4. AccountsRest'
  BY <1>1, <1>3 DEF AccountsIInv, AccountsTypesOK, AccountsRest
<1>. QED
  BY <1>1, <1>4, NoneLogs

\* An enrolment of the user deleted puts its number at risk.
LEMMA DeleteUserKeeps ==
    ASSUME A!AccountsAssumption, AccountsIInv, NEW u \in A!Users, A!DeleteUser(u)
    PROVE  AccountsIInv'
<1>1. /\ accountsUsers[u] \in A!User /\ accountsUsers[u].phone \in AccountsPhones
      /\ accountsUsers' = [accountsUsers EXCEPT ![u] = None]
      /\ accountsRisk' = IF \E p \in AccountsProcs :
                              accountsReq[p].pc = "enroll" /\ accountsReq[p].user = u
                         THEN accountsRisk \cup {accountsUsers[u].phone} ELSE accountsRisk
      /\ UNCHANGED <<accountsChannels, accountsOtp, accountsReq, accountsTokens, accountsDrawn,
                     accountsFaults>>
  BY DEF A!DeleteUser, AccountsIInv, AccountsTypesOK, A!User
<1>2. AccountsTypesOK' /\ accountsRisk \subseteq accountsRisk'
  BY <1>1 DEF AccountsIInv, AccountsTypesOK, AccountsRest
<1>3. /\ accountsUsers'[u] = None
      /\ \A v \in A!Users \ {u} : accountsUsers'[v] = accountsUsers[v]
  BY <1>1 DEF AccountsIInv, AccountsTypesOK
<1>4. \A v \in A!Users : \A phone : Has(v, phone)' <=> v # u /\ Has(v, phone)
  BY <1>3 DEF Has
<1>5. OneSearches'
  BY <1>1, <1>2 DEF AccountsIInv, OneSearches, IsSearching
<1>6. OneHas'
  BY <1>2, <1>4 DEF AccountsIInv, OneHas
<1>7. \A v \in A!Users : accountsUsers'[v] # None => v <= accountsDrawn'
  BY <1>1, <1>3 DEF AccountsIInv
<1>8. ASSUME NEW q \in AccountsProcs
      PROVE  (Underway(accountsReq[q]) /\ Enrolling(accountsReq[q]) /\ Creating(accountsReq[q]))'
  <2>1. Underway(accountsReq[q])'
    BY <1>1, LoginNow DEF Underway
  <2>2. Creating(accountsReq[q])'
    BY <1>1, <1>2, <1>4, LoginNow DEF Creating
  <2>3. ASSUME accountsReq[q].pc = "enroll" PROVE Enrolling(accountsReq[q])'
    <3>1. /\ accountsReq[q].user \in A!Users /\ accountsReq[q].user <= accountsDrawn
          /\ \/ Has(accountsReq[q].user, accountsReq[q].phone)
             \/ /\ accountsUsers[accountsReq[q].user] = None
                /\ accountsReq[q].phone \in accountsRisk
      BY <2>3, LoginNow DEF Underway, Enrolling
    <3>2. CASE accountsReq[q].user = u
      BY <1>1, <1>2, <1>3, <2>3, <3>1, <3>2 DEF Enrolling, Has
    <3>3. CASE accountsReq[q].user # u
      BY <1>1, <1>2, <1>3, <3>1, <3>3 DEF Enrolling, Has
    <3>. QED
      BY <3>2, <3>3
  <2>. QED
    BY <1>1, <2>1, <2>2, <2>3 DEF Enrolling
<1>9. SameNumber'
  BY <1>1 DEF AccountsIInv, SameNumber
<1>. QED
  BY <1>2, <1>5, <1>6, <1>7, <1>8, <1>9 DEF AccountsIInv

LEMMA AccountsCrashKeeps ==
    ASSUME A!AccountsAssumption, AccountsIInv, A!Crash
    PROVE  AccountsIInv'
<1> DEFINE over == [A!Idle EXCEPT !.pc = "ended"]
<1>1. /\ A!Idle \in AccountsReq /\ A!Idle.pc = "idle"
      /\ over \in AccountsReq /\ over.pc = "ended"
  BY DEF A!Idle, AccountsReq
<1>2. /\ accountsReq' = [p \in AccountsProcs |-> IF accountsReq[p].pc = "idle" THEN A!Idle
         ELSE over]
      /\ accountsOtp' = [phone \in AccountsPhones |-> "none"]
      /\ UNCHANGED <<accountsUsers, accountsChannels, accountsTokens, accountsDrawn, accountsRisk>>
      /\ A!Fault
  BY Zenon DEF A!Crash
<1> HIDE DEF over
<1>3. AccountsTypesOK'
  <2>1. accountsReq' \in [AccountsProcs -> AccountsReq]
    BY <1>1, <1>2
  <2>2. accountsOtp' \in [AccountsPhones -> {"none", "valid", "expired"}]
    BY <1>2
  <2>3. AccountsRest'
    BY <1>2, <2>2, LoginFaults DEF AccountsIInv, AccountsTypesOK, AccountsRest
  <2>. QED
    BY <1>2, <2>1, <2>3 DEF AccountsIInv, AccountsTypesOK
<1>4. \A p \in AccountsProcs : accountsReq'[p].pc \in {"idle", "ended"}
  BY <1>1, <1>2
<1>5. OneSearches' /\ OneHas' /\ SameNumber'
  BY <1>2, <1>4 DEF OneSearches, IsSearching, AccountsIInv, OneHas, SameNumber, Has
<1>6. \A p \in AccountsProcs :
        (Underway(accountsReq[p]) /\ Enrolling(accountsReq[p]) /\ Creating(accountsReq[p]))'
  BY <1>4 DEF Underway, Enrolling, Creating
<1>. QED
  BY <1>2, <1>3, <1>5, <1>6 DEF AccountsIInv

LEMMA AccountsInductive ==
    ASSUME A!AccountsAssumption, AccountsIInv, [A!Next]_(A!vars)
    PROVE  AccountsIInv'
<1>1. CASE UNCHANGED A!vars
  <2>1. AccountsRest'
    BY <1>1 DEF A!vars, AccountsIInv, AccountsTypesOK, AccountsRest
  <2>. QED
    BY <1>1, <2>1, NoneLogs DEF A!vars
<1>2. ASSUME NEW p \in AccountsProcs, A!LoginStep(p) PROVE AccountsIInv'
  BY <1>2, FindChannelKeeps, MeKeeps, FindPhoneKeeps, CreateUserKeeps, RegisterChannelKeeps,
     VerifyListKeeps, VerifySaveKeeps, IssueKeeps, EnrollSaveKeeps DEF A!LoginStep
<1>. QED
  BY <1>1, <1>2, LoginStarts, WhatsAppTOTPEnrollKeeps, ApiVerifyKeeps, PasswordsKeep,
     DeleteUserKeeps, ApiRegisterKeeps, AccountsCrashKeeps DEF A!Next

LEMMA AccountsInvariant == Spec => [](part = "accounts" => AccountsIInv)
<1> DEFINE Runs == part = "accounts" => AccountsIInv
<1>1. Init => Runs
  BY PartStarts, AccountsInitially, ServicesAssumption
<1>2. Runs /\ [Next]_allVars => Runs'
  BY PartSteps, AccountsInductive, ServicesAssumption
<1>. QED
  BY <1>1, <1>2, PTL DEF Spec

\* However many logins run, fail half way or are cut short by a crash, a phone
\* number not at risk never gets a second user (AuthService.LoginByChannel).
THEOREM OneUser == Spec => []OneUserPerPhone
<1>1. AccountsIInv => A!OneUserPerPhone
  BY DEF AccountsIInv, OneHas, Has, A!OneUserPerPhone
<1>2. (part = "accounts" => AccountsIInv) => OneUserPerPhone
  BY <1>1 DEF OneUserPerPhone
<1>. QED
  BY <1>2, AccountsInvariant, PTL

-----------------------------------------------------------------------------
(* Notifications *)

Note == [user : NoticesUsers, read : BOOLEAN]
Comment == [by : {N!Admin}, deleted : BOOLEAN]

NoticesReq == [pc : {"idle", "note", "mark", "all", "rest", "comment", "delete", "items"},
        user : NoticesUsers \cup {None}, id : NoticesNotes \cup NoticesComments \cup {None},
        read : Note \cup Comment \cup {None}, left : SUBSET (NoticesNotes \cup NoticesProducts),
        given : SUBSET (NoticesNotes \cup NoticesProducts), spoiled : BOOLEAN, total : Nat]

-----------------------------------------------------------------------------
(* The inductive invariant *)

NoticesBounds == /\ noticesAudit \in 0..noticesRequests
                 /\ noticesRequests \in 0..NoticesMaxRequests
                 /\ noticesFaults \in 0..NoticesMaxFaults

NoticesTypes ==
    /\ noticesNotes \in [NoticesNotes -> Note \cup {None}]
    /\ noticesComments \in [NoticesComments -> Comment \cup {None}]
    /\ noticesPrice \in [NoticesProducts -> NoticesPrices \cup {None}]
    /\ noticesAsked \subseteq NoticesNotes /\ noticesCleared \subseteq NoticesNotes

\* A request knows whom, and which record, it is about.
NoticesBegun(r) ==
    /\ r.pc \in {"note", "all"} => r.user \in NoticesUsers
    /\ r.pc = "note" => r.id \in NoticesNotes
    /\ r.pc \in {"comment", "delete"} => r.id \in NoticesComments
    /\ r.pc = "delete" => r.read \in Comment
    /\ r.pc = "items" => r.left \subseteq NoticesProducts

\* A notification about to be saved is there, and belongs to whom was read.
\* n and a stand for notes and asked, of this state or the next.
Marking(r, n, a) == r.pc = "mark" =>
    /\ r.id \in NoticesNotes /\ r.id \in a /\ n[r.id] \in Note
    /\ r.read \in Note /\ r.read.user = n[r.id].user

\* Those a MarkAllAsRead was given are its user's; those it has saved are read.
Clearing(r, n, a) == r.pc = "rest" =>
    /\ r.user \in NoticesUsers /\ r.given \subseteq NoticesNotes /\ r.left \subseteq r.given
    /\ \A id \in r.given : id \in a /\ n[id] \in Note /\ n[id].user = r.user
    /\ r.spoiled \/ \A id \in r.given \ r.left : n[id].read

NoticesGood(r, n, a) == r \in NoticesReq /\ NoticesBegun(r) /\ Marking(r, n, a) /\ Clearing(r, n, a)

\* The property, with what tells a notification from none.
Asked ==
    \A id \in NoticesNotes : /\ noticesNotes[id] \in Note /\ noticesNotes[id].read =>
                                id \in noticesAsked
                             /\ id \in noticesCleared => noticesNotes[id] \in Note /\
                                 noticesNotes[id].read

NoticesIInv ==
    /\ NoticesBounds /\ NoticesTypes /\ Asked
    /\ noticesReq \in [NoticesProcs -> NoticesReq]
    /\ \A p \in NoticesProcs : NoticesGood(noticesReq[p], noticesNotes, noticesAsked)

-----------------------------------------------------------------------------
(* What every step does to the notifications: none goes, none changes      *)
(* hands, none becomes unread, none is forgotten to have been asked for.   *)

Grows ==
    /\ noticesAsked \subseteq noticesAsked'
    /\ \A id \in NoticesNotes : noticesNotes[id] \in Note =>
          /\ noticesNotes'[id] \in Note /\ noticesNotes'[id].user = noticesNotes[id].user
          /\ noticesNotes[id].read => noticesNotes'[id].read

LEMMA GoodGrows ==
    ASSUME Grows, NEW r, NoticesGood(r, noticesNotes, noticesAsked) PROVE NoticesGood(r,
        noticesNotes', noticesAsked')
<1>1. Marking(r, noticesNotes', noticesAsked')
  BY DEF NoticesGood, Marking, Grows
<1>2. Clearing(r, noticesNotes', noticesAsked')
  BY DEF NoticesGood, Clearing, Grows
<1>. QED
  BY <1>1, <1>2 DEF NoticesGood

\* A step of one request: what is left to show is its new record.
LEMMA NoticesOneMoves ==
    ASSUME NoticesIInv, Grows, NEW p \in NoticesProcs, NEW r,
        noticesReq' = [noticesReq EXCEPT ![p] = r],
           NoticesGood(r, noticesNotes', noticesAsked'), NoticesBounds', NoticesTypes', Asked'
    PROVE  NoticesIInv'
<1>1. ASSUME NEW q \in NoticesProcs
      PROVE  NoticesGood(noticesReq'[q], noticesNotes', noticesAsked')
  <2>1. CASE q = p
    BY <2>1 DEF NoticesIInv
  <2>2. CASE q # p
    <3>1. noticesReq'[q] = noticesReq[q]
      BY <2>2 DEF NoticesIInv
    <3>2. NoticesGood(noticesReq[q], noticesNotes, noticesAsked)
      BY DEF NoticesIInv
    <3>. QED
      BY <3>1, <3>2, GoodGrows
  <2>. QED
    BY <2>1, <2>2
<1>2. noticesReq' \in [NoticesProcs -> NoticesReq]
  BY DEF NoticesIInv, NoticesGood
<1>. QED
  BY <1>1, <1>2 DEF NoticesIInv

\* A step of no request.
LEMMA NoticesNoneMoves ==
    ASSUME NoticesIInv, Grows, UNCHANGED noticesReq, NoticesBounds', NoticesTypes', Asked'
    PROVE  NoticesIInv'
<1>1. \A q \in NoticesProcs : NoticesGood(noticesReq'[q], noticesNotes', noticesAsked')
  BY GoodGrows DEF NoticesIInv
<1>. QED
  BY <1>1 DEF NoticesIInv

\* Where the notifications and what was asked for stay, so does all about them.
LEMMA NotesStay ==
    ASSUME NoticesIInv, UNCHANGED <<noticesNotes, noticesAsked, noticesCleared>>
    PROVE  Grows /\ Asked'
<1>1. Grows
  BY DEF Grows
<1>2. Asked'
  BY DEF NoticesIInv, Asked
<1>. QED
  BY <1>1, <1>2

\* The bounds hold through a call that fails and one that does not.
LEMMA CallsBounded ==
    ASSUME N!NoticesAssumption, NoticesBounds, N!Step \/ N!Fault, UNCHANGED noticesAudit
    PROVE  NoticesBounds'
BY DEF NoticesBounds, N!Step, N!Fault, N!NoticesAssumption

\* The record of a request has the fields of Idle.
LEMMA NoticesCurrent ==
    ASSUME NoticesIInv, NEW p \in NoticesProcs
    PROVE  noticesReq[p] \in NoticesReq /\ NoticesGood(noticesReq[p], noticesNotes, noticesAsked)
BY DEF NoticesIInv

LEMMA IdleGood == ASSUME NEW n, NEW a PROVE NoticesGood(N!Idle, n, a)
BY DEF NoticesGood, N!Idle, NoticesReq, NoticesBegun, Marking, Clearing

\* A request that ends, the notifications as they are.
LEMMA EndKeeps ==
    ASSUME N!NoticesAssumption, NoticesIInv, NEW p \in NoticesProcs, N!Done(p), N!Step \/ N!Fault,
           UNCHANGED <<noticesNotes, N!others, noticesAsked, noticesCleared>>
    PROVE  NoticesIInv'
<1>1. Grows /\ Asked'
  BY NotesStay
<1>2. NoticesBounds' /\ NoticesTypes'
  BY CallsBounded DEF NoticesIInv, NoticesTypes, N!others
<1>. QED
  BY <1>1, <1>2, IdleGood, NoticesOneMoves DEF N!Done

\* A request that begins.
LEMMA BeginKeeps ==
    ASSUME N!NoticesAssumption, NoticesIInv, NEW p \in NoticesProcs, NEW r \in NoticesReq,
        NoticesBegun(r),
           r.pc \notin {"mark", "rest"}, N!Begin(p, r),
           UNCHANGED <<noticesNotes, N!others, noticesAsked, noticesCleared>>
    PROVE  NoticesIInv'
<1>1. Grows /\ Asked'
  BY NotesStay
<1>2. NoticesBounds' /\ NoticesTypes'
  BY DEF NoticesIInv, NoticesBounds, NoticesTypes, N!others, N!Begin, N!NoticesAssumption
<1>3. NoticesGood(r, noticesNotes', noticesAsked')
  BY DEF NoticesGood, Marking, Clearing
<1>. QED
  BY <1>1, <1>2, <1>3, NoticesOneMoves DEF N!Begin

-----------------------------------------------------------------------------
(* One lemma per action *)

LEMMA SendKeeps ==
    ASSUME N!NoticesAssumption, NoticesIInv, NEW id \in NoticesNotes, NEW user \in NoticesUsers,
        N!Send(id, user)
    PROVE  NoticesIInv'
<1>1. noticesNotes' = [noticesNotes EXCEPT ![id] = [user |-> user, read |-> FALSE]] /\
    noticesNotes[id] = None
  BY DEF N!Send
<1>2. None \notin Note
  BY DEF N!NoticesAssumption, Note
<1>3. NoticesTypes' /\ NoticesBounds'
  BY <1>1 DEF N!Send, N!others, NoticesIInv, NoticesTypes, NoticesBounds, Note
<1>4. Grows
  BY <1>1, <1>2 DEF N!Send, Grows, NoticesIInv, NoticesTypes
<1>5. Asked'
  BY <1>1, <1>2 DEF N!Send, Asked, NoticesIInv, NoticesTypes, Note
<1>. QED
  BY <1>3, <1>4, <1>5, NoticesNoneMoves DEF N!Send

LEMMA MarkGetKeeps ==
    ASSUME N!NoticesAssumption, NoticesIInv, NEW p \in NoticesProcs, N!MarkGet(p)
    PROVE  NoticesIInv'
<1> DEFINE n == noticesNotes[noticesReq[p].id]
<1>1. NoticesGood(noticesReq[p], noticesNotes, noticesAsked) /\ noticesReq[p].pc = "note" /\
    noticesReq[p].id \in NoticesNotes
  BY NoticesCurrent DEF N!MarkGet, NoticesGood, NoticesBegun
<1>2. CASE n = None \/ n.user # noticesReq[p].user
  BY <1>2, EndKeeps DEF N!MarkGet
<1>3. CASE ~ (n = None \/ n.user # noticesReq[p].user)
  <2> DEFINE r == [noticesReq[p] EXCEPT !.pc = "mark", !.read = n]
  <2>1. noticesReq' = [noticesReq EXCEPT ![p] = r] /\ noticesAsked' = noticesAsked \cup
      {noticesReq[p].id} /\ UNCHANGED <<noticesNotes, noticesCleared>>
    BY <1>3 DEF N!MarkGet
  <2>2. n \in Note
    BY <1>1, <1>3 DEF NoticesIInv, NoticesTypes
  <2>3. NoticesGood(r, noticesNotes', noticesAsked')
    BY <1>1, <2>1, <2>2 DEF NoticesGood, NoticesReq, NoticesBegun, Marking, Clearing
  <2>4. Grows /\ Asked'
    BY <2>1 DEF Grows, NoticesIInv, Asked
  <2>5. NoticesBounds' /\ NoticesTypes'
    BY <1>1, <2>1, CallsBounded DEF N!MarkGet, N!others, NoticesIInv, NoticesTypes
  <2> HIDE DEF r
  <2>. QED
    BY <2>1, <2>3, <2>4, <2>5, NoticesOneMoves
<1>. QED
  BY <1>2, <1>3

\* What is saved is what was read, with the mark: no other step changed its owner.
LEMMA MarkSaveKeeps ==
    ASSUME N!NoticesAssumption, NoticesIInv, NEW p \in NoticesProcs, N!MarkSave(p)
    PROVE  NoticesIInv'
<1> DEFINE m == [noticesReq[p].read EXCEPT !.read = TRUE]
<1>1. /\ noticesReq[p].id \in NoticesNotes /\ noticesReq[p].id \in noticesAsked
      /\ noticesNotes[noticesReq[p].id] \in Note
      /\ noticesReq[p].read \in Note
      /\ noticesReq[p].read.user = noticesNotes[noticesReq[p].id].user
  BY NoticesCurrent DEF N!MarkSave, NoticesGood, Marking
<1>2. m \in Note /\ m.read /\ m.user = noticesNotes[noticesReq[p].id].user
  BY <1>1 DEF Note
<1>3. /\ noticesNotes' = [noticesNotes EXCEPT ![noticesReq[p].id] = m]
      /\ noticesReq' = [noticesReq EXCEPT ![p] = N!Idle]
      /\ UNCHANGED <<N!others, noticesAsked, noticesCleared>> /\ N!Step
  BY DEF N!MarkSave, N!Done
<1> HIDE DEF m
<1>4. NoticesTypes' /\ NoticesBounds'
  BY <1>1, <1>2, <1>3, CallsBounded DEF NoticesIInv, NoticesTypes, N!others
<1>5. Grows
  BY <1>1, <1>2, <1>3 DEF Grows, NoticesIInv, NoticesTypes
<1>6. Asked'
  BY <1>1, <1>2, <1>3 DEF Asked, NoticesIInv, NoticesTypes
<1>. QED
  BY <1>3, <1>4, <1>5, <1>6, IdleGood, NoticesOneMoves

LEMMA MarkAllListKeeps ==
    ASSUME N!NoticesAssumption, NoticesIInv, NEW p \in NoticesProcs, N!MarkAllList(p)
    PROVE  NoticesIInv'
<1> DEFINE found == N!Unread(noticesReq[p].user)
           r == [noticesReq[p] EXCEPT !.pc = "rest", !.left = found, !.given = found]
<1>1. NoticesGood(noticesReq[p], noticesNotes, noticesAsked) /\ noticesReq[p].user \in NoticesUsers
  BY NoticesCurrent DEF N!MarkAllList, NoticesGood, NoticesBegun
<1>2. noticesReq' = [noticesReq EXCEPT ![p] = r] /\ noticesAsked' = noticesAsked \cup found /\
    UNCHANGED <<noticesNotes, noticesCleared>>
  BY DEF N!MarkAllList
<1>3. found \subseteq NoticesNotes /\ \A id \in found : noticesNotes[id] \in Note /\
    noticesNotes[id].user = noticesReq[p].user
  <2>1. SUFFICES ASSUME NEW id \in found
                 PROVE  id \in NoticesNotes /\ noticesNotes[id] \in Note /\
                     noticesNotes[id].user = noticesReq[p].user
    OBVIOUS
  <2>2. id \in NoticesNotes /\ noticesNotes[id] = [user |-> noticesReq[p].user, read |-> FALSE]
    BY <2>1 DEF N!Unread
  <2>. QED
    BY <1>1, <2>2 DEF Note
<1> HIDE DEF found
<1>4. NoticesGood(r, noticesNotes', noticesAsked')
  BY <1>1, <1>2, <1>3 DEF NoticesGood, NoticesReq, NoticesBegun, Marking, Clearing
<1>5. Grows /\ Asked'
  BY <1>2 DEF Grows, NoticesIInv, Asked
<1>6. NoticesBounds' /\ NoticesTypes'
  BY <1>2, <1>3, CallsBounded DEF N!MarkAllList, N!others, NoticesIInv, NoticesTypes
<1> HIDE DEF r
<1>. QED
  BY <1>2, <1>4, <1>5, <1>6, NoticesOneMoves

LEMMA MarkAllSaveKeeps ==
    ASSUME N!NoticesAssumption, NoticesIInv, NEW p \in NoticesProcs, NEW id \in NoticesNotes,
        N!MarkAllSave(p, id)
    PROVE  NoticesIInv'
<1>1. /\ NoticesGood(noticesReq[p], noticesNotes, noticesAsked) /\ noticesReq[p].pc = "rest"
      /\ id \in noticesReq[p].left
      /\ noticesReq[p].user \in NoticesUsers
  BY NoticesCurrent DEF N!MarkAllSave, NoticesGood, Clearing
<1>2. id \in noticesAsked /\ noticesNotes[id] \in Note /\ noticesNotes[id].user = noticesReq[p].user
  BY <1>1 DEF NoticesGood, Clearing
<1>3. NoticesBounds' /\ UNCHANGED <<N!others, noticesAsked, noticesCleared>>
  BY CallsBounded DEF N!MarkAllSave, N!others, NoticesIInv
<1>4. CASE /\ noticesReq' = [noticesReq EXCEPT ![p].left = @ \ {id}]
           /\ noticesNotes' = [noticesNotes EXCEPT ![id] = [user |-> noticesReq[p].user,
               read |-> TRUE]]
  <2> DEFINE r == [noticesReq[p] EXCEPT !.left = @ \ {id}]
             m == [user |-> noticesReq[p].user, read |-> TRUE]
  <2>1. m \in Note /\ m.read /\ m.user = noticesNotes[id].user
    BY <1>1, <1>2 DEF Note
  <2>2. noticesReq' = [noticesReq EXCEPT ![p] = r] /\
      noticesNotes' = [noticesNotes EXCEPT ![id] = m]
    BY <1>4
  <2> HIDE DEF m
  <2>3. Grows
    BY <1>2, <1>3, <2>1, <2>2 DEF Grows, NoticesIInv, NoticesTypes
  <2>4. Asked'
    BY <1>2, <1>3, <2>1, <2>2 DEF Asked, NoticesIInv, NoticesTypes
  <2>5. NoticesTypes'
    BY <1>3, <2>1, <2>2 DEF N!others, NoticesIInv, NoticesTypes
  <2>6. NoticesGood(r, noticesNotes', noticesAsked')
    <3>1. r \in NoticesReq /\ NoticesBegun(r) /\ Marking(r, noticesNotes', noticesAsked')
      BY <1>1 DEF NoticesGood, NoticesReq, NoticesBegun, Marking
    <3>2. noticesNotes'[id] = m /\ \A x \in NoticesNotes \ {id} : noticesNotes'[x] = noticesNotes[x]
      BY <2>2 DEF NoticesIInv, NoticesTypes
    <3>3. Clearing(r, noticesNotes', noticesAsked')
      BY <1>1, <1>2, <1>3, <2>1, <3>2 DEF NoticesGood, NoticesReq, Clearing
    <3>. QED
      BY <3>1, <3>3 DEF NoticesGood
  <2> HIDE DEF r
  <2>. QED
    BY <1>3, <2>2, <2>3, <2>4, <2>5, <2>6, NoticesOneMoves
<1>5. CASE noticesReq' = [noticesReq EXCEPT ![p].left = @ \ {id}, ![p].spoiled = TRUE] /\
    UNCHANGED noticesNotes
  <2> DEFINE r == [noticesReq[p] EXCEPT !.left = @ \ {id}, !.spoiled = TRUE]
  <2>1. noticesReq' = [noticesReq EXCEPT ![p] = r]
    BY <1>5
  <2>2. Grows /\ Asked'
    BY <1>3, <1>5, NotesStay
  <2>3. NoticesTypes'
    BY <1>3, <1>5 DEF N!others, NoticesIInv, NoticesTypes
  <2>4. NoticesGood(r, noticesNotes', noticesAsked')
    BY <1>1, <1>3, <1>5 DEF NoticesGood, NoticesReq, NoticesBegun, Marking, Clearing
  <2> HIDE DEF r
  <2>. QED
    BY <1>3, <2>1, <2>2, <2>3, <2>4, NoticesOneMoves
<1>. QED
  BY <1>4, <1>5 DEF N!MarkAllSave

LEMMA MarkAllReturnsKeeps ==
    ASSUME N!NoticesAssumption, NoticesIInv, NEW p \in NoticesProcs, N!MarkAllReturns(p)
    PROVE  NoticesIInv'
<1>1. /\ NoticesGood(noticesReq[p], noticesNotes, noticesAsked) /\ noticesReq[p].pc = "rest"
      /\ noticesReq[p].left = {}
      /\ noticesReq' = [noticesReq EXCEPT ![p] = N!Idle] /\ UNCHANGED <<noticesNotes, N!others,
          noticesAsked>> /\ N!Step
  BY NoticesCurrent DEF N!MarkAllReturns, N!Done
<1>2. /\ noticesReq[p].given \subseteq NoticesNotes
      /\ noticesReq[p].spoiled \/ \A id \in noticesReq[p].given : noticesNotes[id] \in Note /\
          noticesNotes[id].read
  BY <1>1 DEF NoticesGood, Clearing
<1>3. noticesCleared' = IF noticesReq[p].spoiled THEN noticesCleared ELSE noticesCleared \cup
    noticesReq[p].given
  BY DEF N!MarkAllReturns
<1>4. NoticesTypes' /\ NoticesBounds'
  BY <1>1, <1>2, <1>3, CallsBounded DEF NoticesIInv, NoticesTypes, N!others
<1>5. Grows /\ Asked'
  BY <1>1, <1>2, <1>3 DEF Grows, Asked, NoticesIInv
<1>. QED
  BY <1>1, <1>4, <1>5, IdleGood, NoticesOneMoves

LEMMA SaveCommentKeeps ==
    ASSUME N!NoticesAssumption, NoticesIInv, NEW id \in NoticesComments, N!SaveComment(id)
    PROVE  NoticesIInv'
<1>1. Grows /\ Asked'
  BY NotesStay DEF N!SaveComment
<1>2. NoticesTypes' /\ NoticesBounds'
  BY DEF N!SaveComment, NoticesIInv, NoticesTypes, NoticesBounds, Comment, N!NoticesAssumption
<1>. QED
  BY <1>1, <1>2, NoticesNoneMoves DEF N!SaveComment

LEMMA DeleteSingleKeeps ==
    ASSUME N!NoticesAssumption, NoticesIInv, NEW p \in NoticesProcs, N!DeleteSingle(p)
    PROVE  NoticesIInv'
<1> DEFINE c == noticesComments[noticesReq[p].id]
<1>1. NoticesGood(noticesReq[p], noticesNotes, noticesAsked) /\ noticesReq[p].pc = "comment" /\
    noticesReq[p].id \in NoticesComments
  BY NoticesCurrent DEF N!DeleteSingle, NoticesGood, NoticesBegun
<1>2. CASE c = None \/ c.by # N!Admin
  BY <1>2, EndKeeps DEF N!DeleteSingle
<1>3. CASE ~ (c = None \/ c.by # N!Admin)
  <2> DEFINE r == [noticesReq[p] EXCEPT !.pc = "delete", !.read = c]
  <2>1. noticesReq' = [noticesReq EXCEPT ![p] = r] /\ UNCHANGED <<noticesNotes, N!others,
      noticesAsked, noticesCleared>> /\ N!Step
    BY <1>3 DEF N!DeleteSingle
  <2>2. c \in Comment
    BY <1>1, <1>3 DEF NoticesIInv, NoticesTypes
  <2>3. NoticesGood(r, noticesNotes', noticesAsked')
    BY <1>1, <2>2 DEF NoticesGood, NoticesReq, NoticesBegun, Marking, Clearing
  <2>4. Grows /\ Asked' /\ NoticesBounds' /\ NoticesTypes'
    BY <2>1, NotesStay, CallsBounded DEF N!others, NoticesIInv, NoticesTypes
  <2> HIDE DEF r
  <2>. QED
    BY <2>1, <2>3, <2>4, NoticesOneMoves
<1>. QED
  BY <1>2, <1>3

LEMMA DeleteSaveKeeps ==
    ASSUME N!NoticesAssumption, NoticesIInv, NEW p \in NoticesProcs, N!DeleteSave(p)
    PROVE  NoticesIInv'
<1>1. noticesReq[p].id \in NoticesComments /\ [noticesReq[p].read EXCEPT !.deleted = TRUE] \in
    Comment
  BY NoticesCurrent DEF N!DeleteSave, NoticesGood, NoticesBegun, Comment
<1>2. NoticesTypes' /\ NoticesBounds'
  BY <1>1, CallsBounded DEF N!DeleteSave, NoticesIInv, NoticesTypes
<1>3. Grows /\ Asked'
  BY NotesStay DEF N!DeleteSave
<1>. QED
  BY <1>2, <1>3, IdleGood, NoticesOneMoves DEF N!DeleteSave, N!Done

LEMMA FetchProductKeeps ==
    ASSUME N!NoticesAssumption, NoticesIInv, NEW p \in NoticesProcs,
        NEW product \in NoticesProducts,
           N!FetchProduct(p, product)
    PROVE  NoticesIInv'
<1>1. NoticesGood(noticesReq[p], noticesNotes, noticesAsked) /\ noticesReq[p].pc = "items"
  BY NoticesCurrent DEF N!FetchProduct
<1>2. CASE noticesPrice[product] = None
  BY <1>2, EndKeeps DEF N!FetchProduct
<1>3. CASE noticesPrice[product] # None
  <2> DEFINE r == [noticesReq[p] EXCEPT !.left = @ \ {product}, !.total = @ + noticesPrice[product]]
  <2>1. noticesReq' = [noticesReq EXCEPT ![p] = r] /\ UNCHANGED <<noticesNotes, N!others,
      noticesAsked, noticesCleared>> /\ N!Step
    BY <1>3 DEF N!FetchProduct
  <2>2. noticesPrice[product] \in Nat
    BY <1>3 DEF NoticesIInv, NoticesTypes, N!NoticesAssumption
  <2> DEFINE total == noticesReq[p].total + noticesPrice[product]
             left == noticesReq[p].left \ {product}
  <2>3. total \in Nat /\ left \in SUBSET (NoticesNotes \cup NoticesProducts) /\
      left \subseteq NoticesProducts
    BY <1>1, <2>2 DEF NoticesGood, NoticesReq, NoticesBegun
  <2>4. r = [noticesReq[p] EXCEPT !.left = left, !.total = total]
    BY <1>1 DEF NoticesGood, NoticesReq
  <2> HIDE DEF total, left, r
  <2>5. NoticesGood(r, noticesNotes', noticesAsked')
    BY <1>1, <2>3, <2>4 DEF NoticesGood, NoticesReq, NoticesBegun, Marking, Clearing
  <2>6. Grows /\ Asked' /\ NoticesBounds' /\ NoticesTypes'
    BY <2>1, NotesStay, CallsBounded DEF N!others, NoticesIInv, NoticesTypes
  <2>. QED
    BY <2>1, <2>5, <2>6, NoticesOneMoves
<1>. QED
  BY <1>2, <1>3

LEMMA InsertCheckoutKeeps ==
    ASSUME N!NoticesAssumption, NoticesIInv, NEW p \in NoticesProcs, N!InsertCheckout(p)
    PROVE  NoticesIInv'
<1>1. NoticesTypes' /\ NoticesBounds'
  BY CallsBounded DEF N!InsertCheckout, NoticesIInv, NoticesTypes
<1>2. Grows /\ Asked'
  BY NotesStay DEF N!InsertCheckout
<1>. QED
  BY <1>1, <1>2, IdleGood, NoticesOneMoves DEF N!InsertCheckout, N!Done

LEMMA LogKeeps == ASSUME N!NoticesAssumption, NoticesIInv, N!Log PROVE NoticesIInv'
<1>1. Grows /\ Asked'
  BY NotesStay DEF N!Log
<1>2. NoticesTypes' /\ NoticesBounds'
  BY DEF N!Log, NoticesIInv, NoticesTypes, NoticesBounds, N!NoticesAssumption
<1>. QED
  BY <1>1, <1>2, NoticesNoneMoves DEF N!Log

LEMMA RepriceKeeps ==
    ASSUME N!NoticesAssumption, NoticesIInv, NEW product \in NoticesProducts,
        NEW new \in NoticesPrices \cup {None},
           N!Reprice(product, new)
    PROVE  NoticesIInv'
<1>1. Grows /\ Asked'
  BY NotesStay DEF N!Reprice
<1>2. NoticesTypes' /\ NoticesBounds'
  BY DEF N!Reprice, NoticesIInv, NoticesTypes, NoticesBounds, N!NoticesAssumption
<1>. QED
  BY <1>1, <1>2, NoticesNoneMoves DEF N!Reprice

LEMMA RequestsKeep ==
    ASSUME N!NoticesAssumption, NoticesIInv, NEW p \in NoticesProcs,
           \/ \E user \in NoticesUsers : N!MarkAllAsRead(p, user) \/
               \E id \in NoticesNotes : N!MarkAsRead(p, user, id)
           \/ \E id \in NoticesComments : N!DeleteComment(p, id)
           \/ \E items \in SUBSET NoticesProducts : N!CreateCheckout(p, items)
    PROVE  NoticesIInv'
<1>1. ASSUME NEW user \in NoticesUsers, N!MarkAllAsRead(p, user) PROVE NoticesIInv'
  <2> DEFINE r == [N!Idle EXCEPT !.pc = "all", !.user = user]
  <2>1. r \in NoticesReq /\ NoticesBegun(r) /\ r.pc \notin {"mark", "rest"}
    BY DEF N!Idle, NoticesReq, NoticesBegun
  <2> HIDE DEF r
  <2>. QED
    BY <1>1, <2>1, BeginKeeps DEF N!MarkAllAsRead, r
<1>2. ASSUME NEW user \in NoticesUsers, NEW id \in NoticesNotes, N!MarkAsRead(p, user,
    id) PROVE NoticesIInv'
  <2> DEFINE r == [N!Idle EXCEPT !.pc = "note", !.user = user, !.id = id]
  <2>1. r \in NoticesReq /\ NoticesBegun(r) /\ r.pc \notin {"mark", "rest"}
    BY DEF N!Idle, NoticesReq, NoticesBegun
  <2> HIDE DEF r
  <2>. QED
    BY <1>2, <2>1, BeginKeeps DEF N!MarkAsRead, r
<1>3. ASSUME NEW id \in NoticesComments, N!DeleteComment(p, id) PROVE NoticesIInv'
  <2> DEFINE r == [N!Idle EXCEPT !.pc = "comment", !.id = id]
  <2>1. r \in NoticesReq /\ NoticesBegun(r) /\ r.pc \notin {"mark", "rest"}
    BY DEF N!Idle, NoticesReq, NoticesBegun
  <2> HIDE DEF r
  <2>. QED
    BY <1>3, <2>1, BeginKeeps DEF N!DeleteComment, r
<1>4. ASSUME NEW items \in SUBSET NoticesProducts, N!CreateCheckout(p, items) PROVE NoticesIInv'
  <2> DEFINE r == [N!Idle EXCEPT !.pc = "items", !.left = items, !.given = items]
  <2>1. r \in NoticesReq /\ NoticesBegun(r) /\ r.pc \notin {"mark", "rest"}
    BY DEF N!Idle, NoticesReq, NoticesBegun
  <2> HIDE DEF r
  <2>. QED
    BY <1>4, <2>1, BeginKeeps DEF N!CreateCheckout, r
<1>. QED
  BY <1>1, <1>2, <1>3, <1>4

LEMMA NoticesFailKeeps == ASSUME N!NoticesAssumption, NoticesIInv, NEW p \in NoticesProcs,
    N!Fail(p) PROVE NoticesIInv'
BY EndKeeps DEF N!Fail

-----------------------------------------------------------------------------
(* The theorems *)

LEMMA NoticesInitially == ASSUME N!NoticesAssumption, N!Init PROVE NoticesIInv
<1>1. NoticesBounds /\ NoticesTypes
  BY DEF N!Init, NoticesBounds, NoticesTypes, N!NoticesAssumption
<1>2. Asked
  BY DEF N!Init, Asked, N!NoticesAssumption, Note
<1>3. noticesReq \in [NoticesProcs -> NoticesReq] /\
    \A p \in NoticesProcs : NoticesGood(noticesReq[p], noticesNotes, noticesAsked)
  BY IdleGood DEF N!Init, NoticesGood
<1>. QED
  BY <1>1, <1>2, <1>3 DEF NoticesIInv

LEMMA NoticesInductive == ASSUME N!NoticesAssumption, NoticesIInv,
    [N!Next]_(N!vars) PROVE NoticesIInv'
<1>1. CASE UNCHANGED N!vars
  <2>1. UNCHANGED <<noticesNotes, N!others, noticesReq, noticesRequests, noticesFaults,
      noticesAsked, noticesCleared>>
    BY <1>1 DEF N!vars, N!others
  <2>2. Grows /\ Asked' /\ NoticesBounds' /\ NoticesTypes'
    BY <2>1, NotesStay DEF N!others, NoticesIInv, NoticesBounds, NoticesTypes
  <2>. QED
    BY <2>1, <2>2, NoticesNoneMoves
<1>2. ASSUME NEW p \in NoticesProcs,
             \/ \E user \in NoticesUsers : N!MarkAllAsRead(p, user) \/
                 \E id \in NoticesNotes : N!MarkAsRead(p, user, id)
             \/ \E id \in NoticesComments : N!DeleteComment(p, id)
             \/ \E items \in SUBSET NoticesProducts : N!CreateCheckout(p, items)
      PROVE  NoticesIInv'
  BY <1>2, RequestsKeep
<1>3. ASSUME NEW p \in NoticesProcs, \/ N!MarkGet(p) \/ N!MarkSave(p) \/ N!MarkAllList(p)
                                     \/ N!MarkAllReturns(p) \/ N!Fail(p)
                                     \/ N!DeleteSingle(p) \/ N!DeleteSave(p) \/ N!InsertCheckout(p)
      PROVE  NoticesIInv'
  BY <1>3, MarkGetKeeps, MarkSaveKeeps, MarkAllListKeeps, MarkAllReturnsKeeps, NoticesFailKeeps,
     DeleteSingleKeeps, DeleteSaveKeeps, InsertCheckoutKeeps
<1>4. ASSUME NEW p \in NoticesProcs, \/ \E id \in NoticesNotes : N!MarkAllSave(p, id)
                                     \/ \E product \in NoticesProducts : N!FetchProduct(p, product)
      PROVE  NoticesIInv'
  BY <1>4, MarkAllSaveKeeps, FetchProductKeeps
<1>5. ASSUME \/ \E id \in NoticesNotes, user \in NoticesUsers : N!Send(id, user)
             \/ \E id \in NoticesComments : N!SaveComment(id)
             \/ \E product \in NoticesProducts, new \in NoticesPrices \cup
                 {None} : N!Reprice(product, new)
             \/ N!Log
      PROVE  NoticesIInv'
  BY <1>5, SendKeeps, SaveCommentKeeps, RepriceKeeps, LogKeeps
<1>. QED
  BY <1>1, <1>2, <1>3, <1>4, <1>5 DEF N!Next

LEMMA NoticesInvariant == Spec => [](part = "notices" => NoticesIInv)
<1>1. Init => (part = "notices" => NoticesIInv)
  BY PartStarts, NoticesInitially, ServicesAssumption
<1>2. (part = "notices" => NoticesIInv) /\ [Next]_allVars => (part = "notices" => NoticesIInv)'
  BY PartSteps, NoticesInductive, ServicesAssumption
<1>. QED
  BY <1>1, <1>2, PTL DEF Spec

\* Every variable keeps its type, and there are at most as many audit records
\* as requests (AuditService.Log).
THEOREM NoticesTypeCorrect == Spec => [](part = "notices" => N!TypeOK)
<1>. N!NoticesAssumption
  BY ServicesAssumption
<1>1. NoticesIInv => N!TypeOK
  BY DEF NoticesIInv, NoticesBounds, NoticesTypes, N!TypeOK, Note, Comment, N!ListComments,
      N!NoticesAssumption
<1>2. (part = "notices" => NoticesIInv) => (part = "notices" => N!TypeOK)
  BY <1>1
<1>. QED
  BY <1>2, NoticesInvariant, PTL

\* However many requests mark notifications at a time, and whichever calls
\* fail, one is read only if its owner asked for it, and after a MarkAllAsRead
\* without a failed call all it was given are and stay read
\* (NotificationService.MarkAsRead, MarkAllAsRead).
THEOREM OwnersDecide == Spec => []ReadAsAsked
<1>. N!NoticesAssumption
  BY ServicesAssumption
<1>1. NoticesIInv => N!ReadAsAsked
  BY DEF NoticesIInv, NoticesTypes, Asked, N!ReadAsAsked, Note, N!NoticesAssumption
<1>2. (part = "notices" => NoticesIInv) => ReadAsAsked
  BY <1>1 DEF ReadAsAsked
<1>. QED
  BY <1>2, NoticesInvariant, PTL

-----------------------------------------------------------------------------
(* Files with a time to live *)

TempReq == [pc : {"idle", "get", "download", "delete", "purge"}, file : TempFiles \cup {None},
            path : F!Paths \cup {None}, now : 0 .. TempMaxClock,
            left : SUBSET TempFiles, doomed : SUBSET TempFiles]

TempTimes == [TempFiles -> (0 .. TempMaxClock) \cup {None}]

TempTypes ==
    /\ tempStore \in {"local", "gcs", "s3", "sql"}
    /\ tempClock \in 0 .. TempMaxClock /\ tempFaults \in 0 .. TempMaxFaults
    /\ tempFiles \in TempTimes /\ tempReq \in [TempProcs -> TempReq]

\* What a request knows; s, c and f stand for the store, the clock and the files
\* of this state or the next.  What it may serve was in time when it asked, or
\* came later; what it is going to remove was over its time then, or came later.
TempGood(r, s, c, f) ==
    /\ r.now <= c
    /\ r.pc \in {"get", "download"} =>
          r.file \in TempFiles /\ r.path = TempPathOf[r.file] /\ r.path \in F!Paths
    /\ r.pc = "download" => f[r.file] = None \/ r.now <= f[r.file] + TempTTL[r.path]
    /\ r.pc = "delete" => r.file \in TempFiles
    /\ r.pc = "purge" =>
          /\ r.path \in F!Paths
          /\ s = "local" => \A x \in r.left \cup r.doomed : TempPathOf[x] = r.path
          /\ \A x \in r.doomed : f[x] = None \/ f[x] >= r.now \/ r.now - f[x] > TempTTL[r.path]

TempIInv ==
    /\ TempTypes
    /\ \A p \in TempProcs : TempGood(tempReq[p], tempStore, tempClock, tempFiles)

\* What every step does to the files: one stays, goes, or is stored now.
TempMoves ==
    /\ tempStore' = tempStore /\ tempClock <= tempClock'
    /\ tempClock' \in 0 .. TempMaxClock /\ tempFaults' \in 0 .. TempMaxFaults
    /\ tempFiles' \in TempTimes
    /\ \A x \in TempFiles : tempFiles'[x] \in {tempFiles[x], None, tempClock}

LEMMA TempInitially == ASSUME F!TempAccessAssumption, F!Init PROVE TempIInv
<1>1. F!Idle \in TempReq /\ F!Idle.pc = "idle" /\ F!Idle.now = 0
  BY DEF F!Idle, TempReq, F!TempAccessAssumption
<1>. QED
  BY <1>1 DEF F!Init, TempIInv, TempTypes, TempTimes, TempGood, F!TempAccessAssumption

LEMMA TempNow ==
    ASSUME TempIInv, NEW p \in TempProcs
    PROVE  tempReq[p] \in TempReq /\ TempGood(tempReq[p], tempStore, tempClock, tempFiles)
BY DEF TempIInv, TempTypes

LEMMA TempGoodMoves ==
    ASSUME F!TempAccessAssumption, TempIInv, TempMoves, NEW r \in TempReq,
           TempGood(r, tempStore, tempClock, tempFiles)
    PROVE  TempGood(r, tempStore', tempClock', tempFiles')
<1>1. /\ tempClock \in Nat /\ tempClock' \in Nat /\ tempClock <= tempClock' /\ r.now \in Nat
      /\ r.now <= tempClock /\ None \notin 0 .. TempMaxClock
      /\ \A x \in TempFiles : tempFiles[x] \in Nat \cup {None}
      /\ \A path \in F!Paths : TempTTL[path] \in Nat
  BY DEF TempIInv, TempTypes, TempTimes, TempMoves, TempReq, TempGood, F!TempAccessAssumption
<1>2. ASSUME r.pc = "download"
      PROVE  tempFiles'[r.file] = None \/ r.now <= tempFiles'[r.file] + TempTTL[r.path]
  <2>1. /\ r.file \in TempFiles /\ TempTTL[r.path] \in Nat
        /\ tempFiles[r.file] = None \/ r.now <= tempFiles[r.file] + TempTTL[r.path]
    BY <1>1, <1>2 DEF TempGood
  <2>2. tempFiles'[r.file] \in {tempFiles[r.file], None, tempClock}
    BY <2>1 DEF TempMoves
  <2>. QED
    BY <1>1, <2>1, <2>2
<1>3. ASSUME r.pc = "purge", NEW x \in r.doomed
      PROVE  \/ tempFiles'[x] = None \/ tempFiles'[x] >= r.now
             \/ r.now - tempFiles'[x] > TempTTL[r.path]
  <2>1. /\ x \in TempFiles
        /\ tempFiles[x] = None \/ tempFiles[x] >= r.now \/ r.now - tempFiles[x] > TempTTL[r.path]
    BY <1>3 DEF TempGood, TempReq
  <2>2. tempFiles'[x] \in {tempFiles[x], None, tempClock}
    BY <2>1 DEF TempMoves
  <2>. QED
    BY <1>1, <2>1, <2>2
<1>4. r.now <= tempClock' /\ tempStore' = tempStore
  BY <1>1 DEF TempMoves
<1>. QED
  BY <1>2, <1>3, <1>4 DEF TempGood

LEMMA TempAllMove ==
    ASSUME F!TempAccessAssumption, TempIInv, F!Next
    PROVE  TempMoves
<1>. /\ tempClock \in 0 .. TempMaxClock /\ TempMaxClock \in Nat /\ TempMaxFaults \in Nat
     /\ tempFaults \in 0 .. TempMaxFaults /\ tempFiles \in TempTimes
  BY DEF TempIInv, TempTypes, F!TempAccessAssumption
<1>1. ASSUME UNCHANGED tempFiles, F!Same \/ F!Fault PROVE TempMoves
  BY <1>1 DEF TempMoves, F!Same, F!Fault
<1>2. ASSUME NEW x \in TempFiles, NEW t \in {tempClock, None}, UNCHANGED <<tempStore, tempClock>>,
             tempFiles' = [tempFiles EXCEPT ![x] = t], UNCHANGED tempFaults
      PROVE  TempMoves
  BY <1>2 DEF TempMoves, TempTimes
<1>3. ASSUME NEW p \in TempProcs, F!PurgeRows(p) PROVE TempMoves
  BY <1>3 DEF TempMoves, TempTimes, F!PurgeRows, F!Same
<1>4. CASE F!Tick
  BY <1>4 DEF TempMoves, F!Tick
<1>5. ASSUME NEW p \in TempProcs, NEW x \in TempFiles, F!Remove(p, x) PROVE TempMoves
  BY <1>1, <1>2, <1>5 DEF F!Remove, F!Same
<1>6. ASSUME NEW p \in TempProcs, F!DeleteFile(p) PROVE TempMoves
  <2>1. tempReq[p].file \in TempFiles
    BY <1>6, TempNow DEF F!DeleteFile, TempGood
  <2>. QED
    BY <1>2, <1>6, <2>1 DEF F!DeleteFile, F!Same
<1>7. ASSUME NEW user, NEW x \in TempFiles, F!Upload(user, x) \/ F!Store(x) PROVE TempMoves
  BY <1>2, <1>7 DEF F!Upload, F!Store
<1>8. ASSUME NEW p \in TempProcs,
             \/ \E x \in TempFiles : F!Get(p, x)
             \/ \E user \in DOMAIN TempRoles, x \in TempFiles : F!Delete(p, user, x)
             \/ \E user \in DOMAIN TempRoles, path \in F!Paths : F!CleanupExpired(p, user, path)
             \/ \E page \in SUBSET TempFiles : F!Look(p, page)
             \/ F!IsExpired(p) \/ F!Download(p) \/ F!PurgeReturns(p) \/ F!Fail(p)
      PROVE  TempMoves
  BY <1>1, <1>8 DEF F!Get, F!Delete, F!CleanupExpired, F!Look, F!IsExpired, F!Download,
     F!PurgeReturns, F!Fail
<1>. QED
  BY <1>3, <1>4, <1>5, <1>6, <1>7, <1>8 DEF F!Next

\* A step of one request, or of none.
LEMMA TempOneMoves ==
    ASSUME F!TempAccessAssumption, TempIInv, TempMoves, NEW p \in TempProcs, NEW r \in TempReq,
           tempReq' = [tempReq EXCEPT ![p] = r], TempGood(r, tempStore', tempClock', tempFiles')
    PROVE  TempIInv'
<1>1. ASSUME NEW q \in TempProcs
      PROVE  TempGood(tempReq'[q], tempStore', tempClock', tempFiles')
  <2>1. CASE q = p
    BY <2>1 DEF TempIInv, TempTypes
  <2>2. CASE q # p
    <3>1. tempReq'[q] = tempReq[q]
      BY <2>2 DEF TempIInv, TempTypes
    <3>. QED
      BY <3>1, TempNow, TempGoodMoves
  <2>. QED
    BY <2>1, <2>2
<1>2. TempTypes'
  BY DEF TempIInv, TempTypes, TempMoves, TempTimes
<1>. QED
  BY <1>1, <1>2 DEF TempIInv

LEMMA TempNoneMoves ==
    ASSUME F!TempAccessAssumption, TempIInv, TempMoves, UNCHANGED tempReq
    PROVE  TempIInv'
<1>1. \A q \in TempProcs : TempGood(tempReq'[q], tempStore', tempClock', tempFiles')
  BY TempNow, TempGoodMoves
<1>2. TempTypes'
  BY DEF TempIInv, TempTypes, TempMoves, TempTimes
<1>. QED
  BY <1>1, <1>2 DEF TempIInv

LEMMA TempDone ==
    ASSUME F!TempAccessAssumption, TempIInv, TempMoves, NEW p \in TempProcs, F!Done(p)
    PROVE  TempIInv'
<1>1. F!Idle \in TempReq /\ F!Idle.pc = "idle" /\ F!Idle.now = 0
  BY DEF F!Idle, TempReq, F!TempAccessAssumption
<1>2. TempGood(F!Idle, tempStore', tempClock', tempFiles')
  BY <1>1 DEF TempGood, TempMoves
<1>. QED
  BY <1>1, <1>2, TempOneMoves DEF F!Done

LEMMA TempBegins ==
    ASSUME F!TempAccessAssumption, TempIInv, TempMoves, NEW p \in TempProcs,
           \/ \E x \in TempFiles : F!Get(p, x)
           \/ \E user \in DOMAIN TempRoles, x \in TempFiles : F!Delete(p, user, x)
           \/ \E user \in DOMAIN TempRoles, path \in F!Paths : F!CleanupExpired(p, user, path)
    PROVE  TempIInv'
<1>1. /\ tempClock \in 0 .. TempMaxClock /\ tempClock <= tempClock' /\ tempClock' \in Nat
      /\ tempStore' = tempStore
  BY DEF TempIInv, TempTypes, TempMoves
<1>2. F!Idle \in TempReq /\ F!Idle.now = 0 /\ F!Idle.doomed = {}
  BY DEF F!Idle, TempReq, F!TempAccessAssumption
<1>3. ASSUME NEW x \in TempFiles, F!Get(p, x) PROVE TempIInv'
  <2> DEFINE r == [F!Idle EXCEPT !.pc = "get", !.file = x, !.path = TempPathOf[x]]
  <2>1. TempPathOf[x] \in F!Paths
    BY <1>3 DEF F!Get, F!TempAccessAssumption
  <2>2. r \in TempReq /\ r.pc = "get" /\ r.file = x /\ r.path = TempPathOf[x] /\ r.now = 0
    BY <1>2, <2>1 DEF TempReq
  <2>3. tempReq' = [tempReq EXCEPT ![p] = r]
    BY <1>3 DEF F!Get, F!Begin
  <2> HIDE DEF r
  <2>4. TempGood(r, tempStore', tempClock', tempFiles')
    BY <1>1, <2>1, <2>2 DEF TempGood
  <2>. QED
    BY <2>2, <2>3, <2>4, TempOneMoves
<1>4. ASSUME NEW user, NEW x \in TempFiles, F!Delete(p, user, x) PROVE TempIInv'
  <2> DEFINE r == [F!Idle EXCEPT !.pc = "delete", !.file = x]
  <2>1. r \in TempReq /\ r.pc = "delete" /\ r.file = x /\ r.now = 0
    BY <1>2 DEF TempReq
  <2>2. tempReq' = [tempReq EXCEPT ![p] = r]
    BY <1>4 DEF F!Delete, F!Begin
  <2> HIDE DEF r
  <2>3. TempGood(r, tempStore', tempClock', tempFiles')
    BY <1>1, <2>1 DEF TempGood
  <2>. QED
    BY <2>1, <2>2, <2>3, TempOneMoves
<1>5. ASSUME NEW user, NEW path \in F!Paths, F!CleanupExpired(p, user, path) PROVE TempIInv'
  <2> DEFINE r == [F!Idle EXCEPT !.pc = "purge", !.path = path, !.now = tempClock,
                                 !.left = F!Scope(path)]
  <2>1. /\ F!Scope(path) \subseteq TempFiles
        /\ tempStore = "local" => \A x \in F!Scope(path) : TempPathOf[x] = path
    BY DEF F!Scope, F!TempAccessAssumption
  <2>2. /\ r \in TempReq /\ r.pc = "purge" /\ r.path = path /\ r.now = tempClock
        /\ r.left = F!Scope(path) /\ r.doomed = {}
    BY <1>1, <1>2, <2>1 DEF TempReq
  <2>3. tempReq' = [tempReq EXCEPT ![p] = r]
    BY <1>5 DEF F!CleanupExpired, F!Begin
  <2> HIDE DEF r
  <2>4. TempGood(r, tempStore', tempClock', tempFiles')
    BY <1>1, <2>1, <2>2 DEF TempGood
  <2>. QED
    BY <2>2, <2>3, <2>4, TempOneMoves
<1>. QED
  BY <1>3, <1>4, <1>5

LEMMA IsExpiredKeeps ==
    ASSUME F!TempAccessAssumption, TempIInv, TempMoves, NEW p \in TempProcs, F!IsExpired(p)
    PROVE  TempIInv'
<1> DEFINE made == tempFiles[tempReq[p].file]
           r == [tempReq[p] EXCEPT !.pc = "download", !.now = tempClock]
<1>1. /\ tempReq[p] \in TempReq /\ TempGood(tempReq[p], tempStore, tempClock, tempFiles)
      /\ tempReq[p].pc = "get" /\ UNCHANGED <<tempFiles, tempStore, tempClock>>
      /\ tempClock \in 0 .. TempMaxClock
  BY TempNow DEF F!IsExpired, F!Same, TempIInv, TempTypes
<1>2. CASE F!Done(p)
  BY <1>2, TempDone
<1>3. CASE /\ ~ (made = None \/ F!Expired(made, tempReq[p].path, tempClock))
           /\ tempReq' = [tempReq EXCEPT ![p] = r]
  <2>1. /\ r \in TempReq /\ r.pc = "download" /\ r.now = tempClock
        /\ r.file = tempReq[p].file /\ r.path = tempReq[p].path
    BY <1>1 DEF TempReq
  <2>2. /\ r.file \in TempFiles /\ r.path = TempPathOf[r.file] /\ r.path \in F!Paths
    BY <1>1, <2>1 DEF TempGood
  <2> HIDE DEF r
  <2>3. made \in Nat /\ TempTTL[r.path] \in Nat /\ ~ tempClock > made + TempTTL[r.path]
    BY <1>3, <2>1, <2>2 DEF F!Expired, TempIInv, TempTypes, TempTimes, F!TempAccessAssumption
  <2>4. TempGood(r, tempStore', tempClock', tempFiles')
    BY <1>1, <2>1, <2>2, <2>3 DEF TempGood
  <2>. QED
    BY <1>3, <2>1, <2>4, TempOneMoves
<1>. QED
  BY <1>2, <1>3 DEF F!IsExpired

LEMMA LookKeeps ==
    ASSUME F!TempAccessAssumption, TempIInv, TempMoves, NEW p \in TempProcs,
           NEW page \in SUBSET TempFiles, F!Look(p, page)
    PROVE  TempIInv'
<1> DEFINE found == {x \in page : F!Outlived(p, x)}
           r == [tempReq[p] EXCEPT !.left = @ \ page, !.doomed = found]
<1>1. /\ tempReq[p] \in TempReq /\ TempGood(tempReq[p], tempStore, tempClock, tempFiles)
      /\ tempReq[p].pc = "purge" /\ page \subseteq tempReq[p].left
      /\ UNCHANGED <<tempFiles, tempStore, tempClock>>
      /\ tempReq' = [tempReq EXCEPT ![p].left = @ \ page, ![p].doomed = found]
  BY TempNow DEF F!Look, F!Same
<1>2. /\ r \in TempReq /\ r.pc = "purge" /\ r.now = tempReq[p].now /\ r.path = tempReq[p].path
      /\ r.left \subseteq tempReq[p].left /\ r.doomed = found
  BY <1>1 DEF TempReq
<1>3. tempReq' = [tempReq EXCEPT ![p] = r]
  BY <1>1 DEF TempIInv, TempTypes
<1> HIDE DEF r
<1>4. \A x \in found : x \in tempReq[p].left /\ r.now - tempFiles[x] > TempTTL[r.path]
  BY <1>1, <1>2 DEF F!Outlived
<1> HIDE DEF found
<1>5. TempGood(r, tempStore', tempClock', tempFiles')
  BY <1>1, <1>2, <1>4 DEF TempGood
<1>. QED
  BY <1>2, <1>3, <1>5, TempOneMoves

LEMMA RemoveKeeps ==
    ASSUME F!TempAccessAssumption, TempIInv, TempMoves, NEW p \in TempProcs,
           NEW x \in TempFiles, F!Remove(p, x)
    PROVE  TempIInv'
<1> DEFINE r == [tempReq[p] EXCEPT !.doomed = @ \ {x}]
<1>1. /\ tempReq[p] \in TempReq /\ TempGood(tempReq[p], tempStore', tempClock', tempFiles')
      /\ tempReq[p].pc = "purge"
      /\ tempReq' = [tempReq EXCEPT ![p].doomed = @ \ {x}]
  BY TempNow, TempGoodMoves DEF F!Remove
<1>2. /\ r \in TempReq /\ r.pc = "purge" /\ r.now = tempReq[p].now /\ r.path = tempReq[p].path
      /\ r.left = tempReq[p].left /\ r.doomed \subseteq tempReq[p].doomed
  BY <1>1 DEF TempReq
<1>3. tempReq' = [tempReq EXCEPT ![p] = r]
  BY <1>1 DEF TempIInv, TempTypes
<1> HIDE DEF r
<1>4. TempGood(r, tempStore', tempClock', tempFiles')
  BY <1>1, <1>2 DEF TempGood
<1>. QED
  BY <1>2, <1>3, <1>4, TempOneMoves

LEMMA TempInductive ==
    ASSUME F!TempAccessAssumption, TempIInv, [F!Next]_(F!vars)
    PROVE  TempIInv'
<1>1. CASE UNCHANGED F!vars
  BY <1>1 DEF F!vars, TempIInv, TempTypes, TempGood
<1>2. CASE F!Next
  <2>1. TempMoves
    BY <1>2, TempAllMove
  <2>2. ASSUME NEW p \in TempProcs,
               F!Download(p) \/ F!DeleteFile(p) \/ F!PurgeRows(p) \/ F!PurgeReturns(p) \/ F!Fail(p)
        PROVE  TempIInv'
    <3>1. F!Done(p)
      BY <2>2 DEF F!Download, F!DeleteFile, F!PurgeRows, F!PurgeReturns, F!Fail
    <3>. QED
      BY <2>1, <3>1, TempDone
  <2>3. ASSUME \/ \E user \in DOMAIN TempRoles, x \in TempFiles : F!Upload(user, x)
               \/ \E x \in TempFiles : F!Store(x)
               \/ F!Tick
        PROVE  TempIInv'
    <3>1. UNCHANGED tempReq
      BY <2>3 DEF F!Upload, F!Store, F!Tick
    <3>. QED
      BY <2>1, <3>1, TempNoneMoves
  <2>. QED
    BY <1>2, <2>1, <2>2, <2>3, TempBegins, IsExpiredKeeps, LookKeeps, RemoveKeeps DEF F!Next
<1>. QED
  BY <1>1, <1>2

\* Which steps take a file away, and what they know of it.
LEMMA LiveFilesSpared ==
    ASSUME F!TempAccessAssumption, TempIInv, [F!Next]_(F!vars)
    PROVE  F!SparesLiveFiles
<1> SUFFICES ASSUME NEW x \in TempFiles, tempFiles[x] # None, tempFiles'[x] = None
             PROVE  \E p \in TempProcs :
                      \/ tempReq[p].pc = "delete" /\ tempReq[p].file = x
                      \/ /\ F!Purges(p)
                         /\ \/ /\ TempPathOf[x] = tempReq[p].path
                               /\ F!Expired(tempFiles[x], TempPathOf[x], tempClock)
                            \/ tempFiles[x] >= tempReq[p].now
                            \/ TempPathOf[x] # tempReq[p].path /\ tempStore # "local"
  BY DEF F!SparesLiveFiles
<1>1. /\ tempFiles[x] \in Nat /\ tempFiles \in TempTimes /\ tempClock \in 0 .. TempMaxClock
      /\ None \notin 0 .. TempMaxClock
  BY DEF TempIInv, TempTypes, TempTimes, F!TempAccessAssumption
\* Over its time when the purge looked at the clock, or stored since.
<1>2. ASSUME NEW p \in TempProcs, tempReq[p].pc = "purge", F!Purges(p),
             x \in tempReq[p].left \cup tempReq[p].doomed,
             tempFiles[x] >= tempReq[p].now
             \/ tempReq[p].now - tempFiles[x] > TempTTL[tempReq[p].path]
      PROVE  \/ /\ TempPathOf[x] = tempReq[p].path
                /\ F!Expired(tempFiles[x], TempPathOf[x], tempClock)
             \/ tempFiles[x] >= tempReq[p].now
             \/ TempPathOf[x] # tempReq[p].path /\ tempStore # "local"
  <2>1. /\ tempReq[p].now \in Nat /\ tempReq[p].now <= tempClock
        /\ TempTTL[tempReq[p].path] \in Nat
        /\ tempStore = "local" => TempPathOf[x] = tempReq[p].path
    BY <1>2, TempNow DEF TempGood, TempReq, F!TempAccessAssumption
  <2>. QED
    BY <1>1, <1>2, <2>1 DEF F!Expired
<1>3. ASSUME NEW p \in TempProcs, F!DeleteFile(p)
      PROVE  tempReq[p].pc = "delete" /\ tempReq[p].file = x
  BY <1>1, <1>3 DEF F!DeleteFile, TempTimes
<1>4. ASSUME NEW p \in TempProcs, NEW y \in TempFiles, F!Remove(p, y)
      PROVE  /\ tempReq[p].pc = "purge" /\ F!Purges(p) /\ x \in tempReq[p].doomed
             /\ \/ tempFiles[x] >= tempReq[p].now
                \/ tempReq[p].now - tempFiles[x] > TempTTL[tempReq[p].path]
  <2>1. /\ tempReq[p].pc = "purge" /\ y \in tempReq[p].doomed
        /\ tempReq' = [tempReq EXCEPT ![p].doomed = @ \ {y}]
        /\ tempFiles' = [tempFiles EXCEPT ![y] = None] \/ UNCHANGED tempFiles
    BY <1>4 DEF F!Remove
  <2>2. x = y
    BY <1>1, <2>1 DEF TempTimes
  <2>3. tempReq'[p] # tempReq[p]
    <3>1. tempReq[p] \in TempReq /\ tempReq'[p].doomed = tempReq[p].doomed \ {y}
      BY <2>1 DEF TempIInv, TempTypes, TempReq
    <3>. QED
      BY <2>1, <3>1
  <2>. QED
    BY <2>1, <2>2, <2>3, TempNow DEF TempGood, F!Purges
<1>5. ASSUME NEW p \in TempProcs, F!PurgeRows(p)
      PROVE  /\ tempReq[p].pc = "purge" /\ F!Purges(p) /\ x \in tempReq[p].left
             /\ tempReq[p].now - tempFiles[x] > TempTTL[tempReq[p].path]
  <2>1. tempReq[p].pc = "purge" /\ x \in tempReq[p].left /\ F!Outlived(p, x)
    BY <1>5 DEF F!PurgeRows
  <2>2. tempReq'[p] = F!Idle /\ F!Idle.pc = "idle"
    BY <1>5 DEF F!PurgeRows, F!Done, F!Idle, TempIInv, TempTypes
  <2>. QED
    BY <2>1, <2>2 DEF F!Outlived, F!Purges
<1>6. ASSUME NEW user, NEW y \in TempFiles, F!Upload(user, y) \/ F!Store(y) PROVE FALSE
  BY <1>1, <1>6 DEF F!Upload, F!Store, TempTimes
<1>7. ASSUME \/ UNCHANGED F!vars
             \/ F!Tick
             \/ \E p \in TempProcs :
                  \/ \E y \in TempFiles : F!Get(p, y)
                  \/ \E user \in DOMAIN TempRoles, y \in TempFiles : F!Delete(p, user, y)
                  \/ \E user \in DOMAIN TempRoles, path \in F!Paths : F!CleanupExpired(p, user,
                      path)
                  \/ \E page \in SUBSET TempFiles : F!Look(p, page)
                  \/ F!IsExpired(p) \/ F!Download(p) \/ F!PurgeReturns(p) \/ F!Fail(p)
      PROVE  FALSE
  BY <1>7 DEF F!vars, F!Tick, F!Get, F!Delete, F!CleanupExpired, F!Look, F!IsExpired,
     F!Download, F!PurgeReturns, F!Fail
<1>8. PICK p \in TempProcs :
         F!DeleteFile(p) \/ F!PurgeRows(p) \/ \E y \in TempFiles : F!Remove(p, y)
  BY <1>6, <1>7 DEF F!Next
<1>. QED
  BY <1>2, <1>3, <1>4, <1>5, <1>8

LEMMA TempInvariant == Spec => [](part = "temp" => TempIInv)
<1> DEFINE Runs == part = "temp" => TempIInv
<1>1. Init => Runs
  BY PartStarts, TempInitially, ServicesAssumption
<1>2. Runs /\ [Next]_allVars => Runs'
  BY PartSteps, TempInductive, ServicesAssumption
<1>. QED
  BY <1>1, <1>2, PTL DEF Spec

\* Whatever purges, uploads and downloads run side by side on whichever store: no
\* file is served over its time, and no live file is taken but for the reasons
\* the property names (TempAccessService.IsExpired, PurgeExpired of the stores).
THEOREM LiveFilesStay == Spec => ExpiryKept
<1>1. ASSUME TempIInv, [F!Next]_(F!vars) PROVE F!ExpiryKept
  <2>1. F!ServesInTime
    <3>1. SUFFICES ASSUME NEW p \in TempProcs, tempReq[p].pc = "download",
                          tempFiles[tempReq[p].file] # None
                   PROVE  ~ F!Expired(tempFiles[tempReq[p].file], tempReq[p].path, tempReq[p].now)
      BY DEF F!ServesInTime
    <3>2. /\ F!TempAccessAssumption /\ tempReq[p] \in TempReq
          /\ TempGood(tempReq[p], tempStore, tempClock, tempFiles)
      BY <1>1, TempNow, ServicesAssumption
    <3>3. /\ tempFiles[tempReq[p].file] \in Nat /\ tempReq[p].now \in Nat
          /\ TempTTL[tempReq[p].path] \in Nat
      BY <1>1, <3>1, <3>2 DEF TempGood, TempIInv, TempTypes, TempTimes, TempReq,
         F!TempAccessAssumption
    <3>. QED
      BY <3>1, <3>2, <3>3 DEF TempGood, F!Expired
  <2>. QED
    BY <1>1, <2>1, LiveFilesSpared, ServicesAssumption DEF F!ExpiryKept
<1>2. (part = "temp" => TempIInv) /\ [Next]_allVars => (part = "temp" => F!ExpiryKept)
  BY <1>1, PartSteps
<1>. QED
  BY <1>2, TempInvariant, PTL DEF Spec, ExpiryKept

-----------------------------------------------------------------------------
(* Schemas *)

SchemasStored == [name : SchemasNames, def : SchemasDefs, status : {"draft", "published"},
                  latest : {TRUE}, id : SchemasIds]

\* What a save is about to write; without an id of its own it gets one.
SchemasToSave == [name : SchemasNames, def : SchemasDefs, status : {"draft", "published"},
                  latest : {TRUE}, id : SchemasIds \cup {0}]

SchemasSaving == {"latest", "back", "published", "back2", "put"}

SchemasOps == [pc : SchemasSaving \cup {"idle", "lookup", "ended"},
               kind : {"api", "setup", "home"}, key : SchemasKeys \cup {None},
               row : SchemasToSave \cup {None}, pub : BOOLEAN,
               copy : SchemasStored \cup {None},
               fs : {<<>>, SchemasBootFS, SchemasExtFS}, todo : SUBSET SchemasNames]

SchemasTables == [SchemasKeys -> SchemasStored \cup {None}]

\* A save knows its key and its row, one that writes back the copy of a row,
\* and a setup the definitions it has left.
SchemasOpGood(o) ==
    /\ o \in SchemasOps
    /\ o.pc \in SchemasSaving => o.row # None /\ o.key # None
    /\ o.pc \notin SchemasSaving => o.row = None
    /\ o.pc \in {"back", "back2"} <=> o.copy # None
    /\ \A n \in o.todo : o.fs[n] \in SchemasDefs

SchemasTypes ==
    /\ schemasRows \in SchemasTables
    /\ schemasOp \in [S!Procs -> SchemasOps]
    /\ schemasSure \in [S!Procs -> SUBSET SchemasNames]
    /\ schemasPhase \in {"bizdefs", "home", "serve"}

\* The rows of a name.
Named(rs, n) == {k \in SchemasKeys : rs[k] # None /\ rs[k].name = n}

\* Of a name a setup is sure of: while it saves it, it saves the definition, to
\* the row the name resolves to, or to a first row; else the name has it.
Applied(o, rs, n) ==
    IF o.row # None /\ o.row.name = n
    THEN /\ o.row.def = o.fs[n]
         /\ \/ Named(rs, n) = {} /\ (o.copy = None \/ o.copy.name # n)
            \/ /\ o.key \in Named(rs, n) /\ o.key = S!ByNameOrDefault(rs, n, None)
               /\ o.row.id = rs[o.key].id /\ o.copy \in {None, rs[o.key]}
    ELSE n \notin o.todo => S!Schema(rs, n).def = o.fs[n]

SchemasIInv ==
    /\ SchemasTypes
    /\ \A p \in S!Procs : SchemasOpGood(schemasOp[p])
    /\ \A p \in S!Procs : schemasOp[p].kind = "setup" =>
          \A n \in schemasSure[p] : Applied(schemasOp[p], schemasRows, n)

\* In a finite set there is a highest.
LEMMA HighestExists ==
    ASSUME NEW K, IsFiniteSet(K), K # {}, NEW f, \A k \in K : f[k] \in Int
    PROVE  \E k \in K : \A j \in K : f[j] <= f[k]
<1>. DEFINE Above(k) == {j \in K : f[j] > f[k]}
            Sets == {Above(k) : k \in K}
<1>1. Sets \subseteq FiniteSubsetsOf(K)
  <2>1. \A k \in K : Above(k) \in SUBSET K
    OBVIOUS
  <2>2. Sets \in SUBSET SUBSET K
    BY <2>1
  <2>3. FiniteSubsetsOf(K) = SUBSET K
    BY FS_FiniteSubsetsOfFinite
  <2>. QED
    BY <2>2, <2>3
<1>2. Sets # {}
  <2>1. PICK k \in K : TRUE
    OBVIOUS
  <2>2. Above(k) \in Sets
    OBVIOUS
  <2>. QED
    BY <2>2
<1>3. PICK t \in Sets : \A s \in Sets : <<s, t>> \notin StrictSubsetOrdering(K)
  <2>. HIDE DEF Sets
  <2>. QED
    BY <1>1, <1>2, FS_StrictSubsetOrderingWellFounded, WFMin
<1>4. PICK k \in K : t = Above(k)
  OBVIOUS
<1>5. ASSUME NEW j \in K, f[j] > f[k]
      PROVE  FALSE
  <2>1. j \in Above(k) /\ j \notin Above(j)
    BY <1>5
  <2>2. Above(j) \subseteq Above(k) /\ Above(j) # Above(k)
    BY <1>5, <2>1
  <2>3. <<Above(j), t>> \in StrictSubsetOrdering(K)
    BY <2>2, <1>4 DEF StrictSubsetOrdering
  <2>. QED
    BY <2>3, <1>3
<1>. QED
  BY <1>5

\* All rows are the latest of their schemaId: a lookup finds the rows of the name.
LEMMA AllNamed ==
    ASSUME NEW rs \in SchemasTables, NEW n
    PROVE  S!All(rs, {n}, None) = Named(rs, n)
<1>1. \A k \in SchemasKeys : rs[k] # None => rs[k] \in SchemasStored
  BY DEF SchemasTables
<1>2. \A k \in SchemasKeys : rs[k] # None => rs[k].latest = TRUE
  BY <1>1 DEF SchemasStored
<1>. QED
  BY <1>2 DEF S!All, Named

LEMMA ResolvesTo ==
    ASSUME S!SchemasAssumption, NEW rs \in SchemasTables, NEW n, Named(rs, n) # {}
    PROVE  /\ S!ByNameOrDefault(rs, n, None) \in Named(rs, n)
           /\ S!Schema(rs, n) = rs[S!ByNameOrDefault(rs, n, None)]
           /\ S!Schema(rs, n) \in SchemasStored /\ S!Schema(rs, n).name = n
<1>. DEFINE K == Named(rs, n)
<1>1. IsFiniteSet(K)
  <2>1. K \in SUBSET SchemasKeys
    BY DEF Named
  <2>2. IsFiniteSet(SchemasKeys)
    BY DEF S!SchemasAssumption, S!IsFiniteSet, IsFiniteSet
  <2>. HIDE DEF K
  <2>. QED
    BY <2>1, <2>2, FS_Subset
<1>2. \A k \in K : rs[k] \in SchemasStored /\ rs[k].name = n
  BY DEF Named, SchemasTables
<1>3. \A k \in K : rs[k].id \in Int
  <2>1. SchemasIds \subseteq Int
    BY DEF S!SchemasAssumption
  <2>. HIDE DEF K
  <2>. QED
    BY <2>1, <1>2 DEF SchemasStored
<1>4. \E k \in K : \A j \in K : rs[j].id <= rs[k].id
  <2>. DEFINE f == [k \in K |-> rs[k].id]
  <2>1. \A k \in K : f[k] \in Int
    BY <1>3
  <2>2. \E k \in K : \A j \in K : f[j] <= f[k]
    <3>1. K # {}
      OBVIOUS
    <3>. HIDE DEF f, K
    <3>. QED
      BY <1>1, <2>1, <3>1, HighestExists
  <2>. QED
    BY <2>2
<1>5. S!Highest(rs, K) # {} /\ S!Highest(rs, K) \subseteq K
  BY <1>4 DEF S!Highest
<1>6. S!ByNameOrDefault(rs, n, None) = CHOOSE k \in S!Highest(rs, K) : TRUE
  BY AllNamed DEF S!ByNameOrDefault, S!SomeKey
<1>7. S!ByNameOrDefault(rs, n, None) \in K
  BY <1>5, <1>6
<1>8. K \subseteq SchemasKeys
  BY DEF Named
<1>9. S!Schema(rs, n) = rs[S!ByNameOrDefault(rs, n, None)]
  BY <1>7, <1>8, AllNamed DEF S!Schema, S!SchemasAssumption
<1>. QED
  BY <1>2, <1>7, <1>9

LEMMA ResolvesToNone ==
    ASSUME S!SchemasAssumption, NEW rs \in SchemasTables, NEW n, Named(rs, n) = {}
    PROVE  S!Schema(rs, n) =
               IF n \in DOMAIN SchemasBuiltinKey THEN S!GetBuiltinEntitySchema(n) ELSE None
BY AllNamed DEF S!Schema, S!ByNameOrDefault, S!SchemasAssumption

\* What a name stands for depends on the rows of that name alone.
LEMMA SameResolved ==
    ASSUME NEW rs \in SchemasTables, NEW rt \in SchemasTables, NEW n,
           Named(rs, n) = Named(rt, n), \A k \in Named(rs, n) : rs[k].id = rt[k].id
    PROVE  S!ByNameOrDefault(rs, n, None) = S!ByNameOrDefault(rt, n, None)
<1>. DEFINE K == Named(rs, n)
<1>1. S!Highest(rs, K) = S!Highest(rt, K)
  BY DEF S!Highest
<1>2. S!All(rs, {n}, None) = K /\ S!All(rt, {n}, None) = K
  BY AllNamed
<1>. HIDE DEF K
<1>. QED
  BY <1>1, <1>2 DEF S!ByNameOrDefault

\* The rows of n are the same in both.
SameRows(rs, rt, n) ==
    Named(rt, n) = Named(rs, n) /\ \A k \in Named(rs, n) : rt[k] = rs[k]

LEMMA Untouched ==
    ASSUME S!SchemasAssumption, NEW rs \in SchemasTables, NEW rt \in SchemasTables, NEW n,
           SameRows(rs, rt, n)
    PROVE  /\ S!ByNameOrDefault(rt, n, None) = S!ByNameOrDefault(rs, n, None)
           /\ S!Schema(rt, n) = S!Schema(rs, n)
<1>1. Named(rt, n) = Named(rs, n) /\ \A k \in Named(rs, n) : rt[k] = rs[k]
  BY DEF SameRows
<1>2. S!ByNameOrDefault(rt, n, None) = S!ByNameOrDefault(rs, n, None)
  BY <1>1, SameResolved
<1>3. CASE Named(rs, n) = {}
  BY <1>1, <1>2, <1>3, ResolvesToNone
<1>4. CASE Named(rs, n) # {}
  <2>1. S!Schema(rs, n) = rs[S!ByNameOrDefault(rs, n, None)]
    BY <1>4, ResolvesTo
  <2>2. S!Schema(rt, n) = rt[S!ByNameOrDefault(rt, n, None)]
    BY <1>1, <1>4, ResolvesTo
  <2>3. S!ByNameOrDefault(rs, n, None) \in Named(rs, n)
    BY <1>4, ResolvesTo
  <2>. QED
    BY <1>1, <1>2, <2>1, <2>2, <2>3
<1>. QED
  BY <1>1, <1>2, <1>3, <1>4

LEMMA AppliedUntouched ==
    ASSUME S!SchemasAssumption, NEW rs \in SchemasTables, NEW rt \in SchemasTables, NEW n,
           SameRows(rs, rt, n), NEW o, Applied(o, rs, n)
    PROVE  Applied(o, rt, n)
<1>1. /\ S!ByNameOrDefault(rt, n, None) = S!ByNameOrDefault(rs, n, None)
      /\ S!Schema(rt, n) = S!Schema(rs, n)
  BY Untouched
<1>. QED
  BY <1>1 DEF Applied, SameRows

LEMMA SchemasNow ==
    ASSUME SchemasIInv, NEW p \in S!Procs
    PROVE  /\ schemasOp[p] \in SchemasOps /\ SchemasOpGood(schemasOp[p])
           /\ schemasRows \in SchemasTables /\ schemasSure[p] \subseteq SchemasNames
BY DEF SchemasIInv, SchemasTypes

LEMMA SchemaIdle ==
    ASSUME S!SchemasAssumption
    PROVE  /\ S!Idle \in SchemasOps /\ S!Idle.pc = "idle" /\ S!Idle.kind = "api"
           /\ S!Idle.row = None /\ S!Idle.key = None /\ S!Idle.copy = None /\ S!Idle.todo = {}
           /\ SchemasOpGood(S!Idle)
<1>1. /\ S!Idle \in SchemasOps /\ S!Idle.pc = "idle" /\ S!Idle.kind = "api"
      /\ S!Idle.row = None /\ S!Idle.key = None /\ S!Idle.copy = None /\ S!Idle.todo = {}
  BY DEF S!Idle, SchemasOps, SchemasSaving
<1>. QED
  BY <1>1 DEF SchemasOpGood, SchemasSaving

\* A step of p that writes no row.
LEMMA SaverMoves ==
    ASSUME S!SchemasAssumption, SchemasIInv, NEW p \in S!Procs, NEW o, SchemasOpGood(o),
           schemasOp' = [schemasOp EXCEPT ![p] = o], schemasRows' = schemasRows,
           schemasPhase' \in {"bizdefs", "home", "serve"},
           schemasSure' \in [S!Procs -> SUBSET SchemasNames],
           \A q \in S!Procs \ {p} : schemasSure'[q] \subseteq schemasSure[q],
           o.kind = "setup" => \A n \in schemasSure'[p] : Applied(o, schemasRows, n)
    PROVE  SchemasIInv'
<1>1. o \in SchemasOps
  BY DEF SchemasOpGood
<1>2. schemasOp \in [S!Procs -> SchemasOps]
  BY DEF SchemasIInv, SchemasTypes
<1>3. schemasOp'[p] = o /\ \A q \in S!Procs \ {p} : schemasOp'[q] = schemasOp[q]
  BY <1>2
<1>4. SchemasTypes'
  BY <1>1, <1>2 DEF SchemasIInv, SchemasTypes
<1>5. ASSUME NEW q \in S!Procs
      PROVE  /\ SchemasOpGood(schemasOp'[q])
             /\ schemasOp'[q].kind = "setup" =>
                   \A n \in schemasSure'[q] : Applied(schemasOp'[q], schemasRows', n)
  <2>1. CASE q = p
    BY <1>3, <2>1
  <2>2. CASE q # p
    BY <1>3, <2>2 DEF SchemasIInv
  <2>. QED
    BY <2>1, <2>2
<1>. QED
  BY <1>4, <1>5 DEF SchemasIInv

LEMMA BusyNames ==
    ASSUME NEW p \in S!Procs, NEW n
    PROVE  n \in S!Busy(p) <=> schemasOp[p].row # None /\ schemasOp[p].row.name = n
BY DEF S!Busy

\* A step of p that writes a row: what p is sure of and not saving, and what
\* others are sure of, the row did not and does not name.
LEMMA SaverWrites ==
    ASSUME S!SchemasAssumption, SchemasIInv, NEW p \in S!Procs, NEW o, SchemasOpGood(o),
           NEW k \in SchemasKeys, NEW v \in SchemasStored,
           schemasOp' = [schemasOp EXCEPT ![p] = o],
           schemasRows' = [schemasRows EXCEPT ![k] = v],
           schemasPhase' = schemasPhase, S!Disturb(p, k),
           o.kind = "setup" => schemasOp[p].kind = "setup",
           o.kind = "setup" => \A n \in schemasSure[p] :
               IF schemasOp[p].row # None /\ schemasOp[p].row.name = n
               THEN Applied(o, schemasRows', n)
               ELSE Applied(schemasOp[p], schemasRows', n) => Applied(o, schemasRows', n)
    PROVE  SchemasIInv'
<1>1. /\ schemasOp \in [S!Procs -> SchemasOps] /\ schemasRows \in SchemasTables
      /\ schemasSure \in [S!Procs -> SUBSET SchemasNames]
  BY DEF SchemasIInv, SchemasTypes
<1>2. schemasOp'[p] = o /\ \A q \in S!Procs \ {p} : schemasOp'[q] = schemasOp[q]
  BY <1>1
<1>3. /\ schemasRows' \in SchemasTables /\ schemasRows'[k] = v /\ v # None
      /\ \A j \in SchemasKeys \ {k} : schemasRows'[j] = schemasRows[j]
  BY <1>1 DEF SchemasTables, S!SchemasAssumption, SchemasStored, S!Row
<1>. DEFINE Hit(n) == (schemasRows[k] # None /\ schemasRows[k].name = n) \/ v.name = n
<1>4. ASSUME NEW q \in S!Procs
      PROVE  schemasSure'[q] = {n \in schemasSure[q] : Hit(n) => q = p /\ n \in S!Busy(p)}
  BY <1>1, <1>3 DEF S!Disturb
<1>5. SchemasTypes'
  <2>1. schemasSure' \in [S!Procs -> SUBSET SchemasNames]
    BY <1>1 DEF S!Disturb
  <2>. QED
    BY <1>1, <1>3, <2>1 DEF SchemasIInv, SchemasTypes, SchemasOpGood
<1>6. ASSUME NEW q \in S!Procs, schemasOp[q].kind = "setup", NEW n \in schemasSure'[q], ~ Hit(n)
      PROVE  Applied(schemasOp[q], schemasRows', n)
  <2>1. Applied(schemasOp[q], schemasRows, n)
    BY <1>4, <1>6 DEF SchemasIInv
  <2>2. SameRows(schemasRows, schemasRows', n)
    BY <1>1, <1>3, <1>6 DEF SameRows, Named
  <2>. QED
    BY <1>1, <1>3, <2>1, <2>2, AppliedUntouched
<1>7. ASSUME NEW q \in S!Procs
      PROVE  /\ SchemasOpGood(schemasOp'[q])
             /\ schemasOp'[q].kind = "setup" =>
                   \A n \in schemasSure'[q] : Applied(schemasOp'[q], schemasRows', n)
  <2>1. CASE q # p
    <3>1. \A n \in schemasSure'[q] : ~ Hit(n)
      BY <1>4, <2>1
    <3>. QED
      BY <1>2, <1>6, <2>1, <3>1 DEF SchemasIInv
  <2>2. CASE q = p
    <3>1. ASSUME o.kind = "setup", NEW n \in schemasSure'[p]
          PROVE  Applied(o, schemasRows', n)
      <4>1. n \in schemasSure[p]
        BY <1>4
      <4>2. CASE schemasOp[p].row # None /\ schemasOp[p].row.name = n
        BY <3>1, <4>1, <4>2
      <4>3. CASE ~ (schemasOp[p].row # None /\ schemasOp[p].row.name = n)
        <5>1. ~ Hit(n)
          BY <1>4, <4>3, BusyNames
        <5>. QED
          BY <1>6, <3>1, <4>1, <4>3, <5>1
      <4>. QED
        BY <4>2, <4>3
    <3>. QED
      BY <1>2, <2>2, <3>1
  <2>. QED
    BY <2>1, <2>2
<1>. QED
  BY <1>5, <1>7 DEF SchemasIInv

LEMMA ListLatestKeeps ==
    ASSUME S!SchemasAssumption, SchemasIInv, NEW p \in S!Procs, S!ListLatest(p)
    PROVE  SchemasIInv'
<1>. DEFINE o == schemasOp[p]
            r == schemasRows[o.key]
            new == IF r # None /\ r.latest THEN [o EXCEPT !.copy = r, !.pc = "back"]
                   ELSE [o EXCEPT !.pc = IF o.pub THEN "published" ELSE "put"]
<1>1. /\ o \in SchemasOps /\ SchemasOpGood(o) /\ o.pc = "latest"
      /\ schemasRows \in SchemasTables /\ schemasSure \in [S!Procs -> SUBSET SchemasNames]
      /\ schemasPhase \in {"bizdefs", "home", "serve"}
  BY SchemasNow DEF S!ListLatest, SchemasIInv, SchemasTypes
<1>2. schemasOp' = [schemasOp EXCEPT ![p] = new]
  BY DEF S!ListLatest, S!Become
<1>3. UNCHANGED <<schemasRows, schemasPhase, schemasSure>>
  BY DEF S!ListLatest
<1>4. o.row # None /\ o.key \in SchemasKeys /\ o.copy = None
  BY <1>1 DEF SchemasOpGood, SchemasOps, SchemasSaving
<1>5. r \in SchemasStored \cup {None}
  BY <1>1, <1>4 DEF SchemasTables
<1>6. /\ SchemasOpGood(new) /\ new.row = o.row /\ new.key = o.key /\ new.fs = o.fs
      /\ new.todo = o.todo /\ new.kind = o.kind /\ new.copy \in {None, r}
  <2>1. CASE r # None /\ r.latest
    <3>1. new = [o EXCEPT !.copy = r, !.pc = "back"]
      BY <2>1
    <3>2. /\ new \in SchemasOps /\ new.pc = "back" /\ new.row = o.row /\ new.key = o.key
          /\ new.fs = o.fs /\ new.todo = o.todo /\ new.kind = o.kind /\ new.copy = r
      BY <1>1, <1>5, <2>1, <3>1 DEF SchemasOps, SchemasSaving
    <3>. HIDE DEF new, r
    <3>. QED
      BY <1>1, <1>4, <2>1, <3>2 DEF SchemasOpGood, SchemasSaving
  <2>2. CASE ~ (r # None /\ r.latest)
    <3>1. \E pc \in {"published", "put"} : new = [o EXCEPT !.pc = pc]
      BY <2>2
    <3>2. /\ new \in SchemasOps /\ new.pc \in {"published", "put"} /\ new.row = o.row
          /\ new.key = o.key
          /\ new.fs = o.fs /\ new.todo = o.todo /\ new.kind = o.kind /\ new.copy = o.copy
      <4>. HIDE DEF new
      <4>. QED
        BY <1>1, <3>1 DEF SchemasOps, SchemasSaving
    <3>. HIDE DEF new, r
    <3>. QED
      BY <1>1, <1>4, <3>2 DEF SchemasOpGood, SchemasSaving
  <2>. QED
    BY <2>1, <2>2
<1>7. ASSUME new.kind = "setup", NEW n \in schemasSure[p]
      PROVE  Applied(new, schemasRows, n)
  <2>1. Applied(o, schemasRows, n)
    BY <1>6, <1>7 DEF SchemasIInv
  <2>2. Named(schemasRows, n) = {} => r = None \/ r.name # n
    BY <1>4 DEF Named
  <2>. HIDE DEF new
  <2>. QED
    BY <1>6, <2>1, <2>2 DEF Applied
<1>. HIDE DEF new
<1>. QED
  BY <1>1, <1>2, <1>3, <1>6, <1>7, SaverMoves

\* The second listing.
LEMMA ListPublishedKeeps ==
    ASSUME S!SchemasAssumption, SchemasIInv, NEW p \in S!Procs, S!ListPublished(p)
    PROVE  SchemasIInv'
<1>. DEFINE o == schemasOp[p]
            r == schemasRows[o.key]
            new == IF r # None /\ r.status = "published" THEN [o EXCEPT !.copy = r, !.pc = "back2"]
                   ELSE [o EXCEPT !.pc = "put"]
<1>1. /\ o \in SchemasOps /\ SchemasOpGood(o) /\ o.pc = "published"
      /\ schemasRows \in SchemasTables /\ schemasSure \in [S!Procs -> SUBSET SchemasNames]
      /\ schemasPhase \in {"bizdefs", "home", "serve"}
  BY SchemasNow DEF S!ListPublished, SchemasIInv, SchemasTypes
<1>2. schemasOp' = [schemasOp EXCEPT ![p] = new]
  BY DEF S!ListPublished, S!Become
<1>3. UNCHANGED <<schemasRows, schemasPhase, schemasSure>>
  BY DEF S!ListPublished
<1>4. o.row # None /\ o.key \in SchemasKeys /\ o.copy = None
  BY <1>1 DEF SchemasOpGood, SchemasOps, SchemasSaving
<1>5. r \in SchemasStored \cup {None}
  BY <1>1, <1>4 DEF SchemasTables
<1>6. /\ SchemasOpGood(new) /\ new.row = o.row /\ new.key = o.key /\ new.fs = o.fs
      /\ new.todo = o.todo /\ new.kind = o.kind /\ new.copy \in {None, r}
  <2>1. CASE r # None /\ r.status = "published"
    <3>1. new = [o EXCEPT !.copy = r, !.pc = "back2"]
      BY <2>1
    <3>2. /\ new \in SchemasOps /\ new.pc = "back2" /\ new.row = o.row /\ new.key = o.key
          /\ new.fs = o.fs /\ new.todo = o.todo /\ new.kind = o.kind /\ new.copy = r
      BY <1>1, <1>5, <2>1, <3>1 DEF SchemasOps, SchemasSaving
    <3>. HIDE DEF new, r
    <3>. QED
      BY <1>1, <1>4, <2>1, <3>2 DEF SchemasOpGood, SchemasSaving
  <2>2. CASE ~ (r # None /\ r.status = "published")
    <3>1. new = [o EXCEPT !.pc = "put"]
      BY <2>2
    <3>2. /\ new \in SchemasOps /\ new.pc = "put" /\ new.row = o.row /\ new.key = o.key
          /\ new.fs = o.fs /\ new.todo = o.todo /\ new.kind = o.kind /\ new.copy = o.copy
      BY <1>1, <3>1 DEF SchemasOps, SchemasSaving
    <3>. HIDE DEF new, r
    <3>. QED
      BY <1>1, <1>4, <3>2 DEF SchemasOpGood, SchemasSaving
  <2>. QED
    BY <2>1, <2>2
<1>7. ASSUME new.kind = "setup", NEW n \in schemasSure[p]
      PROVE  Applied(new, schemasRows, n)
  <2>1. Applied(o, schemasRows, n)
    BY <1>6, <1>7 DEF SchemasIInv
  <2>2. Named(schemasRows, n) = {} => r = None \/ r.name # n
    BY <1>4 DEF Named
  <2>. HIDE DEF new
  <2>. QED
    BY <1>6, <2>1, <2>2 DEF Applied
<1>. HIDE DEF new
<1>. QED
  BY <1>1, <1>2, <1>3, <1>6, <1>7, SaverMoves

\* Both write-backs: the copy goes where it came from, and nothing a reader of
\* the name sees changes.
LEMMA WriteBackKeeps ==
    ASSUME S!SchemasAssumption, SchemasIInv, NEW p \in S!Procs,
           S!WriteBackLatest(p) \/ S!WriteBackPublished(p)
    PROVE  SchemasIInv'
<1>. DEFINE o == schemasOp[p]
<1>1. o \in SchemasOps /\ SchemasOpGood(o) /\ schemasRows \in SchemasTables
  BY SchemasNow
<1>2. PICK pc \in {"published", "put"} :
        schemasOp' = [schemasOp EXCEPT ![p] = [o EXCEPT !.copy = None, !.pc = pc]]
  BY DEF S!WriteBackLatest, S!WriteBackPublished, S!Become
<1>. DEFINE new == [o EXCEPT !.copy = None, !.pc = pc]
<1>3. /\ o.pc \in {"back", "back2"} /\ S!Disturb(p, o.key) /\ schemasPhase' = schemasPhase
      /\ schemasRows' = [schemasRows EXCEPT ![o.key] = o.copy]
  BY DEF S!WriteBackLatest, S!WriteBackPublished, S!Outdated
<1>4. o.row # None /\ o.key \in SchemasKeys /\ o.copy \in SchemasStored
  BY <1>1, <1>3 DEF SchemasOpGood, SchemasOps, SchemasSaving
<1>5. /\ new \in SchemasOps /\ new.pc \in {"published", "put"} /\ new.row = o.row
      /\ new.key = o.key
      /\ new.fs = o.fs /\ new.todo = o.todo /\ new.kind = o.kind /\ new.copy = None
  BY <1>1 DEF SchemasOps, SchemasSaving
<1>. HIDE DEF new
<1>6. SchemasOpGood(new)
  BY <1>1, <1>4, <1>5 DEF SchemasOpGood, SchemasSaving
<1>7. ASSUME new.kind = "setup", NEW n \in schemasSure[p]
      PROVE  IF o.row # None /\ o.row.name = n THEN Applied(new, schemasRows', n)
             ELSE Applied(o, schemasRows', n) => Applied(new, schemasRows', n)
  <2>1. CASE o.row.name = n
    <3>1. Applied(o, schemasRows, n)
      BY <1>5, <1>7 DEF SchemasIInv
    <3>2. CASE Named(schemasRows, n) = {} /\ o.copy.name # n
      <4>1. schemasRows[o.key] = None \/ schemasRows[o.key].name # n
        BY <1>4, <3>2 DEF Named
      <4>2. schemasRows' \in SchemasTables
        BY <1>1, <1>3, <1>4 DEF SchemasTables
      <4>3. SameRows(schemasRows, schemasRows', n)
        BY <1>1, <1>3, <1>4, <3>2, <4>1 DEF SameRows, Named, SchemasTables
      <4>4. Applied(o, schemasRows', n)
        BY <1>1, <3>1, <4>2, <4>3, AppliedUntouched
      <4>. QED
        BY <1>4, <1>5, <2>1, <4>4 DEF Applied
    <3>3. CASE ~ (Named(schemasRows, n) = {} /\ o.copy.name # n)
      <4>1. o.copy = schemasRows[o.key]
        BY <1>4, <2>1, <3>1, <3>3 DEF Applied, SchemasStored, S!SchemasAssumption, S!Row
      <4>2. schemasRows' = schemasRows
        BY <1>1, <1>3, <1>4, <4>1 DEF SchemasTables
      <4>. QED
        BY <1>4, <1>5, <2>1, <3>1, <4>2 DEF Applied
    <3>. QED
      BY <3>2, <3>3
  <2>2. CASE o.row.name # n
    BY <1>5, <2>2 DEF Applied
  <2>. QED
    BY <1>4, <2>1, <2>2
<1>. QED
  BY <1>2, <1>3, <1>4, <1>5, <1>6, <1>7, SaverWrites DEF new

LEMMA SavedGood ==
    ASSUME S!SchemasAssumption, NEW o, SchemasOpGood(o)
    PROVE  /\ SchemasOpGood(S!Saved(o)) /\ S!Saved(o).row = None /\ S!Saved(o).kind = o.kind
           /\ o.kind = "setup" => S!Saved(o).todo = o.todo /\ S!Saved(o).fs = o.fs
<1>. DEFINE new == S!Saved(o)
<1>1. o \in SchemasOps
  BY DEF SchemasOpGood
<1>2. CASE o.kind = "setup" /\ o.todo # {}
  <2>1. new = [S!Idle EXCEPT !.pc = "lookup", !.kind = "setup", !.fs = o.fs, !.todo = o.todo]
    BY <1>2 DEF S!Saved
  <2>2. /\ new \in SchemasOps /\ new.pc = "lookup" /\ new.row = None /\ new.copy = None
        /\ new.kind = "setup" /\ new.todo = o.todo /\ new.fs = o.fs
    <3>. HIDE DEF new
    <3>. QED
      BY <1>1, <2>1, SchemaIdle DEF SchemasOps, SchemasSaving
  <2>3. SchemasOpGood(new)
    <3>. HIDE DEF new
    <3>. QED
      BY <2>2 DEF SchemasOpGood, SchemasSaving
  <2>. QED
    BY <1>2, <2>2, <2>3
<1>3. CASE ~ (o.kind = "setup" /\ o.todo # {})
  <2>1. new = [S!Idle EXCEPT !.pc = "ended", !.kind = o.kind, !.fs = o.fs]
    BY <1>3 DEF S!Saved
  <2>2. /\ new \in SchemasOps /\ new.pc = "ended" /\ new.row = None /\ new.copy = None
        /\ new.kind = o.kind /\ new.todo = {} /\ new.fs = o.fs
    <3>. HIDE DEF new
    <3>. QED
      BY <1>1, <2>1, SchemaIdle DEF SchemasOps, SchemasSaving
  <2>3. SchemasOpGood(new)
    <3>. HIDE DEF new
    <3>. QED
      BY <2>2 DEF SchemasOpGood, SchemasSaving
  <2>. QED
    BY <1>3, <2>2, <2>3
<1>. QED
  BY <1>2, <1>3

LEMMA BeginGood ==
    ASSUME S!SchemasAssumption, NEW o, SchemasOpGood(o), o.row = None, o.copy = None,
           NEW k \in SchemasKeys, NEW row \in SchemasToSave,
           NEW new, \E pub \in BOOLEAN : new = S!Begin(o, k, row, pub)
    PROVE  /\ SchemasOpGood(new) /\ new.key = k /\ new.kind = o.kind /\ new.fs = o.fs
           /\ new.todo = o.todo /\ new.copy = None /\ new.row # None
           /\ new.row.name = row.name /\ new.row.def = row.def /\ new.row.id = row.id
<1>. PICK pub \in BOOLEAN : new = S!Begin(o, k, row, pub)
  OBVIOUS
<1>. DEFINE status == IF pub \/ row.id = 0 THEN "published" ELSE "draft"
            toSave == [row EXCEPT !.latest = TRUE, !.status = status]
<1>1. status \in {"draft", "published"}
  OBVIOUS
<1>2. new = [o EXCEPT !.pc = "latest", !.key = k, !.pub = pub, !.row = toSave]
  BY DEF S!Begin
<1>. HIDE DEF status
<1>3. /\ toSave \in SchemasToSave /\ toSave.name = row.name /\ toSave.def = row.def
      /\ toSave.id = row.id
  BY <1>1 DEF SchemasToSave
<1>. HIDE DEF toSave
<1>4. o \in SchemasOps
  BY DEF SchemasOpGood
<1>5. /\ new \in SchemasOps /\ new.pc = "latest" /\ new.key = k /\ new.row = toSave
      /\ new.kind = o.kind /\ new.fs = o.fs /\ new.todo = o.todo /\ new.copy = o.copy
  BY <1>2, <1>3, <1>4 DEF SchemasOps, SchemasSaving
<1>6. toSave # None
  <2>1. SchemasToSave \subseteq S!Row
    BY DEF SchemasToSave, S!Row
  <2>. QED
    BY <1>3, <2>1 DEF S!SchemasAssumption
<1>7. k # None
  BY DEF S!SchemasAssumption
<1>8. SchemasOpGood(new)
  BY <1>5, <1>6, <1>7 DEF SchemasOpGood, SchemasSaving
<1>. QED
  BY <1>3, <1>5, <1>6, <1>8

LEMMA BuiltinGood ==
    ASSUME S!SchemasAssumption, NEW n \in SchemasNames
    PROVE  /\ S!GetBuiltinEntitySchema(n) \in SchemasToSave
           /\ S!GetBuiltinEntitySchema(n).name = n
           /\ \A d \in SchemasDefs : /\ S!Unsaved(n, d) \in SchemasToSave
                                     /\ S!Unsaved(n, d).name = n /\ S!Unsaved(n, d).def = d
BY DEF S!GetBuiltinEntitySchema, S!Unsaved, SchemasToSave, S!SchemasAssumption

LEMMA SchemaGood ==
    ASSUME S!SchemasAssumption, NEW rs \in SchemasTables, NEW n, S!Schema(rs, n) # None
    PROVE  /\ S!ByNameOrDefault(rs, n, None) \in SchemasKeys
           /\ S!Schema(rs, n) \in SchemasToSave /\ S!Schema(rs, n).name = n
           /\ Named(rs, n) # {} =>
                 /\ S!ByNameOrDefault(rs, n, None) \in Named(rs, n)
                 /\ S!Schema(rs, n).id = rs[S!ByNameOrDefault(rs, n, None)].id
<1>1. CASE Named(rs, n) # {}
  <2>1. /\ S!ByNameOrDefault(rs, n, None) \in Named(rs, n)
        /\ S!Schema(rs, n) = rs[S!ByNameOrDefault(rs, n, None)]
        /\ S!Schema(rs, n) \in SchemasStored /\ S!Schema(rs, n).name = n
    BY <1>1, ResolvesTo
  <2>2. SchemasStored \subseteq SchemasToSave
    BY DEF SchemasStored, SchemasToSave
  <2>. QED
    BY <1>1, <2>1, <2>2 DEF Named
<1>2. CASE Named(rs, n) = {}
  <2>1. n \in DOMAIN SchemasBuiltinKey /\ S!Schema(rs, n) = S!GetBuiltinEntitySchema(n)
    BY <1>2, ResolvesToNone
  <2>2. n \in SchemasNames /\ SchemasBuiltinKey[n] \in SchemasKeys
    BY <2>1 DEF S!SchemasAssumption
  <2>3. S!ByNameOrDefault(rs, n, None) = SchemasBuiltinKey[n]
    BY <1>2, <2>1, AllNamed DEF S!ByNameOrDefault
  <2>. QED
    BY <1>2, <2>1, <2>2, <2>3, BuiltinGood
<1>. QED
  BY <1>1, <1>2

LEMMA PutKeeps ==
    ASSUME S!SchemasAssumption, SchemasIInv, NEW p \in S!Procs, S!Put(p)
    PROVE  SchemasIInv'
<1>. DEFINE o == schemasOp[p]
            k == o.key
            new == S!Saved(o)
<1>1. o \in SchemasOps /\ SchemasOpGood(o) /\ schemasRows \in SchemasTables /\ o.pc = "put"
  BY SchemasNow DEF S!Put
<1>2. PICK id : /\ id \in IF o.row.id # 0 THEN {o.row.id} ELSE SchemasIds \ schemasDrawn.ids
                /\ schemasRows' = [schemasRows EXCEPT ![k] = [o.row EXCEPT !.id = id]]
  BY DEF S!Put
<1>. DEFINE v == [o.row EXCEPT !.id = id]
<1>3. /\ S!Disturb(p, k) /\ schemasOp' = [schemasOp EXCEPT ![p] = new]
      /\ schemasPhase' = schemasPhase
  BY DEF S!Put, S!Become
<1>4. o.row \in SchemasToSave /\ o.row # None /\ k \in SchemasKeys
  BY <1>1 DEF SchemasOpGood, SchemasOps, SchemasSaving
<1>5. id \in SchemasIds /\ (o.row.id # 0 => id = o.row.id)
  BY <1>2, <1>4 DEF SchemasToSave
<1>6. /\ v \in SchemasStored /\ v.name = o.row.name /\ v.def = o.row.def /\ v.id = id
      /\ v # None
  <2>1. /\ v \in SchemasStored /\ v.name = o.row.name /\ v.def = o.row.def /\ v.id = id
    BY <1>4, <1>5 DEF SchemasToSave, SchemasStored
  <2>2. SchemasStored \subseteq S!Row
    BY DEF SchemasStored, S!Row
  <2>. QED
    BY <2>1, <2>2 DEF S!SchemasAssumption
<1>. HIDE DEF v
<1>7. /\ schemasRows' \in SchemasTables /\ schemasRows'[k] = v
      /\ \A j \in SchemasKeys \ {k} : schemasRows'[j] = schemasRows[j]
  BY <1>1, <1>2, <1>4, <1>6 DEF SchemasTables, v
<1>8. /\ SchemasOpGood(new) /\ new.row = None /\ new.kind = o.kind
      /\ o.kind = "setup" => new.todo = o.todo /\ new.fs = o.fs
  BY <1>1, SavedGood
<1>. HIDE DEF new
<1>9. ASSUME new.kind = "setup", NEW n \in schemasSure[p]
      PROVE  IF o.row # None /\ o.row.name = n THEN Applied(new, schemasRows', n)
             ELSE Applied(o, schemasRows', n) => Applied(new, schemasRows', n)
  <2>1. CASE o.row.name = n
    <3>1. Applied(o, schemasRows, n)
      BY <1>8, <1>9 DEF SchemasIInv
    <3>2. S!ByNameOrDefault(schemasRows', n, None) = k /\ k \in Named(schemasRows', n)
      <4>1. k \in Named(schemasRows', n)
        BY <1>4, <1>6, <1>7, <2>1 DEF Named
      <4>2. CASE Named(schemasRows, n) = {}
        <5>1. Named(schemasRows', n) = {k}
          BY <1>7, <4>1, <4>2 DEF Named
        <5>. QED
          BY <1>7, <5>1, ResolvesTo
      <4>3. CASE /\ k \in Named(schemasRows, n) /\ k = S!ByNameOrDefault(schemasRows, n, None)
                 /\ o.row.id = schemasRows[k].id
        <5>1. schemasRows[k] \in SchemasStored
          BY <1>1, <4>3 DEF Named, SchemasTables
        <5>2. schemasRows[k].id # 0
          BY <5>1 DEF SchemasStored, S!SchemasAssumption
        <5>3. schemasRows'[k].id = schemasRows[k].id
          BY <1>5, <1>6, <1>7, <4>3, <5>2
        <5>4. Named(schemasRows, n) = Named(schemasRows', n)
          BY <1>7, <4>1, <4>3 DEF Named
        <5>5. \A j \in Named(schemasRows, n) : schemasRows[j].id = schemasRows'[j].id
          BY <1>7, <5>3 DEF Named
        <5>6. S!ByNameOrDefault(schemasRows, n, None) = S!ByNameOrDefault(schemasRows', n, None)
          BY <1>1, <1>7, <5>4, <5>5, SameResolved
        <5>. QED
          BY <4>1, <4>3, <5>6
      <4>. QED
        BY <1>4, <2>1, <3>1, <4>1, <4>2, <4>3 DEF Applied
    <3>3. S!Schema(schemasRows', n) = v
      <4>1. Named(schemasRows', n) # {}
        BY <3>2
      <4>2. S!Schema(schemasRows', n) = schemasRows'[S!ByNameOrDefault(schemasRows', n, None)]
        BY <1>7, <4>1, ResolvesTo
      <4>. QED
        BY <1>7, <3>2, <4>2
    <3>4. o.row.def = o.fs[n]
      BY <1>4, <2>1, <3>1 DEF Applied
    <3>. QED
      BY <1>4, <1>6, <1>8, <1>9, <2>1, <3>3, <3>4 DEF Applied
  <2>2. CASE o.row.name # n
    BY <1>8, <1>9, <2>2 DEF Applied
  <2>. QED
    BY <1>4, <2>1, <2>2
<1>. QED
  BY <1>2, <1>3, <1>4, <1>6, <1>8, <1>9, SaverWrites DEF v

LEMMA SchemaFailKeeps ==
    ASSUME S!SchemasAssumption, SchemasIInv, NEW p \in S!Procs, S!Fail(p)
    PROVE  SchemasIInv'
<1>. DEFINE pc == IF p = S!Main THEN "ended" ELSE "idle"
            new == [S!Idle EXCEPT !.pc = pc, !.kind = schemasOp[p].kind]
<1>1. pc \in {"ended", "idle"} /\ schemasOp[p] \in SchemasOps
  BY SchemasNow
<1>. HIDE DEF pc
<1>2. /\ new \in SchemasOps /\ new.pc \in {"ended", "idle"} /\ new.row = None /\ new.copy = None
      /\ new.todo = {}
  BY <1>1, SchemaIdle DEF SchemasOps, SchemasSaving
<1>3. SchemasOpGood(new)
  <2>. HIDE DEF new
  <2>. QED
    BY <1>2 DEF SchemasOpGood, SchemasSaving
<1>4. /\ schemasOp' = [schemasOp EXCEPT ![p] = new]
      /\ schemasSure' = [schemasSure EXCEPT ![p] = {}]
      /\ schemasRows' = schemasRows /\ schemasPhase' = schemasPhase
  BY DEF S!Fail, S!Become, pc
<1>5. /\ schemasSure \in [S!Procs -> SUBSET SchemasNames]
      /\ schemasPhase \in {"bizdefs", "home", "serve"}
  BY DEF SchemasIInv, SchemasTypes
<1>. HIDE DEF new
<1>. QED
  BY <1>3, <1>4, <1>5, SaverMoves

LEMMA SetupGood ==
    ASSUME S!SchemasAssumption, NEW fs \in {SchemasBootFS, SchemasExtFS}
    PROVE  SchemasOpGood([S!Idle EXCEPT !.pc = IF DOMAIN fs = {} THEN "ended" ELSE "lookup",
                                        !.kind = "setup", !.fs = fs, !.todo = DOMAIN fs])
<1>. DEFINE pc == IF DOMAIN fs = {} THEN "ended" ELSE "lookup"
            new == [S!Idle EXCEPT !.pc = pc, !.kind = "setup", !.fs = fs, !.todo = DOMAIN fs]
<1>1. pc \in {"ended", "lookup"} /\ DOMAIN fs \in SUBSET SchemasNames
      /\ \A n \in DOMAIN fs : fs[n] \in SchemasDefs
  BY DEF S!SchemasAssumption
<1>. HIDE DEF pc
<1>2. /\ new \in SchemasOps /\ new.pc \in {"ended", "lookup"} /\ new.row = None
      /\ new.copy = None /\ new.todo = DOMAIN fs /\ new.fs = fs
  BY <1>1, SchemaIdle DEF SchemasOps, SchemasSaving
<1>3. SchemasOpGood(new)
  <2>. HIDE DEF new
  <2>. QED
    BY <1>1, <1>2 DEF SchemasOpGood, SchemasSaving
<1>. QED
  BY <1>3 DEF pc

LEMMA SetupKeeps ==
    ASSUME S!SchemasAssumption, SchemasIInv, NEW p \in S!Procs,
           NEW fs \in {SchemasBootFS, SchemasExtFS}, S!Setup(p, fs),
           schemasRows' = schemasRows, schemasPhase' = schemasPhase
    PROVE  SchemasIInv'
<1>. DEFINE new == [S!Idle EXCEPT !.pc = IF DOMAIN fs = {} THEN "ended" ELSE "lookup",
                                  !.kind = "setup", !.fs = fs, !.todo = DOMAIN fs]
<1>1. SchemasOpGood(new)
  BY SetupGood
<1>2. /\ schemasOp' = [schemasOp EXCEPT ![p] = new]
      /\ schemasSure' = [schemasSure EXCEPT ![p] = {}]
  BY DEF S!Setup, S!Become
<1>3. /\ schemasSure \in [S!Procs -> SUBSET SchemasNames]
      /\ schemasPhase \in {"bizdefs", "home", "serve"}
  BY DEF SchemasIInv, SchemasTypes
<1>. HIDE DEF new
<1>. QED
  BY <1>1, <1>2, <1>3, SaverMoves

LEMMA SetupLookupKeeps ==
    ASSUME S!SchemasAssumption, SchemasIInv, NEW p \in S!Procs, S!SetupLookup(p)
    PROVE  SchemasIInv'
<1>. DEFINE o == schemasOp[p]
<1>1. /\ o \in SchemasOps /\ SchemasOpGood(o) /\ schemasRows \in SchemasTables
      /\ o.pc = "lookup" /\ o.kind = "setup"
      /\ schemasSure \in [S!Procs -> SUBSET SchemasNames]
      /\ schemasPhase \in {"bizdefs", "home", "serve"}
  BY SchemasNow DEF S!SetupLookup, SchemasIInv, SchemasTypes
<1>2. o.row = None /\ o.copy = None
  BY <1>1 DEF SchemasOpGood, SchemasSaving
<1>. DEFINE s(n) == S!Schema(schemasRows, n)
            rest(n) == [o EXCEPT !.todo = @ \ {n}]
            d(n) == rest(n).fs[n]
<1>3. PICK n \in o.todo :
        /\ schemasSure' = [schemasSure EXCEPT ![p] = @ \cup {n}]
        /\ \/ s(n) # None /\ s(n).def = d(n) /\ S!Become(p, S!Saved(rest(n)))
           \/ /\ s(n) # None
              /\ S!Become(p, S!Begin(rest(n), S!ByNameOrDefault(schemasRows, n, None),
                                     [s(n) EXCEPT !.def = d(n)], TRUE))
           \/ s(n) = None /\ S!NewSchema(p, rest(n), S!Unsaved(n, d(n)))
  BY DEF S!SetupLookup
<1>. DEFINE r == rest(n)
<1>4. /\ r \in SchemasOps /\ r.pc = "lookup" /\ r.kind = "setup" /\ r.fs = o.fs
      /\ r.row = None /\ r.copy = None /\ r.todo = o.todo \ {n}
  BY <1>1, <1>2 DEF SchemasOps, SchemasSaving
<1>5. n \in SchemasNames /\ d(n) = o.fs[n] /\ o.fs[n] \in SchemasDefs
  BY <1>1, <1>3, <1>4 DEF SchemasOps, SchemasOpGood
<1>. HIDE DEF r
<1>6. SchemasOpGood(r)
  BY <1>1, <1>4 DEF SchemasOpGood, SchemasSaving
<1>7. UNCHANGED <<schemasRows, schemasPhase>>
  BY DEF S!SetupLookup
<1>8. \A m \in schemasSure[p] : m \notin o.todo => s(m).def = o.fs[m]
  BY <1>1, <1>2 DEF SchemasIInv, Applied
<1>9. schemasSure'[p] = schemasSure[p] \cup {n}
  BY <1>1, <1>3
\* Whatever p turns to: it is enough to look at n.
<1>10. ASSUME NEW new, SchemasOpGood(new), new.fs = o.fs, new.todo = o.todo \ {n},
              new.row # None => new.row.name = n,
              schemasOp' = [schemasOp EXCEPT ![p] = new], Applied(new, schemasRows, n)
       PROVE  SchemasIInv'
  <2>1. \A m \in schemasSure'[p] : Applied(new, schemasRows, m)
    BY <1>8, <1>9, <1>10 DEF Applied
  <2>2. /\ schemasSure' \in [S!Procs -> SUBSET SchemasNames]
        /\ \A q \in S!Procs \ {p} : schemasSure'[q] \subseteq schemasSure[q]
    BY <1>1, <1>3, <1>5
  <2>. QED
    BY <1>1, <1>7, <1>10, <2>1, <2>2, SaverMoves
<1>11. CASE s(n) # None /\ s(n).def = d(n) /\ S!Become(p, S!Saved(r))
  <2>. DEFINE new == S!Saved(r)
  <2>1. /\ SchemasOpGood(new) /\ new.row = None /\ new.todo = r.todo /\ new.fs = r.fs
    BY <1>4, <1>6, SavedGood
  <2>2. schemasOp' = [schemasOp EXCEPT ![p] = new]
    BY <1>11 DEF S!Become
  <2>. HIDE DEF new
  <2>3. Applied(new, schemasRows, n)
    BY <1>4, <1>5, <1>11, <2>1 DEF Applied
  <2>. QED
    BY <1>4, <1>10, <2>1, <2>2, <2>3
\* A save of the row n has, or of a first one.
<1>12. ASSUME NEW k \in SchemasKeys, NEW row \in SchemasToSave, row.name = n, row.def = o.fs[n],
              S!Become(p, S!Begin(r, k, row, TRUE)),
              Named(schemasRows, n) # {} =>
                  /\ k \in Named(schemasRows, n) /\ k = S!ByNameOrDefault(schemasRows, n, None)
                  /\ row.id = schemasRows[k].id
       PROVE  SchemasIInv'
  <2>. DEFINE new == S!Begin(r, k, row, TRUE)
  <2>1. \E pub \in BOOLEAN : new = S!Begin(r, k, row, pub)
    OBVIOUS
  <2>2. schemasOp' = [schemasOp EXCEPT ![p] = new]
    BY <1>12 DEF S!Become
  <2>. HIDE DEF new
  <2>3. /\ SchemasOpGood(new) /\ new.key = k /\ new.fs = r.fs
        /\ new.todo = r.todo /\ new.copy = None /\ new.row # None
        /\ new.row.name = row.name /\ new.row.def = row.def /\ new.row.id = row.id
    BY <1>4, <1>6, <2>1, BeginGood
  <2>4. Applied(new, schemasRows, n)
    BY <1>4, <1>12, <2>3 DEF Applied
  <2>. QED
    BY <1>4, <1>10, <1>12, <2>2, <2>3, <2>4
<1>13. CASE /\ s(n) # None
            /\ S!Become(p, S!Begin(r, S!ByNameOrDefault(schemasRows, n, None),
                                   [s(n) EXCEPT !.def = d(n)], TRUE))
  <2>. DEFINE k == S!ByNameOrDefault(schemasRows, n, None)
              row == [s(n) EXCEPT !.def = d(n)]
  <2>1. /\ k \in SchemasKeys /\ s(n) \in SchemasToSave /\ s(n).name = n
        /\ Named(schemasRows, n) # {} =>
              k \in Named(schemasRows, n) /\ s(n).id = schemasRows[k].id
    BY <1>1, <1>13, SchemaGood
  <2>2. row \in SchemasToSave /\ row.name = n /\ row.def = o.fs[n] /\ row.id = s(n).id
    BY <1>5, <2>1 DEF SchemasToSave
  <2>3. S!Become(p, S!Begin(r, k, row, TRUE))
    BY <1>13
  <2>. HIDE DEF row, s, d
  <2>. QED
    BY <1>12, <2>1, <2>2, <2>3
<1>14. CASE s(n) = None /\ S!NewSchema(p, r, S!Unsaved(n, d(n)))
  <2>. DEFINE k == S!SomeKey(S!FreshKeys)
              row == S!Unsaved(n, d(n))
  <2>1. k \in SchemasKeys
    BY <1>14 DEF S!NewSchema, S!SomeKey, S!FreshKeys
  <2>2. row \in SchemasToSave /\ row.name = n /\ row.def = o.fs[n]
    BY <1>5, BuiltinGood
  <2>3. S!Become(p, S!Begin(r, k, row, TRUE))
    BY <1>14 DEF S!NewSchema
  <2>4. Named(schemasRows, n) = {}
    <3>1. SchemasStored \subseteq S!Row
      BY DEF SchemasStored, S!Row
    <3>. QED
      BY <1>1, <1>14, <3>1, ResolvesTo DEF S!SchemasAssumption
  <2>. HIDE DEF row, k
  <2>. QED
    BY <1>12, <2>1, <2>2, <2>3, <2>4
<1>. QED
  BY <1>3, <1>11, <1>13, <1>14 DEF r

LEMMA MainRuns == S!Main \in S!Procs /\ SchemasSavers \subseteq S!Procs
BY DEF S!Procs

LEMMA BootstrapDefaultHomePageKeeps ==
    ASSUME S!SchemasAssumption, SchemasIInv, S!BootstrapDefaultHomePage
    PROVE  SchemasIInv'
<1>. DEFINE o == schemasOp[S!Main]
            s == S!Schema(schemasRows, SchemasHomeName)
<1>1. /\ o \in SchemasOps /\ SchemasOpGood(o) /\ schemasRows \in SchemasTables
      /\ o.pc = "lookup" /\ o.kind = "home"
      /\ schemasSure \in [S!Procs -> SUBSET SchemasNames]
      /\ schemasPhase \in {"bizdefs", "home", "serve"}
  BY SchemasNow, MainRuns DEF S!BootstrapDefaultHomePage, SchemasIInv, SchemasTypes
<1>2. o.row = None /\ o.copy = None
  BY <1>1 DEF SchemasOpGood, SchemasSaving
<1>3. UNCHANGED <<schemasRows, schemasPhase, schemasSure>>
  BY DEF S!BootstrapDefaultHomePage
<1>4. ASSUME NEW new, SchemasOpGood(new), new.kind = "home",
             schemasOp' = [schemasOp EXCEPT ![S!Main] = new]
      PROVE  SchemasIInv'
  BY <1>1, <1>3, <1>4, MainRuns, SaverMoves
<1>5. ASSUME NEW k \in SchemasKeys, NEW row \in SchemasToSave,
             S!Become(S!Main, S!Begin(o, k, row, TRUE))
      PROVE  SchemasIInv'
  <2>. DEFINE new == S!Begin(o, k, row, TRUE)
  <2>1. \E pub \in BOOLEAN : new = S!Begin(o, k, row, pub)
    OBVIOUS
  <2>2. schemasOp' = [schemasOp EXCEPT ![S!Main] = new]
    BY <1>5 DEF S!Become
  <2>. HIDE DEF new
  <2>3. SchemasOpGood(new) /\ new.kind = "home"
    BY <1>1, <1>2, <2>1, BeginGood
  <2>. QED
    BY <1>4, <2>2, <2>3
<1>6. CASE s = None
  <2>. DEFINE row == S!Unsaved(SchemasHomeName, SchemasNewHome)
  <2>1. S!Become(S!Main, S!Begin(o, SchemasHomeKey, row, TRUE))
    BY <1>6 DEF S!BootstrapDefaultHomePage
  <2>2. row \in SchemasToSave /\ SchemasHomeKey \in SchemasKeys
    BY BuiltinGood DEF S!SchemasAssumption
  <2>. HIDE DEF row
  <2>. QED
    BY <1>5, <2>1, <2>2
<1>7. CASE s # None /\ s.def = SchemasOldHome
  <2>. DEFINE row == [s EXCEPT !.def = SchemasNewHome]
              k == S!ByNameOrDefault(schemasRows, SchemasHomeName, None)
  <2>1. S!Become(S!Main, S!Begin(o, k, row, TRUE))
    BY <1>7 DEF S!BootstrapDefaultHomePage
  <2>2. k \in SchemasKeys /\ s \in SchemasToSave
    BY <1>1, <1>7, SchemaGood
  <2>3. row \in SchemasToSave
    BY <2>2 DEF SchemasToSave, S!SchemasAssumption
  <2>. HIDE DEF row, k
  <2>. QED
    BY <1>5, <2>1, <2>2, <2>3
<1>8. CASE s # None /\ s.def # SchemasOldHome
  <2>1. schemasOp' = [schemasOp EXCEPT ![S!Main] = S!Saved(o)]
    BY <1>8 DEF S!BootstrapDefaultHomePage, S!Become
  <2>2. SchemasOpGood(S!Saved(o)) /\ S!Saved(o).kind = "home"
    BY <1>1, SavedGood
  <2>. QED
    BY <1>4, <2>1, <2>2
<1>. QED
  BY <1>6, <1>7, <1>8

LEMMA NewAppKeeps ==
    ASSUME S!SchemasAssumption, SchemasIInv, S!NewApp
    PROVE  SchemasIInv'
<1>1. /\ schemasRows' = schemasRows /\ schemasSure \in [S!Procs -> SUBSET SchemasNames]
      /\ schemasPhase \in {"bizdefs", "home", "serve"} /\ S!Main \in S!Procs
  BY MainRuns DEF S!NewApp, SchemasIInv, SchemasTypes
<1>2. CASE S!Setup(S!Main, SchemasBootFS) /\ UNCHANGED schemasPhase
  BY <1>1, <1>2, SetupKeeps
<1>3. CASE /\ schemasPhase' = "home"
           /\ S!Become(S!Main, [S!Idle EXCEPT !.pc = "lookup", !.kind = "home"])
           /\ schemasSure' = [schemasSure EXCEPT ![S!Main] = {}]
  <2>. DEFINE new == [S!Idle EXCEPT !.pc = "lookup", !.kind = "home"]
  <2>1. /\ new \in SchemasOps /\ new.pc = "lookup" /\ new.row = None /\ new.copy = None
        /\ new.todo = {} /\ new.kind = "home"
    BY SchemaIdle DEF SchemasOps, SchemasSaving
  <2>2. schemasOp' = [schemasOp EXCEPT ![S!Main] = new]
    BY <1>3 DEF S!Become
  <2>. HIDE DEF new
  <2>3. SchemasOpGood(new)
    BY <2>1 DEF SchemasOpGood, SchemasSaving
  <2>. QED
    BY <1>1, <1>3, <2>1, <2>2, <2>3, SaverMoves
<1>4. CASE schemasPhase' = "serve" /\ S!Become(S!Main, S!Idle) /\ UNCHANGED schemasSure
  <2>1. schemasOp' = [schemasOp EXCEPT ![S!Main] = S!Idle]
    BY <1>4 DEF S!Become
  <2>. QED
    BY <1>1, <1>4, <2>1, SchemaIdle, SaverMoves
<1>. QED
  BY <1>2, <1>3, <1>4 DEF S!NewApp, S!Boot

\* A request of the API begins a save.
LEMMA SaveRequestKeeps ==
    ASSUME S!SchemasAssumption, SchemasIInv, NEW p \in S!Procs, NEW k \in SchemasKeys,
           NEW row \in SchemasToSave,
           \E pub \in BOOLEAN : S!Become(p, S!Begin(S!Idle, k, row, pub)),
           schemasSure' = [schemasSure EXCEPT ![p] = {}],
           UNCHANGED <<schemasRows, schemasPhase>>
    PROVE  SchemasIInv'
<1>1. PICK new : /\ \E pub \in BOOLEAN : new = S!Begin(S!Idle, k, row, pub)
                 /\ schemasOp' = [schemasOp EXCEPT ![p] = new]
  BY DEF S!Become
<1>2. SchemasOpGood(new) /\ new.kind = "api"
  BY <1>1, SchemaIdle, BeginGood
<1>3. /\ schemasSure \in [S!Procs -> SUBSET SchemasNames]
      /\ schemasPhase \in {"bizdefs", "home", "serve"}
  BY DEF SchemasIInv, SchemasTypes
<1>. QED
  BY <1>1, <1>2, <1>3, SaverMoves

LEMMA StoredOrBuiltin ==
    ASSUME S!SchemasAssumption, NEW rs \in SchemasTables, NEW k \in SchemasKeys,
           S!BySchemaId(rs, k) # None
    PROVE  S!BySchemaId(rs, k) \in SchemasToSave
<1>. DEFINE ns == {n \in DOMAIN SchemasBuiltinKey : SchemasBuiltinKey[n] = k}
<1>1. CASE rs[k] # None
  <2>1. rs[k] \in SchemasStored
    BY <1>1 DEF SchemasTables
  <2>. QED
    BY <1>1, <2>1 DEF S!BySchemaId, SchemasStored, SchemasToSave
<1>2. CASE rs[k] = None
  <2>1. PICK n \in ns : S!BySchemaId(rs, k) = S!GetBuiltinEntitySchema(n)
    BY <1>2 DEF S!BySchemaId
  <2>2. n \in SchemasNames
    BY DEF S!SchemasAssumption
  <2>. QED
    BY <2>1, <2>2, BuiltinGood
<1>. QED
  BY <1>1, <1>2

LEMMA ApiSaveKeeps ==
    ASSUME S!SchemasAssumption, SchemasIInv, NEW p \in S!Procs, NEW k \in SchemasKeys,
           NEW pub \in BOOLEAN, S!ApiSave(p, k, pub)
    PROVE  SchemasIInv'
<1>1. PICK body \in SchemasBodies,
           id \in {0} \cup {r.id : r \in {schemasRows[k]} \ {None}} :
        S!Become(p, S!Begin(S!Idle, k, [S!Unsaved(body[1], body[2]) EXCEPT !.id = id], pub))
  BY DEF S!ApiSave
<1>2. body[1] \in SchemasNames /\ body[2] \in SchemasDefs
  BY DEF S!SchemasAssumption
<1>3. id \in SchemasIds \cup {0}
  <2>1. schemasRows[k] \in SchemasStored \cup {None}
    BY DEF SchemasIInv, SchemasTypes, SchemasTables
  <2>. QED
    BY <2>1 DEF SchemasStored
<1>. DEFINE u == S!Unsaved(body[1], body[2])
            row == [u EXCEPT !.id = id]
<1>4. row \in SchemasToSave
  <2>1. u \in SchemasToSave
    BY <1>2, BuiltinGood
  <2>. HIDE DEF u
  <2>. QED
    BY <1>3, <2>1 DEF SchemasToSave
<1>5. /\ schemasSure' = [schemasSure EXCEPT ![p] = {}]
      /\ UNCHANGED <<schemasRows, schemasPhase>>
  BY DEF S!ApiSave
<1>6. \E b \in BOOLEAN : S!Become(p, S!Begin(S!Idle, k, row, b))
  BY <1>1
<1>. HIDE DEF row
<1>. QED
  BY <1>4, <1>5, <1>6, SaveRequestKeeps

LEMMA PublishKeeps ==
    ASSUME S!SchemasAssumption, SchemasIInv, NEW p \in S!Procs, NEW k \in SchemasKeys,
           S!Publish(p, k)
    PROVE  SchemasIInv'
<1>1. /\ S!BySchemaId(schemasRows, k) # None /\ schemasRows \in SchemasTables
      /\ schemasSure' = [schemasSure EXCEPT ![p] = {}]
      /\ UNCHANGED <<schemasRows, schemasPhase>>
  BY DEF S!Publish, SchemasIInv, SchemasTypes
<1>2. \E pub \in BOOLEAN : S!Become(p, S!Begin(S!Idle, k, S!BySchemaId(schemasRows, k), pub))
  BY DEF S!Publish
<1>3. S!BySchemaId(schemasRows, k) \in SchemasToSave
  BY <1>1, StoredOrBuiltin
<1>. QED
  BY <1>1, <1>2, <1>3, SaveRequestKeeps

LEMMA UnpublishKeeps ==
    ASSUME S!SchemasAssumption, SchemasIInv, NEW p \in S!Procs, NEW k \in SchemasKeys,
           S!Unpublish(p, k)
    PROVE  SchemasIInv'
<1>. DEFINE r == S!BySchemaId(schemasRows, k)
<1>1. /\ r # None /\ schemasRows \in SchemasTables
      /\ schemasSure' = [schemasSure EXCEPT ![p] = {}]
      /\ UNCHANGED <<schemasRows, schemasPhase>>
  BY DEF S!Unpublish, SchemasIInv, SchemasTypes
<1>2. r \in SchemasToSave
  BY <1>1, StoredOrBuiltin
<1>3. PICK id : /\ id \in IF r.id = 0 THEN SchemasIds \ schemasDrawn.ids ELSE {r.id}
                /\ S!Become(p, S!Begin(S!Idle, k, [r EXCEPT !.id = id], FALSE))
  BY DEF S!Unpublish
<1>. HIDE DEF r
<1>. DEFINE row == [r EXCEPT !.id = id]
<1>4. row \in SchemasToSave
  BY <1>2, <1>3 DEF SchemasToSave
<1>5. \E b \in BOOLEAN : S!Become(p, S!Begin(S!Idle, k, row, b))
  BY <1>3
<1>. HIDE DEF row
<1>. QED
  BY <1>1, <1>4, <1>5, SaveRequestKeeps

LEMMA DeleteSchemaKeeps ==
    ASSUME S!SchemasAssumption, SchemasIInv, NEW k \in SchemasKeys, S!DeleteSchema(k)
    PROVE  SchemasIInv'
<1>1. /\ schemasRows \in SchemasTables /\ schemasRows[k] # None
      /\ schemasRows' = [schemasRows EXCEPT ![k] = None]
      /\ schemasSure' = [q \in S!Procs |-> schemasSure[q] \ {schemasRows[k].name}]
      /\ schemasOp' = schemasOp /\ schemasPhase' = schemasPhase
      /\ schemasSure \in [S!Procs -> SUBSET SchemasNames]
  BY DEF S!DeleteSchema, SchemasIInv, SchemasTypes
<1>2. /\ schemasRows' \in SchemasTables /\ schemasRows'[k] = None
      /\ \A j \in SchemasKeys \ {k} : schemasRows'[j] = schemasRows[j]
  BY <1>1 DEF SchemasTables
<1>3. SchemasTypes'
  BY <1>1, <1>2 DEF SchemasIInv, SchemasTypes
<1>4. ASSUME NEW p \in S!Procs, schemasOp[p].kind = "setup", NEW n \in schemasSure'[p]
      PROVE  Applied(schemasOp[p], schemasRows', n)
  <2>1. n \in schemasSure[p] /\ schemasRows[k].name # n
    BY <1>1
  <2>2. SameRows(schemasRows, schemasRows', n)
    BY <1>1, <1>2, <2>1 DEF SameRows, Named
  <2>3. Applied(schemasOp[p], schemasRows, n)
    BY <1>4, <2>1 DEF SchemasIInv
  <2>. QED
    BY <1>1, <1>2, <2>2, <2>3, AppliedUntouched
<1>. QED
  BY <1>1, <1>3, <1>4 DEF SchemasIInv

LEMMA SchemasRestarted ==
    ASSUME S!SchemasAssumption, schemasRows \in SchemasTables,
           schemasOp = [p \in S!Procs |-> S!Idle],
           schemasPhase = "bizdefs", schemasSure = [p \in S!Procs |-> {}]
    PROVE  SchemasIInv
<1>1. SchemasTypes
  BY SchemaIdle DEF SchemasTypes
<1>2. \A p \in S!Procs : schemasOp[p] = S!Idle /\ schemasSure[p] = {}
  OBVIOUS
<1>. QED
  BY <1>1, <1>2, SchemaIdle DEF SchemasIInv

LEMMA SchemasCrashKeeps ==
    ASSUME S!SchemasAssumption, SchemasIInv, S!Crash
    PROVE  SchemasIInv'
<1>1. /\ schemasRows' \in SchemasTables /\ schemasOp' = [p \in S!Procs |-> S!Idle]
      /\ schemasPhase' = "bizdefs" /\ schemasSure' = [p \in S!Procs |-> {}]
  BY DEF S!Crash, SchemasIInv, SchemasTypes
<1>2. SchemasTypes'
  BY <1>1, SchemaIdle DEF SchemasTypes
<1>3. \A p \in S!Procs : schemasOp'[p] = S!Idle /\ schemasSure'[p] = {}
  BY <1>1
<1>. QED
  BY <1>2, <1>3, SchemaIdle DEF SchemasIInv

LEMMA SchemasInitially ==
    ASSUME S!SchemasAssumption, S!Init PROVE SchemasIInv
<1>1. CASE schemasRows = [k \in SchemasKeys |-> None]
  <2>1. schemasRows \in SchemasTables
    BY <1>1 DEF SchemasTables
  <2>. QED
    BY <2>1, SchemasRestarted DEF S!Init
<1>2. ASSUME NEW id \in SchemasIds,
             schemasRows = [k \in SchemasKeys |-> IF k = SchemasHomeKey
                 THEN [S!Unsaved(SchemasHomeName, SchemasOldHome) EXCEPT !.id = id] ELSE None]
      PROVE  SchemasIInv
  <2>. DEFINE u == S!Unsaved(SchemasHomeName, SchemasOldHome)
              row == [u EXCEPT !.id = id]
  <2>1. row \in SchemasStored
    <3>1. u \in SchemasToSave
      BY BuiltinGood DEF S!SchemasAssumption
    <3>. HIDE DEF u
    <3>. QED
      BY <3>1 DEF SchemasToSave, SchemasStored
  <2>2. schemasRows \in SchemasTables
    <3>. HIDE DEF row
    <3>. QED
      BY <1>2, <2>1 DEF SchemasTables, row
  <2>. QED
    BY <2>2, SchemasRestarted DEF S!Init
<1>. QED
  BY <1>1, <1>2 DEF S!Init

LEMMA SchemasInductive ==
    ASSUME S!SchemasAssumption, SchemasIInv, [S!Next]_(S!vars)
    PROVE  SchemasIInv'
<1>1. CASE UNCHANGED S!vars
  <2>1. UNCHANGED <<schemasRows, schemasOp, schemasSure, schemasPhase>>
    BY <1>1 DEF S!vars
  <2>. QED
    BY <2>1 DEF SchemasIInv, SchemasTypes
<1>2. ASSUME NEW p \in S!Procs, S!SaveStep(p)
      PROVE  SchemasIInv'
  <2>1. CASE S!ListLatest(p)  BY <2>1, ListLatestKeeps
  <2>2. CASE S!WriteBackLatest(p)  BY <2>2, WriteBackKeeps
  <2>3. CASE S!ListPublished(p)  BY <2>3, ListPublishedKeeps
  <2>4. CASE S!WriteBackPublished(p)  BY <2>4, WriteBackKeeps
  <2>5. CASE S!Put(p)  BY <2>5, PutKeeps
  <2>6. CASE S!Fail(p)  BY <2>6, SchemaFailKeeps
  <2>7. CASE S!SetupLookup(p)  BY <2>7, SetupLookupKeeps
  <2>. QED
    BY <1>2, <2>1, <2>2, <2>3, <2>4, <2>5, <2>6, <2>7 DEF S!SaveStep
<1>3. CASE S!NewApp
  BY <1>3, NewAppKeeps
<1>4. CASE S!BootstrapDefaultHomePage
  BY <1>4, BootstrapDefaultHomePageKeeps
<1>5. ASSUME NEW p \in SchemasSavers, NEW k \in SchemasKeys, NEW pub \in BOOLEAN,
             S!ApiSave(p, k, pub)
      PROVE  SchemasIInv'
  BY <1>5, MainRuns, ApiSaveKeeps
<1>6. ASSUME NEW p \in SchemasSavers, NEW k \in SchemasKeys, S!Publish(p, k) \/ S!Unpublish(p, k)
      PROVE  SchemasIInv'
  BY <1>6, MainRuns, PublishKeeps, UnpublishKeeps
<1>7. ASSUME NEW k \in SchemasKeys, S!DeleteSchema(k)
      PROVE  SchemasIInv'
  BY <1>7, DeleteSchemaKeeps
<1>8. ASSUME NEW p \in SchemasSavers, S!MountExtension(p)
      PROVE  SchemasIInv'
  BY <1>8, MainRuns, SetupKeeps DEF S!MountExtension
<1>9. CASE UNCHANGED <<schemasRows, schemasOp, schemasSure, schemasPhase>>
  BY <1>9 DEF SchemasIInv, SchemasTypes
<1>10. CASE S!Crash
  BY <1>10, SchemasCrashKeeps
<1>11. (\E n \in SchemasNames : S!LoadStart(n)) \/ S!LoadEntity =>
          UNCHANGED <<schemasRows, schemasOp, schemasSure, schemasPhase>>
  BY DEF S!LoadStart, S!LoadEntity
<1>. QED
  BY <1>1, <1>2, <1>3, <1>4, <1>5, <1>6, <1>7, <1>8, <1>9, <1>10, <1>11 DEF S!Next

LEMMA SchemasInvariant == Spec => [](part = "schemas" => SchemasIInv)
<1>. S!SchemasAssumption
  BY ServicesAssumption DEF ServicesAssumption
<1>1. Init => (part = "schemas" => SchemasIInv)
  BY PartStarts, SchemasInitially
<1>2. (part = "schemas" => SchemasIInv) /\ [Next]_allVars => (part = "schemas" => SchemasIInv)'
  BY PartSteps, SchemasInductive
<1>. QED
  BY <1>1, <1>2, PTL DEF Spec

\* What a setup is through with is in force (SetupBizDefFromFS, SchemaService.Save).
THEOREM MountWorks == Spec => []MountTakesEffect
<1>1. ASSUME SchemasIInv PROVE S!MountTakesEffect
  <2>1. ASSUME NEW p \in S!Procs, schemasOp[p].kind = "setup",
               NEW n \in schemasSure[p] \ (schemasOp[p].todo \cup S!Busy(p))
        PROVE  S!Schema(schemasRows, n).def = schemasOp[p].fs[n]
    BY <1>1, <2>1, BusyNames DEF SchemasIInv, Applied
  <2>. QED
    BY <2>1 DEF S!MountTakesEffect
<1>2. (part = "schemas" => SchemasIInv) => MountTakesEffect
  BY <1>1 DEF MountTakesEffect
<1>. QED
  BY <1>2, SchemasInvariant, PTL

\* A step that leaves the rows of a name does not leave it unresolved.
LEMMA NamesKept ==
    ASSUME S!SchemasAssumption, SchemasIInv, SchemasIInv'
    PROVE  S!KeepsNames
<1>1. schemasRows \in SchemasTables /\ schemasRows' \in SchemasTables
  BY DEF SchemasIInv, SchemasTypes
<1>2. ASSUME NEW n \in SchemasNames, S!Schema(schemasRows, n) # None,
             S!Schema(schemasRows', n) = None
      PROVE  \E k \in S!All(schemasRows, {n}, None) :
                 schemasRows'[k] = None \/ schemasRows'[k].name # n
  <2>1. SchemasStored \subseteq S!Row /\ SchemasToSave \subseteq S!Row
    BY DEF SchemasStored, SchemasToSave, S!Row, S!SchemasAssumption
  <2>2. Named(schemasRows', n) = {}
    BY <1>1, <1>2, <2>1, ResolvesTo DEF S!SchemasAssumption
  <2>3. n \notin DOMAIN SchemasBuiltinKey
    <3>1. S!GetBuiltinEntitySchema(n) \in S!Row
      BY <2>1, BuiltinGood
    <3>2. S!GetBuiltinEntitySchema(n) # None
      BY <3>1 DEF S!SchemasAssumption
    <3>3. n \in DOMAIN SchemasBuiltinKey => S!Schema(schemasRows', n) = S!GetBuiltinEntitySchema(n)
      BY <1>1, <2>2, ResolvesToNone
    <3>. QED
      BY <1>2, <3>2, <3>3
  <2>4. PICK k \in Named(schemasRows, n) : TRUE
    BY <1>1, <1>2, <2>3, ResolvesToNone
  <2>5. k \in S!All(schemasRows, {n}, None)
    BY <1>1, AllNamed
  <2>6. schemasRows'[k] = None \/ schemasRows'[k].name # n
    BY <2>2 DEF Named
  <2>. QED
    BY <2>5, <2>6
<1>. QED
  BY <1>2 DEF S!KeepsNames

\* No step of a save takes a name its schema (SchemaService.Save, ByNameOrDefault).
THEOREM NamesStay == Spec => NameStaysResolvable
<1>. S!SchemasAssumption
  BY ServicesAssumption DEF ServicesAssumption
<1>1. /\ part = "schemas" => SchemasIInv
      /\ (part = "schemas" => SchemasIInv)'
      /\ [Next]_allVars
      => [part = "schemas" => S!KeepsNames]_allVars
  BY PartSteps, NamesKept
<1>. QED
  BY <1>1, SchemasInvariant, PTL DEF Spec, NameStaysResolvable

-----------------------------------------------------------------------------
(* Extensions *)

ExtensionsMounts == [id : E!ExtIds, info : E!Info, tools : BOOLEAN]

ExtensionsTypes ==
    /\ extensionsDir \in [ExtensionsFiles -> E!Archive \cup {None}]
    /\ extensionsTable \in [E!ExtIds -> E!Info \cup {None}]
    /\ extensionsMount \in [ExtensionsAdmins -> ExtensionsMounts \cup {None}]
    /\ extensionsWatcher \in [pc : {"boot", "bootScan", "wait", "sleep", "scan"},
                              left : SUBSET ExtensionsFiles]
    /\ extensionsEvent \in BOOLEAN
    /\ extensionsVersion \in 0 .. ExtensionsMaxVersion

\* A verified extension is active from the moment it is found.
Active(info) == info.verified => info.status = "active"

\* The watcher has still to look at f, or will scan everything once more.
ToBeScanned(f, w, event) ==
    \/ event
    \/ w.pc \in {"boot", "sleep"}
    \/ w.pc \in {"bootScan", "scan"} /\ f \in w.left

ExtensionsIInv ==
    /\ ExtensionsTypes
    /\ \A id \in E!ExtIds : extensionsTable[id] # None => Active(extensionsTable[id])
    /\ \A a \in ExtensionsAdmins : extensionsMount[a] # None =>
          extensionsMount[a].info.verified /\ extensionsMount[a].info.status = "active"
    /\ \A f \in ExtensionsFiles \ extensionsUnseen : E!Whole(f) /\ E!OwnId(f) =>
          \/ extensionsTable[ExtensionsIdOf[f]] = E!Inspect(f)
          \/ ToBeScanned(f, extensionsWatcher, extensionsEvent)

LEMMA ExtensionsInitially ==
    ASSUME E!ExtensionsAssumption, E!Init PROVE ExtensionsIInv
<1>1. extensionsDir \in [ExtensionsFiles -> E!Archive \cup {None}]
  BY DEF E!Init
<1>2. extensionsTable \in [E!ExtIds -> E!Info \cup {None}]
  BY DEF E!Init
<1>3. extensionsMount \in [ExtensionsAdmins -> ExtensionsMounts \cup {None}]
  BY DEF E!Init
<1>4. extensionsWatcher \in [pc : {"boot", "bootScan", "wait", "sleep", "scan"},
                             left : SUBSET ExtensionsFiles]
  BY DEF E!Init
<1>5. extensionsEvent \in BOOLEAN /\ extensionsVersion \in 0 .. ExtensionsMaxVersion
  <2>1. extensionsEvent = FALSE /\ extensionsVersion = 0
    BY DEF E!Init
  <2>2. ExtensionsMaxVersion \in Nat
    BY DEF E!ExtensionsAssumption
  <2>3. extensionsEvent \in BOOLEAN
    BY <2>1
  <2>4. extensionsVersion \in 0 .. ExtensionsMaxVersion
    BY <2>1, <2>2
  <2>. QED
    BY <2>3, <2>4
<1>6. \A id \in E!ExtIds : extensionsTable[id] = None
  BY DEF E!Init
<1>7. \A a \in ExtensionsAdmins : extensionsMount[a] = None
  BY DEF E!Init
<1>8. \A f \in ExtensionsFiles : ToBeScanned(f, extensionsWatcher, extensionsEvent)
  BY DEF E!Init, ToBeScanned
<1>. QED
  BY <1>1, <1>2, <1>3, <1>4, <1>5, <1>6, <1>7, <1>8 DEF ExtensionsIInv, ExtensionsTypes

\* What a file holds, whether it is whole and what an inspection finds of it,
\* changes with the directory entry alone.
LEMMA InspectSame ==
    ASSUME NEW f, extensionsDir'[f] = extensionsDir[f]
    PROVE  E!Whole(f)' = E!Whole(f) /\ E!Inspect(f)' = E!Inspect(f) /\ E!OwnId(f)' = E!OwnId(f)
BY DEF E!Whole, E!Inspect, E!OwnId

\* A step that changes one file at most, and none of table and watcher.
LEMMA FileKeeps ==
    ASSUME E!ExtensionsAssumption, ExtensionsIInv, NEW f \in ExtensionsFiles,
           NEW v \in E!Archive \cup {None},
           extensionsDir' = [extensionsDir EXCEPT ![f] = v],
           UNCHANGED <<extensionsTable, extensionsWatcher, extensionsMount>>,
           extensionsEvent => extensionsEvent', extensionsEvent' \in BOOLEAN,
           extensionsVersion' \in 0 .. ExtensionsMaxVersion,
           extensionsUnseen \ {f} \subseteq extensionsUnseen',
           E!Whole(f)' => \/ f \in extensionsUnseen'
                          \/ ToBeScanned(f, extensionsWatcher, extensionsEvent')
    PROVE  ExtensionsIInv'
<1>1. extensionsDir \in [ExtensionsFiles -> E!Archive \cup {None}]
  BY DEF ExtensionsIInv, ExtensionsTypes
<1>2. ExtensionsTypes'
  BY <1>1 DEF ExtensionsIInv, ExtensionsTypes
<1>3. ASSUME NEW g \in ExtensionsFiles \ extensionsUnseen', E!Whole(g)', E!OwnId(g)'
      PROVE  \/ extensionsTable'[ExtensionsIdOf[g]] = E!Inspect(g)'
             \/ ToBeScanned(g, extensionsWatcher', extensionsEvent')
  <2>1. CASE g = f
    BY <1>3, <2>1
  <2>2. CASE g # f
    <3>1. extensionsDir'[g] = extensionsDir[g]
      BY <1>1, <2>2
    <3>2. E!Whole(g) /\ E!OwnId(g) /\ E!Inspect(g)' = E!Inspect(g)
      BY <1>3, <3>1, InspectSame
    <3>3. g \in ExtensionsFiles \ extensionsUnseen
      BY <1>3, <2>2
    <3>4. \/ extensionsTable[ExtensionsIdOf[g]] = E!Inspect(g)
          \/ ToBeScanned(g, extensionsWatcher, extensionsEvent)
      BY <3>2, <3>3 DEF ExtensionsIInv
    <3>. QED
      BY <3>2, <3>4 DEF ToBeScanned
  <2>. QED
    BY <2>1, <2>2
<1>. QED
  BY <1>2, <1>3 DEF ExtensionsIInv

LEMMA WriteBeginKeeps ==
    ASSUME E!ExtensionsAssumption, ExtensionsIInv, NEW f \in ExtensionsFiles, E!WriteBegin(f)
    PROVE  ExtensionsIInv'
<1>1. extensionsVersion' \in 1 .. ExtensionsMaxVersion
  BY DEF E!WriteBegin, ExtensionsIInv, ExtensionsTypes, E!ExtensionsAssumption
<1>2. PICK signed \in BOOLEAN :
        extensionsDir' = [extensionsDir EXCEPT ![f] =
            [version |-> extensionsVersion', signed |-> signed, partial |-> TRUE]]
  BY DEF E!WriteBegin
<1>. DEFINE v == [version |-> extensionsVersion', signed |-> signed, partial |-> TRUE]
<1>3. v \in E!Archive /\ v.partial
  BY <1>1 DEF E!Archive
<1>4. ~ E!Whole(f)'
  <2>. HIDE DEF v
  <2>1. extensionsDir'[f] = v
    BY <1>2 DEF v, ExtensionsIInv, ExtensionsTypes
  <2>. QED
    BY <1>3, <2>1 DEF E!Whole
<1>5. /\ UNCHANGED <<extensionsTable, extensionsWatcher, extensionsMount, extensionsUnseen>>
      /\ extensionsEvent' = (extensionsEvent \/ E!Watched)
  BY DEF E!WriteBegin, E!admin
<1>6. extensionsEvent => extensionsEvent'
  BY <1>5
<1>7. extensionsEvent' \in BOOLEAN /\ extensionsVersion' \in 0 .. ExtensionsMaxVersion
  BY <1>1, <1>5
<1>. HIDE DEF v
<1>. QED
  BY <1>2, <1>3, <1>4, <1>5, <1>6, <1>7, FileKeeps DEF v

LEMMA WriteEndKeeps ==
    ASSUME E!ExtensionsAssumption, ExtensionsIInv, NEW f \in ExtensionsFiles, E!WriteEnd(f)
    PROVE  ExtensionsIInv'
<1>1. extensionsDir[f] \in E!Archive
  BY DEF E!WriteEnd, ExtensionsIInv, ExtensionsTypes
<1>. DEFINE v == [extensionsDir[f] EXCEPT !.partial = FALSE]
<1>2. v \in E!Archive /\ extensionsDir' = [extensionsDir EXCEPT ![f] = v]
  BY <1>1 DEF E!WriteEnd, E!Archive, ExtensionsIInv, ExtensionsTypes
<1>3. /\ UNCHANGED <<extensionsTable, extensionsWatcher, extensionsMount, extensionsVersion>>
      /\ extensionsEvent' = (extensionsEvent \/ E!Watched)
      /\ extensionsUnseen' = IF E!Watched THEN extensionsUnseen \ {f}
                             ELSE extensionsUnseen \cup {f}
  BY DEF E!WriteEnd, E!admin
<1>4. extensionsEvent => extensionsEvent'
  BY <1>3
<1>5. extensionsEvent' \in BOOLEAN /\ extensionsVersion' \in 0 .. ExtensionsMaxVersion
  BY <1>3 DEF ExtensionsIInv, ExtensionsTypes
<1>6. f \in extensionsUnseen' \/ extensionsEvent'
  BY <1>3
<1>7. extensionsUnseen \ {f} \subseteq extensionsUnseen'
  BY <1>3
<1>. HIDE DEF v
<1>. QED
  BY <1>2, <1>3, <1>4, <1>5, <1>6, <1>7, FileKeeps DEF ToBeScanned

LEMMA RemoveFileKeeps ==
    ASSUME E!ExtensionsAssumption, ExtensionsIInv, NEW f \in ExtensionsFiles, E!Remove(f)
    PROVE  ExtensionsIInv'
<1>1. /\ extensionsDir' = [extensionsDir EXCEPT ![f] = None]
      /\ UNCHANGED <<extensionsTable, extensionsWatcher, extensionsMount, extensionsUnseen,
                     extensionsEvent, extensionsVersion>>
  BY DEF E!Remove, E!admin
<1>2. ~ E!Whole(f)'
  BY <1>1 DEF E!Whole, ExtensionsIInv, ExtensionsTypes
<1>3. extensionsEvent' \in BOOLEAN /\ extensionsVersion' \in 0 .. ExtensionsMaxVersion
  BY <1>1 DEF ExtensionsIInv, ExtensionsTypes
<1>. QED
  BY <1>1, <1>2, <1>3, FileKeeps

\* A step of the watcher other than the load of a file.
LEMMA WatcherKeeps ==
    ASSUME E!ExtensionsAssumption, ExtensionsIInv,
           extensionsWatcher' \in [pc : {"boot", "bootScan", "wait", "sleep", "scan"},
                                   left : SUBSET ExtensionsFiles],
           extensionsEvent' \in BOOLEAN,
           UNCHANGED <<extensionsDir, extensionsTable, extensionsMount, extensionsUnseen,
                       extensionsVersion>>,
           \A f \in ExtensionsFiles :
               E!Whole(f) /\ ToBeScanned(f, extensionsWatcher, extensionsEvent) =>
                   ToBeScanned(f, extensionsWatcher', extensionsEvent')
    PROVE  ExtensionsIInv'
<1>1. ExtensionsTypes'
  BY DEF ExtensionsIInv, ExtensionsTypes
<1>2. \A f \in ExtensionsFiles : /\ E!Whole(f)' = E!Whole(f) /\ E!Inspect(f)' = E!Inspect(f)
                                 /\ E!OwnId(f)' = E!OwnId(f)
  BY InspectSame
<1>. QED
  BY <1>1, <1>2 DEF ExtensionsIInv

LEMMA WatchKeeps ==
    ASSUME E!ExtensionsAssumption, ExtensionsIInv,
           E!Start \/ E!TakeEvent \/ E!Scan \/ E!ScanEnds
    PROVE  ExtensionsIInv'
<1>1. /\ extensionsWatcher \in [pc : {"boot", "bootScan", "wait", "sleep", "scan"},
                                left : SUBSET ExtensionsFiles]
      /\ extensionsEvent \in BOOLEAN
  BY DEF ExtensionsIInv, ExtensionsTypes
<1>2. UNCHANGED <<extensionsDir, extensionsTable, extensionsMount, extensionsUnseen,
                  extensionsVersion>>
  BY DEF E!Start, E!TakeEvent, E!Scan, E!ScanEnds, E!admin, E!disk
<1>3. \A f \in ExtensionsFiles : E!Whole(f) => f \in E!Present
  BY DEF E!Whole, E!Present
<1>4. E!Present \in SUBSET ExtensionsFiles
  BY DEF E!Present
<1>5. CASE E!Start \/ E!Scan
  <2>1. /\ extensionsWatcher' \in [pc : {"bootScan", "scan"}, left : {E!Present}]
        /\ extensionsEvent' = extensionsEvent
    BY <1>5 DEF E!Start, E!Scan
  <2>. QED
    BY <1>1, <1>2, <1>3, <1>4, <2>1, WatcherKeeps DEF ToBeScanned
<1>6. CASE E!TakeEvent
  <2>1. /\ extensionsWatcher' = [extensionsWatcher EXCEPT !.pc = "sleep"]
        /\ extensionsEvent' = FALSE
    BY <1>6 DEF E!TakeEvent
  <2>2. /\ extensionsWatcher' \in [pc : {"boot", "bootScan", "wait", "sleep", "scan"},
                                   left : SUBSET ExtensionsFiles]
        /\ extensionsWatcher'.pc = "sleep" /\ extensionsEvent' \in BOOLEAN
    BY <1>1, <2>1
  <2>. QED
    BY <1>2, <2>2, WatcherKeeps DEF ToBeScanned
<1>7. CASE E!ScanEnds
  <2>1. /\ extensionsWatcher' = [extensionsWatcher EXCEPT !.pc = "wait"]
        /\ extensionsEvent' = extensionsEvent /\ extensionsWatcher.left = {}
        /\ extensionsWatcher.pc \in {"scan", "bootScan"}
    BY <1>7 DEF E!ScanEnds, E!EventsLeft
  <2>2. /\ extensionsWatcher' \in [pc : {"boot", "bootScan", "wait", "sleep", "scan"},
                                   left : SUBSET ExtensionsFiles]
        /\ extensionsEvent' \in BOOLEAN
    BY <1>1, <2>1
  <2>. QED
    BY <1>1, <1>2, <2>1, <2>2, WatcherKeeps DEF ToBeScanned
<1>. QED
  BY <1>5, <1>6, <1>7

LEMMA LoadExtensionKeeps ==
    ASSUME E!ExtensionsAssumption, ExtensionsIInv, NEW f \in ExtensionsFiles,
           E!LoadExtension(f)
    PROVE  ExtensionsIInv'
<1>1. /\ UNCHANGED <<extensionsDir, extensionsMount, extensionsEvent, extensionsVersion>>
      /\ extensionsWatcher' = [extensionsWatcher EXCEPT !.left = @ \ {f}]
      /\ extensionsTable' = IF E!Whole(f)
                            THEN [extensionsTable EXCEPT ![ExtensionsIdOf[f]] = E!Inspect(f)]
                            ELSE extensionsTable
      /\ extensionsUnseen' = IF E!Whole(f) THEN extensionsUnseen \ {f} ELSE extensionsUnseen
  BY DEF E!LoadExtension, E!admin, E!disk
<1>2. /\ ExtensionsTypes /\ ExtensionsIdOf[f] \in E!ExtIds
      /\ extensionsTable \in [E!ExtIds -> E!Info \cup {None}]
      /\ extensionsWatcher \in [pc : {"boot", "bootScan", "wait", "sleep", "scan"},
                                left : SUBSET ExtensionsFiles]
  BY DEF ExtensionsIInv, ExtensionsTypes, E!ExtIds
<1>3. E!Whole(f) => E!Inspect(f) \in E!Info /\ Active(E!Inspect(f))
  <2>1. E!Whole(f) => extensionsDir[f] \in E!Archive
    BY <1>2 DEF E!Whole, ExtensionsTypes
  <2>. QED
    BY <2>1 DEF E!Inspect, E!Info, E!Archive, Active
<1>4. /\ extensionsWatcher' \in [pc : {"boot", "bootScan", "wait", "sleep", "scan"},
                                 left : SUBSET ExtensionsFiles]
      /\ extensionsWatcher'.pc = extensionsWatcher.pc
      /\ extensionsWatcher'.left = extensionsWatcher.left \ {f}
  BY <1>1, <1>2
<1>5. ExtensionsTypes'
  BY <1>1, <1>2, <1>3, <1>4 DEF ExtensionsTypes
<1>6. \A id \in E!ExtIds : extensionsTable'[id] # None => Active(extensionsTable'[id])
  BY <1>1, <1>2, <1>3 DEF ExtensionsIInv
<1>7. ASSUME NEW g \in ExtensionsFiles \ extensionsUnseen', E!Whole(g)', E!OwnId(g)'
      PROVE  \/ extensionsTable'[ExtensionsIdOf[g]] = E!Inspect(g)'
             \/ ToBeScanned(g, extensionsWatcher', extensionsEvent')
  <2>1. E!Whole(g) /\ E!OwnId(g) /\ E!Inspect(g)' = E!Inspect(g)
    BY <1>1, <1>7, InspectSame
  <2>2. CASE g = f
    BY <1>1, <1>2, <2>1, <2>2
  <2>3. CASE g # f
    <3>1. \/ extensionsTable[ExtensionsIdOf[g]] = E!Inspect(g)
          \/ ToBeScanned(g, extensionsWatcher, extensionsEvent)
      BY <1>1, <1>7, <2>1, <2>3 DEF ExtensionsIInv
    <3>2. ExtensionsIdOf[f] # ExtensionsIdOf[g] /\ ExtensionsIdOf[g] \in E!ExtIds
      BY <2>1, <2>3 DEF E!OwnId, E!ExtIds
    <3>3. extensionsTable'[ExtensionsIdOf[g]] = extensionsTable[ExtensionsIdOf[g]]
      BY <1>1, <1>2, <3>2
    <3>. QED
      BY <1>1, <1>4, <2>1, <2>3, <3>1, <3>3 DEF ToBeScanned
  <2>. QED
    BY <2>2, <2>3
<1>. QED
  BY <1>1, <1>5, <1>6, <1>7 DEF ExtensionsIInv

\* A step of the administrators that leaves the table alone.
LEMMA AdminKeeps ==
    ASSUME E!ExtensionsAssumption, ExtensionsIInv,
           UNCHANGED <<extensionsDir, extensionsTable, extensionsWatcher, extensionsEvent,
                       extensionsVersion, extensionsUnseen>>,
           extensionsMount' \in [ExtensionsAdmins -> ExtensionsMounts \cup {None}],
           \A a \in ExtensionsAdmins : extensionsMount'[a] # None =>
               extensionsMount'[a].info.verified /\ extensionsMount'[a].info.status = "active"
    PROVE  ExtensionsIInv'
<1>1. ExtensionsTypes'
  BY DEF ExtensionsIInv, ExtensionsTypes
<1>2. \A f \in ExtensionsFiles : /\ E!Whole(f)' = E!Whole(f) /\ E!Inspect(f)' = E!Inspect(f)
                                 /\ E!OwnId(f)' = E!OwnId(f)
  BY InspectSame
<1>. QED
  BY <1>1, <1>2 DEF ExtensionsIInv

LEMMA MountOpenKeeps ==
    ASSUME E!ExtensionsAssumption, ExtensionsIInv, NEW a \in ExtensionsAdmins,
           NEW id \in E!ExtIds, E!MountOpen(a, id)
    PROVE  ExtensionsIInv'
<1>. DEFINE info == extensionsTable[id]
            m == [id |-> id, info |-> info, tools |-> FALSE]
<1>1. info \in E!Info /\ info.verified /\ info.status = "active"
  BY DEF E!MountOpen, ExtensionsIInv, ExtensionsTypes, Active
<1>. HIDE DEF info
<1>2. m \in ExtensionsMounts /\ m.info = info
  BY <1>1 DEF ExtensionsMounts
<1>3. /\ extensionsMount' = [extensionsMount EXCEPT ![a] = m]
      /\ UNCHANGED <<extensionsDir, extensionsTable, extensionsWatcher, extensionsEvent,
                     extensionsVersion, extensionsUnseen>>
  BY DEF E!MountOpen, E!disk, info
<1>4. extensionsMount \in [ExtensionsAdmins -> ExtensionsMounts \cup {None}]
  BY DEF ExtensionsIInv, ExtensionsTypes
<1>5. ASSUME NEW b \in ExtensionsAdmins, extensionsMount'[b] # None
      PROVE  extensionsMount'[b].info.verified /\ extensionsMount'[b].info.status = "active"
  <2>1. CASE b = a
    BY <1>1, <1>2, <1>3, <1>4, <2>1
  <2>2. CASE b # a
    BY <1>3, <1>4, <1>5, <2>2 DEF ExtensionsIInv
  <2>. QED
    BY <2>1, <2>2
<1>. HIDE DEF m
<1>. QED
  BY <1>2, <1>3, <1>4, <1>5, AdminKeeps

LEMMA MountToolsKeeps ==
    ASSUME E!ExtensionsAssumption, ExtensionsIInv, NEW a \in ExtensionsAdmins, E!MountTools(a)
    PROVE  ExtensionsIInv'
<1>1. /\ extensionsMount' = [extensionsMount EXCEPT ![a].tools = TRUE]
      /\ extensionsMount[a] # None
      /\ UNCHANGED <<extensionsDir, extensionsTable, extensionsWatcher, extensionsEvent,
                     extensionsVersion, extensionsUnseen>>
  BY DEF E!MountTools, E!disk
<1>2. extensionsMount \in [ExtensionsAdmins -> ExtensionsMounts \cup {None}]
  BY DEF ExtensionsIInv, ExtensionsTypes
<1>. DEFINE m == [extensionsMount[a] EXCEPT !.tools = TRUE]
<1>3. m \in ExtensionsMounts /\ m.info = extensionsMount[a].info
  BY <1>1, <1>2 DEF ExtensionsMounts
<1>4. extensionsMount' = [extensionsMount EXCEPT ![a] = m]
  BY <1>1, <1>2
<1>. HIDE DEF m
<1>5. ASSUME NEW b \in ExtensionsAdmins, extensionsMount'[b] # None
      PROVE  extensionsMount'[b].info.verified /\ extensionsMount'[b].info.status = "active"
  <2>1. CASE b = a
    BY <1>1, <1>2, <1>3, <1>4, <2>1 DEF ExtensionsIInv
  <2>2. CASE b # a
    BY <1>2, <1>4, <1>5, <2>2 DEF ExtensionsIInv
  <2>. QED
    BY <2>1, <2>2
<1>. QED
  BY <1>1, <1>2, <1>3, <1>4, <1>5, AdminKeeps

\* The object of a mount is verified and so is active already.
LEMMA MountReturnsKeeps ==
    ASSUME E!ExtensionsAssumption, ExtensionsIInv, NEW a \in ExtensionsAdmins,
           E!MountReturns(a)
    PROVE  ExtensionsIInv'
<1>1. /\ extensionsMount' = [extensionsMount EXCEPT ![a] = None]
      /\ extensionsMount[a] # None /\ extensionsTable' = E!Activated(a)
      /\ UNCHANGED <<extensionsDir, extensionsWatcher, extensionsEvent,
                     extensionsVersion, extensionsUnseen>>
  BY DEF E!MountReturns, E!disk
<1>2. /\ extensionsMount \in [ExtensionsAdmins -> ExtensionsMounts \cup {None}]
      /\ extensionsTable \in [E!ExtIds -> E!Info \cup {None}]
  BY DEF ExtensionsIInv, ExtensionsTypes
<1>3. extensionsMount[a] \in ExtensionsMounts
  BY <1>1, <1>2
<1>. DEFINE id == extensionsMount[a].id
            info == extensionsMount[a].info
<1>4. id \in E!ExtIds /\ info \in E!Info /\ info.status = "active"
  BY <1>1, <1>3 DEF ExtensionsIInv, ExtensionsMounts
<1>5. extensionsTable' = extensionsTable
  <2>1. CASE extensionsTable[id] = info
    <3>1. [info EXCEPT !.status = "active"] = info
      BY <1>4 DEF E!Info
    <3>2. extensionsTable' = [extensionsTable EXCEPT ![id] = [info EXCEPT !.status = "active"]]
      BY <1>1, <2>1 DEF E!Activated
    <3>. HIDE DEF id, info
    <3>. QED
      BY <1>2, <1>4, <2>1, <3>1, <3>2
  <2>2. CASE extensionsTable[id] # info
    BY <1>1, <2>2 DEF E!Activated
  <2>. QED
    BY <2>1, <2>2
<1>6. \A b \in ExtensionsAdmins : extensionsMount'[b] # None =>
          extensionsMount'[b].info.verified /\ extensionsMount'[b].info.status = "active"
  BY <1>1, <1>2 DEF ExtensionsIInv
<1>7. extensionsMount' \in [ExtensionsAdmins -> ExtensionsMounts \cup {None}]
  BY <1>1, <1>2
<1>. QED
  BY <1>1, <1>5, <1>6, <1>7, AdminKeeps

LEMMA ExtensionsCrashKeeps ==
    ASSUME E!ExtensionsAssumption, ExtensionsIInv, E!Crash PROVE ExtensionsIInv'
<1>1. /\ extensionsTable' = [id \in E!ExtIds |-> None]
      /\ extensionsWatcher' = [pc |-> "boot", left |-> {}] /\ extensionsEvent' = FALSE
      /\ extensionsMount' = [a \in ExtensionsAdmins |-> None]
      /\ UNCHANGED <<extensionsDir, extensionsVersion>>
  BY DEF E!Crash, E!Boot, E!disk
<1>2. ExtensionsTypes'
  BY <1>1 DEF ExtensionsIInv, ExtensionsTypes
<1>3. \A f : ToBeScanned(f, extensionsWatcher', extensionsEvent')
  BY <1>1 DEF ToBeScanned
<1>. QED
  BY <1>1, <1>2, <1>3 DEF ExtensionsIInv

LEMMA ExtensionsInductive ==
    ASSUME E!ExtensionsAssumption, ExtensionsIInv, [E!Next]_(E!vars)
    PROVE  ExtensionsIInv'
<1>1. ASSUME UNCHANGED <<extensionsDir, extensionsTable, extensionsWatcher, extensionsEvent,
                         extensionsVersion, extensionsUnseen, extensionsMount>>
      PROVE  ExtensionsIInv'
  BY <1>1, AdminKeeps DEF ExtensionsIInv, ExtensionsTypes
<1>2. CASE UNCHANGED E!vars
  BY <1>1, <1>2 DEF E!vars
<1>3. ASSUME NEW f \in ExtensionsFiles,
             E!WriteBegin(f) \/ E!WriteEnd(f) \/ E!Remove(f) \/ E!LoadExtension(f)
      PROVE  ExtensionsIInv'
  BY <1>3, WriteBeginKeeps, WriteEndKeeps, RemoveFileKeeps, LoadExtensionKeeps
<1>4. CASE E!Start \/ E!TakeEvent \/ E!Scan \/ E!ScanEnds
  BY <1>4, WatchKeeps
<1>5. ASSUME NEW a \in ExtensionsAdmins, NEW id \in E!ExtIds, E!MountOpen(a, id)
      PROVE  ExtensionsIInv'
  BY <1>5, MountOpenKeeps
<1>6. ASSUME NEW a \in ExtensionsAdmins, E!MountTools(a) \/ E!MountReturns(a)
      PROVE  ExtensionsIInv'
  BY <1>6, MountToolsKeeps, MountReturnsKeeps
<1>7. ASSUME NEW id \in E!ExtIds, E!AuthorizePermission(id) \/ E!SetSecret(id)
      PROVE  ExtensionsIInv'
  BY <1>1, <1>7 DEF E!AuthorizePermission, E!SetSecret, E!disk
<1>8. CASE E!Crash
  BY <1>8, ExtensionsCrashKeeps
<1>. QED
  BY <1>2, <1>3, <1>4, <1>5, <1>6, <1>7, <1>8 DEF E!Next

LEMMA ExtensionsInvariant == Spec => [](part = "extensions" => ExtensionsIInv)
<1>. E!ExtensionsAssumption
  BY ServicesAssumption DEF ServicesAssumption
<1>1. Init => (part = "extensions" => ExtensionsIInv)
  BY PartStarts, ExtensionsInitially
<1>2. (part = "extensions" => ExtensionsIInv) /\ [Next]_allVars =>
          (part = "extensions" => ExtensionsIInv)'
  BY PartSteps, ExtensionsInductive
<1>. QED
  BY <1>1, <1>2, PTL DEF Spec

\* A watcher at rest has the table as the archives are on disk
\* (AppExtensionService.Scan, LoadExtension).
THEOREM TableFollowsDisk == Spec => []TableIsCurrent
<1>1. ExtensionsIInv => E!TableIsCurrent
  BY DEF ExtensionsIInv, E!TableIsCurrent, ToBeScanned
<1>2. (part = "extensions" => ExtensionsIInv) => TableIsCurrent
  BY <1>1 DEF TableIsCurrent
<1>. QED
  BY <1>2, ExtensionsInvariant, PTL

-----------------------------------------------------------------------------
(* Router *)

RouterReq ==
    [pc : {"idle", "session", "create", "targets", "state", "clear", "ask", "route", "routed"},
     user : RouterUsers \cup {None}, input : RouterInputs \cup {None}, open : T!Questions,
     target : T!Targets \cup {None}, answer : BOOLEAN]

RouterTypes ==
    /\ routerRunning \subseteq RouterExts /\ routerAllowed \in [RouterUsers -> SUBSET T!Targets]
    /\ routerSessions \subseteq RouterUsers
    /\ routerNewest \in [RouterUsers -> T!Questions]
    /\ routerAsked \in [RouterUsers -> SUBSET T!Questions]
    /\ routerReq \in [RouterProcs -> RouterReq]
    /\ routerMessages \in 0 .. RouterMaxMessages /\ routerFaults \in 0 .. RouterMaxFaults
    /\ routerChanges \in 0 .. RouterMaxChanges

\* The target is one that a question showed where the message points, or one of
\* those that were open when the message came.
Shown(r, questions) ==
    IF r.answer
    THEN \E q \in questions : \E i \in T!Answers(r.input, q) : q[i] = r.target
    ELSE r.target \in T!Range(r.open)

\* A message under way is a user's; one that has its target has a good one; one
\* that has not yet answers nothing.
Routing(r, asked) ==
    /\ r.pc # "idle" => r.user \in RouterUsers
    /\ IF r.pc \in {"clear", "route", "routed"} THEN Shown(r, asked[r.user])
       ELSE r.answer = FALSE

\* A question that waits for its answer was put.
Pending(newest, asked) ==
    \A u \in RouterUsers : newest[u] # <<>> => newest[u] \in asked[u]

RouterIInv ==
    /\ RouterTypes
    /\ Pending(routerNewest, routerAsked)
    /\ \A p \in RouterProcs : Routing(routerReq[p], routerAsked)

\* What has been asked stays asked.
LEMMA RoutingStays ==
    ASSUME NEW asked \in [RouterUsers -> SUBSET T!Questions],
           NEW more \in [RouterUsers -> SUBSET T!Questions],
           \A u \in RouterUsers : asked[u] \subseteq more[u],
           NEW r, Routing(r, asked)
    PROVE  Routing(r, more)
BY DEF Routing, Shown

LEMMA NoTargets == <<>> \in T!Questions
<1>1. T!Cardinality({}) = 0
  BY FS_EmptySet DEF T!Cardinality, Cardinality
<1>2. <<>> \in T!SetToSeqs({})
  BY <1>1 DEF T!SetToSeqs
<1>. QED
  BY <1>2 DEF T!Questions

LEMMA IdleRouting == T!Idle \in RouterReq /\ T!Idle.pc = "idle" /\ T!Idle.answer = FALSE
BY NoTargets DEF T!Idle, RouterReq

\* The one target of a question with one.
LEMMA OnlyTarget ==
    ASSUME T!RouterAssumption, NEW q \in T!Questions, Len(q) = 1
    PROVE  q[1] \in T!Range(q) /\ q[1] \in T!Targets
<1>1. PICK may \in SUBSET T!Targets : q \in T!SetToSeqs(may)
  BY DEF T!Questions
<1>2. T!Cardinality(may) \in Nat
  <2>1. IsFiniteSet(T!Targets)
    BY DEF T!RouterAssumption, T!IsFiniteSet, IsFiniteSet
  <2>2. Cardinality(may) \in Nat
    BY <2>1, FS_Subset, FS_CardinalityType
  <2>. QED
    BY <2>2 DEF T!Cardinality, Cardinality
<1>3. q \in [1 .. T!Cardinality(may) -> may]
  BY <1>1 DEF T!SetToSeqs
<1>4. T!Cardinality(may) = 1
  BY <1>2, <1>3
<1>. QED
  BY <1>3, <1>4 DEF T!Range

LEMMA InQuestion ==
    ASSUME NEW q \in T!Questions
    PROVE  /\ \A i \in DOMAIN q : q[i] \in T!Range(q) /\ q[i] \in T!Targets
           /\ T!Range(q) \subseteq T!Targets
BY DEF T!Questions, T!SetToSeqs, T!Range

LEMMA RouterNow ==
    ASSUME RouterIInv, NEW p \in RouterProcs
    PROVE  /\ routerReq[p] \in RouterReq /\ Routing(routerReq[p], routerAsked)
           /\ routerReq[p].pc # "idle" => routerReq[p].user \in RouterUsers
BY DEF RouterIInv, RouterTypes, Routing

\* A message moves on, and no question is put.
LEMMA MessageMoves ==
    ASSUME RouterIInv, NEW p \in RouterProcs, NEW r \in RouterReq, Routing(r, routerAsked),
           routerReq' = [routerReq EXCEPT ![p] = r],
           routerSessions' \subseteq RouterUsers,
           routerNewest' \in [RouterUsers -> T!Questions],
           \A u \in RouterUsers : routerNewest'[u] \in {routerNewest[u], <<>>},
           routerMessages' \in 0 .. RouterMaxMessages, routerFaults' \in 0 .. RouterMaxFaults,
           UNCHANGED <<routerRunning, routerAllowed, routerChanges, routerAsked>>
    PROVE  RouterIInv'
<1>1. routerReq \in [RouterProcs -> RouterReq]
  BY DEF RouterIInv, RouterTypes
<1>2. routerReq' \in [RouterProcs -> RouterReq]
  BY <1>1
<1>3. RouterTypes'
  BY <1>2 DEF RouterIInv, RouterTypes
<1>4. Pending(routerNewest', routerAsked')
  BY DEF RouterIInv, Pending
<1>5. \A o \in RouterProcs : Routing(routerReq'[o], routerAsked')
  BY <1>1 DEF RouterIInv
<1>. QED
  BY <1>3, <1>4, <1>5 DEF RouterIInv

\* The counters of a step.
LEMMA RouterBounds ==
    ASSUME T!RouterAssumption, RouterIInv, T!Step \/ T!Fault
    PROVE  /\ routerMessages' \in 0 .. RouterMaxMessages
           /\ routerFaults' \in 0 .. RouterMaxFaults
           /\ routerChanges' = routerChanges
BY DEF RouterIInv, RouterTypes, T!Step, T!Fault, T!RouterAssumption

\* A message goes from one place before it has a target to another, or ends.
LEMMA RouterTo ==
    ASSUME NEW r \in RouterReq, NEW pc \in {"session", "create", "targets", "state", "ask"},
           NEW asked, Routing(r, asked), r.pc \in {"session", "create", "targets", "state", "ask"}
    PROVE  [r EXCEPT !.pc = pc] \in RouterReq /\ Routing([r EXCEPT !.pc = pc], asked)
<1> DEFINE s == [r EXCEPT !.pc = pc]
<1>1. s \in RouterReq /\ s.pc = pc /\ s.user = r.user /\ s.answer = r.answer
  BY DEF RouterReq
<1>2. r.user \in RouterUsers /\ r.answer = FALSE
  BY DEF Routing
<1>. HIDE DEF s
<1>3. Routing(s, asked)
  BY <1>1, <1>2 DEF Routing
<1>. QED
  BY <1>1, <1>3 DEF s

LEMMA MessageKeeps ==
    ASSUME T!RouterAssumption, RouterIInv, NEW p \in RouterProcs, NEW user \in RouterUsers,
           NEW input \in RouterInputs, T!Message(p, user, input)
    PROVE  RouterIInv'
<1> DEFINE r == [T!Idle EXCEPT !.pc = "session", !.user = user, !.input = input]
<1>1. routerReq' = [routerReq EXCEPT ![p] = r]
  BY DEF T!Message
<1>2. r \in RouterReq /\ r.pc = "session" /\ r.user = user /\ r.answer = FALSE
  BY IdleRouting DEF RouterReq
<1>. HIDE DEF r
<1>3. Routing(r, routerAsked)
  BY <1>2 DEF Routing
<1>4. /\ UNCHANGED <<routerRunning, routerAllowed, routerChanges, routerAsked>>
      /\ UNCHANGED <<routerSessions, routerNewest, routerFaults>>
      /\ routerMessages' \in 0 .. RouterMaxMessages
  BY DEF T!Message, T!world, RouterIInv, RouterTypes, T!RouterAssumption
<1>5. /\ routerSessions' \subseteq RouterUsers /\ routerNewest' \in [RouterUsers -> T!Questions]
      /\ routerFaults' \in 0 .. RouterMaxFaults
  BY <1>4 DEF RouterIInv, RouterTypes
<1>. QED
  BY <1>1, <1>2, <1>3, <1>4, <1>5, MessageMoves

\* The message that ends leaves nothing.
LEMMA DoneRouting == ASSUME NEW asked PROVE Routing(T!Idle, asked)
BY IdleRouting DEF Routing

LEMMA SessionKeeps ==
    ASSUME T!RouterAssumption, RouterIInv, NEW p \in RouterProcs,
           T!SessionGet(p) \/ T!SessionCreate(p)
    PROVE  RouterIInv'
<1>1. routerReq[p].pc \in {"session", "create"} /\ routerReq[p].user \in RouterUsers
  BY RouterNow DEF T!SessionGet, T!SessionCreate
<1>2. PICK r : /\ routerReq' = [routerReq EXCEPT ![p] = r]
               /\ \/ r = T!Idle
                  \/ \E pc \in {"create", "targets"} : r = [routerReq[p] EXCEPT !.pc = pc]
  <2>1. ASSUME T!SessionGet(p)
        PROVE  \E pc \in {"create", "targets"} :
                 routerReq' = [routerReq EXCEPT ![p] = [routerReq[p] EXCEPT !.pc = pc]]
    BY <2>1 DEF T!SessionGet, T!To
  <2>2. ASSUME T!SessionCreate(p)
        PROVE  \/ routerReq' = [routerReq EXCEPT ![p] = T!Idle]
               \/ routerReq' = [routerReq EXCEPT ![p] = [routerReq[p] EXCEPT !.pc = "targets"]]
    BY <2>2 DEF T!SessionCreate, T!To, T!Done
  <2>. QED
    BY <2>1, <2>2
<1>3. r \in RouterReq /\ Routing(r, routerAsked)
  <2>1. CASE r = T!Idle
    BY <2>1, IdleRouting, DoneRouting
  <2>2. ASSUME NEW pc \in {"create", "targets"}, r = [routerReq[p] EXCEPT !.pc = pc]
        PROVE  r \in RouterReq /\ Routing(r, routerAsked)
    <3>1. routerReq[p] \in RouterReq /\ Routing(routerReq[p], routerAsked)
      BY RouterNow
    <3>. QED
      BY <1>1, <2>2, <3>1, RouterTo
  <2>. QED
    BY <1>2, <2>1, <2>2
<1>4. /\ UNCHANGED <<routerRunning, routerAllowed, routerAsked, routerNewest>>
      /\ T!Step /\ routerSessions' \subseteq RouterUsers
  BY <1>1 DEF T!SessionGet, T!SessionCreate, T!world, RouterIInv, RouterTypes
<1>5. routerNewest' \in [RouterUsers -> T!Questions]
  BY <1>4 DEF RouterIInv, RouterTypes
<1>. QED
  BY <1>2, <1>3, <1>4, <1>5, RouterBounds, MessageMoves

LEMMA ResolveKeeps ==
    ASSUME T!RouterAssumption, RouterIInv, NEW p \in RouterProcs, T!Resolve(p)
    PROVE  RouterIInv'
<1>1. routerReq[p] \in RouterReq /\ routerReq[p].pc = "targets" /\ Routing(routerReq[p],
    routerAsked)
  BY RouterNow DEF T!Resolve
<1>2. PICK failed \in SUBSET T!Targets :
        LET may == {t \in T!Range(RouterSubs) \cup routerRunning :
                      \/ routerReq[p].user \in RouterPeers
                      \/ t \in routerAllowed[routerReq[p].user] \ failed}
        IN  /\ T!Step \/ T!Fault
            /\ \/ T!Done(p)
               \/ \E open \in T!SetToSeqs(may) :
                    routerReq' = [routerReq EXCEPT ![p].pc = "state", ![p].open = open]
  BY DEF T!Resolve
<1> DEFINE may == {t \in T!Range(RouterSubs) \cup routerRunning :
                      \/ routerReq[p].user \in RouterPeers
                      \/ t \in routerAllowed[routerReq[p].user] \ failed}
<1>3. may \subseteq T!Targets
  BY DEF T!Targets, RouterIInv, RouterTypes
<1>. HIDE DEF may
<1>4. T!SetToSeqs(may) \subseteq T!Questions
  BY <1>3 DEF T!Questions
<1>5. \/ T!Done(p)
      \/ \E open \in T!Questions :
            routerReq' = [routerReq EXCEPT ![p].pc = "state", ![p].open = open]
  BY <1>2, <1>4 DEF may
<1>6. PICK r \in RouterReq : /\ routerReq' = [routerReq EXCEPT ![p] = r]
                             /\ Routing(r, routerAsked)
  <2>1. CASE T!Done(p)
    BY <2>1, IdleRouting, DoneRouting DEF T!Done
  <2>2. ASSUME NEW open \in T!Questions,
               routerReq' = [routerReq EXCEPT ![p].pc = "state", ![p].open = open]
        PROVE  \E r \in RouterReq : /\ routerReq' = [routerReq EXCEPT ![p] = r]
                                    /\ Routing(r, routerAsked)
    <3> DEFINE r == [routerReq[p] EXCEPT !.pc = "state", !.open = open]
    <3>1. /\ r \in RouterReq /\ r.pc = "state" /\ r.user = routerReq[p].user
          /\ r.answer = routerReq[p].answer
      BY <1>1 DEF RouterReq
    <3>2. routerReq' = [routerReq EXCEPT ![p] = r]
      BY <2>2
    <3>. HIDE DEF r
    <3>3. Routing(r, routerAsked)
      BY <1>1, <3>1 DEF Routing
    <3>. QED
      BY <3>1, <3>2, <3>3
  <2>. QED
    BY <1>5, <2>1, <2>2
<1>7. /\ UNCHANGED <<routerRunning, routerAllowed, routerAsked, routerNewest, routerSessions>>
      /\ T!Step \/ T!Fault
  BY <1>2 DEF T!Resolve, T!world
<1>8. /\ routerNewest' \in [RouterUsers -> T!Questions]
      /\ routerSessions' \subseteq RouterUsers
  BY <1>7 DEF RouterIInv, RouterTypes
<1>. QED
  BY <1>6, <1>7, <1>8, RouterBounds, MessageMoves

\* An answer goes to the option it points to in the question that waits.
LEMMA SelectKeeps ==
    ASSUME T!RouterAssumption, RouterIInv, NEW p \in RouterProcs, T!Select(p)
    PROVE  RouterIInv'
<1> DEFINE was == routerReq[p]
           options == routerNewest[was.user]
<1>1. was \in RouterReq /\ was.user \in RouterUsers
  BY RouterNow DEF T!Select
<1>2. options \in T!Questions /\ options \in routerAsked[was.user]
  BY <1>1 DEF T!Select, RouterIInv, RouterTypes, Pending
<1>3. \/ T!Done(p)
      \/ \E t \in T!Chosen(p, options) :
           routerReq' = [routerReq EXCEPT ![p].pc = "clear", ![p].target = t, ![p].answer = TRUE]
  BY DEF T!Select
<1>4. PICK r \in RouterReq : /\ routerReq' = [routerReq EXCEPT ![p] = r]
                             /\ Routing(r, routerAsked)
  <2>1. CASE T!Done(p)
    BY <2>1, IdleRouting, DoneRouting DEF T!Done
  <2>2. ASSUME NEW t \in T!Chosen(p, options),
               routerReq' = [routerReq EXCEPT ![p].pc = "clear", ![p].target = t,
                                              ![p].answer = TRUE]
        PROVE  \E r \in RouterReq : /\ routerReq' = [routerReq EXCEPT ![p] = r]
                                    /\ Routing(r, routerAsked)
    <3> DEFINE r == [was EXCEPT !.pc = "clear", !.target = t, !.answer = TRUE]
    <3>1. PICK i \in T!Answers(was.input, options) : options[i] = t
      BY <2>2 DEF T!Chosen, T!First
    <3>2. t \in T!Targets
      BY <1>2, <3>1, InQuestion DEF T!Answers
    <3>3. /\ r \in RouterReq /\ r.pc = "clear" /\ r.user = was.user /\ r.input = was.input
          /\ r.target = t
      BY <1>1, <3>2 DEF RouterReq
    <3>4. r.answer
      BY <1>1 DEF RouterReq
    <3>5. routerReq' = [routerReq EXCEPT ![p] = r]
      BY <2>2
    <3>. HIDE DEF r
    <3>6. Shown(r, routerAsked[r.user])
      BY <1>2, <3>1, <3>3, <3>4 DEF Shown
    <3>7. Routing(r, routerAsked)
      BY <1>1, <3>3, <3>6 DEF Routing
    <3>. QED
      BY <3>3, <3>5, <3>7
  <2>. QED
    BY <1>3, <2>1, <2>2
<1>5. /\ UNCHANGED <<routerRunning, routerAllowed, routerAsked, routerNewest, routerSessions>>
      /\ T!Step
  BY DEF T!Select, T!world
<1>6. /\ routerNewest' \in [RouterUsers -> T!Questions]
      /\ routerSessions' \subseteq RouterUsers
  BY <1>5 DEF RouterIInv, RouterTypes
<1>. QED
  BY <1>4, <1>5, <1>6, RouterBounds, MessageMoves

\* A message that has its target keeps it.
LEMMA RouteOn ==
    ASSUME NEW r \in RouterReq, NEW pc \in {"route", "routed"}, NEW asked, Routing(r, asked),
           r.pc \in {"clear", "route"}
    PROVE  [r EXCEPT !.pc = pc] \in RouterReq /\ Routing([r EXCEPT !.pc = pc], asked)
<1> DEFINE s == [r EXCEPT !.pc = pc]
<1>1. /\ s \in RouterReq /\ s.pc = pc /\ s.user = r.user /\ s.answer = r.answer
      /\ s.input = r.input /\ s.target = r.target /\ s.open = r.open
  BY DEF RouterReq
<1>2. r.user \in RouterUsers /\ Shown(r, asked[r.user])
  BY DEF Routing
<1>. HIDE DEF s
<1>3. Shown(s, asked[s.user])
  BY <1>1, <1>2 DEF Shown
<1>4. Routing(s, asked)
  BY <1>1, <1>2, <1>3 DEF Routing
<1>. QED
  BY <1>1, <1>4 DEF s

LEMMA ClearKeeps ==
    ASSUME T!RouterAssumption, RouterIInv, NEW p \in RouterProcs, T!Clear(p)
    PROVE  RouterIInv'
<1> DEFINE r == [routerReq[p] EXCEPT !.pc = "route"]
<1>1. /\ routerReq[p].pc = "clear" /\ routerReq[p] \in RouterReq
      /\ Routing(routerReq[p], routerAsked) /\ routerReq[p].user \in RouterUsers
  BY RouterNow DEF T!Clear
<1>2. routerReq' = [routerReq EXCEPT ![p] = r]
  BY DEF T!Clear, T!To
<1>3. r \in RouterReq /\ Routing(r, routerAsked)
  BY <1>1, RouteOn
<1>4. /\ UNCHANGED <<routerRunning, routerAllowed, routerAsked, routerSessions>>
      /\ T!Step \/ T!Fault
      /\ \/ routerNewest' = [routerNewest EXCEPT ![routerReq[p].user] = <<>>]
         \/ UNCHANGED routerNewest
  BY DEF T!Clear, T!world
<1>5. /\ routerNewest' \in [RouterUsers -> T!Questions]
      /\ \A u \in RouterUsers : routerNewest'[u] \in {routerNewest[u], <<>>}
      /\ routerSessions' \subseteq RouterUsers
  BY <1>1, <1>4, NoTargets DEF RouterIInv, RouterTypes
<1>. HIDE DEF r
<1>. QED
  BY <1>2, <1>3, <1>4, <1>5, RouterBounds, MessageMoves

LEMMA InitialKeeps ==
    ASSUME T!RouterAssumption, RouterIInv, NEW p \in RouterProcs, T!Initial(p)
    PROVE  RouterIInv'
<1> DEFINE was == routerReq[p]
<1>1. /\ was \in RouterReq /\ was.user \in RouterUsers /\ was.pc = "state"
      /\ Routing(was, routerAsked) /\ was.open \in T!Questions
  BY RouterNow DEF T!Initial, RouterReq
<1>2. \/ T!To(p, "ask")
      \/ \E t \in T!Range(was.open) :
           routerReq' = [routerReq EXCEPT ![p].pc = "route", ![p].target = t]
  <2>1. Len(was.open) = 1 => was.open[1] \in T!Range(was.open)
    BY <1>1, OnlyTarget
  <2>2. \A i \in DOMAIN was.open : was.open[i] \in T!Range(was.open)
    BY <1>1, InQuestion
  <2>. QED
    BY <2>1, <2>2 DEF T!Initial, T!First
<1>3. PICK r \in RouterReq : /\ routerReq' = [routerReq EXCEPT ![p] = r]
                             /\ Routing(r, routerAsked)
  <2>1. CASE T!To(p, "ask")
    <3>1. routerReq' = [routerReq EXCEPT ![p] = [was EXCEPT !.pc = "ask"]]
      BY <2>1 DEF T!To
    <3>. QED
      BY <1>1, <3>1, RouterTo
  <2>2. ASSUME NEW t \in T!Range(was.open),
               routerReq' = [routerReq EXCEPT ![p].pc = "route", ![p].target = t]
        PROVE  \E r \in RouterReq : /\ routerReq' = [routerReq EXCEPT ![p] = r]
                                    /\ Routing(r, routerAsked)
    <3> DEFINE r == [was EXCEPT !.pc = "route", !.target = t]
    <3>1. t \in T!Targets
      BY <1>1, <2>2, InQuestion
    <3>2. /\ r \in RouterReq /\ r.pc = "route" /\ r.user = was.user /\ r.open = was.open
          /\ r.target = t /\ r.answer = was.answer
      BY <1>1, <3>1 DEF RouterReq
    <3>3. was.answer = FALSE
      BY <1>1 DEF Routing
    <3>4. routerReq' = [routerReq EXCEPT ![p] = r]
      BY <2>2
    <3>. HIDE DEF r
    <3>5. Shown(r, routerAsked[r.user])
      BY <2>2, <3>2, <3>3 DEF Shown
    <3>6. Routing(r, routerAsked)
      BY <1>1, <3>2, <3>5 DEF Routing
    <3>. QED
      BY <3>2, <3>4, <3>6
  <2>. QED
    BY <1>2, <2>1, <2>2
<1>4. /\ UNCHANGED <<routerRunning, routerAllowed, routerAsked, routerNewest, routerSessions>>
      /\ T!Step \/ T!Fault
  BY DEF T!Initial, T!world
<1>5. /\ routerNewest' \in [RouterUsers -> T!Questions]
      /\ routerSessions' \subseteq RouterUsers
  BY <1>4 DEF RouterIInv, RouterTypes
<1>. QED
  BY <1>3, <1>4, <1>5, RouterBounds, MessageMoves

\* The user is asked: the question is put, and waits if it could be stored.
LEMMA AskKeeps ==
    ASSUME T!RouterAssumption, RouterIInv, NEW p \in RouterProcs, T!Ask(p)
    PROVE  RouterIInv'
<1> DEFINE was == routerReq[p]
<1>1. was \in RouterReq /\ was.user \in RouterUsers /\ was.open \in T!Questions
  BY RouterNow DEF T!Ask, RouterReq
<1>2. /\ UNCHANGED <<routerRunning, routerAllowed, routerSessions>>
      /\ T!Step \/ T!Fault
      /\ routerReq' = [routerReq EXCEPT ![p] = T!Idle]
      /\ routerAsked' = [routerAsked EXCEPT ![was.user] = @ \cup {was.open}]
      /\ \/ routerNewest' = [routerNewest EXCEPT ![was.user] = was.open]
         \/ UNCHANGED routerNewest
  BY DEF T!Ask, T!Done, T!world
<1>3. /\ routerAsked \in [RouterUsers -> SUBSET T!Questions]
      /\ routerNewest \in [RouterUsers -> T!Questions]
      /\ routerReq \in [RouterProcs -> RouterReq]
  BY DEF RouterIInv, RouterTypes
<1>4. /\ routerAsked' \in [RouterUsers -> SUBSET T!Questions]
      /\ \A u \in RouterUsers : routerAsked[u] \subseteq routerAsked'[u]
      /\ was.open \in routerAsked'[was.user]
  BY <1>1, <1>2, <1>3
<1>5. routerNewest' \in [RouterUsers -> T!Questions] /\ routerReq' \in [RouterProcs -> RouterReq]
  BY <1>1, <1>2, <1>3, IdleRouting
<1>6. RouterTypes'
  BY <1>2, <1>4, <1>5, RouterBounds DEF RouterIInv, RouterTypes
<1>7. Pending(routerNewest', routerAsked')
  <2>1. Pending(routerNewest, routerAsked)
    BY DEF RouterIInv
  <2>. QED
    BY <1>1, <1>2, <1>3, <1>4, <2>1 DEF Pending
<1>8. ASSUME NEW o \in RouterProcs PROVE Routing(routerReq'[o], routerAsked')
  <2>1. CASE o = p
    BY <1>2, <1>3, <2>1, DoneRouting
  <2>2. CASE o # p
    <3>1. routerReq'[o] = routerReq[o] /\ Routing(routerReq[o], routerAsked)
      BY <1>2, <1>3, <2>2 DEF RouterIInv
    <3>. QED
      BY <1>3, <1>4, <3>1, RoutingStays
  <2>. QED
    BY <2>1, <2>2
<1>. QED
  BY <1>6, <1>7, <1>8 DEF RouterIInv

LEMMA RouteKeeps ==
    ASSUME T!RouterAssumption, RouterIInv, NEW p \in RouterProcs, T!Route(p) \/ T!Reply(p)
    PROVE  RouterIInv'
<1>1. /\ routerReq[p] \in RouterReq /\ Routing(routerReq[p], routerAsked)
  BY RouterNow
<1>2. PICK r \in RouterReq : /\ routerReq' = [routerReq EXCEPT ![p] = r]
                             /\ Routing(r, routerAsked)
  <2>1. CASE T!Done(p)
    BY <2>1, IdleRouting, DoneRouting DEF T!Done
  <2>2. CASE T!Route(p) /\ T!To(p, "routed")
    <3>1. routerReq[p].pc = "route"
      BY <2>2 DEF T!Route
    <3>2. routerReq' = [routerReq EXCEPT ![p] = [routerReq[p] EXCEPT !.pc = "routed"]]
      BY <2>2 DEF T!To
    <3>. QED
      BY <1>1, <3>1, <3>2, RouteOn
  <2>. QED
    BY <2>1, <2>2 DEF T!Route, T!Reply
<1>3. /\ UNCHANGED <<routerRunning, routerAllowed, routerAsked, routerNewest, routerSessions>>
      /\ T!Step
  BY DEF T!Route, T!Reply, T!world
<1>4. /\ routerNewest' \in [RouterUsers -> T!Questions]
      /\ routerSessions' \subseteq RouterUsers
  BY <1>3 DEF RouterIInv, RouterTypes
<1>. QED
  BY <1>2, <1>3, <1>4, RouterBounds, MessageMoves

\* Extensions come and go, permissions change, the process starts over.
LEMMA WorldKeeps ==
    ASSUME T!RouterAssumption, RouterIInv,
           \/ \E e \in RouterExts : T!ExtensionChange(e)
           \/ \E user \in RouterUsers, t \in T!Targets : T!PermissionChange(user, t)
    PROVE  RouterIInv'
<1>1. T!Changed
  BY DEF T!ExtensionChange, T!PermissionChange
<1>2. routerRunning' \subseteq RouterExts
  BY DEF T!ExtensionChange, T!PermissionChange, RouterIInv, RouterTypes
<1>3. routerAllowed' \in [RouterUsers -> SUBSET T!Targets]
  BY DEF T!ExtensionChange, T!PermissionChange, RouterIInv, RouterTypes
<1>4. routerChanges' \in 0 .. RouterMaxChanges
  BY <1>1 DEF T!Changed, RouterIInv, RouterTypes, T!RouterAssumption
<1>5. UNCHANGED <<routerSessions, routerNewest, routerReq, routerMessages, routerFaults,
                  routerAsked>>
  BY <1>1 DEF T!Changed
<1>6. RouterTypes'
  BY <1>2, <1>3, <1>4, <1>5 DEF RouterIInv, RouterTypes
<1>. QED
  BY <1>5, <1>6 DEF RouterIInv

LEMMA RestartKeeps ==
    ASSUME T!RouterAssumption, RouterIInv, T!Restart
    PROVE  RouterIInv'
<1>1. /\ UNCHANGED <<routerRunning, routerAllowed, routerNewest, routerAsked>>
      /\ routerSessions' = {} /\ routerReq' = [p \in RouterProcs |-> T!Idle] /\ T!Fault
  BY DEF T!Restart, T!world
<1>2. routerReq' \in [RouterProcs -> RouterReq]
  BY <1>1, IdleRouting
<1>3. RouterTypes'
  BY <1>1, <1>2, RouterBounds DEF RouterIInv, RouterTypes
<1>4. \A p \in RouterProcs : Routing(routerReq'[p], routerAsked')
  BY <1>1, DoneRouting
<1>. QED
  BY <1>1, <1>3, <1>4 DEF RouterIInv

LEMMA RouterInitially ==
    ASSUME T!RouterAssumption, T!Init PROVE RouterIInv
<1>1. routerReq = [p \in RouterProcs |-> T!Idle]
  BY DEF T!Init
<1>2. /\ routerRunning \subseteq RouterExts /\ routerAllowed \in [RouterUsers -> SUBSET T!Targets]
      /\ routerSessions \subseteq RouterUsers
      /\ routerNewest \in [RouterUsers -> T!Questions]
      /\ routerAsked \in [RouterUsers -> SUBSET T!Questions]
  BY NoTargets DEF T!Init
<1>3. /\ routerMessages \in 0 .. RouterMaxMessages /\ routerFaults \in 0 .. RouterMaxFaults
      /\ routerChanges \in 0 .. RouterMaxChanges
  BY DEF T!Init, T!RouterAssumption
<1>4. routerReq \in [RouterProcs -> RouterReq]
  BY <1>1, IdleRouting
<1>5. Pending(routerNewest, routerAsked)
  BY DEF T!Init, Pending
<1>6. \A p \in RouterProcs : Routing(routerReq[p], routerAsked)
  BY <1>1, DoneRouting
<1>. QED
  BY <1>2, <1>3, <1>4, <1>5, <1>6 DEF RouterIInv, RouterTypes

LEMMA RouterInductive ==
    ASSUME T!RouterAssumption, RouterIInv, [T!Next]_(T!vars) PROVE RouterIInv'
<1>1. ASSUME NEW p \in RouterProcs,
             \/ \E user \in RouterUsers, input \in RouterInputs : T!Message(p, user, input)
             \/ T!SessionGet(p) \/ T!SessionCreate(p) \/ T!Resolve(p) \/ T!Select(p) \/ T!Clear(p)
             \/ T!Initial(p) \/ T!Ask(p) \/ T!Route(p) \/ T!Reply(p)
      PROVE  RouterIInv'
  BY <1>1, MessageKeeps, SessionKeeps, ResolveKeeps, SelectKeeps, ClearKeeps, InitialKeeps,
     AskKeeps, RouteKeeps
<1>2. CASE UNCHANGED T!vars
  BY <1>2 DEF T!vars, RouterIInv, RouterTypes
<1>. QED
  BY <1>1, <1>2, WorldKeeps, RestartKeeps DEF T!Next

LEMMA RouterInvariant == Spec => [](part = "router" => RouterIInv)
<1> DEFINE Runs == part = "router" => RouterIInv
<1>1. Init => Runs
  BY PartStarts, RouterInitially, ServicesAssumption DEF ServicesAssumption
<1>2. Runs /\ [Next]_allVars => Runs'
  BY PartSteps, RouterInductive, ServicesAssumption DEF ServicesAssumption
<1>. QED
  BY <1>1, <1>2, PTL DEF Spec

\* A message that answers a question goes where the question put to its user
\* pointed, and any other where the user could go when it came, whatever
\* extensions and permissions did meanwhile (RegisterRouterAgent).
THEOREM AnswersFollowQuestions == Spec => []RoutedAsShown
<1>1. RouterIInv => T!RoutedAsShown
  BY DEF RouterIInv, Routing, Shown, T!RoutedAsShown
<1>2. (part = "router" => RouterIInv) => RoutedAsShown
  BY <1>1 DEF RoutedAsShown
<1>. QED
  BY <1>2, RouterInvariant, PTL

-----------------------------------------------------------------------------
(* Drivers *)

LEMMA DriversSteps == [Next]_allVars /\ part = "drivers" => [R!Next]_driversStore
<1>1. UNCHANGED allVars => UNCHANGED driversStore
  BY DEF allVars, driversVars
<1>2. Next /\ part = "drivers" => R!Next
  BY DEF Next, RunSchemas, RunSeedData, RunExtensions, RunAccounts, RunMessaging,
         RunAccess, RunDrivers, RunNotices, RunRouter, RunTempAccess
<1>. QED
  BY <1>1, <1>2

LEMMA DriversTyped ==
    ASSUME R!DriversAssumption, R!TypeOK, [R!Next]_driversStore PROVE R!TypeOK'
<1> DEFINE Rows == [rec : R!Recs, rev : 1 .. DriversMaxRevision]
<1>1. driversStore \in [DriversKeys -> Rows \cup {None}]
  BY DEF R!TypeOK
<1>2. ASSUME NEW k \in DriversKeys, NEW rec \in R!Recs, NEW rev \in 0 .. DriversMaxRevision,
             rev < DriversMaxRevision
      PROVE  R!Saved(k, rec, rev) \in [DriversKeys -> Rows \cup {None}]
  <2>1. R!Row(rec, rev + 1) \in Rows
    BY <1>2 DEF R!Row, R!DriversAssumption
  <2>. HIDE DEF Rows
  <2>. QED
    BY <1>1, <2>1 DEF R!Saved
<1>3. driversStore' \in [DriversKeys -> Rows \cup {None}]
  <2>. HIDE DEF Rows
  <2>. QED
    BY <1>1, <1>2 DEF R!Next, R!Save, R!SaveConditional, R!Delete
<1>. QED
  BY <1>3 DEF R!TypeOK

\* A field that a record has holds a value.
LEMMA FieldValue ==
    ASSUME R!TypeOK, NEW k \in R!Present, NEW field, R!Has(k, field)
    PROVE  R!Rec(k)[field] \in DriversValues
<1>1. driversStore[k].rec \in R!Recs
  BY DEF R!TypeOK, R!Present
<1>. QED
  BY <1>1 DEF R!Recs, R!Rec, R!Has

\* Values of one kind are the same if their texts are.
LEMMA SameText ==
    ASSUME R!DriversAssumption, NEW v \in DriversValues, NEW w \in DriversValues,
           v.kind = w.kind, v.text = w.text
    PROVE  v = w
<1>1. /\ v \in [text : DOMAIN DriversTextRank, kind : {"text", "num", "null"}]
      /\ w \in [text : DOMAIN DriversTextRank, kind : {"text", "num", "null"}]
  BY DEF R!DriversAssumption
<1>. QED
  BY <1>1

\* A filter that asks for equality with values of the right kind matches the same
\* records whichever way a driver compares them.
LEMMA MatchesAgree ==
    ASSUME R!DriversAssumption, R!TypeOK, NEW k \in R!Present, NEW f \in DriversFilters,
           f.match = "equals", \A v \in f.values : v.kind # "null",
           \A v \in f.values : R!Has(k, f.field) => R!Rec(k)[f.field].kind = v.kind,
           NEW driver \in {"sqlite", "postgres", "surreal", "firestore"}, f.values # {}
    PROVE  R!Matches(driver, k, f) <=> R!Matches("memory", k, f)
<1> DEFINE w == R!Rec(k)[f.field]
           Alike == R!Has(k, f.field) /\ \E v \in f.values : v.text = w.text
<1>1. ASSUME R!Has(k, f.field) PROVE w \in DriversValues
  BY <1>1, FieldValue
<1>2. ASSUME R!Has(k, f.field) PROVE w \in f.values <=> \E v \in f.values : v.text = w.text
  <2>1. f.values \subseteq DriversValues
    BY DEF R!DriversAssumption
  <2>2. ASSUME NEW v \in f.values, v.text = w.text PROVE v = w
    BY <1>1, <1>2, <2>1, <2>2, SameText
  <2>. QED
    BY <2>2
<1>3. ASSUME R!Has(k, f.field), \E v \in f.values : v.text = w.text PROVE w.kind # "null"
  BY <1>3
<1>4. R!MemoryMatches(k, f) <=> Alike
  BY DEF R!MemoryMatches
<1>5. ~ R!Ignored(f)
  BY DEF R!Ignored
<1>6. R!SqliteWhere(k, f) <=> Alike
  BY <1>2, <1>3, <1>5 DEF R!SqliteWhere
<1>7. R!PostgresWhere(k, f) <=> Alike
  BY <1>3, <1>5 DEF R!PostgresWhere
<1>8. R!SurrealWhere(k, f) <=> Alike
  BY <1>2, <1>5 DEF R!SurrealWhere
<1>9. R!FirestoreWhere(k, f) <=> Alike
  BY <1>2, <1>5 DEF R!FirestoreWhere
<1>. HIDE DEF Alike
<1>10. R!Matches("memory", k, f) = R!MemoryMatches(k, f)
  BY DEF R!Matches
<1>11. CASE driver = "sqlite"
  <2>1. R!Matches(driver, k, f) = R!SqliteWhere(k, f)
    BY <1>11 DEF R!Matches
  <2>. QED
    BY <1>4, <1>6, <1>10, <2>1
<1>12. CASE driver = "postgres"
  <2>1. R!Matches(driver, k, f) = R!PostgresWhere(k, f)
    BY <1>12 DEF R!Matches
  <2>. QED
    BY <1>4, <1>7, <1>10, <2>1
<1>13. CASE driver = "surreal"
  <2>1. R!Matches(driver, k, f) = R!SurrealWhere(k, f)
    BY <1>13 DEF R!Matches
  <2>. QED
    BY <1>4, <1>8, <1>10, <2>1
<1>14. CASE driver = "firestore"
  <2>1. R!Matches(driver, k, f) = R!FirestoreWhere(k, f)
    BY <1>14 DEF R!Matches
  <2>. QED
    BY <1>4, <1>9, <1>10, <2>1
<1>. QED
  BY <1>11, <1>12, <1>13, <1>14

LEMMA FoundAgree ==
    ASSUME R!DriversAssumption, R!TypeOK, NEW q \in R!Queries, R!KindsFit(q),
           NEW driver \in {"sqlite", "postgres", "surreal", "firestore"}
    PROVE  R!Found(driver, q) = R!Found("memory", q)
<1>1. ASSUME NEW k \in R!Present, NEW f \in q.filters
      PROVE  R!Matches(driver, k, f) <=> R!Matches("memory", k, f)
  <2>1. f \in DriversFilters
    BY DEF R!Queries
  <2>2. /\ f.match = "equals" /\ f.values # {} /\ \A v \in f.values : v.kind # "null"
        /\ \A v \in f.values : R!Has(k, f.field) => R!Rec(k)[f.field].kind = v.kind
    BY DEF R!KindsFit
  <2>. QED
    BY <2>1, <2>2, MatchesAgree
<1>. QED
  BY <1>1 DEF R!Found

\* Distinct texts have one order on all drivers, but for the collation of Postgres.
LEMMA OrderAgrees ==
    ASSUME R!DriversAssumption, R!TypeOK, NEW q \in R!Queries, R!OrderFits(q),
           NEW driver \in {"sqlite", "postgres", "surreal", "firestore"},
           driver = "postgres" => R!CollatesAsBytes(q),
           NEW j \in R!Present, NEW k \in R!Present
    PROVE  R!Before(driver, j, k, q.sort) <=> R!Before("memory", j, k, q.sort)
<1> DEFINE field == q.sort.field
           place(x) == DriversTextRank[R!Rec(x)[field].text]
           collated(x) == DriversCollation[R!Rec(x)[field].text]
<1>1. ASSUME NEW x \in R!Present
      PROVE  /\ R!Has(x, field) /\ R!Rec(x)[field].kind = "text" /\ place(x) \in Int
             /\ collated(x) \in Int
  <2>1. R!Has(x, field) /\ R!Rec(x)[field].kind = "text"
    BY DEF R!OrderFits
  <2>2. R!Rec(x)[field].text \in DOMAIN DriversTextRank
    BY <2>1, FieldValue DEF R!DriversAssumption
  <2>. QED
    BY <2>1, <2>2 DEF R!DriversAssumption
<1>2. R!Highest \in Int
  <2>1. IsFiniteSet(DriversValues)
    BY DEF R!DriversAssumption, R!IsFiniteSet, IsFiniteSet
  <2>2. Cardinality(DriversValues) \in Nat
    BY <2>1, FS_CardinalityType
  <2>3. R!Cardinality(DriversValues) \in Nat
    BY <2>2 DEF R!Cardinality, Cardinality
  <2>. QED
    BY <2>3 DEF R!Highest
<1>3. ASSUME NEW x \in R!Present
      PROVE  /\ R!Rank("memory", x, field) = place(x)
             /\ R!Rank("postgres", x, field) = collated(x)
             /\ driver \notin {"memory", "postgres"} =>
                  R!Rank(driver, x, field) = R!Highest + place(x)
  <2>1. R!MemoryRank(x, field) = place(x) /\ R!PostgresRank(x, field) = collated(x)
    BY <1>1 DEF R!MemoryRank, R!PostgresRank
  <2>2. R!TypedRank(x, field) = R!Highest + place(x)
    BY <1>1 DEF R!TypedRank
  <2>. QED
    BY <2>1, <2>2 DEF R!Rank
<1>4. q.sort # None
  BY DEF R!OrderFits
<1>. DEFINE a == place(j) b == place(k)
<1>5. a \in Int /\ b \in Int /\ j \in Int /\ k \in Int
  BY <1>1 DEF R!Present, R!DriversAssumption
<1>6. R!Before("memory", j, k, q.sort) <=>
        IF a = b THEN j < k ELSE IF q.sort.desc THEN a > b ELSE a < b
  BY <1>3, <1>4 DEF R!Before
<1>7. R!Before(driver, j, k, q.sort) <=>
        IF a = b THEN j < k ELSE IF q.sort.desc THEN a > b ELSE a < b
  <2>1. CASE driver = "postgres"
    <3>. DEFINE c == collated(j) d == collated(k)
    <3>1. /\ R!Before("postgres", j, k, q.sort) <=>
               IF c = d THEN j < k ELSE IF q.sort.desc THEN c > d ELSE c < d
          /\ c \in Int /\ d \in Int
      BY <1>1, <1>3, <1>4 DEF R!Before
    <3>2. (c < d <=> a < b) /\ (d < c <=> b < a)
      BY <2>1 DEF R!CollatesAsBytes
    <3>. HIDE DEF a, b, c, d
    <3>3. (c = d <=> a = b) /\ (c > d <=> a > b)
      BY <1>5, <3>1, <3>2
    <3>. QED
      BY <2>1, <3>1, <3>2, <3>3
  <2>2. CASE driver # "postgres"
    <3>1. R!Rank(driver, j, field) = R!Highest + a /\ R!Rank(driver, k, field) = R!Highest + b
      BY <1>3, <2>2
    <3>. HIDE DEF a, b
    <3>2. /\ (R!Highest + a = R!Highest + b) <=> (a = b)
          /\ (R!Highest + a > R!Highest + b) <=> (a > b)
          /\ (R!Highest + a < R!Highest + b) <=> (a < b)
      BY <1>2, <1>5
    <3>. QED
      BY <1>4, <3>1, <3>2 DEF R!Before
  <2>. QED
    BY <2>1, <2>2
<1>. QED
  BY <1>6, <1>7

LEMMA ListsAgree ==
    ASSUME R!DriversAssumption, R!TypeOK, NEW q \in R!Queries, R!KindsFit(q), R!OrderFits(q)
    PROVE  /\ R!CollatesAsBytes(q) => R!PostgresList(q) = R!MemoryList(q)
           /\ R!SurrealList(q) = R!MemoryList(q)
           /\ q.offset = 0 \/ q.limit # None => R!SqliteList(q) = R!MemoryList(q)
           /\ q.offset = 0 => R!FirestoreList(q).page = R!MemoryList(q).page
<1> DEFINE found == R!Found("memory", q)
<1>1. found \subseteq R!Present
  BY DEF R!Found
<1>2. \A driver \in {"sqlite", "postgres", "surreal", "firestore"} : R!Found(driver, q) = found
  BY FoundAgree
<1>. HIDE DEF found
<1>3. \A driver \in {"sqlite", "postgres", "surreal", "firestore"} : \A offset, limit :
        (driver = "postgres" => R!CollatesAsBytes(q)) =>
        R!Slice(driver, found, q.sort, offset, limit) =
            R!Slice("memory", found, q.sort, offset, limit)
  <2>. SUFFICES ASSUME NEW driver \in {"sqlite", "postgres", "surreal", "firestore"},
                       driver = "postgres" => R!CollatesAsBytes(q), NEW offset, NEW limit
                PROVE  R!Slice(driver, found, q.sort, offset, limit) =
                           R!Slice("memory", found, q.sort, offset, limit)
    OBVIOUS
  <2>1. ASSUME NEW k \in found
        PROVE  {j \in found : R!Before(driver, j, k, q.sort)} =
                   {j \in found : R!Before("memory", j, k, q.sort)}
    BY <1>1, <2>1, OrderAgrees
  <2>. QED
    BY <2>1 DEF R!Slice
<1>4. R!MemoryList(q) = [page |-> R!Slice("memory", found, q.sort, q.offset, q.limit),
                         total |-> R!Cardinality(found)]
  BY DEF R!MemoryList, found
<1>5. ASSUME R!CollatesAsBytes(q) PROVE R!PostgresList(q) = R!MemoryList(q)
  BY <1>2, <1>3, <1>4, <1>5 DEF R!PostgresList
<1>6. R!SurrealList(q) = R!MemoryList(q)
  BY <1>2, <1>3, <1>4 DEF R!SurrealList
<1>7. ASSUME q.offset = 0 \/ q.limit # None PROVE R!SqliteList(q) = R!MemoryList(q)
  <2>1. ~ (q.offset > 0 /\ q.limit = None)
    BY <1>7
  <2>. QED
    BY <1>2, <1>3, <1>4, <2>1 DEF R!SqliteList
<1>8. ASSUME q.offset = 0 PROVE R!FirestoreList(q).page = R!MemoryList(q).page
  <2>1. {k \in found : q.sort = None \/ R!Has(k, q.sort.field)} = found
    BY <1>1 DEF R!OrderFits
  <2>2. R!FirestoreList(q).page = R!Slice("firestore", found, q.sort, 0, q.limit)
    BY <1>2, <2>1 DEF R!FirestoreList
  <2>. QED
    BY <1>3, <1>4, <1>8, <2>2
<1>. QED
  BY <1>5, <1>6, <1>7, <1>8

LEMMA AllAgree == ASSUME R!DriversAssumption, R!TypeOK PROVE R!DriversAgree
<1>1. ASSUME NEW q \in R!Queries, R!KindsFit(q)
      PROVE  /\ \A driver \in {"sqlite", "postgres", "surreal", "firestore"} :
                  R!Found(driver, q) = R!Found("memory", q)
             /\ R!OrderFits(q) =>
                  /\ R!CollatesAsBytes(q) => R!PostgresList(q) = R!MemoryList(q)
                  /\ R!SurrealList(q) = R!MemoryList(q)
                  /\ q.offset = 0 \/ q.limit # None => R!SqliteList(q) = R!MemoryList(q)
                  /\ q.offset = 0 => R!FirestoreList(q).page = R!MemoryList(q).page
  BY <1>1, FoundAgree, ListsAgree
<1>. QED
  BY <1>1 DEF R!DriversAgree

LEMMA DriversTypeCorrect == Spec => [](part = "drivers" => R!TypeOK)
<1> DEFINE Runs == part = "drivers" => R!TypeOK
<1>1. Init => Runs
  <2>1. Init /\ part = "drivers" => R!Init
    BY Zenon DEF Init
  <2>. QED
    BY <2>1 DEF R!Init, R!TypeOK
<1>2. Runs /\ [Next]_allVars => Runs'
  <2>1. [Next]_allVars => part' = part
    BY PartSteps
  <2>. QED
    BY <2>1, DriversSteps, DriversTyped, ServicesAssumption DEF ServicesAssumption
<1>. QED
  BY <1>1, <1>2, PTL DEF Spec

\* Whatever was written before and however the keys, fields, values and their orders
\* are chosen, all five drivers find the same records on a query of equalities of the
\* right kind, and cut the same pages of a sort by distinct texts, Postgres where its
\* collation orders them as their bytes do (List of relationdbdao).
THEOREM DriversExchangeable == Spec => []DriversAgree
<1>1. (part = "drivers" => R!TypeOK) => DriversAgree
  BY AllAgree, ServicesAssumption DEF ServicesAssumption, DriversAgree
<1>. QED
  BY <1>1, DriversTypeCorrect, PTL

-----------------------------------------------------------------------------
(* Types *)

SchemasLoad == [pc : {"idle", "run", "ok", "failed"}, todo : SUBSET SchemasNames,
                processed : SUBSET SchemasNames]

SchemasDrawn == [keys : SUBSET SchemasKeys, ids : SUBSET SchemasIds, ops : Int, faults : Int]

\* What a load of an entity has still to look at are names; what was drawn are
\* keys and ids.
SchemasRecords == schemasLoad \in SchemasLoad /\ schemasDrawn \in SchemasDrawn

LEMMA LoadKeeps ==
    ASSUME S!SchemasAssumption, SchemasIInv, schemasLoad \in SchemasLoad,
           [S!Next]_(S!vars)
    PROVE  schemasLoad' \in SchemasLoad
<1>1. S!NoLoad \in SchemasLoad
  BY DEF S!NoLoad, SchemasLoad
<1>2. ASSUME NEW n \in SchemasNames, S!LoadStart(n) PROVE schemasLoad' \in SchemasLoad
  BY <1>2 DEF S!LoadStart, SchemasLoad
<1>3. ASSUME S!LoadEntity PROVE schemasLoad' \in SchemasLoad
  <2> DEFINE s(n) == S!Schema(schemasRows, n)
             done(n) == schemasLoad.processed \cup {n}
             refs(n) == IF s(n) = None THEN {} ELSE SchemasRefs[s(n).def]
             todo(n) == S!Unprocessed((schemasLoad.todo \ {n}) \cup refs(n), done(n))
  <2>1. PICK n \in schemasLoad.todo :
           \/ schemasLoad' \in {[S!NoLoad EXCEPT !.pc = "failed"], [S!NoLoad EXCEPT !.pc = "ok"]}
           \/ schemasLoad' = [schemasLoad EXCEPT !.todo = todo(n), !.processed = done(n)]
    BY <1>3 DEF S!LoadEntity
  <2>2. n \in SchemasNames /\ done(n) \subseteq SchemasNames
    BY <2>1 DEF SchemasLoad
  <2>3. schemasRows \in SchemasTables
    BY DEF SchemasIInv, SchemasTypes
  <2>4. refs(n) \subseteq SchemasNames
    <3>1. CASE s(n) = None
      BY <3>1
    <3>2. CASE s(n) # None
      <4>1. s(n) \in SchemasToSave
        BY <2>3, <3>2, SchemaGood
      <4>2. s(n).def \in SchemasDefs
        BY <4>1 DEF SchemasToSave
      <4>3. SchemasRefs[s(n).def] \subseteq SchemasNames
        BY <4>2 DEF S!SchemasAssumption
      <4>. QED
        BY <3>2, <4>3
    <3>. QED
      BY <3>1, <3>2
  <2>5. todo(n) \subseteq SchemasNames
    BY <2>4 DEF S!Unprocessed, SchemasLoad
  <2>. HIDE DEF todo, done
  <2>6. [schemasLoad EXCEPT !.todo = todo(n), !.processed = done(n)] \in SchemasLoad
    BY <2>2, <2>5 DEF SchemasLoad
  <2>7. {[S!NoLoad EXCEPT !.pc = "failed"], [S!NoLoad EXCEPT !.pc = "ok"]} \subseteq SchemasLoad
    BY <1>1 DEF SchemasLoad
  <2>. QED
    BY <2>1, <2>6, <2>7
<1>4. CASE S!Crash
  BY <1>1, <1>4 DEF S!Crash
<1>5. CASE UNCHANGED schemasLoad
  BY <1>5
<1>6. (\E p \in S!Procs : S!SaveStep(p)) \/ S!NewApp \/ S!BootstrapDefaultHomePage =>
          UNCHANGED schemasLoad
  BY DEF S!SaveStep, S!ListLatest, S!WriteBackLatest, S!ListPublished, S!WriteBackPublished,
     S!Put, S!Fail, S!SetupLookup, S!NewApp, S!BootstrapDefaultHomePage
<1>7. ASSUME NEW p \in SchemasSavers, NEW k \in SchemasKeys,
             \/ \E pub \in BOOLEAN : S!ApiSave(p, k, pub)
             \/ S!Publish(p, k) \/ S!Unpublish(p, k) \/ S!DeleteSchema(k) \/ S!MountExtension(p)
      PROVE  UNCHANGED schemasLoad
  BY <1>7 DEF S!ApiSave, S!Publish, S!Unpublish, S!DeleteSchema, S!MountExtension
<1>8. ASSUME NEW k \in SchemasKeys, S!DeleteSchema(k) PROVE UNCHANGED schemasLoad
  BY <1>8 DEF S!DeleteSchema
<1>9. ASSUME NEW p \in SchemasSavers, S!MountExtension(p) PROVE UNCHANGED schemasLoad
  BY <1>9 DEF S!MountExtension
<1>10. CASE UNCHANGED S!vars
  BY <1>10 DEF S!vars
<1>. QED
  BY <1>2, <1>3, <1>4, <1>5, <1>6, <1>7, <1>8, <1>9, <1>10 DEF S!Next

LEMMA DrawnMore ==
    ASSUME schemasDrawn \in SchemasDrawn, NEW ks \in SUBSET SchemasKeys,
           NEW ids \in SUBSET SchemasIds
    PROVE  /\ [schemasDrawn EXCEPT !.keys = @ \cup ks] \in SchemasDrawn
           /\ [schemasDrawn EXCEPT !.ids = @ \cup ids] \in SchemasDrawn
           /\ [schemasDrawn EXCEPT !.faults = @ + 1] \in SchemasDrawn
           /\ [schemasDrawn EXCEPT !.keys = @ \cup ks, !.ids = @ \cup ids, !.ops = @ + 1]
                \in SchemasDrawn
<1>1. [schemasDrawn EXCEPT !.keys = @ \cup ks] \in SchemasDrawn /\
    [schemasDrawn EXCEPT !.ids = @ \cup ids] \in SchemasDrawn
  BY DEF SchemasDrawn
<1>2. [schemasDrawn EXCEPT !.faults = @ + 1] \in SchemasDrawn
  BY DEF SchemasDrawn
<1>3. schemasDrawn.keys \cup ks \in SUBSET SchemasKeys
  BY DEF SchemasDrawn
<1>4. schemasDrawn.ids \cup ids \in SUBSET SchemasIds
  BY DEF SchemasDrawn
<1>5. schemasDrawn.ops + 1 \in Int
  BY DEF SchemasDrawn
<1>6. ASSUME NEW a \in SUBSET SchemasKeys, NEW b \in SUBSET SchemasIds, NEW c \in Int
      PROVE  [schemasDrawn EXCEPT !.keys = a, !.ids = b, !.ops = c] \in SchemasDrawn
  BY DEF SchemasDrawn
<1>. QED
  BY <1>1, <1>2, <1>3, <1>4, <1>5, <1>6

LEMMA DrawnKeeps ==
    ASSUME S!SchemasAssumption, SchemasIInv, schemasDrawn \in SchemasDrawn,
           [S!Next]_(S!vars)
    PROVE  schemasDrawn' \in SchemasDrawn
<1>. DEFINE Typed == schemasDrawn' \in SchemasDrawn
<1>1. CASE S!Fault
  BY <1>1, DrawnMore DEF S!Fault
<1>2. ASSUME NEW ks \in SUBSET SchemasKeys, NEW ids \in SUBSET SchemasIds, S!Accepted(ks, ids)
      PROVE  Typed
  BY <1>2, DrawnMore DEF S!Accepted
<1>3. ASSUME NEW p \in S!Procs, S!Put(p) PROVE Typed
  <2>1. schemasOp[p] \in SchemasOps /\ schemasOp[p].row # None
    BY <1>3, SchemasNow DEF S!Put, SchemasOpGood, SchemasSaving
  <2>2. schemasOp[p].row \in SchemasToSave
    BY <2>1 DEF SchemasOps
  <2>3. schemasOp[p].row.id \in SchemasIds \cup {0}
    BY <2>2 DEF SchemasToSave
  <2>4. PICK id \in IF schemasOp[p].row.id # 0 THEN {schemasOp[p].row.id}
                    ELSE SchemasIds \ schemasDrawn.ids :
            schemasDrawn' = [schemasDrawn EXCEPT !.ids = @ \cup {id}]
    BY <1>3 DEF S!Put
  <2>5. {id} \in SUBSET SchemasIds
    BY <2>3, <2>4
  <2>. QED
    BY <2>4, <2>5, DrawnMore
<1>4. ASSUME NEW p \in S!Procs, S!SetupLookup(p) PROVE Typed
  <2>1. ASSUME NEW o, NEW row, S!NewSchema(p, o, row) PROVE Typed
    <3> DEFINE k == S!SomeKey(S!FreshKeys)
    <3>1. k \in SchemasKeys
      BY <2>1 DEF S!NewSchema, S!SomeKey, S!FreshKeys
    <3>2. schemasDrawn' = [schemasDrawn EXCEPT !.keys = @ \cup {k}]
      BY <2>1 DEF S!NewSchema
    <3>3. {k} \in SUBSET SchemasKeys
      BY <3>1
    <3>. HIDE DEF k
    <3>. QED
      BY <3>2, <3>3, DrawnMore
  <2>. QED
    BY <1>4, <2>1 DEF S!SetupLookup
<1>5. ASSUME NEW p \in S!Procs, S!SaveStep(p) PROVE Typed
  <2>1. CASE S!Fail(p)
    BY <1>1, <2>1 DEF S!Fail
  <2>2. CASE \/ S!ListLatest(p) \/ S!WriteBackLatest(p) \/ S!ListPublished(p)
             \/ S!WriteBackPublished(p)
    BY <2>2 DEF S!ListLatest, S!WriteBackLatest, S!ListPublished, S!WriteBackPublished
  <2>. QED
    BY <1>3, <1>4, <1>5, <2>1, <2>2 DEF S!SaveStep
<1>6. ASSUME NEW p \in SchemasSavers, NEW k \in SchemasKeys,
             (\E pub \in BOOLEAN : S!ApiSave(p, k, pub)) \/ S!Publish(p, k)
      PROVE  Typed
  BY <1>2, <1>6 DEF S!ApiSave, S!Publish
<1>7. ASSUME NEW p \in SchemasSavers, NEW k \in SchemasKeys, S!Unpublish(p, k) PROVE Typed
  <2> DEFINE r == S!BySchemaId(schemasRows, k)
  <2>1. schemasRows \in SchemasTables
    BY DEF SchemasIInv, SchemasTypes
  <2>2. r \in SchemasToSave
    BY <1>7, <2>1, StoredOrBuiltin DEF S!Unpublish
  <2>3. PICK id \in IF r.id = 0 THEN SchemasIds \ schemasDrawn.ids ELSE {r.id} :
            S!Accepted({}, {id})
    BY <1>7 DEF S!Unpublish
  <2>4. {id} \in SUBSET SchemasIds
    BY <2>2, <2>3 DEF SchemasToSave
  <2>. QED
    BY <1>2, <2>3, <2>4
<1>8. ASSUME NEW k \in SchemasKeys, S!DeleteSchema(k) PROVE Typed
  BY <1>2, <1>8 DEF S!DeleteSchema
<1>9. ASSUME NEW p \in SchemasSavers, S!MountExtension(p) PROVE Typed
  BY <1>2, <1>9 DEF S!MountExtension
<1>10. ASSUME NEW n \in SchemasNames, S!LoadStart(n) PROVE Typed
  BY <1>2, <1>10 DEF S!LoadStart
<1>11. CASE S!NewApp \/ S!BootstrapDefaultHomePage \/ S!LoadEntity \/ UNCHANGED S!vars
  BY <1>11 DEF S!NewApp, S!BootstrapDefaultHomePage, S!LoadEntity, S!vars
<1>12. CASE S!Crash
  BY <1>1, <1>12 DEF S!Crash
<1>. QED
  BY <1>5, <1>6, <1>7, <1>8, <1>9, <1>10, <1>11, <1>12 DEF S!Next

LEMMA SchemasTypeCorrect == Spec => [](part = "schemas" => S!TypeOK)
<1>. S!SchemasAssumption
  BY ServicesAssumption DEF ServicesAssumption
<1> DEFINE Runs == part = "schemas" => SchemasRecords
<1>1. Init => Runs
  <2>1. S!Init => SchemasRecords
    BY DEF S!Init, S!NoLoad, SchemasRecords, SchemasLoad, SchemasDrawn
  <2>. QED
    BY <2>1, PartStarts
<1>2. Runs /\ (part = "schemas" => SchemasIInv) /\ [Next]_allVars => Runs'
  BY PartSteps, LoadKeeps, DrawnKeeps DEF SchemasRecords
<1>3. SchemasRecords /\ SchemasIInv => S!TypeOK
  <2> SUFFICES ASSUME SchemasRecords, SchemasIInv PROVE S!TypeOK
    OBVIOUS
  <2>1. schemasRows \in [SchemasKeys -> S!Row \cup {None}]
    BY DEF SchemasIInv, SchemasTypes, SchemasTables, SchemasStored, S!Row
  <2>2. ASSUME NEW p \in S!Procs
        PROVE  /\ schemasOp[p].pc \in {"idle", "lookup", "latest", "back", "published", "back2",
                                       "put", "ended"}
               /\ schemasOp[p].key \in SchemasKeys \cup {None}
               /\ {schemasOp[p].row, schemasOp[p].copy} \subseteq S!Row \cup {None}
               /\ schemasOp[p].todo \subseteq SchemasNames
    <3>1. schemasOp[p] \in SchemasOps
      BY SchemasNow
    <3>2. SchemasStored \subseteq S!Row /\ SchemasToSave \subseteq S!Row
      BY DEF SchemasStored, SchemasToSave, S!Row
    <3>. QED
      BY <3>1, <3>2 DEF SchemasOps, SchemasSaving
  <2>3. /\ schemasLoad.todo \cup schemasLoad.processed \subseteq SchemasNames
        /\ schemasDrawn.ids \subseteq SchemasIds /\ schemasDrawn.keys \subseteq SchemasKeys
    BY DEF SchemasRecords, SchemasLoad, SchemasDrawn
  <2>. QED
    BY <2>1, <2>2, <2>3 DEF SchemasIInv, SchemasTypes, S!TypeOK
<1>4. Runs /\ (part = "schemas" => SchemasIInv) => (part = "schemas" => S!TypeOK)
  BY <1>3
<1>. QED
  BY <1>1, <1>2, <1>4, SchemasInvariant, PTL DEF Spec

\* What is beside the table of extensions: tools, grants and secrets, and the
\* files that were written while nothing watched.
ExtensionsBeside ==
    /\ extensionsTools \in [E!ExtIds -> ExtensionsAdmins \cup {ExtensionsClosed, None}]
    /\ extensionsGrants \subseteq E!ExtIds /\ extensionsVault \subseteq E!ExtIds
    /\ extensionsUnseen \subseteq ExtensionsFiles

LEMMA BesideKeeps ==
    ASSUME ExtensionsBeside, [E!Next]_(E!vars) PROVE ExtensionsBeside'
<1>1. ASSUME NEW f \in ExtensionsFiles,
             E!WriteBegin(f) \/ E!WriteEnd(f) \/ E!Remove(f) \/ E!LoadExtension(f)
      PROVE  ExtensionsBeside'
  <2>1. extensionsUnseen' \in {extensionsUnseen, extensionsUnseen \ {f}, extensionsUnseen \cup {f}}
    BY <1>1 DEF E!WriteBegin, E!WriteEnd, E!Remove, E!LoadExtension
  <2>2. UNCHANGED <<extensionsTools, extensionsGrants, extensionsVault>>
    BY <1>1 DEF E!WriteBegin, E!WriteEnd, E!Remove, E!LoadExtension, E!admin
  <2>. QED
    BY <2>1, <2>2 DEF ExtensionsBeside
<1>2. CASE E!Start \/ E!TakeEvent \/ E!Scan \/ E!ScanEnds \/ UNCHANGED E!vars
  <2>1. UNCHANGED <<extensionsTools, extensionsGrants, extensionsVault, extensionsUnseen>>
    BY <1>2 DEF E!Start, E!TakeEvent, E!Scan, E!ScanEnds, E!admin, E!vars
  <2>. QED
    BY <2>1 DEF ExtensionsBeside
<1>3. ASSUME NEW a \in ExtensionsAdmins,
             (\E id \in E!ExtIds : E!MountOpen(a, id)) \/ E!MountTools(a) \/ E!MountReturns(a)
      PROVE  ExtensionsBeside'
  <2>1. extensionsTools' \in [E!ExtIds -> ExtensionsAdmins \cup {ExtensionsClosed, None}]
    BY <1>3 DEF E!MountOpen, E!MountTools, E!MountReturns, ExtensionsBeside
  <2>2. UNCHANGED <<extensionsGrants, extensionsVault, extensionsUnseen>>
    BY <1>3 DEF E!MountOpen, E!MountTools, E!MountReturns
  <2>. QED
    BY <2>1, <2>2 DEF ExtensionsBeside
<1>4. ASSUME NEW id \in E!ExtIds, E!AuthorizePermission(id) \/ E!SetSecret(id)
      PROVE  ExtensionsBeside'
  BY <1>4 DEF E!AuthorizePermission, E!SetSecret, ExtensionsBeside
<1>5. CASE E!Crash
  BY <1>5 DEF E!Crash, E!Boot, ExtensionsBeside
<1>. QED
  BY <1>1, <1>2, <1>3, <1>4, <1>5 DEF E!Next

LEMMA ExtensionsTypeCorrect == Spec => [](part = "extensions" => E!TypeOK)
<1> DEFINE Runs == part = "extensions" => ExtensionsBeside
<1>1. Init => Runs
  <2>1. E!Init => ExtensionsBeside
    BY DEF E!Init, ExtensionsBeside
  <2>. QED
    BY <2>1, PartStarts
<1>2. Runs /\ [Next]_allVars => Runs'
  BY PartSteps, BesideKeeps
<1>3. ExtensionsBeside /\ ExtensionsIInv => E!TypeOK
  BY DEF ExtensionsBeside, ExtensionsIInv, ExtensionsTypes, E!TypeOK
<1>4. Runs /\ (part = "extensions" => ExtensionsIInv) => (part = "extensions" => E!TypeOK)
  BY <1>3
<1>. QED
  BY <1>1, <1>2, <1>4, ExtensionsInvariant, PTL DEF Spec

LEMMA MessagesTypeCorrect == ASSUME MessagesIInv PROVE M!TypeOK
<1>1. \A s \in MessagesSenders : messagesSend[s] \in SendState
  BY DEF MessagesIInv, MessagesTypes
<1>. QED
  BY <1>1 DEF MessagesIInv, MessagesTypes, SendState, M!TypeOK

LEMMA AccountsTypeCorrect == ASSUME AccountsIInv PROVE A!TypeOK
<1>1. \A p \in AccountsProcs : accountsReq[p] \in AccountsReq
  BY DEF AccountsIInv, AccountsTypesOK
<1>. QED
  BY <1>1 DEF AccountsIInv, AccountsTypesOK, AccountsRest, AccountsReq, A!TypeOK

LEMMA RouterTypeCorrect == ASSUME RouterIInv PROVE T!TypeOK
<1>1. \A p \in RouterProcs : routerReq[p] \in RouterReq
  BY DEF RouterIInv, RouterTypes
<1>. QED
  BY <1>1 DEF RouterIInv, RouterTypes, RouterReq, T!TypeOK

LEMMA TempTypeCorrect == ASSUME F!TempAccessAssumption, TempIInv PROVE F!TypeOK
<1>1. \A p \in TempProcs : tempReq[p] \in TempReq /\ tempReq[p].now <= tempClock
  BY DEF TempIInv, TempTypes, TempGood
<1>2. \A p \in TempProcs : tempReq[p].now \in 0 .. TempMaxClock
  BY <1>1 DEF TempReq
<1>3. tempClock \in 0 .. TempMaxClock
  BY DEF TempIInv, TempTypes
<1>4. \A p \in TempProcs : tempReq[p].now \in 0 .. tempClock
  BY <1>1, <1>2, <1>3
<1>. QED
  BY <1>1, <1>4 DEF TempIInv, TempTypes, TempTimes, TempReq, F!TypeOK

=============================================================================
