----------------------- MODULE SensorPublisherProofs -----------------------
(***************************************************************************)
(* Proofs that the invariants of SensorPublisher hold for every value of   *)
(* the retry parameters, thresholds, weather and variation.                *)
(***************************************************************************)
EXTENDS SensorPublisher, SequenceTheorems, TLAPS

\* connect_with_retry is in progress exactly while run_forever is suspended
\* on it, and sleeps only when an attempt is left, which bounds attempt.
Retrying ==
    /\ attempt >= 1
    /\ phase = "sleeping" => attempt < MaxAttempts
    /\ pc = "connect" => phase \in {"connecting", "sleeping"}
    /\ phase \in {"connecting", "sleeping"} => pc = "connect"

\* Before the first session there is nothing; afterwards the exit stack holds
\* the one session there ever is, and the handle is that session or unset.
Holding ==
    /\ pc = "connect" =>
        /\ client = None /\ stack = None /\ live = {} /\ created = 0
        /\ accepted = <<>> /\ retained = "nothing"
    /\ pc \notin {"connect", "done"} =>
        /\ created = 1 /\ stack = 1
        /\ live \subseteq {1}
        /\ client \in {None, 1}

\* ending tells by which exit run_forever was left.
Leaving ==
    /\ pc \notin {"finally", "done"} => ending = "running"
    /\ pc = "finally" => ending \in {"returned", "cancelled"}
    /\ pc = "done" => ending # "running"
    /\ pc = "done" /\ ending = "returned" => client = None

\* The broker has accepted the first n messages of the script.
Sent(n) == accepted = SubSeq(Script(reading), 1, n)

\* While a message is being published, it is the one the script has next.
Progressing ==
    /\ pc \in {"fetch", "temperature"} => accepted = <<>>
    /\ pc \in Channels =>
        \E n \in 0 .. Len(Script(reading)) - 1 :
            Sent(n) /\ pc = Script(reading)[n + 1]
    /\ CycleFollowsScript

\* The inductive invariant.
IInv ==
    /\ TypeOK
    /\ Retrying
    /\ Holding
    /\ Leaving
    /\ Progressing
    /\ ClosedWhenDone
    /\ EndingIsJustified

-----------------------------------------------------------------------------

\* The initial state of run_forever satisfies the inductive invariant.
LEMMA InitIInv == Init => IInv
<1> SUFFICES ASSUME Init PROVE IInv
  OBVIOUS
<1> USE ClientAssumption DEF Init, None
<1>1. TypeOK
  <2>1. Mqtt!TypeOK
    BY DEF Mqtt!TypeOK, Mqtt!Sessions, Mqtt!None, Mqtt!Phases
  <2>2. accepted \in Seq(Channels)
    OBVIOUS
  <2>3. QED
    BY <2>1, <2>2 DEF TypeOK, Awaits, Endings
<1>2. Retrying /\ Holding /\ Leaving
  BY DEF Retrying, Holding, Leaving
<1>3. Progressing
  <2>1. SubSeq(Script(reading), 1, 0) = <<>> /\ Len(Script(reading)) \in Nat
    BY SubSeqEmpty DEF Script
  <2>2. QED
    BY <2>1 DEF Progressing, CycleFollowsScript, Channels
<1>4. ClosedWhenDone /\ EndingIsJustified
  BY DEF ClosedWhenDone, EndingIsJustified
<1>5. QED
  BY <1>1, <1>2, <1>3, <1>4 DEF IInv

\* The test of the loop moves to an await and begins an empty cycle.
LEMMA LoopTestTypes ==
    ASSUME TypeOK, LoopTest
    PROVE  pc' \in Awaits /\ accepted' \in Seq(Channels) /\ ending' \in Endings
<1>1. <<>> \in Seq(Channels)
  OBVIOUS
<1>2. CASE stop
  BY <1>2 DEF LoopTest, TypeOK, Awaits, Endings
<1>3. CASE ~stop
  BY <1>1, <1>3 DEF LoopTest, TypeOK, Awaits
<1>4. QED
  BY <1>2, <1>3

\* Opening a session keeps the set of sessions and the counter in range.
LEMMA OpenedTypes ==
    ASSUME Mqtt!TypeOK, created < MaxSessions, created' = created + 1,
           live' = live \cup {created'}
    PROVE  created' \in 0 .. MaxSessions /\ created' \in Mqtt!Sessions
           /\ live' \subseteq Mqtt!Sessions
BY ClientAssumption DEF Mqtt!TypeOK, Mqtt!Sessions

\* Every action of run_forever leaves the variables in their types.
LEMMA TypeStep == IInv /\ [Next]_vars => TypeOK'
<1> SUFFICES ASSUME IInv, [Next]_vars PROVE TypeOK'
  OBVIOUS
<1> USE ClientAssumption DEF None, Mqtt!None, Mqtt!Sessions, Mqtt!Phases
<1>1. TypeOK /\ Mqtt!TypeOK /\ Retrying /\ Holding
  BY DEF IInv, TypeOK
<1>2. CASE Connected
  <2>1. Mqtt!TypeOK'
    <3>1. CASE Mqtt!OpenSession
      BY <1>1, <1>2, <3>1, OpenedTypes DEF Connected, Mqtt!RetryConnects,
          Mqtt!OpenSession, Mqtt!TypeOK
    <3>2. CASE UNCHANGED Mqtt!connection
      BY <1>1, <1>2, <3>2 DEF Connected, Mqtt!RetryConnects, Mqtt!connection, Mqtt!TypeOK
    <3>3. QED
      BY <1>2, <3>1, <3>2 DEF Connected, Mqtt!RetryConnects, Mqtt!ConnectReturns
  <2>2. QED
    BY <1>1, <1>2, <2>1, LoopTestTypes DEF Connected, TypeOK
<1>3. CASE ConnectAttemptFails
  <2>1. Mqtt!TypeOK'
    BY <1>1, <1>3 DEF ConnectAttemptFails, Mqtt!RetryFails, Mqtt!ConnectRaises,
        Mqtt!connection, Mqtt!TypeOK
  <2>2. QED
    BY <1>1, <1>3, <2>1 DEF ConnectAttemptFails, TypeOK, Awaits, Endings
<1>4. CASE ConnectSleepOver
  <2>1. Mqtt!TypeOK'
    BY <1>1, <1>4 DEF ConnectSleepOver, Mqtt!RetrySleepOver, Mqtt!Doubled,
        Mqtt!connection, Mqtt!TypeOK, Retrying
  <2>2. QED
    BY <1>1, <1>4, <2>1 DEF ConnectSleepOver, TypeOK
<1>5. CASE CancelConnecting
  <2>1. Mqtt!TypeOK'
    <3>1. live' \subseteq Mqtt!Sessions /\ created' \in 0 .. MaxSessions
      <4>1. CASE UNCHANGED <<live, created>>
        BY <1>1, <4>1 DEF Mqtt!TypeOK
      <4>2. CASE created < MaxSessions /\ created' = created + 1 /\ live' = live \cup {created'}
        BY <1>1, <4>2, OpenedTypes
      <4>3. QED
        BY <1>5, <4>1, <4>2 DEF CancelConnecting, Mqtt!RetryCancelled
    <3>2. QED
      BY <1>1, <1>5, <3>1 DEF CancelConnecting, Mqtt!RetryCancelled, Mqtt!TypeOK
  <2>2. QED
    BY <1>1, <1>5, <2>1 DEF CancelConnecting, TypeOK, Awaits, Endings
<1>6. CASE Fetch \/ FetchFails
  <2>1. Mqtt!TypeOK'
    BY <1>1, <1>6 DEF Fetch, FetchFails, mqtt, Mqtt!TypeOK
  <2>2. reading' \in Int
    BY <1>1, <1>6, ReadingAssumption DEF Fetch, FetchFails, TypeOK
  <2>3. QED
    BY <1>1, <1>6, <2>1, <2>2 DEF Fetch, FetchFails, TypeOK, Awaits, Channels
<1>7. ASSUME NEW channel \in Channels, PublishReturns(channel) \/ PublishRaises(channel)
      PROVE  TypeOK'
  <2>1. Mqtt!TypeOK'
    BY <1>1, <1>7 DEF PublishReturns, PublishRaises, Mqtt!PublishSucceeds,
        Mqtt!OperationSucceeds, Mqtt!PublishFails, Mqtt!PublishRefused, Mqtt!vars,
        Mqtt!retry, Mqtt!TypeOK
  <2>2. accepted' \in Seq(Channels) /\ retained' \in {"nothing", "active"}
    BY <1>1, <1>7 DEF PublishReturns, PublishRaises, Accept, Drop, TypeOK
  <2>3. pc' \in Awaits
    BY <1>7 DEF PublishReturns, PublishRaises, NextStep, AfterFailure, Awaits, Channels
  <2>4. QED
    BY <1>1, <1>7, <2>1, <2>2, <2>3 DEF PublishReturns, PublishRaises, TypeOK
<1>8. CASE Wake
  <2>1. Mqtt!TypeOK'
    BY <1>1, <1>8 DEF Wake, mqtt, Mqtt!TypeOK
  <2>2. QED
    BY <1>1, <1>8, <2>1, LoopTestTypes DEF Wake, TypeOK
<1>9. CASE Disconnect \/ CancelDisconnecting
  <2>1. Mqtt!TypeOK'
    BY <1>1, <1>9 DEF Disconnect, CancelDisconnecting, Mqtt!DisconnectReturns,
        Mqtt!DisconnectRaises, Mqtt!CloseSession, Mqtt!retry, Mqtt!TypeOK
  <2>2. QED
    BY <1>1, <1>9, <2>1 DEF Disconnect, CancelDisconnecting, TypeOK, Awaits, Endings
<1>10. CASE Stop \/ LinkLost
  <2>1. Mqtt!TypeOK'
    BY <1>1, <1>10 DEF Stop, LinkLost, Mqtt!LinkLost, mqtt, Mqtt!retry, Mqtt!TypeOK
  <2>2. QED
    BY <1>1, <1>10, <2>1 DEF Stop, LinkLost, TypeOK
<1>11. CASE Cancel
  <2>1. Mqtt!TypeOK'
    BY <1>1, <1>11 DEF Cancel, mqtt, Mqtt!TypeOK
  <2>2. accepted' \in Seq(Channels) /\ retained' \in {"nothing", "active"}
    BY <1>1, <1>11 DEF Cancel, Accept, Drop, TypeOK
  <2>3. QED
    BY <1>1, <1>11, <2>1, <2>2 DEF Cancel, TypeOK, Awaits, Endings
<1>12. CASE UNCHANGED vars
  BY <1>1, <1>12 DEF vars, TypeOK, Mqtt!TypeOK
<1>13. QED
  BY <1>2, <1>3, <1>4, <1>5, <1>6, <1>7, <1>8, <1>9, <1>10, <1>11, <1>12
     DEF Next, Step, Terminated

\* The handle, the stack and the open session stay in step, from the first
\* attempt to connect to the exit of run_forever.
LEMMA ConnectionStep == IInv /\ [Next]_vars => Retrying' /\ Holding' /\ ClosedWhenDone'
<1> SUFFICES ASSUME IInv, [Next]_vars PROVE Retrying' /\ Holding' /\ ClosedWhenDone'
  OBVIOUS
<1> USE DEF None, Mqtt!None, Retrying, Holding, ClosedWhenDone
<1>1. Retrying /\ Holding /\ ClosedWhenDone
  BY DEF IInv
<1>2. /\ attempt \in Nat /\ MaxAttempts \in Nat
      /\ live \subseteq Mqtt!Sessions /\ pc \in Awaits
  BY ClientAssumption DEF IInv, TypeOK, Mqtt!TypeOK
<1>3. CASE Connected
  <2>1. /\ created' = 1 /\ client' = 1 /\ stack' = 1 /\ live' = {1}
        /\ phase' = "idle" /\ attempt' = attempt
    BY <1>1, <1>3 DEF Connected, Mqtt!RetryConnects, Mqtt!ConnectReturns,
        Mqtt!AlreadyConnected, Mqtt!OpenSession
  <2>2. pc' \in {"finally", "fetch"}
    BY <1>3 DEF Connected, LoopTest
  <2>3. QED
    BY <1>1, <2>1, <2>2
<1>4. CASE ConnectAttemptFails
  BY <1>1, <1>2, <1>4 DEF ConnectAttemptFails, Mqtt!RetryFails, Mqtt!ConnectRaises,
      Mqtt!LastAttempt, Mqtt!connection, TypeOK, Mqtt!TypeOK, IInv
<1>5. CASE ConnectSleepOver
  BY <1>1, <1>2, <1>5 DEF ConnectSleepOver, Mqtt!RetrySleepOver, Mqtt!connection
<1>6. CASE CancelConnecting
  BY <1>1, <1>6 DEF CancelConnecting, Mqtt!RetryCancelled
<1>7. CASE Fetch \/ FetchFails
  BY <1>1, <1>7 DEF Fetch, FetchFails, mqtt
<1>8. ASSUME NEW channel \in Channels, PublishReturns(channel) \/ PublishRaises(channel)
      PROVE  Retrying' /\ Holding' /\ ClosedWhenDone'
  <2>1. /\ client' \in {client, None}
        /\ UNCHANGED <<stack, live, created, phase, attempt>>
    BY <1>8 DEF PublishReturns, PublishRaises, Mqtt!PublishSucceeds,
        Mqtt!OperationSucceeds, Mqtt!PublishFails, Mqtt!PublishRefused, Mqtt!vars,
        Mqtt!retry
  <2>2. pc \notin {"connect", "done"} /\ pc' \in {"alert", "status", "sleep"}
    BY <1>8 DEF PublishReturns, PublishRaises, NextStep, AfterFailure, Channels
  <2>3. QED
    BY <1>1, <2>1, <2>2
<1>9. CASE Wake
  BY <1>1, <1>9 DEF Wake, LoopTest, mqtt
<1>10. CASE Disconnect \/ CancelDisconnecting
  BY <1>1, <1>10 DEF Disconnect, CancelDisconnecting, Mqtt!DisconnectReturns,
      Mqtt!DisconnectRaises, Mqtt!CloseSession, Mqtt!HasSessionToClose, Mqtt!retry
<1>11. CASE LinkLost
  BY <1>1, <1>11 DEF LinkLost, Mqtt!LinkLost, Mqtt!retry
<1>12. CASE Cancel
  BY <1>1, <1>12 DEF Cancel, mqtt, Channels
<1>13. CASE Stop \/ UNCHANGED vars
  BY <1>1, <1>13 DEF Stop, mqtt, vars
<1>14. QED
  BY <1>3, <1>4, <1>5, <1>6, <1>7, <1>8, <1>9, <1>10, <1>11, <1>12, <1>13
     DEF Next, Step, Terminated

\* Every way out of run_forever is recorded with the circumstances that
\* justify it.
LEMMA EndingStep == IInv /\ [Next]_vars => Leaving' /\ EndingIsJustified'
<1> SUFFICES ASSUME IInv, [Next]_vars PROVE Leaving' /\ EndingIsJustified'
  OBVIOUS
<1> USE DEF None, Mqtt!None, Leaving, EndingIsJustified
<1>1. Retrying /\ Holding /\ Leaving /\ EndingIsJustified /\ created \in Nat
  BY ClientAssumption DEF IInv, TypeOK, Mqtt!TypeOK
<1>2. CASE Connected \/ Wake
  BY <1>1, <1>2 DEF Connected, Wake, LoopTest
<1>3. CASE ConnectAttemptFails
  BY <1>1, <1>3 DEF ConnectAttemptFails, Mqtt!RetryFails, Mqtt!ConnectRaises,
      Mqtt!LastAttempt, Mqtt!connection, Holding
<1>4. CASE ConnectSleepOver
  BY <1>1, <1>4 DEF ConnectSleepOver
<1>5. CASE CancelConnecting
  BY <1>1, <1>5 DEF CancelConnecting, Mqtt!RetryCancelled, Holding
<1>6. CASE Fetch \/ FetchFails
  BY <1>1, <1>6 DEF Fetch, FetchFails
<1>7. ASSUME NEW channel \in Channels, PublishReturns(channel) \/ PublishRaises(channel)
      PROVE  Leaving' /\ EndingIsJustified'
  <2>1. ending' = ending /\ ending = "running"
    BY <1>1, <1>7 DEF PublishReturns, PublishRaises, Channels
  <2>2. pc' \in {"alert", "status", "sleep"}
    BY <1>7 DEF PublishReturns, PublishRaises, NextStep, AfterFailure, Channels
  <2>3. QED
    BY <2>1, <2>2
<1>8. CASE Disconnect \/ CancelDisconnecting
  BY <1>1, <1>8 DEF Disconnect, CancelDisconnecting, Mqtt!DisconnectReturns,
      Mqtt!DisconnectRaises, Holding
<1>9. CASE Cancel
  BY <1>1, <1>9 DEF Cancel
<1>10. CASE LinkLost \/ Stop
  BY <1>1, <1>10 DEF LinkLost, Mqtt!LinkLost, Mqtt!retry, Stop, mqtt
<1>11. CASE UNCHANGED vars
  BY <1>1, <1>11 DEF vars
<1>12. QED
  BY <1>2, <1>3, <1>4, <1>5, <1>6, <1>7, <1>8, <1>9, <1>10, <1>11
     DEF Next, Step, Terminated

\* The two scripts, message by message, and where each message leads.
LEMMA ScriptShape ==
    ASSUME reading \in Int
    PROVE  /\ Script(reading) \in Seq(Channels)
           /\ Len(Script(reading)) \in {2, 3}
           /\ Script(reading)[1] = "temperature"
           /\ \A i \in 1 .. Len(Script(reading)) - 1 :
                NextStep(Script(reading)[i]) = Script(reading)[i + 1]
           /\ NextStep(Script(reading)[Len(Script(reading))]) = "sleep"
<1>1. CASE IsOutOfRange(reading)
  <2>1. Script(reading) = <<"temperature", "alert", "status">>
    BY <1>1, ReadingAssumption DEF Script, IsOutOfRange
  <2>2. QED
    BY <1>1, <2>1 DEF NextStep, Channels
<1>2. CASE ~IsOutOfRange(reading)
  <2>1. Script(reading) = <<"temperature", "status">>
    BY <1>2, ReadingAssumption DEF Script, IsOutOfRange
  <2>2. QED
    BY <1>2, <2>1 DEF NextStep, Channels
<1>3. QED
  BY <1>1, <1>2

\* Appending its next message extends a prefix of a sequence by one.
LEMMA PrefixExtended ==
    ASSUME NEW s \in Seq(Channels), NEW n \in 0 .. Len(s) - 1
    PROVE  Append(SubSeq(s, 1, n), s[n + 1]) = SubSeq(s, 1, n + 1)
<1>1. 1 \in 1 .. Len(s) /\ n + 1 \in 1 .. Len(s) /\ s[n + 1] \in Channels
  OBVIOUS
<1>2. SubSeq(s, 1, n + 1) = SubSeq(s, 1, (n + 1) - 1) \o <<s[n + 1]>>
  BY <1>1, SubSeqRecursiveSecond
<1>3. SubSeq(s, 1, n) \in Seq(Channels)
  BY <1>1, SubSeqProperties
<1>4. Append(SubSeq(s, 1, n), s[n + 1]) = SubSeq(s, 1, n) \o <<s[n + 1]>>
  BY <1>1, <1>3, AppendIsConcat
<1>5. QED
  BY <1>2, <1>4

\* Nothing accepted is the empty prefix of any script.
LEMMA NothingSent ==
    ASSUME reading' \in Int, accepted' = <<>>
    PROVE  CycleFollowsScript' /\ Sent(0)'
<1>1. Len(Script(reading')) \in Nat
  BY DEF Script
<1>2. SubSeq(Script(reading'), 1, 0) = <<>>
  BY SubSeqEmpty
<1>3. QED
  BY <1>1, <1>2 DEF CycleFollowsScript, Sent

\* Every step keeps to the script of the cycle's reading.
LEMMA CycleStep == IInv /\ [Next]_vars => Progressing'
<1> SUFFICES ASSUME IInv, [Next]_vars PROVE Progressing'
  OBVIOUS
<1>1. Progressing /\ Holding /\ reading \in Int /\ accepted \in Seq(Channels)
  BY DEF IInv, TypeOK
<1>2. reading' \in Int
  BY TypeStep DEF TypeOK
<1> DEFINE s == Script(reading)
<1>3. /\ s \in Seq(Channels) /\ Len(s) \in {2, 3} /\ s[1] = "temperature"
      /\ \A i \in 1 .. Len(s) - 1 : NextStep(s[i]) = s[i + 1]
      /\ NextStep(s[Len(s)]) = "sleep"
  BY <1>1, ScriptShape
<1>4. ASSUME NEW n \in 0 .. Len(s), reading' = reading, accepted' = SubSeq(s, 1, n)
      PROVE  CycleFollowsScript'
  BY <1>4 DEF CycleFollowsScript
<1>5. ASSUME reading' = reading, accepted' = accepted
      PROVE  CycleFollowsScript'
  BY <1>1, <1>5 DEF Progressing, CycleFollowsScript
<1>6. CASE Connected \/ Wake
  <2>1. CASE stop
    BY <1>5, <1>6, <2>1 DEF Connected, Wake, LoopTest, Progressing, Channels
  <2>2. CASE ~stop
    BY <1>2, <1>6, <2>2, NothingSent DEF Connected, Wake, LoopTest, Progressing, Channels
  <2>3. QED
    BY <2>1, <2>2
<1>7. CASE ConnectAttemptFails \/ ConnectSleepOver \/ CancelConnecting
  <2>1. reading' = reading /\ accepted' = accepted /\ pc' \in {"connect", "done"}
    BY <1>7 DEF ConnectAttemptFails, ConnectSleepOver, CancelConnecting
  <2>2. QED
    BY <1>5, <2>1 DEF Progressing, Channels
<1>8. CASE Fetch \/ FetchFails
  <2>1. accepted' = <<>> /\ pc' \in {"temperature", "sleep"}
    BY <1>1, <1>8 DEF Fetch, FetchFails, Progressing
  <2>2. CycleFollowsScript' /\ Sent(0)'
    BY <1>2, <2>1, NothingSent
  <2>3. Script(reading')[1] = "temperature" /\ Len(Script(reading')) \in {2, 3}
    BY DEF Script
  <2>4. pc' \in Channels => \E n \in 0 .. Len(Script(reading')) - 1 :
                                Sent(n)' /\ pc' = Script(reading')[n + 1]
    BY <2>1, <2>2, <2>3 DEF Channels
  <2>5. QED
    BY <2>1, <2>2, <2>4 DEF Progressing
<1>9. ASSUME NEW channel \in Channels,
             PublishReturns(channel) \/ PublishRaises(channel) \/ (Cancel /\ pc = channel)
      PROVE  Progressing'
  <2>1. reading' = reading /\ pc = channel
    BY <1>9 DEF PublishReturns, PublishRaises, Cancel
  <2>2. PICK n \in 0 .. Len(s) - 1 : accepted = SubSeq(s, 1, n) /\ channel = s[n + 1]
    BY <1>1, <2>1 DEF Progressing, Sent
  <2>3. Append(accepted, channel) = SubSeq(s, 1, n + 1)
    BY <1>3, <2>2, PrefixExtended
  <2>4. CycleFollowsScript'
    <3>1. accepted' \in {accepted, Append(accepted, channel)}
      BY <1>9, <2>1 DEF PublishReturns, PublishRaises, Cancel, Accept, Drop
    <3>2. n \in 0 .. Len(s) /\ n + 1 \in 0 .. Len(s)
      BY <1>3
    <3> HIDE DEF s
    <3>3. QED
      BY <1>4, <2>1, <2>2, <2>3, <3>1, <3>2
  <2>5. CASE PublishReturns(channel)
    <3>1. accepted' = SubSeq(s, 1, n + 1) /\ pc' = NextStep(s[n + 1])
      BY <2>2, <2>3, <2>5 DEF PublishReturns, Accept
    <3>2. CASE n + 1 = Len(s)
      <4>1. pc' = "sleep"
        BY <1>3, <3>1, <3>2
      <4>2. QED
        BY <2>4, <4>1 DEF Progressing, Channels
    <3>3. CASE n + 1 < Len(s)
      <4>1. n + 1 \in 0 .. Len(s) - 1 /\ pc' = s[(n + 1) + 1]
        BY <1>3, <3>1, <3>3
      <4>2. Sent(n + 1)'
        BY <2>1, <3>1 DEF Sent
      <4>3. pc' \notin {"fetch", "temperature"}
        <5>1. channel \in Channels /\ pc' = NextStep(channel)
          BY <2>5 DEF PublishReturns
        <5>2. QED
          BY <5>1 DEF NextStep, Channels
      <4>4. QED
        BY <2>1, <2>4, <4>1, <4>2, <4>3 DEF Progressing
    <3>4. QED
      BY <1>3, <3>2, <3>3
  <2>6. CASE PublishRaises(channel) \/ Cancel
    <3>1. pc' \in {"sleep", "finally"}
      BY <2>6 DEF PublishRaises, AfterFailure, Cancel
    <3>2. QED
      BY <2>4, <3>1 DEF Progressing, Channels
  <2>7. QED
    BY <1>9, <2>5, <2>6
<1>10. CASE Cancel /\ pc \notin Channels
  <2>1. reading' = reading /\ accepted' = accepted /\ pc' = "finally"
    BY <1>10 DEF Cancel, Drop
  <2>2. QED
    BY <1>5, <2>1 DEF Progressing, Channels
<1>11. CASE Disconnect \/ CancelDisconnecting
  <2>1. reading' = reading /\ accepted' = accepted /\ pc' = "done"
    BY <1>11 DEF Disconnect, CancelDisconnecting
  <2>2. QED
    BY <1>5, <2>1 DEF Progressing, Channels
<1>12. CASE Stop \/ LinkLost \/ UNCHANGED vars
  BY <1>1, <1>12 DEF Stop, LinkLost, vars, Progressing, Sent, CycleFollowsScript
<1>13. QED
  BY <1>6, <1>7, <1>8, <1>9, <1>10, <1>11, <1>12 DEF Next, Step, Terminated

-----------------------------------------------------------------------------

\* Every step keeps the inductive invariant.
LEMMA StepIInv == IInv /\ [Next]_vars => IInv'
BY TypeStep, ConnectionStep, EndingStep, CycleStep DEF IInv

\* The inductive invariant holds in every state of every behaviour.
THEOREM Inductive == Spec => []IInv
<1>1. Init => IInv
  BY InitIInv
<1>2. IInv /\ [Next]_vars => IInv'
  BY StepIInv
<1>3. QED
  BY <1>1, <1>2, PTL DEF Spec

\* Type correctness: in particular the attempts stay within MaxAttempts and
\* the sessions within those that were opened.
THEOREM TypeCorrect == Spec => []TypeOK
<1>1. IInv => TypeOK
  BY DEF IInv
<1>2. QED
  BY <1>1, Inductive, PTL

\* run_forever never ends with a session open, save when it is cancelled
\* inside connect_with_retry.
THEOREM ClosesItsSession == Spec => []ClosedWhenDone
<1>1. IInv => ClosedWhenDone
  BY DEF IInv
<1>2. QED
  BY <1>1, Inductive, PTL

\* run_forever returns only after a stop, and raises a connection error only
\* after MaxAttempts attempts, without having published anything.
THEOREM EndsForAReason == Spec => []EndingIsJustified
<1>1. IInv => EndingIsJustified
  BY DEF IInv
<1>2. QED
  BY <1>1, Inductive, PTL

\* Whatever the weather, the thresholds and the failures, the broker accepts
\* only prefixes of the script of a cycle.
THEOREM KeepsToScript == Spec => []CycleFollowsScript
<1>1. IInv => CycleFollowsScript
  BY DEF IInv, Progressing
<1>2. QED
  BY <1>1, Inductive, PTL

\* The broker accepts messages only through the one session that run_forever
\* opened and will close.
THEOREM DeliversOnlyThroughItsSession == Spec => DeliversThroughHeldSession
<1> DEFINE A == accepted' # accepted /\ accepted' # <<>>
                => client # None /\ client = stack /\ pc \in Channels
<1>1. ASSUME IInv, [Next]_vars, accepted' # accepted, accepted' # <<>>
      PROVE  client # None /\ client = stack /\ pc \in Channels
  <2>1. Holding
    BY <1>1 DEF IInv
  <2>2. CASE \E channel \in Channels : PublishReturns(channel) \/ PublishRaises(channel)
    <3>1. PICK channel \in Channels : PublishReturns(channel) \/ PublishRaises(channel)
      BY <2>2
    <3>2. pc = channel /\ client # None
      BY <1>1, <3>1 DEF PublishReturns, PublishRaises, Drop, Mqtt!PublishSucceeds,
          Mqtt!OperationSucceeds, Mqtt!PublishFails, Mqtt!PublishRefused, None,
          Mqtt!None, IInv, TypeOK, Mqtt!TypeOK, Mqtt!Sessions
    <3>3. QED
      BY <2>1, <3>2 DEF Holding, Channels
  <2>3. CASE Cancel
    BY <1>1, <2>1, <2>3 DEF Cancel, Drop, Holding, Channels
  <2>4. CASE Connected \/ Wake
    BY <1>1, <2>4 DEF Connected, Wake, LoopTest
  <2>5. CASE \/ ConnectAttemptFails \/ ConnectSleepOver \/ CancelConnecting
             \/ Fetch \/ FetchFails \/ Disconnect \/ CancelDisconnecting
             \/ Stop \/ LinkLost \/ UNCHANGED vars
    BY <1>1, <2>5 DEF ConnectAttemptFails, ConnectSleepOver, CancelConnecting, Fetch,
        FetchFails, Disconnect, CancelDisconnecting, Stop, LinkLost, vars
  <2>6. QED
    BY <1>1, <2>2, <2>3, <2>4, <2>5 DEF Next, Step, Terminated
<1>2. IInv /\ [Next]_vars => [A]_vars
  BY <1>1
<1>3. Spec => [][A]_vars
  BY <1>2, Inductive, PTL DEF Spec
<1>4. QED
  BY <1>3 DEF DeliversThroughHeldSession

=============================================================================
