------------------------ MODULE SensorConsumerProofs ------------------------
(***************************************************************************)
(* Proofs that the consumer counts what it handles, leaves nothing behind  *)
(* and reports final totals, for every value of the retry parameters and   *)
(* any number of messages.                                                 *)
(***************************************************************************)
EXTENDS SensorConsumer, FiniteSetTheorems, SequenceTheorems, TLAPS

\* connect_with_retry is in progress exactly while run_forever is suspended
\* on it, and sleeps only when an attempt is left, which bounds attempt.
Retrying ==
    /\ attempt >= 1
    /\ phase = "sleeping" => attempt < MaxAttempts
    /\ pc = "connect" <=> phase \in {"connecting", "sleeping"}

\* Before the first session there is nothing; afterwards handle and exit
\* stack both hold the one session there ever is, whether it is still open
\* or not.
Holding ==
    /\ pc = "connect" => client = None /\ stack = None /\ live = {} /\ created = 0
    /\ pc \notin {"connect", "done"} =>
        client = 1 /\ stack = 1 /\ created = 1 /\ live \subseteq {1}

\* The tasks exist once run_forever waits for them, and none of them runs on
\* once they were told to stop.
Tasking ==
    /\ pc \in {"connect"} \cup Subscribing => consumeTask = "none" /\ stopTask = "none"
    /\ pc = "waiting" =>
        consumeTask \in {"running", "failed"} /\ stopTask \in {"running", "finished"}
    /\ pc = "gathering" =>
        consumeTask \notin {"none", "running"} /\ stopTask \notin {"none", "running"}

\* ending tells by which exit run_forever was, or is being, left, and what
\* must have happened for it: a return only once the stop was seen or the
\* messages ended, a connection error only ahead of the first message, and an
\* error out of disconnect only with a session to close.  Where the messages
\* ended the session had, so that disconnect cannot return.
Leaving ==
    /\ stopTask = "finished" => stop
    /\ pc \in {"connect"} \cup Subscribing => handled = 0
    /\ pc \in {"connect", "waiting"} \cup Subscribing => ending = "running"
    /\ pc = "gathering" => ending \in {"running", "cancelled"}
    /\ pc = "finally" => ending \in {"returned", "cancelled", "connect_error"}
    /\ pc = "done" => ending # "running"
    /\ ending = "returned" \/ (pc = "gathering" /\ ending = "running") =>
        stopTask = "finished" \/ consumeTask = "failed"
    /\ consumeTask = "failed" /\ pc # "done" => stack \notin live
    /\ ending = "returned" /\ pc = "done" => client = None /\ stopTask = "finished"
    /\ ending = "connect_error" => handled = 0
    /\ ending = "disconnect_error" => created > 0

\* The inductive invariant.
IInv ==
    /\ TypeOK
    /\ Retrying
    /\ Holding
    /\ Tasking
    /\ Leaving
    /\ NothingLeftBehind
    /\ StatsMatchMessages

-----------------------------------------------------------------------------

\* The initial state of run_forever satisfies the inductive invariant.
LEMMA InitIInv == Init => IInv
<1> SUFFICES ASSUME Init PROVE IInv
  OBVIOUS
<1> USE ConsumerAssumption DEF Init, None
<1>1. TypeOK
  <2>1. Mqtt!TypeOK
    BY DEF Mqtt!TypeOK, Mqtt!Sessions, Mqtt!None, Mqtt!Phases
  <2>2. <<>> \in Seq(Messages) /\ Len(<<>>) = 0
    OBVIOUS
  <2>3. QED
    BY <2>1, <2>2 DEF TypeOK, Awaits, TaskStates, Endings, Counters
<1>2. Retrying /\ Holding /\ Tasking /\ Leaving /\ NothingLeftBehind
  BY DEF Retrying, Holding, Tasking, Leaving, NothingLeftBehind, Subscribing
<1>3. StatsMatchMessages
  <2>1. Cardinality({}) = 0 /\ 1 .. 0 = {}
    BY FS_EmptySet
  <2>2. /\ {i \in 1 .. handled : ~arrived[i].decodable} = {}
        /\ {i \in 1 .. handled : arrived[i].decodable /\ arrived[i].channel = "alert"} = {}
        /\ {i \in 1 .. handled :
                arrived[i].decodable /\ arrived[i].channel = "temperature"} = {}
    BY <2>1
  <2>3. QED
    BY <2>1, <2>2 DEF StatsMatchMessages, HandledSuchThat
<1>4. QED
  BY <1>1, <1>2, <1>3 DEF IInv

-----------------------------------------------------------------------------
(* Types                                                                    *)

\* Opening a session keeps the set of sessions and the counter in range.
LEMMA OpenedTypes ==
    ASSUME Mqtt!TypeOK, created < MaxSessions, created' = created + 1,
           live' = live \cup {created'}
    PROVE  created' \in 0 .. MaxSessions /\ created' \in Mqtt!Sessions
           /\ live' \subseteq Mqtt!Sessions
BY ConsumerAssumption DEF Mqtt!TypeOK, Mqtt!Sessions

\* Each step of the adapter that the consumer takes leaves its variables in
\* their types.
LEMMA AdapterTypes ==
    ASSUME IInv,
           \/ Mqtt!RetryConnects \/ Mqtt!RetryFails \/ Mqtt!RetrySleepOver
           \/ Mqtt!RetryCancelled \/ Mqtt!DisconnectReturns \/ Mqtt!DisconnectRaises
           \/ Mqtt!LinkLost \/ UNCHANGED mqtt
    PROVE  Mqtt!TypeOK'
<1> USE ConsumerAssumption DEF None, Mqtt!None, Mqtt!Sessions, Mqtt!Phases
<1>1. Mqtt!TypeOK /\ Retrying
  BY DEF IInv, TypeOK
<1>2. CASE Mqtt!RetryConnects
  <2>1. CASE Mqtt!OpenSession
    BY <1>1, <1>2, <2>1, OpenedTypes DEF Mqtt!RetryConnects, Mqtt!OpenSession, Mqtt!TypeOK
  <2>2. CASE UNCHANGED Mqtt!connection
    BY <1>1, <1>2, <2>2 DEF Mqtt!RetryConnects, Mqtt!connection, Mqtt!TypeOK
  <2>3. QED
    BY <1>2, <2>1, <2>2 DEF Mqtt!RetryConnects, Mqtt!ConnectReturns
<1>3. CASE Mqtt!RetryFails
  BY <1>1, <1>3 DEF Mqtt!RetryFails, Mqtt!ConnectRaises, Mqtt!connection, Mqtt!TypeOK
<1>4. CASE Mqtt!RetrySleepOver
  BY <1>1, <1>4 DEF Mqtt!RetrySleepOver, Mqtt!Doubled, Mqtt!connection, Mqtt!TypeOK, Retrying
<1>5. CASE Mqtt!RetryCancelled
  <2>1. live' \subseteq Mqtt!Sessions /\ created' \in 0 .. MaxSessions
    <3>1. CASE UNCHANGED <<live, created>>
      BY <1>1, <3>1 DEF Mqtt!TypeOK
    <3>2. CASE created < MaxSessions /\ created' = created + 1 /\ live' = live \cup {created'}
      BY <1>1, <3>2, OpenedTypes
    <3>3. QED
      BY <1>5, <3>1, <3>2 DEF Mqtt!RetryCancelled
  <2>2. QED
    BY <1>1, <1>5, <2>1 DEF Mqtt!RetryCancelled, Mqtt!TypeOK
<1>6. CASE Mqtt!DisconnectReturns \/ Mqtt!DisconnectRaises
  BY <1>1, <1>6 DEF Mqtt!DisconnectReturns, Mqtt!DisconnectRaises, Mqtt!CloseSession,
      Mqtt!retry, Mqtt!TypeOK
<1>7. CASE Mqtt!LinkLost
  BY <1>1, <1>7 DEF Mqtt!LinkLost, Mqtt!retry, Mqtt!TypeOK
<1>8. CASE UNCHANGED mqtt
  BY <1>1, <1>8 DEF mqtt, Mqtt!TypeOK
<1>9. QED
  BY <1>2, <1>3, <1>4, <1>5, <1>6, <1>7, <1>8

\* What the adapter is asked to do in each step of the consumer.
LEMMA AdapterStep ==
    ASSUME [Next]_vars
    PROVE  \/ Mqtt!RetryConnects \/ Mqtt!RetryFails \/ Mqtt!RetrySleepOver
           \/ Mqtt!RetryCancelled \/ Mqtt!DisconnectReturns \/ Mqtt!DisconnectRaises
           \/ Mqtt!LinkLost \/ UNCHANGED mqtt
BY DEF Next, MainStep, ConsumeStep, StopWaitStep, Terminated, vars, mqtt,
    Connected, ConnectAttemptFails, ConnectSleepOver, SubscribeTelemetry, SubscribeAlert,
    SubscribeFails, WaitReturns, GatherReturns, Disconnect, Handle, ConsumeFails,
    ConsumeCancelled, StopWaitFinishes, StopWaitCancelled, Stop, LinkLost, Arrive,
    CancelConnecting, CancelSubscribing, CancelWaiting, CancelDisconnecting,
    Mqtt!SubscribeSucceeds, Mqtt!OperationSucceeds, Mqtt!SubscribeFails, Mqtt!MessagesEnd, Mqtt!vars

\* What has arrived stays, and at most one message is added to it.
LEMMA ArrivedStep ==
    ASSUME TypeOK, [Next]_vars
    PROVE  \/ arrived' = arrived
           \/ /\ \E m \in Messages : arrived' = Append(arrived, m)
              /\ Len(arrived) < MaxMessages /\ handled' = handled /\ stats' = stats
<1>1. CASE Arrive
  BY <1>1 DEF Arrive
<1>2. CASE ~Arrive
  BY <1>2 DEF Next, MainStep, ConsumeStep, StopWaitStep, Terminated, vars, inbox,
      Connected, ConnectAttemptFails, ConnectSleepOver, SubscribeTelemetry, SubscribeAlert,
      SubscribeFails, WaitReturns, GatherReturns, Disconnect, Handle, ConsumeFails,
      ConsumeCancelled, StopWaitFinishes, StopWaitCancelled, Stop, LinkLost,
      CancelConnecting, CancelSubscribing, CancelWaiting, CancelDisconnecting
<1>3. QED
  BY <1>1, <1>2

\* Only Handle counts, and it counts one message that has arrived.
LEMMA HandledStep ==
    ASSUME TypeOK, [Next]_vars, ~Handle
    PROVE  handled' = handled /\ stats' = stats
BY DEF Next, MainStep, ConsumeStep, StopWaitStep, Terminated, vars, inbox,
    Connected, ConnectAttemptFails, ConnectSleepOver, SubscribeTelemetry, SubscribeAlert,
    SubscribeFails, WaitReturns, GatherReturns, Disconnect, ConsumeFails,
    ConsumeCancelled, StopWaitFinishes, StopWaitCancelled, Stop, LinkLost, Arrive,
    CancelConnecting, CancelSubscribing, CancelWaiting, CancelDisconnecting

\* Every action of the three coroutines leaves the variables in their types.
LEMMA TypeStep == IInv /\ [Next]_vars => TypeOK'
<1> SUFFICES ASSUME IInv, [Next]_vars PROVE TypeOK'
  OBVIOUS
<1>1. TypeOK /\ MaxMessages \in Nat
  BY ConsumerAssumption DEF IInv
<1>2. Mqtt!TypeOK'
  BY AdapterStep, AdapterTypes
<1>3. arrived' \in Seq(Messages) /\ Len(arrived') <= MaxMessages /\ Len(arrived') >= Len(arrived)
  <2>1. CASE arrived' = arrived
    BY <1>1, <2>1 DEF TypeOK
  <2>2. ASSUME NEW m \in Messages, arrived' = Append(arrived, m), Len(arrived) < MaxMessages
        PROVE  arrived' \in Seq(Messages) /\ Len(arrived') = Len(arrived) + 1
    BY <1>1, <2>2, AppendProperties DEF TypeOK
  <2>3. QED
    BY <1>1, <2>1, <2>2, ArrivedStep DEF TypeOK
<1>4. handled' \in 0 .. Len(arrived') /\ stats' \in Counters
  <2>1. CASE Handle
    <3>1. handled + 1 \in 1 .. Len(arrived) /\ arrived' = arrived /\ handled' = handled + 1
      BY <1>1, <2>1 DEF Handle, HasMessage, TypeOK
    <3>2. Counted(arrived[handled']) \in Counters
      BY <1>1, <3>1 DEF Counted, TypeOK, Counters, IsAlert, Messages
    <3>3. QED
      BY <2>1, <3>1, <3>2 DEF Handle
  <2>2. CASE ~Handle
    BY <1>1, <1>3, <2>2, HandledStep DEF TypeOK
  <2>3. QED
    BY <2>1, <2>2
<1>5. stop' \in BOOLEAN
  <2>1. stop \in BOOLEAN
    BY <1>1 DEF TypeOK
  <2>2. CASE Stop
    BY <2>2 DEF Stop
  <2>3. CASE ~Stop
    <3>1. stop' = stop
      BY <2>3 DEF Next, MainStep, ConsumeStep, StopWaitStep, Terminated, vars, Connected,
          ConnectAttemptFails, ConnectSleepOver, SubscribeTelemetry, SubscribeAlert,
          SubscribeFails, WaitReturns, GatherReturns, Disconnect, Handle, ConsumeFails,
          ConsumeCancelled, StopWaitFinishes, StopWaitCancelled, LinkLost, Arrive,
          CancelConnecting, CancelSubscribing, CancelWaiting, CancelDisconnecting
    <3>2. QED
      BY <2>1, <3>1
  <2>4. QED
    BY <2>2, <2>3
<1>6. /\ pc' \in Awaits /\ ending' \in Endings
      /\ consumeTask' \in TaskStates /\ stopTask' \in TaskStates \ {"failed"}
      /\ subscribed' \subseteq Channels
  <2> USE DEF Awaits, Endings, TaskStates, Channels
  <2>1. /\ pc \in Awaits /\ ending \in Endings
        /\ consumeTask \in TaskStates /\ stopTask \in TaskStates \ {"failed"}
        /\ subscribed \subseteq Channels
    BY <1>1 DEF TypeOK
  <2>2. CASE Connected \/ ConnectAttemptFails \/ ConnectSleepOver \/ CancelConnecting
    BY <2>1, <2>2 DEF Connected, ConnectAttemptFails, ConnectSleepOver, CancelConnecting,
        tasks, inbox
  <2>3. CASE SubscribeTelemetry \/ SubscribeAlert
    BY <2>1, <2>3 DEF SubscribeTelemetry, SubscribeAlert, Deliver, tasks
  <2>4. CASE SubscribeFails \/ CancelSubscribing
    BY <2>1, <2>4 DEF SubscribeFails, CancelSubscribing, Deliver, SubscribedChannel, tasks
  <2>5. CASE WaitReturns \/ CancelWaiting
    BY <2>1, <2>5 DEF WaitReturns, CancelWaiting, CancelTasks, inbox
  <2>6. CASE GatherReturns \/ Disconnect \/ CancelDisconnecting
    BY <2>1, <2>6 DEF GatherReturns, Disconnect, CancelDisconnecting, tasks, inbox
  <2>7. CASE Handle \/ ConsumeFails \/ ConsumeCancelled \/ StopWaitFinishes \/ StopWaitCancelled
    BY <2>1, <2>7 DEF Handle, ConsumeFails, ConsumeCancelled, StopWaitFinishes,
        StopWaitCancelled, tasks, inbox
  <2>8. CASE Stop \/ LinkLost \/ Arrive \/ UNCHANGED vars
    BY <2>1, <2>8 DEF Stop, LinkLost, Arrive, vars, tasks, inbox
  <2>9. QED
    BY <2>2, <2>3, <2>4, <2>5, <2>6, <2>7, <2>8
       DEF Next, MainStep, ConsumeStep, StopWaitStep, Terminated
<1>7. QED
  BY <1>2, <1>3, <1>4, <1>5, <1>6 DEF TypeOK

-----------------------------------------------------------------------------
(* The session and the tasks                                                *)

\* Each exit of run_forever finds the handle and the stack as the others do.
LEMMA ConnectionStep ==
    IInv /\ [Next]_vars =>
        /\ Retrying' /\ Holding'
        /\ pc' = "done" /\ ending' # "cancelled_connecting" => live' = {}
<1> SUFFICES ASSUME IInv, [Next]_vars
             PROVE  /\ Retrying' /\ Holding'
                    /\ pc' = "done" /\ ending' # "cancelled_connecting" => live' = {}
  OBVIOUS
<1> USE DEF None, Mqtt!None, Retrying, Holding
<1>1. /\ Retrying /\ Holding /\ attempt \in Nat /\ MaxAttempts \in Nat \ {0}
      /\ attempt <= MaxAttempts /\ live \subseteq Mqtt!Sessions
      /\ pc = "done" /\ ending # "cancelled_connecting" => live = {}
  BY ConsumerAssumption DEF IInv, TypeOK, Mqtt!TypeOK, NothingLeftBehind
<1>2. CASE Connected
  <2>1. /\ created' = 1 /\ client' = 1 /\ stack' = 1 /\ live' = {1}
        /\ phase' = "idle" /\ attempt' = attempt
    BY <1>1, <1>2 DEF Connected, Mqtt!RetryConnects, Mqtt!ConnectReturns,
        Mqtt!AlreadyConnected, Mqtt!OpenSession
  <2>2. QED
    BY <1>1, <1>2, <2>1 DEF Connected
<1>3. CASE ConnectAttemptFails
  BY <1>1, <1>3 DEF ConnectAttemptFails, Mqtt!RetryFails, Mqtt!ConnectRaises,
      Mqtt!LastAttempt, Mqtt!connection
<1>4. CASE ConnectSleepOver
  BY <1>1, <1>4 DEF ConnectSleepOver, Mqtt!RetrySleepOver, Mqtt!connection
<1>5. CASE CancelConnecting
  BY <1>1, <1>5 DEF CancelConnecting, Mqtt!RetryCancelled
<1>6. CASE SubscribeTelemetry \/ SubscribeAlert \/ SubscribeFails \/ CancelSubscribing
  BY <1>1, <1>6 DEF SubscribeTelemetry, SubscribeAlert, SubscribeFails, CancelSubscribing,
      Subscribing, Mqtt!SubscribeSucceeds, Mqtt!OperationSucceeds, Mqtt!SubscribeFails,
      Mqtt!vars, mqtt
<1>7. CASE WaitReturns \/ CancelWaiting \/ GatherReturns
  BY <1>1, <1>7 DEF WaitReturns, CancelWaiting, GatherReturns, mqtt
<1>8. CASE Disconnect \/ CancelDisconnecting
  BY <1>1, <1>8 DEF Disconnect, CancelDisconnecting, Mqtt!DisconnectReturns,
      Mqtt!DisconnectRaises, Mqtt!CloseSession, Mqtt!HasSessionToClose, Mqtt!retry
<1>9. CASE LinkLost
  BY <1>1, <1>9 DEF LinkLost, Mqtt!LinkLost, Mqtt!retry
<1>10. CASE \/ ConsumeStep \/ StopWaitStep \/ Stop \/ Arrive \/ UNCHANGED vars
  BY <1>1, <1>10 DEF ConsumeStep, StopWaitStep, Handle, ConsumeFails, ConsumeCancelled,
      StopWaitFinishes, StopWaitCancelled, Stop, Arrive, Mqtt!MessagesEnd, Mqtt!vars,
      mqtt, vars
<1>11. QED
  BY <1>2, <1>3, <1>4, <1>5, <1>6, <1>7, <1>8, <1>9, <1>10
     DEF Next, MainStep, Terminated

\* A task that is over stays over, and run_forever moves on only once both
\* are.
LEMMA TaskStep ==
    IInv /\ [Next]_vars =>
        /\ Tasking'
        /\ pc' \in {"finally", "done"} =>
            {consumeTask', stopTask'} \cap {"running", "cancelling"} = {}
<1> SUFFICES ASSUME IInv, [Next]_vars
             PROVE  /\ Tasking'
                    /\ pc' \in {"finally", "done"} =>
                        /\ consumeTask' \notin {"running", "cancelling"}
                        /\ stopTask' \notin {"running", "cancelling"}
  OBVIOUS
<1> USE DEF Tasking, Subscribing
<1>1. /\ Tasking /\ pc \in Awaits
      /\ consumeTask \in TaskStates /\ stopTask \in TaskStates \ {"failed"}
      /\ pc \in {"finally", "done"} =>
            /\ consumeTask \notin {"running", "cancelling"}
            /\ stopTask \notin {"running", "cancelling"}
  BY DEF IInv, TypeOK, NothingLeftBehind
<1>2. CASE \/ Connected \/ ConnectAttemptFails \/ ConnectSleepOver \/ CancelConnecting
           \/ SubscribeTelemetry \/ SubscribeFails \/ CancelSubscribing
  BY <1>1, <1>2 DEF Connected, ConnectAttemptFails, ConnectSleepOver, CancelConnecting,
      SubscribeTelemetry, SubscribeFails, CancelSubscribing, tasks
<1>3. CASE SubscribeAlert
  BY <1>1, <1>3 DEF SubscribeAlert
<1>4. CASE WaitReturns \/ CancelWaiting
  BY <1>1, <1>4 DEF WaitReturns, CancelWaiting, CancelTasks, IsDone, TaskStates
<1>5. CASE GatherReturns
  BY <1>1, <1>5 DEF GatherReturns, AllGathered, IsDone, tasks
<1>6. CASE Disconnect \/ CancelDisconnecting
  BY <1>1, <1>6 DEF Disconnect, CancelDisconnecting, tasks
<1>7. CASE Handle \/ Stop \/ LinkLost \/ Arrive \/ UNCHANGED vars
  BY <1>1, <1>7 DEF Handle, Stop, LinkLost, Arrive, vars, tasks
<1>8. CASE ConsumeFails \/ ConsumeCancelled \/ StopWaitFinishes \/ StopWaitCancelled
  BY <1>1, <1>8 DEF ConsumeFails, ConsumeCancelled, StopWaitFinishes, StopWaitCancelled
<1>9. QED
  BY <1>2, <1>3, <1>4, <1>5, <1>6, <1>7, <1>8
     DEF Next, MainStep, ConsumeStep, StopWaitStep, Terminated

\* Each way out of run_forever is taken under the circumstances that its
\* ending stands for, and nothing afterwards takes them back.
LEMMA LeavingStep == IInv /\ [Next]_vars => Leaving'
<1> SUFFICES ASSUME IInv, [Next]_vars PROVE Leaving'
  OBVIOUS
<1> USE DEF Leaving, Subscribing, None, Mqtt!None
<1>1. /\ Leaving /\ Tasking /\ Holding /\ pc \in Awaits /\ created \in Nat
      /\ consumeTask \in TaskStates /\ stopTask \in TaskStates \ {"failed"}
  BY ConsumerAssumption DEF IInv, TypeOK, Mqtt!TypeOK
<1> pc \in {"finally", "done"} =>
        /\ consumeTask \notin {"running", "cancelling"}
        /\ stopTask \notin {"running", "cancelling"}
  BY DEF IInv, NothingLeftBehind
<1>2. CASE Connected \/ ConnectAttemptFails \/ ConnectSleepOver \/ CancelConnecting
  BY <1>1, <1>2 DEF Connected, ConnectAttemptFails, ConnectSleepOver, CancelConnecting,
      Tasking, tasks, inbox
<1>3. CASE SubscribeTelemetry \/ SubscribeAlert \/ SubscribeFails \/ CancelSubscribing
  <2>1. client' = client /\ created' = created
    BY <1>3 DEF SubscribeTelemetry, SubscribeAlert, SubscribeFails, CancelSubscribing, mqtt,
        Mqtt!SubscribeSucceeds, Mqtt!OperationSucceeds, Mqtt!SubscribeFails, Mqtt!vars
  <2>2. QED
    BY <1>1, <1>3, <2>1 DEF SubscribeTelemetry, SubscribeAlert, SubscribeFails,
        CancelSubscribing, Tasking, tasks
<1>4. CASE WaitReturns \/ CancelWaiting
  BY <1>1, <1>4 DEF WaitReturns, CancelWaiting, CancelTasks, FirstCompleted, IsDone, Tasking,
      TaskStates, mqtt, inbox
<1>5. CASE GatherReturns
  BY <1>1, <1>5 DEF GatherReturns, mqtt, tasks, inbox
<1>6. CASE Disconnect
  <2>1. CASE Mqtt!DisconnectReturns
    <3>1. ending = "returned" => stopTask = "finished"
      BY <1>1, <1>6, <2>1 DEF Disconnect, Mqtt!DisconnectReturns, Mqtt!HasSessionToClose,
          Holding
    <3>2. QED
      BY <1>1, <1>6, <2>1, <3>1 DEF Disconnect, Mqtt!DisconnectReturns, Holding, tasks, inbox
  <2>2. CASE Mqtt!DisconnectRaises /\ ending' = "disconnect_error"
    BY <1>1, <1>6, <2>2 DEF Disconnect, Mqtt!DisconnectRaises, Holding, tasks, inbox
  <2>3. QED
    BY <1>6, <2>1, <2>2 DEF Disconnect
<1>7. CASE ConsumeFails
  <2>1. pc = "waiting" /\ stack' \notin live'
    BY <1>1, <1>7 DEF ConsumeFails, Mqtt!MessagesEnd, Mqtt!vars, Tasking, Holding, Awaits
  <2>2. QED
    BY <1>1, <1>7, <2>1 DEF ConsumeFails, Mqtt!MessagesEnd, Mqtt!vars, inbox
<1>8. CASE Handle \/ ConsumeCancelled \/ StopWaitFinishes \/ StopWaitCancelled
  BY <1>1, <1>8 DEF Handle, ConsumeCancelled, StopWaitFinishes, StopWaitCancelled,
      Tasking, Awaits, mqtt, tasks, inbox
<1>9. CASE Stop \/ LinkLost \/ Arrive \/ UNCHANGED vars
  BY <1>1, <1>9 DEF Stop, LinkLost, Mqtt!LinkLost, Mqtt!retry, Arrive, vars, mqtt, tasks, inbox
<1>10. CASE CancelDisconnecting
  BY <1>1, <1>10 DEF CancelDisconnecting, Mqtt!DisconnectRaises, Holding, tasks, inbox
<1>11. QED
  BY <1>2, <1>3, <1>4, <1>5, <1>6, <1>7, <1>8, <1>9, <1>10
     DEF Next, MainStep, ConsumeStep, StopWaitStep, Terminated

-----------------------------------------------------------------------------
(* The counters                                                             *)

\* A set of positions among the first n + 1 is counted from those among the
\* first n.
LEMMA CountExtended ==
    ASSUME NEW n \in Nat, NEW S \in SUBSET (1 .. n)
    PROVE  /\ Cardinality(S) \in Nat
           /\ Cardinality(S \cup {n + 1}) = Cardinality(S) + 1
<1>1. IsFiniteSet(1 .. n)
  BY FS_Interval
<1>2. IsFiniteSet(S)
  BY <1>1, FS_Subset
<1>3. n + 1 \notin S
  OBVIOUS
<1>4. QED
  BY <1>2, <1>3, FS_AddElement, FS_CardinalityType

Failures(a, n) == {i \in 1 .. n : ~a[i].decodable}
Alerts(a, n) == {i \in 1 .. n : a[i].decodable /\ a[i].channel = "alert"}
Telemetry(a, n) == {i \in 1 .. n : a[i].decodable /\ a[i].channel = "temperature"}

\* One more handled message adds one position to the set of its kind, and
\* none to the other two.
LEMMA OneMore ==
    ASSUME NEW a \in Seq(Messages), NEW n \in 0 .. Len(a) - 1
    PROVE  /\ Failures(a, n + 1) = IF ~a[n + 1].decodable
                                   THEN Failures(a, n) \cup {n + 1} ELSE Failures(a, n)
           /\ Alerts(a, n + 1) = IF a[n + 1].decodable /\ a[n + 1].channel = "alert"
                                 THEN Alerts(a, n) \cup {n + 1} ELSE Alerts(a, n)
           /\ Telemetry(a, n + 1) = IF a[n + 1].decodable /\ a[n + 1].channel = "temperature"
                                    THEN Telemetry(a, n) \cup {n + 1} ELSE Telemetry(a, n)
<1>1. 1 .. n + 1 = (1 .. n) \cup {n + 1} /\ n \in Nat
  OBVIOUS
<1>2. QED
  BY <1>1 DEF Failures, Alerts, Telemetry

\* StatsMatchMessages says how many positions there are of each kind.
LEMMA CountsByKind ==
    StatsMatchMessages => /\ stats.failures = Cardinality(Failures(arrived, handled))
                          /\ stats.alerts = Cardinality(Alerts(arrived, handled))
                          /\ stats.telemetry = Cardinality(Telemetry(arrived, handled))
BY DEF StatsMatchMessages, HandledSuchThat, Failures, Alerts, Telemetry

\* Every message that is handled is counted once, and under its kind.
LEMMA StatsStep == IInv /\ [Next]_vars => StatsMatchMessages'
<1> SUFFICES ASSUME IInv, [Next]_vars PROVE StatsMatchMessages'
  OBVIOUS
<1>1. /\ TypeOK /\ arrived \in Seq(Messages) /\ handled \in 0 .. Len(arrived)
      /\ stats \in Counters /\ handled \in Nat
      /\ stats.failures = Cardinality(Failures(arrived, handled))
      /\ stats.alerts = Cardinality(Alerts(arrived, handled))
      /\ stats.telemetry = Cardinality(Telemetry(arrived, handled))
  BY CountsByKind DEF IInv, TypeOK
<1>2. SUFFICES /\ stats'.failures = Cardinality(Failures(arrived', handled'))
               /\ stats'.alerts = Cardinality(Alerts(arrived', handled'))
               /\ stats'.telemetry = Cardinality(Telemetry(arrived', handled'))
  BY <1>2 DEF StatsMatchMessages, HandledSuchThat, Failures, Alerts, Telemetry
<1>3. CASE Handle
  <2> DEFINE m == arrived[handled + 1]
  <2>1. /\ arrived' = arrived /\ handled' = handled + 1 /\ stats' = Counted(m)
        /\ handled \in 0 .. Len(arrived) - 1 /\ handled + 1 \in 1 .. Len(arrived)
    BY <1>1, <1>3 DEF Handle, HasMessage
  <2>2. m \in Messages
    BY <1>1, <2>1
  <2>3. m.decodable \in BOOLEAN /\ m.channel \in {"temperature", "alert"}
    BY <2>2 DEF Messages, Channels
  <2>4. /\ Failures(arrived, handled) \in SUBSET (1 .. handled)
        /\ Alerts(arrived, handled) \in SUBSET (1 .. handled)
        /\ Telemetry(arrived, handled) \in SUBSET (1 .. handled)
    BY DEF Failures, Alerts, Telemetry
  <2>5. /\ Cardinality(Failures(arrived, handled) \cup {handled + 1}) = stats.failures + 1
        /\ Cardinality(Alerts(arrived, handled) \cup {handled + 1}) = stats.alerts + 1
        /\ Cardinality(Telemetry(arrived, handled) \cup {handled + 1}) = stats.telemetry + 1
    BY <1>1, <2>4, CountExtended
  <2>6. /\ Failures(arrived', handled') =
                IF ~m.decodable THEN Failures(arrived, handled) \cup {handled + 1}
                ELSE Failures(arrived, handled)
        /\ Alerts(arrived', handled') =
                IF m.decodable /\ m.channel = "alert"
                THEN Alerts(arrived, handled) \cup {handled + 1} ELSE Alerts(arrived, handled)
        /\ Telemetry(arrived', handled') =
                IF m.decodable /\ m.channel = "temperature"
                THEN Telemetry(arrived, handled) \cup {handled + 1}
                ELSE Telemetry(arrived, handled)
    BY <1>1, <2>1, OneMore
  <2> HIDE DEF m
  <2>7. CASE ~m.decodable
    <3>1. stats' = [stats EXCEPT !.failures = @ + 1]
      BY <2>1, <2>7 DEF Counted
    <3>2. QED
      BY <1>1, <2>5, <2>6, <2>7, <3>1 DEF Counters
  <2>8. CASE m.decodable /\ m.channel = "alert"
    <3>1. stats' = [stats EXCEPT !.alerts = @ + 1]
      BY <2>1, <2>8 DEF Counted, IsAlert
    <3>2. QED
      BY <1>1, <2>5, <2>6, <2>8, <3>1 DEF Counters
  <2>9. CASE m.decodable /\ m.channel = "temperature"
    <3>1. stats' = [stats EXCEPT !.telemetry = @ + 1]
      BY <2>1, <2>9 DEF Counted, IsAlert
    <3>2. QED
      BY <1>1, <2>5, <2>6, <2>9, <3>1 DEF Counters
  <2>10. QED
    BY <2>3, <2>7, <2>8, <2>9
<1>4. CASE ~Handle
  <2>1. handled' = handled /\ stats' = stats
    BY <1>1, <1>4, HandledStep
  <2>2. \A i \in 1 .. handled : arrived'[i] = arrived[i]
    <3>1. CASE arrived' = arrived
      BY <3>1
    <3>2. ASSUME NEW m \in Messages, arrived' = Append(arrived, m)
          PROVE  \A i \in 1 .. handled : arrived'[i] = arrived[i]
      BY <1>1, <3>2, AppendProperties
    <3>3. QED
      BY <1>1, <3>1, <3>2, ArrivedStep
  <2>3. /\ Failures(arrived', handled) = Failures(arrived, handled)
        /\ Alerts(arrived', handled) = Alerts(arrived, handled)
        /\ Telemetry(arrived', handled) = Telemetry(arrived, handled)
    BY <2>2 DEF Failures, Alerts, Telemetry
  <2>4. QED
    BY <1>1, <2>1, <2>3
<1>5. QED
  BY <1>3, <1>4

-----------------------------------------------------------------------------

\* Every step keeps the inductive invariant.
LEMMA StepIInv == IInv /\ [Next]_vars => IInv'
BY TypeStep, ConnectionStep, TaskStep, LeavingStep, StatsStep DEF IInv, NothingLeftBehind

\* The inductive invariant holds in every state of every behaviour.
THEOREM Inductive == Spec => []IInv
<1>1. Init => IInv
  BY InitIInv
<1>2. IInv /\ [Next]_vars => IInv'
  BY StepIInv
<1>3. QED
  BY <1>1, <1>2, PTL DEF Spec

\* Type correctness: in particular no more messages are handled than arrived,
\* and connect_with_retry keeps within its attempts.
THEOREM TypeCorrect == Spec => []TypeOK
<1>1. IInv => TypeOK
  BY DEF IInv
<1>2. QED
  BY <1>1, Inductive, PTL

\* However the stop, the loss of the session, the messages and cancellations
\* are interleaved, both tasks are over before the connection is closed, and
\* a run that ended has closed it.
THEOREM LeavesNothingBehind == Spec => []NothingLeftBehind
<1>1. IInv => NothingLeftBehind
  BY DEF IInv
<1>2. QED
  BY <1>1, Inductive, PTL

\* Each of the three counters is the number of the handled messages of its
\* kind, for any number of messages in any order.
THEOREM CountsAreExact == Spec => []StatsMatchMessages
<1>1. IInv => StatsMatchMessages
  BY DEF IInv
<1>2. QED
  BY <1>1, Inductive, PTL

\* Nothing is counted once run_forever has asked the tasks to stop: from then
\* on the consuming task is not running, and a task never starts again.
THEOREM NothingCountedAfterwards == Spec => TotalsAreFinal
<1> DEFINE A == (pc \in {"gathering", "finally", "done"}) => (UNCHANGED <<stats, handled>>)
<1>1. ASSUME IInv, [Next]_vars, pc \in {"gathering", "finally", "done"}
      PROVE  UNCHANGED <<stats, handled>>
  <2>1. consumeTask # "running"
    BY <1>1 DEF IInv, Tasking, NothingLeftBehind
  <2>2. ~Handle
    BY <2>1 DEF Handle
  <2>3. QED
    BY <1>1, <2>2, HandledStep DEF IInv
<1>2. IInv /\ [Next]_vars => [A]_vars
  BY <1>1
<1>3. Spec => [][A]_vars
  BY <1>2, Inductive, PTL DEF Spec
<1>4. QED
  BY <1>3 DEF TotalsAreFinal

=============================================================================
