----------------------------- MODULE CliProofs -----------------------------
(***************************************************************************)
(* Proofs about the three processes, for every value of the parts'         *)
(* constants.  First, each process implements the specification of the     *)
(* use case it runs, so that what SensorPublisherProofs and                *)
(* SensorConsumerProofs show of the use case holds in the process.  Then   *)
(* comes the invariant of the command line around it: how far the use case *)
(* can be at each stage, what the waiter and the health server do to one   *)
(* another, and which exit code belongs to which ending.                   *)
(***************************************************************************)
EXTENDS Cli, TLAPS

PublisherP == INSTANCE SensorPublisherProofs
ConsumerP == INSTANCE SensorConsumerProofs
WaiterP == INSTANCE WakeUpWaiterProofs WITH pc <- waiting

-----------------------------------------------------------------------------
(* The processes implement their use cases                                  *)

(***************************************************************************)
(* Cli and the modules of proofs each have their own instance of the       *)
(* adapter and of the use cases; the lemmas named Same... say that the     *)
(* steps of both are the same.                                             *)
(***************************************************************************)

\* What the publisher asks its adapter to do is what SensorPublisherProofs
\* says of it.
LEMMA SamePublisherAdapter ==
    /\ Publisher!Mqtt!RetryConnects <=> PublisherP!Mqtt!RetryConnects
    /\ Publisher!Mqtt!RetryFails <=> PublisherP!Mqtt!RetryFails
    /\ Publisher!Mqtt!RetrySleepOver <=> PublisherP!Mqtt!RetrySleepOver
    /\ Publisher!Mqtt!RetryCancelled <=> PublisherP!Mqtt!RetryCancelled
    /\ Publisher!Mqtt!PublishSucceeds <=> PublisherP!Mqtt!PublishSucceeds
    /\ Publisher!Mqtt!PublishFails <=> PublisherP!Mqtt!PublishFails
    /\ Publisher!Mqtt!PublishRefused <=> PublisherP!Mqtt!PublishRefused
    /\ Publisher!Mqtt!DisconnectReturns <=> PublisherP!Mqtt!DisconnectReturns
    /\ Publisher!Mqtt!DisconnectRaises <=> PublisherP!Mqtt!DisconnectRaises
    /\ Publisher!Mqtt!LinkLost <=> PublisherP!Mqtt!LinkLost
<1> USE DEF Publisher!Mqtt!None, PublisherP!Mqtt!None,
        Publisher!Mqtt!connection, PublisherP!Mqtt!connection,
        Publisher!Mqtt!retry, PublisherP!Mqtt!retry,
        Publisher!Mqtt!vars, PublisherP!Mqtt!vars,
        Publisher!Mqtt!AlreadyConnected, PublisherP!Mqtt!AlreadyConnected,
        Publisher!Mqtt!NoCallInProgress, PublisherP!Mqtt!NoCallInProgress
<1>1. /\ Publisher!Mqtt!RetryConnects <=> PublisherP!Mqtt!RetryConnects
      /\ Publisher!Mqtt!RetryFails <=> PublisherP!Mqtt!RetryFails
  BY DEF Publisher!Mqtt!RetryConnects, PublisherP!Mqtt!RetryConnects,
         Publisher!Mqtt!ConnectReturns, PublisherP!Mqtt!ConnectReturns,
         Publisher!Mqtt!OpenSession, PublisherP!Mqtt!OpenSession,
         Publisher!Mqtt!RetryFails, PublisherP!Mqtt!RetryFails,
         Publisher!Mqtt!ConnectRaises, PublisherP!Mqtt!ConnectRaises,
         Publisher!Mqtt!LastAttempt, PublisherP!Mqtt!LastAttempt
<1>2. /\ Publisher!Mqtt!RetrySleepOver <=> PublisherP!Mqtt!RetrySleepOver
      /\ Publisher!Mqtt!RetryCancelled <=> PublisherP!Mqtt!RetryCancelled
  BY DEF Publisher!Mqtt!RetrySleepOver, PublisherP!Mqtt!RetrySleepOver,
         Publisher!Mqtt!Doubled, PublisherP!Mqtt!Doubled,
         Publisher!Mqtt!RetryCancelled, PublisherP!Mqtt!RetryCancelled
<1>3. /\ Publisher!Mqtt!PublishSucceeds <=> PublisherP!Mqtt!PublishSucceeds
      /\ Publisher!Mqtt!PublishFails <=> PublisherP!Mqtt!PublishFails
      /\ Publisher!Mqtt!PublishRefused <=> PublisherP!Mqtt!PublishRefused
  BY DEF Publisher!Mqtt!PublishSucceeds, PublisherP!Mqtt!PublishSucceeds,
         Publisher!Mqtt!OperationSucceeds, PublisherP!Mqtt!OperationSucceeds,
         Publisher!Mqtt!PublishFails, PublisherP!Mqtt!PublishFails,
         Publisher!Mqtt!PublishRefused, PublisherP!Mqtt!PublishRefused
<1>4. /\ Publisher!Mqtt!DisconnectReturns <=> PublisherP!Mqtt!DisconnectReturns
      /\ Publisher!Mqtt!DisconnectRaises <=> PublisherP!Mqtt!DisconnectRaises
      /\ Publisher!Mqtt!LinkLost <=> PublisherP!Mqtt!LinkLost
  BY DEF Publisher!Mqtt!DisconnectReturns, PublisherP!Mqtt!DisconnectReturns,
         Publisher!Mqtt!DisconnectRaises, PublisherP!Mqtt!DisconnectRaises,
         Publisher!Mqtt!CloseSession, PublisherP!Mqtt!CloseSession,
         Publisher!Mqtt!HasSessionToClose, PublisherP!Mqtt!HasSessionToClose,
         Publisher!Mqtt!LinkLost, PublisherP!Mqtt!LinkLost
<1>5. QED
  BY <1>1, <1>2, <1>3, <1>4

\* Every step of the use case in a process that publishes is a step of
\* SensorPublisherProofs.
LEMMA SamePublisher ==
    /\ Publisher!Step => PublisherP!Step
    /\ Publisher!Stop => PublisherP!Stop
    /\ Publisher!LinkLost => PublisherP!LinkLost
    /\ Publisher!Cancel => PublisherP!Cancel
    /\ Publisher!CancelConnecting => PublisherP!CancelConnecting
    /\ Publisher!CancelDisconnecting => PublisherP!CancelDisconnecting
<1> USE SamePublisherAdapter
    DEF Publisher!mqtt, PublisherP!mqtt, Publisher!None, PublisherP!None,
        Publisher!Channels, PublisherP!Channels, Publisher!Accept, PublisherP!Accept,
        Publisher!Drop, PublisherP!Drop, Publisher!LoopTest, PublisherP!LoopTest
<1>1. /\ Publisher!Connected => PublisherP!Connected
      /\ Publisher!ConnectAttemptFails => PublisherP!ConnectAttemptFails
      /\ Publisher!ConnectSleepOver => PublisherP!ConnectSleepOver
      /\ Publisher!Wake => PublisherP!Wake
      /\ Publisher!Disconnect => PublisherP!Disconnect
  BY DEF Publisher!Connected, PublisherP!Connected,
         Publisher!ConnectAttemptFails, PublisherP!ConnectAttemptFails,
         Publisher!ConnectSleepOver, PublisherP!ConnectSleepOver,
         Publisher!Wake, PublisherP!Wake, Publisher!Disconnect, PublisherP!Disconnect
<1>2. /\ Publisher!Fetch => PublisherP!Fetch
      /\ Publisher!FetchFails => PublisherP!FetchFails
  BY DEF Publisher!Fetch, PublisherP!Fetch, Publisher!IsValid, PublisherP!IsValid,
         Publisher!FetchFails, PublisherP!FetchFails
<1>3. ASSUME NEW channel \in Publisher!Channels
      PROVE  /\ Publisher!PublishReturns(channel) => PublisherP!PublishReturns(channel)
             /\ Publisher!PublishRaises(channel) => PublisherP!PublishRaises(channel)
  BY DEF Publisher!PublishReturns, PublisherP!PublishReturns,
         Publisher!PublishRaises, PublisherP!PublishRaises,
         Publisher!NextStep, PublisherP!NextStep,
         Publisher!IsOutOfRange, PublisherP!IsOutOfRange,
         Publisher!AfterFailure, PublisherP!AfterFailure
<1>4. Publisher!Step => PublisherP!Step
  BY <1>1, <1>2, <1>3 DEF Publisher!Step, PublisherP!Step
<1>5. /\ Publisher!Stop => PublisherP!Stop
      /\ Publisher!LinkLost => PublisherP!LinkLost
      /\ Publisher!Cancel => PublisherP!Cancel
      /\ Publisher!CancelConnecting => PublisherP!CancelConnecting
      /\ Publisher!CancelDisconnecting => PublisherP!CancelDisconnecting
  BY DEF Publisher!Stop, PublisherP!Stop, Publisher!LinkLost, PublisherP!LinkLost,
         Publisher!Cancel, PublisherP!Cancel,
         Publisher!CancelConnecting, PublisherP!CancelConnecting,
         Publisher!CancelDisconnecting, PublisherP!CancelDisconnecting
<1>6. QED
  BY <1>4, <1>5

\* The same of the consumer's adapter.
LEMMA SameConsumerAdapter ==
    /\ Consumer!Mqtt!RetryConnects <=> ConsumerP!Mqtt!RetryConnects
    /\ Consumer!Mqtt!RetryFails <=> ConsumerP!Mqtt!RetryFails
    /\ Consumer!Mqtt!RetrySleepOver <=> ConsumerP!Mqtt!RetrySleepOver
    /\ Consumer!Mqtt!RetryCancelled <=> ConsumerP!Mqtt!RetryCancelled
    /\ Consumer!Mqtt!SubscribeSucceeds <=> ConsumerP!Mqtt!SubscribeSucceeds
    /\ Consumer!Mqtt!SubscribeFails <=> ConsumerP!Mqtt!SubscribeFails
    /\ Consumer!Mqtt!MessagesEnd <=> ConsumerP!Mqtt!MessagesEnd
    /\ Consumer!Mqtt!DisconnectReturns <=> ConsumerP!Mqtt!DisconnectReturns
    /\ Consumer!Mqtt!DisconnectRaises <=> ConsumerP!Mqtt!DisconnectRaises
    /\ Publisher!Mqtt!LinkLost <=> ConsumerP!Mqtt!LinkLost
<1> USE DEF Consumer!Mqtt!None, ConsumerP!Mqtt!None,
        Consumer!Mqtt!connection, ConsumerP!Mqtt!connection,
        Consumer!Mqtt!retry, ConsumerP!Mqtt!retry,
        Consumer!Mqtt!vars, ConsumerP!Mqtt!vars,
        Consumer!Mqtt!AlreadyConnected, ConsumerP!Mqtt!AlreadyConnected,
        Consumer!Mqtt!NoCallInProgress, ConsumerP!Mqtt!NoCallInProgress
<1>1. /\ Consumer!Mqtt!RetryConnects <=> ConsumerP!Mqtt!RetryConnects
      /\ Consumer!Mqtt!RetryFails <=> ConsumerP!Mqtt!RetryFails
  BY DEF Consumer!Mqtt!RetryConnects, ConsumerP!Mqtt!RetryConnects,
         Consumer!Mqtt!ConnectReturns, ConsumerP!Mqtt!ConnectReturns,
         Consumer!Mqtt!OpenSession, ConsumerP!Mqtt!OpenSession,
         Consumer!Mqtt!RetryFails, ConsumerP!Mqtt!RetryFails,
         Consumer!Mqtt!ConnectRaises, ConsumerP!Mqtt!ConnectRaises,
         Consumer!Mqtt!LastAttempt, ConsumerP!Mqtt!LastAttempt
<1>2. /\ Consumer!Mqtt!RetrySleepOver <=> ConsumerP!Mqtt!RetrySleepOver
      /\ Consumer!Mqtt!RetryCancelled <=> ConsumerP!Mqtt!RetryCancelled
  BY DEF Consumer!Mqtt!RetrySleepOver, ConsumerP!Mqtt!RetrySleepOver,
         Consumer!Mqtt!Doubled, ConsumerP!Mqtt!Doubled,
         Consumer!Mqtt!RetryCancelled, ConsumerP!Mqtt!RetryCancelled
<1>3. /\ Consumer!Mqtt!SubscribeSucceeds <=> ConsumerP!Mqtt!SubscribeSucceeds
      /\ Consumer!Mqtt!SubscribeFails <=> ConsumerP!Mqtt!SubscribeFails
      /\ Consumer!Mqtt!MessagesEnd <=> ConsumerP!Mqtt!MessagesEnd
  BY DEF Consumer!Mqtt!SubscribeSucceeds, ConsumerP!Mqtt!SubscribeSucceeds,
         Consumer!Mqtt!OperationSucceeds, ConsumerP!Mqtt!OperationSucceeds,
         Consumer!Mqtt!SubscribeFails, ConsumerP!Mqtt!SubscribeFails,
         Consumer!Mqtt!MessagesEnd, ConsumerP!Mqtt!MessagesEnd
<1>4. /\ Consumer!Mqtt!DisconnectReturns <=> ConsumerP!Mqtt!DisconnectReturns
      /\ Consumer!Mqtt!DisconnectRaises <=> ConsumerP!Mqtt!DisconnectRaises
  BY DEF Consumer!Mqtt!DisconnectReturns, ConsumerP!Mqtt!DisconnectReturns,
         Consumer!Mqtt!DisconnectRaises, ConsumerP!Mqtt!DisconnectRaises,
         Consumer!Mqtt!CloseSession, ConsumerP!Mqtt!CloseSession,
         Consumer!Mqtt!HasSessionToClose, ConsumerP!Mqtt!HasSessionToClose
<1>5. Publisher!Mqtt!LinkLost <=> ConsumerP!Mqtt!LinkLost
  BY DEF Publisher!Mqtt!LinkLost, ConsumerP!Mqtt!LinkLost, Publisher!Mqtt!retry
<1>6. QED
  BY <1>1, <1>2, <1>3, <1>4, <1>5

\* Every step of the use case in a process that consumes is a step of
\* SensorConsumerProofs; the stop and the loss of the link are those of
\* either use case.
LEMMA SameConsumer ==
    /\ Consumer!MainStep => ConsumerP!MainStep
    /\ Consumer!ConsumeStep => ConsumerP!ConsumeStep
    /\ Consumer!StopWaitStep => ConsumerP!StopWaitStep
    /\ Consumer!Arrive => ConsumerP!Arrive
    /\ Consumer!CancelConnecting => ConsumerP!CancelConnecting
    /\ Consumer!CancelSubscribing => ConsumerP!CancelSubscribing
    /\ Consumer!CancelWaiting => ConsumerP!CancelWaiting
    /\ Consumer!CancelDisconnecting => ConsumerP!CancelDisconnecting
    /\ Publisher!Stop /\ UNCHANGED consumer => ConsumerP!Stop
    /\ Publisher!LinkLost /\ UNCHANGED consumer => ConsumerP!LinkLost
<1> USE SameConsumerAdapter
    DEF Consumer!mqtt, ConsumerP!mqtt, Consumer!tasks, ConsumerP!tasks,
        Consumer!inbox, ConsumerP!inbox, Consumer!Deliver, ConsumerP!Deliver,
        Consumer!Subscribing, ConsumerP!Subscribing,
        Consumer!SubscribedChannel, ConsumerP!SubscribedChannel,
        Consumer!IsDone, ConsumerP!IsDone, Consumer!CancelTasks, ConsumerP!CancelTasks
<1>1. /\ Consumer!Connected => ConsumerP!Connected
      /\ Consumer!ConnectAttemptFails => ConsumerP!ConnectAttemptFails
      /\ Consumer!ConnectSleepOver => ConsumerP!ConnectSleepOver
      /\ Consumer!CancelConnecting => ConsumerP!CancelConnecting
  BY DEF Consumer!Connected, ConsumerP!Connected,
         Consumer!ConnectAttemptFails, ConsumerP!ConnectAttemptFails,
         Consumer!ConnectSleepOver, ConsumerP!ConnectSleepOver,
         Consumer!CancelConnecting, ConsumerP!CancelConnecting
<1>2. /\ Consumer!SubscribeTelemetry => ConsumerP!SubscribeTelemetry
      /\ Consumer!SubscribeAlert => ConsumerP!SubscribeAlert
      /\ Consumer!SubscribeFails => ConsumerP!SubscribeFails
      /\ Consumer!CancelSubscribing => ConsumerP!CancelSubscribing
  BY DEF Consumer!SubscribeTelemetry, ConsumerP!SubscribeTelemetry,
         Consumer!SubscribeAlert, ConsumerP!SubscribeAlert,
         Consumer!SubscribeFails, ConsumerP!SubscribeFails,
         Consumer!CancelSubscribing, ConsumerP!CancelSubscribing
<1>3. /\ Consumer!WaitReturns => ConsumerP!WaitReturns
      /\ Consumer!GatherReturns => ConsumerP!GatherReturns
      /\ Consumer!Disconnect => ConsumerP!Disconnect
      /\ Consumer!CancelWaiting => ConsumerP!CancelWaiting
      /\ Consumer!CancelDisconnecting => ConsumerP!CancelDisconnecting
  BY DEF Consumer!WaitReturns, ConsumerP!WaitReturns,
         Consumer!FirstCompleted, ConsumerP!FirstCompleted,
         Consumer!GatherReturns, ConsumerP!GatherReturns,
         Consumer!AllGathered, ConsumerP!AllGathered,
         Consumer!Disconnect, ConsumerP!Disconnect,
         Consumer!CancelWaiting, ConsumerP!CancelWaiting,
         Consumer!CancelDisconnecting, ConsumerP!CancelDisconnecting
<1>4. Consumer!MainStep => ConsumerP!MainStep
  BY <1>1, <1>2, <1>3 DEF Consumer!MainStep, ConsumerP!MainStep
<1>5. Consumer!ConsumeStep => ConsumerP!ConsumeStep
  BY DEF Consumer!ConsumeStep, ConsumerP!ConsumeStep, Consumer!Handle, ConsumerP!Handle,
         Consumer!HasMessage, ConsumerP!HasMessage, Consumer!Counted, ConsumerP!Counted,
         Consumer!IsAlert, ConsumerP!IsAlert,
         Consumer!ConsumeFails, ConsumerP!ConsumeFails,
         Consumer!ConsumeCancelled, ConsumerP!ConsumeCancelled
<1>6. Consumer!StopWaitStep => ConsumerP!StopWaitStep
  BY DEF Consumer!StopWaitStep, ConsumerP!StopWaitStep,
         Consumer!StopWaitFinishes, ConsumerP!StopWaitFinishes,
         Consumer!StopWaitCancelled, ConsumerP!StopWaitCancelled
<1>7. Consumer!Arrive => ConsumerP!Arrive
  BY DEF Consumer!Arrive, ConsumerP!Arrive, Consumer!Messages, ConsumerP!Messages,
         Consumer!Channels, ConsumerP!Channels
<1>8. /\ Publisher!Stop /\ UNCHANGED consumer => ConsumerP!Stop
      /\ Publisher!LinkLost /\ UNCHANGED consumer => ConsumerP!LinkLost
  BY DEF Publisher!Stop, Publisher!LinkLost, ConsumerP!Stop, ConsumerP!LinkLost,
         Publisher!mqtt, consumer
<1>9. QED
  BY <1>1, <1>2, <1>3, <1>4, <1>5, <1>6, <1>7, <1>8

\* Nothing changes what process this is, and whether it can handle signals.
LEMMA FixedFromTheStart == [Next]_vars => command' = command /\ handlers' = handlers
BY DEF Next, MainStep, Build, WaiterStep, WaiterLeft, HealthStarts, PublisherStep,
       ConsumerMainStep, HealthStopReturns, ConsumerTaskStep, Stop, InterruptWait,
       InterruptPublisher, InterruptConsumer, InterruptHealth, LinkLost, Arrive, Accept,
       SendLine, Serve, Running, Afterwards, Terminated, vars

\* What the command line itself does leaves the use case alone.
LEMMA UseCaseLeftAlone ==
    ASSUME \/ Build \/ WaiterStep \/ WaiterLeft \/ HealthStarts \/ HealthStopReturns
           \/ InterruptWait \/ InterruptHealth
           \/ (\E c \in Conns : Accept(c) \/ SendLine(c) \/ Serve(c)) \/ UNCHANGED vars
    PROVE  UNCHANGED run
BY DEF Build, WaiterStep, WaiterLeft, HealthStarts, HealthStopReturns, InterruptWait,
       InterruptHealth, Accept, SendLine, Serve, vars, run

\* A process that publishes does what SensorPublisherProofs speaks of.
LEMMA PublisherProcess ==
    command # "consumer" /\ [Next]_vars => [PublisherP!Next]_(PublisherP!vars)
<1> SUFFICES ASSUME command # "consumer", [Next]_vars
             PROVE  PublisherP!Next \/ UNCHANGED <<adapter, pc, stop, ending, publisher>>
  BY DEF PublisherP!vars, adapter, publisher
<1>1. CASE PublisherStep \/ InterruptPublisher \/ Stop \/ LinkLost
  BY <1>1, SamePublisher DEF PublisherStep, InterruptPublisher, Running, Stop, LinkLost,
                             PublisherP!Next
<1>2. CASE ConsumerMainStep \/ ConsumerTaskStep \/ InterruptConsumer
  BY <1>2 DEF ConsumerMainStep, ConsumerTaskStep, InterruptConsumer, Running
<1>3. CASE Arrive
  BY <1>3 DEF Arrive, Consumer!Arrive, Consumer!mqtt, adapter
<1>4. CASE UNCHANGED run
  BY <1>4 DEF run
<1>5. QED
  BY <1>1, <1>2, <1>3, <1>4, UseCaseLeftAlone DEF Next, MainStep, Terminated

\* A process that consumes does what SensorConsumerProofs speaks of.
LEMMA ConsumerProcess ==
    command = "consumer" /\ [Next]_vars => [ConsumerP!Next]_(ConsumerP!vars)
<1> SUFFICES ASSUME command = "consumer", [Next]_vars
             PROVE  ConsumerP!Next \/ UNCHANGED <<adapter, pc, stop, ending, consumer>>
  BY DEF ConsumerP!vars, adapter, consumer
<1>1. CASE ConsumerMainStep \/ ConsumerTaskStep \/ InterruptConsumer \/ Arrive
  BY <1>1, SameConsumer DEF ConsumerMainStep, ConsumerTaskStep, InterruptConsumer, Running,
                            Arrive, ConsumerP!Next
<1>2. CASE Stop \/ LinkLost
  BY <1>2, SameConsumer DEF Stop, LinkLost, ConsumerP!Next
<1>3. CASE PublisherStep \/ InterruptPublisher
  BY <1>3 DEF PublisherStep, InterruptPublisher, Running
<1>4. CASE UNCHANGED run
  BY <1>4 DEF run
<1>5. QED
  BY <1>1, <1>2, <1>3, <1>4, UseCaseLeftAlone DEF Next, MainStep, Terminated

\* The processes iot-publisher and iot-demo-publisher run the use case of
\* SensorPublisher, whatever the waiter, the health server and the signal
\* handlers around it do.
THEOREM RunsThePublisher == Spec /\ command # "consumer" => PublisherP!Spec
<1>1. Init => PublisherP!Init
  BY DEF Init, Publisher!Init, PublisherP!Init, Publisher!None, PublisherP!None
<1>2. command # "consumer" /\ [Next]_vars => (command # "consumer")'
  BY FixedFromTheStart
<1>3. QED
  BY <1>1, <1>2, PublisherProcess, PTL DEF Spec, PublisherP!Spec

\* The process iot-consumer runs the use case of SensorConsumer.
THEOREM RunsTheConsumer == Spec /\ command = "consumer" => ConsumerP!Spec
<1>1. Init => ConsumerP!Init
  BY DEF Init, Consumer!Init, ConsumerP!Init, Consumer!None, ConsumerP!None
<1>2. command = "consumer" /\ [Next]_vars => (command = "consumer")'
  BY FixedFromTheStart
<1>3. QED
  BY <1>1, <1>2, ConsumerProcess, PTL DEF Spec, ConsumerP!Spec

\* So what is proved of the use cases holds in the processes.
UseCase ==
    /\ command # "consumer" => PublisherP!IInv
    /\ command = "consumer" => ConsumerP!IInv

\* Whichever use case the process runs, its inductive invariant holds.
LEMMA UseCaseInvariant == Spec => []UseCase
<1>1. Spec /\ command # "consumer" => []PublisherP!IInv
  BY PartsAssumption, RunsThePublisher, PublisherP!Inductive, PTL
<1>2. Spec /\ command = "consumer" => []ConsumerP!IInv
  BY PartsAssumption, RunsTheConsumer, ConsumerP!Inductive, PTL
<1>3. /\ command = "consumer" /\ [Next]_vars => (command = "consumer")'
      /\ command # "consumer" /\ [Next]_vars => (command # "consumer")'
  BY FixedFromTheStart
<1>4. /\ command # "consumer" \/ command = "consumer"
      /\ command # "consumer" /\ PublisherP!IInv => UseCase
      /\ command = "consumer" /\ ConsumerP!IInv => UseCase
  BY DEF UseCase
<1>5. QED
  BY <1>1, <1>2, <1>3, <1>4, PTL DEF Spec

-----------------------------------------------------------------------------
(* The command line around the use case                                     *)

\* How far run_forever can be at each stage.
Staging ==
    /\ command \in {"publisher", "consumer", "demo"} /\ handlers \in BOOLEAN
    /\ stage \in {"building", "waiting", "starting", "running", "stopping", "over"}
    /\ exit \in {"none", "ok", "reported", "interrupted", "traceback"}
    /\ exit = "none" <=> stage # "over"
    /\ stage \in {"building", "waiting", "starting"} => pc = "connect"
    /\ stage = "starting" => command = "demo"
    /\ stage = "running" => pc # "done"
    /\ stage = "stopping" => command = "demo" /\ pc = "done"

\* Until its context is left the waiter is in one of its own states, and
\* nobody passes it without a yes.
Asking ==
    /\ Waiter!TypeOK
    /\ stage \in {"building", "waiting"} => WaiterP!IInv
    /\ waiting = "done" /\ result # "none" => http = "none"
    /\ ReadyBeforeConnecting

\* The health server is there for a stage, and connections for a server.
Serving ==
    /\ Health!TypeOK
    /\ ListensWhilePublishing
    /\ server = "closing" <=> stage = "stopping"
    /\ server = "none" => \A c \in Conns : conn[c] = "none"

\* A process publishes or consumes, and does not touch what is of the other.
Separate ==
    /\ command = "consumer" => accepted = <<>>
    /\ command # "consumer" => handled = 0

\* The exit code is that of the ending, unless a Ctrl+C took its place; and a
\* process that ends ahead of its run never tells of success.
Leaving ==
    /\ handlers => ending \notin {"cancelled", "cancelled_connecting"}
    /\ stage = "over" /\ pc = "done" =>
        exit = ExitCode(ending) \/ (exit = "interrupted" /\ ~handlers)
    /\ stage = "over" /\ pc # "done" =>
        /\ pc = "connect"
        /\ exit # "ok"
        /\ exit = "reported" => result = "timeout"
        /\ exit = "interrupted" => result # "ready" \/ ~handlers

\* The inductive invariant, which takes that of the use case for granted.
IInv ==
    /\ Staging
    /\ Asking
    /\ Serving
    /\ Separate
    /\ Leaving

\* The initial state satisfies the inductive invariant.
LEMMA InitIInv == Init => IInv
<1> SUFFICES ASSUME Init PROVE IInv
  OBVIOUS
<1> USE PartsAssumption DEF Init, Publisher!Init, Consumer!Init, Waiter!Init, Health!Init
<1>1. Staging /\ Separate /\ Leaving
  BY DEF Staging, Separate, Leaving
<1>2. WaiterP!Init
  BY DEF WaiterP!Init
<1>3. WaiterP!IInv
  BY <1>2, WaiterP!InitIInv
<1>4. Asking
  BY <1>3 DEF Asking, ReadyBeforeConnecting, Waiter!TypeOK, Waiter!Answers
<1>5. Serving
  BY DEF Serving, ListensWhilePublishing, Health!TypeOK
<1>6. QED
  BY <1>1, <1>4, <1>5 DEF IInv

\* What has not connected has opened, accepted and handled nothing.
LEMMA NothingYet ==
    UseCase /\ pc = "connect" =>
        /\ created = 0 /\ live = {} /\ ending = "running"
        /\ command # "consumer" => accepted = <<>>
        /\ command = "consumer" => handled = 0
BY DEF UseCase, PublisherP!IInv, PublisherP!Holding, PublisherP!Leaving, ConsumerP!IInv,
       ConsumerP!Holding, ConsumerP!Leaving

\* The ways out of run_forever.
LEMMA Ended ==
    UseCase /\ pc = "done" =>
        ending \in {"returned", "connect_error", "cancelled", "cancelled_connecting",
                    "disconnect_error"}
BY DEF UseCase, PublisherP!IInv, PublisherP!TypeOK, PublisherP!Endings,
       PublisherP!Leaving, ConsumerP!IInv, ConsumerP!TypeOK, ConsumerP!Endings,
       ConsumerP!Leaving

\* Each has an exit code, and each code but that of an interruption belongs to
\* one of them.
LEMMA EveryEndingHasItsCode ==
    ASSUME UseCase, pc = "done"
    PROVE  /\ ExitCode(ending) \in {"ok", "reported", "interrupted", "traceback"}
           /\ ExitCode(ending) = "ok" => ending = "returned"
           /\ ExitCode(ending) = "reported" => ending = "connect_error"
           /\ ExitCode(ending) = "traceback" => ending = "disconnect_error"
           /\ ExitCode(ending) = "interrupted" =>
                    ending \in {"cancelled", "cancelled_connecting"}
BY Ended DEF ExitCode

\* What one step of the use case does to the command around it.
LEMMA RunStep ==
    ASSUME \/ PublisherStep \/ ConsumerMainStep \/ ConsumerTaskStep
           \/ InterruptPublisher \/ InterruptConsumer
    PROVE  stage = "running" /\ Afterwards
BY DEF PublisherStep, ConsumerMainStep, ConsumerTaskStep, InterruptPublisher,
       InterruptConsumer, Running

\* The loss of the link presupposes a session, and the stop a run.
LEMMA OutsideStep ==
    ASSUME UseCase, Staging, LinkLost \/ Stop \/ Arrive
    PROVE  /\ pc' = pc /\ ending' = ending /\ created' = created
           /\ UNCHANGED <<waiter, health, command, handlers, stage, exit>>
BY DEF LinkLost, Publisher!LinkLost, Publisher!Mqtt!LinkLost, Stop, Publisher!Stop,
       Publisher!mqtt, Arrive, Consumer!Arrive, Consumer!mqtt

\* The stages follow one another, and run_forever its stage.
LEMMA StagingStep == IInv /\ UseCase /\ UseCase' /\ [Next]_vars => Staging'
<1> SUFFICES ASSUME IInv, UseCase, UseCase', [Next]_vars PROVE Staging'
  OBVIOUS
<1> USE DEF Staging, Exit
<1>1. Staging
  BY DEF IInv
<1>2. command' = command /\ handlers' = handlers
  BY FixedFromTheStart
<1>3. CASE Build \/ WaiterStep \/ WaiterLeft
  BY <1>1, <1>2, <1>3 DEF Build, WaiterStep, WaiterLeft, AfterWait, run
<1>4. CASE HealthStarts
  BY <1>1, <1>2, <1>4 DEF HealthStarts, run
<1>5. CASE \/ PublisherStep \/ ConsumerMainStep \/ ConsumerTaskStep
           \/ InterruptPublisher \/ InterruptConsumer
  <2>1. stage = "running" /\ Afterwards
    BY <1>5, RunStep
  <2>2. CASE pc' # "done"
    BY <1>1, <1>2, <2>1, <2>2 DEF Afterwards
  <2>3. CASE pc' = "done" /\ command = "demo"
    BY <1>1, <1>2, <2>1, <2>3 DEF Afterwards, StopHealth
  <2>4. CASE pc' = "done" /\ command # "demo"
    <3>1. (UseCase /\ pc = "done" =>
            ending \in {"returned", "connect_error", "cancelled", "cancelled_connecting",
                        "disconnect_error"})'
      BY Ended, PTL
    <3>2. ExitCode(ending') \in {"ok", "reported", "interrupted", "traceback"}
      BY <2>4, <3>1 DEF ExitCode
    <3>3. QED
      BY <1>1, <1>2, <2>1, <2>4, <3>2 DEF Afterwards
  <2>5. QED
    BY <2>2, <2>3, <2>4
<1>6. CASE HealthStopReturns
  BY <1>1, <1>2, <1>6, EveryEndingHasItsCode DEF HealthStopReturns, run
<1>7. CASE InterruptWait \/ InterruptHealth
  BY <1>1, <1>2, <1>7 DEF InterruptWait, InterruptHealth, run
<1>8. CASE LinkLost \/ Stop \/ Arrive
  BY <1>1, <1>2, <1>8, OutsideStep
<1>9. CASE (\E c \in Conns : Accept(c) \/ SendLine(c) \/ Serve(c)) \/ UNCHANGED vars
  BY <1>1, <1>2, <1>9 DEF Accept, SendLine, Serve, run, vars
<1>10. QED
  BY <1>3, <1>4, <1>5, <1>6, <1>7, <1>8, <1>9 DEF Next, MainStep, Terminated

\* What the command does with its waiter is what WakeUpWaiterProofs speaks of.
LEMMA SameWaiter ==
    /\ Waiter!Step => WaiterP!Step
    /\ Waiter!Cancel => WaiterP!Cancel
    /\ WaiterP!TypeOK <=> Waiter!TypeOK
<1> USE DEF Waiter!Return, WaiterP!Return
<1>1. /\ Waiter!Disabled => WaiterP!Disabled
      /\ Waiter!Enabled => WaiterP!Enabled
      /\ Waiter!Request => WaiterP!Request
      /\ Waiter!GiveUp => WaiterP!GiveUp
  BY DEF Waiter!Disabled, WaiterP!Disabled, Waiter!Enabled, WaiterP!Enabled,
         Waiter!Request, WaiterP!Request, Waiter!GiveUp, WaiterP!GiveUp,
         Waiter!BeforeDeadline, WaiterP!BeforeDeadline
<1>2. /\ Waiter!RequestAnswersReady => WaiterP!RequestAnswersReady
      /\ Waiter!RequestIsNotReady => WaiterP!RequestIsNotReady
  BY DEF Waiter!RequestAnswersReady, WaiterP!RequestAnswersReady,
         Waiter!RequestIsNotReady, WaiterP!RequestIsNotReady,
         Waiter!IsReady, WaiterP!IsReady, Waiter!SleepTime, WaiterP!SleepTime
<1>3. /\ Waiter!Wake => WaiterP!Wake
      /\ Waiter!Leave => WaiterP!Leave
      /\ Waiter!Cancel => WaiterP!Cancel
  BY DEF Waiter!Wake, WaiterP!Wake, Waiter!Leave, WaiterP!Leave,
         Waiter!Cancel, WaiterP!Cancel, Waiter!Interrupt, WaiterP!Interrupt,
         Waiter!InterruptLeaving, WaiterP!InterruptLeaving
<1>4. WaiterP!TypeOK <=> Waiter!TypeOK
  BY DEF WaiterP!TypeOK, Waiter!TypeOK, WaiterP!Answers, Waiter!Answers
<1>5. QED
  BY <1>1, <1>2, <1>3, <1>4 DEF Waiter!Step, WaiterP!Step

\* Nothing but the waiter's own steps closes its HTTP client, and each of its
\* exits that still has a result does.
LEMMA AskingStep == IInv /\ UseCase /\ [Next]_vars => Asking'
<1> SUFFICES ASSUME IInv, UseCase, [Next]_vars PROVE Asking'
  OBVIOUS
<1> USE DEF Asking, ReadyBeforeConnecting
<1>1. Asking /\ Staging
  BY DEF IInv
<1>2. stage \in {"building", "waiting", "starting"} => created = 0
  BY <1>1, NothingYet DEF Staging
<1>3. UNCHANGED waiter => /\ Waiter!TypeOK'
                          /\ WaiterP!IInv => WaiterP!IInv'
                          /\ waiting' = "done" /\ result' # "none" => http' = "none"
                          /\ result' = result /\ http' = http
  BY <1>1 DEF waiter, Waiter!TypeOK, WaiterP!IInv, WaiterP!TypeOK, WaiterP!Timing,
      WaiterP!Asked, WaiterP!OverrunIsBounded, WaiterP!ResultIsEarned
<1>4. CASE Build
  BY <1>1, <1>2, <1>3, <1>4 DEF Build, Exit, run, adapter
<1>5. CASE WaiterStep \/ InterruptWait
  <2>1. WaiterP!Next /\ stage = "waiting" /\ stage' = stage /\ created' = created
    BY <1>5, SameWaiter DEF WaiterStep, InterruptWait, WaiterP!Next, run, adapter
  <2>2. WaiterP!IInv'
    BY PartsAssumption, <1>1, <2>1, WaiterP!StepIInv
  <2>3. Waiter!TypeOK'
    <3>1. WaiterP!TypeOK'
      BY <2>2 DEF WaiterP!IInv
    <3>2. QED
      BY <3>1 DEF WaiterP!TypeOK, Waiter!TypeOK, WaiterP!Answers, Waiter!Answers
  <2>4. waiting' = "done" /\ result' # "none" => http' = "none"
    BY <1>5 DEF WaiterStep, InterruptWait, Waiter!Step, Waiter!Disabled, Waiter!Enabled,
        Waiter!Request, Waiter!GiveUp, Waiter!RequestAnswersReady, Waiter!RequestIsNotReady,
        Waiter!Wake, Waiter!Leave, Waiter!Cancel, Waiter!Interrupt,
        Waiter!InterruptLeaving, Waiter!Return
  <2>5. QED
    BY <1>2, <2>1, <2>2, <2>3, <2>4
<1>6. CASE WaiterLeft
  BY <1>1, <1>2, <1>6 DEF WaiterLeft, AfterWait, Exit, Waiter!TypeOK, Waiter!Answers, run, adapter
<1>7. CASE HealthStarts \/ HealthStopReturns \/ InterruptHealth
  BY <1>1, <1>2, <1>3, <1>7 DEF HealthStarts, HealthStopReturns, InterruptHealth, Exit, run, adapter
<1>8. CASE \/ PublisherStep \/ ConsumerMainStep \/ ConsumerTaskStep
           \/ InterruptPublisher \/ InterruptConsumer
  BY <1>1, <1>3, <1>8, RunStep DEF Afterwards, StopHealth, Exit
<1>9. CASE LinkLost \/ Stop \/ Arrive
  BY <1>1, <1>3, <1>9, OutsideStep
<1>10. CASE (\E c \in Conns : Accept(c) \/ SendLine(c) \/ Serve(c)) \/ UNCHANGED vars
  BY <1>1, <1>3, <1>10 DEF Accept, SendLine, Serve, vars, run, adapter
<1>11. QED
  BY <1>4, <1>5, <1>6, <1>7, <1>8, <1>9, <1>10 DEF Next, MainStep, Terminated

\* A connection is only ever accepted by a server that listens, and the
\* server is not gone before the connections are.
LEMMA ServingStep == IInv /\ UseCase /\ [Next]_vars => Serving'
<1> SUFFICES ASSUME IInv, UseCase, [Next]_vars PROVE Serving'
  OBVIOUS
<1> USE DEF Serving, ListensWhilePublishing
<1>1. Serving /\ Staging
  BY DEF IInv
<1>2. UNCHANGED health => /\ Health!TypeOK' /\ server' = server
                          /\ server = "none" => \A c \in Conns : conn'[c] = "none"
  BY <1>1 DEF health, Health!TypeOK
<1>3. command' = command
  BY FixedFromTheStart
<1>4. CASE Build \/ WaiterStep \/ WaiterLeft \/ InterruptWait
  BY <1>1, <1>2, <1>4 DEF Build, WaiterStep, WaiterLeft, AfterWait, InterruptWait, Exit, Staging
<1>5. CASE HealthStarts
  BY <1>1, <1>3, <1>5 DEF HealthStarts, Exit, Health!Start, Health!StartFails, Health!vars,
      Health!TypeOK, Staging, run
<1>6. CASE \/ PublisherStep \/ ConsumerMainStep \/ ConsumerTaskStep
           \/ InterruptPublisher \/ InterruptConsumer
  <2>1. stage = "running" /\ pc # "done" /\ Afterwards
    BY <1>1, <1>6, RunStep DEF Staging
  <2>2. CASE pc' = "done" /\ command = "demo" /\ StopHealth
    BY <1>1, <1>3, <2>2 DEF StopHealth, Health!Close, Health!TypeOK
  <2>3. CASE (pc' # "done" /\ UNCHANGED <<health, stage>>) \/ (command # "demo" /\ UNCHANGED health)
    BY <1>1, <1>2, <1>3, <2>1, <2>3 DEF Afterwards, Exit, StopHealth
  <2>4. QED
    BY <2>1, <2>2, <2>3 DEF Afterwards
<1>7. CASE HealthStopReturns
  BY <1>1, <1>7 DEF HealthStopReturns, Exit, Health!StopReturns, Health!AllEnded, Health!TypeOK
<1>8. CASE InterruptHealth
  BY <1>1, <1>8 DEF InterruptHealth, Exit, Health!TypeOK
<1>9. CASE LinkLost \/ Stop \/ Arrive
  BY <1>1, <1>2, <1>9, OutsideStep
<1>10. ASSUME NEW c \in Conns, Accept(c) \/ SendLine(c) \/ Serve(c)
       PROVE  Serving'
  <2> USE DEF Health!Goto, Health!Answers, Health!Reads, Health!TypeOK
  <2>1. CASE Accept(c)
    <3>1. server = "listening" /\ Health!TypeOK'
      BY <1>1, <2>1 DEF Accept, Health!Accept, Health!Accepting
    <3>2. UNCHANGED <<command, stage, pc, server>>
      BY <2>1 DEF Accept, run, Health!Accept
    <3>3. QED
      BY <1>1, <3>1, <3>2
  <2>2. CASE Serve(c)
    <3>1. conn[c] # "none" /\ UNCHANGED <<command, stage, pc, server>>
      BY <2>2 DEF Serve, run, Health!Serve, Health!ReadLine, Health!Respond, Health!Drained,
          Health!ReadFails, Health!Closed
    <3>2. Health!ReadLine(c) \/ Health!Respond(c) => Health!TypeOK'
      BY <1>1 DEF Health!ReadLine, Health!Respond, Health!TakeLine
    <3>3. Health!Drained(c) \/ Health!ReadFails(c) => Health!TypeOK'
      BY <1>1 DEF Health!Drained, Health!ReadFails
    <3>4. Health!Closed(c) => Health!TypeOK'
      BY <1>1 DEF Health!Closed
    <3>5. Health!TypeOK'
      BY <2>2, <3>2, <3>3, <3>4 DEF Serve, Health!Serve
    <3>6. server # "none"
      BY <1>1, <3>1
    <3> HIDE DEF Health!TypeOK
    <3>7. QED
      BY <1>1, <3>1, <3>5, <3>6
  <2>3. CASE SendLine(c)
    <3>1. Health!TypeOK' /\ UNCHANGED <<command, stage, pc, server, conn>>
      BY <1>1, <2>3 DEF SendLine, run, Health!SendLine
    <3> HIDE DEF Health!TypeOK
    <3>2. QED
      BY <1>1, <3>1
  <2>4. QED
    BY <1>10, <2>1, <2>2, <2>3
<1>11. CASE UNCHANGED vars
  BY <1>1, <1>2, <1>11 DEF vars, run
<1>12. QED
  BY <1>4, <1>5, <1>6, <1>7, <1>8, <1>9, <1>10, <1>11 DEF Next, MainStep, Terminated

\* A publishing process runs nothing of a consumer, a consuming one nothing
\* of a publisher.
LEMMA SeparateStep == IInv /\ UseCase /\ UseCase' /\ [Next]_vars => Separate'
<1> SUFFICES ASSUME IInv, [Next]_vars PROVE Separate'
  OBVIOUS
<1> USE DEF Separate
<1>1. Separate
  BY DEF IInv
<1>2. command' = command
  BY FixedFromTheStart
<1>3. CASE PublisherStep \/ InterruptPublisher
  BY <1>1, <1>2, <1>3 DEF PublisherStep, InterruptPublisher, Running, consumer
<1>4. CASE ConsumerMainStep \/ ConsumerTaskStep \/ InterruptConsumer
  BY <1>1, <1>2, <1>4 DEF ConsumerMainStep, ConsumerTaskStep, InterruptConsumer, Running,
      publisher
<1>5. CASE LinkLost \/ Stop \/ Arrive
  BY <1>1, <1>2, <1>5 DEF LinkLost, Publisher!LinkLost, Stop, Publisher!Stop, Arrive,
      Consumer!Arrive, publisher, consumer
<1>6. CASE UNCHANGED run
  BY <1>1, <1>2, <1>6 DEF run, publisher, consumer
<1>7. QED
  BY <1>3, <1>4, <1>5, <1>6, UseCaseLeftAlone DEF Next, MainStep, Terminated

\* A run that is not torn down does not end in a cancellation.
LEMMA NotCancelled ==
    ASSUME PublisherStep \/ ConsumerMainStep \/ ConsumerTaskStep
    PROVE  ending' \in {ending, "returned", "connect_error", "disconnect_error"}
<1>1. CASE PublisherStep
  BY <1>1 DEF PublisherStep, Running, Publisher!Step, Publisher!Connected,
      Publisher!LoopTest, Publisher!ConnectAttemptFails, Publisher!ConnectSleepOver,
      Publisher!Fetch, Publisher!FetchFails, Publisher!PublishReturns,
      Publisher!PublishRaises, Publisher!Wake, Publisher!Disconnect
<1>2. CASE ConsumerMainStep
  BY <1>2 DEF ConsumerMainStep, Running, Consumer!MainStep, Consumer!Connected,
      Consumer!ConnectAttemptFails, Consumer!ConnectSleepOver, Consumer!SubscribeTelemetry,
      Consumer!SubscribeAlert, Consumer!SubscribeFails, Consumer!WaitReturns,
      Consumer!GatherReturns, Consumer!Disconnect
<1>3. CASE ConsumerTaskStep
  BY <1>3 DEF ConsumerTaskStep, Running, Consumer!ConsumeStep, Consumer!StopWaitStep,
      Consumer!Handle, Consumer!ConsumeFails, Consumer!ConsumeCancelled,
      Consumer!StopWaitFinishes, Consumer!StopWaitCancelled
<1>4. QED
  BY <1>1, <1>2, <1>3

\* Each way to stage "over" sets the exit code that Leaving allows it.
LEMMA LeavingStep == IInv /\ UseCase /\ [Next]_vars => Leaving'
<1> SUFFICES ASSUME IInv, UseCase, [Next]_vars PROVE Leaving'
  OBVIOUS
<1> USE DEF Leaving, Exit
<1>1. Leaving /\ Staging /\ ReadyBeforeConnecting
  BY DEF IInv, Asking
<1>2. handlers' = handlers /\ command' = command
  BY FixedFromTheStart
<1>3. CASE Build \/ WaiterStep
  BY <1>1, <1>3 DEF Build, WaiterStep, Staging, run
<1>4. CASE WaiterLeft
  BY <1>1, <1>4 DEF WaiterLeft, AfterWait, Staging, run
<1>5. CASE HealthStarts
  BY <1>1, <1>5 DEF HealthStarts, Staging, run
<1>6. CASE HealthStopReturns
  BY <1>1, <1>6 DEF HealthStopReturns, Staging, run
<1>7. CASE InterruptWait
  BY <1>1, <1>7 DEF InterruptWait, Staging, run
<1>8. CASE InterruptHealth
  BY <1>1, <1>8 DEF InterruptHealth, Staging, run
<1>9. CASE PublisherStep \/ ConsumerMainStep \/ ConsumerTaskStep
  <2>1. stage = "running" /\ Afterwards
    BY <1>9, RunStep
  <2>2. handlers => ending' \notin {"cancelled", "cancelled_connecting"}
    BY <1>1, <1>9, NotCancelled
  <2>3. CASE pc' # "done" \/ command = "demo"
    <3>1. stage' # "over"
      BY <2>1, <2>3 DEF Afterwards, StopHealth
    <3>2. QED
      BY <1>2, <2>2, <3>1
  <2>4. CASE pc' = "done" /\ command # "demo"
    <3>1. exit' = ExitCode(ending')
      BY <2>1, <2>4 DEF Afterwards
    <3>2. QED
      BY <1>2, <2>2, <2>4, <3>1
  <2>5. QED
    BY <2>3, <2>4
<1>10. CASE InterruptPublisher \/ InterruptConsumer
  <2>1. stage = "running" /\ Afterwards /\ ~handlers
    BY <1>10, RunStep DEF InterruptPublisher, InterruptConsumer
  <2>2. CASE pc' # "done" \/ command = "demo"
    <3>1. stage' # "over"
      BY <2>1, <2>2 DEF Afterwards, StopHealth
    <3>2. QED
      BY <1>2, <2>1, <3>1
  <2>3. CASE pc' = "done" /\ command # "demo"
    <3>1. exit' = ExitCode(ending')
      BY <2>1, <2>3 DEF Afterwards
    <3>2. QED
      BY <1>2, <2>1, <2>3, <3>1
  <2>4. QED
    BY <2>2, <2>3
<1>11. CASE LinkLost \/ Stop \/ Arrive
  <2>1. UNCHANGED <<pc, ending, stage, exit, handlers, result>>
    BY <1>1, <1>11, OutsideStep DEF waiter
  <2>2. QED
    BY <1>1, <2>1
<1>12. CASE (\E c \in Conns : Accept(c) \/ SendLine(c) \/ Serve(c)) \/ UNCHANGED vars
  <2>1. UNCHANGED <<pc, ending, stage, exit, handlers, result>>
    BY <1>12 DEF Accept, SendLine, Serve, waiter, run, vars
  <2>2. QED
    BY <1>1, <2>1
<1>13. QED
  BY <1>3, <1>4, <1>5, <1>6, <1>7, <1>8, <1>9, <1>10, <1>11, <1>12
     DEF Next, MainStep, Terminated

\* The inductive invariant holds in every state of every behaviour.
THEOREM Inductive == Spec => []IInv
<1>1. IInv /\ UseCase /\ UseCase' /\ [Next]_vars => IInv'
  BY StagingStep, AskingStep, ServingStep, SeparateStep, LeavingStep DEF IInv
<1>2. QED
  BY <1>1, InitIInv, UseCaseInvariant, PTL DEF Spec

-----------------------------------------------------------------------------

\* Every variable keeps its type, in all of the parts.
THEOREM TypeCorrect == Spec => []TypeOK
<1>1. ASSUME UseCase, IInv PROVE TypeOK
  <2>1. command # "consumer" => Publisher!TypeOK
    BY <1>1 DEF UseCase, PublisherP!IInv, PublisherP!TypeOK, PublisherP!Mqtt!TypeOK,
        PublisherP!Mqtt!Sessions, PublisherP!Mqtt!None, PublisherP!Mqtt!Phases,
        PublisherP!Awaits, PublisherP!Channels, PublisherP!Endings,
        Publisher!TypeOK, Publisher!Mqtt!TypeOK, Publisher!Mqtt!Sessions,
        Publisher!Mqtt!None, Publisher!Mqtt!Phases,
        Publisher!Awaits, Publisher!Channels, Publisher!Endings
  <2>2. command = "consumer" => Consumer!TypeOK
    BY <1>1 DEF UseCase, ConsumerP!IInv, ConsumerP!TypeOK, ConsumerP!Mqtt!TypeOK,
        ConsumerP!Mqtt!Sessions, ConsumerP!Mqtt!None, ConsumerP!Mqtt!Phases,
        ConsumerP!Awaits, ConsumerP!Channels, ConsumerP!Messages, ConsumerP!TaskStates,
        ConsumerP!Endings, ConsumerP!Counters,
        Consumer!TypeOK, Consumer!Mqtt!TypeOK, Consumer!Mqtt!Sessions,
        Consumer!Mqtt!None, Consumer!Mqtt!Phases,
        Consumer!Awaits, Consumer!Channels, Consumer!Messages, Consumer!TaskStates,
        Consumer!Endings, Consumer!Counters
  <2>3. QED
    BY <1>1, <2>1, <2>2 DEF TypeOK, IInv, Staging, Asking, Serving
<1>2. QED
  BY <1>1, Inductive, UseCaseInvariant, PTL

\* However the waiter, the signals and the failures interleave, no session is
\* opened, and no stage after the wait is reached, without a yes.
THEOREM WaitsForTheBroker == Spec => []ReadyBeforeConnecting
<1>1. IInv => ReadyBeforeConnecting
  BY DEF IInv, Asking
<1>2. QED
  BY <1>1, Inductive, PTL

\* The health endpoint is up exactly while the demo's run_forever is.
THEOREM ListensExactlyThen == Spec => []ListensWhilePublishing
<1>1. IInv => ListensWhilePublishing
  BY DEF IInv, Serving
<1>2. QED
  BY <1>1, Inductive, PTL

\* Each exit code tells what happened: it follows from what the ending of the
\* use case, by its own invariant, stands for.
THEOREM TellsTheTruth == Spec => []ExitIsTruthful
<1>1. ASSUME UseCase, IInv PROVE ExitIsTruthful
  <2> USE <1>1 DEF IInv, Leaving, Staging, Separate
  <2>1. CASE exit = "none"
    BY <2>1 DEF ExitIsTruthful
  <2>2. CASE stage = "over" /\ pc # "done"
    <3>1. /\ created = 0 /\ live = {} /\ ending = "running" /\ accepted = <<>> /\ handled = 0
          /\ exit # "ok"
      BY <2>2, NothingYet
    <3>2. exit # "none" => \A c \in Conns : conn[c] = "none"
      BY <2>2 DEF Serving, Health!TypeOK, ListensWhilePublishing
    <3>3. QED
      BY <2>2, <3>1, <3>2 DEF ExitIsTruthful
  <2>3. CASE stage = "over" /\ pc = "done"
    <3>1. \A c \in Conns : conn[c] = "none"
      BY <2>3 DEF Serving, Health!TypeOK, ListensWhilePublishing
    <3>2. /\ exit = "ok" => ending = "returned"
          /\ exit = "reported" => ending = "connect_error"
          /\ exit = "traceback" => ending = "disconnect_error"
      BY <2>3, EveryEndingHasItsCode
    <3>3. CASE command # "consumer"
      <4>1. /\ ending # "cancelled_connecting" => live = {}
            /\ ending = "returned" => stop
            /\ ending = "connect_error" => accepted = <<>> /\ attempt = MaxAttempts
            /\ ending = "disconnect_error" => created > 0
        BY <2>3, <3>3 DEF UseCase, PublisherP!IInv, PublisherP!ClosedWhenDone,
            PublisherP!EndingIsJustified
      <4>2. QED
        BY <3>1, <3>2, <3>3, <4>1 DEF ExitIsTruthful
    <3>4. CASE command = "consumer"
      <4>1. /\ ending # "cancelled_connecting" => live = {}
            /\ ending = "returned" => stopTask = "finished" /\ stop
            /\ ending = "connect_error" => handled = 0
            /\ ending = "disconnect_error" => created > 0
        BY <2>3, <3>4 DEF UseCase, ConsumerP!IInv, ConsumerP!NothingLeftBehind,
            ConsumerP!Leaving
      <4>2. QED
        BY <3>1, <3>2, <3>4, <4>1 DEF ExitIsTruthful
    <3>5. QED
      BY <3>3, <3>4
  <2>4. QED
    BY <2>1, <2>2, <2>3
<1>2. QED
  BY <1>1, Inductive, UseCaseInvariant, PTL

\* Where signals are handled, a run that has begun ends by itself, and closes
\* its session.
THEOREM ClosesCleanly == Spec => []HandledSignalsCloseCleanly
<1>1. ASSUME UseCase, IInv, handlers, exit \in {"ok", "interrupted"}, result = "ready"
      PROVE  exit = "ok" /\ live = {} /\ client = 0
  <2>1. stage = "over" /\ pc = "done" /\ exit = ExitCode(ending)
        /\ ending \notin {"cancelled", "cancelled_connecting"}
    BY <1>1 DEF IInv, Staging, Leaving
  <2>2. exit = "ok" /\ ending = "returned"
    BY <1>1, <2>1, EveryEndingHasItsCode
  <2>3. live = {} /\ client = 0
    BY <1>1, <2>1, <2>2 DEF UseCase, PublisherP!IInv, PublisherP!ClosedWhenDone,
        PublisherP!Leaving, PublisherP!None, ConsumerP!IInv, ConsumerP!NothingLeftBehind,
        ConsumerP!Leaving, ConsumerP!None
  <2>4. QED
    BY <2>2, <2>3
<1>2. UseCase /\ IInv => HandledSignalsCloseCleanly
  BY <1>1 DEF HandledSignalsCloseCleanly
<1>3. QED
  BY <1>2, Inductive, UseCaseInvariant, PTL

=============================================================================
