-------------------------------- MODULE Cli --------------------------------
(***************************************************************************)
(* presentation/cli.py: the processes iot-publisher, iot-consumer and      *)
(* iot-demo-publisher.  Each builds its use case, enters the wake-up       *)
(* waiter, runs run_forever under the signal handlers (the demo with a     *)
(* health server beside it), and ends with an exit code.  The parts are    *)
(* instances of their own modules; publisher and consumer share the        *)
(* variables of the adapter and those of run_forever, as a process runs    *)
(* one of the two.                                                         *)
(*                                                                         *)
(* Where the event loop can handle signals, SIGINT and SIGTERM set the     *)
(* stop event as long as _run_with_signals runs.  Elsewhere, and at any    *)
(* other time, Ctrl+C makes asyncio.run cancel the main task.              *)
(***************************************************************************)
EXTENDS Integers, Sequences, FiniteSets

CONSTANTS
    MaxAttempts, InitialDelay, MaxDelay, MaxSessions,           \* see AiomqttClient
    MinCelsius, MaxCelsius, Lowest, Highest, Bases, Variation,  \* see SensorPublisher
    MaxMessages,                                                \* see SensorConsumer
    Timeout, Interval, RequestLimit, Lateness,                  \* see WakeUpWaiter
    Conns                                                       \* see HealthServer

\* The parameters of the parts are in range, as in their modules.
ASSUME PartsAssumption ==
    /\ MaxAttempts \in Nat \ {0}
    /\ InitialDelay \in Nat \ {0}
    /\ MaxDelay \in Nat /\ MaxDelay >= InitialDelay
    /\ MaxSessions \in Nat \ {0}
    /\ MinCelsius \in Int /\ MaxCelsius \in Int /\ MinCelsius < MaxCelsius
    /\ Lowest \in Int /\ Highest \in Int
    /\ Bases \subseteq Int
    /\ Variation \in Nat
    /\ MaxMessages \in Nat
    /\ Timeout \in Nat \ {0} /\ Interval \in Nat \ {0}
    /\ RequestLimit \in Nat /\ Lateness \in Nat

VARIABLES
    client, stack, live, created, phase, attempt, delay, slept,     \* the adapter
    pc, stop, ending,                                               \* run_forever
    reading, accepted, retained,                                    \* the publisher
    consumeTask, stopTask, subscribed, arrived, handled, stats,     \* the consumer
    now, waiting, wakeAt, answer, result, http,                     \* the waiter
    server, conn, line,                                             \* the health server
    command,    \* which of the three commands this is
    handlers,   \* whether the event loop can handle signals
    stage,      \* where the command is
    exit        \* how the process ended

adapter == <<client, stack, live, created, phase, attempt, delay, slept>>
publisher == <<reading, accepted, retained>>
consumer == <<consumeTask, stopTask, subscribed, arrived, handled, stats>>
run == <<adapter, pc, stop, ending, publisher, consumer>>
waiter == <<now, waiting, wakeAt, answer, result, http>>
health == <<server, conn, line>>
vars == <<run, waiter, health, command, handlers, stage, exit>>

Publisher == INSTANCE SensorPublisher
Consumer == INSTANCE SensorConsumer
Waiter == INSTANCE WakeUpWaiter WITH pc <- waiting
Health == INSTANCE HealthServer

\* Every variable has its type.
TypeOK ==
    /\ IF command = "consumer" THEN Consumer!TypeOK ELSE Publisher!TypeOK
    /\ Waiter!TypeOK
    /\ Health!TypeOK
    /\ command \in {"publisher", "consumer", "demo"}
    /\ handlers \in BOOLEAN
    /\ stage \in {"building", "waiting", "starting", "running", "stopping", "over"}
    /\ exit \in {"none", "ok", "reported", "interrupted", "traceback"}

Init ==
    /\ Publisher!Init /\ Consumer!Init /\ ~stop
    /\ Waiter!Init
    /\ Health!Init
    /\ command \in {"publisher", "consumer", "demo"}
    /\ handlers \in BOOLEAN
    /\ stage = "building"
    /\ exit = "none"

-----------------------------------------------------------------------------
(* The command, and _execute up to the run                                  *)

Exit(how) == stage' = "over" /\ exit' = how

\* Container builds the use case, or the topics, the identifier or the
\* settings are refused with an error that nothing translates.
Build ==
    /\ stage = "building"
    /\ \/ stage' = "waiting" /\ UNCHANGED exit
       \/ Exit("traceback")
    /\ UNCHANGED <<run, waiter, health, command, handlers>>

WaiterStep ==
    /\ stage = "waiting"
    /\ Waiter!Step
    /\ UNCHANGED <<run, health, command, handlers, stage, exit>>

AfterWaitMutant ==
    stage' = (IF command = "demo" THEN "starting" ELSE "running") /\ UNCHANGED exit

\* A timeout is reported and exits with code 1; an exception out of the wait
\* is a Ctrl+C, or an error that is no httpx.HTTPError.
AfterWait ==
    \/ /\ result = "ready"
       /\ stage' = IF command = "demo" THEN "starting" ELSE "running"
       /\ UNCHANGED exit
    \/ result = "timeout" /\ Exit("reported")
    \/ result = "none" /\ \E how \in {"interrupted", "traceback"} : Exit(how)

\* The waiter's context has been left, and its clock is of no more use.
WaiterLeft ==
    /\ stage = "waiting" /\ waiting = "done"
    /\ AfterWait
    /\ now' = 0 /\ wakeAt' = 0 /\ answer' = "none"
    /\ UNCHANGED <<run, waiting, result, http, health, command, handlers>>

-----------------------------------------------------------------------------
(* The run: health.start(), run_forever, and health.stop() in the finally   *)

\* OSError (the port is taken) is nothing that _execute translates.
HealthStarts ==
    /\ stage = "starting"
    /\ \/ Health!Start /\ stage' = "running" /\ UNCHANGED exit
       \/ Health!StartFails /\ Exit("traceback")
    /\ UNCHANGED <<run, waiter, command, handlers>>

ExitCodeMutant(how) ==
    CASE how = "returned" -> "ok"
      [] how \in {"connect_error", "disconnect_error"} -> "ok"
      [] how \in {"cancelled", "cancelled_connecting"} -> "interrupted"

\* _execute: MQTTConnectionError is reported with exit code 1, a Ctrl+C gives
\* 130, and any other error (MqttError out of disconnect) a traceback.
ExitCode(how) ==
    CASE how = "returned" -> "ok"
      [] how = "connect_error" -> "reported"
      [] how \in {"cancelled", "cancelled_connecting"} -> "interrupted"
      [] how = "disconnect_error" -> "traceback"

StopHealthMutant == UNCHANGED <<health, stage, exit>>

\* The finally clause runs on into wait_closed in the step that ends
\* run_forever, so nothing connects in between.
StopHealth == Health!Close /\ stage' = "stopping" /\ UNCHANGED exit

\* What follows a step of run_forever.
Afterwards ==
    /\ \/ pc' # "done" /\ UNCHANGED <<health, stage, exit>>
       \/ pc' = "done" /\ command = "demo" /\ StopHealth
       \/ pc' = "done" /\ command # "demo" /\ Exit(ExitCode(ending')) /\ UNCHANGED health
    /\ UNCHANGED <<waiter, command, handlers>>

Running(A, commands) == stage = "running" /\ command \in commands /\ A /\ Afterwards

PublisherStep ==
    Running(Publisher!Step /\ UNCHANGED consumer, {"publisher", "demo"})

ConsumerMainStep == Running(Consumer!MainStep /\ UNCHANGED publisher, {"consumer"})

ConsumerTaskStep ==
    Running((Consumer!ConsumeStep \/ Consumer!StopWaitStep) /\ UNCHANGED publisher,
            {"consumer"})

HealthStopReturns ==
    /\ stage = "stopping"
    /\ Health!StopReturns
    /\ Exit(ExitCode(ending))
    /\ UNCHANGED <<run, waiter, command, handlers>>

-----------------------------------------------------------------------------
(* Signals                                                                  *)

\* The handlers are in place from the start of the run to its end.
CanStop == handlers /\ stage \in {"starting", "running"}

Stop ==
    /\ CanStop
    /\ Publisher!Stop
    /\ UNCHANGED <<consumer, waiter, health, command, handlers, stage, exit>>

InterruptWait ==
    /\ stage = "waiting"
    /\ Waiter!Cancel
    /\ UNCHANGED <<run, health, command, handlers, stage, exit>>

InterruptPublisher ==
    /\ ~handlers
    /\ Running(/\ \/ Publisher!Cancel \/ Publisher!CancelConnecting
                  \/ Publisher!CancelDisconnecting
               /\ UNCHANGED consumer, {"publisher", "demo"})

InterruptConsumer ==
    /\ ~handlers
    /\ Running(/\ \/ Consumer!CancelConnecting \/ Consumer!CancelSubscribing
                  \/ Consumer!CancelWaiting \/ Consumer!CancelDisconnecting
               /\ UNCHANGED publisher, {"consumer"})

\* Ctrl+C while the health server is being started, or while wait_closed
\* waits: it takes the place of whatever was being raised, and asyncio.run
\* cancels the handlers that are left.
InterruptHealth ==
    /\ ~handlers
    /\ \/ stage = "starting"
       \/ stage = "stopping" /\ ending \notin {"cancelled", "cancelled_connecting"}
    /\ Exit("interrupted")
    /\ server' = "none"
    /\ conn' = [c \in Conns |-> "none"] /\ line' = [c \in Conns |-> "none"]
    /\ UNCHANGED <<run, waiter, command, handlers>>

-----------------------------------------------------------------------------
(* The link, the broker, and the clients of the health endpoint             *)

LinkLost ==
    /\ stage # "over"
    /\ Publisher!LinkLost
    /\ UNCHANGED <<consumer, waiter, health, command, handlers, stage, exit>>

Arrive ==
    /\ stage = "running"
    /\ Consumer!Arrive
    /\ UNCHANGED <<publisher, waiter, health, command, handlers, stage, exit>>

Accept(c) ==
    /\ Health!Accept(c)
    /\ UNCHANGED <<run, waiter, command, handlers, stage, exit>>

SendLine(c) ==
    /\ Health!SendLine(c)
    /\ UNCHANGED <<run, waiter, command, handlers, stage, exit>>

Serve(c) ==
    /\ Health!Serve(c)
    /\ UNCHANGED <<run, waiter, command, handlers, stage, exit>>

-----------------------------------------------------------------------------

MainStep ==
    \/ Build \/ WaiterStep \/ WaiterLeft
    \/ HealthStarts \/ PublisherStep \/ ConsumerMainStep \/ HealthStopReturns

\* The process has ended.
Terminated == stage = "over" /\ UNCHANGED vars

Next ==
    \/ MainStep \/ ConsumerTaskStep
    \/ Stop \/ InterruptWait \/ InterruptPublisher \/ InterruptConsumer
    \/ InterruptHealth
    \/ LinkLost \/ Arrive
    \/ \E c \in Conns : Accept(c) \/ SendLine(c) \/ Serve(c)
    \/ Terminated

Spec == Init /\ [][Next]_vars

\* The event loop resumes what can run, and every await is bounded: those of
\* the use cases and of the waiter as in their modules, each read of a
\* handler by its timeout.  Nothing is assumed of the clients.
FairSpec ==
    /\ Spec
    /\ WF_vars(MainStep) /\ WF_vars(ConsumerTaskStep)
    /\ \A c \in Conns : WF_vars(Serve(c))

-----------------------------------------------------------------------------
(* Properties                                                               *)

\* The broker is left alone until the waiter came back with a yes, by then
\* with its HTTP client closed; and a run that had no yes has no later stage.
ReadyBeforeConnecting ==
    created > 0 \/ stage \in {"starting", "running", "stopping"}
        => result = "ready" /\ http = "none"

\* The endpoint listens exactly as long as the demo's run_forever runs: it is
\* there through every failure and retry, and gone when the loop is.
ListensWhilePublishing ==
    server = "listening" <=> (command = "demo" /\ stage = "running" /\ pc # "done")

\* Exit code 0 is for a run that was asked to stop, saw it, and closed its
\* session; the reported error for a wait that timed out, or a run whose
\* connection or subscription failed, and that left no session open; a
\* traceback with a session presupposes one; and no code comes while a
\* handler is still serving.
ExitIsTruthful ==
    /\ exit = "ok" =>
            /\ stop /\ (command = "consumer" => stopTask = "finished")
            /\ live = {}
    /\ exit = "reported" =>
            /\ result = "timeout" \/ attempt = MaxAttempts \/ command = "consumer"
            /\ live = {} /\ accepted = <<>> /\ handled = 0
    /\ exit = "traceback" /\ ending # "running" => created > 0
    /\ exit # "none" => \A c \in Conns : conn[c] = "none"

\* Where signals are handled, a run is never torn down: Ctrl+C and SIGTERM
\* let it close its session, and only the wait can be interrupted.
HandledSignalsCloseCleanly ==
    handlers /\ exit \in {"ok", "interrupted"} /\ result = "ready" =>
        exit = "ok" /\ live = {} /\ client = 0

\* This client sends one header line after the other for ever.
NeverFinishes(c) == <>[](conn[c] = "headers") /\ []<><<SendLine(c)>>_vars

\* Once asked to stop, the process ends, whatever it is doing and whoever is
\* being served; or else it is done but for the handler of a client that
\* never finishes its request, which holds up wait_closed for ever.
StopEndsProcess ==
    \/ stop ~> (stage = "over")
    \/ <>[](stage = "stopping") /\ \E c \in Conns : NeverFinishes(c)

\* Whoever connects is served or dropped, unless the process ends first: the
\* timeout of each line is enough for every client but one that never
\* finishes its request.
EveryRequestEnds ==
    \A c \in Conns : ((conn[c] # "none") ~> (conn[c] = "none")) \/ NeverFinishes(c)

\* README.md:201: the CLI translates connection failures into user-facing
\* messages with a non-zero exit code.  So a consumer that lost its session
\* ends with such a message, unless it is interrupted first.
LossIsReported ==
    consumeTask = "failed" /\ exit # "none" => exit \in {"reported", "interrupted"}

\* wakeup.py:7-9 and docs/deployment-render.md:126-129: a healthy demo implies
\* a reachable broker, since the demo is connected to it.  OK is answered only
\* while the publisher has a session.
HealthyMeansConnected ==
    [][\A c \in Conns :
        (conn[c] # "ok" /\ conn'[c] = "ok") => client \in live]_vars

=============================================================================
