--------------------------- MODULE SensorConsumer ---------------------------
(***************************************************************************)
(* application/consumer.py: run_forever, the task that consumes messages   *)
(* and the task that waits for the stop event, over the adapter of         *)
(* AiomqttClient.  The three run interleaved on one event loop: a step of  *)
(* any of them is what it does between two awaits.  pc is the await that   *)
(* run_forever is suspended on, consumeTask and stopTask what became of    *)
(* the two tasks.                                                          *)
(***************************************************************************)
EXTENDS Integers, Sequences, FiniteSets

CONSTANTS
    MaxAttempts, InitialDelay, MaxDelay, MaxSessions,   \* see AiomqttClient
    MaxMessages     \* bound on the messages the broker delivers

\* The adapter's parameters are in range, as in AiomqttClient.
ASSUME ConsumerAssumption ==
    /\ MaxAttempts \in Nat \ {0}
    /\ InitialDelay \in Nat \ {0}
    /\ MaxDelay \in Nat /\ MaxDelay >= InitialDelay
    /\ MaxSessions \in Nat \ {0}
    /\ MaxMessages \in Nat

VARIABLES
    client, stack, live, created, phase, attempt, delay, slept,  \* the adapter
    pc,             \* the await run_forever is suspended on
    stop,           \* stop_event.is_set()
    consumeTask,    \* the task running _consume
    stopTask,       \* the task running stop_event.wait()
    subscribed,     \* channels the broker delivers to this session
    arrived,        \* messages delivered to the session, in order
    handled,        \* how many of them _handle has seen
    stats,          \* the three counters
    ending          \* how run_forever ended

mqtt == <<client, stack, live, created, phase, attempt, delay, slept>>
tasks == <<consumeTask, stopTask>>
inbox == <<subscribed, arrived, handled, stats>>
vars == <<client, stack, live, created, phase, attempt, delay, slept, pc, stop,
          consumeTask, stopTask, subscribed, arrived, handled, stats, ending>>

Mqtt == INSTANCE AiomqttClient

None == 0
Channels == {"temperature", "alert"}
Messages == [channel : Channels, decodable : BOOLEAN]
Awaits == {"connect", "subscribe_telemetry", "subscribe_alert", "waiting",
           "gathering", "finally", "done"}
TaskStates == {"none", "running", "cancelling", "cancelled", "finished", "failed"}
Endings == {"running", "returned", "cancelled", "cancelled_connecting",
            "connect_error", "disconnect_error"}
Counters == [telemetry : Nat, alerts : Nat, failures : Nat]

\* Every variable has its type.
TypeOK ==
    /\ Mqtt!TypeOK
    /\ pc \in Awaits
    /\ stop \in BOOLEAN
    /\ consumeTask \in TaskStates
    /\ stopTask \in TaskStates \ {"failed"}
    /\ subscribed \subseteq Channels
    /\ arrived \in Seq(Messages) /\ Len(arrived) <= MaxMessages
    /\ handled \in 0 .. Len(arrived)
    /\ stats \in Counters
    /\ ending \in Endings

\* run_forever has called connect_with_retry, which is about to try.
Init ==
    /\ client = None /\ stack = None /\ live = {} /\ created = 0
    /\ phase = "connecting" /\ attempt = 1 /\ delay = InitialDelay /\ slept = 0
    /\ pc = "connect"
    /\ stop \in BOOLEAN
    /\ consumeTask = "none" /\ stopTask = "none"
    /\ subscribed = {} /\ arrived = <<>> /\ handled = 0
    /\ stats = [telemetry |-> 0, alerts |-> 0, failures |-> 0]
    /\ ending = "running"

-----------------------------------------------------------------------------
(* run_forever up to the two tasks                                          *)

Connected ==
    /\ pc = "connect"
    /\ Mqtt!RetryConnects
    /\ pc' = "subscribe_telemetry"
    /\ UNCHANGED <<stop, tasks, inbox, ending>>

\* connect_with_retry is outside of the try, so nothing is disconnected.
ConnectAttemptFails ==
    /\ pc = "connect"
    /\ Mqtt!RetryFails
    /\ IF phase' = "exhausted"
       THEN pc' = "done" /\ ending' = "connect_error"
       ELSE UNCHANGED <<pc, ending>>
    /\ UNCHANGED <<stop, tasks, inbox>>

ConnectSleepOver ==
    /\ pc = "connect"
    /\ Mqtt!RetrySleepOver
    /\ UNCHANGED <<pc, stop, tasks, inbox, ending>>

Deliver(channels) == subscribed' = subscribed \cup channels

SubscribeTelemetry ==
    /\ pc = "subscribe_telemetry"
    /\ Mqtt!SubscribeSucceeds
    /\ Deliver({"temperature"})
    /\ pc' = "subscribe_alert"
    /\ UNCHANGED <<stop, tasks, arrived, handled, stats, ending>>

\* The second subscription is followed at once by the creation of the tasks.
SubscribeAlert ==
    /\ pc = "subscribe_alert"
    /\ Mqtt!SubscribeSucceeds
    /\ Deliver({"alert"})
    /\ pc' = "waiting"
    /\ consumeTask' = "running" /\ stopTask' = "running"
    /\ UNCHANGED <<stop, arrived, handled, stats, ending>>

Subscribing == {"subscribe_telemetry", "subscribe_alert"}

SubscribedChannel ==
    IF pc = "subscribe_telemetry" THEN "temperature" ELSE "alert"

\* MQTTConnectionError out of a subscribe leaves through the outer finally;
\* the broker may have registered the subscription all the same.
SubscribeFails ==
    /\ pc \in Subscribing
    /\ Mqtt!SubscribeFails
    /\ Deliver({SubscribedChannel}) \/ Deliver({})
    /\ pc' = "finally" /\ ending' = "connect_error"
    /\ UNCHANGED <<stop, tasks, arrived, handled, stats>>

-----------------------------------------------------------------------------
(* The two tasks                                                            *)

IsAlert(m) == m.channel = "alert"

CountedMutant(m) ==
    [telemetry |-> stats.telemetry + (IF ~IsAlert(m) THEN 1 ELSE 0),
     alerts |-> stats.alerts + (IF IsAlert(m) THEN 1 ELSE 0),
     failures |-> stats.failures + (IF ~m.decodable THEN 1 ELSE 0)]

\* _handle: a payload that does not decode counts as a failure and nothing
\* else, any other by the last segment of its topic.
Counted(m) ==
    CASE ~m.decodable -> [stats EXCEPT !.failures = @ + 1]
      [] m.decodable /\ IsAlert(m) -> [stats EXCEPT !.alerts = @ + 1]
      [] m.decodable /\ ~IsAlert(m) -> [stats EXCEPT !.telemetry = @ + 1]

HasMessageMutant == handled + 1 < Len(arrived)

HasMessage == handled < Len(arrived)

\* _consume takes the next message that the session received.
Handle ==
    /\ consumeTask = "running"
    /\ HasMessage
    /\ handled' = handled + 1
    /\ stats' = Counted(arrived[handled'])
    /\ UNCHANGED <<mqtt, pc, stop, tasks, subscribed, arrived, ending>>

\* The iterator of messages raises once the session is lost, whether or not
\* messages are still queued.
ConsumeFails ==
    /\ consumeTask = "running"
    /\ Mqtt!MessagesEnd
    /\ consumeTask' = "failed"
    /\ UNCHANGED <<pc, stop, stopTask, inbox, ending>>

StopWaitFinishes ==
    /\ stopTask = "running"
    /\ stop
    /\ stopTask' = "finished"
    /\ UNCHANGED <<mqtt, pc, stop, consumeTask, inbox, ending>>

\* CancelledError reaches a task at its next resumption.
ConsumeCancelled ==
    /\ consumeTask = "cancelling"
    /\ consumeTask' = "cancelled"
    /\ UNCHANGED <<mqtt, pc, stop, stopTask, inbox, ending>>

StopWaitCancelled ==
    /\ stopTask = "cancelling"
    /\ stopTask' = "cancelled"
    /\ UNCHANGED <<mqtt, pc, stop, consumeTask, inbox, ending>>

-----------------------------------------------------------------------------
(* run_forever from the wait to its end                                     *)

IsDone(task) == task \in {"cancelled", "finished", "failed"}

CancelTasksMutant ==
    /\ stopTask' = IF IsDone(stopTask) THEN stopTask ELSE "cancelling"
    /\ UNCHANGED consumeTask

\* The inner finally clause asks every task that is not done to stop.
CancelTasks ==
    /\ consumeTask' = IF IsDone(consumeTask) THEN consumeTask ELSE "cancelling"
    /\ stopTask' = IF IsDone(stopTask) THEN stopTask ELSE "cancelling"

FirstCompletedMutant == IsDone(stopTask)

FirstCompletedConsumeMutant == IsDone(consumeTask)

FirstCompletedNoneMutant == TRUE

\* asyncio.wait(..., return_when=FIRST_COMPLETED)
FirstCompleted == IsDone(consumeTask) \/ IsDone(stopTask)

WaitReturns ==
    /\ pc = "waiting"
    /\ FirstCompleted
    /\ CancelTasks
    /\ pc' = "gathering"
    /\ UNCHANGED <<mqtt, stop, inbox, ending>>

AllGatheredMutant == IsDone(consumeTask) \/ IsDone(stopTask)

AllGathered == IsDone(consumeTask) /\ IsDone(stopTask)

\* gather(return_exceptions=True) swallows what the tasks raised.
GatherReturns ==
    /\ pc = "gathering"
    /\ AllGathered
    /\ pc' = "finally"
    /\ ending' = IF ending = "running" THEN "returned" ELSE ending
    /\ UNCHANGED <<mqtt, stop, tasks, inbox>>

\* The outer finally clause.
Disconnect ==
    /\ pc = "finally"
    /\ \/ Mqtt!DisconnectReturns /\ UNCHANGED ending
       \/ Mqtt!DisconnectRaises /\ ending' = "disconnect_error"
    /\ pc' = "done"
    /\ UNCHANGED <<stop, tasks, inbox>>

-----------------------------------------------------------------------------
(* The environment                                                          *)

\* A signal handler sets the event.
Stop ==
    /\ pc # "done" /\ ~stop
    /\ stop' = TRUE
    /\ UNCHANGED <<mqtt, pc, tasks, inbox, ending>>

LinkLost ==
    /\ Mqtt!LinkLost
    /\ UNCHANGED <<pc, stop, tasks, inbox, ending>>

\* The broker delivers a message on a channel this session subscribed to.
Arrive ==
    /\ client \in live
    /\ Len(arrived) < MaxMessages
    /\ \E m \in Messages : m.channel \in subscribed /\ arrived' = Append(arrived, m)
    /\ UNCHANGED <<mqtt, pc, stop, tasks, subscribed, handled, stats, ending>>

\* CancelledError out of connect_with_retry: no finally clause covers it.
CancelConnecting ==
    /\ pc = "connect"
    /\ Mqtt!RetryCancelled
    /\ pc' = "done" /\ ending' = "cancelled_connecting"
    /\ UNCHANGED <<stop, tasks, inbox>>

CancelSubscribing ==
    /\ pc \in Subscribing
    /\ Deliver({SubscribedChannel}) \/ Deliver({})
    /\ pc' = "finally" /\ ending' = "cancelled"
    /\ UNCHANGED <<mqtt, stop, tasks, arrived, handled, stats>>

\* CancelledError at the wait or at the gather: the tasks are cancelled and
\* gathered before the error propagates.
CancelWaiting ==
    /\ pc \in {"waiting", "gathering"} /\ ending = "running"
    /\ CancelTasks
    /\ pc' = "gathering" /\ ending' = "cancelled"
    /\ UNCHANGED <<mqtt, stop, inbox>>

\* CancelledError at the await of disconnect.  DISCONNECT was written before
\* it, and the lines that reset the adapter's attributes are skipped.
CancelDisconnecting ==
    /\ pc = "finally" /\ ending # "cancelled"
    /\ stack \in live
    /\ Mqtt!DisconnectRaises
    /\ pc' = "done" /\ ending' = "cancelled"
    /\ UNCHANGED <<stop, tasks, inbox>>

-----------------------------------------------------------------------------

MainStep ==
    \/ Connected \/ ConnectAttemptFails \/ ConnectSleepOver
    \/ SubscribeTelemetry \/ SubscribeAlert \/ SubscribeFails
    \/ WaitReturns \/ GatherReturns \/ Disconnect

ConsumeStep == Handle \/ ConsumeFails \/ ConsumeCancelled

StopWaitStep == StopWaitFinishes \/ StopWaitCancelled

\* run_forever has returned or raised.
Terminated == pc = "done" /\ UNCHANGED vars

Next ==
    \/ MainStep \/ ConsumeStep \/ StopWaitStep
    \/ Stop \/ LinkLost \/ Arrive
    \/ CancelConnecting \/ CancelSubscribing \/ CancelWaiting \/ CancelDisconnecting
    \/ Terminated

Spec == Init /\ [][Next]_vars

\* The event loop resumes every coroutine that can run; connect, subscribe
\* and disconnect are bounded by the timeouts of the library.
FairSpec ==
    /\ Spec
    /\ WF_vars(MainStep) /\ WF_vars(ConsumeStep) /\ WF_vars(StopWaitStep)

-----------------------------------------------------------------------------
(* Properties                                                               *)

HandledSuchThat(Test(_)) == Cardinality({i \in 1 .. handled : Test(arrived[i])})

\* Each message that was taken is counted exactly once, under the counter
\* its payload and its topic call for.
StatsMatchMessages ==
    /\ stats.failures = HandledSuchThat(LAMBDA m : ~m.decodable)
    /\ stats.alerts = HandledSuchThat(LAMBDA m : m.decodable /\ m.channel = "alert")
    /\ stats.telemetry =
            HandledSuchThat(LAMBDA m : m.decodable /\ m.channel = "temperature")

\* By the time the connection is being closed both tasks are over, and a run
\* that ended leaves no open session, on each of its exits but one: a
\* cancellation inside connect_with_retry.
NothingLeftBehind ==
    /\ pc \in {"finally", "done"} =>
            {consumeTask, stopTask} \cap {"running", "cancelling"} = {}
    /\ pc = "done" /\ ending # "cancelled_connecting" => live = {}

\* Once the tasks have been told to stop no message is counted any more, so
\* the totals that are logged are final.
TotalsAreFinal ==
    [][(pc \in {"gathering", "finally", "done"}) => (UNCHANGED <<stats, handled>>)]_vars

\* Losing the session ends a consumer that awaits messages.
LossEndsIt == (pc = "waiting" /\ client \notin live) ~> (pc = "done")

=============================================================================
