------------------------------ MODULE EventFlow ------------------------------
(***************************************************************************)
(* The system end to end: a publisher and a consumer, configured alike, on *)
(* either side of a broker.  Both are instances of their own modules with  *)
(* variables of their own; what the broker accepts from one reaches the    *)
(* other as far as topics, filters, sessions and levels of QoS let it.     *)
(*                                                                         *)
(* The broker is external.  It forwards at once: when a message arrives    *)
(* makes no difference to what the consumer does with it, and one that is  *)
(* under way when a session ends is as lost as one that is queued.         *)
(* Sessions are clean, so nobody is sent what was published before.        *)
(*                                                                         *)
(* Both processes are stopped by their stop event; what a cancellation     *)
(* does to each is explored by Cli and by their own modules.               *)
(***************************************************************************)
EXTENDS Integers, Sequences, FiniteSets, SequencesExt, Wiring

CONSTANTS
    MaxAttempts, InitialDelay, MaxDelay, MaxSessions,           \* see AiomqttClient
    MinCelsius, MaxCelsius, Lowest, Highest, Bases, Variation,  \* see SensorPublisher
    MaxReadings,                    \* bound on the readings that are built
    PrefixLength, DeviceLength      \* bounds on the configured strings

\* The ranges that the two parts assume, and those of the bounds.
ASSUME FlowAssumption ==
    /\ MaxAttempts \in Nat \ {0}
    /\ InitialDelay \in Nat \ {0}
    /\ MaxDelay \in Nat /\ MaxDelay >= InitialDelay
    /\ MaxSessions \in Nat \ {0}
    /\ MinCelsius \in Int /\ MaxCelsius \in Int /\ MinCelsius < MaxCelsius
    /\ Lowest \in Int /\ Highest \in Int
    /\ Bases \subseteq Int
    /\ Variation \in Nat
    /\ MaxReadings \in Nat
    /\ PrefixLength \in Nat /\ DeviceLength \in Nat

VARIABLES
    pClient, pStack, pLive, pCreated, pPhase, pAttempt, pDelay, pSlept,
    pPc, pStop, pEnding, reading, accepted, retained,       \* the publisher
    cClient, cStack, cLive, cCreated, cPhase, cAttempt, cDelay, cSlept,
    cPc, cStop, cEnding, consumeTask, stopTask,             \* the consumer
    subscribed, arrived, handled, stats,
    stage,      \* "building", "running", or "refused" by a constructor
    prefix,     \* MQTT_TOPIC_PREFIX of both, until they are built
    device,     \* DEVICE_DEVICE_ID, until the publisher is built
    routes,     \* the pairs of Wiring!Routes they were built with
    readings,   \* how many readings were built; a reading is its number
    owed        \* readings whose alert the broker took for an attached consumer

publisher == <<pClient, pStack, pLive, pCreated, pPhase, pAttempt, pDelay, pSlept,
               pPc, pStop, pEnding, reading, accepted, retained>>
consumerRun == <<cClient, cStack, cLive, cCreated, cPhase, cAttempt, cDelay, cSlept,
                 cPc, cStop, cEnding, consumeTask, stopTask, subscribed, handled, stats>>
consumer == <<consumerRun, arrived>>
wiring == <<stage, prefix, device, routes>>
vars == <<publisher, consumer, wiring, readings, owed>>

Publisher == INSTANCE SensorPublisher WITH
    client <- pClient, stack <- pStack, live <- pLive, created <- pCreated,
    phase <- pPhase, attempt <- pAttempt, delay <- pDelay, slept <- pSlept,
    pc <- pPc, stop <- pStop, ending <- pEnding

Consumer == INSTANCE SensorConsumer WITH
    client <- cClient, stack <- cStack, live <- cLive, created <- cCreated,
    phase <- cPhase, attempt <- cAttempt, delay <- cDelay, slept <- cSlept,
    pc <- cPc, stop <- cStop, ending <- cEnding,
    MaxMessages <- 4 * MaxReadings

Channels == {"temperature", "alert"}
Readings == 1 .. MaxReadings

\* Every variable has its type; the messages are those of the publisher,
\* which all decode.
TypeOK ==
    /\ Publisher!TypeOK
    /\ Consumer!Mqtt!TypeOK
    /\ arrived \in Seq([channel : Channels, decodable : {TRUE}, reading : Readings,
                        celsius : Lowest .. Highest])
    /\ handled \in 0 .. Len(arrived)
    /\ stats \in Consumer!Counters
    /\ stage \in {"building", "running", "refused"}
    /\ routes \subseteq Publisher!Channels \X Channels
    /\ readings \in 0 .. MaxReadings
    /\ owed \subseteq 1 .. readings

Init ==
    /\ Publisher!Init /\ ~pStop
    /\ Consumer!Init /\ ~cStop
    /\ stage = "building"
    /\ prefix \in Strings(PrefixLength)
    /\ device \in Strings(DeviceLength)
    /\ routes = {}
    /\ readings = 0 /\ owed = {}

\* Container.build_publisher and build_consumer; the strings are not needed
\* any more once the topics and filters are built.
Build ==
    /\ stage = "building"
    /\ IF Builds(prefix, device)
       THEN stage' = "running" /\ routes' = Routes(prefix, device)
       ELSE stage' = "refused" /\ UNCHANGED routes
    /\ prefix' = <<>> /\ device' = <<>>
    /\ UNCHANGED <<publisher, consumer, readings, owed>>

-----------------------------------------------------------------------------
(* The broker between them                                                  *)

QosMutant(channel) == IF channel = "temperature" THEN 0 ELSE 1

QosAtMostOnceMutant(channel) == 0

\* QOS_TELEMETRY, QOS_ALERT and QOS_STATUS; the subscriptions ask for the same.
Qos(channel) ==
    CASE channel = "temperature" -> 0
      [] channel = "alert" -> 2
      [] channel = "status" -> 1

\* How many copies of a message a subscriber may get.
Copies(channel) ==
    CASE Qos(channel) = 0 -> {0, 1}
      [] Qos(channel) = 1 -> {1, 2}
      [] Qos(channel) = 2 -> {1}

\* The filters of the consumer's open session that select what is published.
Selecting(channel) ==
    IF cClient \in cLive
    THEN {filter \in subscribed : <<channel, filter>> \in routes} ELSE {}

\* The broker forwards a message it has accepted.
Forward(channel) ==
    LET message == [channel |-> channel, decodable |-> TRUE,
                    reading |-> readings, celsius |-> reading]
        wanted == Selecting(channel) # {}
    IN  /\ \E n \in IF wanted THEN Copies(channel) ELSE {0} :
            arrived' = arrived \o [i \in 1 .. n |-> message]
        /\ owed' = IF wanted /\ channel = "alert" THEN owed \cup {readings} ELSE owed

-----------------------------------------------------------------------------
(* The two processes                                                        *)

Accepts == Len(accepted') > Len(accepted)

BuildsReading == pPc = "fetch" /\ pPc' = "temperature"

PublisherStep ==
    /\ stage = "running"
    /\ Publisher!Step
    /\ IF BuildsReading
       THEN readings < MaxReadings /\ readings' = readings + 1
       ELSE UNCHANGED readings
    /\ IF Accepts THEN Forward(Last(accepted')) ELSE UNCHANGED <<arrived, owed>>
    /\ UNCHANGED <<consumerRun, wiring>>

Consuming(A) ==
    /\ stage = "running"
    /\ A
    /\ UNCHANGED <<publisher, wiring, readings, owed>>

ConsumerMainStep == Consuming(Consumer!MainStep)
ConsumeStep == Consuming(Consumer!ConsumeStep)
StopWaitStep == Consuming(Consumer!StopWaitStep)

\* What may happen to either process at any time.
PublisherDisturbed ==
    /\ stage = "running"
    /\ Publisher!Stop \/ Publisher!LinkLost
    /\ UNCHANGED <<consumer, wiring, readings, owed>>

ConsumerDisturbed == Consuming(Consumer!Stop \/ Consumer!LinkLost)

Terminated ==
    /\ stage = "refused" \/ (pPc = "done" /\ cPc = "done")
    /\ UNCHANGED vars

Next ==
    \/ Build
    \/ PublisherStep \/ PublisherDisturbed
    \/ ConsumerMainStep \/ ConsumeStep \/ StopWaitStep \/ ConsumerDisturbed
    \/ Terminated

Spec == Init /\ [][Next]_vars

\* Each event loop resumes what can run, as in the modules of its process.
FairSpec ==
    /\ Spec
    /\ WF_vars(Build) /\ WF_vars(PublisherStep)
    /\ WF_vars(ConsumerMainStep) /\ WF_vars(ConsumeStep) /\ WF_vars(StopWaitStep)

-----------------------------------------------------------------------------
(* Properties                                                               *)

\* topics.py:3-4: a consistent topic hierarchy across the system.  Whatever
\* strings are configured, either each channel the consumer asks for reaches
\* it under its own filter, or nothing of this device reaches it at all.  It
\* is the former when the prefix has no blank at either end and the device
\* identifier, once trimmed, no slash; it is the latter when one of the two
\* fails.  (Where both fail, what one side trims can happen to be what the
\* other adds: the prefix "// " and the device "/ /" agree.)
RoutesAreExact ==
    stage = "building" /\ Builds(prefix, device) =>
        LET own == {<<channel, channel>> : channel \in Channels}
            tidy == Strip(prefix) = prefix
            oneLevel == ~Contains(Strip(device), Slash)
        IN  /\ Routes(prefix, device) \in {own, {}}
            /\ tidy /\ oneLevel => Routes(prefix, device) = own
            /\ ~(tidy <=> oneLevel) => Routes(prefix, device) = {}

\* Which of the messages that arrived were counted on a channel.
Counted(channel) == {i \in 1 .. handled : arrived[i].channel = channel}

\* asyncapi.yaml:20-21: loss is acceptable for readings, duplicates forbidden
\* for alerts.  Whatever is lost, retried or torn down at either end, what the
\* consumer has counted on a channel are readings in the order in which they
\* were taken, none of them twice; and the alerts it counts are for readings
\* out of range.
CountedOnceInOrder ==
    /\ stats.telemetry = Cardinality(Counted("temperature"))
    /\ stats.alerts = Cardinality(Counted("alert"))
    /\ \A channel \in Channels :
        \A i, j \in Counted(channel) : i < j => arrived[i].reading < arrived[j].reading
    /\ \A i \in Counted("alert") : arrived[i].celsius \notin MinCelsius .. MaxCelsius

\* publisher.py:37, QoS 2: an alert the broker took for an attached consumer
\* is counted, however the publisher fares, unless the consumer loses its
\* session or is on its way out.
AlertGetsThrough ==
    \A r \in Readings :
        (r \in owed) ~>
            \/ \E i \in Counted("alert") : arrived[i].reading = r
            \/ cClient \notin cLive
            \/ cPc # "waiting"

=============================================================================
