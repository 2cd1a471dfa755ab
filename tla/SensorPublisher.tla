-------------------------- MODULE SensorPublisher --------------------------
(***************************************************************************)
(* application/publisher.py: the coroutine run_forever with the run_once   *)
(* it repeats, over the adapter of AiomqttClient.  A step is what happens  *)
(* between two awaits, named in pc by the await the coroutine is suspended *)
(* on; between any two steps the stop event may be set, the task may be    *)
(* cancelled and the session may be lost.                                  *)
(*                                                                         *)
(* Temperatures are integers (hundredths of a degree after round(_, 2));   *)
(* payloads and topics are represented by the channel they go to.          *)
(***************************************************************************)
EXTENDS Integers, Sequences

CONSTANTS
    MaxAttempts, InitialDelay, MaxDelay, MaxSessions,   \* see AiomqttClient
    MinCelsius, MaxCelsius,     \* TemperatureThresholds
    Lowest, Highest,            \* what SensorReading accepts (-100 and 100)
    Bases,                      \* temperatures the weather provider may return
    Variation                   \* temperature_variation_celsius

\* The adapter's parameters are in range, as in AiomqttClient.
ASSUME ClientAssumption ==
    /\ MaxAttempts \in Nat \ {0}
    /\ InitialDelay \in Nat \ {0}
    /\ MaxDelay \in Nat /\ MaxDelay >= InitialDelay
    /\ MaxSessions \in Nat \ {0}

\* What the constructors of TemperatureThresholds and SensorPublisher check.
ASSUME ReadingAssumption ==
    /\ MinCelsius \in Int /\ MaxCelsius \in Int /\ MinCelsius < MaxCelsius
    /\ Lowest \in Int /\ Highest \in Int
    /\ Bases \subseteq Int
    /\ Variation \in Nat

VARIABLES
    client, stack, live, created, phase, attempt, delay, slept,  \* the adapter
    pc,         \* the await run_forever is suspended on
    stop,       \* stop_event.is_set()
    reading,    \* temperature of the last SensorReading that was built
    accepted,   \* what of the current cycle was handed over, in order
    retained,   \* the device status the broker retains
    ending      \* how run_forever ended, once it has left its loop

mqtt == <<client, stack, live, created, phase, attempt, delay, slept>>
vars == <<client, stack, live, created, phase, attempt, delay, slept,
          pc, stop, reading, accepted, retained, ending>>

Mqtt == INSTANCE AiomqttClient

None == 0
Channels == {"temperature", "alert", "status"}
Awaits == {"connect", "fetch", "sleep", "finally", "done"} \cup Channels
Endings == {"running", "returned", "cancelled", "cancelled_connecting",
            "connect_error", "disconnect_error"}

\* Every variable has its type.
TypeOK ==
    /\ Mqtt!TypeOK
    /\ pc \in Awaits
    /\ stop \in BOOLEAN
    /\ reading \in Int
    /\ accepted \in Seq(Channels)
    /\ retained \in {"nothing", "active"}
    /\ ending \in Endings

\* run_forever has called connect_with_retry, which is about to try.
Init ==
    /\ client = None /\ stack = None /\ live = {} /\ created = 0
    /\ phase = "connecting" /\ attempt = 1 /\ delay = InitialDelay /\ slept = 0
    /\ pc = "connect"
    /\ stop \in BOOLEAN
    /\ reading = 0
    /\ accepted = <<>>
    /\ retained = "nothing"
    /\ ending = "running"

-----------------------------------------------------------------------------
(* The loop of run_forever                                                  *)

LoopTestMutant ==
    /\ pc' = "fetch" /\ accepted' = <<>>
    /\ UNCHANGED ending

\* while not stop_event.is_set(): leave for the finally clause, or begin a
\* cycle, of which nothing has been accepted yet.
LoopTest ==
    \/ stop /\ pc' = "finally" /\ ending' = "returned" /\ UNCHANGED accepted
    \/ ~stop /\ pc' = "fetch" /\ accepted' = <<>> /\ UNCHANGED ending

Connected ==
    /\ pc = "connect"
    /\ Mqtt!RetryConnects
    /\ LoopTest
    /\ UNCHANGED <<stop, reading, retained>>

\* connect_with_retry is called outside of the try: its last failure ends
\* run_forever without the finally clause.
ConnectAttemptFails ==
    /\ pc = "connect"
    /\ Mqtt!RetryFails
    /\ IF phase' = "exhausted"
       THEN pc' = "done" /\ ending' = "connect_error"
       ELSE UNCHANGED <<pc, ending>>
    /\ UNCHANGED <<stop, reading, accepted, retained>>

ConnectSleepOver ==
    /\ pc = "connect"
    /\ Mqtt!RetrySleepOver
    /\ UNCHANGED <<pc, stop, reading, accepted, retained, ending>>

\* wait_for(stop_event.wait(), interval) returns or times out.
Wake ==
    /\ pc = "sleep"
    /\ LoopTest
    /\ UNCHANGED <<mqtt, stop, reading, retained>>

\* The finally clause of a run that is being left.
Disconnect ==
    /\ pc = "finally"
    /\ \/ Mqtt!DisconnectReturns /\ UNCHANGED ending
       \/ Mqtt!DisconnectRaises /\ ending' = "disconnect_error"
    /\ pc' = "done"
    /\ UNCHANGED <<stop, reading, accepted, retained>>

-----------------------------------------------------------------------------
(* run_once                                                                 *)

IsValid(t) == Lowest <= t /\ t <= Highest

IsOutOfRangeMutant(t) == t <= MinCelsius \/ t > MaxCelsius

IsOutOfRange(t) == t < MinCelsius \/ t > MaxCelsius

\* The weather provider answers; SensorReading refuses a temperature out of
\* its limits with a ValueError, which ends the cycle at the loop boundary.
Fetch ==
    /\ pc = "fetch"
    /\ \E base \in Bases, variation \in (-Variation) .. Variation :
        LET t == base + variation IN
        IF IsValid(t)
        THEN reading' = t /\ pc' = "temperature"
        ELSE pc' = "sleep" /\ UNCHANGED reading
    /\ UNCHANGED <<mqtt, stop, accepted, retained, ending>>

FetchFails ==
    /\ pc = "fetch"
    /\ pc' = "sleep"
    /\ UNCHANGED <<mqtt, stop, reading, accepted, retained, ending>>

NextStep(channel) ==
    CASE channel = "temperature" ->
            IF IsOutOfRange(reading) THEN "alert" ELSE "status"
      [] channel = "alert" -> "status"
      [] channel = "status" -> "sleep"

\* The message is handed over: to the broker, or, at QoS 0, to a link that may
\* have broken unnoticed.  A status replaces the retained one, and every status
\* the publisher sends says `active'.
Accept(channel) ==
    /\ accepted' = Append(accepted, channel)
    /\ retained' = IF channel = "status" THEN "active" ELSE retained

Drop == UNCHANGED <<accepted, retained>>

PublishReturns(channel) ==
    /\ pc = channel
    /\ Mqtt!PublishSucceeds
    /\ Accept(channel)
    /\ pc' = NextStep(channel)
    /\ UNCHANGED <<stop, reading, ending>>

\* Where a publish that raises leaves the coroutine: the exception abandons
\* the rest of the cycle and is logged at the loop boundary.
AfterFailure(channel) == "sleep"

\* The publish raises; the broker may have accepted the message before the
\* acknowledgement was lost.
PublishRaises(channel) ==
    /\ pc = channel
    /\ \/ Mqtt!PublishFails /\ (Accept(channel) \/ Drop)
       \/ Mqtt!PublishRefused /\ Drop
    /\ pc' = AfterFailure(channel)
    /\ UNCHANGED <<stop, reading, ending>>

-----------------------------------------------------------------------------
(* The environment                                                          *)

\* A signal handler sets the event.
Stop ==
    /\ pc # "done" /\ ~stop
    /\ stop' = TRUE
    /\ UNCHANGED <<mqtt, pc, reading, accepted, retained, ending>>

LinkLost ==
    /\ Mqtt!LinkLost
    /\ UNCHANGED <<pc, stop, reading, accepted, retained, ending>>

\* CancelledError out of connect_with_retry: the finally clause does not
\* cover it.
CancelConnecting ==
    /\ pc = "connect"
    /\ Mqtt!RetryCancelled
    /\ pc' = "done" /\ ending' = "cancelled_connecting"
    /\ UNCHANGED <<stop, reading, accepted, retained>>

\* CancelledError at an await of the loop is re-raised through the finally
\* clause.  A message that was being published may have been accepted.
Cancel ==
    /\ pc \in {"fetch", "sleep"} \cup Channels
    /\ \/ Drop
       \/ pc \in Channels /\ client # None /\ Accept(pc)
    /\ pc' = "finally" /\ ending' = "cancelled"
    /\ UNCHANGED <<mqtt, stop, reading>>

\* CancelledError at the await of disconnect.  DISCONNECT was written before
\* it, and the lines that reset the adapter's attributes are skipped.
CancelDisconnecting ==
    /\ pc = "finally" /\ ending # "cancelled"
    /\ stack \in live
    /\ Mqtt!DisconnectRaises
    /\ pc' = "done" /\ ending' = "cancelled"
    /\ UNCHANGED <<stop, reading, accepted, retained>>

-----------------------------------------------------------------------------

Step ==
    \/ Connected \/ ConnectAttemptFails \/ ConnectSleepOver
    \/ Fetch \/ FetchFails
    \/ \E channel \in Channels : PublishReturns(channel) \/ PublishRaises(channel)
    \/ Wake \/ Disconnect

\* run_forever has returned or raised.
Terminated == pc = "done" /\ UNCHANGED vars

Next ==
    \/ Step \/ Stop \/ LinkLost
    \/ CancelConnecting \/ Cancel \/ CancelDisconnecting
    \/ Terminated

Spec == Init /\ [][Next]_vars

\* The event loop resumes the coroutine, and every await in it is bounded by
\* a timeout (connect and publish 10 s, the fetch by its HTTP timeout and
\* retries, the sleep by the interval).
FairSpec == Spec /\ WF_vars(Step)

\* As favourable an environment as one can ask for: whenever they can succeed
\* again and again, the weather is answered and a publish gets through.
FavourableSpec ==
    /\ FairSpec
    /\ SF_vars(Fetch /\ pc' = "temperature")
    /\ SF_vars(\E channel \in Channels : PublishReturns(channel))

-----------------------------------------------------------------------------
(* Properties                                                               *)

\* What a cycle for this temperature hands to the broker, in order.
Script(t) ==
    IF MinCelsius <= t /\ t <= MaxCelsius
    THEN <<"temperature", "status">>
    ELSE <<"temperature", "alert", "status">>

\* However a cycle ends (failed publish, lost link, cancellation, stop), what
\* was handed over is a prefix of the script of its reading: no message twice,
\* no alert without its reading or for a reading in range, no `active' status
\* ahead of the reading it vouches for, and no out-of-range reading followed
\* by a status without its alert.
CycleFollowsScript ==
    \E n \in 0 .. Len(Script(reading)) : accepted = SubSeq(Script(reading), 1, n)

\* A run that ended leaves no session open with the broker, on each of its
\* exits but one: a cancellation inside connect_with_retry.
ClosedWhenDone ==
    pc = "done" /\ ending # "cancelled_connecting" => live = {}

\* run_forever returns only after a stop; it ends in a connection error only
\* when every attempt failed, having opened nothing and published nothing; an
\* error out of disconnect presupposes a session that was opened.
EndingIsJustified ==
    /\ ending = "returned" => stop
    /\ ending \in {"connect_error", "cancelled_connecting"} =>
            accepted = <<>> /\ retained = "nothing" /\ client = None
    /\ ending = "connect_error" => attempt = MaxAttempts /\ created = 0
    /\ ending = "disconnect_error" => created > 0 /\ pc = "done"

\* Whatever the broker accepts comes through a handle that is set and whose
\* session the stack will close, never after disconnect.
DeliversThroughHeldSession ==
    [][(accepted' # accepted /\ accepted' # <<>>)
       => (client # None /\ client = stack /\ pc \in Channels)]_vars

\* README.md:201, publisher.py:168-171: the loop recovers from transient
\* errors, so in a favourable environment the broker accepts something again
\* and again until the run ends.
RecoversFromTransientErrors == []<>(accepted # <<>> \/ pc = "done")

=============================================================================
