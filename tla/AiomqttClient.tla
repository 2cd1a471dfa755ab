--------------------------- MODULE AiomqttClient ---------------------------
(***************************************************************************)
(* The MQTT adapter of infrastructure/mqtt.py: the handle `client' that    *)
(* publish, subscribe and messages go through, the exit stack `stack' that *)
(* disconnect closes, and the sessions that are `live' in the library.     *)
(* The code keeps the first two in step only by convention, and the third  *)
(* is what the outside world sees: the hazards of this class are the ways  *)
(* in which the three drift apart.                                         *)
(*                                                                         *)
(* A session is the number of the aiomqtt.Client.__aenter__ that opened    *)
(* it.  The library is external: a handshake may succeed or fail; a        *)
(* session may be lost at any moment, which the library notices (now or    *)
(* later) and the adapter does not, so a session on a link that broke      *)
(* unnoticed still counts as live; an operation fails on a session that is *)
(* not live, and may fail on one that is (timeout); closing a session may  *)
(* raise, and does if it ended in an error.                                *)
(*                                                                         *)
(* The actions below are the adapter's operations as one caller at a time  *)
(* issues them, which is how the application uses it (mqtt.py:37).  Next   *)
(* lets that caller make any sequence of calls; SensorPublisher and        *)
(* SensorConsumer instantiate this module and call the same actions in the *)
(* order of their run_forever.                                             *)
(***************************************************************************)
EXTENDS Integers

CONSTANTS
    MaxAttempts,    \* connect_with_retry: max_attempts (5 in the code)
    InitialDelay,   \* connect_with_retry: initial_delay_seconds (1)
    MaxDelay,       \* connect_with_retry: max_delay_seconds (30)
    MaxSessions     \* bound on the sessions a behaviour opens

ASSUME RetryAssumption ==
    /\ MaxAttempts \in Nat \ {0}
    /\ InitialDelay \in Nat \ {0}
    /\ MaxDelay \in Nat /\ MaxDelay >= InitialDelay

ASSUME SessionAssumption == MaxSessions \in Nat \ {0}

VARIABLES
    client,     \* _client: the session the handle belongs to, None if unset
    stack,      \* _stack: the session its exit callback closes; None if unset or spent
    live,       \* the sessions that the library holds to be open
    created,    \* how many sessions were ever opened
    phase,      \* where connect_with_retry stands
    attempt,    \* its loop variable
    delay,      \* its current back-off delay
    slept       \* seconds slept by this call of connect_with_retry

connection == <<client, stack, live, created>>
retry == <<phase, attempt, delay, slept>>
vars == <<client, stack, live, created, phase, attempt, delay, slept>>

None == 0
Sessions == 1 .. MaxSessions
Phases == {"idle", "connecting", "sleeping", "exhausted"}

\* Every variable has its type.
TypeOK ==
    /\ client \in Sessions \cup {None}
    /\ stack \in Sessions \cup {None}
    /\ live \subseteq Sessions
    /\ created \in 0 .. MaxSessions
    /\ phase \in Phases
    /\ attempt \in 0 .. MaxAttempts
    /\ delay \in Nat
    /\ slept \in Nat

Init ==
    /\ client = None
    /\ stack = None
    /\ live = {}
    /\ created = 0
    /\ phase = "idle"
    /\ attempt = 0
    /\ delay = InitialDelay
    /\ slept = 0

-----------------------------------------------------------------------------
(* connect                                                                  *)

AlreadyConnectedMutant == FALSE

\* connect returns at once when it believes a session is open.
AlreadyConnected == client # None

OpenSessionMutant ==
    /\ created < MaxSessions
    /\ created' = created + 1
    /\ live' = live \cup {created'}
    /\ client' = created'
    /\ UNCHANGED stack

\* __aenter__ returned: both the handle and the stack are replaced, whatever
\* the stack held before.
OpenSession ==
    /\ created < MaxSessions
    /\ created' = created + 1
    /\ live' = live \cup {created'}
    /\ client' = created'
    /\ stack' = created'

\* A call of connect that returns.
ConnectReturns ==
    \/ AlreadyConnected /\ UNCHANGED connection
    \/ ~AlreadyConnected /\ OpenSession

\* A call of connect whose handshake fails: the local stack is closed and
\* MQTTConnectionError raised, the attributes are untouched.
ConnectRaises == ~AlreadyConnected /\ UNCHANGED connection

-----------------------------------------------------------------------------
(* connect_with_retry: one action per attempt and per sleep                 *)

NoCallInProgress == phase \in {"idle", "exhausted"}

RetryStart ==
    /\ NoCallInProgress
    /\ phase' = "connecting"
    /\ attempt' = 1
    /\ delay' = InitialDelay
    /\ slept' = 0
    /\ UNCHANGED connection

RetryConnects ==
    /\ phase = "connecting"
    /\ ConnectReturns
    /\ phase' = "idle"
    /\ UNCHANGED <<attempt, delay, slept>>

LastAttemptMutant == attempt > MaxAttempts

LastAttemptEarlyMutant == attempt >= MaxAttempts - 1

LastAttempt == attempt = MaxAttempts

RetryFails ==
    /\ phase = "connecting"
    /\ ConnectRaises
    /\ phase' = IF LastAttempt THEN "exhausted" ELSE "sleeping"
    /\ UNCHANGED <<attempt, delay, slept>>

DoubledMutant(d) == 2 * d

\* The next delay: doubled, then capped.
Doubled(d) == IF 2 * d < MaxDelay THEN 2 * d ELSE MaxDelay

RetrySleepOver ==
    /\ phase = "sleeping"
    /\ phase' = "connecting"
    /\ attempt' = attempt + 1
    /\ slept' = slept + delay
    /\ delay' = Doubled(delay)
    /\ UNCHANGED connection

\* The calling task is cancelled inside connect_with_retry.  `except
\* Exception' does not see CancelledError, so the local stack is not closed
\* and a handshake the library already started may leave a session open that
\* no attribute refers to.
RetryCancelled ==
    /\ phase \in {"connecting", "sleeping"}
    /\ \/ UNCHANGED <<live, created>>
       \/ /\ phase = "connecting" /\ ~AlreadyConnected
          /\ created < MaxSessions
          /\ created' = created + 1
          /\ live' = live \cup {created'}
    /\ phase' = "idle"
    /\ UNCHANGED <<client, stack, attempt, delay, slept>>

-----------------------------------------------------------------------------
(* publish, subscribe, messages                                             *)

\* The library takes an operation only on a session it holds to be open.
OperationSucceeds ==
    /\ NoCallInProgress
    /\ client \in live
    /\ UNCHANGED vars

PublishSucceeds == OperationSucceeds

\* MqttError: the session was lost, or the operation timed out on a session
\* that is still open.  Only the handle is dropped, the stack keeps its own.
PublishFails ==
    /\ NoCallInProgress
    /\ client # None
    /\ client' = None
    /\ UNCHANGED <<stack, live, created, retry>>

\* Raised before the library is reached.
PublishRefused ==
    /\ NoCallInProgress
    /\ client = None
    /\ UNCHANGED vars

SubscribeSucceeds == OperationSucceeds

\* Unlike publish, a failing subscribe keeps the handle.
SubscribeFails ==
    /\ NoCallInProgress
    /\ client # None
    /\ UNCHANGED vars

SubscribeRefused == PublishRefused

\* The iterator of messages raises once its session has ended.
MessagesEnd ==
    /\ NoCallInProgress
    /\ client \notin live
    /\ UNCHANGED vars

-----------------------------------------------------------------------------
(* disconnect                                                               *)

HasSessionToCloseMutant == client # None

\* The guard of the closing branch: the stack, not the handle.
HasSessionToClose == stack # None

\* A session is closed by its exit callback, which runs once.
CloseSession ==
    /\ live' = IF HasSessionToClose THEN live \ {stack} ELSE live
    /\ stack' = IF HasSessionToClose THEN None ELSE stack

\* The exit callback of a session that ended in an error raises that error
\* again, so aclose returns for a live session only, or for no session.
DisconnectReturns ==
    /\ NoCallInProgress
    /\ HasSessionToClose => stack \in live
    /\ CloseSession
    /\ client' = None
    /\ UNCHANGED <<created, retry>>

\* aclose raises (the session had ended in an error, closing it fails, or the
\* caller is cancelled meanwhile): the callback is spent, and the lines that
\* reset the attributes are skipped.
DisconnectRaises ==
    /\ NoCallInProgress
    /\ HasSessionToClose
    /\ CloseSession
    /\ UNCHANGED <<client, created, retry>>

-----------------------------------------------------------------------------
(* The library learns that a session has ended; nothing tells the adapter.  *)

LinkLost ==
    /\ \E s \in live : live' = live \ {s}
    /\ UNCHANGED <<client, stack, created, retry>>

Connect == NoCallInProgress /\ (ConnectReturns \/ ConnectRaises) /\ UNCHANGED retry

Next ==
    \/ Connect
    \/ RetryStart \/ RetryConnects \/ RetryFails \/ RetrySleepOver
    \/ PublishSucceeds \/ PublishFails \/ PublishRefused
    \/ SubscribeSucceeds \/ SubscribeFails \/ SubscribeRefused
    \/ MessagesEnd
    \/ DisconnectReturns \/ DisconnectRaises
    \/ LinkLost

Spec == Init /\ [][Next]_vars

-----------------------------------------------------------------------------
(* Properties                                                               *)

\* Whatever traffic can flow through the handle flows through a session that
\* disconnect would close: publish, subscribe and disconnect write the two
\* attributes in different orders and on different error paths, and no
\* sequence of calls, losses and failures leaves a usable handle whose
\* session the stack does not hold.
UsableHandleIsClosable == client \in live => stack = client

\* InitialDelay * 2 ** n
Exponential[n \in Nat] == IF n = 0 THEN InitialDelay ELSE 2 * Exponential[n - 1]

\* The n-th delay, by its definition.
Delays == [n \in Nat \ {0} |->
            IF Exponential[n - 1] < MaxDelay THEN Exponential[n - 1] ELSE MaxDelay]

\* The sum of the first n delays.
Schedule[n \in Nat] == IF n = 0 THEN 0 ELSE Schedule[n - 1] + Delays[n]

\* The capped in-place doubling computes the exponential back-off that the
\* docstring of connect_with_retry names: ahead of attempt n it has slept the
\* first n - 1 of the delays.
BackoffSchedule == phase = "connecting" => slept = Schedule[attempt - 1]

\* connect never drops the exit callback of an open session while the handle
\* still refers to it: the only way to lose track of an open session is to
\* reconnect after a publish that failed on it.
NoSilentReplacement ==
    [][(stack \in live' /\ stack' # stack) => client = None]_vars

\* The class docstring (mqtt.py:36): what connect opened, disconnect closes.
\* After a disconnect that returned, no session is open.
DisconnectCloses == [][DisconnectReturns => live' = {}]_vars

=============================================================================
