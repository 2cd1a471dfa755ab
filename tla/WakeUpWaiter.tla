---------------------------- MODULE WakeUpWaiter ----------------------------
(***************************************************************************)
(* infrastructure/wakeup.py: BrokerWakeUpWaiter.wait_until_ready, with the *)
(* HTTP client it creates on first use and closes on leaving the context.  *)
(*                                                                         *)
(* now is the monotonic clock in whole ticks since the call; it moves while *)
(* the coroutine is suspended in a request or in a sleep.  httpx and the   *)
(* event loop are external: a request ends with an answer or an HTTP error *)
(* within RequestLimit (the configured timeout bounds each of its phases), *)
(* and a sleep ends at most Lateness after the time it asked for.          *)
(***************************************************************************)
EXTENDS Integers

CONSTANTS
    Timeout,        \* timeout_seconds
    Interval,       \* interval_seconds
    RequestLimit,   \* longest a request takes, all of its phases together
    Lateness        \* latest the event loop resumes a sleeper

\* WakeUpConfig takes strictly positive durations only.
ASSUME WakeUpAssumption ==
    /\ Timeout \in Nat \ {0}
    /\ Interval \in Nat \ {0}
    /\ RequestLimit \in Nat
    /\ Lateness \in Nat

VARIABLES
    now,        \* time.monotonic(), counted from the call
    pc,         \* where wait_until_ready is
    wakeAt,     \* the time the current sleep asked for
    answer,     \* how the last request ended
    result,     \* what wait_until_ready returned
    http        \* the waiter's HTTP client

vars == <<now, pc, wakeAt, answer, result, http>>

Answers == {"none", "ok", "not_ready", "error"}

\* Every variable has its type.
TypeOK ==
    /\ now \in Nat
    /\ pc \in {"start", "check", "request", "sleep", "leave", "done"}
    /\ wakeAt \in Nat
    /\ answer \in Answers
    /\ result \in {"none", "ready", "timeout"}
    /\ http \in {"none", "open"}

\* The context was entered, which created the client.
Init ==
    /\ now = 0
    /\ pc = "start"
    /\ wakeAt = 0
    /\ answer = "none"
    /\ result = "none"
    /\ http = "open"

Return(r) == result' = r /\ pc' = "leave"

-----------------------------------------------------------------------------
(* wait_until_ready                                                         *)

\* WAKEUP_ENABLED is false or WAKEUP_URL empty.
Disabled ==
    /\ pc = "start"
    /\ Return("ready")
    /\ UNCHANGED <<now, wakeAt, answer, http>>

\* The deadline is Timeout after this moment, which is time 0.
Enabled ==
    /\ pc = "start"
    /\ pc' = "check"
    /\ UNCHANGED <<now, wakeAt, answer, result, http>>

BeforeDeadlineMutant == now <= Timeout

BeforeDeadline == now < Timeout

Request ==
    /\ pc = "check"
    /\ BeforeDeadline
    /\ pc' = "request"
    /\ UNCHANGED <<now, wakeAt, answer, result, http>>

GiveUp ==
    /\ pc = "check"
    /\ ~BeforeDeadline
    /\ Return("timeout")
    /\ UNCHANGED <<now, wakeAt, answer, http>>

IsReadyMutant(a) == a \in {"ok", "not_ready"}

\* Status 200 and body OK.
IsReady(a) == a = "ok"

\* An answer that comes after the deadline still counts.
RequestAnswersReady ==
    /\ pc = "request"
    /\ \E spent \in 0 .. RequestLimit : now' = now + spent
    /\ \E a \in {"ok", "not_ready"} : IsReady(a) /\ answer' = a
    /\ Return("ready")
    /\ UNCHANGED <<wakeAt, http>>

SleepTimeMutant(remaining) == Interval

SleepTimeSwappedMutant(remaining) ==
    IF remaining < Interval THEN Interval - remaining ELSE 0

SleepTimeNegativeMutant(remaining) == Interval - remaining

\* How long to sleep with so much time left.
SleepTime(remaining) == IF Interval < remaining THEN Interval ELSE remaining

\* Any other answer, or an HTTP error, which is swallowed: give up if no time
\* remains, else sleep.
RequestIsNotReady ==
    /\ pc = "request"
    /\ \E spent \in 0 .. RequestLimit : now' = now + spent
    /\ \E a \in {"ok", "not_ready", "error"} : ~IsReady(a) /\ answer' = a
    /\ \/ /\ now' >= Timeout
          /\ Return("timeout")
          /\ UNCHANGED wakeAt
       \/ /\ now' < Timeout
          /\ wakeAt' = now' + SleepTime(Timeout - now')
          /\ pc' = "sleep"
          /\ UNCHANGED result
    /\ UNCHANGED http

Wake ==
    /\ pc = "sleep"
    /\ \E late \in 0 .. Lateness : now' = wakeAt + late
    /\ pc' = "check"
    /\ UNCHANGED <<wakeAt, answer, result, http>>

-----------------------------------------------------------------------------
(* Leaving                                                                  *)

\* What is no httpx.HTTPError leaves the wait: CancelledError (asyncio.run on
\* Ctrl+C), or what httpx raises for a URL it cannot use.
Interrupt ==
    /\ pc \in {"request", "sleep"}
    /\ pc' = "leave"
    /\ UNCHANGED result

\* CancelledError (or an error) out of the aclose that __aexit__ awaits: what
\* wait_until_ready returned is lost, and the client is not forgotten.
InterruptLeaving ==
    /\ pc = "leave"
    /\ pc' = "done"
    /\ result' = "none"

Cancel ==
    /\ Interrupt \/ InterruptLeaving
    /\ UNCHANGED <<now, wakeAt, answer, http>>

\* __aexit__, on every way out of the context.
Leave ==
    /\ pc = "leave"
    /\ pc' = "done"
    /\ http' = "none"
    /\ UNCHANGED <<now, wakeAt, answer, result>>

Step ==
    \/ Disabled \/ Enabled \/ Request \/ GiveUp
    \/ RequestAnswersReady \/ RequestIsNotReady \/ Wake \/ Leave

\* The context has been left.
Terminated == pc = "done" /\ UNCHANGED vars

Next == Step \/ Cancel \/ Terminated

Spec == Init /\ [][Next]_vars

\* The event loop resumes the coroutine, and a request ends.
FairSpec == Spec /\ WF_vars(Step)

-----------------------------------------------------------------------------
(* Properties                                                               *)

\* The wait overruns its deadline by less than one request or by the lateness
\* of one wake-up, never by an interval and never by both.
OverrunIsBounded ==
    now < Timeout + RequestLimit \/ now <= Timeout + Lateness

\* What is returned is earned: ready with the answer OK or with no question
\* asked, a timeout only once the deadline has passed and not on an OK.
ResultIsEarned ==
    /\ result = "ready" => answer \in {"ok", "none"}
    /\ result = "timeout" => now >= Timeout /\ answer \notin {"ok", "none"}

\* Requests are at least an interval apart, but for the last one, for which
\* less than an interval was left; and none is sent after the deadline.
RequestsAreSpaced ==
    [][(pc = "sleep" /\ pc' = "check")
       => (wakeAt <= Timeout /\ (now' - now < Interval => now' >= Timeout))]_vars

\* wait_until_ready comes back, however the service answers.
WaitEnds == <>(pc = "done")

=============================================================================
