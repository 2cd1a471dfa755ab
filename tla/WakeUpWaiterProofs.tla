------------------------- MODULE WakeUpWaiterProofs -------------------------
(***************************************************************************)
(* Proofs about WakeUpWaiter.  The overrun of the deadline is bounded      *)
(* because of where the coroutine can be at each time: it asks only before *)
(* the deadline, and what it sleeps for never reaches past it.             *)
(***************************************************************************)
EXTENDS WakeUpWaiter, TLAPS

\* Where the coroutine is limits the time it is, and the time it sleeps for.
Timing ==
    /\ pc = "start" => now = 0
    /\ pc = "check" => now <= Timeout + Lateness
    /\ pc = "request" => now < Timeout
    /\ pc = "sleep" =>
            /\ now < Timeout
            /\ now < wakeAt /\ wakeAt <= Timeout
            /\ wakeAt - now >= Interval \/ wakeAt = Timeout

\* What the last request answered, where the coroutine is.
Asked ==
    /\ pc = "start" => answer = "none"
    /\ pc = "sleep" => answer \in {"not_ready", "error"}
    /\ pc \in {"start", "check", "request", "sleep"} => result = "none"
    /\ pc \in {"check", "request"} =>
            \/ answer \in {"not_ready", "error"}
            \/ answer = "none" /\ now = 0

IInv == TypeOK /\ Timing /\ Asked /\ OverrunIsBounded /\ ResultIsEarned

\* The sleep is positive, and no longer than either of its bounds.
LEMMA SleepTimeBounds ==
    ASSUME NEW remaining \in Nat \ {0}
    PROVE  /\ SleepTime(remaining) \in Nat \ {0}
           /\ SleepTime(remaining) <= remaining
           /\ SleepTime(remaining) >= Interval \/ SleepTime(remaining) = remaining
BY WakeUpAssumption, SMT DEF SleepTime

\* Before the deadline there is time left.
LEMMA TimeLeft ==
    ASSUME NEW t \in Nat, t < Timeout
    PROVE  Timeout - t \in Nat \ {0}
BY WakeUpAssumption, SMT

\* The invariant holds initially.
LEMMA InitIInv == Init => IInv
BY WakeUpAssumption, SMT
DEF Init, IInv, TypeOK, Timing, Asked, OverrunIsBounded, ResultIsEarned, Answers

\* Every step keeps the invariant.
LEMMA StepIInv == IInv /\ [Next]_vars => IInv'
<1> SUFFICES ASSUME IInv, [Next]_vars PROVE IInv'
    OBVIOUS
<1> USE WakeUpAssumption
        DEF IInv, TypeOK, Timing, Asked, OverrunIsBounded, ResultIsEarned, Answers
<1>1. CASE Disabled
    BY <1>1, SMT DEF Disabled, Return
<1>2. CASE Enabled
    BY <1>2, SMT DEF Enabled
<1>3. CASE Request
    BY <1>3, SMT DEF Request, BeforeDeadline
<1>4. CASE GiveUp
    BY <1>4, SMT DEF GiveUp, BeforeDeadline, Return
<1>5. CASE RequestAnswersReady
    BY <1>5, SMT DEF RequestAnswersReady, IsReady, Return
<1>6. CASE RequestIsNotReady
    <2>1. now' \in Nat /\ now' < Timeout + RequestLimit
        BY <1>6, SMT DEF RequestIsNotReady
    <2>2. answer' \in {"not_ready", "error"}
        BY <1>6, SMT DEF RequestIsNotReady, IsReady
    <2>3. CASE now' >= Timeout /\ Return("timeout") /\ UNCHANGED wakeAt
        BY <1>6, <2>1, <2>2, <2>3, SMT DEF RequestIsNotReady, Return
    <2>4. CASE /\ now' < Timeout
               /\ wakeAt' = now' + SleepTime(Timeout - now')
               /\ pc' = "sleep"
               /\ UNCHANGED result
        <3>1. Timeout - now' \in Nat \ {0}
            BY <2>1, <2>4, TimeLeft
        <3>2. /\ SleepTime(Timeout - now') \in Nat \ {0}
              /\ SleepTime(Timeout - now') <= Timeout - now'
              /\ \/ SleepTime(Timeout - now') >= Interval
                 \/ SleepTime(Timeout - now') = Timeout - now'
            BY <3>1, SleepTimeBounds
        <3> HIDE DEF SleepTime
        <3> QED
            BY <1>6, <2>1, <2>2, <2>4, <3>1, <3>2, SMT DEF RequestIsNotReady
    <2> QED
        BY <1>6, <2>3, <2>4 DEF RequestIsNotReady
<1>7. CASE Wake
    BY <1>7, SMT DEF Wake
<1>8. CASE Leave
    BY <1>8, SMT DEF Leave
<1>9. CASE Cancel
    BY <1>9, SMT DEF Cancel, Interrupt, InterruptLeaving
<1>10. CASE UNCHANGED vars
    BY <1>10, SMT DEF vars
<1> QED
    BY <1>1, <1>2, <1>3, <1>4, <1>5, <1>6, <1>7, <1>8, <1>9, <1>10
    DEF Next, Step, Terminated

\* Every reachable state satisfies the invariant.
THEOREM Inductive == Spec => []IInv
BY InitIInv, StepIInv, PTL DEF Spec

\* Every variable keeps its type.
THEOREM TypeCorrect == Spec => []TypeOK
<1>1. IInv => TypeOK
    BY DEF IInv
<1> QED
    BY Inductive, <1>1, PTL

\* For every timeout, interval, request limit and lateness, the wait ends
\* within one request or one late wake-up of its deadline.
THEOREM BoundedOverrun == Spec => []OverrunIsBounded
<1>1. IInv => OverrunIsBounded
    BY DEF IInv
<1> QED
    BY Inductive, <1>1, PTL

\* Ready is returned for an OK only, a timeout after the deadline only.
THEOREM EarnsItsResult == Spec => []ResultIsEarned
<1>1. IInv => ResultIsEarned
    BY DEF IInv
<1> QED
    BY Inductive, <1>1, PTL

\* Two requests are an interval apart, or the second is never sent.
THEOREM SpacesItsRequests == Spec => RequestsAreSpaced
<1>1. ASSUME IInv, [Next]_vars, pc = "sleep", pc' = "check"
      PROVE  wakeAt <= Timeout /\ (now' - now < Interval => now' >= Timeout)
    <2>1. Wake
        BY <1>1, SMT
        DEF Next, Step, Disabled, Enabled, Request, GiveUp, RequestAnswersReady,
            RequestIsNotReady, Leave, Cancel, Interrupt, InterruptLeaving,
            Terminated, vars
    <2> QED
        BY <1>1, <2>1, WakeUpAssumption, SMT DEF IInv, TypeOK, Timing, Wake
<1>2. IInv /\ [Next]_vars =>
        [(pc = "sleep" /\ pc' = "check")
         => (wakeAt <= Timeout /\ (now' - now < Interval => now' >= Timeout))]_vars
    BY <1>1
<1> QED
    BY Inductive, <1>2, PTL DEF Spec, RequestsAreSpaced

=============================================================================
