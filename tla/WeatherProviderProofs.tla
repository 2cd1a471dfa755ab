------------------------ MODULE WeatherProviderProofs ------------------------
(***************************************************************************)
(* Proofs about WeatherProvider.  It uses its cache as the callers of      *)
(* TTLCache do, so that what is proved of TTLCache holds of it; and it     *)
(* waits by a schedule that two recursive functions define, whose defining *)
(* equations follow from the lemmas on recursion in AiomqttClientProofs.   *)
(***************************************************************************)
EXTENDS WeatherProvider, TLAPS

Proved == INSTANCE TTLCacheProofs

\* The lemmas on recursive functions speak of no constant and no variable of
\* the adapter, which may be anything that its assumptions allow.
Recursion == INSTANCE AiomqttClientProofs WITH
    MaxAttempts <- 1, InitialDelay <- 1, MaxDelay <- 1, MaxSessions <- 1,
    client <- 0, stack <- 0, live <- {}, created <- 0,
    phase <- "idle", attempt <- 0, delay <- 0, slept <- 0

-----------------------------------------------------------------------------
(* The cache of the provider is a TTLCache                                  *)

\* What the provider does to its cache are the steps that TTLCacheProofs
\* speaks of.
LEMMA SameSteps ==
    ASSUME NEW c \in Callers
    PROVE  /\ \A k \in Keys :
                /\ Cache!Hit(c, k) => Proved!Hit(c, k)
                /\ Cache!MissAndFetch(c, k) => Proved!MissAndFetch(c, k)
                /\ Cache!MissAndWait(c, k) => Proved!MissAndWait(c, k)
           /\ Cache!AcquireAndReturn(c) => Proved!AcquireAndReturn(c)
           /\ Cache!AcquireAndFetch(c) => Proved!AcquireAndFetch(c)
           /\ Cache!FactoryReturns(c) => Proved!FactoryReturns(c)
           /\ Cache!FactoryRaises(c) => Proved!FactoryRaises(c)
           /\ Cache!CancelWaiting(c) => Proved!CancelWaiting(c)
<1> USE DEF Cache!Cached, Proved!Cached, Cache!Purge, Proved!Purge, Cache!Absent, Proved!Absent
<1>1. ASSUME NEW k \in Keys
      PROVE  /\ Cache!Hit(c, k) => Proved!Hit(c, k)
             /\ Cache!MissAndFetch(c, k) => Proved!MissAndFetch(c, k)
             /\ Cache!MissAndWait(c, k) => Proved!MissAndWait(c, k)
  BY DEF Cache!Hit, Proved!Hit, Cache!HandOut, Proved!HandOut,
         Cache!MissAndFetch, Proved!MissAndFetch, Cache!MissAndWait, Proved!MissAndWait,
         Cache!IsLocked, Proved!IsLocked
<1>2. /\ Cache!AcquireAndReturn(c) => Proved!AcquireAndReturn(c)
      /\ Cache!AcquireAndFetch(c) => Proved!AcquireAndFetch(c)
  BY DEF Cache!AcquireAndReturn, Proved!AcquireAndReturn,
         Cache!AcquireAndFetch, Proved!AcquireAndFetch, Cache!HandOut, Proved!HandOut,
         Cache!Granted, Proved!Granted, Cache!Dequeue, Proved!Dequeue,
         Cache!DoubleCheck, Proved!DoubleCheck
<1>3. /\ Cache!FactoryReturns(c) => Proved!FactoryReturns(c)
      /\ Cache!FactoryRaises(c) => Proved!FactoryRaises(c)
  BY DEF Cache!FactoryReturns, Proved!FactoryReturns, Cache!FactoryRaises,
         Proved!FactoryRaises, Cache!Release, Proved!Release, Cache!Entry, Proved!Entry
<1>4. Cache!CancelWaiting(c) => Proved!CancelWaiting(c)
  BY DEF Cache!CancelWaiting, Proved!CancelWaiting, Cache!LeaveQueue, Proved!LeaveQueue,
         Cache!RemoveAt, Proved!RemoveAt
<1>5. QED
  BY <1>1, <1>2, <1>3, <1>4

\* Every step of the provider is one of the cache, or leaves the cache alone.
LEMMA CacheStep == [Next]_vars => [Proved!Next]_(Proved!vars)
<1> SUFFICES ASSUME [Next]_vars PROVE Proved!Next \/ UNCHANGED cache
  BY DEF cache, Proved!vars
<1>1. ASSUME NEW c \in Callers, NEW k \in Keys, Lookup(c, k)
      PROVE  Proved!Call(c)
  BY <1>1, SameSteps DEF Lookup, Proved!Call
<1>2. ASSUME NEW c \in Callers, Resume(c)
      PROVE  Proved!Resume(c) \/ UNCHANGED cache
  BY <1>2, SameSteps DEF Resume, Granted, Answered, Unusable, HttpErrorAndWait,
                         HttpErrorAndGiveUp, WaitOver, Refused, Proved!Resume
<1>3. ASSUME NEW c \in Callers, Cancel(c)
      PROVE  Proved!Resume(c) \/ Proved!CancelWaiting(c)
  BY <1>3, SameSteps DEF Cancel, Proved!Resume
<1>4. CASE Tick
  BY <1>4 DEF Tick, Cache!Tick, Proved!Tick, Proved!Next
<1>5. CASE OpenClient \/ Aclose \/ AcloseReturns \/ UNCHANGED vars
  BY <1>5 DEF OpenClient, Aclose, AcloseReturns, vars, cache
<1>6. QED
  BY <1>1, <1>2, <1>3, <1>4, <1>5 DEF Next, Proved!Next

\* Every behaviour of the provider is one of its cache.
THEOREM UsesTheCache == Spec => Proved!Spec
<1>1. Init => Proved!Init
  BY DEF Init, Cache!Init, Proved!Init, Cache!Absent, Proved!Absent
<1>2. QED
  BY <1>1, CacheStep, PTL DEF Spec, Proved!Spec

\* So what is proved of the cache holds here.
LEMMA CacheInvariant == Spec => []Proved!IInv
BY ProviderAssumption, UsesTheCache, Proved!Inductive, PTL

-----------------------------------------------------------------------------
(* The schedule of the waits                                                *)

\* Doubled is the function its definition describes.
LEMMA Doubling ==
    /\ Doubled[0] = InitialWait
    /\ \A n \in Nat : Doubled[n] \in Nat /\ Doubled[n + 1] = 2 * Doubled[n]
    /\ \A n \in Nat : \A i \in 0 .. n : Doubled[i] <= Doubled[n]
<1>1. InitialWait \in Nat
  BY ProviderAssumption
<1>2. Doubled = CHOOSE f : Recursion!Doubles(f, InitialWait)
  BY DEF Doubled, Recursion!Doubles
<1>3. Recursion!Doubles(Doubled, InitialWait)
  BY <1>1, <1>2, Recursion!DoublingExists
<1>4. QED
  BY <1>1, <1>3, Recursion!DoublingValues

\* What AsyncRetrying waits is what the schedule asks for: once the
\* exponential exceeds the cap it stays above it.
LEMMA WaitsAsAsked ==
    ASSUME NEW n \in Nat \ {0}
    PROVE  WaitTime(n) = Asked[n] /\ WaitTime(n) \in Nat
<1>1. InitialWait \in Nat /\ MaxWait \in Nat /\ n - 1 \in Nat
  BY ProviderAssumption
<1>2. /\ Doubled[n - 1] \in Nat /\ InitialWait <= Doubled[n - 1]
      /\ \A i \in 0 .. n - 1 : Doubled[i] \in Nat /\ Doubled[i] <= Doubled[n - 1]
  BY <1>1, Doubling
<1>3. CASE Doubled[n - 1] > MaxWait
  <2>1. n - 1 \in 0 .. n - 1
    BY <1>1
  <2>2. QED
    BY <1>1, <1>2, <1>3, <2>1 DEF WaitTime, Asked
<1>4. CASE ~(Doubled[n - 1] > MaxWait)
  <2>1. ~\E i \in 0 .. n - 1 : Doubled[i] > MaxWait
    BY <1>1, <1>2, <1>4
  <2>2. QED
    BY <1>1, <1>2, <1>4, <2>1 DEF WaitTime, Asked
<1>5. QED
  BY <1>3, <1>4

\* Schedule sums what is waited.
LEMMA Scheduling ==
    /\ Schedule[0] = 0
    /\ \A n \in Nat : /\ Schedule[n] \in Nat
                      /\ Schedule[n + 1] = Schedule[n] + WaitTime(n + 1)
<1>1. Asked \in [Nat \ {0} -> Nat]
  BY WaitsAsAsked DEF Asked
<1>2. Schedule = CHOOSE f : Recursion!SumsUp(f, Asked)
  BY DEF Schedule, Recursion!SumsUp
<1>3. Recursion!SumsUp(Schedule, Asked)
  BY <1>1, <1>2, Recursion!SumExists
<1>4. \A n \in Nat : Asked[n + 1] = WaitTime(n + 1)
  <2>1. \A n \in Nat : n + 1 \in Nat \ {0}
    OBVIOUS
  <2>2. QED
    BY <2>1, WaitsAsAsked
<1>5. QED
  BY <1>1, <1>3, <1>4, Recursion!SumValues

-----------------------------------------------------------------------------
(* The inductive invariant                                                  *)

\* A caller runs _fetch_temperature exactly while the cache runs its factory.
FetchesAsFactory == \A c \in Callers : stage[c] # "none" <=> pc[c] = "fetching"

\* An attempt that waits for the next one was not the last.
AttemptsLeft ==
    \A c \in Callers :
        /\ stage[c] # "none" => attempt[c] >= 1
        /\ stage[c] = "wait" => attempt[c] <= MaxRetries

IInv == TypeOK /\ FetchesAsFactory /\ AttemptsLeft /\ WaitsFollowSchedule

\* What a step that may start a fetch does to those of all callers.
LEMMA BeginStep ==
    ASSUME IInv, Cache!TypeOK', NEW c \in Callers, BeginFetch(c),
           pc[c] # "fetching", pc' = [pc EXCEPT ![c] = "fetching"]
    PROVE  IInv'
<1>1. /\ Cache!TypeOK /\ pc \in [Callers -> {"idle", "waiting", "fetching"}]
      /\ stage \in [Callers -> {"none", "request", "wait", "refused"}]
      /\ attempt \in [Callers -> 0 .. MaxRetries + 1]
      /\ waited \in [Callers -> Nat]
      /\ http \in {"none", "open", "closing"}
      /\ cut \subseteq {d \in Callers : stage[d] # "none"}
      /\ MaxRetries \in Nat
  BY ProviderAssumption DEF IInv, TypeOK, Cache!TypeOK
<1>2. PICK s \in {"request", "refused"} : stage' = [stage EXCEPT ![c] = s]
  BY DEF BeginFetch
<1>3. /\ attempt' = [attempt EXCEPT ![c] = 1] /\ waited' = [waited EXCEPT ![c] = 0]
      /\ http' \in {"none", "open", "closing"} /\ cut' = cut
  BY <1>1 DEF BeginFetch, EnsureClient
<1>4. TypeOK'
  BY <1>1, <1>2, <1>3 DEF TypeOK
<1>5. FetchesAsFactory'
  BY <1>1, <1>2 DEF IInv, FetchesAsFactory
<1>6. AttemptsLeft'
  BY <1>1, <1>2, <1>3 DEF IInv, AttemptsLeft
<1>7. WaitsFollowSchedule'
  BY <1>1, <1>2, <1>3, Scheduling DEF IInv, WaitsFollowSchedule
<1>8. QED
  BY <1>4, <1>5, <1>6, <1>7 DEF IInv

\* A step that ends the call of a caller ends its fetch, if it has one.
LEMMA EndStep ==
    ASSUME IInv, Cache!TypeOK', NEW c \in Callers, EndFetch(c),
           pc' = [pc EXCEPT ![c] = "idle"]
    PROVE  IInv'
<1>1. /\ Cache!TypeOK /\ pc \in [Callers -> {"idle", "waiting", "fetching"}]
      /\ stage \in [Callers -> {"none", "request", "wait", "refused"}]
      /\ cut \subseteq {d \in Callers : stage[d] # "none"}
  BY DEF IInv, TypeOK, Cache!TypeOK
<1>2. /\ stage' = [stage EXCEPT ![c] = "none"] /\ cut' = cut \ {c}
      /\ UNCHANGED <<attempt, waited, http>>
  BY DEF EndFetch
<1>3. TypeOK'
  BY <1>1, <1>2 DEF IInv, TypeOK
<1>4. FetchesAsFactory'
  BY <1>1, <1>2 DEF IInv, FetchesAsFactory
<1>5. AttemptsLeft'
  BY <1>1, <1>2 DEF IInv, AttemptsLeft
<1>6. WaitsFollowSchedule'
  BY <1>1, <1>2 DEF IInv, WaitsFollowSchedule
<1>7. QED
  BY <1>3, <1>4, <1>5, <1>6 DEF IInv

\* A step that neither begins nor ends a factory leaves every fetch as it is.
LEMMA QuietStep ==
    ASSUME IInv, Cache!TypeOK', NoFetch,
           \A c \in Callers : pc'[c] = "fetching" <=> pc[c] = "fetching"
    PROVE  IInv'
BY DEF IInv, TypeOK, FetchesAsFactory, AttemptsLeft, WaitsFollowSchedule,
       NoFetch, fetch, connection

\* The two steps between the attempts of one fetch.
LEMMA RetryStep ==
    ASSUME IInv, Cache!TypeOK', NEW c \in Callers, HttpErrorAndWait(c) \/ WaitOver(c)
    PROVE  IInv'
<1>1. /\ stage \in [Callers -> {"none", "request", "wait", "refused"}]
      /\ attempt \in [Callers -> 0 .. MaxRetries + 1] /\ waited \in [Callers -> Nat]
      /\ cut \subseteq {d \in Callers : stage[d] # "none"}
      /\ MaxRetries \in Nat /\ stage[c] # "none" /\ attempt[c] >= 1
      /\ waited[c] = Schedule[attempt[c] - 1]
  BY ProviderAssumption DEF IInv, TypeOK, AttemptsLeft, WaitsFollowSchedule,
                            HttpErrorAndWait, WaitOver
<1>2. pc' = pc /\ UNCHANGED <<http, cut>>
  BY DEF HttpErrorAndWait, WaitOver, cache, connection
<1>3. CASE HttpErrorAndWait(c)
  <2>1. /\ stage' = [stage EXCEPT ![c] = "wait"] /\ UNCHANGED <<attempt, waited>>
        /\ attempt[c] <= MaxRetries
    BY <1>1, <1>3 DEF HttpErrorAndWait, LastAttempt
  <2>2. TypeOK'
    BY <1>1, <1>2, <2>1 DEF IInv, TypeOK
  <2>3. FetchesAsFactory' /\ AttemptsLeft'
    BY <1>1, <1>2, <2>1 DEF IInv, FetchesAsFactory, AttemptsLeft
  <2>4. WaitsFollowSchedule'
    BY <1>1, <2>1 DEF IInv, WaitsFollowSchedule
  <2>5. QED
    BY <2>2, <2>3, <2>4 DEF IInv
<1>4. CASE WaitOver(c)
  <2>1. /\ stage' = [stage EXCEPT ![c] = "request"]
        /\ attempt' = [attempt EXCEPT ![c] = @ + 1]
        /\ waited' = [waited EXCEPT ![c] = @ + WaitTime(attempt[c])]
        /\ attempt[c] \in 1 .. MaxRetries
    BY <1>1, <1>4 DEF IInv, AttemptsLeft, WaitOver
  <2>2. WaitTime(attempt[c]) \in Nat
    BY <2>1, WaitsAsAsked
  <2>3. TypeOK'
    BY <1>1, <1>2, <2>1, <2>2 DEF IInv, TypeOK
  <2>4. FetchesAsFactory' /\ AttemptsLeft'
    BY <1>1, <1>2, <2>1 DEF IInv, FetchesAsFactory, AttemptsLeft
  <2>5. Schedule[attempt[c]] = waited[c] + WaitTime(attempt[c])
    <3>1. attempt[c] - 1 \in Nat /\ (attempt[c] - 1) + 1 = attempt[c]
      BY <2>1
    <3>2. QED
      BY <1>1, <3>1, Scheduling
  <2>6. attempt'[c] - 1 = attempt[c] /\ waited'[c] = waited[c] + WaitTime(attempt[c])
    BY <1>1, <2>1
  <2>7. WaitsFollowSchedule'
    BY <1>1, <2>1, <2>5, <2>6 DEF IInv, WaitsFollowSchedule
  <2>8. QED
    BY <2>3, <2>4, <2>7 DEF IInv
<1>5. QED
  BY <1>3, <1>4

\* The HTTP client comes and goes under the fetches.
LEMMA ClientStep ==
    ASSUME IInv, Cache!TypeOK', OpenClient \/ Aclose \/ AcloseReturns
    PROVE  IInv'
<1>1. UNCHANGED <<pc, stage, attempt, waited>> /\ http' \in {"none", "open", "closing"}
  BY DEF OpenClient, Aclose, AcloseReturns, EnsureClient, cache, fetch
<1>2. cut' \subseteq {c \in Callers : stage[c] # "none"}
  BY DEF IInv, TypeOK, OpenClient, Aclose, AcloseReturns
<1>3. QED
  BY <1>1, <1>2 DEF IInv, TypeOK, FetchesAsFactory, AttemptsLeft, WaitsFollowSchedule

\* Every step of the provider keeps the invariant.
LEMMA Preserved == IInv /\ Cache!TypeOK' /\ [Next]_vars => IInv'
<1> SUFFICES ASSUME IInv, Cache!TypeOK', [Next]_vars PROVE IInv'
  OBVIOUS
<1>1. pc \in [Callers -> {"idle", "waiting", "fetching"}]
  BY DEF IInv, TypeOK, Cache!TypeOK
<1>2. ASSUME NEW c \in Callers, NEW k \in Keys, Lookup(c, k) PROVE IInv'
  <2>1. CASE Cache!MissAndFetch(c, k) /\ BeginFetch(c)
    BY <1>1, <2>1, BeginStep DEF Cache!MissAndFetch
  <2>2. CASE (Cache!Hit(c, k) \/ Cache!MissAndWait(c, k)) /\ NoFetch
    <3>1. \A d \in Callers : pc'[d] = "fetching" <=> pc[d] = "fetching"
      BY <1>1, <2>2 DEF Cache!Hit, Cache!MissAndWait
    <3>2. QED
      BY <2>2, <3>1, QuietStep
  <2>3. QED
    BY <1>2, <2>1, <2>2 DEF Lookup
<1>3. ASSUME NEW c \in Callers, Granted(c) PROVE IInv'
  <2>1. CASE Cache!AcquireAndFetch(c) /\ BeginFetch(c)
    BY <1>1, <2>1, BeginStep DEF Cache!AcquireAndFetch, Cache!Granted
  <2>2. CASE Cache!AcquireAndReturn(c) /\ NoFetch
    <3>1. \A d \in Callers : pc'[d] = "fetching" <=> pc[d] = "fetching"
      BY <1>1, <2>2 DEF Cache!AcquireAndReturn, Cache!Granted
    <3>2. QED
      BY <2>2, <3>1, QuietStep
  <2>3. QED
    BY <1>3, <2>1, <2>2 DEF Granted
<1>4. ASSUME NEW c \in Callers,
             \/ Answered(c) \/ Unusable(c) \/ HttpErrorAndGiveUp(c)
             \/ Refused(c) \/ Cancel(c)
      PROVE  IInv'
  <2>1. EndFetch(c) /\ pc' = [pc EXCEPT ![c] = "idle"]
    BY <1>4 DEF Answered, Unusable, HttpErrorAndGiveUp, Refused, Cancel, Cache!FactoryReturns,
                Cache!FactoryRaises, Cache!CancelWaiting, Cache!Release
  <2>2. QED
    BY <2>1, EndStep
<1>5. ASSUME NEW c \in Callers, HttpErrorAndWait(c) \/ WaitOver(c) PROVE IInv'
  BY <1>5, RetryStep
<1>6. CASE OpenClient \/ Aclose \/ AcloseReturns
  BY <1>6, ClientStep
<1>7. CASE Tick \/ UNCHANGED vars
  <2>1. NoFetch /\ pc' = pc
    BY <1>7 DEF Tick, Cache!Tick, vars, NoFetch, fetch, connection
  <2>2. QED
    BY <2>1, QuietStep
<1>8. QED
  BY <1>2, <1>3, <1>4, <1>5, <1>6, <1>7 DEF Next, Resume

-----------------------------------------------------------------------------

\* The invariant holds, given that of the cache.
THEOREM Inductive == Spec => []IInv
<1>1. Proved!IInv => Cache!TypeOK
  BY DEF Proved!IInv, Proved!TypeOK, Cache!TypeOK, Proved!Entries, Cache!Entries,
         Proved!Absent, Cache!Absent
<1>2. Init /\ Cache!TypeOK => IInv
  BY ProviderAssumption, Scheduling
     DEF Init, Cache!Init, IInv, TypeOK, FetchesAsFactory, AttemptsLeft, WaitsFollowSchedule
<1>3. IInv /\ Cache!TypeOK' /\ [Next]_vars => IInv'
  BY Preserved
<1>4. QED
  BY <1>1, <1>2, <1>3, CacheInvariant, PTL DEF Spec

\* Type correctness, that of the cache included.
THEOREM TypeCorrect == Spec => []TypeOK
<1>1. IInv => TypeOK
  BY DEF IInv
<1>2. QED
  BY <1>1, Inductive, PTL

\* The weather API gets one request per place at a time, from the caller that
\* holds the lock, whatever fails, retries or is cancelled.
THEOREM AsksOncePerPlace == Spec => []SingleRequestPerPlace
<1>1. IInv /\ Proved!IInv => SingleRequestPerPlace
  BY DEF IInv, FetchesAsFactory, SingleRequestPerPlace, Proved!IInv, Proved!LockDiscipline
<1>2. QED
  BY <1>1, Inductive, CacheInvariant, PTL

\* Every attempt comes after exactly the waits that the schedule asks for, for
\* any first wait, any cap and any number of retries.
THEOREM WaitsAreOnSchedule == Spec => []WaitsFollowSchedule
<1>1. IInv => WaitsFollowSchedule
  BY DEF IInv
<1>2. QED
  BY <1>1, Inductive, PTL

==============================================================================
