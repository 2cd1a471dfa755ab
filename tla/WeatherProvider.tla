--------------------------- MODULE WeatherProvider ---------------------------
(***************************************************************************)
(* infrastructure/weather.py: get_temperature_celsius over the cache of    *)
(* TTLCache, with _fetch_temperature as its factory.  A key is a pair of   *)
(* coordinates.  httpx and tenacity are external: a request ends with an   *)
(* answer or an httpx.HTTPError (a timeout, a transport error, or a status *)
(* that raise_for_status refuses), and AsyncRetrying stops, waits and      *)
(* retries as it was told.  The waits are counted, and not tied to the     *)
(* clock of the cache, which may tick at any moment.                       *)
(*                                                                         *)
(* The HTTP client is opened on demand, by the first fetch or __aenter__   *)
(* (OpenClient), and closed by aclose; a fetch keeps the client it began   *)
(* with, and httpx refuses a request on a closed client with an error that *)
(* is no httpx.HTTPError.                                                  *)
(***************************************************************************)
EXTENDS Integers, Sequences

CONSTANTS
    Callers, Keys, TTL, MaxTime,    \* see TTLCache
    MaxRetries,                     \* max_retries
    InitialWait,                    \* initial_retry_wait_seconds
    MaxWait                         \* longest wait between two attempts (30)

\* What the configuration accepts.
ASSUME ProviderAssumption ==
    /\ TTL \in Nat \ {0}
    /\ MaxTime \in Nat
    /\ MaxRetries \in Nat
    /\ InitialWait \in Nat \ {0}
    /\ MaxWait \in Nat \ {0}

VARIABLES
    now, entries, locked, waiters, pc, key, served,     \* the cache
    stage,      \* what _fetch_temperature awaits for each caller, if it runs
    attempt,    \* number of its last attempt
    waited,     \* how long it has waited between its attempts
    http,       \* _client: "none", "open", or "closing" while aclose awaits
    cut         \* callers whose fetch runs on a client that was closed

cache == <<now, entries, locked, waiters, pc, key, served>>
fetch == <<stage, attempt, waited>>
connection == <<http, cut>>
vars == <<now, entries, locked, waiters, pc, key, served,
          stage, attempt, waited, http, cut>>

Cache == INSTANCE TTLCache

\* Every variable has its type.
TypeOK ==
    /\ Cache!TypeOK
    /\ stage \in [Callers -> {"none", "request", "wait", "refused"}]
    /\ attempt \in [Callers -> 0 .. MaxRetries + 1]
    /\ waited \in [Callers -> Nat]
    /\ http \in {"none", "open", "closing"}
    /\ cut \subseteq {c \in Callers : stage[c] # "none"}

Init ==
    /\ Cache!Init
    /\ stage = [c \in Callers |-> "none"]
    /\ attempt = [c \in Callers |-> 0]
    /\ waited = [c \in Callers |-> 0]
    /\ http = "none" /\ cut = {}

-----------------------------------------------------------------------------
(* The HTTP client                                                          *)

\* _ensure_client: a client that is being closed is still the one in use.
EnsureClient == http' = IF http = "none" THEN "open" ELSE http

\* __aenter__
OpenClient ==
    /\ http = "none"
    /\ EnsureClient
    /\ UNCHANGED <<cache, fetch, cut>>

\* aclose up to its await: httpx marks the client as closed at once.
Aclose ==
    /\ http = "open"
    /\ http' = "closing"
    /\ cut' = {c \in Callers : stage[c] # "none"}
    /\ UNCHANGED <<cache, fetch>>

AcloseReturns ==
    /\ http = "closing"
    /\ http' = "none"
    /\ UNCHANGED <<cache, fetch, cut>>

-----------------------------------------------------------------------------
(* get_temperature_celsius                                                  *)

BeginFetch(c) ==
    /\ stage' = [stage EXCEPT ![c] = IF http = "closing" THEN "refused" ELSE "request"]
    /\ attempt' = [attempt EXCEPT ![c] = 1]
    /\ waited' = [waited EXCEPT ![c] = 0]
    /\ EnsureClient
    /\ UNCHANGED cut

NoFetch == UNCHANGED <<fetch, connection>>

\* The call finds a value, becomes a waiter, or starts to fetch.
Lookup(c, k) ==
    \/ (Cache!Hit(c, k) \/ Cache!MissAndWait(c, k)) /\ NoFetch
    \/ Cache!MissAndFetch(c, k) /\ BeginFetch(c)

\* The lock is granted: the value has come meanwhile, or c fetches it.
Granted(c) ==
    \/ Cache!AcquireAndReturn(c) /\ NoFetch
    \/ Cache!AcquireAndFetch(c) /\ BeginFetch(c)

-----------------------------------------------------------------------------
(* _fetch_temperature                                                       *)

EndFetch(c) ==
    /\ stage' = [stage EXCEPT ![c] = "none"]
    /\ cut' = cut \ {c}
    /\ UNCHANGED <<attempt, waited, http>>

\* The factory returns, and with it get_or_set.
Answered(c) ==
    /\ stage[c] = "request"
    /\ Cache!FactoryReturns(c)
    /\ EndFetch(c)

\* The answer is no JSON, no object, or has no temperature that is a number.
\* Whatever error that is, WeatherProviderError or other, it is not retried.
Unusable(c) ==
    /\ stage[c] = "request"
    /\ Cache!FactoryRaises(c)
    /\ EndFetch(c)

LastAttemptMutant(c) == attempt[c] > MaxRetries + 1

\* stop_after_attempt
LastAttempt(c) == attempt[c] = MaxRetries + 1

HttpErrorAndWait(c) ==
    /\ stage[c] = "request"
    /\ ~LastAttempt(c)
    /\ stage' = [stage EXCEPT ![c] = "wait"]
    /\ UNCHANGED <<cache, attempt, waited, connection>>

\* The last HTTPError is re-raised, and translated.
HttpErrorAndGiveUp(c) ==
    /\ stage[c] = "request"
    /\ LastAttempt(c)
    /\ Cache!FactoryRaises(c)
    /\ EndFetch(c)

\* InitialWait * 2 ** n
Doubled[n \in Nat] == IF n = 0 THEN InitialWait ELSE 2 * Doubled[n - 1]

WaitTimeMutant(n) == Doubled[n]

\* wait_exponential after the n-th attempt: the exponential, at most MaxWait,
\* and in any case at least InitialWait.
WaitTime(n) ==
    LET exponential == Doubled[n - 1]
        capped == IF exponential < MaxWait THEN exponential ELSE MaxWait
    IN  IF capped < InitialWait THEN InitialWait ELSE capped

WaitOver(c) ==
    /\ stage[c] = "wait" /\ c \notin cut
    /\ stage' = [stage EXCEPT ![c] = "request"]
    /\ waited' = [waited EXCEPT ![c] = @ + WaitTime(attempt[c])]
    /\ attempt' = [attempt EXCEPT ![c] = @ + 1]
    /\ UNCHANGED <<cache, connection>>

\* The request is refused: the client was closed during the wait, or was being
\* closed when the fetch began.  That is no HTTPError: neither retried nor
\* translated.
Refused(c) ==
    /\ stage[c] = "refused" \/ (stage[c] = "wait" /\ c \in cut)
    /\ Cache!FactoryRaises(c)
    /\ EndFetch(c)

-----------------------------------------------------------------------------

\* CancelledError passes through the retries and the lock.
Cancel(c) ==
    /\ Cache!CancelWaiting(c) \/ Cache!FactoryRaises(c)
    /\ EndFetch(c)

Tick ==
    /\ Cache!Tick
    /\ UNCHANGED <<fetch, connection>>

Resume(c) ==
    \/ Granted(c)
    \/ Answered(c) \/ Unusable(c)
    \/ HttpErrorAndWait(c) \/ HttpErrorAndGiveUp(c)
    \/ WaitOver(c) \/ Refused(c)

Next ==
    \/ \E c \in Callers :
        (\E k \in Keys : Lookup(c, k)) \/ Resume(c) \/ Cancel(c)
    \/ Tick
    \/ OpenClient \/ Aclose \/ AcloseReturns

Spec == Init /\ [][Next]_vars

\* A request ends by its timeout, a wait by itself, and the event loop
\* resumes what can run.
FairSpec == Spec /\ \A c \in Callers : WF_vars(Resume(c))

-----------------------------------------------------------------------------
(* Properties                                                               *)

\* weather.py:76-77: whatever number of calls there are for a place, at most
\* one of them has a request to the API in flight or is about to retry one,
\* and it is the one that holds the lock of the cache.
SingleRequestPerPlace ==
    /\ \A c \in Callers : stage[c] # "none" => key[c] \in locked
    /\ \A c, d \in Callers :
        (stage[c] # "none" /\ stage[d] # "none" /\ key[c] = key[d]) => c = d

\* The n-th wait, by its definition: doubling from InitialWait for as long as
\* that stays within the cap, then the cap.
Asked == [n \in Nat \ {0} |->
            IF \E i \in 0 .. n - 1 : Doubled[i] > MaxWait
            THEN (IF InitialWait > MaxWait THEN InitialWait ELSE MaxWait)
            ELSE Doubled[n - 1]]

\* The sum of the first n waits.
Schedule[n \in Nat] == IF n = 0 THEN 0 ELSE Schedule[n - 1] + Asked[n]

\* A call has slept what the schedule asks for ahead of its attempt, no less
\* (hammering the API) and no more.
WaitsFollowSchedule ==
    \A c \in Callers :
        stage[c] # "none" => waited[c] = Schedule[attempt[c] - 1]

\* Every call ends, however often the API fails and whoever is cancelled.
EveryCallEnds == \A c \in Callers : (pc[c] # "idle") ~> (pc[c] = "idle")

=============================================================================
