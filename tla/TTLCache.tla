------------------------------ MODULE TTLCache ------------------------------
(***************************************************************************)
(* infrastructure/cache.py: entries with a deadline, one asyncio.Lock per  *)
(* key, and the double-checked get_or_set.                                 *)
(*                                                                         *)
(* The bodies under the global lock contain no await, so that lock is      *)
(* never contended and each of them is part of the step that reaches it.   *)
(* A call of get_or_set can be suspended in two places only: on the lock   *)
(* of its key and in its factory.  asyncio.Lock is external: it serves its *)
(* waiters in order, and a newcomer takes a free lock only when nobody     *)
(* waits for it.  A value is represented by the time it was made; times    *)
(* are whole ticks of the clock.                                           *)
(***************************************************************************)
EXTENDS Integers, Sequences, SequencesExt

CONSTANTS
    Callers,    \* coroutines that call get_or_set
    Keys,       \* cache keys
    TTL,        \* ttl_seconds
    MaxTime     \* bound on the clock

\* __init__ refuses a TTL that is not strictly positive.
ASSUME CacheAssumption == TTL \in Nat \ {0} /\ MaxTime \in Nat

VARIABLES
    now,        \* the clock
    entries,    \* _entries, with Absent for the keys it lacks
    locked,     \* the keys whose lock is held
    waiters,    \* the callers queued on each key's lock
    pc,         \* what each caller is suspended on, if anything
    key,        \* the key of its call
    served      \* age of the last value it was handed

vars == <<now, entries, locked, waiters, pc, key, served>>

Absent == [madeAt |-> 0, expiresAt |-> 0]

EntryMutant(t) == [madeAt |-> t, expiresAt |-> TTL]

\* What set stores at time t.
Entry(t) == [madeAt |-> t, expiresAt |-> t + TTL]

Entries == {Absent} \cup {[madeAt |-> t, expiresAt |-> t + TTL] : t \in 0 .. MaxTime}

\* Every variable has its type; a stored entry expires TTL after it was made.
TypeOK ==
    /\ now \in 0 .. MaxTime
    /\ entries \in [Keys -> Entries]
    /\ locked \subseteq Keys
    /\ waiters \in [Keys -> Seq(Callers)]
    /\ pc \in [Callers -> {"idle", "waiting", "fetching"}]
    /\ key \in [Callers -> Keys]
    /\ served \in [Callers -> Nat]

Init ==
    /\ now = 0
    /\ entries = [k \in Keys |-> Absent]
    /\ locked = {}
    /\ waiters = [k \in Keys |-> <<>>]
    /\ pc = [c \in Callers |-> "idle"]
    /\ key \in {[c \in Callers |-> k] : k \in Keys}
    /\ served = [c \in Callers |-> 0]

-----------------------------------------------------------------------------
(* get                                                                      *)

CachedMutant(k) == entries[k] # Absent /\ entries[k].expiresAt >= now

\* get finds an entry whose deadline has not passed.
Cached(k) == entries[k] # Absent /\ entries[k].expiresAt > now

\* A get that does not find a valid entry deletes the expired one.
Purge(k) == entries' = [entries EXCEPT ![k] = IF Cached(k) THEN @ ELSE Absent]

Get(k) ==
    /\ Purge(k)
    /\ UNCHANGED <<now, locked, waiters, pc, key, served>>

-----------------------------------------------------------------------------
(* get_or_set                                                               *)

\* A newcomer has to queue when the lock is held or others are queued.
IsLocked(k) == k \in locked \/ waiters[k] # <<>>

\* A caller is handed the entry it found.
HandOut(c, k) == served' = [served EXCEPT ![c] = now - entries[k].madeAt]

\* The first get finds a value.
Hit(c, k) ==
    /\ pc[c] = "idle"
    /\ Cached(k)
    /\ HandOut(c, k)
    /\ UNCHANGED <<now, entries, locked, waiters, pc, key>>

MissAndFetchMutant(c, k) ==
    /\ pc[c] = "idle"
    /\ ~Cached(k)
    /\ Purge(k)
    /\ locked' = locked \cup {k}
    /\ pc' = [pc EXCEPT ![c] = "fetching"]
    /\ key' = [key EXCEPT ![c] = k]
    /\ UNCHANGED <<now, waiters, served>>

\* The first get finds nothing, the lock is free, and the second get finds
\* nothing either, there being no await in between: the factory is called.
MissAndFetch(c, k) ==
    /\ pc[c] = "idle"
    /\ ~Cached(k) /\ ~IsLocked(k)
    /\ Purge(k)
    /\ locked' = locked \cup {k}
    /\ pc' = [pc EXCEPT ![c] = "fetching"]
    /\ key' = [key EXCEPT ![c] = k]
    /\ UNCHANGED <<now, waiters, served>>

\* The first get finds nothing and the lock has to be waited for.
MissAndWait(c, k) ==
    /\ pc[c] = "idle"
    /\ ~Cached(k) /\ IsLocked(k)
    /\ Purge(k)
    /\ waiters' = [waiters EXCEPT ![k] = Append(@, c)]
    /\ pc' = [pc EXCEPT ![c] = "waiting"]
    /\ key' = [key EXCEPT ![c] = k]
    /\ UNCHANGED <<now, locked, served>>

\* The lock of c's key is free and c is the first in its queue.
Granted(c) ==
    /\ pc[c] = "waiting"
    /\ key[c] \notin locked
    /\ waiters[key[c]] # <<>> /\ Head(waiters[key[c]]) = c

Dequeue(c) == waiters' = [waiters EXCEPT ![key[c]] = Tail(@)]

DoubleCheckMutant(k) == FALSE

\* The second get, under the lock.
DoubleCheck(k) == Cached(k)

\* The value came while c was waiting: it is returned and the lock released.
AcquireAndReturn(c) ==
    /\ Granted(c)
    /\ DoubleCheck(key[c])
    /\ HandOut(c, key[c])
    /\ Dequeue(c)
    /\ pc' = [pc EXCEPT ![c] = "idle"]
    /\ UNCHANGED <<now, entries, locked, key>>

\* Still nothing: c keeps the lock and calls its factory.
AcquireAndFetch(c) ==
    /\ Granted(c)
    /\ ~DoubleCheck(key[c])
    /\ Purge(key[c])
    /\ Dequeue(c)
    /\ locked' = locked \cup {key[c]}
    /\ pc' = [pc EXCEPT ![c] = "fetching"]
    /\ UNCHANGED <<now, key, served>>

ReleaseMutant(c) == pc' = [pc EXCEPT ![c] = "idle"] /\ UNCHANGED locked

\* A call ends and gives back the lock it holds.
Release(c) ==
    /\ locked' = locked \ {key[c]}
    /\ pc' = [pc EXCEPT ![c] = "idle"]

\* The factory returns: the value is stored, then returned.
FactoryReturns(c) ==
    /\ pc[c] = "fetching"
    /\ entries' = [entries EXCEPT ![key[c]] = Entry(now)]
    /\ served' = [served EXCEPT ![c] = 0]
    /\ Release(c)
    /\ UNCHANGED <<now, waiters, key>>

\* The factory raises, or the caller is cancelled in it: nothing is stored.
FactoryRaises(c) ==
    /\ pc[c] = "fetching"
    /\ Release(c)
    /\ UNCHANGED <<now, entries, waiters, key, served>>

LeaveQueueMutant(c) == UNCHANGED waiters

\* A cancelled waiter leaves the queue, wherever it stands in it.
LeaveQueue(c) ==
    \E i \in 1 .. Len(waiters[key[c]]) :
        /\ waiters[key[c]][i] = c
        /\ waiters' = [waiters EXCEPT ![key[c]] = RemoveAt(@, i)]

CancelWaiting(c) ==
    /\ pc[c] = "waiting"
    /\ LeaveQueue(c)
    /\ pc' = [pc EXCEPT ![c] = "idle"]
    /\ UNCHANGED <<now, entries, locked, key, served>>

-----------------------------------------------------------------------------
(* set, invalidate, clear, and the clock                                    *)

Set(k) ==
    /\ entries' = [entries EXCEPT ![k] = Entry(now)]
    /\ UNCHANGED <<now, locked, waiters, pc, key, served>>

Invalidate(k) ==
    /\ entries' = [entries EXCEPT ![k] = Absent]
    /\ UNCHANGED <<now, locked, waiters, pc, key, served>>

Clear ==
    /\ entries' = [k \in Keys |-> Absent]
    /\ UNCHANGED <<now, locked, waiters, pc, key, served>>

Tick ==
    /\ now < MaxTime
    /\ now' = now + 1
    /\ UNCHANGED <<entries, locked, waiters, pc, key, served>>

-----------------------------------------------------------------------------

Call(c) == \E k \in Keys : Hit(c, k) \/ MissAndFetch(c, k) \/ MissAndWait(c, k)

\* What the event loop and the factory do for a call in progress.
Resume(c) ==
    \/ AcquireAndReturn(c) \/ AcquireAndFetch(c)
    \/ FactoryReturns(c) \/ FactoryRaises(c)

Next ==
    \/ \E c \in Callers : Call(c) \/ Resume(c) \/ CancelWaiting(c)
    \/ \E k \in Keys : Get(k) \/ Set(k) \/ Invalidate(k)
    \/ Clear \/ Tick

Spec == Init /\ [][Next]_vars

\* The event loop resumes a waiter that was granted the lock, and a factory
\* ends: the HTTP request it makes has a timeout and finitely many retries.
FairSpec == Spec /\ \A c \in Callers : WF_vars(Resume(c))

-----------------------------------------------------------------------------
(* Properties                                                               *)

\* A key's lock is held exactly while one caller is in its factory for that
\* key: factories for a key never overlap, and no exit of get_or_set (value,
\* error, cancellation) leaves the lock held.
LockDiscipline ==
    /\ \A c, d \in Callers :
        (pc[c] = "fetching" /\ pc[d] = "fetching" /\ key[c] = key[d]) => c = d
    /\ locked = {key[c] : c \in {c \in Callers : pc[c] = "fetching"}}

WaitersOf(k) == {c \in Callers : pc[c] = "waiting" /\ key[c] = k}

\* A caller is queued, once, exactly where it waits: no answer and no
\* cancellation leaves a ghost in a queue or drops another caller from it.
QueueDiscipline ==
    \A k \in Keys : ToSet(waiters[k]) = WaitersOf(k) /\ IsInjective(waiters[k])

\* No caller is handed a value as old as the TTL, whether it found it at
\* once, after queueing, or made it itself.
ServedFresh == \A c \in Callers : served[c] < TTL

\* A factory is called only when nothing valid is stored for its key at that
\* moment, in particular not by a waiter whose value came while it queued.
NoNeedlessFetch ==
    [][\A c \in Callers :
        (pc[c] # "fetching" /\ pc'[c] = "fetching") => ~Cached(key'[c])]_vars

\* Every call ends: nobody is queued for ever, whatever newcomers, failures
\* and cancellations do.
EveryCallEnds == \A c \in Callers : (pc[c] # "idle") ~> (pc[c] = "idle")

\* The lock, the queue and the deadlines implement the promise.
Promise == INSTANCE SingleFlight WITH
    made <- [k \in Keys |-> IF entries[k] = Absent THEN -1 ELSE entries[k].madeAt],
    flight <- [k \in Keys |-> {c \in Callers : pc[c] = "fetching" /\ key[c] = k}],
    asking <- [k \in Keys |-> WaitersOf(k)]

\* Every behaviour of the cache is one that SingleFlight allows.
ImplementsSingleFlight == Promise!Spec

=============================================================================
