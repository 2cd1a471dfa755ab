--------------------------- MODULE TTLCacheProofs ---------------------------
(***************************************************************************)
(* Proofs that the locks, the queues and the deadlines of TTLCache do      *)
(* their work for any set of callers and keys and any TTL.                 *)
(***************************************************************************)
EXTENDS TTLCache, SequenceTheorems, TLAPS

-----------------------------------------------------------------------------
(* Queues without duplicates                                                *)

\* A caller that is not in a queue yet joins it at the end.
LEMMA Joined ==
    ASSUME NEW q \in Seq(Callers), IsInjective(q), NEW c \in Callers, c \notin ToSet(q)
    PROVE  /\ Append(q, c) \in Seq(Callers) /\ IsInjective(Append(q, c))
           /\ ToSet(Append(q, c)) = ToSet(q) \cup {c}
<1> DEFINE r == Append(q, c)
<1>1. /\ r \in Seq(Callers) /\ Len(r) = Len(q) + 1 /\ r[Len(q) + 1] = c
      /\ \A i \in 1 .. Len(q) : r[i] = q[i]
  BY AppendProperties
<1>2. DOMAIN q = 1 .. Len(q) /\ DOMAIN r = 1 .. Len(r) /\ Len(q) \in Nat
  BY <1>1
<1>3. \A i \in 1 .. Len(q) : q[i] # c
  BY <1>2 DEF ToSet
<1> HIDE DEF r
<1>4. IsInjective(r)
  BY <1>1, <1>2, <1>3 DEF IsInjective
<1>5. ToSet(r) = ToSet(q) \cup {c}
  BY <1>1, <1>2 DEF ToSet
<1>6. QED
  BY <1>1, <1>4, <1>5 DEF r

\* The first caller leaves a queue.
LEMMA Left ==
    ASSUME NEW q \in Seq(Callers), IsInjective(q), q # <<>>
    PROVE  /\ Tail(q) \in Seq(Callers) /\ IsInjective(Tail(q))
           /\ ToSet(Tail(q)) = ToSet(q) \ {Head(q)}
<1> DEFINE r == Tail(q)
<1>1. /\ r \in Seq(Callers) /\ Len(r) = Len(q) - 1 /\ Head(q) = q[1]
      /\ \A i \in 1 .. Len(r) : r[i] = q[i + 1]
  BY HeadTailProperties
<1>2. DOMAIN q = 1 .. Len(q) /\ DOMAIN r = 1 .. Len(r) /\ Len(q) \in Nat \ {0}
  BY <1>1, EmptySeq
<1> HIDE DEF r
<1>3. IsInjective(r)
  BY <1>1, <1>2 DEF IsInjective
<1>4. ASSUME NEW x PROVE x \in ToSet(r) <=> x \in ToSet(q) \ {q[1]}
  <2>1. CASE x \in ToSet(r)
    <3>1. PICK i \in 1 .. Len(r) : x = q[i + 1]
      BY <1>1, <1>2, <2>1 DEF ToSet
    <3>2. i + 1 \in 1 .. Len(q) /\ i + 1 # 1 /\ 1 \in 1 .. Len(q)
      BY <1>1, <1>2
    <3>3. QED
      BY <1>2, <2>1, <3>1, <3>2 DEF ToSet, IsInjective
  <2>2. CASE x \in ToSet(q) \ {q[1]}
    <3>1. PICK j \in 1 .. Len(q) : x = q[j]
      BY <1>2, <2>2 DEF ToSet
    <3>2. j - 1 \in 1 .. Len(r) /\ (j - 1) + 1 = j
      BY <1>1, <1>2, <2>2, <3>1
    <3>3. QED
      BY <1>1, <1>2, <2>2, <3>1, <3>2 DEF ToSet
  <2>3. QED
    BY <2>1, <2>2
<1>5. QED
  BY <1>1, <1>3, <1>4 DEF r

\* A caller leaves a queue from wherever it stands.
LEMMA Removed ==
    ASSUME NEW q \in Seq(Callers), IsInjective(q), NEW i \in 1 .. Len(q)
    PROVE  /\ RemoveAt(q, i) \in Seq(Callers) /\ IsInjective(RemoveAt(q, i))
           /\ ToSet(RemoveAt(q, i)) = ToSet(q) \ {q[i]}
<1> DEFINE a == SubSeq(q, 1, i - 1)
           b == SubSeq(q, i + 1, Len(q))
           r == RemoveAt(q, i)
<1>1. Len(q) \in Nat /\ DOMAIN q = 1 .. Len(q) /\ \A j \in 1 .. Len(q) : q[j] \in Callers
  OBVIOUS
<1>2. /\ a \in Seq(Callers) /\ Len(a) = i - 1
      /\ \A j \in 1 .. i - 1 : a[j] = q[j]
  BY <1>1, SubSeqProperties
<1>3. /\ b \in Seq(Callers) /\ Len(b) = Len(q) - i
      /\ \A j \in 1 .. Len(q) - i : b[j] = q[j + i]
  <2>1. i + 1 \in Int /\ \A j \in i + 1 .. Len(q) : q[j] \in Callers
    BY <1>1
  <2>2. /\ b \in Seq(Callers)
        /\ Len(b) = IF i + 1 <= Len(q) THEN Len(q) - (i + 1) + 1 ELSE 0
        /\ \A j \in 1 .. Len(q) - (i + 1) + 1 : b[j] = q[(i + 1) + j - 1]
    BY <1>1, <2>1, SubSeqProperties
  <2> HIDE DEF b
  <2>3. Len(b) = Len(q) - i
    <3>1. Len(q) \in Nat /\ i \in 1 .. Len(q)
      BY <1>1
    <3>2. \A m \in Nat : \A j \in 1 .. m :
            (IF j + 1 <= m THEN m - (j + 1) + 1 ELSE 0) = m - j
      OBVIOUS
    <3>3. (IF i + 1 <= Len(q) THEN Len(q) - (i + 1) + 1 ELSE 0) = Len(q) - i
      BY <3>1, <3>2
    <3>4. QED
      BY <2>2, <3>3
  <2>4. ASSUME NEW j \in 1 .. Len(q) - i PROVE b[j] = q[j + i]
    <3>1. j \in 1 .. Len(q) - (i + 1) + 1 /\ (i + 1) + j - 1 = j + i
      BY <1>1
    <3>2. QED
      BY <2>2, <3>1
  <2>5. QED
    BY <2>2, <2>3, <2>4
<1>4. r = a \o b
  BY DEF RemoveAt
<1> HIDE DEF a, b, r
<1>5. /\ r \in Seq(Callers) /\ Len(r) = Len(q) - 1
      /\ \A j \in 1 .. Len(r) : r[j] = IF j < i THEN q[j] ELSE q[j + 1]
  <2>1. r \in Seq(Callers) /\ Len(r) = Len(a) + Len(b)
        /\ \A j \in 1 .. Len(a) + Len(b) :
            r[j] = IF j <= Len(a) THEN a[j] ELSE b[j - Len(a)]
    BY <1>2, <1>3, <1>4, ConcatProperties
  <2>2. ASSUME NEW j \in 1 .. Len(q) - 1, ~(j < i) PROVE r[j] = q[j + 1]
    <3>1. j - Len(a) \in 1 .. Len(q) - i /\ (j - Len(a)) + i = j + 1
      BY <1>1, <1>2, <2>2
    <3>2. QED
      <4>1. r[j] = b[j - Len(a)]
        BY <1>1, <1>2, <1>3, <2>1, <2>2
      <4>2. b[j - Len(a)] = q[(j - Len(a)) + i]
        BY <1>3, <3>1
      <4>3. QED
        BY <3>1, <4>1, <4>2
  <2>3. QED
    BY <1>1, <1>2, <1>3, <2>1, <2>2
<1>6. DOMAIN r = 1 .. Len(r)
  BY <1>5
<1>7. IsInjective(r)
  BY <1>1, <1>5, <1>6 DEF IsInjective
<1>8. ASSUME NEW x PROVE x \in ToSet(r) <=> x \in ToSet(q) \ {q[i]}
  <2>1. CASE x \in ToSet(r)
    <3>1. PICK j \in 1 .. Len(r) : x = r[j]
      BY <1>6, <2>1 DEF ToSet
    <3>2. PICK m \in 1 .. Len(q) : x = q[m] /\ m # i
      BY <1>1, <1>5, <3>1
    <3>3. QED
      BY <1>1, <2>1, <3>2 DEF ToSet, IsInjective
  <2>2. CASE x \in ToSet(q) \ {q[i]}
    <3>1. PICK m \in 1 .. Len(q) : x = q[m] /\ m # i
      BY <1>1, <2>2 DEF ToSet
    <3>2. CASE m < i
      <4>1. m \in 1 .. Len(r) /\ r[m] = x
        BY <1>1, <1>5, <3>1, <3>2
      <4>2. QED
        BY <1>6, <2>2, <4>1 DEF ToSet
    <3>3. CASE m > i
      <4>1. m - 1 \in 1 .. Len(r) /\ r[m - 1] = x
        BY <1>1, <1>5, <3>1, <3>3
      <4>2. QED
        BY <1>6, <2>2, <4>1 DEF ToSet
    <3>4. QED
      BY <1>1, <3>1, <3>2, <3>3
  <2>3. QED
    BY <2>1, <2>2
<1>9. QED
  BY <1>5, <1>7, <1>8 DEF r

-----------------------------------------------------------------------------
(* The inductive invariant                                                  *)

\* No entry was made in the future.
InPast == \A k \in Keys : entries[k].madeAt <= now

IInv == TypeOK /\ InPast /\ LockDiscipline /\ QueueDiscipline /\ ServedFresh

\* What is stored is absent or expires TTL after it was made.
LEMMA EntryShape ==
    ASSUME TypeOK, NEW k \in Keys
    PROVE  /\ entries[k].madeAt \in 0 .. MaxTime
           /\ Cached(k) => entries[k].expiresAt = entries[k].madeAt + TTL
           /\ now \in Nat /\ Entry(now) \in Entries /\ Absent \in Entries
BY CacheAssumption DEF TypeOK, Entries, Entry, Absent, Cached

\* Nothing but a time within the bound is stored, and no deadline is ever
\* anything but TTL after the value was made.
LEMMA TypeStep == IInv /\ [Next]_vars => TypeOK' /\ InPast'
<1> SUFFICES ASSUME IInv, [Next]_vars PROVE TypeOK' /\ InPast'
  OBVIOUS
<1>1. TypeOK /\ InPast /\ TTL \in Nat /\ MaxTime \in Nat
  BY CacheAssumption DEF IInv
<1>2. \A k \in Keys : /\ entries[k].madeAt \in 0 .. MaxTime
                      /\ Entry(now) \in Entries /\ Absent \in Entries
  BY <1>1, EntryShape
<1>3. now \in 0 .. MaxTime /\ Entry(now).madeAt = now /\ Absent.madeAt = 0
  BY <1>1 DEF TypeOK, Entry, Absent
<1>4. ASSUME NEW k \in Keys, Purge(k), now' = now
      PROVE  entries' \in [Keys -> Entries] /\ InPast'
  BY <1>1, <1>2, <1>3, <1>4 DEF Purge, TypeOK, InPast
<1>5. ASSUME NEW c \in Callers, NEW k \in Keys, Hit(c, k) \/ MissAndFetch(c, k) \/ MissAndWait(c, k)
      PROVE  TypeOK' /\ InPast'
  <2>1. CASE Hit(c, k)
    <3>1. served' \in [Callers -> Nat]
      BY <1>1, <1>2, <1>3, <2>1 DEF Hit, HandOut, TypeOK, InPast
    <3>2. QED
      BY <1>1, <2>1, <3>1 DEF Hit, TypeOK, InPast
  <2>2. CASE MissAndFetch(c, k)
    BY <1>1, <1>4, <2>2 DEF MissAndFetch, TypeOK
  <2>3. CASE MissAndWait(c, k)
    <3>1. waiters' \in [Keys -> Seq(Callers)]
      BY <1>1, <2>3 DEF MissAndWait, TypeOK
    <3>2. QED
      BY <1>1, <1>4, <2>3, <3>1 DEF MissAndWait, TypeOK
  <2>4. QED
    BY <1>5, <2>1, <2>2, <2>3
<1>6. ASSUME NEW c \in Callers, AcquireAndReturn(c) \/ AcquireAndFetch(c)
      PROVE  TypeOK' /\ InPast'
  <2>1. key[c] \in Keys /\ waiters[key[c]] \in Seq(Callers) /\ waiters[key[c]] # <<>>
    BY <1>1, <1>6 DEF AcquireAndReturn, AcquireAndFetch, Granted, TypeOK
  <2>2. waiters' \in [Keys -> Seq(Callers)]
    <3>1. Tail(waiters[key[c]]) \in Seq(Callers)
      BY <2>1, HeadTailProperties
    <3>2. QED
      BY <1>1, <1>6, <3>1 DEF AcquireAndReturn, AcquireAndFetch, Dequeue, TypeOK
  <2>3. CASE AcquireAndReturn(c)
    <3>1. served' \in [Callers -> Nat]
      BY <1>1, <1>2, <1>3, <2>1, <2>3 DEF AcquireAndReturn, HandOut, TypeOK, InPast
    <3>2. QED
      BY <1>1, <2>2, <2>3, <3>1 DEF AcquireAndReturn, TypeOK, InPast
  <2>4. CASE AcquireAndFetch(c)
    BY <1>1, <1>4, <2>1, <2>2, <2>4 DEF AcquireAndFetch, TypeOK
  <2>5. QED
    BY <1>6, <2>3, <2>4
<1>7. ASSUME NEW c \in Callers, FactoryReturns(c) PROVE TypeOK' /\ InPast'
  <2>1. key[c] \in Keys
    BY <1>1 DEF TypeOK
  <2>2. entries' \in [Keys -> Entries] /\ InPast'
    BY <1>1, <1>2, <1>3, <1>7, <2>1 DEF FactoryReturns, TypeOK, InPast
  <2>3. QED
    BY <1>1, <1>7, <2>2 DEF FactoryReturns, Release, TypeOK
<1>8. ASSUME NEW c \in Callers, FactoryRaises(c) PROVE TypeOK' /\ InPast'
  BY <1>1, <1>8 DEF FactoryRaises, Release, TypeOK, InPast
<1>9. ASSUME NEW c \in Callers, CancelWaiting(c) PROVE TypeOK' /\ InPast'
  <2>1. PICK i \in 1 .. Len(waiters[key[c]]) :
            waiters' = [waiters EXCEPT ![key[c]] = RemoveAt(@, i)]
    BY <1>9 DEF CancelWaiting, LeaveQueue
  <2>2. key[c] \in Keys /\ waiters[key[c]] \in Seq(Callers) /\ IsInjective(waiters[key[c]])
    BY <1>1 DEF TypeOK, IInv, QueueDiscipline
  <2>3. RemoveAt(waiters[key[c]], i) \in Seq(Callers)
    BY <2>2, Removed
  <2>4. QED
    BY <1>1, <1>9, <2>1, <2>3 DEF CancelWaiting, TypeOK, InPast
<1>10. ASSUME NEW k \in Keys, Get(k) PROVE TypeOK' /\ InPast'
  BY <1>1, <1>4, <1>10 DEF Get, TypeOK
<1>11. ASSUME NEW k \in Keys, Set(k) \/ Invalidate(k) PROVE TypeOK' /\ InPast'
  <2>1. CASE Set(k)
    BY <1>1, <1>2, <1>3, <2>1 DEF Set, TypeOK, InPast
  <2>2. CASE Invalidate(k)
    BY <1>1, <1>2, <1>3, <2>2 DEF Invalidate, TypeOK, InPast
  <2>3. QED
    BY <1>11, <2>1, <2>2
<1>12. CASE Clear
  BY <1>1, <1>2, <1>3, <1>12 DEF Clear, TypeOK, InPast
<1>13. CASE Tick
  BY <1>1, <1>2, <1>13 DEF Tick, TypeOK, InPast
<1>14. CASE UNCHANGED vars
  BY <1>1, <1>14 DEF vars, TypeOK, InPast
<1>15. QED
  BY <1>5, <1>6, <1>7, <1>8, <1>9, <1>10, <1>11, <1>12, <1>13, <1>14
     DEF Next, Call, Resume

\* The lock of a key changes hands only together with the caller that is in
\* its factory.
LEMMA LockStep == IInv /\ [Next]_vars => LockDiscipline'
<1> SUFFICES ASSUME IInv, [Next]_vars PROVE LockDiscipline'
  OBVIOUS
<1> DEFINE Holds(c, k) == pc[c] = "fetching" /\ key[c] = k
<1>1. /\ pc \in [Callers -> {"idle", "waiting", "fetching"}]
      /\ key \in [Callers -> Keys]
      /\ \A c, d \in Callers, k \in Keys : Holds(c, k) /\ Holds(d, k) => c = d
      /\ \A k : k \in locked <=> \E c \in Callers : Holds(c, k)
  BY DEF IInv, TypeOK, LockDiscipline
<1>2. SUFFICES /\ \A c, d \in Callers, k \in Keys : Holds(c, k)' /\ Holds(d, k)' => c = d
               /\ \A k : k \in locked' <=> \E c \in Callers : Holds(c, k)'
  <2>1. key' \in [Callers -> Keys]
    BY TypeStep DEF TypeOK
  <2>2. QED
    BY <1>2, <2>1 DEF LockDiscipline
<1>3. ASSUME NEW c \in Callers, NEW k \in Keys, pc[c] # "fetching", k \notin locked,
             locked' = locked \cup {k}, pc' = [pc EXCEPT ![c] = "fetching"],
             key' = [key EXCEPT ![c] = k]
      PROVE  /\ \A d, e \in Callers, l \in Keys : Holds(d, l)' /\ Holds(e, l)' => d = e
             /\ \A l : l \in locked' <=> \E d \in Callers : Holds(d, l)'
  <2>1. \A d \in Callers : \A l : Holds(d, l)' <=> IF d = c THEN l = k ELSE Holds(d, l)
    BY <1>1, <1>3
  <2>2. ~Holds(c, k) /\ \A l : ~Holds(c, l)
    BY <1>3
  <2> HIDE DEF Holds
  <2>3. QED
    BY <1>1, <1>3, <2>1, <2>2
<1>4. ASSUME NEW c \in Callers, pc[c] = "fetching", Release(c), key' = key
      PROVE  /\ \A d, e \in Callers, l \in Keys : Holds(d, l)' /\ Holds(e, l)' => d = e
             /\ \A l : l \in locked' <=> \E d \in Callers : Holds(d, l)'
  <2>1. \A d \in Callers : \A l : Holds(d, l)' <=> d # c /\ Holds(d, l)
    BY <1>1, <1>4 DEF Release
  <2>2. Holds(c, key[c]) /\ locked' = locked \ {key[c]} /\ key[c] \in Keys
    BY <1>1, <1>4 DEF Release
  <2>3. \A l : Holds(c, l) => l = key[c]
    OBVIOUS
  <2>4. \A d \in Callers : \A l : Holds(d, l) => l \in Keys
    BY <1>1
  <2> HIDE DEF Holds
  <2>5. QED
    BY <1>1, <2>1, <2>2, <2>3, <2>4
<1>5. ASSUME NEW c \in Callers, pc[c] # "fetching", pc'[c] # "fetching",
             \E m \in {"idle", "waiting"}, k \in Keys :
                pc' = [pc EXCEPT ![c] = m] /\ key' = [key EXCEPT ![c] = k],
             locked' = locked
      PROVE  /\ \A d, e \in Callers, l \in Keys : Holds(d, l)' /\ Holds(e, l)' => d = e
             /\ \A l : l \in locked' <=> \E d \in Callers : Holds(d, l)'
  <2>1. \A d \in Callers : \A l : Holds(d, l)' <=> Holds(d, l)
    BY <1>1, <1>5
  <2> HIDE DEF Holds
  <2>2. QED
    BY <1>1, <1>5, <2>1
<1>6. ASSUME NEW c \in Callers, NEW k \in Keys, MissAndFetch(c, k) \/ MissAndWait(c, k)
      PROVE  /\ \A d, e \in Callers, l \in Keys : Holds(d, l)' /\ Holds(e, l)' => d = e
             /\ \A l : l \in locked' <=> \E d \in Callers : Holds(d, l)'
  <2>1. CASE MissAndFetch(c, k)
    BY <1>3, <2>1 DEF MissAndFetch, IsLocked
  <2>2. CASE MissAndWait(c, k)
    BY <1>1, <1>5, <2>2 DEF MissAndWait
  <2>3. QED
    BY <1>6, <2>1, <2>2
<1>7. ASSUME NEW c \in Callers, AcquireAndReturn(c) \/ AcquireAndFetch(c) \/ CancelWaiting(c)
      PROVE  /\ \A d, e \in Callers, l \in Keys : Holds(d, l)' /\ Holds(e, l)' => d = e
             /\ \A l : l \in locked' <=> \E d \in Callers : Holds(d, l)'
  <2>1. key[c] \in Keys /\ key = [key EXCEPT ![c] = key[c]]
    BY <1>1
  <2>2. CASE AcquireAndFetch(c)
    BY <1>3, <2>1, <2>2 DEF AcquireAndFetch, Granted
  <2>3. CASE AcquireAndReturn(c) \/ CancelWaiting(c)
    BY <1>1, <1>5, <2>1, <2>3 DEF AcquireAndReturn, CancelWaiting, Granted
  <2>4. QED
    BY <1>7, <2>2, <2>3
<1>8. ASSUME NEW c \in Callers, FactoryReturns(c) \/ FactoryRaises(c)
      PROVE  /\ \A d, e \in Callers, l \in Keys : Holds(d, l)' /\ Holds(e, l)' => d = e
             /\ \A l : l \in locked' <=> \E d \in Callers : Holds(d, l)'
  BY <1>4, <1>8 DEF FactoryReturns, FactoryRaises
<1>9. CASE UNCHANGED <<pc, key, locked>>
  BY <1>1, <1>9
<1>10. QED
  BY <1>6, <1>7, <1>8, <1>9
     DEF Next, Call, Resume, Hit, Get, Set, Invalidate, Clear, Tick, vars

\* A queue grows by the caller that starts to wait and shrinks by the caller
\* that stops waiting, at the head or anywhere else.
LEMMA QueueStep == IInv /\ [Next]_vars => QueueDiscipline'
<1> SUFFICES ASSUME IInv, [Next]_vars PROVE QueueDiscipline'
  OBVIOUS
<1> DEFINE Good(k) == ToSet(waiters[k]) = WaitersOf(k) /\ IsInjective(waiters[k])
<1>1. /\ pc \in [Callers -> {"idle", "waiting", "fetching"}]
      /\ key \in [Callers -> Keys]
      /\ waiters \in [Keys -> Seq(Callers)]
      /\ \A k \in Keys : Good(k)
  BY DEF IInv, TypeOK, QueueDiscipline
<1>2. ASSUME NEW c \in Callers, NEW k \in Keys, MissAndWait(c, k)
      PROVE  QueueDiscipline'
  <2>1. pc' = [pc EXCEPT ![c] = "waiting"] /\ key' = [key EXCEPT ![c] = k] /\ pc[c] = "idle"
        /\ waiters' = [waiters EXCEPT ![k] = Append(@, c)]
    BY <1>2 DEF MissAndWait
  <2>2. \A l \in Keys : WaitersOf(l)' = IF l = k THEN WaitersOf(l) \cup {c} ELSE WaitersOf(l)
    BY <1>1, <2>1 DEF WaitersOf
  <2>3. c \notin ToSet(waiters[k])
    BY <1>1, <2>1 DEF WaitersOf
  <2>4. Good(k)'
    BY <1>1, <2>1, <2>2, <2>3, Joined
  <2>5. \A l \in Keys : l # k => Good(l)'
    BY <1>1, <2>1, <2>2
  <2>6. QED
    BY <2>4, <2>5 DEF QueueDiscipline
<1>3. ASSUME NEW c \in Callers, NEW q \in Seq(Callers), pc[c] = "waiting",
             NEW m \in {"idle", "fetching"}, pc' = [pc EXCEPT ![c] = m], key' = key,
             waiters' = [waiters EXCEPT ![key[c]] = q],
             IsInjective(q), ToSet(q) = ToSet(waiters[key[c]]) \ {c}
      PROVE  QueueDiscipline'
  <2>1. \A l \in Keys : WaitersOf(l)' = IF l = key[c] THEN WaitersOf(l) \ {c} ELSE WaitersOf(l)
    BY <1>1, <1>3 DEF WaitersOf
  <2>2. key[c] \in Keys
    BY <1>1
  <2>3. Good(key[c])'
    BY <1>1, <1>3, <2>1, <2>2
  <2>4. \A l \in Keys : l # key[c] => Good(l)'
    BY <1>1, <1>3, <2>1
  <2>5. QED
    BY <1>3, <2>3, <2>4 DEF QueueDiscipline
<1>4. ASSUME NEW c \in Callers, AcquireAndReturn(c) \/ AcquireAndFetch(c)
      PROVE  QueueDiscipline'
  <2> DEFINE q == waiters[key[c]]
  <2>1. key[c] \in Keys /\ q \in Seq(Callers) /\ IsInjective(q) /\ q # <<>> /\ Head(q) = c
    BY <1>1, <1>4 DEF AcquireAndReturn, AcquireAndFetch, Granted
  <2>2. Tail(q) \in Seq(Callers) /\ IsInjective(Tail(q)) /\ ToSet(Tail(q)) = ToSet(q) \ {c}
    BY <2>1, Left
  <2>3. /\ pc[c] = "waiting" /\ key' = key
        /\ waiters' = [waiters EXCEPT ![key[c]] = Tail(q)]
        /\ \E m \in {"idle", "fetching"} : pc' = [pc EXCEPT ![c] = m]
    BY <1>4 DEF AcquireAndReturn, AcquireAndFetch, Granted, Dequeue
  <2> HIDE DEF q
  <2>4. QED
    BY <1>3, <2>2, <2>3 DEF q
<1>5. ASSUME NEW c \in Callers, CancelWaiting(c) PROVE QueueDiscipline'
  <2> DEFINE q == waiters[key[c]]
  <2>1. PICK i \in 1 .. Len(q) : q[i] = c /\ waiters' = [waiters EXCEPT ![key[c]] = RemoveAt(q, i)]
    BY <1>5 DEF CancelWaiting, LeaveQueue
  <2>2. q \in Seq(Callers) /\ IsInjective(q)
    BY <1>1
  <2>3. RemoveAt(q, i) \in Seq(Callers) /\ IsInjective(RemoveAt(q, i))
        /\ ToSet(RemoveAt(q, i)) = ToSet(q) \ {c}
    BY <2>1, <2>2, Removed
  <2>4. pc[c] = "waiting" /\ key' = key /\ pc' = [pc EXCEPT ![c] = "idle"]
    BY <1>5 DEF CancelWaiting
  <2> HIDE DEF q
  <2>5. QED
    BY <1>3, <2>1, <2>3, <2>4 DEF q
<1>6. ASSUME waiters' = waiters, \A l \in Keys : WaitersOf(l)' = WaitersOf(l)
      PROVE  QueueDiscipline'
  BY <1>1, <1>6 DEF QueueDiscipline
<1>7. ASSUME NEW c \in Callers, NEW k \in Keys, MissAndFetch(c, k) PROVE QueueDiscipline'
  BY <1>1, <1>6, <1>7 DEF MissAndFetch, WaitersOf
<1>8. ASSUME NEW c \in Callers, FactoryReturns(c) \/ FactoryRaises(c) PROVE QueueDiscipline'
  BY <1>1, <1>6, <1>8 DEF FactoryReturns, FactoryRaises, Release, WaitersOf
<1>9. CASE UNCHANGED <<pc, key, waiters>>
  BY <1>6, <1>9 DEF WaitersOf
<1>10. QED
  BY <1>2, <1>4, <1>5, <1>7, <1>8, <1>9
     DEF Next, Call, Resume, Hit, Get, Set, Invalidate, Clear, Tick, vars

\* Whatever a caller is handed has not reached its deadline.
LEMMA FreshStep == IInv /\ [Next]_vars => ServedFresh'
<1> SUFFICES ASSUME IInv, [Next]_vars PROVE ServedFresh'
  OBVIOUS
<1>1. TypeOK /\ ServedFresh /\ served \in [Callers -> Nat] /\ TTL \in Nat \ {0}
  BY CacheAssumption DEF IInv, TypeOK
<1>2. ASSUME NEW c \in Callers, NEW k \in Keys, Cached(k), HandOut(c, k)
      PROVE  ServedFresh'
  <2>1. now - entries[k].madeAt < TTL
    BY <1>1, <1>2, EntryShape DEF Cached
  <2>2. QED
    BY <1>1, <1>2, <2>1 DEF HandOut, ServedFresh
<1>3. ASSUME NEW c \in Callers, NEW k \in Keys, Hit(c, k) PROVE ServedFresh'
  BY <1>2, <1>3 DEF Hit
<1>4. ASSUME NEW c \in Callers, AcquireAndReturn(c) PROVE ServedFresh'
  <2>1. key[c] \in Keys
    BY <1>1 DEF TypeOK
  <2>2. QED
    BY <1>2, <1>4, <2>1 DEF AcquireAndReturn, DoubleCheck
<1>5. ASSUME NEW c \in Callers, FactoryReturns(c) PROVE ServedFresh'
  BY <1>1, <1>5 DEF FactoryReturns, ServedFresh
<1>6. CASE UNCHANGED served
  BY <1>1, <1>6 DEF ServedFresh
<1>7. QED
  BY <1>3, <1>4, <1>5, <1>6
     DEF Next, Call, Resume, MissAndFetch, MissAndWait, AcquireAndFetch, FactoryRaises,
         CancelWaiting, Get, Set, Invalidate, Clear, Tick, vars

-----------------------------------------------------------------------------

\* The inductive invariant holds in every state of every behaviour.
THEOREM Inductive == Spec => []IInv
<1>1. Init => IInv
  <2> SUFFICES ASSUME Init PROVE IInv
    OBVIOUS
  <2>1. <<>> \in Seq(Callers) /\ ToSet(<<>>) = {} /\ IsInjective(<<>>)
    BY DEF ToSet, IsInjective
  <2>2. TypeOK /\ InPast
    BY <2>1, CacheAssumption DEF Init, TypeOK, InPast, Entries, Absent
  <2>3. LockDiscipline /\ ServedFresh
    BY CacheAssumption DEF Init, LockDiscipline, ServedFresh
  <2>4. QueueDiscipline
    BY <2>1 DEF Init, QueueDiscipline, WaitersOf
  <2>5. QED
    BY <2>2, <2>3, <2>4 DEF IInv
<1>2. IInv /\ [Next]_vars => IInv'
  BY TypeStep, LockStep, QueueStep, FreshStep DEF IInv
<1>3. QED
  BY <1>1, <1>2, PTL DEF Spec

\* Type correctness: every stored entry expires TTL after it was made.
THEOREM TypeCorrect == Spec => []TypeOK
<1>1. IInv => TypeOK
  BY DEF IInv
<1>2. QED
  BY <1>1, Inductive, PTL

\* For each key at most one factory runs at a time, and the lock of a key is
\* held exactly while one does.
THEOREM SingleFlightPerKey == Spec => []LockDiscipline
<1>1. IInv => LockDiscipline
  BY DEF IInv
<1>2. QED
  BY <1>1, Inductive, PTL

\* The queue of a key holds exactly the callers that wait for it, once each.
THEOREM QueuesAreExact == Spec => []QueueDiscipline
<1>1. IInv => QueueDiscipline
  BY DEF IInv
<1>2. QED
  BY <1>1, Inductive, PTL

\* No value as old as the TTL is handed out.
THEOREM NothingStaleServed == Spec => []ServedFresh
<1>1. IInv => ServedFresh
  BY DEF IInv
<1>2. QED
  BY <1>1, Inductive, PTL

\* The double check under the lock keeps every factory call necessary.
THEOREM FetchesOnlyWhatIsMissing == Spec => NoNeedlessFetch
<1> DEFINE A == \A c \in Callers :
                    (pc[c] # "fetching" /\ pc'[c] = "fetching") => ~Cached(key'[c])
<1>1. ASSUME IInv, [Next]_vars, NEW c \in Callers, pc[c] # "fetching", pc'[c] = "fetching"
      PROVE  ~Cached(key'[c])
  <2>1. /\ pc \in [Callers -> {"idle", "waiting", "fetching"}]
        /\ key \in [Callers -> Keys]
    BY <1>1 DEF IInv, TypeOK
  <2>2. \A d \in Callers, k \in Keys : MissAndFetch(d, k) => c = d /\ ~Cached(key'[c])
    BY <1>1, <2>1 DEF MissAndFetch
  <2>3. \A d \in Callers : AcquireAndFetch(d) => c = d /\ ~Cached(key'[c])
    BY <1>1, <2>1 DEF AcquireAndFetch, DoubleCheck
  <2>4. \A d \in Callers, k \in Keys : ~Hit(d, k) /\ ~MissAndWait(d, k)
    BY <1>1, <2>1 DEF Hit, MissAndWait
  <2>5. \A d \in Callers : ~AcquireAndReturn(d) /\ ~FactoryReturns(d)
                           /\ ~FactoryRaises(d) /\ ~CancelWaiting(d)
    BY <1>1, <2>1 DEF AcquireAndReturn, FactoryReturns, FactoryRaises, CancelWaiting, Release
  <2>6. pc' # pc
    BY <1>1
  <2>7. QED
    BY <1>1, <2>2, <2>3, <2>4, <2>5, <2>6
       DEF Next, Call, Resume, Get, Set, Invalidate, Clear, Tick, vars
<1>2. IInv /\ [Next]_vars => [A]_vars
  BY <1>1
<1>3. Spec => [][A]_vars
  BY <1>2, Inductive, PTL DEF Spec
<1>4. QED
  BY <1>3 DEF NoNeedlessFetch

-----------------------------------------------------------------------------
(* The refinement: TTLCache implements SingleFlight                         *)

\* The state functions that take the place of made, flight and asking.
Made == [k \in Keys |-> IF entries[k] = Absent THEN -1 ELSE entries[k].madeAt]
Flight == [k \in Keys |-> {c \in Callers : pc[c] = "fetching" /\ key[c] = k}]
Asking == [k \in Keys |-> WaitersOf(k)]

\* Cached is what SingleFlight calls fresh.
LEMMA CachedIsFresh ==
    ASSUME TypeOK, NEW k \in Keys
    PROVE  /\ Cached(k) <=> Promise!Fresh(k)
           /\ Cached(k) => Made[k] = entries[k].madeAt
<1>1. entries[k] \in Entries /\ now \in Nat /\ TTL \in Nat \ {0} /\ MaxTime \in Nat
  BY CacheAssumption DEF TypeOK
<1>2. CASE entries[k] = Absent
  BY <1>2 DEF Cached, Promise!Fresh, Promise!Nothing
<1>3. ASSUME NEW t \in 0 .. MaxTime, entries[k] # Absent,
             entries[k] = [madeAt |-> t, expiresAt |-> t + TTL]
      PROVE  /\ Cached(k) <=> Promise!Fresh(k)
             /\ Cached(k) => Made[k] = entries[k].madeAt
  <2>1. Made[k] = t /\ entries[k].expiresAt = t + TTL /\ t # -1
    BY <1>1, <1>3 DEF Made
  <2>2. Promise!Fresh(k) <=> now - t < TTL
    BY <1>1, <1>3, <2>1 DEF Promise!Fresh, Promise!Nothing
  <2>3. Cached(k) <=> t + TTL > now
    BY <1>3, <2>1 DEF Cached
  <2>4. QED
    BY <1>1, <1>3, <2>1, <2>2, <2>3
<1>4. QED
  BY <1>1, <1>2, <1>3 DEF Entries

\* Purging a key that has nothing valid to offer drops what it had.
LEMMA PurgeDrops ==
    ASSUME TypeOK, NEW k \in Keys, ~Cached(k), Purge(k)
    PROVE  Made' \in Promise!Drops
<1>1. ~Promise!Fresh(k)
  BY CachedIsFresh
<1>2. entries' = [entries EXCEPT ![k] = Absent] /\ entries \in [Keys -> Entries]
  BY DEF Purge, TypeOK
<1>3. Made' = [Made EXCEPT ![k] = -1]
  BY <1>2 DEF Made
<1>4. QED
  BY <1>1, <1>3 DEF Made, Promise!Drops, Promise!Nothing

\* A caller that is idle neither fetches nor waits, for any key.
LEMMA IdleIsNotBusy ==
    ASSUME NEW c \in Callers, pc[c] = "idle"
    PROVE  ~Promise!Busy(c)
BY DEF Promise!Busy, WaitersOf

\* A caller that changes to fetching k, or to waiting for k, was neither
\* before: it joins one flight or one set of callers and leaves the others.
LEMMA CallerMoves ==
    ASSUME TypeOK, NEW c \in Callers, NEW k \in Keys,
           NEW m \in {"idle", "waiting", "fetching"},
           pc' = [pc EXCEPT ![c] = m], key' = [key EXCEPT ![c] = k],
           pc[c] # "idle" => key[c] = k
    PROVE  /\ Flight' = [Flight EXCEPT ![k] =
                            IF m = "fetching" THEN @ \cup {c} ELSE @ \ {c}]
           /\ Asking' = [Asking EXCEPT ![k] =
                            IF m = "waiting" THEN @ \cup {c} ELSE @ \ {c}]
<1>1. pc \in [Callers -> {"idle", "waiting", "fetching"}] /\ key \in [Callers -> Keys]
  BY DEF TypeOK
<1>2. ASSUME NEW l \in Keys
      PROVE  /\ Flight'[l] = IF l # k THEN Flight[l]
                             ELSE IF m = "fetching" THEN Flight[l] \cup {c} ELSE Flight[l] \ {c}
             /\ Asking'[l] = IF l # k THEN Asking[l]
                             ELSE IF m = "waiting" THEN Asking[l] \cup {c} ELSE Asking[l] \ {c}
  BY <1>1 DEF Flight, Asking, WaitersOf
<1>3. /\ Flight = [l \in Keys |-> Flight[l]] /\ Flight' = [l \in Keys |-> Flight'[l]]
      /\ Asking = [l \in Keys |-> Asking[l]] /\ Asking' = [l \in Keys |-> Asking'[l]]
  BY DEF Flight, Asking
<1>4. QED
  BY <1>2, <1>3

\* What an unlocked key says about its flight.
LEMMA FlightOf ==
    ASSUME LockDiscipline, NEW k \in Keys
    PROVE  /\ k \notin locked => Flight[k] = {}
           /\ \A c \in Callers : pc[c] = "fetching" /\ key[c] = k => Flight[k] = {c}
BY DEF LockDiscipline, Flight

\* Every step of the cache is a step that SingleFlight allows, or none.
LEMMA PromiseStep == IInv /\ [Next]_vars => [Promise!Next]_(Promise!vars)
<1> SUFFICES ASSUME IInv, [Next]_vars
             PROVE  Promise!Next \/ UNCHANGED Promise!vars
  OBVIOUS
<1>1. /\ TypeOK /\ LockDiscipline
      /\ pc \in [Callers -> {"idle", "waiting", "fetching"}] /\ key \in [Callers -> Keys]
      /\ entries \in [Keys -> Entries] /\ served \in [Callers -> Nat]
  BY DEF IInv, TypeOK
<1>2. \A c \in Callers : key[c] \in Keys /\ key = [key EXCEPT ![c] = key[c]]
  BY <1>1
<1>3. ASSUME UNCHANGED <<pc, key>> PROVE Flight' = Flight /\ Asking' = Asking
  BY <1>3 DEF Flight, Asking, WaitersOf
<1>4. ASSUME UNCHANGED entries PROVE Made' = Made
  BY <1>4 DEF Made
<1>5. ASSUME NEW c \in Callers, NEW k \in Keys, Cached(k), HandOut(c, k),
             c \in Asking[k] \/ ~Promise!Busy(c),
             Asking' = [Asking EXCEPT ![k] = @ \ {c}],
             Flight' = Flight, now' = now, Made' = Made
      PROVE  Promise!Serve(c, k)
  <2>1. Promise!Fresh(k) /\ served' = [served EXCEPT ![c] = now - Made[k]]
    BY <1>1, <1>5, CachedIsFresh DEF HandOut
  <2>2. QED
    BY <1>5, <2>1 DEF Promise!Serve, Made, Flight, Asking
<1>6. ASSUME NEW c \in Callers, NEW k \in Keys, ~Cached(k), Purge(k), k \notin locked,
             c \in Asking[k] \/ ~Promise!Busy(c),
             Asking' = [Asking EXCEPT ![k] = @ \ {c}],
             Flight' = [Flight EXCEPT ![k] = @ \cup {c}],
             UNCHANGED <<now, served>>
      PROVE  Promise!TakeOff(c, k)
  <2>1. ~Promise!Fresh(k) /\ Made' \in Promise!Drops
    BY <1>1, <1>6, CachedIsFresh, PurgeDrops
  <2>2. Flight[k] = {} /\ Flight' = [Flight EXCEPT ![k] = {c}]
    BY <1>1, <1>6, FlightOf
  <2>3. QED
    BY <1>6, <2>1, <2>2 DEF Promise!TakeOff, Made, Flight, Asking
<1>7. ASSUME NEW c \in Callers, NEW k \in Keys, Hit(c, k) PROVE Promise!Serve(c, k)
  <2>1. Flight' = Flight /\ Asking' = Asking /\ Made' = Made
    BY <1>3, <1>4, <1>7 DEF Hit
  <2>2. c \notin Asking[k] /\ Asking = [Asking EXCEPT ![k] = @ \ {c}]
    BY <1>7 DEF Hit, Asking, WaitersOf
  <2>3. QED
    BY <1>5, <1>7, <2>1, <2>2, IdleIsNotBusy DEF Hit
<1>8. ASSUME NEW c \in Callers, NEW k \in Keys, MissAndFetch(c, k) PROVE Promise!TakeOff(c, k)
  <2>1. /\ Flight' = [Flight EXCEPT ![k] = @ \cup {c}]
        /\ Asking' = [Asking EXCEPT ![k] = @ \ {c}]
    BY <1>1, <1>8, CallerMoves DEF MissAndFetch
  <2>2. QED
    BY <1>6, <1>8, <2>1, IdleIsNotBusy DEF MissAndFetch, IsLocked
<1>9. ASSUME NEW c \in Callers, NEW k \in Keys, MissAndWait(c, k) PROVE Promise!Ask(c, k)
  <2>1. /\ Flight' = [Flight EXCEPT ![k] = @ \ {c}]
        /\ Asking' = [Asking EXCEPT ![k] = @ \cup {c}]
    BY <1>1, <1>9, CallerMoves DEF MissAndWait
  <2>2. Flight' = Flight
    BY <1>9, <2>1 DEF MissAndWait, Flight
  <2>3. ~Promise!Fresh(k) /\ Made' \in Promise!Drops
    BY <1>1, <1>9, CachedIsFresh, PurgeDrops DEF MissAndWait
  <2>4. ~Promise!Busy(c) /\ UNCHANGED <<now, served>>
    BY <1>9, IdleIsNotBusy DEF MissAndWait
  <2>5. QED
    BY <2>1, <2>2, <2>3, <2>4 DEF Promise!Ask, Made, Flight, Asking
<1>10. ASSUME NEW c \in Callers, NEW k \in Keys, k = key[c], AcquireAndReturn(c)
       PROVE  Promise!Serve(c, k)
  <2>1. /\ Flight' = [Flight EXCEPT ![k] = @ \ {c}]
        /\ Asking' = [Asking EXCEPT ![k] = @ \ {c}]
    BY <1>1, <1>2, <1>10, CallerMoves DEF AcquireAndReturn
  <2>2. Flight' = Flight /\ Made' = Made /\ c \in Asking[k]
    BY <1>2, <1>4, <1>10, <2>1 DEF AcquireAndReturn, Granted, Flight, Asking, WaitersOf
  <2>3. QED
    BY <1>2, <1>5, <1>10, <2>1, <2>2 DEF AcquireAndReturn, DoubleCheck
<1>11. ASSUME NEW c \in Callers, NEW k \in Keys, k = key[c], AcquireAndFetch(c)
       PROVE  Promise!TakeOff(c, k)
  <2>1. /\ Flight' = [Flight EXCEPT ![k] = @ \cup {c}]
        /\ Asking' = [Asking EXCEPT ![k] = @ \ {c}]
    BY <1>1, <1>2, <1>11, CallerMoves DEF AcquireAndFetch
  <2>2. c \in Asking[k] /\ k \notin locked
    BY <1>2, <1>11 DEF AcquireAndFetch, Granted, Asking, WaitersOf
  <2>3. ~Cached(k) /\ Purge(k) /\ UNCHANGED <<now, served>>
    BY <1>11 DEF AcquireAndFetch, DoubleCheck
  <2>4. QED
    BY <1>6, <2>1, <2>2, <2>3
<1>12. ASSUME NEW c \in Callers, NEW k \in Keys, k = key[c], FactoryReturns(c)
       PROVE  Promise!Land(c, k)
  <2>1. /\ Flight' = [Flight EXCEPT ![k] = @ \ {c}]
        /\ Asking' = [Asking EXCEPT ![k] = @ \ {c}]
    BY <1>1, <1>2, <1>12, CallerMoves DEF FactoryReturns, Release
  <2>2. Flight[k] = {c} /\ Flight' = [Flight EXCEPT ![k] = {}]
    BY <1>1, <1>2, <1>12, <2>1, FlightOf DEF FactoryReturns
  <2>3. Asking' = Asking
    BY <1>12, <2>1 DEF FactoryReturns, Asking, WaitersOf
  <2>4. Made' = [Made EXCEPT ![k] = now]
    <3>1. Entry(now) # Absent /\ Entry(now).madeAt = now
      BY <1>1, CacheAssumption DEF Entry, Absent, TypeOK
    <3>2. entries' = [entries EXCEPT ![k] = Entry(now)]
      BY <1>12 DEF FactoryReturns
    <3>3. QED
      BY <1>1, <1>2, <3>1, <3>2 DEF Made
  <2>5. c \in Flight[k] /\ now' = now /\ served' = [served EXCEPT ![c] = 0]
    BY <1>12, <2>2 DEF FactoryReturns
  <2>6. QED
    BY <2>2, <2>3, <2>4, <2>5 DEF Promise!Land, Made, Flight, Asking
<1>13. ASSUME NEW c \in Callers, NEW k \in Keys, k = key[c], FactoryRaises(c) \/ CancelWaiting(c)
       PROVE  Promise!GiveUp(c, k)
  <2>1. /\ Flight' = [Flight EXCEPT ![k] = @ \ {c}]
        /\ Asking' = [Asking EXCEPT ![k] = @ \ {c}]
    BY <1>1, <1>2, <1>13, CallerMoves DEF FactoryRaises, CancelWaiting, Release
  <2>2. Made' = Made /\ UNCHANGED <<now, served>>
    BY <1>4, <1>13 DEF FactoryRaises, CancelWaiting
  <2>3. c \in Flight[k] \cup Asking[k]
    BY <1>2, <1>13 DEF FactoryRaises, CancelWaiting, Flight, Asking, WaitersOf
  <2>4. QED
    BY <2>1, <2>2, <2>3 DEF Promise!GiveUp, Made, Flight, Asking
<1>14. ASSUME \/ \E k \in Keys : Get(k) \/ Set(k) \/ Invalidate(k)
              \/ Clear
       PROVE  Promise!Replace
  <2>1. Flight' = Flight /\ Asking' = Asking /\ UNCHANGED <<now, served>>
    BY <1>3, <1>14 DEF Get, Set, Invalidate, Clear
  <2>2. \A k \in Keys : entries'[k] \in {entries[k], Absent, Entry(now)}
    BY <1>1, <1>14 DEF Get, Purge, Set, Invalidate, Clear
  <2>3. Entry(now).madeAt = now
    BY DEF Entry
  <2>4. \A k \in Keys : Made'[k] \in {now, -1, Made[k]}
    BY <2>2, <2>3 DEF Made
  <2>5. Made' \in [Keys -> {now, -1} \cup {Made[k] : k \in Keys}]
    BY <2>4 DEF Made
  <2>6. QED
    BY <2>1, <2>4, <2>5 DEF Promise!Replace, Promise!Nothing, Made, Flight, Asking
<1>15. CASE Tick
  <2>1. Flight' = Flight /\ Asking' = Asking /\ Made' = Made
    BY <1>3, <1>4, <1>15 DEF Tick
  <2>2. Promise!Tick
    BY <1>15, <2>1 DEF Tick, Promise!Tick, Made, Flight, Asking
  <2>3. QED
    BY <2>2 DEF Promise!Next
<1>16. CASE UNCHANGED vars
  <2>1. Flight' = Flight /\ Asking' = Asking /\ Made' = Made
    BY <1>3, <1>4, <1>16 DEF vars
  <2>2. QED
    BY <1>16, <2>1 DEF vars, Promise!vars, Made, Flight, Asking
<1>17. ASSUME NEW c \in Callers, Call(c) \/ Resume(c) \/ CancelWaiting(c)
       PROVE  Promise!Next
  <2>1. CASE Call(c)
    BY <1>7, <1>8, <1>9, <2>1 DEF Call, Promise!Next
  <2>2. CASE Resume(c) \/ CancelWaiting(c)
    <3>1. PICK k \in Keys : k = key[c]
      BY <1>2
    <3>2. \/ Promise!Serve(c, k) \/ Promise!TakeOff(c, k)
          \/ Promise!Land(c, k) \/ Promise!GiveUp(c, k)
      BY <1>10, <1>11, <1>12, <1>13, <2>2, <3>1 DEF Resume
    <3>3. QED
      BY <3>2 DEF Promise!Next
  <2>3. QED
    BY <1>17, <2>1, <2>2
<1>18. CASE Clear \/ \E k \in Keys : Get(k) \/ Set(k) \/ Invalidate(k)
  BY <1>14, <1>18 DEF Promise!Next
<1>19. QED
  BY <1>15, <1>16, <1>17, <1>18 DEF Next

\* The locks, the queues and the deadlines implement SingleFlight, for any
\* number of callers and keys: every behaviour of the cache is one that the
\* promise of get_or_set allows.
THEOREM KeepsItsPromise == Spec => ImplementsSingleFlight
<1>1. Init => Promise!Init
  BY DEF Init, Promise!Init, Promise!Nothing, WaitersOf, Absent
<1>2. IInv /\ [Next]_vars => [Promise!Next]_(Promise!vars)
  BY PromiseStep
<1>3. QED
  BY <1>1, <1>2, Inductive, PTL DEF Spec, ImplementsSingleFlight, Promise!Spec

=============================================================================
