------------------------ MODULE AiomqttClientProofs ------------------------
(***************************************************************************)
(* Proofs about the adapter under any sequence of calls, with the bounds   *)
(* that type correctness rests on, and what the loop of connect_with_retry *)
(* knows of its delays; with the lemmas on recursive functions that the    *)
(* back-off needs.                                                         *)
(***************************************************************************)
EXTENDS AiomqttClient, WellFoundedInduction, TLAPS

\* An attempt in progress is numbered from 1, and a sleep is followed by an
\* attempt that connect_with_retry still has.
AttemptBounds ==
    /\ phase = "connecting" => attempt >= 1
    /\ phase = "sleeping" => attempt \in 1 .. MaxAttempts - 1

IInv == TypeOK /\ AttemptBounds

\* Every operation of the adapter keeps the types and the bounds.
THEOREM Inductive == Spec => []IInv
<1> USE DEF IInv
<1>1. Init => IInv
  BY RetryAssumption, SessionAssumption
     DEF Init, TypeOK, AttemptBounds, Sessions, None, Phases
<1>2. IInv /\ [Next]_vars => IInv'
  <2> SUFFICES ASSUME IInv, [Next]_vars PROVE IInv'
    OBVIOUS
  <2> USE RetryAssumption, SessionAssumption
          DEF TypeOK, AttemptBounds, Sessions, None, Phases
  <2>1. ASSUME OpenSession PROVE /\ client' \in Sessions /\ stack' \in Sessions
                                 /\ live' \subseteq Sessions /\ created' \in 0 .. MaxSessions
    BY <2>1 DEF OpenSession
  <2>2. CASE Connect
    BY <2>1, <2>2 DEF Connect, ConnectReturns, ConnectRaises, connection, retry
  <2>3. CASE RetryStart
    BY <2>3 DEF RetryStart, connection
  <2>4. CASE RetryConnects
    BY <2>1, <2>4 DEF RetryConnects, ConnectReturns, connection
  <2>5. CASE RetryFails
    BY <2>5 DEF RetryFails, ConnectRaises, LastAttempt, connection
  <2>6. CASE RetrySleepOver
    BY <2>6 DEF RetrySleepOver, Doubled, connection
  <2>7. CASE PublishFails
    BY <2>7 DEF PublishFails, retry
  <2>8. CASE DisconnectReturns \/ DisconnectRaises
    BY <2>8 DEF DisconnectReturns, DisconnectRaises, CloseSession, retry
  <2>9. CASE LinkLost
    BY <2>9 DEF LinkLost, retry
  <2>10. CASE UNCHANGED vars
    BY <2>10 DEF vars
  <2>11. QED
    BY <2>2, <2>3, <2>4, <2>5, <2>6, <2>7, <2>8, <2>9, <2>10
       DEF Next, PublishSucceeds, PublishRefused, SubscribeSucceeds, SubscribeFails,
           SubscribeRefused, MessagesEnd, OperationSucceeds
<1>3. QED
  BY <1>1, <1>2, PTL DEF Spec

\* Type correctness.
THEOREM TypeCorrect == Spec => []TypeOK
<1>1. IInv => TypeOK
  BY DEF IInv
<1>2. QED
  BY <1>1, Inductive, PTL

\* Under any sequence of calls, failures and losses, a handle that can carry
\* traffic is one whose session the next disconnect closes.
THEOREM UsableIsClosable == Spec => []UsableHandleIsClosable
<1>1. Init => UsableHandleIsClosable
  BY DEF Init, UsableHandleIsClosable
<1>2. TypeOK /\ UsableHandleIsClosable /\ [Next]_vars => UsableHandleIsClosable'
  <2> SUFFICES ASSUME TypeOK, UsableHandleIsClosable, [Next]_vars PROVE UsableHandleIsClosable'
    OBVIOUS
  <2> USE DEF UsableHandleIsClosable
  <2>1. CASE Connect \/ RetryConnects
    BY <2>1 DEF Connect, RetryConnects, ConnectReturns, ConnectRaises, OpenSession,
        connection
  <2>2. CASE RetryStart \/ RetryFails \/ RetrySleepOver
    BY <2>2 DEF RetryStart, RetryFails, RetrySleepOver, ConnectRaises, connection
  <2>3. CASE PublishFails
    BY <2>3 DEF PublishFails, TypeOK, Sessions, None
  <2>4. CASE DisconnectReturns \/ DisconnectRaises
    BY <2>4 DEF DisconnectReturns, DisconnectRaises, CloseSession, HasSessionToClose
  <2>5. CASE LinkLost
    BY <2>5 DEF LinkLost
  <2>6. CASE UNCHANGED vars
    BY <2>6 DEF vars
  <2>7. QED
    BY <2>1, <2>2, <2>3, <2>4, <2>5, <2>6
       DEF Next, PublishSucceeds, PublishRefused, SubscribeSucceeds, SubscribeFails,
           SubscribeRefused, MessagesEnd, OperationSucceeds
<1>3. QED
  BY <1>1, <1>2, TypeCorrect, PTL DEF Spec

\* The stack lets go of a session that stays open only when the handle had
\* already been dropped, by a publish that failed.
THEOREM ReplacesOnlyDropped == Spec => NoSilentReplacement
<1> DEFINE A == (stack \in live' /\ stack' # stack) => client = None
<1>1. [Next]_vars => [A]_vars
  <2> SUFFICES ASSUME Next, stack \in live', stack' # stack PROVE client = None
    OBVIOUS
  <2>1. CASE Connect \/ RetryConnects
    BY <2>1 DEF Connect, RetryConnects, ConnectReturns, ConnectRaises, AlreadyConnected,
        connection
  <2>2. CASE DisconnectReturns \/ DisconnectRaises
    BY <2>2 DEF DisconnectReturns, DisconnectRaises, CloseSession
  <2>3. QED
    BY <2>1, <2>2
       DEF Next, RetryStart, RetryFails, RetrySleepOver, ConnectRaises, connection,
           PublishFails, LinkLost, PublishSucceeds, PublishRefused, SubscribeSucceeds,
           SubscribeFails, SubscribeRefused, MessagesEnd, OperationSucceeds, vars
<1>2. Spec => [][A]_vars
  BY <1>1, PTL DEF Spec
<1>3. QED
  BY <1>2 DEF NoSilentReplacement

-----------------------------------------------------------------------------
(* Recursive functions                                                      *)

(***************************************************************************)
(* Induction and recursion over the natural numbers, about sets and        *)
(* functions instead of predicates: the theorems of NaturalsInduction have *)
(* an operator as a parameter, which the SMT solver and Zenon cannot       *)
(* instantiate.  Nothing here is about the adapter; the lemmas serve all   *)
(* that is defined by recursion.                                           *)
(***************************************************************************)

\* Less-than is a well-founded relation.
LEMMA Ordered ==
    \E R : IsWellFoundedOn(R, Nat) /\ \A x, y \in Nat : x < y => <<x, y>> \in R
<1>1. IsWellFoundedOn(OpToRel(<, Nat), Nat)
  BY NatLessThanWellFounded, Zenon
<1>2. \A x, y \in Nat : x < y => <<x, y>> \in OpToRel(<, Nat)
  BY Zenon DEF OpToRel
<1>3. QED
  BY <1>1, <1>2, Zenon

\* The least-number principle.
LEMMA Smallest ==
    ASSUME NEW S, S \subseteq Nat, S # {}
    PROVE  \E x \in S : \A y \in S : x <= y
<1>1. PICK R : IsWellFoundedOn(R, Nat) /\ \A x, y \in Nat : x < y => <<x, y>> \in R
  BY Ordered
<1>2. \E x \in S : \A y \in S : ~(<<y, x>> \in R)
  <2>1. IsWellFoundedOn(R, Nat)
    BY <1>1
  <2>2. QED
    BY <2>1, WFMin, Zenon
<1>3. PICK x \in S : \A y \in S : ~(<<y, x>> \in R)
  BY <1>2
<1>4. ASSUME NEW y \in S PROVE x <= y
  <2>1. x \in Nat /\ y \in Nat
    OBVIOUS
  <2>2. ~(y < x)
    BY <1>1, <1>3, <2>1
  <2>3. QED
    BY <2>1, <2>2
<1>5. QED
  BY <1>4

\* A set with 0 that is closed under the successor has every natural number.
LEMMA SetInduction ==
    ASSUME NEW S, 0 \in S, \A n \in Nat : n \in S => n + 1 \in S
    PROVE  Nat \subseteq S
<1> SUFFICES ASSUME Nat \ S # {} PROVE FALSE
  OBVIOUS
<1>1. PICK n \in Nat \ S : \A m \in Nat \ S : n <= m
  BY Smallest
<1>2. n # 0 /\ n - 1 \in Nat
  BY <1>1
<1>3. n - 1 \in S
  BY <1>1, <1>2
<1>4. QED
  BY <1>1, <1>2, <1>3

\* A function that starts in V and never leaves it has all its values there.
LEMMA StaysIn ==
    ASSUME NEW V, NEW f, f[0] \in V, \A n \in Nat : f[n] \in V => f[n + 1] \in V
    PROVE  \A n \in Nat : f[n] \in V
<1> DEFINE S == {n \in Nat : f[n] \in V}
<1>1. 0 \in S /\ \A n \in Nat : n \in S => n + 1 \in S
  OBVIOUS
<1>2. Nat \subseteq S
  <2> HIDE DEF S
  <2>1. QED
    BY <1>1, SetInduction
<1>3. QED
  BY <1>2

\* The functions that say how a value follows from the n-th one.
Steps(V) == [Nat -> [V -> V]]

\* g starts with v and goes on by the steps F.
Iterates(g, v, F) == g[0] = v /\ \A n \in Nat : g[n + 1] = F[n][g[n]]

\* Whatever the steps, there is a function that goes on by them.
LEMMA PrimitiveRecursion ==
    ASSUME NEW V, NEW v \in V, NEW F \in Steps(V)
    PROVE  \E g \in [Nat -> V] : Iterates(g, v, F)
<1> USE DEF Steps
<1> DEFINE Upto(n) == {g \in [0 .. n -> V] :
                          \A i \in 0 .. n : g[i] = IF i = 0 THEN v ELSE F[i - 1][g[i - 1]]}
<1>1. \A n \in Nat : Upto(n) # {}
  <2> DEFINE S == {n \in Nat : Upto(n) # {}}
  <2>1. 0 \in S
    <3>1. [i \in 0 .. 0 |-> v] \in Upto(0)
      OBVIOUS
    <3>2. QED
      BY <3>1
  <2>2. ASSUME NEW n \in Nat, n \in S PROVE n + 1 \in S
    <3>1. PICK g : g \in Upto(n)
      BY <2>2
    <3>2. g[n] \in V
      BY <3>1
    <3> DEFINE h == [i \in 0 .. n + 1 |-> IF i = n + 1 THEN F[n][g[n]] ELSE g[i]]
    <3>3. h \in [0 .. n + 1 -> V]
      BY <3>1, <3>2
    <3>4. ASSUME NEW i \in 0 .. n + 1
          PROVE  h[i] = IF i = 0 THEN v ELSE F[i - 1][h[i - 1]]
      <4>1. CASE i = n + 1
        BY <4>1
      <4>2. CASE i # n + 1
        BY <3>1, <4>2
      <4>3. QED
        BY <4>1, <4>2
    <3>5. h \in Upto(n + 1)
      <4> HIDE DEF h
      <4>1. QED
        BY <3>3, <3>4
    <3>6. n + 1 \in Nat
      OBVIOUS
    <3>7. QED
      <4> HIDE DEF Upto, h
      <4>1. QED
        BY <3>5, <3>6
  <2>3. Nat \subseteq S
    <3> HIDE DEF S
    <3>1. QED
      BY <2>1, <2>2, SetInduction
  <2>4. QED
    BY <2>3
<1>2. \A n \in Nat, m \in Nat : \A g \in Upto(n), h \in Upto(m) :
          \A i \in Nat : i <= n /\ i <= m => g[i] = h[i]
  <2> SUFFICES ASSUME NEW n \in Nat, NEW m \in Nat, NEW g \in Upto(n), NEW h \in Upto(m)
               PROVE  \A i \in Nat : i <= n /\ i <= m => g[i] = h[i]
    OBVIOUS
  <2> DEFINE S == {i \in Nat : i <= n /\ i <= m => g[i] = h[i]}
  <2>1. 0 \in S
    OBVIOUS
  <2>2. ASSUME NEW i \in Nat, i \in S PROVE i + 1 \in S
    BY <2>2
  <2>3. Nat \subseteq S
    <3> HIDE DEF S
    <3>1. QED
      BY <2>1, <2>2, SetInduction
  <2>4. QED
    BY <2>3
<1> DEFINE Pick(n) == CHOOSE g : g \in Upto(n)
           G == [n \in Nat |-> Pick(n)[n]]
<1>3. \A n \in Nat : Pick(n) \in Upto(n)
  BY <1>1
<1>4. ASSUME NEW n \in Nat
      PROVE  G[n] \in V /\ G[n] = IF n = 0 THEN v ELSE F[n - 1][G[n - 1]]
  <2>1. /\ Pick(n) \in [0 .. n -> V]
        /\ \A i \in 0 .. n : Pick(n)[i] = IF i = 0 THEN v ELSE F[i - 1][Pick(n)[i - 1]]
    <3> HIDE DEF Pick
    <3>1. QED
      BY <1>3
  <2>2. G[n] = Pick(n)[n]
    <3> HIDE DEF Pick
    <3>1. QED
      OBVIOUS
  <2>3. CASE n = 0
    <3> HIDE DEF Pick, G
    <3>1. QED
      BY <2>1, <2>2, <2>3
  <2>4. CASE n # 0
    <3>1. n - 1 \in Nat
      BY <2>4
    <3>2. G[n - 1] = Pick(n - 1)[n - 1]
      <4> HIDE DEF Pick
      <4>1. QED
        BY <3>1
    <3>3. Pick(n - 1)[n - 1] = Pick(n)[n - 1]
      <4> HIDE DEF Upto, Pick, G
      <4>1. n - 1 <= n /\ n - 1 <= n - 1
        BY <3>1
      <4>2. QED
        BY <1>2, <1>3, <3>1, <4>1
    <3>4. QED
      <4> HIDE DEF Upto, Pick, G
      <4>1. QED
        BY <2>1, <2>2, <2>4, <3>2, <3>3
  <2>5. QED
    BY <2>3, <2>4
<1>5. QED
  <2> HIDE DEF Upto, Pick
  <2>1. G \in [Nat -> V]
    BY <1>4
  <2> HIDE DEF G
  <2>2. G[0] = v
    BY <1>4
  <2>3. ASSUME NEW n \in Nat PROVE G[n + 1] = F[n][G[n]]
    <3>1. n + 1 \in Nat /\ n + 1 # 0 /\ (n + 1) - 1 = n
      OBVIOUS
    <3>2. QED
      BY <1>4, <3>1
  <2>4. QED
    BY <2>1, <2>2, <2>3 DEF Iterates

-----------------------------------------------------------------------------
(* The two recursions of a back-off                                         *)

\* f starts with a and doubles.
Doubles(f, a) == f = [n \in Nat |-> IF n = 0 THEN a ELSE 2 * f[n - 1]]

\* f[n] is the sum of the first n values of h, which are counted from 1.
SumsUp(f, h) == f = [n \in Nat |-> IF n = 0 THEN 0 ELSE f[n - 1] + h[n]]

\* There is a function that doubles.
LEMMA DoublingExists ==
    ASSUME NEW a \in Nat
    PROVE  \E f : Doubles(f, a)
<1>1. PICK F \in Steps(Nat) : \A n, x \in Nat : F[n][x] = 2 * x
  <2>1. [n \in Nat |-> [x \in Nat |-> 2 * x]] \in [Nat -> [Nat -> Nat]]
    OBVIOUS
  <2>2. QED
    BY <2>1 DEF Steps
<1>2. PICK g \in [Nat -> Nat] : Iterates(g, a, F)
  BY <1>1, PrimitiveRecursion
<1>3. ASSUME NEW n \in Nat
      PROVE  g[n] = IF n = 0 THEN a ELSE 2 * g[n - 1]
  <2>1. n # 0 => n - 1 \in Nat /\ (n - 1) + 1 = n
    OBVIOUS
  <2>2. QED
    BY <1>1, <1>2, <2>1 DEF Iterates
<1>4. QED
  BY <1>2, <1>3 DEF Doubles

\* Its values, and that it never falls.
LEMMA DoublingValues ==
    ASSUME NEW a \in Nat, NEW f, Doubles(f, a)
    PROVE  /\ f[0] = a
           /\ \A n \in Nat : f[n] \in Nat /\ f[n + 1] = 2 * f[n]
           /\ \A n \in Nat : \A i \in 0 .. n : f[i] <= f[n]
<1>1. \A n \in Nat : f[n] = IF n = 0 THEN a ELSE 2 * f[n - 1]
  BY DEF Doubles
<1>2. \A n \in Nat : n + 1 \in Nat /\ n + 1 # 0 /\ (n + 1) - 1 = n
  OBVIOUS
<1>3. f[0] = a /\ \A n \in Nat : f[n + 1] = 2 * f[n]
  BY <1>1, <1>2
<1>4. \A n \in Nat : f[n] \in Nat
  <2>1. ASSUME NEW n \in Nat, f[n] \in Nat PROVE f[n + 1] \in Nat
    <3>1. 2 * f[n] \in Nat
      BY <2>1
    <3>2. QED
      BY <1>3, <3>1
  <2>2. QED
    BY <1>3, <2>1, StaysIn
<1> DEFINE S == {n \in Nat : \A i \in 0 .. n : f[i] <= f[n]}
<1>5. 0 \in S
  BY <1>4
<1>6. ASSUME NEW n \in Nat, n \in S PROVE n + 1 \in S
  <2>1. /\ f[n] \in Nat /\ f[n + 1] = 2 * f[n]
        /\ \A i \in 0 .. n : f[i] \in Nat /\ f[i] <= f[n]
    BY <1>3, <1>4, <1>6
  <2>2. ASSUME NEW i \in 0 .. n + 1 PROVE f[i] <= f[n + 1]
    <3>1. CASE i = n + 1
      BY <2>1, <3>1
    <3>2. CASE i \in 0 .. n
      BY <2>1, <3>2
    <3>3. QED
      BY <3>1, <3>2
  <2>3. QED
    BY <2>2
<1>7. Nat \subseteq S
  <2> HIDE DEF S
  <2>1. QED
    BY <1>5, <1>6, SetInduction
<1>8. QED
  BY <1>3, <1>4, <1>7

\* There is a function that sums up.
LEMMA SumExists ==
    ASSUME NEW h \in [Nat \ {0} -> Nat]
    PROVE  \E f : SumsUp(f, h)
<1>1. \A n \in Nat : n + 1 \in Nat \ {0} /\ h[n + 1] \in Nat
  OBVIOUS
<1>2. PICK F \in Steps(Nat) : \A n, x \in Nat : F[n][x] = x + h[n + 1]
  <2>1. \A n, x \in Nat : x + h[n + 1] \in Nat
    BY <1>1
  <2>2. [n \in Nat |-> [x \in Nat |-> x + h[n + 1]]] \in [Nat -> [Nat -> Nat]]
    BY <2>1
  <2>3. QED
    BY <2>2 DEF Steps
<1>3. PICK g \in [Nat -> Nat] : Iterates(g, 0, F)
  BY <1>2, PrimitiveRecursion
<1>4. ASSUME NEW n \in Nat
      PROVE  g[n] = IF n = 0 THEN 0 ELSE g[n - 1] + h[n]
  <2>1. n # 0 => n - 1 \in Nat /\ (n - 1) + 1 = n
    OBVIOUS
  <2>2. QED
    BY <1>2, <1>3, <2>1 DEF Iterates
<1>5. QED
  BY <1>3, <1>4 DEF SumsUp

\* Its values.
LEMMA SumValues ==
    ASSUME NEW h \in [Nat \ {0} -> Nat], NEW f, SumsUp(f, h)
    PROVE  /\ f[0] = 0
           /\ \A n \in Nat : f[n] \in Nat /\ f[n + 1] = f[n] + h[n + 1]
<1>1. \A n \in Nat : f[n] = IF n = 0 THEN 0 ELSE f[n - 1] + h[n]
  BY DEF SumsUp
<1>2. \A n \in Nat : n + 1 \in Nat /\ n + 1 # 0 /\ (n + 1) - 1 = n /\ h[n + 1] \in Nat
  OBVIOUS
<1>3. f[0] = 0 /\ \A n \in Nat : f[n + 1] = f[n] + h[n + 1]
  BY <1>1, <1>2
<1>4. \A n \in Nat : f[n] \in Nat
  <2>1. ASSUME NEW n \in Nat, f[n] \in Nat PROVE f[n + 1] \in Nat
    <3>1. f[n] + h[n + 1] \in Nat
      BY <1>2, <2>1
    <3>2. QED
      BY <1>3, <3>1
  <2>2. f[0] \in Nat
    BY <1>3
  <2>3. QED
    BY <2>1, <2>2, StaysIn
<1>5. QED
  BY <1>3, <1>4

-----------------------------------------------------------------------------
(* The back-off                                                             *)

\* The values of the exponential, of the delays and of their sums.
LEMMA Scheduling ==
    /\ Exponential[0] = InitialDelay
    /\ \A n \in Nat : /\ Exponential[n] \in Nat
                      /\ Exponential[n + 1] = 2 * Exponential[n]
    /\ Delays \in [Nat \ {0} -> Nat]
    /\ Schedule[0] = 0
    /\ \A n \in Nat : Schedule[n] \in Nat /\ Schedule[n + 1] = Schedule[n] + Delays[n + 1]
<1>1. InitialDelay \in Nat /\ MaxDelay \in Nat
  BY RetryAssumption
<1>2. Exponential = CHOOSE f : Doubles(f, InitialDelay)
  BY DEF Exponential, Doubles
<1>3. Doubles(Exponential, InitialDelay)
  BY <1>1, <1>2, DoublingExists
<1>4. /\ Exponential[0] = InitialDelay
      /\ \A n \in Nat : Exponential[n] \in Nat /\ Exponential[n + 1] = 2 * Exponential[n]
  BY <1>1, <1>3, DoublingValues
<1>5. Delays \in [Nat \ {0} -> Nat]
  <2>1. \A n \in Nat \ {0} : n - 1 \in Nat
    OBVIOUS
  <2>2. QED
    BY <1>1, <1>4, <2>1 DEF Delays
<1>6. Schedule = CHOOSE f : SumsUp(f, Delays)
  BY DEF Schedule, SumsUp
<1>7. SumsUp(Schedule, Delays)
  BY <1>5, <1>6, SumExists
<1>8. QED
  BY <1>4, <1>5, <1>7, SumValues

\* While the loop of connect_with_retry runs, it has slept the delays of the
\* attempts before this one, and holds the next.
OnSchedule ==
    phase \in {"connecting", "sleeping"} =>
        slept = Schedule[attempt - 1] /\ delay = Delays[attempt]

\* A sleep keeps the loop on schedule: doubling a delay and capping it is
\* capping the doubled exponential.
LEMMA SleepStep ==
    ASSUME IInv, OnSchedule, RetrySleepOver
    PROVE  OnSchedule'
<1>1. /\ attempt \in Nat \ {0} /\ attempt - 1 \in Nat /\ (attempt - 1) + 1 = attempt
      /\ attempt + 1 \in Nat \ {0} /\ (attempt + 1) - 1 = attempt
      /\ MaxDelay \in Nat
  BY RetryAssumption DEF IInv, TypeOK, AttemptBounds, RetrySleepOver
<1>2. /\ slept' = slept + delay /\ delay' = Doubled(delay) /\ attempt' = attempt + 1
      /\ slept = Schedule[attempt - 1] /\ delay = Delays[attempt]
  BY DEF OnSchedule, RetrySleepOver
<1>3. slept' = Schedule[attempt' - 1]
  BY <1>1, <1>2, Scheduling
<1>4. /\ Exponential[attempt - 1] \in Nat
      /\ Exponential[attempt] = 2 * Exponential[attempt - 1]
  BY <1>1, Scheduling
<1>5. /\ delay = IF Exponential[attempt - 1] < MaxDelay
                 THEN Exponential[attempt - 1] ELSE MaxDelay
      /\ Delays[attempt + 1] = IF Exponential[attempt] < MaxDelay
                               THEN Exponential[attempt] ELSE MaxDelay
  BY <1>1, <1>2 DEF Delays
<1>6. delay' = Delays[attempt']
  BY <1>1, <1>2, <1>4, <1>5 DEF Doubled
<1>7. QED
  BY <1>3, <1>6 DEF OnSchedule

\* Whatever the first delay, the cap and the number of attempts, the seconds
\* slept ahead of an attempt are those of the exponential back-off.
THEOREM BackoffIsExponential == Spec => []BackoffSchedule
<1>1. Init => OnSchedule
  BY DEF Init, OnSchedule
<1>2. IInv /\ OnSchedule /\ [Next]_vars => OnSchedule'
  <2> SUFFICES ASSUME IInv, OnSchedule, [Next]_vars PROVE OnSchedule'
    OBVIOUS
  <2>1. CASE RetryStart
    <3>1. Delays[1] = InitialDelay
      BY RetryAssumption, Scheduling DEF Delays
    <3>2. QED
      BY <2>1, <3>1, Scheduling DEF RetryStart, OnSchedule
  <2>2. CASE RetryConnects \/ RetryFails
    BY <2>2 DEF RetryConnects, RetryFails, OnSchedule
  <2>3. CASE RetrySleepOver
    BY <2>3, SleepStep
  <2>4. CASE UNCHANGED retry
    BY <2>4 DEF retry, OnSchedule
  <2>5. CASE UNCHANGED vars
    BY <2>5 DEF vars, OnSchedule
  <2>6. QED
    BY <2>1, <2>2, <2>3, <2>4, <2>5
       DEF Next, Connect, PublishFails, DisconnectReturns, DisconnectRaises, LinkLost,
           PublishSucceeds, PublishRefused, SubscribeSucceeds, SubscribeFails,
           SubscribeRefused, MessagesEnd, OperationSucceeds
<1>3. OnSchedule => BackoffSchedule
  BY DEF OnSchedule, BackoffSchedule
<1>4. QED
  BY <1>1, <1>2, <1>3, Inductive, PTL DEF Spec

=============================================================================
