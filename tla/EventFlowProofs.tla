--------------------------- MODULE EventFlowProofs ---------------------------
(***************************************************************************)
(* Proofs about the system end to end, for any number of readings and      *)
(* strings of any length.  First, what Wiring does to strings, and from it *)
(* for which of them anything is routed.  Then both processes implement    *)
(* their use cases, whatever the broker between them loses or repeats, so  *)
(* that their own invariants hold here.  Last comes the invariant that     *)
(* ties them: which readings can have arrived on which channel at each     *)
(* await of the publisher.                                                 *)
(***************************************************************************)
EXTENDS EventFlow, FiniteSetTheorems, SequenceTheorems, TLAPS

PublisherP == INSTANCE SensorPublisherProofs WITH
    client <- pClient, stack <- pStack, live <- pLive, created <- pCreated,
    phase <- pPhase, attempt <- pAttempt, delay <- pDelay, slept <- pSlept,
    pc <- pPc, stop <- pStop, ending <- pEnding

\* What the consumer sees of a message: its channel, and whether it decodes.
Seen == [i \in DOMAIN arrived |->
            [channel |-> arrived[i].channel, decodable |-> arrived[i].decodable]]

ConsumerP == INSTANCE SensorConsumerProofs WITH
    client <- cClient, stack <- cStack, live <- cLive, created <- cCreated,
    phase <- cPhase, attempt <- cAttempt, delay <- cDelay, slept <- cSlept,
    pc <- cPc, stop <- cStop, ending <- cEnding, arrived <- Seen,
    MaxMessages <- 4 * MaxReadings

AdapterP == INSTANCE AiomqttClientProofs WITH
    client <- pClient, stack <- pStack, live <- pLive, created <- pCreated,
    phase <- pPhase, attempt <- pAttempt, delay <- pDelay, slept <- pSlept

-----------------------------------------------------------------------------
(* Strings                                                                  *)

\* The largest element of a set of numbers with a bound.
LEMMA Largest ==
    ASSUME NEW S, S \subseteq Nat, S # {}, NEW n \in Nat, \A x \in S : x <= n
    PROVE  Max(S) \in S /\ \A x \in S : x <= Max(S)
<1> DEFINE T == {n - x : x \in S}
<1>1. T \subseteq Nat /\ T # {}
  <2>1. ASSUME NEW x \in S PROVE n - x \in Nat
    OBVIOUS
  <2>2. QED
    BY <2>1
<1>2. PICK t \in T : \A u \in T : t <= u
  BY <1>1, FlowAssumption, AdapterP!Smallest
<1>3. PICK x \in S : t = n - x
  BY <1>2
<1>4. ASSUME NEW y \in S PROVE x >= y
  <2>1. n - x <= n - y
    BY <1>2, <1>3
  <2>2. QED
    BY <2>1
<1>5. \E m \in S : \A y \in S : m >= y
  BY <1>4
<1>6. Max(S) \in S /\ \A y \in S : Max(S) >= y
  BY <1>5 DEF Max
<1>7. QED
  BY <1>6

\* The same of the smallest, which needs no bound.
LEMMA Least ==
    ASSUME NEW S, S \subseteq Nat, S # {}
    PROVE  Min(S) \in S /\ \A x \in S : Min(S) <= x
<1>1. \E x \in S : \A y \in S : x <= y
  BY FlowAssumption, AdapterP!Smallest
<1>2. QED
  BY <1>1 DEF Min

Chars == {"x", Blank, Slash}

\* What is configured is a sequence of characters.
LEMMA ConfiguredStrings ==
    ASSUME NEW n \in Nat, NEW s \in Strings(n)
    PROVE  s \in Seq(Chars)
<1>1. PICK m \in 0 .. n : s \in [1 .. m -> Chars]
  BY DEF Strings, BoundedSeq, SeqOf, Chars
<1>2. QED
  BY <1>1

\* Trimming a string that has something but blanks leaves what is between
\* its first and its last character that is none; nothing is lost exactly
\* when these are its ends.
LEMMA Stripped ==
    ASSUME NEW s \in Seq(Chars), Strip(s) # <<>>
    PROVE  \E a, b \in 1 .. Len(s) :
            /\ a <= b /\ Strip(s) = SubSeq(s, a, b)
            /\ s[a] # Blank /\ s[b] # Blank
            /\ a > 1 => s[1] = Blank
            /\ b < Len(s) => s[Len(s)] = Blank
<1> DEFINE kept == PositionsBut(s, Blank)
<1>1. kept = {i \in 1 .. Len(s) : s[i] # Blank} /\ Len(s) \in Nat
  BY DEF PositionsBut
<1>2. kept # {} /\ Strip(s) = SubSeq(s, Min(kept), Max(kept))
  BY DEF Strip
<1>3. kept \subseteq Nat /\ \A x \in kept : x <= Len(s)
  BY <1>1
<1>4. Min(kept) \in kept /\ \A x \in kept : Min(kept) <= x
  BY <1>2, <1>3, Least
<1>5. Max(kept) \in kept /\ \A x \in kept : x <= Max(kept)
  BY <1>1, <1>2, <1>3, Largest
<1> HIDE DEF kept
<1>6. Min(kept) <= Max(kept) /\ Min(kept) \in 1 .. Len(s) /\ Max(kept) \in 1 .. Len(s)
  BY <1>1, <1>4, <1>5
<1>7. s[Min(kept)] # Blank /\ s[Max(kept)] # Blank
  BY <1>1, <1>4, <1>5
<1>8. /\ Min(kept) > 1 => s[1] = Blank
      /\ Max(kept) < Len(s) => s[Len(s)] = Blank
  BY <1>1, <1>4, <1>5, <1>6
<1>9. QED
  BY <1>2, <1>6, <1>7, <1>8

\* Without its trailing slashes a string is the part up to its last
\* character that is none.
LEMMA RStripped ==
    ASSUME NEW s \in Seq(Chars)
    PROVE  \E m \in 0 .. Len(s) :
            /\ RStrip(s) = SubSeq(s, 1, m)
            /\ RStrip(s) \in Seq(Chars) /\ Len(RStrip(s)) = m
            /\ \A i \in 1 .. m : RStrip(s)[i] = s[i]
            /\ \A i \in m + 1 .. Len(s) : s[i] = Slash
<1> DEFINE kept == PositionsBut(s, Slash) \cup {0}
<1>1. kept = {i \in 1 .. Len(s) : s[i] # Slash} \cup {0} /\ Len(s) \in Nat
  BY DEF PositionsBut
<1>2. RStrip(s) = SubSeq(s, 1, Max(kept))
  BY DEF RStrip
<1>3. kept \subseteq Nat /\ kept # {} /\ \A x \in kept : x <= Len(s)
  BY <1>1
<1>4. Max(kept) \in kept /\ \A x \in kept : x <= Max(kept)
  BY <1>1, <1>3, Largest
<1> HIDE DEF kept
<1>5. Max(kept) \in 0 .. Len(s)
  BY <1>1, <1>4
<1>6. ASSUME NEW i \in Max(kept) + 1 .. Len(s) PROVE s[i] = Slash
  <2>1. i \in 1 .. Len(s) /\ ~(i <= Max(kept))
    BY <1>1, <1>5
  <2>2. QED
    BY <1>1, <1>4, <2>1
<1>7. /\ SubSeq(s, 1, Max(kept)) \in Seq(Chars) /\ Len(SubSeq(s, 1, Max(kept))) = Max(kept)
      /\ \A i \in 1 .. Max(kept) : SubSeq(s, 1, Max(kept))[i] = s[i]
  <2>1. \A i \in 1 .. Max(kept) : s[i] \in Chars
    BY <1>1, <1>5
  <2>2. Max(kept) - 1 + 1 = Max(kept) /\ 1 \in Int /\ Max(kept) \in Int
    BY <1>1, <1>5
  <2>3. \A i \in 1 .. Max(kept) : 1 + i - 1 = i
    BY <2>2
  <2>4. QED
    BY <1>5, <2>1, <2>2, <2>3, SubSeqProperties
<1>8. QED
  BY <1>2, <1>5, <1>6, <1>7

-----------------------------------------------------------------------------
(* Topics and filters                                                       *)

Signs == Chars \cup {Plus} \cup Publisher!Channels

\* One sequence followed by another, and the elements of the two.
LEMMA Joined ==
    ASSUME NEW S, NEW a \in Seq(S), NEW b \in Seq(S)
    PROVE  a \o b \in Seq(S) /\ Len(a \o b) = Len(a) + Len(b)
OBVIOUS

LEMMA JoinedLeft ==
    ASSUME NEW S, NEW a \in Seq(S), NEW b \in Seq(S), NEW i \in 1 .. Len(a)
    PROVE  (a \o b)[i] = a[i]
OBVIOUS

LEMMA JoinedRight ==
    ASSUME NEW S, NEW a \in Seq(S), NEW b \in Seq(S), NEW i \in 1 .. Len(b)
    PROVE  (a \o b)[Len(a) + i] = b[i]
OBVIOUS

\* The characters of a filter.
HasFilterShape(f, p, c) ==
    /\ f \in Seq(Signs) /\ Len(f) = Len(p) + 4
    /\ \A i \in 1 .. Len(p) : f[i] = p[i]
    /\ f[Len(p) + 1] = Slash /\ f[Len(p) + 2] = Plus
    /\ f[Len(p) + 3] = Slash /\ f[Len(p) + 4] = c

LEMMA FilterShape ==
    ASSUME NEW p \in Seq(Chars), NEW c \in Channels, NEW f,
           f = p \o <<Slash, Plus, Slash, c>>
    PROVE  HasFilterShape(f, p, c)
<1>1. PICK t : t = <<Slash, Plus, Slash, c>>
  OBVIOUS
<1>2. /\ t \in Seq(Signs) /\ Len(t) = 4
      /\ t[1] = Slash /\ t[2] = Plus /\ t[3] = Slash /\ t[4] = c
  <2>1. Slash \in Signs /\ Plus \in Signs /\ c \in Signs
    BY DEF Signs, Chars, Channels, Publisher!Channels
  <2>2. QED
    BY <1>1, <2>1
<1>3. p \in Seq(Signs) /\ Len(p) \in Nat
  BY DEF Signs
<1>4. f = p \o t
  BY <1>1
<1>5. /\ f \in Seq(Signs) /\ Len(f) = Len(p) + 4
      /\ \A i \in 1 .. Len(p) : f[i] = p[i]
      /\ \A i \in 1 .. 4 : f[Len(p) + i] = t[i]
  BY <1>2, <1>3, <1>4, Joined
<1>6. QED
  BY <1>2, <1>5 DEF HasFilterShape

\* What t has where, when it is q, a sign, d and two signs.
InFourParts(t, q, u, d, v) ==
    /\ t = ((q \o u) \o d) \o v
    /\ Len(t) = Len(q) + Len(d) + 3
    /\ \A i \in 1 .. Len(q) : t[i] = q[i]
    /\ t[Len(q) + 1] = u[1]
    /\ \A i \in 1 .. Len(d) : t[Len(q) + 1 + i] = d[i]
    /\ t[Len(q) + Len(d) + 2] = v[1] /\ t[Len(q) + Len(d) + 3] = v[2]

LEMMA JoinedFour ==
    ASSUME NEW S, NEW q \in Seq(S), NEW u \in Seq(S), NEW d \in Seq(S), NEW v \in Seq(S)
    PROVE  Len(u) = 1 /\ Len(v) = 2 => \E t \in Seq(S) : InFourParts(t, q, u, d, v)
<1>1. PICK a : a = q \o u
  OBVIOUS
<1>2. PICK b : b = a \o d
  OBVIOUS
<1>3. PICK t : t = b \o v
  OBVIOUS
<1>4. /\ a \in Seq(S) /\ Len(a) = Len(q) + Len(u)
      /\ \A i \in 1 .. Len(q) : a[i] = q[i]
      /\ \A i \in 1 .. Len(u) : a[Len(q) + i] = u[i]
  <2>1. a \in Seq(S) /\ Len(a) = Len(q) + Len(u)
    BY <1>1, Joined, Zenon
  <2>2. \A i \in 1 .. Len(q) : a[i] = q[i]
    BY <1>1, JoinedLeft, Zenon
  <2>3. \A i \in 1 .. Len(u) : a[Len(q) + i] = u[i]
    BY <1>1, JoinedRight, Zenon
  <2>4. QED
    BY <2>1, <2>2, <2>3
<1>5. /\ b \in Seq(S) /\ Len(b) = Len(a) + Len(d)
      /\ \A i \in 1 .. Len(a) : b[i] = a[i]
      /\ \A i \in 1 .. Len(d) : b[Len(a) + i] = d[i]
  <2>1. a \in Seq(S)
    BY <1>4
  <2>2. b \in Seq(S) /\ Len(b) = Len(a) + Len(d)
    BY <1>2, <2>1, Joined, Zenon
  <2>3. \A i \in 1 .. Len(a) : b[i] = a[i]
    BY <1>2, <2>1, JoinedLeft, Zenon
  <2>4. \A i \in 1 .. Len(d) : b[Len(a) + i] = d[i]
    BY <1>2, <2>1, JoinedRight, Zenon
  <2>5. QED
    BY <2>2, <2>3, <2>4
<1>6. /\ t \in Seq(S) /\ Len(t) = Len(b) + Len(v)
      /\ \A i \in 1 .. Len(b) : t[i] = b[i]
      /\ \A i \in 1 .. Len(v) : t[Len(b) + i] = v[i]
  <2>1. b \in Seq(S)
    BY <1>5
  <2>2. t \in Seq(S) /\ Len(t) = Len(b) + Len(v)
    BY <1>3, <2>1, Joined, Zenon
  <2>3. \A i \in 1 .. Len(b) : t[i] = b[i]
    BY <1>3, <2>1, JoinedLeft, Zenon
  <2>4. \A i \in 1 .. Len(v) : t[Len(b) + i] = v[i]
    BY <1>3, <2>1, JoinedRight, Zenon
  <2>5. QED
    BY <2>2, <2>3, <2>4
<1> SUFFICES ASSUME Len(u) = 1, Len(v) = 2
             PROVE  \E s \in Seq(S) : InFourParts(s, q, u, d, v)
  OBVIOUS
<1>7. PICK m : m = Len(q)
  OBVIOUS
<1>8. PICK n : n = Len(d)
  OBVIOUS
<1>9. /\ m \in Nat /\ n \in Nat /\ Len(q) = m /\ Len(d) = n
      /\ Len(a) = m + 1 /\ Len(b) = m + 1 + n /\ Len(t) = m + n + 3
  BY <1>4, <1>5, <1>6, <1>7, <1>8
<1>10. \A i \in 1 .. m : i \in 1 .. m + 1 + n /\ i \in 1 .. m + 1
  BY <1>9
<1>11. \A i \in 1 .. n : m + 1 + i \in 1 .. m + 1 + n
  BY <1>9
<1>12. /\ m + 1 \in 1 .. m + 1 + n /\ m + 1 \in 1 .. m + 1
       /\ 1 \in 1 .. 1 /\ 1 \in 1 .. 2 /\ 2 \in 1 .. 2
       /\ (m + 1 + n) + 1 = m + n + 2 /\ (m + 1 + n) + 2 = m + n + 3
  BY <1>9
<1>13. \A i \in 1 .. m : t[i] = q[i]
  BY <1>4, <1>5, <1>6, <1>9, <1>10
<1>14. t[m + 1] = u[1]
  <2>1. t[m + 1] = b[m + 1] /\ b[m + 1] = a[m + 1]
    BY <1>5, <1>6, <1>9, <1>12
  <2>2. a[m + 1] = u[1]
    BY <1>4, <1>9, <1>12
  <2>3. QED
    BY <2>1, <2>2
<1>15. \A i \in 1 .. n : t[m + 1 + i] = d[i]
  <2>1. \A i \in 1 .. n : t[m + 1 + i] = b[m + 1 + i]
    BY <1>6, <1>9, <1>11
  <2>2. \A i \in 1 .. n : b[m + 1 + i] = d[i]
    BY <1>5, <1>9
  <2>3. QED
    BY <2>1, <2>2
<1>16. t[m + n + 2] = v[1] /\ t[m + n + 3] = v[2]
  BY <1>6, <1>9, <1>12
<1>17. t = ((q \o u) \o d) \o v
  BY <1>1, <1>2, <1>3
<1>18. InFourParts(t, q, u, d, v)
  BY <1>7, <1>8, <1>9, <1>13, <1>14, <1>15, <1>16, <1>17 DEF InFourParts
<1>19. QED
  BY <1>6, <1>18

\* The characters of a topic.
HasTopicShape(t, q, d, c) ==
    /\ t \in Seq(Signs) /\ Len(t) = Len(q) + Len(d) + 3
    /\ \A i \in 1 .. Len(q) : t[i] = q[i]
    /\ t[Len(q) + 1] = Slash
    /\ \A i \in 1 .. Len(d) : t[Len(q) + 1 + i] = d[i]
    /\ t[Len(q) + Len(d) + 2] = Slash /\ t[Len(q) + Len(d) + 3] = c

LEMMA TopicShape ==
    ASSUME NEW q \in Seq(Chars), NEW d \in Seq(Chars), NEW c \in Publisher!Channels, NEW t,
           t = q \o <<Slash>> \o d \o <<Slash, c>>
    PROVE  HasTopicShape(t, q, d, c)
<1>1. PICK u : u = <<Slash>>
  OBVIOUS
<1>2. PICK v : v = <<Slash, c>>
  OBVIOUS
<1>3. /\ q \in Seq(Signs) /\ d \in Seq(Signs)
      /\ u \in Seq(Signs) /\ Len(u) = 1 /\ u[1] = Slash
      /\ v \in Seq(Signs) /\ Len(v) = 2 /\ v[1] = Slash /\ v[2] = c
  <2>1. Slash \in Signs /\ c \in Signs /\ Chars \subseteq Signs
    BY DEF Signs, Chars
  <2>2. QED
    BY <1>1, <1>2, <2>1
<1>4. t = ((q \o u) \o d) \o v
  BY <1>1, <1>2
<1>5. PICK r \in Seq(Signs) : InFourParts(r, q, u, d, v)
  BY <1>3, JoinedFour
<1>6. r = t
  BY <1>4, <1>5 DEF InFourParts
<1>7. QED
  BY <1>3, <1>5, <1>6 DEF InFourParts, HasTopicShape

\* What a filter of the consumer selects: topics with its prefix, one more
\* level, and its channel.
Selects(p, c, t, m, n) ==
    /\ m = Len(p) /\ n = Len(t)
    /\ m + 3 <= n
    /\ \A i \in 1 .. m : t[i] = p[i]
    /\ t[m + 1] = Slash
    /\ \A i \in m + 2 .. n - 2 : t[i] # Slash
    /\ t[n - 1] = Slash /\ t[n] = c

LEMMA Selection ==
    ASSUME NEW p \in Seq(Chars), NEW c \in Channels, NEW f, HasFilterShape(f, p, c),
           NEW t \in Seq(Signs)
    PROVE  Matches(f, t) <=> Selects(p, c, t, Len(p), Len(t))
<1>1. PICK m \in Nat : m = Len(p)
  OBVIOUS
<1>2. PICK n \in Nat : n = Len(t)
  OBVIOUS
<1>3. /\ f \in Seq(Signs) /\ Len(f) = m + 4
      /\ \A i \in 1 .. m : f[i] = p[i]
      /\ f[m + 1] = Slash /\ f[m + 2] = Plus /\ f[m + 3] = Slash /\ f[m + 4] = c
  BY <1>1 DEF HasFilterShape
<1>4. PICK stretch : stretch = n - (m + 4) + 1
  OBVIOUS
<1>5. DOMAIN f = 1 .. m + 4 /\ Len(t) - Len(f) + 1 = stretch /\ stretch \in Int
  BY <1>3, <1>4, <1>2
<1>6. \A i \in 1 .. m + 4 : f[i] = Plus => i = m + 2
  <2>1. \A i \in 1 .. m : p[i] \in Chars
    BY <1>1
  <2>2. Plus \notin Chars /\ c # Plus
    BY DEF Chars, Channels, Blank, Slash, Plus
  <2>3. \A i \in 1 .. m + 4 :
            i \in 1 .. m \/ i = m + 1 \/ i = m + 2 \/ i = m + 3 \/ i = m + 4
    OBVIOUS
  <2>4. Plus # Slash
    BY DEF Plus, Slash
  <2>5. QED
    BY <1>3, <2>1, <2>2, <2>3, <2>4
<1> DEFINE Fits(plus) == /\ \A i \in 1 .. plus - 1 : t[i] = f[i]
                         /\ \A i \in plus .. plus + stretch - 1 : t[i] # Slash
                         /\ \A i \in plus + 1 .. m + 4 : t[i + stretch - 1] = f[i]
<1>7. Matches(f, t) <=> stretch >= 0 /\ \E plus \in 1 .. m + 4 : f[plus] = Plus /\ Fits(plus)
  <2>1. Len(f) = m + 4
    BY <1>3
  <2>2. QED
    BY <1>5, <2>1 DEF Matches
<1>8. Matches(f, t) <=> stretch >= 0 /\ Fits(m + 2)
  <2> HIDE DEF Fits
  <2>1. m + 2 \in 1 .. m + 4
    OBVIOUS
  <2>2. QED
    BY <1>3, <1>6, <1>7, <2>1
<1>9. (\A i \in 1 .. (m + 2) - 1 : t[i] = f[i])
        <=> (\A i \in 1 .. m : t[i] = p[i]) /\ t[m + 1] = Slash
  <2>1. \A i : i \in 1 .. (m + 2) - 1 <=> (i \in 1 .. m \/ i = m + 1)
    OBVIOUS
  <2>2. QED
    BY <1>3, <2>1
<1>10. (m + 2) + stretch - 1 = n - 2 /\ (stretch >= 0 <=> m + 3 <= n)
  BY <1>4, <1>5
<1>11. (\A i \in (m + 2) + 1 .. m + 4 : t[i + stretch - 1] = f[i])
        <=> t[n - 1] = Slash /\ t[n] = c
  <2>1. \A i : i \in (m + 2) + 1 .. m + 4 <=> (i = m + 3 \/ i = m + 4)
    OBVIOUS
  <2>2. (m + 3) + stretch - 1 = n - 1 /\ (m + 4) + stretch - 1 = n
    BY <1>4, <1>5
  <2>3. QED
    BY <1>3, <2>1, <2>2
<1>12. QED
  BY <1>1, <1>2, <1>8, <1>9, <1>10, <1>11 DEF Selects

-----------------------------------------------------------------------------
(* Which messages reach which filter                                        *)

\* The characters of a topic but for the last two: its prefix q, a slash and
\* its device d.
Reads(q, d, i) ==
    IF i <= Len(q) THEN q[i] ELSE IF i = Len(q) + 1 THEN Slash ELSE d[i - (Len(q) + 1)]

\* They are selected by a filter with the prefix p: what follows p is a slash,
\* the last that there is.
Agrees(p, q, d) ==
    /\ Len(p) <= Len(q) + Len(d)
    /\ \A i \in 1 .. Len(p) : Reads(q, d, i) = p[i]
    /\ Reads(q, d, Len(p) + 1) = Slash
    /\ \A i \in Len(p) + 2 .. Len(q) + Len(d) + 1 : Reads(q, d, i) # Slash

\* A filter selects the topics of its own channel, if any.
LEMMA Selected ==
    ASSUME NEW p \in Seq(Chars), NEW q \in Seq(Chars), NEW d \in Seq(Chars),
           NEW c \in Channels, NEW e \in Publisher!Channels
    PROVE  Matches(p \o <<Slash, Plus, Slash, c>>, q \o <<Slash>> \o d \o <<Slash, e>>)
            <=> e = c /\ Agrees(p, q, d)
<1>1. PICK f : f = p \o <<Slash, Plus, Slash, c>>
  OBVIOUS
<1>2. PICK t : t = q \o <<Slash>> \o d \o <<Slash, e>>
  OBVIOUS
<1>3. PICK m \in Nat : m = Len(p)
  OBVIOUS
<1>4. PICK n \in Nat : n = Len(q)
  OBVIOUS
<1>5. PICK k \in Nat : k = Len(d)
  OBVIOUS
<1>6. HasFilterShape(f, p, c)
  BY <1>1, FilterShape
<1>7. /\ t \in Seq(Signs) /\ Len(t) = Len(q) + Len(d) + 3
      /\ \A i \in 1 .. Len(q) : t[i] = q[i]
      /\ t[Len(q) + 1] = Slash
      /\ \A i \in 1 .. Len(d) : t[Len(q) + 1 + i] = d[i]
      /\ t[Len(q) + Len(d) + 2] = Slash /\ t[Len(q) + Len(d) + 3] = e
  <2>1. HasTopicShape(t, q, d, e)
    BY <1>2, TopicShape
  <2>2. QED
    BY <2>1 DEF HasTopicShape
<1>8. Matches(f, t) <=> Selects(p, c, t, m, Len(t))
  <2>1. t \in Seq(Signs)
    BY <1>7
  <2>2. Matches(f, t) <=> Selects(p, c, t, Len(p), Len(t))
    BY <1>6, <2>1, Selection
  <2>3. QED
    BY <1>3, <2>2
<1>9. \A i \in 1 .. n + k + 1 : t[i] = Reads(q, d, i)
  <2> SUFFICES ASSUME NEW i \in 1 .. n + k + 1 PROVE t[i] = Reads(q, d, i)
    OBVIOUS
  <2>1. CASE i <= n
    BY <1>4, <1>7, <2>1 DEF Reads
  <2>2. CASE i = n + 1
    BY <1>4, <1>7, <2>2 DEF Reads
  <2>3. CASE i > n + 1
    <3>1. PICK j : j = i - (n + 1)
      OBVIOUS
    <3>2. j \in 1 .. k /\ i = n + 1 + j /\ ~(i <= n) /\ i # n + 1
      BY <2>3, <3>1
    <3>3. t[n + 1 + j] = d[j]
      BY <1>4, <1>5, <1>7, <3>2
    <3>4. Reads(q, d, i) = d[j]
      BY <1>4, <3>1, <3>2 DEF Reads
    <3>5. QED
      BY <3>2, <3>3, <3>4
  <2>4. QED
    BY <2>1, <2>2, <2>3
<1>10. Matches(f, t) <=>
        /\ m <= n + k
        /\ \A i \in 1 .. m : t[i] = p[i]
        /\ t[m + 1] = Slash
        /\ \A i \in m + 2 .. n + k + 1 : t[i] # Slash
        /\ e = c
  <2>1. /\ Len(t) = n + k + 3 /\ (m + 3 <= n + k + 3 <=> m <= n + k)
        /\ (n + k + 3) - 2 = n + k + 1 /\ (n + k + 3) - 1 = n + k + 2
    BY <1>4, <1>5, <1>7
  <2>2. t[n + k + 2] = Slash /\ t[n + k + 3] = e
    BY <1>4, <1>5, <1>7
  <2>3. QED
    BY <1>3, <1>8, <2>1, <2>2 DEF Selects
<1>11. Agrees(p, q, d) <=>
        /\ m <= n + k
        /\ \A i \in 1 .. m : Reads(q, d, i) = p[i]
        /\ Reads(q, d, m + 1) = Slash
        /\ \A i \in m + 2 .. n + k + 1 : Reads(q, d, i) # Slash
  BY <1>3, <1>4, <1>5 DEF Agrees
<1>12. m <= n + k => /\ \A i \in 1 .. m : i \in 1 .. n + k + 1
                     /\ m + 1 \in 1 .. n + k + 1
                     /\ \A i \in m + 2 .. n + k + 1 : i \in 1 .. n + k + 1
  OBVIOUS
<1>13. CASE m <= n + k
  <2>1. t[m + 1] = Reads(q, d, m + 1)
    BY <1>9, <1>12, <1>13
  <2>2. \A i \in 1 .. m : t[i] = Reads(q, d, i)
    BY <1>9, <1>12, <1>13
  <2>3. \A i \in m + 2 .. n + k + 1 : t[i] = Reads(q, d, i)
    BY <1>9, <1>12, <1>13
  <2>4. QED
    BY <1>1, <1>2, <1>10, <1>11, <2>1, <2>2, <2>3
<1>14. CASE ~(m <= n + k)
  BY <1>1, <1>2, <1>10, <1>11, <1>14
<1>15. QED
  BY <1>13, <1>14

\* So either each channel is routed to its own filter, or nothing is.
LEMMA AllOrNothing ==
    ASSUME NEW x \in Seq(Chars), NEW y \in Seq(Chars),
           FilterPrefix(x) \in Seq(Chars), TopicPrefix(x) \in Seq(Chars),
           Strip(y) \in Seq(Chars)
    PROVE  Routes(x, y) = IF Agrees(FilterPrefix(x), TopicPrefix(x), Strip(y))
                          THEN {<<channel, channel>> : channel \in Channels} ELSE {}
<1> DEFINE agree == Agrees(FilterPrefix(x), TopicPrefix(x), Strip(y))
<1>1. ASSUME NEW e \in Publisher!Channels, NEW c \in Channels
      PROVE  Matches(Filter(x, c), Topic(x, y, e)) <=> e = c /\ agree
  BY Selected DEF Filter, Topic
<1> HIDE DEF agree
<1>2. /\ Publisher!Channels = {"temperature", "alert", "status"}
      /\ Channels = {"temperature", "alert"}
  BY DEF Publisher!Channels, Channels
<1>3. Routes(x, y) = {route \in Publisher!Channels \X Channels : route[1] = route[2] /\ agree}
  BY <1>1, <1>2 DEF Routes
<1>4. {route \in Publisher!Channels \X Channels : route[1] = route[2]}
        = {<<channel, channel>> : channel \in Channels}
  BY <1>2
<1>5. CASE agree
  BY <1>3, <1>4, <1>5 DEF agree
<1>6. CASE ~agree
  BY <1>3, <1>6 DEF agree
<1>7. QED
  BY <1>5, <1>6

\* With one prefix on both sides, it takes a device without a slash.
LEMMA OnePrefix ==
    ASSUME NEW p \in Seq(Chars), NEW d \in Seq(Chars)
    PROVE  Agrees(p, p, d) <=> ~Contains(d, Slash)
<1>1. PICK m \in Nat : m = Len(p)
  OBVIOUS
<1>2. PICK k \in Nat : k = Len(d)
  OBVIOUS
<1>3. /\ \A i \in 1 .. m : Reads(p, p, i) = p[i]
      /\ \A i \in 1 .. m : Reads(p, d, i) = p[i]
      /\ Reads(p, d, m + 1) = Slash
  BY <1>1 DEF Reads
<1>4. ASSUME NEW i \in 1 .. k PROVE Reads(p, d, m + 1 + i) = d[i]
  <2>1. ~(m + 1 + i <= m) /\ m + 1 + i # m + 1 /\ (m + 1 + i) - (m + 1) = i
    OBVIOUS
  <2>2. QED
    BY <1>1, <2>1 DEF Reads
<1>5. Agrees(p, p, d) <=> \A i \in m + 2 .. m + k + 1 : Reads(p, d, i) # Slash
  <2>1. m <= m + k
    OBVIOUS
  <2>2. QED
    BY <1>1, <1>2, <1>3, <2>1 DEF Agrees
<1>6. ASSUME Contains(d, Slash) PROVE ~Agrees(p, p, d)
  <2>1. PICK i \in 1 .. k : d[i] = Slash
    BY <1>2, <1>6 DEF Contains
  <2>2. m + 1 + i \in m + 2 .. m + k + 1
    OBVIOUS
  <2>3. QED
    BY <1>4, <1>5, <2>1, <2>2
<1>7. ASSUME ~Contains(d, Slash) PROVE Agrees(p, p, d)
  <2>1. ASSUME NEW i \in m + 2 .. m + k + 1 PROVE Reads(p, d, i) # Slash
    <3>1. PICK j : j = i - (m + 1)
      OBVIOUS
    <3>2. j \in 1 .. k /\ i = m + 1 + j
      BY <3>1
    <3>3. d[j] # Slash
      BY <1>2, <1>7, <3>2 DEF Contains
    <3>4. QED
      BY <1>4, <3>2, <3>3
  <2>2. QED
    BY <1>5, <2>1
<1>8. QED
  BY <1>6, <1>7

\* Without a slash in the device, it takes the same prefix on both sides.
LEMMA OneLevel ==
    ASSUME NEW p \in Seq(Chars), NEW q \in Seq(Chars), NEW d \in Seq(Chars),
           ~Contains(d, Slash), Agrees(p, q, d)
    PROVE  Len(p) = Len(q) /\ \A i \in 1 .. Len(p) : p[i] = q[i]
<1>1. PICK m \in Nat : m = Len(p)
  OBVIOUS
<1>2. PICK n \in Nat : n = Len(q)
  OBVIOUS
<1>3. PICK k \in Nat : k = Len(d)
  OBVIOUS
<1>4. /\ m <= n + k
      /\ \A i \in 1 .. m : Reads(q, d, i) = p[i]
      /\ Reads(q, d, m + 1) = Slash
      /\ \A i \in m + 2 .. n + k + 1 : Reads(q, d, i) # Slash
  BY <1>1, <1>2, <1>3 DEF Agrees
<1>5. Reads(q, d, n + 1) = Slash
  BY <1>2 DEF Reads
<1>6. ~(n + 1 \in m + 2 .. n + k + 1)
  BY <1>4, <1>5
<1>7. n <= m
  BY <1>6
<1>8. ~(m > n)
  <2> SUFFICES ASSUME m > n PROVE FALSE
    OBVIOUS
  <2>1. PICK j : j = m - n
    OBVIOUS
  <2>2. j \in 1 .. k /\ ~(m + 1 <= n) /\ m + 1 # n + 1 /\ (m + 1) - (n + 1) = j
    BY <1>4, <2>1
  <2>3. Reads(q, d, m + 1) = d[j]
    BY <1>2, <2>2 DEF Reads
  <2>4. d[j] # Slash
    BY <1>3, <2>2 DEF Contains
  <2>5. QED
    BY <1>4, <2>3, <2>4
<1>9. m = n
  BY <1>7, <1>8
<1>10. \A i \in 1 .. n : Reads(q, d, i) = q[i]
  BY <1>2 DEF Reads
<1>11. QED
  BY <1>1, <1>2, <1>4, <1>9, <1>10

\* The prefix is the same on both sides only if there is nothing to trim.
LEMMA TrimmedAlike ==
    ASSUME NEW x \in Seq(Chars), Strip(x) # <<>>, Strip(x) \in Seq(Chars),
           Len(RStrip(x)) = Len(RStrip(Strip(x))),
           \A i \in 1 .. Len(RStrip(x)) : RStrip(x)[i] = RStrip(Strip(x))[i]
    PROVE  Strip(x) = x
<1>1. PICK s \in Seq(Chars) : s = Strip(x)
  OBVIOUS
<1>2. PICK a \in 1 .. Len(x), b \in 1 .. Len(x) :
        /\ a <= b /\ s = SubSeq(x, a, b)
        /\ x[a] # Blank /\ x[b] # Blank
        /\ a > 1 => x[1] = Blank
        /\ b < Len(x) => x[Len(x)] = Blank
  BY <1>1, Stripped
<1>3. PICK m \in 0 .. Len(x) :
        /\ Len(RStrip(x)) = m
        /\ \A i \in 1 .. m : RStrip(x)[i] = x[i]
        /\ \A i \in m + 1 .. Len(x) : x[i] = Slash
  BY RStripped
<1>4. PICK n \in 0 .. Len(s) :
        /\ Len(RStrip(s)) = n
        /\ \A i \in 1 .. n : RStrip(s)[i] = s[i]
  BY RStripped
<1>5. m = n /\ \A i \in 1 .. m : RStrip(x)[i] = RStrip(s)[i]
  BY <1>1, <1>3, <1>4
<1>6. Len(x) \in Nat /\ Len(s) = b - a + 1 /\ s[1] = x[a]
  BY <1>2
<1>7. Blank # Slash
  BY DEF Blank, Slash
<1>8. a = 1
  <2> SUFFICES ASSUME a > 1 PROVE FALSE
    BY <1>2, <1>6
  <2>1. x[1] = Blank
    BY <1>2
  <2>2. m >= 1
    BY <1>2, <1>3, <1>6, <1>7, <2>1
  <2>3. 1 \in 1 .. m
    BY <1>6, <2>2
  <2>4. x[1] = s[1]
    BY <1>3, <1>4, <1>5, <2>3
  <2>5. QED
    BY <1>2, <1>6, <2>1, <2>4
<1>9. b = Len(x)
  <2> SUFFICES ASSUME b < Len(x) PROVE FALSE
    BY <1>2, <1>6
  <2>1. x[Len(x)] = Blank
    BY <1>2
  <2>2. m = Len(x)
    <3>1. ~(Len(x) \in m + 1 .. Len(x))
      BY <1>3, <1>7, <2>1
    <3>2. QED
      BY <1>3, <1>6, <3>1
  <2>3. QED
    BY <1>4, <1>5, <1>6, <1>8, <2>2
<1>10. QED
  BY <1>1, <1>2, <1>8, <1>9

\* topics.py:3-4, for strings of any length: either each channel the consumer
\* asks for reaches it under its own filter, or nothing does; the former when
\* the prefix has nothing to trim and the device is one level, the latter when
\* one of the two fails.
LEMMA WiredExactly ==
    ASSUME NEW x \in Seq(Chars), NEW y \in Seq(Chars), Builds(x, y)
    PROVE  LET own == {<<channel, channel>> : channel \in Channels}
               tidy == Strip(x) = x
               oneLevel == ~Contains(Strip(y), Slash)
           IN  /\ Routes(x, y) \in {own, {}}
               /\ tidy /\ oneLevel => Routes(x, y) = own
               /\ ~(tidy <=> oneLevel) => Routes(x, y) = {}
<1>1. Strip(x) # <<>> /\ Strip(y) # <<>>
  BY DEF Builds
<1>2. ASSUME NEW s \in Seq(Chars), Strip(s) # <<>> PROVE Strip(s) \in Seq(Chars)
  <2>1. PICK a \in 1 .. Len(s), b \in 1 .. Len(s) : a <= b /\ Strip(s) = SubSeq(s, a, b)
    BY <1>2, Stripped
  <2>2. QED
    BY <2>1
<1>3. Strip(x) \in Seq(Chars) /\ Strip(y) \in Seq(Chars)
  BY <1>1, <1>2
<1>4. FilterPrefix(x) \in Seq(Chars) /\ TopicPrefix(x) \in Seq(Chars)
  BY <1>3, RStripped DEF FilterPrefix, TopicPrefix
<1>5. PICK d \in Seq(Chars) : d = Strip(y)
  BY <1>3
<1>6. PICK p \in Seq(Chars) : p = FilterPrefix(x)
  BY <1>4
<1>7. PICK q \in Seq(Chars) : q = TopicPrefix(x)
  BY <1>4
<1>8. Routes(x, y) = IF Agrees(p, q, d)
                     THEN {<<channel, channel>> : channel \in Channels} ELSE {}
  BY <1>3, <1>4, <1>5, <1>6, <1>7, AllOrNothing
<1>9. Strip(x) = x => (Agrees(p, q, d) <=> ~Contains(d, Slash))
  <2>1. Strip(x) = x => p = q
    BY <1>6, <1>7 DEF FilterPrefix, TopicPrefix
  <2>2. QED
    BY <2>1, OnePrefix
<1>10. ~Contains(d, Slash) /\ Agrees(p, q, d) => Strip(x) = x
  <2> SUFFICES ASSUME ~Contains(d, Slash), Agrees(p, q, d) PROVE Strip(x) = x
    OBVIOUS
  <2>1. Len(p) = Len(q) /\ \A i \in 1 .. Len(p) : p[i] = q[i]
    BY OneLevel
  <2>2. p = RStrip(x) /\ q = RStrip(Strip(x))
    BY <1>6, <1>7 DEF FilterPrefix, TopicPrefix
  <2>3. QED
    BY <1>1, <1>3, <2>1, <2>2, TrimmedAlike
<1>11. QED
  BY <1>5, <1>8, <1>9, <1>10
\* What the publisher asks its adapter to do is what SensorPublisherProofs
\* says of it.
LEMMA SamePublisherAdapter ==
    /\ Publisher!Mqtt!RetryConnects <=> PublisherP!Mqtt!RetryConnects
    /\ Publisher!Mqtt!RetryFails <=> PublisherP!Mqtt!RetryFails
    /\ Publisher!Mqtt!RetrySleepOver <=> PublisherP!Mqtt!RetrySleepOver
    /\ Publisher!Mqtt!PublishSucceeds <=> PublisherP!Mqtt!PublishSucceeds
    /\ Publisher!Mqtt!PublishFails <=> PublisherP!Mqtt!PublishFails
    /\ Publisher!Mqtt!PublishRefused <=> PublisherP!Mqtt!PublishRefused
    /\ Publisher!Mqtt!DisconnectReturns <=> PublisherP!Mqtt!DisconnectReturns
    /\ Publisher!Mqtt!DisconnectRaises <=> PublisherP!Mqtt!DisconnectRaises
    /\ Publisher!Mqtt!LinkLost <=> PublisherP!Mqtt!LinkLost
<1> USE DEF Publisher!Mqtt!None, PublisherP!Mqtt!None,
        Publisher!Mqtt!connection, PublisherP!Mqtt!connection,
        Publisher!Mqtt!retry, PublisherP!Mqtt!retry,
        Publisher!Mqtt!vars, PublisherP!Mqtt!vars,
        Publisher!Mqtt!AlreadyConnected, PublisherP!Mqtt!AlreadyConnected,
        Publisher!Mqtt!NoCallInProgress, PublisherP!Mqtt!NoCallInProgress
<1>1. /\ Publisher!Mqtt!RetryConnects <=> PublisherP!Mqtt!RetryConnects
      /\ Publisher!Mqtt!RetryFails <=> PublisherP!Mqtt!RetryFails
  BY DEF Publisher!Mqtt!RetryConnects, PublisherP!Mqtt!RetryConnects,
         Publisher!Mqtt!ConnectReturns, PublisherP!Mqtt!ConnectReturns,
         Publisher!Mqtt!OpenSession, PublisherP!Mqtt!OpenSession,
         Publisher!Mqtt!RetryFails, PublisherP!Mqtt!RetryFails,
         Publisher!Mqtt!ConnectRaises, PublisherP!Mqtt!ConnectRaises,
         Publisher!Mqtt!LastAttempt, PublisherP!Mqtt!LastAttempt
<1>2. /\ Publisher!Mqtt!RetrySleepOver <=> PublisherP!Mqtt!RetrySleepOver
    BY DEF Publisher!Mqtt!RetrySleepOver, PublisherP!Mqtt!RetrySleepOver,
         Publisher!Mqtt!Doubled, PublisherP!Mqtt!Doubled
<1>3. /\ Publisher!Mqtt!PublishSucceeds <=> PublisherP!Mqtt!PublishSucceeds
      /\ Publisher!Mqtt!PublishFails <=> PublisherP!Mqtt!PublishFails
      /\ Publisher!Mqtt!PublishRefused <=> PublisherP!Mqtt!PublishRefused
  BY DEF Publisher!Mqtt!PublishSucceeds, PublisherP!Mqtt!PublishSucceeds,
         Publisher!Mqtt!OperationSucceeds, PublisherP!Mqtt!OperationSucceeds,
         Publisher!Mqtt!PublishFails, PublisherP!Mqtt!PublishFails,
         Publisher!Mqtt!PublishRefused, PublisherP!Mqtt!PublishRefused
<1>4. /\ Publisher!Mqtt!DisconnectReturns <=> PublisherP!Mqtt!DisconnectReturns
      /\ Publisher!Mqtt!DisconnectRaises <=> PublisherP!Mqtt!DisconnectRaises
      /\ Publisher!Mqtt!LinkLost <=> PublisherP!Mqtt!LinkLost
  BY DEF Publisher!Mqtt!DisconnectReturns, PublisherP!Mqtt!DisconnectReturns,
         Publisher!Mqtt!DisconnectRaises, PublisherP!Mqtt!DisconnectRaises,
         Publisher!Mqtt!CloseSession, PublisherP!Mqtt!CloseSession,
         Publisher!Mqtt!HasSessionToClose, PublisherP!Mqtt!HasSessionToClose,
         Publisher!Mqtt!LinkLost, PublisherP!Mqtt!LinkLost
<1>5. QED
  BY <1>1, <1>2, <1>3, <1>4

\* Every step of the publisher is a step of SensorPublisherProofs.
LEMMA SamePublisher ==
    /\ Publisher!Step => PublisherP!Step
    /\ Publisher!Stop => PublisherP!Stop
    /\ Publisher!LinkLost => PublisherP!LinkLost
<1> USE SamePublisherAdapter
    DEF Publisher!mqtt, PublisherP!mqtt, Publisher!None, PublisherP!None,
        Publisher!Channels, PublisherP!Channels, Publisher!Accept, PublisherP!Accept,
        Publisher!Drop, PublisherP!Drop, Publisher!LoopTest, PublisherP!LoopTest
<1>1. /\ Publisher!Connected => PublisherP!Connected
      /\ Publisher!ConnectAttemptFails => PublisherP!ConnectAttemptFails
      /\ Publisher!ConnectSleepOver => PublisherP!ConnectSleepOver
      /\ Publisher!Wake => PublisherP!Wake
      /\ Publisher!Disconnect => PublisherP!Disconnect
  BY DEF Publisher!Connected, PublisherP!Connected,
         Publisher!ConnectAttemptFails, PublisherP!ConnectAttemptFails,
         Publisher!ConnectSleepOver, PublisherP!ConnectSleepOver,
         Publisher!Wake, PublisherP!Wake, Publisher!Disconnect, PublisherP!Disconnect
<1>2. /\ Publisher!Fetch => PublisherP!Fetch
      /\ Publisher!FetchFails => PublisherP!FetchFails
  BY DEF Publisher!Fetch, PublisherP!Fetch, Publisher!IsValid, PublisherP!IsValid,
         Publisher!FetchFails, PublisherP!FetchFails
<1>3. ASSUME NEW channel \in Publisher!Channels
      PROVE  /\ Publisher!PublishReturns(channel) => PublisherP!PublishReturns(channel)
             /\ Publisher!PublishRaises(channel) => PublisherP!PublishRaises(channel)
  BY DEF Publisher!PublishReturns, PublisherP!PublishReturns,
         Publisher!PublishRaises, PublisherP!PublishRaises,
         Publisher!NextStep, PublisherP!NextStep,
         Publisher!IsOutOfRange, PublisherP!IsOutOfRange,
         Publisher!AfterFailure, PublisherP!AfterFailure
<1>4. Publisher!Step => PublisherP!Step
  BY <1>1, <1>2, <1>3 DEF Publisher!Step, PublisherP!Step
<1>5. /\ Publisher!Stop => PublisherP!Stop
      /\ Publisher!LinkLost => PublisherP!LinkLost
  BY DEF Publisher!Stop, PublisherP!Stop, Publisher!LinkLost, PublisherP!LinkLost
<1>6. QED
  BY <1>4, <1>5

\* The same of the consumer's adapter.
LEMMA SameConsumerAdapter ==
    /\ Consumer!Mqtt!RetryConnects <=> ConsumerP!Mqtt!RetryConnects
    /\ Consumer!Mqtt!RetryFails <=> ConsumerP!Mqtt!RetryFails
    /\ Consumer!Mqtt!RetrySleepOver <=> ConsumerP!Mqtt!RetrySleepOver
    /\ Consumer!Mqtt!SubscribeSucceeds <=> ConsumerP!Mqtt!SubscribeSucceeds
    /\ Consumer!Mqtt!SubscribeFails <=> ConsumerP!Mqtt!SubscribeFails
    /\ Consumer!Mqtt!MessagesEnd <=> ConsumerP!Mqtt!MessagesEnd
    /\ Consumer!Mqtt!DisconnectReturns <=> ConsumerP!Mqtt!DisconnectReturns
    /\ Consumer!Mqtt!DisconnectRaises <=> ConsumerP!Mqtt!DisconnectRaises
    /\ Consumer!Mqtt!LinkLost <=> ConsumerP!Mqtt!LinkLost
<1> USE DEF Consumer!Mqtt!None, ConsumerP!Mqtt!None,
        Consumer!Mqtt!connection, ConsumerP!Mqtt!connection,
        Consumer!Mqtt!retry, ConsumerP!Mqtt!retry,
        Consumer!Mqtt!vars, ConsumerP!Mqtt!vars,
        Consumer!Mqtt!AlreadyConnected, ConsumerP!Mqtt!AlreadyConnected,
        Consumer!Mqtt!NoCallInProgress, ConsumerP!Mqtt!NoCallInProgress
<1>1. /\ Consumer!Mqtt!RetryConnects <=> ConsumerP!Mqtt!RetryConnects
      /\ Consumer!Mqtt!RetryFails <=> ConsumerP!Mqtt!RetryFails
  BY DEF Consumer!Mqtt!RetryConnects, ConsumerP!Mqtt!RetryConnects,
         Consumer!Mqtt!ConnectReturns, ConsumerP!Mqtt!ConnectReturns,
         Consumer!Mqtt!OpenSession, ConsumerP!Mqtt!OpenSession,
         Consumer!Mqtt!RetryFails, ConsumerP!Mqtt!RetryFails,
         Consumer!Mqtt!ConnectRaises, ConsumerP!Mqtt!ConnectRaises,
         Consumer!Mqtt!LastAttempt, ConsumerP!Mqtt!LastAttempt
<1>2. /\ Consumer!Mqtt!RetrySleepOver <=> ConsumerP!Mqtt!RetrySleepOver
    BY DEF Consumer!Mqtt!RetrySleepOver, ConsumerP!Mqtt!RetrySleepOver,
         Consumer!Mqtt!Doubled, ConsumerP!Mqtt!Doubled
<1>3. /\ Consumer!Mqtt!SubscribeSucceeds <=> ConsumerP!Mqtt!SubscribeSucceeds
      /\ Consumer!Mqtt!SubscribeFails <=> ConsumerP!Mqtt!SubscribeFails
      /\ Consumer!Mqtt!MessagesEnd <=> ConsumerP!Mqtt!MessagesEnd
  BY DEF Consumer!Mqtt!SubscribeSucceeds, ConsumerP!Mqtt!SubscribeSucceeds,
         Consumer!Mqtt!OperationSucceeds, ConsumerP!Mqtt!OperationSucceeds,
         Consumer!Mqtt!SubscribeFails, ConsumerP!Mqtt!SubscribeFails,
         Consumer!Mqtt!MessagesEnd, ConsumerP!Mqtt!MessagesEnd
<1>4. /\ Consumer!Mqtt!DisconnectReturns <=> ConsumerP!Mqtt!DisconnectReturns
      /\ Consumer!Mqtt!DisconnectRaises <=> ConsumerP!Mqtt!DisconnectRaises
  BY DEF Consumer!Mqtt!DisconnectReturns, ConsumerP!Mqtt!DisconnectReturns,
         Consumer!Mqtt!DisconnectRaises, ConsumerP!Mqtt!DisconnectRaises,
         Consumer!Mqtt!CloseSession, ConsumerP!Mqtt!CloseSession,
         Consumer!Mqtt!HasSessionToClose, ConsumerP!Mqtt!HasSessionToClose
<1>5. Consumer!Mqtt!LinkLost <=> ConsumerP!Mqtt!LinkLost
  BY DEF Consumer!Mqtt!LinkLost, ConsumerP!Mqtt!LinkLost
<1>6. QED
  BY <1>1, <1>2, <1>3, <1>4, <1>5


\* Every step of the consumer is a step of SensorConsumerProofs, which sees of
\* the messages only what the consumer does.
LEMMA SeenShape ==
    ASSUME NEW S, arrived \in Seq(S)
    PROVE  /\ DOMAIN Seen = 1 .. Len(arrived) /\ Len(Seen) = Len(arrived)
           /\ \A i \in 1 .. Len(arrived) :
                Seen[i] = [channel |-> arrived[i].channel, decodable |-> arrived[i].decodable]
<1>1. DOMAIN Seen = 1 .. Len(arrived) /\ Len(arrived) \in Nat
  BY DEF Seen
<1>2. Len(Seen) = Len(arrived)
  <2>1. Seen \in [1 .. Len(arrived) -> {Seen[i] : i \in 1 .. Len(arrived)}]
    BY <1>1 DEF Seen
  <2>2. Seen \in Seq({Seen[i] : i \in 1 .. Len(arrived)})
    BY <1>1, <2>1
  <2>3. Len(Seen) \in Nat /\ DOMAIN Seen = 1 .. Len(Seen)
    BY <2>2
  <2>4. QED
    BY <1>1, <2>3
<1>3. QED
  BY <1>1, <1>2 DEF Seen

LEMMA SameConsumer ==
    ASSUME NEW S, arrived \in Seq(S), handled \in Nat
    PROVE  /\ Consumer!MainStep => ConsumerP!MainStep
           /\ Consumer!ConsumeStep => ConsumerP!ConsumeStep
           /\ Consumer!StopWaitStep => ConsumerP!StopWaitStep
           /\ Consumer!Stop => ConsumerP!Stop
           /\ Consumer!LinkLost => ConsumerP!LinkLost
<1> USE SameConsumerAdapter
    DEF Consumer!mqtt, ConsumerP!mqtt, Consumer!tasks, ConsumerP!tasks,
        Consumer!inbox, ConsumerP!inbox, Consumer!Deliver, ConsumerP!Deliver,
        Consumer!Subscribing, ConsumerP!Subscribing,
        Consumer!SubscribedChannel, ConsumerP!SubscribedChannel,
        Consumer!IsDone, ConsumerP!IsDone, Consumer!CancelTasks, ConsumerP!CancelTasks
<1>1. arrived' = arrived => Seen' = Seen
  BY DEF Seen
<1>2. /\ Consumer!Connected => ConsumerP!Connected
      /\ Consumer!ConnectAttemptFails => ConsumerP!ConnectAttemptFails
      /\ Consumer!ConnectSleepOver => ConsumerP!ConnectSleepOver
  BY <1>1 DEF Consumer!Connected, ConsumerP!Connected,
         Consumer!ConnectAttemptFails, ConsumerP!ConnectAttemptFails,
         Consumer!ConnectSleepOver, ConsumerP!ConnectSleepOver
<1>3. /\ Consumer!SubscribeTelemetry => ConsumerP!SubscribeTelemetry
      /\ Consumer!SubscribeAlert => ConsumerP!SubscribeAlert
      /\ Consumer!SubscribeFails => ConsumerP!SubscribeFails
  BY <1>1 DEF Consumer!SubscribeTelemetry, ConsumerP!SubscribeTelemetry,
         Consumer!SubscribeAlert, ConsumerP!SubscribeAlert,
         Consumer!SubscribeFails, ConsumerP!SubscribeFails
<1>4. /\ Consumer!WaitReturns => ConsumerP!WaitReturns
      /\ Consumer!GatherReturns => ConsumerP!GatherReturns
      /\ Consumer!Disconnect => ConsumerP!Disconnect
  BY <1>1 DEF Consumer!WaitReturns, ConsumerP!WaitReturns,
         Consumer!FirstCompleted, ConsumerP!FirstCompleted,
         Consumer!GatherReturns, ConsumerP!GatherReturns,
         Consumer!AllGathered, ConsumerP!AllGathered,
         Consumer!Disconnect, ConsumerP!Disconnect
<1>5. Consumer!MainStep => ConsumerP!MainStep
  BY <1>2, <1>3, <1>4 DEF Consumer!MainStep, ConsumerP!MainStep
<1>6. Consumer!Handle => ConsumerP!Handle
  <2> SUFFICES ASSUME Consumer!Handle PROVE ConsumerP!Handle
    OBVIOUS
  <2>1. handled' = handled + 1 /\ handled < Len(arrived) /\ arrived' = arrived
    BY DEF Consumer!Handle, Consumer!HasMessage
  <2>2. handled' \in 1 .. Len(arrived) /\ Len(Seen) = Len(arrived)
    BY <2>1, SeenShape
  <2>3. /\ Seen[handled'].channel = arrived[handled'].channel
        /\ Seen[handled'].decodable = arrived[handled'].decodable
    <3>1. \A i \in 1 .. Len(arrived) :
            Seen[i] = [channel |-> arrived[i].channel, decodable |-> arrived[i].decodable]
      BY SeenShape
    <3>2. PICK h : h = handled'
      OBVIOUS
    <3>3. Seen[h] = [channel |-> arrived[h].channel, decodable |-> arrived[h].decodable]
      BY <2>2, <3>1, <3>2
    <3>4. QED
      BY <3>2, <3>3
  <2>4. ConsumerP!Counted(Seen[handled']) = Consumer!Counted(arrived[handled'])
    BY <2>3 DEF ConsumerP!Counted, Consumer!Counted, ConsumerP!IsAlert, Consumer!IsAlert
  <2>5. QED
    BY <1>1, <2>1, <2>2, <2>4 DEF Consumer!Handle, ConsumerP!Handle, ConsumerP!HasMessage
<1>7. Consumer!ConsumeStep => ConsumerP!ConsumeStep
  BY <1>1, <1>6 DEF Consumer!ConsumeStep, ConsumerP!ConsumeStep,
         Consumer!ConsumeFails, ConsumerP!ConsumeFails,
         Consumer!ConsumeCancelled, ConsumerP!ConsumeCancelled
<1>8. Consumer!StopWaitStep => ConsumerP!StopWaitStep
  BY <1>1 DEF Consumer!StopWaitStep, ConsumerP!StopWaitStep,
         Consumer!StopWaitFinishes, ConsumerP!StopWaitFinishes,
         Consumer!StopWaitCancelled, ConsumerP!StopWaitCancelled
<1>9. /\ Consumer!Stop => ConsumerP!Stop
      /\ Consumer!LinkLost => ConsumerP!LinkLost
  BY <1>1 DEF Consumer!Stop, ConsumerP!Stop, Consumer!LinkLost, ConsumerP!LinkLost
<1>10. QED
  BY <1>5, <1>7, <1>8, <1>9

-----------------------------------------------------------------------------
(* The publisher                                                            *)

\* What the publisher has done by the time of its next await: built a
\* reading, tried to publish on a channel, or neither.
LEMMA PublisherMoves ==
    ASSUME accepted \in Seq(Publisher!Channels), Publisher!Step
    PROVE  \/ BuildsReading /\ reading' \in Lowest .. Highest /\ ~Accepts
           \/ /\ pPc \in Publisher!Channels /\ pPc' \in {Publisher!NextStep(pPc), "sleep"}
              /\ reading' = reading
              /\ Accepts => Last(accepted') = pPc
           \/ /\ pPc \notin Publisher!Channels /\ pPc' \notin Publisher!Channels
              /\ reading' = reading /\ ~Accepts
<1>1. /\ Len(accepted) \in Nat
      /\ accepted' \in {accepted, <<>>} => ~Accepts
  BY DEF Accepts
<1>2. /\ \A state \in {"connect", "fetch", "sleep", "finally", "done"} :
            state \notin Publisher!Channels
      /\ "temperature" \in Publisher!Channels
  BY DEF Publisher!Channels
<1>3. CASE Publisher!Connected \/ Publisher!Wake
  BY <1>1, <1>2, <1>3 DEF Publisher!Connected, Publisher!Wake, Publisher!LoopTest
<1>4. CASE Publisher!ConnectAttemptFails \/ Publisher!ConnectSleepOver \/ Publisher!Disconnect
  BY <1>1, <1>2, <1>4 DEF Publisher!ConnectAttemptFails, Publisher!ConnectSleepOver,
                          Publisher!Disconnect
<1>5. CASE Publisher!Fetch
  <2>1. PICK base \in Bases, variation \in (-Variation) .. Variation :
            LET t == base + variation IN
            IF Publisher!IsValid(t) THEN reading' = t /\ pPc' = "temperature"
                                    ELSE pPc' = "sleep" /\ UNCHANGED reading
    BY <1>5 DEF Publisher!Fetch
  <2>2. base + variation \in Int
    BY FlowAssumption DEF FlowAssumption
  <2>3. pPc = "fetch" /\ accepted' = accepted
    BY <1>5 DEF Publisher!Fetch
  <2>4. CASE Publisher!IsValid(base + variation)
    BY <1>1, <2>1, <2>2, <2>3, <2>4, FlowAssumption
    DEF BuildsReading, Publisher!IsValid, FlowAssumption
  <2>5. CASE ~Publisher!IsValid(base + variation)
    BY <1>1, <1>2, <2>1, <2>3, <2>5
  <2>6. QED
    BY <2>4, <2>5
<1>6. CASE Publisher!FetchFails
  BY <1>1, <1>2, <1>6 DEF Publisher!FetchFails
<1>7. ASSUME NEW channel \in Publisher!Channels,
             Publisher!PublishReturns(channel) \/ Publisher!PublishRaises(channel)
      PROVE  /\ pPc \in Publisher!Channels /\ pPc' \in {Publisher!NextStep(pPc), "sleep"}
             /\ reading' = reading
             /\ Accepts => Last(accepted') = pPc
  <2>1. /\ pPc = channel /\ reading' = reading
        /\ Publisher!Accept(channel) \/ Publisher!Drop
        /\ pPc' \in {Publisher!NextStep(channel), "sleep"}
    BY <1>7 DEF Publisher!PublishReturns, Publisher!PublishRaises, Publisher!AfterFailure
  <2>2. CASE Publisher!Accept(channel)
    <3>1. accepted' = Append(accepted, channel)
      BY <2>2 DEF Publisher!Accept
    <3>2. Last(accepted') = channel
      BY <3>1 DEF Last
    <3>3. QED
      BY <2>1, <3>2
  <2>3. CASE Publisher!Drop
    BY <1>1, <2>1, <2>3 DEF Publisher!Drop
  <2>4. QED
    BY <2>1, <2>2, <2>3
<1>8. QED
  BY <1>3, <1>4, <1>5, <1>6, <1>7 DEF Publisher!Step

\* The publisher runs its use case, whatever the broker does with what it has
\* accepted and whatever becomes of the consumer.
LEMMA PublisherProcess == [Next]_vars => [PublisherP!Next]_(PublisherP!vars)
<1> SUFFICES ASSUME [Next]_vars PROVE PublisherP!Next \/ UNCHANGED publisher
  BY DEF PublisherP!vars, publisher
<1>1. CASE PublisherStep
  BY <1>1, SamePublisher DEF PublisherStep, PublisherP!Next
<1>2. CASE PublisherDisturbed
  BY <1>2, SamePublisher DEF PublisherDisturbed, PublisherP!Next
<1>3. CASE Build
  BY <1>3 DEF Build
<1>4. CASE ConsumerMainStep \/ ConsumeStep \/ StopWaitStep \/ ConsumerDisturbed
  BY <1>4 DEF ConsumerMainStep, ConsumeStep, StopWaitStep, ConsumerDisturbed, Consuming
<1>5. CASE UNCHANGED vars
  BY <1>5 DEF vars
<1>6. QED
  BY <1>1, <1>2, <1>3, <1>4, <1>5 DEF Next, Terminated

\* The publisher of the system implements the use case of SensorPublisher.
THEOREM RunsThePublisher == Spec => PublisherP!Spec
<1>1. Init => PublisherP!Init
  BY DEF Init, Publisher!Init, PublisherP!Init, Publisher!None, PublisherP!None
<1>2. QED
  BY <1>1, PublisherProcess, PTL DEF Spec, PublisherP!Spec

\* So what is proved of the use case holds of it.
LEMMA PublisherInvariant == Spec => []PublisherP!IInv
<1>1. PublisherP!ClientAssumption /\ PublisherP!ReadingAssumption
  BY FlowAssumption DEF FlowAssumption, PublisherP!ClientAssumption,
                        PublisherP!ReadingAssumption
<1>2. QED
  BY <1>1, RunsThePublisher, PublisherP!Inductive, PTL

-----------------------------------------------------------------------------
(* The invariant that ties the two                                          *)

FlowMessages == [channel : Channels, decodable : {TRUE}, reading : Readings,
                 celsius : Lowest .. Highest]

\* What was built with strings of the configuration routes no message to
\* another channel's filter.
Wired ==
    /\ stage \in {"building", "running", "refused"}
    /\ routes \subseteq {<<channel, channel>> : channel \in Channels}
    /\ stage = "building" => prefix \in Strings(PrefixLength) /\ device \in Strings(DeviceLength)

\* What is published is of a reading that was built, and an alert of one out
\* of range.
Measuring ==
    /\ readings \in 0 .. MaxReadings
    /\ owed \subseteq 1 .. readings
    /\ pPc \in Publisher!Channels => readings >= 1 /\ reading \in Lowest .. Highest
    /\ pPc = "alert" => Publisher!IsOutOfRange(reading)

\* The channels on which the current reading may still arrive.
ToCome ==
    CASE pPc = "temperature" -> Channels
      [] pPc = "alert" -> {"alert"}
      [] OTHER -> {}

HowManyToCome ==
    CASE pPc = "temperature" -> 2
      [] pPc = "alert" -> 1
      [] OTHER -> 0

\* What arrived is of readings that were built, on each channel in their
\* order, and not of the current one where that may still come.
Flowing ==
    /\ arrived \in Seq(FlowMessages)
    /\ handled \in Nat
    /\ Len(arrived) + HowManyToCome <= 2 * readings
    /\ \A i \in 1 .. Len(arrived) :
        /\ arrived[i].reading <= readings
        /\ arrived[i].channel \in ToCome => arrived[i].reading < readings
        /\ arrived[i].channel = "alert" => Publisher!IsOutOfRange(arrived[i].celsius)
    /\ \A i, j \in 1 .. Len(arrived) :
        i < j /\ arrived[i].channel = arrived[j].channel =>
            arrived[i].reading < arrived[j].reading

\* The inductive invariant, which takes those of the two use cases for granted.
IInv ==
    /\ Wired
    /\ Measuring
    /\ Flowing

\* The initial state satisfies it.
LEMMA InitIInv == Init => IInv
<1> SUFFICES ASSUME Init PROVE IInv
  OBVIOUS
<1> USE DEF Init, Publisher!Init, Consumer!Init
<1>1. Wired
  BY DEF Wired
<1>2. Measuring
  BY FlowAssumption DEF Measuring, FlowAssumption, Publisher!Channels
<1>3. Flowing
  <2>1. arrived = <<>> /\ readings = 0 /\ handled = 0 /\ pPc = "connect"
    OBVIOUS
  <2>2. HowManyToCome = 0
    BY <2>1 DEF HowManyToCome
  <2>3. arrived \in Seq(FlowMessages) /\ Len(arrived) = 0 /\ 1 .. 0 = {}
    BY <2>1
  <2>4. QED
    BY <2>1, <2>2, <2>3 DEF Flowing
<1>4. QED
  BY <1>1, <1>2, <1>3 DEF IInv

\* Only the two are built from strings, once.
LEMMA WiredStep == IInv /\ [Next]_vars => Wired'
<1> SUFFICES ASSUME IInv, [Next]_vars PROVE Wired'
  OBVIOUS
<1>1. CASE Build
  <2>1. prefix \in Seq(Chars) /\ device \in Seq(Chars)
    BY <1>1, ConfiguredStrings, FlowAssumption
    DEF IInv, Wired, Build, FlowAssumption
  <2>2. Builds(prefix, device) =>
            Routes(prefix, device) \subseteq {<<channel, channel>> : channel \in Channels}
    BY <2>1, WiredExactly
  <2>3. QED
    BY <1>1, <2>2 DEF IInv, Wired, Build
<1>2. CASE UNCHANGED wiring
  BY <1>2 DEF IInv, Wired, wiring
<1>3. QED
  BY <1>1, <1>2 DEF Next, PublisherStep, PublisherDisturbed, ConsumerMainStep, ConsumeStep,
                    StopWaitStep, ConsumerDisturbed, Consuming, Terminated, vars

\* What the consumer does and what disturbs either leaves the rest alone.
LEMMA OtherSteps ==
    ASSUME \/ Build \/ PublisherDisturbed
           \/ ConsumerMainStep \/ ConsumeStep \/ StopWaitStep \/ ConsumerDisturbed
           \/ UNCHANGED vars
    PROVE  /\ readings' = readings /\ owed' = owed /\ reading' = reading /\ pPc' = pPc
           /\ arrived' = arrived
           /\ handled' \in {handled, handled + 1}
<1>1. CASE Build \/ UNCHANGED vars
  BY <1>1 DEF Build, vars, publisher, consumer, consumerRun
<1>2. CASE PublisherDisturbed
  BY <1>2 DEF PublisherDisturbed, Publisher!Stop, Publisher!LinkLost, consumer, consumerRun
<1>3. CASE ConsumerMainStep \/ StopWaitStep \/ ConsumerDisturbed
  BY <1>3 DEF ConsumerMainStep, StopWaitStep, ConsumerDisturbed, Consuming, publisher,
        Consumer!inbox, Consumer!MainStep, Consumer!Connected, Consumer!ConnectAttemptFails,
        Consumer!ConnectSleepOver, Consumer!SubscribeTelemetry, Consumer!SubscribeAlert,
        Consumer!SubscribeFails, Consumer!WaitReturns, Consumer!GatherReturns,
        Consumer!Disconnect, Consumer!StopWaitStep, Consumer!StopWaitFinishes,
        Consumer!StopWaitCancelled, Consumer!Stop, Consumer!LinkLost
<1>4. CASE ConsumeStep
  BY <1>4 DEF ConsumeStep, Consuming, publisher, Consumer!inbox, Consumer!ConsumeStep,
        Consumer!Handle, Consumer!ConsumeFails, Consumer!ConsumeCancelled
<1>5. QED
  BY <1>1, <1>2, <1>3, <1>4

\* Readings are numbered as they are built.
LEMMA MeasuringStep == IInv /\ PublisherP!IInv /\ [Next]_vars => Measuring'
<1> SUFFICES ASSUME IInv, PublisherP!IInv, [Next]_vars PROVE Measuring'
  OBVIOUS
<1>1. Measuring
  BY DEF IInv
<1>2. readings \in Nat /\ MaxReadings \in Nat
  BY <1>1, FlowAssumption DEF Measuring, FlowAssumption
<1>3. CASE PublisherStep
  <2>1. Publisher!Step /\ accepted \in Seq(Publisher!Channels)
    BY <1>3 DEF PublisherStep, PublisherP!IInv, PublisherP!TypeOK, PublisherP!Channels,
                Publisher!Channels
  <2>2. /\ BuildsReading => readings < MaxReadings /\ readings' = readings + 1
        /\ ~BuildsReading => readings' = readings
    BY <1>3 DEF PublisherStep
  <2>3. owed' = owed \/ (Accepts /\ owed' = owed \cup {readings})
    BY <1>3 DEF PublisherStep, Forward
  <2>4. CASE BuildsReading /\ reading' \in Lowest .. Highest /\ ~Accepts
    <3>1. /\ pPc' = "temperature" /\ readings' = readings + 1 /\ readings < MaxReadings
          /\ owed' = owed
      BY <2>2, <2>3, <2>4 DEF BuildsReading
    <3>2. readings' \in 0 .. MaxReadings /\ readings' >= 1
      BY <1>1, <1>2, <3>1 DEF Measuring
    <3>3. owed' \subseteq 1 .. readings'
      <4>1. \A r \in 1 .. readings : r \in 1 .. readings + 1
        BY <1>2
      <4>2. QED
        BY <1>1, <3>1, <4>1 DEF Measuring
    <3>4. QED
      BY <2>4, <3>1, <3>2, <3>3 DEF Measuring, Publisher!IsOutOfRange
  <2>5. CASE /\ pPc \in Publisher!Channels /\ pPc' \in {Publisher!NextStep(pPc), "sleep"}
             /\ reading' = reading
    <3>1. readings' = readings /\ readings >= 1
      BY <1>1, <2>2, <2>5 DEF Measuring, BuildsReading, Publisher!Channels
    <3>2. owed' \subseteq 1 .. readings
      <4>1. readings \in 1 .. readings /\ owed \subseteq 1 .. readings
        BY <1>1, <1>2, <3>1 DEF Measuring
      <4>2. QED
        BY <2>3, <4>1
    <3>3. pPc' = "alert" => Publisher!IsOutOfRange(reading)
      BY <2>5 DEF Publisher!NextStep, Publisher!Channels
    <3>4. QED
      BY <1>1, <2>5, <3>1, <3>2, <3>3 DEF Measuring, Publisher!IsOutOfRange
  <2>6. CASE /\ pPc \notin Publisher!Channels /\ pPc' \notin Publisher!Channels
             /\ reading' = reading /\ ~Accepts
    <3>1. readings' = readings /\ owed' = owed
      BY <2>2, <2>3, <2>6 DEF BuildsReading, Publisher!Channels
    <3>2. QED
      BY <1>1, <2>6, <3>1 DEF Measuring, Publisher!Channels
  <2>7. QED
    BY <2>1, <2>4, <2>5, <2>6, PublisherMoves
<1>4. CASE ~PublisherStep
  BY <1>1, <1>4, OtherSteps DEF Measuring, Next, Terminated, Publisher!IsOutOfRange
<1>5. QED
  BY <1>3, <1>4

\* What the broker accepts arrives at most once, and only on a channel for
\* which the consumer's open session has subscribed.
LEMMA ForwardShape ==
    ASSUME Wired, Measuring, arrived \in Seq(FlowMessages),
           NEW channel \in Publisher!Channels, pPc = channel, Forward(channel)
    PROVE  \/ arrived' = arrived
           \/ \E m \in FlowMessages :
                /\ m = [channel |-> channel, decodable |-> TRUE,
                        reading |-> readings, celsius |-> reading]
                /\ channel \in subscribed /\ cClient \in cLive
                /\ arrived' = Append(arrived, m)
<1> DEFINE m == [channel |-> channel, decodable |-> TRUE,
                 reading |-> readings, celsius |-> reading]
<1>1. PICK n \in IF Selecting(channel) # {} THEN Copies(channel) ELSE {0} :
        arrived' = arrived \o [i \in 1 .. n |-> m]
  BY DEF Forward
<1>2. Selecting(channel) # {} =>
        channel \in Channels /\ channel \in subscribed /\ cClient \in cLive
  BY DEF Selecting, Wired
<1>3. channel \in Channels => Copies(channel) \subseteq {0, 1}
  BY DEF Copies, Qos, Channels
<1>4. n = 0 \/ (n = 1 /\ Selecting(channel) # {})
  BY <1>1, <1>2, <1>3
<1>5. CASE n = 0
  <2>1. [i \in 1 .. 0 |-> m] = <<>>
    OBVIOUS
  <2>2. arrived \o <<>> = arrived
    OBVIOUS
  <2>3. QED
    BY <1>1, <1>5, <2>1, <2>2
<1>6. CASE n = 1 /\ Selecting(channel) # {}
  <2>1. channel \in Channels /\ channel \in subscribed /\ cClient \in cLive
    BY <1>2, <1>6
  <2>2. m \in FlowMessages
    BY <2>1, FlowAssumption DEF Measuring, FlowMessages, Readings, FlowAssumption
  <2>3. PICK x \in FlowMessages : x = m
    BY <2>2
  <2> HIDE DEF m
  <2>4. [i \in 1 .. 1 |-> x] = <<x>>
    OBVIOUS
  <2>5. arrived \o <<x>> = Append(arrived, x)
    BY <2>3
  <2>6. arrived' = Append(arrived, x)
    BY <1>1, <1>6, <2>3, <2>4, <2>5
  <2>7. QED
    BY <2>1, <2>3, <2>6 DEF m
<1>7. QED
  BY <1>4, <1>5, <1>6

\* With each publish there is less to come of the current reading.
LEMMA LessToCome ==
    ASSUME pPc \in Publisher!Channels, pPc' \in {Publisher!NextStep(pPc), "sleep"}
    PROVE  /\ ToCome' \subseteq ToCome \ {pPc}
           /\ HowManyToCome \in Nat /\ HowManyToCome' \in Nat
           /\ HowManyToCome' <= HowManyToCome
           /\ pPc \in Channels => HowManyToCome' + 1 <= HowManyToCome
<1>1. pPc \in {"temperature", "alert", "status"}
  BY DEF Publisher!Channels
<1>2. /\ pPc = "temperature" => pPc' \in {"alert", "status", "sleep"}
      /\ pPc = "alert" => pPc' \in {"status", "sleep"}
      /\ pPc = "status" => pPc' = "sleep"
  BY DEF Publisher!NextStep
<1>3. CASE pPc = "temperature"
  BY <1>2, <1>3 DEF ToCome, HowManyToCome, Channels
<1>4. CASE pPc = "alert"
  BY <1>2, <1>4 DEF ToCome, HowManyToCome, Channels
<1>5. CASE pPc = "status"
  BY <1>2, <1>5 DEF ToCome, HowManyToCome, Channels
<1>6. QED
  BY <1>1, <1>3, <1>4, <1>5

\* What arrives is next in the order of its channel.
LEMMA FlowingStep == IInv /\ PublisherP!IInv /\ [Next]_vars => Flowing'
<1> SUFFICES ASSUME IInv, PublisherP!IInv, [Next]_vars PROVE Flowing'
  OBVIOUS
<1>1. Wired /\ Measuring /\ Flowing
  BY DEF IInv
<1>2. /\ arrived \in Seq(FlowMessages) /\ Len(arrived) \in Nat /\ readings \in Nat
      /\ \A i \in 1 .. Len(arrived) : arrived[i] \in FlowMessages /\ arrived[i].reading \in Nat
  <2>1. arrived \in Seq(FlowMessages)
    BY <1>1 DEF Flowing
  <2>2. readings \in Nat
    BY <1>1, FlowAssumption DEF Measuring, FlowAssumption
  <2>3. \A i \in 1 .. Len(arrived) : arrived[i] \in FlowMessages
    BY <2>1
  <2>4. \A m \in FlowMessages : m.reading \in Nat
    BY FlowAssumption DEF FlowMessages, Readings, FlowAssumption
  <2>5. QED
    BY <2>1, <2>2, <2>3, <2>4
<1>3. CASE PublisherStep
  <2>1. /\ Publisher!Step /\ accepted \in Seq(Publisher!Channels)
        /\ handled' = handled
        /\ BuildsReading => readings' = readings + 1
        /\ ~BuildsReading => readings' = readings
        /\ Accepts => Forward(Last(accepted'))
        /\ ~Accepts => arrived' = arrived
    BY <1>3 DEF PublisherStep, PublisherP!IInv, PublisherP!TypeOK, PublisherP!Channels,
                Publisher!Channels, consumerRun
  <2>2. CASE BuildsReading /\ ~Accepts
    <3>1. /\ pPc = "fetch" /\ pPc' = "temperature" /\ readings' = readings + 1
          /\ arrived' = arrived /\ handled' = handled
      BY <2>1, <2>2 DEF BuildsReading
    <3>2. HowManyToCome = 0 /\ HowManyToCome' = 2
      BY <3>1 DEF HowManyToCome
    <3>3. \A i \in 1 .. Len(arrived) : arrived[i].reading < readings'
      BY <1>1, <1>2, <3>1 DEF Flowing
    <3>4. QED
      BY <1>1, <1>2, <3>1, <3>2, <3>3 DEF Flowing, Publisher!IsOutOfRange
  <2>3. CASE /\ pPc \in Publisher!Channels /\ pPc' \in {Publisher!NextStep(pPc), "sleep"}
             /\ Accepts => Last(accepted') = pPc
    <3>1. readings' = readings /\ handled' = handled
      BY <2>1, <2>3 DEF BuildsReading, Publisher!Channels
    <3>2. /\ ToCome' \subseteq ToCome \ {pPc}
          /\ HowManyToCome \in Nat /\ HowManyToCome' \in Nat
          /\ HowManyToCome' <= HowManyToCome
          /\ pPc \in Channels => HowManyToCome' + 1 <= HowManyToCome
      BY <2>3, LessToCome
    <3>3. CASE arrived' = arrived
      BY <1>1, <1>2, <3>1, <3>2, <3>3 DEF Flowing, Publisher!IsOutOfRange
    <3>4. ASSUME NEW m \in FlowMessages,
                 m = [channel |-> pPc, decodable |-> TRUE,
                      reading |-> readings, celsius |-> reading],
                 arrived' = Append(arrived, m)
          PROVE  Flowing'
      <4>1. PICK n \in Nat : n = Len(arrived)
        BY <1>2
      <4>2. /\ arrived' \in Seq(FlowMessages) /\ Len(arrived') = n + 1
            /\ \A i \in 1 .. n : arrived'[i] = arrived[i]
            /\ arrived'[n + 1] = m
        BY <1>2, <3>4, <4>1
      <4>3. m.channel = pPc /\ m.reading = readings /\ m.celsius = reading /\ pPc \in Channels
        BY <3>4 DEF FlowMessages
      <4>4. pPc \in ToCome
        BY <4>3 DEF ToCome, Channels
      <4>5. \A i \in 1 .. n + 1 : i \in 1 .. n \/ i = n + 1
        BY <4>1
      <4>6. Len(arrived') + HowManyToCome' <= 2 * readings'
        <5>1. n + HowManyToCome <= 2 * readings /\ HowManyToCome' + 1 <= HowManyToCome
          BY <1>1, <3>2, <4>1, <4>3 DEF Flowing
        <5>2. Len(arrived') = n + 1 /\ readings' = readings
          BY <3>1, <4>2
        <5>3. PICK k \in Nat : k = HowManyToCome
          BY <3>2
        <5>4. PICK l \in Nat : l = HowManyToCome'
          BY <3>2
        <5>5. n + k <= 2 * readings /\ l + 1 <= k /\ readings \in Nat
          BY <1>2, <5>1, <5>3, <5>4
        <5>6. n + 1 + l <= 2 * readings
          BY <5>5
        <5>7. QED
          BY <5>2, <5>4, <5>6
      <4>7. ASSUME NEW i \in 1 .. n + 1
            PROVE  /\ arrived'[i].reading <= readings
                   /\ arrived'[i].channel \in ToCome' => arrived'[i].reading < readings
                   /\ arrived'[i].channel = "alert" =>
                        Publisher!IsOutOfRange(arrived'[i].celsius)
        <5>1. CASE i \in 1 .. n
          BY <1>1, <3>2, <4>1, <4>2, <5>1 DEF Flowing
        <5>2. CASE i = n + 1
          BY <1>1, <1>2, <3>2, <4>2, <4>3, <5>2 DEF Measuring
        <5>3. QED
          BY <4>5, <5>1, <5>2
      <4>8. ASSUME NEW i \in 1 .. n + 1, NEW j \in 1 .. n + 1,
                   i < j, arrived'[i].channel = arrived'[j].channel
            PROVE  arrived'[i].reading < arrived'[j].reading
        <5>1. i \in 1 .. n
          BY <4>1, <4>8
        <5>2. CASE j \in 1 .. n
          BY <1>1, <4>1, <4>2, <4>8, <5>1, <5>2 DEF Flowing
        <5>3. CASE j = n + 1
          BY <1>1, <4>1, <4>2, <4>3, <4>4, <4>8, <5>1, <5>3 DEF Flowing
        <5>4. QED
          BY <4>5, <5>2, <5>3
      <4>9. handled' \in Nat
        BY <1>1, <3>1 DEF Flowing
      <4>10. QED
        BY <3>1, <4>2, <4>6, <4>7, <4>8, <4>9 DEF Flowing, Publisher!IsOutOfRange
    <3>5. QED
      BY <1>1, <1>2, <2>1, <2>3, <3>3, <3>4, ForwardShape
  <2>4. CASE /\ pPc \notin Publisher!Channels /\ pPc' \notin Publisher!Channels /\ ~Accepts
    <3>1. readings' = readings /\ arrived' = arrived /\ handled' = handled
      BY <2>1, <2>4 DEF BuildsReading, Publisher!Channels
    <3>2. ToCome' = {} /\ HowManyToCome' = 0 /\ HowManyToCome = 0
      BY <2>4 DEF ToCome, HowManyToCome, Publisher!Channels
    <3>3. QED
      BY <1>1, <1>2, <3>1, <3>2 DEF Flowing, Publisher!IsOutOfRange
  <2>5. QED
    BY <2>1, <2>2, <2>3, <2>4, PublisherMoves
<1>4. CASE ~PublisherStep
  <2>1. /\ readings' = readings /\ pPc' = pPc /\ arrived' = arrived
        /\ handled' \in {handled, handled + 1}
    BY <1>4, OtherSteps DEF Next, Terminated
  <2>2. ToCome' = ToCome /\ HowManyToCome' = HowManyToCome
    BY <2>1 DEF ToCome, HowManyToCome
  <2>3. QED
    BY <1>1, <2>1, <2>2 DEF Flowing, Publisher!IsOutOfRange
<1>5. QED
  BY <1>3, <1>4

\* The invariant holds from the start and every step keeps it.
THEOREM Inductive == Spec => []IInv
<1>1. IInv /\ PublisherP!IInv /\ [Next]_vars => IInv'
  BY WiredStep, MeasuringStep, FlowingStep DEF IInv
<1>2. QED
  BY <1>1, InitIInv, PublisherInvariant, PTL DEF Spec

-----------------------------------------------------------------------------
(* The consumer                                                             *)

\* The consumer runs its use case: what the broker sends it are messages of
\* channels it subscribed to, in an open session, and no more than two of a
\* reading.
LEMMA ConsumerProcess ==
    IInv /\ IInv' /\ PublisherP!IInv /\ [Next]_vars => [ConsumerP!Next]_(ConsumerP!vars)
<1> SUFFICES ASSUME IInv, IInv', PublisherP!IInv, [Next]_vars
             PROVE  ConsumerP!Next \/ UNCHANGED <<consumerRun, Seen>>
  BY DEF ConsumerP!vars, consumerRun
<1>1. /\ Wired /\ Measuring /\ arrived \in Seq(FlowMessages) /\ handled \in Nat
      /\ arrived' \in Seq(FlowMessages)
  BY DEF IInv, Flowing
<1>2. arrived' = arrived => Seen' = Seen
  BY DEF Seen
<1>3. CASE ConsumerMainStep \/ ConsumeStep \/ StopWaitStep \/ ConsumerDisturbed
  BY <1>1, <1>3, SameConsumer DEF ConsumerMainStep, ConsumeStep, StopWaitStep,
                                  ConsumerDisturbed, Consuming, ConsumerP!Next
<1>4. CASE Build \/ PublisherDisturbed \/ UNCHANGED vars
  BY <1>2, <1>4 DEF Build, PublisherDisturbed, vars, consumer
<1>5. CASE PublisherStep
  <2>1. UNCHANGED consumerRun
    BY <1>5 DEF PublisherStep
  <2>2. Publisher!Step /\ accepted \in Seq(Publisher!Channels)
    BY <1>5 DEF PublisherStep, PublisherP!IInv, PublisherP!TypeOK, PublisherP!Channels,
                Publisher!Channels
  <2>3. CASE ~Accepts
    BY <1>2, <1>5, <2>1, <2>3 DEF PublisherStep
  <2>4. CASE Accepts
    <3>1. pPc \in Publisher!Channels /\ Last(accepted') = pPc /\ Forward(Last(accepted'))
      BY <1>5, <2>2, <2>4, PublisherMoves DEF PublisherStep
    <3>2. CASE arrived' = arrived
      BY <1>2, <2>1, <3>2
    <3>3. ASSUME NEW m \in FlowMessages, m.channel \in subscribed, cClient \in cLive,
                 arrived' = Append(arrived, m)
          PROVE  ConsumerP!Arrive
      <4>1. PICK n \in Nat : n = Len(arrived)
        BY <1>1
      <4>2. Len(arrived') = n + 1 /\ \A i \in 1 .. n : arrived'[i] = arrived[i]
        BY <1>1, <3>3, <4>1
      <4>3. arrived'[n + 1] = m
        BY <1>1, <3>3, <4>1
      <4>4. PICK seen : seen = [channel |-> m.channel, decodable |-> m.decodable]
        OBVIOUS
      <4>5. seen \in ConsumerP!Messages /\ seen.channel = m.channel
        BY <4>4 DEF ConsumerP!Messages, ConsumerP!Channels, FlowMessages, Channels
      <4>6. Seen' = Append(Seen, seen)
        <5>1. /\ Seen' = [i \in 1 .. n + 1 |-> [channel |-> arrived'[i].channel,
                                                decodable |-> arrived'[i].decodable]]
              /\ Seen = [i \in 1 .. n |-> [channel |-> arrived[i].channel,
                                           decodable |-> arrived[i].decodable]]
          BY <1>1, <4>1, <4>2 DEF Seen
        <5>2. Seen \in Seq(ConsumerP!Messages)
          <6>1. \A i \in 1 .. n : arrived[i] \in FlowMessages
            BY <1>1, <4>1
          <6>2. Seen \in [1 .. n -> ConsumerP!Messages]
            BY <5>1, <6>1 DEF ConsumerP!Messages, ConsumerP!Channels, FlowMessages, Channels
          <6>3. QED
            BY <6>2
        <5>3. Len(Seen) = n
          BY <1>1, <4>1, SeenShape
        <5>4. /\ DOMAIN Append(Seen, seen) = 1 .. n + 1
              /\ \A i \in 1 .. n : Append(Seen, seen)[i] = Seen[i]
              /\ Append(Seen, seen)[n + 1] = seen
          BY <4>5, <5>2, <5>3
        <5>5. \A i \in 1 .. n + 1 : i \in 1 .. n \/ i = n + 1
          BY <4>1
        <5>6. \A i \in 1 .. n + 1 : Seen'[i] = Append(Seen, seen)[i]
          <6>1. \A i \in 1 .. n : Seen'[i] = Seen[i]
            BY <4>1, <4>2, <5>1
          <6>2. Seen'[n + 1] = seen
            BY <4>1, <4>3, <4>4, <5>1
          <6>3. QED
            BY <5>4, <5>5, <6>1, <6>2
        <5>7. Append(Seen, seen) \in Seq(ConsumerP!Messages)
          BY <4>5, <5>2
        <5>8. Seen' \in Seq(ConsumerP!Messages) /\ Len(Seen') = n + 1
          <6>1. \A i \in 1 .. n + 1 : arrived'[i] \in FlowMessages
            BY <1>1, <4>2
          <6>2. Seen' \in [1 .. n + 1 -> ConsumerP!Messages]
            BY <5>1, <6>1 DEF ConsumerP!Messages, ConsumerP!Channels, FlowMessages, Channels
          <6>3. n + 1 \in Nat
            BY <4>1
          <6>4. QED
            BY <6>2, <6>3
        <5>9. Len(Append(Seen, seen)) = n + 1
          BY <5>2, <5>3
        <5>10. QED
          BY <5>6, <5>7, <5>8, <5>9, SeqEqual
      <4>7. Len(Seen) < 4 * MaxReadings
        <5>1. PICK k \in Nat : k = HowManyToCome'
          BY DEF HowManyToCome
        <5>2. n + 1 + k <= 2 * readings' /\ readings' \in 0 .. MaxReadings
          BY <4>2, <5>1 DEF IInv, Flowing, Measuring
        <5>3. Len(Seen) = n
          BY <1>1, <4>1, SeenShape
        <5>4. MaxReadings \in Nat
          BY FlowAssumption DEF FlowAssumption
        <5>5. PICK r \in Nat : r = readings' /\ r <= MaxReadings
          BY <5>2, <5>4
        <5>6. n + 1 + k <= 2 * r
          BY <5>2, <5>5
        <5>7. n < 4 * MaxReadings
          BY <4>1, <5>1, <5>4, <5>5, <5>6
        <5>8. QED
          BY <5>3, <5>7
      <4>8. QED
        BY <2>1, <3>3, <4>5, <4>6, <4>7
        DEF ConsumerP!Arrive, ConsumerP!mqtt, ConsumerP!tasks, consumerRun
    <3>4. QED
      BY <1>1, <2>1, <3>1, <3>2, <3>3, ForwardShape DEF ConsumerP!Next
  <2>5. QED
    BY <2>3, <2>4
<1>6. QED
  BY <1>3, <1>4, <1>5 DEF Next, Terminated

\* The consumer of the system implements the use case of SensorConsumer, with
\* the messages that the broker forwards to it.
THEOREM RunsTheConsumer == Spec => ConsumerP!Spec
<1>1. Init => ConsumerP!Init
  <2> SUFFICES ASSUME Init PROVE ConsumerP!Init
    OBVIOUS
  <2>1. arrived = <<>>
    BY DEF Init, Consumer!Init
  <2>2. Seen = <<>>
    BY <2>1 DEF Seen
  <2>3. QED
    BY <2>2 DEF Init, Consumer!Init, ConsumerP!Init, Consumer!None, ConsumerP!None
<1>2. QED
  BY <1>1, ConsumerProcess, Inductive, PublisherInvariant, PTL DEF Spec, ConsumerP!Spec

\* So what is proved of the use case holds of it.
LEMMA ConsumerInvariant == Spec => []ConsumerP!IInv
<1>1. ConsumerP!ConsumerAssumption
  BY FlowAssumption DEF FlowAssumption, ConsumerP!ConsumerAssumption
<1>2. QED
  BY <1>1, RunsTheConsumer, ConsumerP!Inductive, PTL

-----------------------------------------------------------------------------
(* The theorems                                                             *)

\* Type correctness, in particular: everything that arrives is of a reading
\* that was built, on a channel the consumer asked for.
THEOREM TypeCorrect == Spec => []TypeOK
<1>1. IInv /\ PublisherP!IInv /\ ConsumerP!IInv => TypeOK
  <2> SUFFICES ASSUME IInv, PublisherP!IInv, ConsumerP!IInv PROVE TypeOK
    OBVIOUS
  <2>1. Publisher!TypeOK
    BY DEF PublisherP!IInv, PublisherP!TypeOK, Publisher!TypeOK,
           PublisherP!Mqtt!TypeOK, Publisher!Mqtt!TypeOK,
           PublisherP!Mqtt!Sessions, Publisher!Mqtt!Sessions,
           PublisherP!Mqtt!None, Publisher!Mqtt!None,
           PublisherP!Mqtt!Phases, Publisher!Mqtt!Phases,
           PublisherP!Awaits, Publisher!Awaits, PublisherP!Channels, Publisher!Channels,
           PublisherP!Endings, Publisher!Endings
  <2>2. Consumer!Mqtt!TypeOK
    BY DEF ConsumerP!IInv, ConsumerP!TypeOK,
           ConsumerP!Mqtt!TypeOK, Consumer!Mqtt!TypeOK,
           ConsumerP!Mqtt!Sessions, Consumer!Mqtt!Sessions,
           ConsumerP!Mqtt!None, Consumer!Mqtt!None,
           ConsumerP!Mqtt!Phases, Consumer!Mqtt!Phases
  <2>3. arrived \in Seq(FlowMessages)
    BY DEF IInv, Flowing
  <2>4. handled \in 0 .. Len(arrived)
    BY <2>3, SeenShape DEF ConsumerP!IInv, ConsumerP!TypeOK
  <2>5. stats \in Consumer!Counters
    BY DEF ConsumerP!IInv, ConsumerP!TypeOK, ConsumerP!Counters, Consumer!Counters
  <2>6. /\ stage \in {"building", "running", "refused"}
        /\ routes \subseteq Publisher!Channels \X Channels
        /\ readings \in 0 .. MaxReadings
        /\ owed \subseteq 1 .. readings
    BY DEF IInv, Wired, Measuring, Publisher!Channels, Channels
  <2>7. QED
    BY <2>1, <2>2, <2>3, <2>4, <2>5, <2>6 DEF TypeOK, FlowMessages
<1>2. QED
  BY <1>1, Inductive, PublisherInvariant, ConsumerInvariant, PTL

\* topics.py:3-4, for strings of any length: two sides that are configured
\* alike agree on each channel or on none, and which of it depends only on
\* what trimming the prefix changes and on slashes in the device.
THEOREM RoutesExactly == Spec => []RoutesAreExact
<1>1. IInv => RoutesAreExact
  <2> SUFFICES ASSUME IInv, stage = "building", Builds(prefix, device)
               PROVE  LET own == {<<channel, channel>> : channel \in Channels}
                          tidy == Strip(prefix) = prefix
                          oneLevel == ~Contains(Strip(device), Slash)
                      IN  /\ Routes(prefix, device) \in {own, {}}
                          /\ tidy /\ oneLevel => Routes(prefix, device) = own
                          /\ ~(tidy <=> oneLevel) => Routes(prefix, device) = {}
    BY DEF RoutesAreExact
  <2>1. prefix \in Seq(Chars) /\ device \in Seq(Chars)
    BY ConfiguredStrings, FlowAssumption DEF IInv, Wired, FlowAssumption
  <2>2. QED
    BY <2>1, WiredExactly
<1>2. QED
  BY <1>1, Inductive, PTL

\* asyncapi.yaml:20-21: whatever is lost, retried or torn down at either end,
\* the counters are those of messages that arrived, in the order in which
\* their readings were taken, none twice, and the alerts for readings out of
\* range.
THEOREM CountsOnceInOrder == Spec => []CountedOnceInOrder
<1>1. IInv /\ ConsumerP!IInv => CountedOnceInOrder
  <2> SUFFICES ASSUME IInv, ConsumerP!IInv PROVE CountedOnceInOrder
    OBVIOUS
  <2>1. Flowing /\ arrived \in Seq(FlowMessages)
    BY DEF IInv, Flowing
  <2>2. handled \in 0 .. Len(arrived) /\ Len(arrived) \in Nat
    BY <2>1, SeenShape DEF ConsumerP!IInv, ConsumerP!TypeOK
  <2>3. \A i \in 1 .. handled :
            /\ i \in 1 .. Len(arrived) /\ arrived[i] \in FlowMessages
            /\ Seen[i].channel = arrived[i].channel /\ Seen[i].decodable
    <3>1. \A i \in 1 .. handled : i \in 1 .. Len(arrived)
      BY <2>2
    <3>2. \A i \in 1 .. Len(arrived) :
            /\ arrived[i] \in FlowMessages
            /\ Seen[i] = [channel |-> arrived[i].channel, decodable |-> arrived[i].decodable]
      BY <2>1, SeenShape
    <3>3. \A m \in FlowMessages : m.decodable
      BY DEF FlowMessages
    <3>4. ASSUME NEW i \in 1 .. Len(arrived)
          PROVE  Seen[i].channel = arrived[i].channel /\ Seen[i].decodable = arrived[i].decodable
      <4>1. Seen[i] = [channel |-> arrived[i].channel, decodable |-> arrived[i].decodable]
        BY <3>2
      <4>2. QED
        BY <4>1
    <3>5. \A i \in 1 .. Len(arrived) : arrived[i].decodable
      BY <3>2, <3>3
    <3>6. QED
      BY <3>1, <3>2, <3>4, <3>5
  <2>4. /\ stats.alerts = Cardinality(ConsumerP!Alerts(Seen, handled))
        /\ stats.telemetry = Cardinality(ConsumerP!Telemetry(Seen, handled))
    <3>1. ConsumerP!StatsMatchMessages
      BY DEF ConsumerP!IInv
    <3>2. ConsumerP!ConsumerAssumption
      BY FlowAssumption DEF FlowAssumption, ConsumerP!ConsumerAssumption
    <3>3. \A S : ConsumerP!Cardinality(S) = Cardinality(S)
      BY DEF Cardinality, ConsumerP!Cardinality
    <3>4. /\ stats.alerts = ConsumerP!Cardinality(ConsumerP!Alerts(Seen, handled))
          /\ stats.telemetry = ConsumerP!Cardinality(ConsumerP!Telemetry(Seen, handled))
      BY <3>1, <3>2, ConsumerP!CountsByKind, Zenon
    <3>5. QED
      BY <3>3, <3>4
  <2>5. /\ ConsumerP!Alerts(Seen, handled) = Counted("alert")
        /\ ConsumerP!Telemetry(Seen, handled) = Counted("temperature")
    BY <2>3 DEF Counted, ConsumerP!Alerts, ConsumerP!Telemetry
  <2>6. /\ stats.telemetry = Cardinality(Counted("temperature"))
        /\ stats.alerts = Cardinality(Counted("alert"))
    BY <2>4, <2>5
  <2>7. \A channel \in Channels : \A i, j \in Counted(channel) :
            i < j => arrived[i].reading < arrived[j].reading
    BY <2>1, <2>3 DEF Counted, Flowing
  <2>8. \A i \in Counted("alert") : arrived[i].celsius \notin MinCelsius .. MaxCelsius
    <3>1. ASSUME NEW i \in Counted("alert") PROVE arrived[i].celsius \notin MinCelsius .. MaxCelsius
      <4>1. Publisher!IsOutOfRange(arrived[i].celsius) /\ arrived[i].celsius \in Int
        <5>1. i \in 1 .. Len(arrived) /\ arrived[i].channel = "alert"
          BY <2>3 DEF Counted
        <5>2. arrived[i] \in FlowMessages
          BY <2>1, <5>1
        <5>3. arrived[i].celsius \in Int
          <6>1. \A m \in FlowMessages : m.celsius \in Lowest .. Highest
            BY DEF FlowMessages
          <6>2. QED
            BY <5>2, <6>1, FlowAssumption DEF FlowAssumption
        <5>4. QED
          BY <2>1, <5>1, <5>3 DEF Flowing
      <4>2. QED
        BY <4>1, FlowAssumption DEF Publisher!IsOutOfRange, FlowAssumption
    <3>2. QED
      BY <3>1
  <2>9. QED
    BY <2>6, <2>7, <2>8 DEF CountedOnceInOrder
<1>2. QED
  BY <1>1, Inductive, ConsumerInvariant, PTL

\* publisher.py:37, the half of AlertGetsThrough that is no matter of fairness:
\* an alert the broker took for an attached consumer has arrived there, and
\* stays the consumer's to count.
OwedHaveArrived ==
    \A r \in owed : \E i \in 1 .. Len(arrived) :
        arrived[i].channel = "alert" /\ arrived[i].reading = r

\* A step of the publisher that puts an alert into owed delivers it, once.
LEMMA OwedStep == IInv /\ PublisherP!IInv /\ OwedHaveArrived /\ [Next]_vars => OwedHaveArrived'
<1> SUFFICES ASSUME IInv, PublisherP!IInv, OwedHaveArrived, [Next]_vars
             PROVE  OwedHaveArrived'
  OBVIOUS
<1>1. /\ arrived \in Seq(FlowMessages) /\ readings \in Nat
      /\ accepted \in Seq(Publisher!Channels)
  BY FlowAssumption DEF IInv, Measuring, Flowing, PublisherP!IInv, PublisherP!TypeOK,
     PublisherP!Channels, Publisher!Channels, FlowAssumption
<1>2. CASE owed' = owed /\ arrived' = arrived
  BY <1>2 DEF OwedHaveArrived
<1>3. CASE PublisherStep /\ Accepts
  <2>1. PICK channel \in Publisher!Channels : Forward(channel)
    <3>1. Publisher!Step /\ Forward(Last(accepted'))
      BY <1>3 DEF PublisherStep
    <3>2. \/ BuildsReading /\ ~Accepts
          \/ pPc \in Publisher!Channels /\ (Accepts => Last(accepted') = pPc)
          \/ ~Accepts
      BY <1>1, <3>1, PublisherMoves
    <3>3. QED
      BY <1>3, <3>1, <3>2
  <2> DEFINE m == [channel |-> channel, decodable |-> TRUE,
                   reading |-> readings, celsius |-> reading]
  <2>2. PICK n \in IF Selecting(channel) # {} THEN Copies(channel) ELSE {0} :
          arrived' = arrived \o [i \in 1 .. n |-> m]
    BY <2>1 DEF Forward
  <2>3. n \in Nat
    BY <2>1 DEF Copies, Qos, Publisher!Channels
  <2>4. PICK k \in Nat : k = Len(arrived)
    BY <1>1
  <2>5. /\ Len(arrived') = k + n
        /\ \A i \in 1 .. k : arrived'[i] = arrived[i]
        /\ \A i \in k + 1 .. k + n : arrived'[i] = m
    <3> HIDE DEF m
    <3>1. DOMAIN arrived = 1 .. k
      BY <1>1, <2>4
    <3>2. QED
      BY <1>1, <2>2, <2>3, <2>4, <3>1
  <2>6. ASSUME NEW r \in owed
        PROVE  \E i \in 1 .. Len(arrived') :
                   arrived'[i].channel = "alert" /\ arrived'[i].reading = r
    <3>1. PICK i \in 1 .. k : arrived[i].channel = "alert" /\ arrived[i].reading = r
      BY <2>4 DEF OwedHaveArrived
    <3>2. i \in 1 .. k + n
      BY <2>3, <2>4
    <3>3. QED
      BY <2>5, <3>1, <3>2
  <2>7. CASE Selecting(channel) # {} /\ channel = "alert"
    <3>1. n = 1 /\ owed' = owed \cup {readings}
      BY <2>1, <2>2, <2>7 DEF Forward, Copies, Qos
    <3>2. k + 1 \in 1 .. Len(arrived') /\ arrived'[k + 1] = m
      BY <2>4, <2>5, <3>1
    <3>3. QED
      BY <2>6, <2>7, <3>1, <3>2 DEF OwedHaveArrived
  <2>8. CASE ~(Selecting(channel) # {} /\ channel = "alert")
    <3>1. owed' = owed
      BY <2>1, <2>8 DEF Forward
    <3>2. QED
      BY <2>6, <3>1 DEF OwedHaveArrived
  <2>9. QED
    BY <2>7, <2>8
<1>4. PublisherStep /\ ~Accepts => owed' = owed /\ arrived' = arrived
  BY DEF PublisherStep
<1>5. ~PublisherStep => owed' = owed /\ arrived' = arrived
  BY OtherSteps DEF Next, Terminated
<1>6. QED
  BY <1>2, <1>3, <1>4, <1>5

\* Whatever the broker does with the messages of lower levels of QoS, and
\* however both processes fare, no alert it owes is missing.
THEOREM NoAlertIsLost == Spec => []OwedHaveArrived
<1>1. Init => OwedHaveArrived
  BY DEF Init, OwedHaveArrived
<1>2. QED
  BY <1>1, OwedStep, Inductive, PublisherInvariant, PTL DEF Spec

=============================================================================
