------------------------ MODULE RelayTraffic_proofs ------------------------
(***************************************************************************)
(* Proofs about the relay's audio, for any number of connections, any      *)
(* shards, any limits and ids of any width: first the limiter on its own,  *)
(* then that the task of a connection is one, then whom its packets reach  *)
(* and for whose they are taken.                                           *)
(***************************************************************************)
EXTENDS RelayTraffic, TLAPS

-----------------------------------------------------------------------------
(* The limiter.                                                            *)

\* What a window has counted bounds what has passed in it.
Counted ==
  /\ base <= passed
  /\ passed - base <= recent
  /\ passed - base <= Limit
  /\ recent <= arrived - arrivedAt[lastReset]

\* The records of the ticks: no total has shrunk since.
Recorded ==
  \A t \in Time : t <= now => passedAt[t] <= passed /\ arrivedAt[t] <= arrived

\* The whole seconds from t to s.
Seconds(t, s) == (s - t) \div Window

\* Ticks of this window, and those before its start.
Windows ==
  \A t \in Time :
    /\ t <= now /\ t > lastReset => passedAt[t] >= base
    /\ t <= lastReset => base - passedAt[t] <= Limit * (Seconds(t, lastReset) + 1)

LimiterInv == LimiterTypeOK /\ Counted /\ Recorded /\ Windows

\* Seconds are counted from zero.
LEMMA SecondsNat ==
  ASSUME NEW t \in Nat, NEW s \in Nat, t <= s
  PROVE  Seconds(t, s) \in Nat
BY LimitAssumption DEF Seconds

\* A second later at least one more has gone by.
LEMMA SecondsGrow ==
  ASSUME NEW t \in Nat, NEW s \in Nat, NEW u \in Nat, t <= s, u - s >= Window
  PROVE  Seconds(t, s) + 1 <= Seconds(t, u)
BY LimitAssumption DEF Seconds

\* Seconds do not run backwards.
LEMMA SecondsMonotone ==
  ASSUME NEW t \in Nat, NEW s \in Nat, NEW u \in Nat, t <= s, s <= u
  PROVE  Seconds(t, s) <= Seconds(t, u)
BY LimitAssumption DEF Seconds

\* More seconds allow more.
LEMMA LimitMonotone ==
  ASSUME NEW m \in Nat, NEW n \in Nat, m <= n
  PROVE  /\ Limit * m \in Nat /\ Limit * m <= Limit * n
         /\ Limit * (m + 1) = Limit * m + Limit
         /\ Limit * (m + 2) = Limit * m + 2 * Limit
<1>1. Limit \in Nat
  BY LimitAssumption
<1> DEFINE d == n - m
<1>2. d \in Nat /\ n = m + d
  OBVIOUS
<1> HIDE DEF d
<1>3. Limit * n = Limit * m + Limit * d
  BY <1>1, <1>2
<1>4. Limit * m \in Nat /\ Limit * d \in Nat
  BY <1>1, <1>2
<1>5. /\ Limit * (m + 1) = Limit * m + Limit
      /\ Limit * (m + 2) = Limit * m + 2 * Limit
  BY <1>1
<1> QED BY <1>1, <1>3, <1>4, <1>5

\* The empty window.
LEMMA LimiterStart == LimiterInit => LimiterInv
<1> SUFFICES ASSUME LimiterInit PROVE LimiterInv
  OBVIOUS
<1>1. LimiterTypeOK /\ Counted /\ Recorded
  BY LimitAssumption DEF LimiterInit, LimiterTypeOK, Counted, Recorded, Time
<1>2. Seconds(0, 0) \in Nat
  BY SecondsNat
<1>3. Limit * (Seconds(0, 0) + 1) \in Nat
  BY <1>2, LimitAssumption
<1>4. Windows
  BY <1>3 DEF LimiterInit, Windows, Time
<1> QED BY <1>1, <1>4 DEF LimiterInv

\* The clock preserves the invariant: the new tick records the totals.
LEMMA TickInv == LimiterInv /\ Tick => LimiterInv'
<1> SUFFICES ASSUME LimiterInv, Tick PROVE LimiterInv'
  OBVIOUS
<1> USE LimitAssumption DEF LimiterInv
<1>1. /\ now \in Nat /\ now < MaxTime /\ now' = now + 1 /\ now' \in Time
      /\ lastReset \in Nat /\ lastReset <= now
  BY DEF Tick, LimiterTypeOK, Time
<1>2. \A t \in Time : t # now' => passedAt'[t] = passedAt[t] /\ arrivedAt'[t] = arrivedAt[t]
  BY <1>1 DEF Tick, LimiterTypeOK
<1>3. passedAt'[now'] = passed /\ arrivedAt'[now'] = arrived
  BY <1>1 DEF Tick, LimiterTypeOK
<1>4. UNCHANGED <<lastReset, recent, arrived, passed, base>>
  BY DEF Tick
<1>5. LimiterTypeOK'
  BY <1>1 DEF Tick, LimiterTypeOK, Time
<1>6. Counted'
  BY <1>1, <1>2, <1>4 DEF Counted, Time
<1>7. Recorded'
  <2> SUFFICES ASSUME NEW t \in Time, t <= now'
               PROVE  passedAt'[t] <= passed /\ arrivedAt'[t] <= arrived
    BY <1>4 DEF Recorded
  <2>1. CASE t = now'
    BY <2>1, <1>3 DEF LimiterTypeOK
  <2>2. CASE t # now'
    BY <2>2, <1>1, <1>2 DEF Recorded, Time
  <2> QED BY <2>1, <2>2
<1>8. Windows'
  <2> SUFFICES ASSUME NEW t \in Time
               PROVE  /\ t <= now' /\ t > lastReset => passedAt'[t] >= base
                      /\ t <= lastReset => base - passedAt'[t] <= Limit * (Seconds(t, lastReset) + 1)
    BY <1>4 DEF Windows, Seconds
  <2>1. CASE t = now'
    BY <2>1, <1>1, <1>3 DEF LimiterTypeOK, Counted
  <2>2. CASE t # now'
    BY <2>2, <1>1, <1>2 DEF Windows, Time
  <2> QED BY <2>1, <2>2
<1> QED BY <1>5, <1>6, <1>7, <1>8

\* A datagram preserves it.  A new window starts a second or more after the
\* last one did, so what passed in the second before it passed in that window.
LEMMA DatagramInv ==
  ASSUME LimiterInv, NEW n \in Nat, Drop(n) \/ Pass(n)
  PROVE  LimiterInv'
<1> USE LimitAssumption DEF LimiterInv
<1>1. /\ now \in Nat /\ now <= MaxTime /\ now \in Time /\ lastReset \in Nat /\ lastReset <= now
      /\ recent \in Nat /\ arrived \in Nat /\ passed \in Nat /\ base \in Nat
      /\ \A t \in Time : t \in Nat /\ passedAt[t] \in Nat /\ arrivedAt[t] \in Nat
  BY DEF LimiterTypeOK, Time
<1>2. /\ now' = now /\ arrivedAt' = arrivedAt /\ passedAt' = passedAt
      /\ arrived' = arrived + n
      /\ recent' = Total(n)
  BY DEF Drop, Pass, Count
<1>3. passed' = passed \/ (passed' = passed + n /\ Total(n) <= Limit)
  BY DEF Drop, Pass, WithinLimit
<1>4. passedAt[now] <= passed /\ arrivedAt[now] <= arrived
  BY <1>1 DEF Recorded
<1>5. CASE Elapsed
  <2>1. lastReset' = now /\ base' = passed /\ recent' = n
    BY <1>1, <1>2, <1>5 DEF Drop, Pass, Count, Total
  <2>2. LimiterTypeOK'
    BY <1>1, <1>2, <1>3, <2>1 DEF LimiterTypeOK
  <2>3. Counted'
    BY <1>1, <1>2, <1>3, <1>4, <1>5, <2>1 DEF Counted, Total
  <2>4. Recorded'
    BY <1>1, <1>2, <1>3 DEF Recorded
  <2>5. ASSUME NEW t \in Time, t <= now
        PROVE  passed - passedAt[t] <= Limit * (Seconds(t, now) + 1)
    <3>1. /\ t \in Nat /\ passedAt[t] \in Nat /\ Limit \in Nat
          /\ passed - base <= Limit /\ Seconds(t, now) \in Nat
      BY <1>1, <2>5, SecondsNat DEF Counted
    <3>2. CASE t > lastReset
      <4>1. passed - passedAt[t] <= Limit
        BY <1>1, <2>5, <3>1, <3>2 DEF Windows
      <4>2. Limit * (Seconds(t, now) + 1) = Limit * Seconds(t, now) + Limit
            /\ Limit * Seconds(t, now) \in Nat
        BY <3>1, LimitMonotone
      <4> QED BY <1>1, <3>1, <4>1, <4>2
    <3>3. CASE t <= lastReset
      <4> DEFINE m == Seconds(t, lastReset) + 1
      <4>1. m \in Nat /\ m <= Seconds(t, now)
        <5>1. now - lastReset >= Window
          BY <1>5 DEF Elapsed
        <5>2. Seconds(t, lastReset) \in Nat
          BY <1>1, <3>1, <3>3, SecondsNat
        <5>3. Seconds(t, lastReset) + 1 <= Seconds(t, now)
          BY <1>1, <3>1, <3>3, <5>1, SecondsGrow
        <5> QED BY <5>2, <5>3
      <4>2. base - passedAt[t] <= Limit * m
        BY <3>3 DEF Windows
      <4> HIDE DEF m
      <4>3. /\ Limit * m \in Nat /\ Limit * Seconds(t, now) \in Nat
            /\ Limit * m <= Limit * Seconds(t, now)
            /\ Limit * (Seconds(t, now) + 1) = Limit * Seconds(t, now) + Limit
        BY <3>1, <4>1, LimitMonotone
      <4> QED BY <1>1, <3>1, <4>2, <4>3
    <3> QED BY <1>1, <3>1, <3>2, <3>3
  <2>6. Windows'
    BY <1>1, <1>2, <2>1, <2>5 DEF Windows, Seconds
  <2> QED BY <2>2, <2>3, <2>4, <2>6
<1>6. CASE ~Elapsed
  <2>1. lastReset' = lastReset /\ base' = base /\ recent' = recent + n
    BY <1>1, <1>2, <1>6 DEF Drop, Pass, Count, Total
  <2>2. LimiterTypeOK'
    BY <1>1, <1>2, <1>3, <2>1 DEF LimiterTypeOK
  <2>3. Counted'
    <3>1. arrivedAt[lastReset] \in Nat
      BY <1>1 DEF Time
    <3> QED BY <1>1, <1>2, <1>3, <1>6, <2>1, <3>1 DEF Counted, Total
  <2>4. Recorded'
    BY <1>1, <1>2, <1>3 DEF Recorded
  <2>5. Windows'
    BY <1>1, <1>2, <2>1 DEF Windows, Seconds
  <2> QED BY <2>2, <2>3, <2>4, <2>5
<1> QED BY <1>5, <1>6

\* Every step of the limiter preserves it.
LEMMA LimiterInvNext == LimiterInv /\ [LimiterNext]_limiterVars => LimiterInv'
<1> SUFFICES ASSUME LimiterInv, [LimiterNext]_limiterVars PROVE LimiterInv'
  OBVIOUS
<1>1. CASE Tick
  BY <1>1, TickInv
<1>2. CASE StartWindow
  <2>1. now \in Time /\ now \in Nat
    BY LimitAssumption DEF LimiterInv, LimiterTypeOK, Time
  <2>2. LimiterTypeOK' /\ Counted' /\ Recorded'
    BY <1>2, <2>1, LimitAssumption
       DEF StartWindow, LimiterInv, LimiterTypeOK, Counted, Recorded, Time
  <2>3. ASSUME NEW t \in Time, t <= now
        PROVE  0 <= Limit * (Seconds(t, now) + 1)
    <3>1. Seconds(t, now) \in Nat
      BY <2>1, <2>3, SecondsNat DEF Time
    <3>2. Limit * (Seconds(t, now) + 1) \in Nat
      BY <3>1, LimitAssumption
    <3> QED BY <3>2
  <2>4. Windows'
    <3>1. /\ now' = now /\ lastReset' = now /\ base' = 0 /\ passedAt' = passedAt
          /\ \A t \in Time : t \in Nat /\ passedAt[t] \in Nat /\ (t <= now => passedAt[t] <= 0)
      BY <1>2, <2>1 DEF StartWindow, LimiterInv, LimiterTypeOK, Recorded, Time
    <3>2. \A t \in Time : t <= now => passedAt[t] = 0
      BY <2>1, <3>1 DEF Time, LimiterInv, LimiterTypeOK
    <3>3. SUFFICES ASSUME NEW t \in Time, t <= now
                   PROVE  0 - passedAt[t] <= Limit * (Seconds(t, now) + 1)
      BY <2>1, <3>1 DEF Windows, Seconds, Time
    <3> QED BY <2>3, <3>2, <3>3
  <2> QED BY <2>2, <2>4 DEF LimiterInv
<1>3. CASE \E n \in Nat : Drop(n) \/ Pass(n)
  BY <1>3, DatagramInv
<1>4. CASE UNCHANGED limiterVars
  BY <1>4 DEF limiterVars, LimiterInv, LimiterTypeOK, Counted, Recorded, Windows, Seconds
<1> QED BY <1>1, <1>2, <1>3, <1>4 DEF LimiterNext

\* The inductive invariant of the limiter.
THEOREM LimiterInvariant == LimiterSpec => []LimiterInv
<1>1. LimiterInit => LimiterInv
  BY LimiterStart
<1>2. LimiterInv /\ [LimiterNext]_limiterVars => LimiterInv'
  BY LimiterInvNext
<1> QED BY <1>1, <1>2, PTL DEF LimiterSpec

\* The rate holds over any stretch of time (LimiterBound): what passed before
\* the window is within a limit for each second up to its start and one more,
\* and the window adds one.
LEMMA BoundFromInv == LimiterInv => LimiterBound
<1> SUFFICES ASSUME LimiterInv, NEW t \in Time, t <= now
             PROVE  passed - passedAt[t] <= Limit * (Seconds(t, now) + 2)
  BY DEF LimiterBound, Seconds
<1>1. /\ t \in Nat /\ now \in Nat /\ lastReset \in Nat /\ lastReset <= now
      /\ passed \in Nat /\ base \in Nat /\ passedAt[t] \in Nat /\ Limit \in Nat
      /\ passed - base <= Limit
  BY LimitAssumption DEF LimiterInv, LimiterTypeOK, Counted, Time
<1>2. Seconds(t, now) \in Nat
  BY <1>1, SecondsNat
<1>3. /\ Limit * Seconds(t, now) \in Nat
      /\ Limit * (Seconds(t, now) + 2) = Limit * Seconds(t, now) + 2 * Limit
  BY <1>2, LimitMonotone
<1>4. CASE t > lastReset
  <2>1. passedAt[t] >= base
    BY <1>4 DEF LimiterInv, Windows
  <2> QED BY <1>1, <1>3, <2>1
<1>5. CASE t <= lastReset
  <2>1. Seconds(t, lastReset) \in Nat /\ Seconds(t, lastReset) <= Seconds(t, now)
    BY <1>1, <1>5, SecondsNat, SecondsMonotone
  <2>2. /\ Limit * Seconds(t, lastReset) <= Limit * Seconds(t, now)
        /\ Limit * (Seconds(t, lastReset) + 1) = Limit * Seconds(t, lastReset) + Limit
        /\ Limit * Seconds(t, lastReset) \in Nat
    BY <1>2, <2>1, LimitMonotone
  <2>3. base - passedAt[t] <= Limit * (Seconds(t, lastReset) + 1)
    BY <1>5 DEF LimiterInv, Windows
  <2> QED BY <1>1, <1>3, <2>2, <2>3
<1> QED BY <1>1, <1>4, <1>5

\* Within a second no whole second has gone by (SecondBound).
LEMMA SecondFromBound == LimiterTypeOK /\ LimiterBound => SecondBound
<1> SUFFICES ASSUME LimiterTypeOK, LimiterBound,
                    NEW t \in Time, t <= now, now - t < Window
             PROVE  passed - passedAt[t] <= 2 * Limit
  BY DEF SecondBound, LastSecond
<1>1. /\ t \in Nat /\ now \in Nat /\ Window \in Nat \ {0} /\ Limit \in Nat
      /\ passed - passedAt[t] \in Int
  BY LimitAssumption DEF LimiterTypeOK, Time
<1>2. Seconds(t, now) = 0
  BY <1>1 DEF Seconds
<1>3. passed - passedAt[t] <= Limit * (Seconds(t, now) + 2)
  BY DEF LimiterBound, Seconds
<1>4. Limit * (Seconds(t, now) + 2) = 2 * Limit
  BY <1>1, <1>2
<1> QED BY <1>3, <1>4

\* What is dropped came at the end of a second that brought more than the
\* limit (WithinLimitPasses): the second that starts with the window, or now.
LEMMA DropsFromInv ==
  LimiterInv /\ [LimiterNext]_limiterVars =>
    (arrived' # arrived /\ passed' = passed =>
       \E t \in LastSecond : arrived' - arrivedAt[t] > Limit)
<1> SUFFICES ASSUME LimiterInv, [LimiterNext]_limiterVars,
                    arrived' # arrived, passed' = passed
             PROVE  \E t \in LastSecond : arrived' - arrivedAt[t] > Limit
  OBVIOUS
<1>1. PICK n \in Nat : Drop(n) \/ Pass(n)
  BY DEF LimiterNext, Tick, StartWindow, limiterVars
<1>2. /\ now \in Nat /\ now <= MaxTime /\ lastReset \in Nat /\ lastReset <= now
      /\ recent \in Nat /\ arrived \in Nat /\ passed \in Nat
      /\ \A t \in Time : arrivedAt[t] \in Nat
      /\ Limit \in Nat /\ Window \in Nat \ {0}
  BY LimitAssumption DEF LimiterInv, LimiterTypeOK, Time
<1>3. arrived' = arrived + n /\ n # 0
  BY <1>1, <1>2 DEF Drop, Pass, Count
<1>4. Total(n) > Limit
  <2>1. ~(passed' = passed + n)
    BY <1>2, <1>3
  <2>2. ~WithinLimit(n)
    BY <1>1, <2>1 DEF Drop, Pass
  <2>3. Total(n) \in Nat
    BY <1>2 DEF Total
  <2> QED BY <1>2, <2>2, <2>3 DEF WithinLimit
<1>5. CASE Elapsed
  <2>1. now \in LastSecond
    BY <1>2 DEF LastSecond, Time
  <2>2. arrivedAt[now] <= arrived
    BY <1>2 DEF LimiterInv, Recorded, Time
  <2>3. arrivedAt[now] \in Nat
    BY <1>2 DEF Time
  <2>4. n > Limit
    BY <1>2, <1>4, <1>5 DEF Total
  <2>5. arrived' - arrivedAt[now] > Limit
    BY <1>2, <1>3, <2>2, <2>3, <2>4
  <2> QED BY <2>1, <2>5
<1>6. CASE ~Elapsed
  <2>1. lastReset \in LastSecond
    BY <1>2, <1>6, LimitAssumption DEF LastSecond, Time, Elapsed
  <2>2. recent <= arrived - arrivedAt[lastReset]
    BY DEF LimiterInv, Counted
  <2>3. arrivedAt[lastReset] \in Nat
    BY <1>2, LimitAssumption DEF Time
  <2>4. recent + n > Limit
    BY <1>2, <1>4, <1>6 DEF Total
  <2>5. arrived' - arrivedAt[lastReset] > Limit
    BY <1>2, <1>3, <2>2, <2>3, <2>4
  <2> QED BY <2>1, <2>5
<1> QED BY <1>5, <1>6

-----------------------------------------------------------------------------
(* The task of a connection is such a limiter.                             *)

\* What every step that reads a datagram does to the limiter.
LEMMA ReadsLimited ==
  ASSUME NEW n \in Sizes, Reject(n) \/ Forward(n)
  PROVE  [LimiterNext]_limiterVars
<1>1. n \in Nat
  BY PlaceAssumption
<1>2. UNCHANGED limiterVars \/ Drop(n) \/ Pass(n)
  BY DEF Reject, Forward
<1> QED BY <1>1, <1>2 DEF LimiterNext

\* Every step of the traffic is a step of the limiter, or leaves it alone.
LEMMA LimiterStep == [Next]_vars => [LimiterNext]_limiterVars
<1> SUFFICES ASSUME [Next]_vars PROVE [LimiterNext]_limiterVars
  OBVIOUS
<1>1. CASE \E p \in Peer : Accept(p) \/ Insert(p) \/ Remove(p)
  <2>1. UNCHANGED limiterVars \/ StartWindow
    BY <1>1 DEF Accept, Insert, Remove
  <2> QED BY <2>1 DEF LimiterNext
<1>2. CASE \E o \in Listening, q \in Peer : Learn(o, q)
  BY <1>2 DEF Learn
<1>3. CASE \E n \in Sizes : Reject(n) \/ Forward(n)
  BY <1>3, ReadsLimited
<1>4. CASE SendShard
  BY <1>4 DEF SendShard
<1>5. CASE \E a \in air : Lose(a) \/ Hear(a)
  BY <1>5 DEF Lose, Hear
<1>6. CASE Pause
  BY <1>6 DEF Pause, LimiterNext
<1>7. CASE UNCHANGED vars
  BY <1>7 DEF vars
<1> QED BY <1>1, <1>2, <1>3, <1>4, <1>5, <1>6, <1>7 DEF Next

\* The task of a connection implements the limiter: whatever the room and the
\* network do meanwhile, what it lets through is limited as AudioLimiter says.
THEOREM TrafficLimited == Spec => LimiterSpec
<1>1. Init => LimiterInit
  BY DEF Init
<1>2. [Next]_vars => [LimiterNext]_limiterVars
  BY LimiterStep
<1> QED BY <1>1, <1>2, PTL DEF Spec, LimiterSpec

\* However long a client sends, no more passes than the limit for each second
\* and two besides, for any limit, sizes and arrival times.
THEOREM RateBounded == Spec => []LimiterBound
<1>1. LimiterInv => LimiterBound
  BY BoundFromInv
<1> QED BY <1>1, TrafficLimited, LimiterInvariant, PTL

\* In no second does more than twice the limit pass.
THEOREM NeverTwiceTheLimit == Spec => []SecondBound
<1>1. LimiterInv => SecondBound
  BY BoundFromInv, SecondFromBound DEF LimiterInv
<1> QED BY <1>1, TrafficLimited, LimiterInvariant, PTL

\* A client that keeps to the limit in every second loses nothing to it.
THEOREM KeepersLoseNothing == Spec => WithinLimitPasses
<1>1. LimiterInv /\ [LimiterNext]_limiterVars =>
        [arrived' # arrived /\ passed' = passed =>
           \E t \in LastSecond : arrived' - arrivedAt[t] > Limit]_limiterVars
  BY DropsFromInv
<1>2. LimiterSpec => WithinLimitPasses
  BY <1>1, LimiterInvariant, PTL DEF LimiterSpec, WithinLimitPasses
<1> QED BY <1>2, TrafficLimited, PTL

-----------------------------------------------------------------------------
(* Ids.                                                                    *)

\* Masking with a constant and moving the bits to distinct places keeps
\* distinct counters distinct.
LEMMA ScrambleInjective ==
  ASSUME NEW m \in DOMAIN Bits, NEW n \in DOMAIN Bits, Scramble(m) = Scramble(n)
  PROVE  m = n
<1>1. ASSUME NEW j \in DOMAIN Bits, NEW b \in Bit
      PROVE  Scramble(j)[IdPerm[b]] <=> b \in Differing(j)
  <2>1. IdPerm[b] \in Bit
    BY PermAssumption
  <2>2. Scramble(j)[IdPerm[b]] = (\E i \in Differing(j) : IdPerm[i] = IdPerm[b])
    BY <2>1 DEF Scramble
  <2> QED BY <2>2, PermAssumption DEF Differing
<1>2. ASSUME NEW b \in Bit PROVE Bits[m][b] = Bits[n][b]
  <2>1. b \in Differing(m) <=> b \in Differing(n)
    BY <1>1
  <2>2. Bits[m][b] \in BOOLEAN /\ Bits[n][b] \in BOOLEAN /\ IdMask[b] \in BOOLEAN
    BY BitsAssumption, PermAssumption
  <2> QED BY <2>1, <2>2 DEF Differing
<1>3. Bits[m] = Bits[n]
  BY <1>2, BitsAssumption
<1> QED BY <1>3, BitsAssumption

-----------------------------------------------------------------------------
(* The invariant of the traffic.                                           *)

\* Every connection has a counter of its own, scrambled.
Numbered ==
  /\ \A p \in Peer : life[p] # "new" =>
       \E n \in DOMAIN Bits : n < nextId /\ id[p] = Scramble(n)
  /\ \A p, q \in Peer : life[p] # "new" /\ life[q] # "new" /\ id[p] = id[q] => p = q

\* What is in the task's hands or in the air is the sender's, and not too long.
Signed ==
  /\ cursor # 0 => /\ life[Self] # "new" /\ packet.from = id[Self]
                   /\ packet.bytes - ServerHeader <= MaxPayload
  /\ \A a \in air : /\ life[Self] # "new" /\ a.data.from = id[Self]
                    /\ a.data.bytes - ServerHeader <= MaxPayload
  /\ \A o \in Listening, q \in Peer : list[o][q] # "unknown" => life[q] # "new"

\* The loop has reached those who stay in the shards it has passed.
Passing ==
  /\ stayed \subseteq members
  /\ Self \notin reached
  /\ \A p \in stayed \ {Self} : cursor = 0 \/ ShardOf[p] < cursor => p \in reached

Inv == LimiterInv /\ TypeOK /\ Numbered /\ Signed /\ Passing /\ AudioAttributed

\* The initial states.
LEMMA InitInv == Init => Inv
<1> SUFFICES ASSUME Init PROVE Inv
  OBVIOUS
<1>1. LimiterInv /\ LimiterTypeOK
  BY LimiterStart DEF Init, LimiterInv
<1>2. TypeOK
  BY <1>1, PlaceAssumption DEF Init, TypeOK, Word, Packet, NoId
<1>3. Numbered /\ Signed /\ Passing /\ AudioAttributed
  BY DEF Init, Numbered, Signed, Passing, AudioAttributed
<1> QED BY <1>1, <1>2, <1>3 DEF Inv


\* A new connection gets an id that no other has.
LEMMA AcceptInv ==
  ASSUME Inv, NEW p \in Peer, Accept(p)
  PROVE  TypeOK' /\ Numbered' /\ Signed' /\ Passing' /\ AudioAttributed'
<1> USE DEF Inv
<1>1. /\ life[p] = "new" /\ nextId \in DOMAIN Bits /\ nextId' = nextId + 1 /\ nextId \in Nat
      /\ life' = [life EXCEPT ![p] = "accepted"]
      /\ id' = [id EXCEPT ![p] = Scramble(nextId)]
      /\ UNCHANGED <<limiterVars, list, task, ear>>
  BY BitsAssumption DEF Accept
<1>2. /\ \A q \in Peer : q # p => life'[q] = life[q] /\ id'[q] = id[q]
      /\ life'[p] = "accepted" /\ id'[p] = Scramble(nextId)
  BY <1>1 DEF TypeOK
<1>3. TypeOK'
  <2>1. Scramble(nextId) \in Word
    BY DEF Scramble, Word
  <2> QED BY <1>1, <2>1 DEF TypeOK, LimiterTypeOK, limiterVars, task, ear
<1>4. Numbered'
  <2>1. ASSUME NEW q \in Peer, life'[q] # "new"
        PROVE  \E n \in DOMAIN Bits : n < nextId' /\ id'[q] = Scramble(n)
    <3>1. CASE q = p
      BY <1>1, <1>2, <3>1
    <3>2. CASE q # p
      <4>1. PICK n \in DOMAIN Bits : n < nextId /\ id[q] = Scramble(n)
        BY <1>2, <2>1, <3>2 DEF Numbered
      <4> QED BY <1>1, <1>2, <3>2, <4>1, BitsAssumption
    <3> QED BY <3>1, <3>2
  <2>2. ASSUME NEW q \in Peer, q # p, life[q] # "new" PROVE id[q] # Scramble(nextId)
    <3>1. PICK n \in DOMAIN Bits : n < nextId /\ id[q] = Scramble(n)
      BY <2>2 DEF Numbered
    <3>2. n \in Nat /\ n # nextId
      BY <1>1, <3>1, BitsAssumption
    <3> QED BY <1>1, <3>1, <3>2, ScrambleInjective
  <2>3. ASSUME NEW q \in Peer, NEW r \in Peer, life'[q] # "new", life'[r] # "new", id'[q] = id'[r]
        PROVE  q = r
    <3>1. CASE q = p \/ r = p
      BY <1>2, <2>2, <2>3, <3>1
    <3>2. CASE q # p /\ r # p
      BY <1>2, <2>3, <3>2 DEF Numbered
    <3> QED BY <3>1, <3>2
  <2> QED BY <2>1, <2>3 DEF Numbered
<1>5. Signed'
  <2>1. cursor' = cursor /\ packet' = packet /\ air' = air /\ list' = list
    BY <1>1 DEF task, ear
  <2>2. CASE p = Self
    <3>1. cursor = 0 /\ air = {}
      BY <1>1, <2>2 DEF Signed
    <3> QED BY <1>2, <2>1, <3>1 DEF Signed
  <2>3. CASE p # Self
    BY <1>2, <2>1, <2>3, PlaceAssumption DEF Signed
  <2> QED BY <2>2, <2>3
<1>6. Passing'
  <2>1. members' = members
    BY <1>1, <1>2 DEF members
  <2> QED BY <1>1, <2>1 DEF Passing, task
<1>7. AudioAttributed'
  BY <1>1 DEF AudioAttributed, ear
<1> QED BY <1>3, <1>4, <1>5, <1>6, <1>7

\* Who comes or goes in the room keeps its id, and is not one who stays.
LEMMA MoveInv ==
  ASSUME Inv, LimiterTypeOK', NEW p \in Peer, Insert(p) \/ Remove(p)
  PROVE  TypeOK' /\ Numbered' /\ Signed' /\ Passing' /\ AudioAttributed'
<1> USE DEF Inv
<1>1. /\ life[p] # "new"
      /\ \/ life' = [life EXCEPT ![p] = "member"] /\ stayed' = stayed
         \/ life' = [life EXCEPT ![p] = "left"] /\ stayed' = stayed \ {p}
      /\ UNCHANGED <<nextId, id, list, cursor, packet, sent, reached, air, heard>>
  BY DEF Insert, Remove, task, ear
<1>2. /\ \A q \in Peer : q # p => life'[q] = life[q]
      /\ life'[p] # "new"
  BY <1>1 DEF TypeOK
<1>3. TypeOK'
  BY <1>1 DEF TypeOK
<1>4. Numbered'
  BY <1>1, <1>2 DEF Numbered
<1>5. Signed'
  BY <1>1, <1>2, PlaceAssumption DEF Signed
<1>6. Passing'
  BY <1>1, <1>2 DEF Passing, members, TypeOK
<1>7. AudioAttributed'
  BY <1>1 DEF AudioAttributed
<1> QED BY <1>3, <1>4, <1>5, <1>6, <1>7

\* A client learns of connections only.
LEMMA LearnInv ==
  ASSUME Inv, NEW o \in Listening, NEW q \in Peer, Learn(o, q)
  PROVE  TypeOK' /\ Numbered' /\ Signed' /\ Passing' /\ AudioAttributed'
<1> USE DEF Inv
<1>1. /\ life[q] # "new"
      /\ \/ list' = [list EXCEPT ![o][q] = "known"]
         \/ list' = [list EXCEPT ![o][q] = "gone"]
      /\ UNCHANGED <<limiterVars, nextId, life, id, cursor, packet, sent, stayed,
                     reached, air, heard>>
  BY DEF Learn, task, ear
<1>2. /\ list' \in [Listening -> [Peer -> {"unknown", "known", "gone"}]]
      /\ \A u \in Listening, r \in Peer : u # o \/ r # q => list'[u][r] = list[u][r]
  <2>1. ASSUME NEW s \in {"known", "gone"}, list' = [list EXCEPT ![o][q] = s]
        PROVE  /\ list' \in [Listening -> [Peer -> {"unknown", "known", "gone"}]]
               /\ \A u \in Listening, r \in Peer : u # o \/ r # q => list'[u][r] = list[u][r]
    <3>1. list' = [list EXCEPT ![o] = [list[o] EXCEPT ![q] = s]]
      BY <2>1
    <3>2. list[o] \in [Peer -> {"unknown", "known", "gone"}]
      BY DEF TypeOK
    <3>3. [list[o] EXCEPT ![q] = s] \in [Peer -> {"unknown", "known", "gone"}]
      BY <3>2
    <3> QED BY <3>1, <3>2, <3>3 DEF TypeOK
  <2> QED BY <1>1, <2>1
<1>3. TypeOK'
  BY <1>1, <1>2 DEF TypeOK, LimiterTypeOK, limiterVars
<1>4. Numbered' /\ Passing' /\ AudioAttributed'
  BY <1>1 DEF Numbered, Passing, AudioAttributed, members
<1>5. Signed'
  BY <1>1, <1>2 DEF Signed
<1> QED BY <1>3, <1>4, <1>5

\* A datagram that is read has the sender's id from then on, and leaves the
\* loop with every shard before it.
LEMMA ReadInv ==
  ASSUME Inv, LimiterTypeOK', NEW n \in Sizes, Reject(n) \/ Forward(n)
  PROVE  TypeOK' /\ Numbered' /\ Signed' /\ Passing' /\ AudioAttributed'
<1> USE DEF Inv
<1>1. /\ life[Self] # "new" /\ cursor = 0
      /\ sent > 0 /\ sent' = sent - 1
      /\ UNCHANGED <<nextId, life, id, list, air, heard>>
      /\ n \in Nat
  BY PlaceAssumption DEF Reject, Forward, Read, room, ear
<1>2. Numbered' /\ AudioAttributed'
  BY <1>1 DEF Numbered, AudioAttributed
<1>3. CASE Reject(n)
  <2>1. UNCHANGED <<cursor, packet, stayed, reached>>
    BY <1>3 DEF Reject
  <2>2. TypeOK'
    BY <1>1, <2>1, PlaceAssumption DEF TypeOK
  <2>3. Signed' /\ Passing'
    BY <1>1, <2>1 DEF Signed, Passing, members
  <2> QED BY <1>2, <2>2, <2>3
<1>4. CASE Forward(n)
  <2>1. /\ packet' = [from |-> id[Self], bytes |-> n - ClientHeader + ServerHeader]
        /\ cursor' = 1 /\ stayed' = members /\ reached' = {}
        /\ n >= ClientHeader /\ n <= MaxPacket
    BY <1>1, <1>4, LimitAssumption DEF Forward, Pass, Count, Oversized
  <2>2. packet' \in Packet
    BY <1>1, <2>1, PlaceAssumption DEF Packet, TypeOK, Word, ClientHeader, ServerHeader
  <2>3. TypeOK'
    BY <1>1, <2>1, <2>2, PlaceAssumption DEF TypeOK, members
  <2>4. packet'.bytes - ServerHeader <= MaxPayload
    BY <1>1, <2>1, LimitAssumption DEF ClientHeader, ServerHeader, MaxPayload
  <2>5. Signed'
    BY <1>1, <2>1, <2>4 DEF Signed
  <2>6. Passing'
    <3>1. members' = members
      BY <1>1 DEF members
    <3>2. \A p \in Peer : ~(ShardOf[p] < 1)
      BY PlaceAssumption
    <3> QED BY <2>1, <3>1, <3>2 DEF Passing, members
  <2> QED BY <1>2, <2>3, <2>5, <2>6
<1> QED BY <1>3, <1>4

\* The loop passes a shard: all that stay there have another id.
LEMMA SendInv ==
  ASSUME Inv, SendShard
  PROVE  TypeOK' /\ Numbered' /\ Signed' /\ Passing' /\ AudioAttributed'
<1> USE DEF Inv
<1>1. /\ cursor # 0 /\ cursor' = NextShard
      /\ reached' = reached \cup Others(cursor)
      /\ air' = air \cup Copies(Others(cursor))
      /\ UNCHANGED <<limiterVars, nextId, life, id, list, packet, sent, stayed, heard>>
  BY DEF SendShard, room
<1>2. Others(cursor) \subseteq Peer \ {Self}
  BY DEF Others, InShard, members
<1>3. TypeOK'
  <2>1. cursor' \in 0..NShards
    BY <1>1, PlaceAssumption DEF NextShard, TypeOK
  <2>2. Copies(Others(cursor)) \subseteq [to : Listening, data : Packet]
    BY DEF Copies, TypeOK
  <2> QED BY <1>1, <1>2, <2>1, <2>2 DEF TypeOK, LimiterTypeOK, limiterVars
<1>4. Numbered' /\ AudioAttributed'
  BY <1>1 DEF Numbered, AudioAttributed
<1>5. Signed'
  BY <1>1 DEF Signed, Copies
<1>6. Passing'
  <2>1. members' = members
    BY <1>1 DEF members
  <2>2. ASSUME NEW p \in stayed, p # Self, cursor' = 0 \/ ShardOf[p] < cursor'
        PROVE  p \in reached'
    <3>1. p \in members /\ p \in Peer /\ life[p] # "new" /\ ShardOf[p] \in 1..NShards
      BY PlaceAssumption DEF Passing, members
    <3>2. cursor \in Nat /\ NShards \in Nat /\ cursor <= NShards
      BY PlaceAssumption DEF TypeOK
    <3>3. ShardOf[p] <= cursor
      BY <1>1, <2>2, <3>1, <3>2 DEF NextShard
    <3>4. CASE ShardOf[p] < cursor
      BY <1>1, <2>2, <3>4 DEF Passing
    <3>5. CASE ShardOf[p] = cursor
      <4>1. id[p] # id[Self]
        BY <1>1, <2>2, <3>1, PlaceAssumption DEF Numbered, Signed
      <4> QED BY <1>1, <3>1, <3>5, <4>1 DEF Others, InShard
    <3> QED BY <3>1, <3>2, <3>3, <3>4, <3>5
  <2> QED BY <1>1, <1>2, <2>1, <2>2 DEF Passing
<1> QED BY <1>3, <1>4, <1>5, <1>6

\* A listener finds the sender by its id, or nobody.
LEMMA AirInv ==
  ASSUME Inv, NEW a \in air, Lose(a) \/ Hear(a)
  PROVE  TypeOK' /\ Numbered' /\ Signed' /\ Passing' /\ AudioAttributed'
<1> USE DEF Inv
<1>1. /\ air' = air \ {a}
      /\ UNCHANGED <<limiterVars, nextId, life, id, list, cursor, packet, sent, stayed, reached>>
  BY DEF Lose, Hear, room, task
<1>2. heard' = heard \/ heard' = [heard EXCEPT ![a.to] = [from |-> Self, as |-> Self]]
  <2>1. CASE Lose(a)
    BY <2>1 DEF Lose
  <2>2. CASE Hear(a)
    <3>1. CASE UNCHANGED heard
      BY <3>1
    <3>2. CASE \E q \in Peer : /\ list[a.to][q] = "known" /\ id[q] = a.data.from
                               /\ heard' = [heard EXCEPT ![a.to] = [from |-> Self, as |-> q]]
      <4>1. PICK q \in Peer : /\ list[a.to][q] = "known" /\ id[q] = a.data.from
                              /\ heard' = [heard EXCEPT ![a.to] = [from |-> Self, as |-> q]]
        BY <3>2
      <4>2. a.to \in Listening
        BY DEF TypeOK
      <4>3. q = Self
        BY <4>1, <4>2, PlaceAssumption DEF Numbered, Signed
      <4> QED BY <4>1, <4>3
    <3> QED BY <2>2, <3>1, <3>2 DEF Hear
  <2> QED BY <2>1, <2>2
<1>3. TypeOK'
  BY <1>1, <1>2, PlaceAssumption DEF TypeOK, LimiterTypeOK, limiterVars
<1>4. Numbered' /\ Signed' /\ Passing'
  BY <1>1 DEF Numbered, Signed, Passing, members
<1>5. AudioAttributed'
  BY <1>2 DEF AudioAttributed, TypeOK
<1> QED BY <1>3, <1>4, <1>5

\* Every step preserves the invariant.
LEMMA InvNext == Inv /\ [Next]_vars => Inv'
<1> SUFFICES ASSUME Inv, [Next]_vars PROVE Inv'
  OBVIOUS
<1>1. LimiterInv' /\ LimiterTypeOK'
  BY LimiterStep, LimiterInvNext DEF Inv, LimiterInv
<1>2. TypeOK' /\ Numbered' /\ Signed' /\ Passing' /\ AudioAttributed'
  <2>1. CASE \E p \in Peer : Accept(p) \/ Insert(p) \/ Remove(p)
    BY <1>1, <2>1, AcceptInv, MoveInv
  <2>2. CASE \E o \in Listening, q \in Peer : Learn(o, q)
    BY <2>2, LearnInv
  <2>3. CASE \E n \in Sizes : Reject(n) \/ Forward(n)
    BY <1>1, <2>3, ReadInv
  <2>4. CASE SendShard
    BY <2>4, SendInv
  <2>5. CASE \E a \in air : Lose(a) \/ Hear(a)
    BY <2>5, AirInv
  <2>6. CASE Pause \/ UNCHANGED vars
    <3>1. UNCHANGED <<nextId, life, id, list, cursor, packet, sent, stayed, reached, air, heard>>
      BY <2>6 DEF Pause, vars, room, task, ear
    <3>2. TypeOK'
      BY <1>1, <3>1 DEF Inv, TypeOK
    <3> QED BY <3>1, <3>2 DEF Inv, Numbered, Signed, Passing, AudioAttributed, members
  <2> QED BY <2>1, <2>2, <2>3, <2>4, <2>5, <2>6 DEF Next
<1> QED BY <1>1, <1>2 DEF Inv

\* The inductive invariant of the traffic.
THEOREM TrafficInvariant == Spec => []Inv
<1>1. Init => Inv
  BY InitInv
<1>2. Inv /\ [Next]_vars => Inv'
  BY InvNext
<1> QED BY <1>1, <1>2, PTL DEF Spec

\* The variables keep their types.
THEOREM TrafficTypeCorrect == Spec => []TypeOK
<1>1. Inv => TypeOK
  BY DEF Inv
<1> QED BY <1>1, TrafficInvariant, PTL

\* A packet reaches every other member that stays while it is sent, and never
\* its sender, for any number of connections and shards.
THEOREM FanoutComplete == Spec => []FanoutReachesStayers
<1>1. Inv => FanoutReachesStayers
  BY DEF Inv, Passing, FanoutReachesStayers
<1> QED BY <1>1, TrafficInvariant, PTL

\* No listener takes somebody's audio for another's: ids differ, whatever the
\* random mask and order of the bits.
THEOREM AttributionCorrect == Spec => []AudioAttributed
<1>1. Inv => AudioAttributed
  BY DEF Inv
<1> QED BY <1>1, TrafficInvariant, PTL

\* Nothing the relay lets through is too large for a listener.
THEOREM PacketsFit == Spec => []FitsListener
<1>1. Inv => FitsListener
  BY DEF Inv, Signed, FitsListener
<1> QED BY <1>1, TrafficInvariant, PTL

=============================================================================
