---------------------------- MODULE AudioLimiter ----------------------------
(***************************************************************************)
(* The size and rate limits the relay puts on the audio of one connection  *)
(* (libs/proxa-relay-server/src/lib.rs, 266-291).                          *)
(*                                                                         *)
(* A window of a second starts with the first datagram that comes a second *)
(* or more after the start of the last one; nothing ends it before.  Every *)
(* datagram of a window is counted, also one that is dropped for being     *)
(* over the limit.                                                         *)
(***************************************************************************)
EXTENDS Integers

CONSTANTS
  MaxPacket,   \* MAX_AUDIO_PACKET_SIZE: 1200 bytes
  Limit,       \* PEER_BITRATE_LIMIT: 93750 bytes
  Window,      \* a second, in ticks of the clock
  MaxTime      \* bound: ticks of the clock

ASSUME LimitAssumption ==
  MaxPacket \in Nat /\ Limit \in Nat /\ Window \in Nat \ {0} /\ MaxTime \in Nat

VARIABLES
  now,         \* the clock
  lastReset,   \* last_reset
  recent,      \* bytes_sent_recent
  arrived,     \* bytes the limiter has seen (history)
  passed,      \* bytes it has let through (history)
  base,        \* passed when the window started (history)
  arrivedAt,   \* arrived and passed at the start of each tick so far (history)
  passedAt

limiterVars == <<now, lastReset, recent, arrived, passed, base, arrivedAt, passedAt>>

Time == 0..MaxTime

LimiterTypeOK ==
  /\ now \in Time /\ lastReset \in 0..now
  /\ recent \in Nat /\ arrived \in Nat /\ passed \in Nat /\ base \in Nat
  /\ arrivedAt \in [Time -> Nat] /\ passedAt \in [Time -> Nat]

LimiterInit ==
  /\ now = 0 /\ lastReset = 0 /\ recent = 0
  /\ arrived = 0 /\ passed = 0 /\ base = 0
  /\ arrivedAt = [t \in Time |-> 0] /\ passedAt = [t \in Time |-> 0]

\* The clock goes on.
Tick ==
  /\ now < MaxTime
  /\ now' = now + 1
  /\ arrivedAt' = [arrivedAt EXCEPT ![now + 1] = arrived]
  /\ passedAt'  = [passedAt EXCEPT ![now + 1] = passed]
  /\ UNCHANGED <<lastReset, recent, arrived, passed, base>>

\* The task starts, with a window.
StartWindow ==
  /\ arrived = 0 /\ passed = 0 /\ base = 0
  /\ lastReset' = now /\ recent' = 0
  /\ UNCHANGED <<now, arrived, passed, base, arrivedAt, passedAt>>

\* Mistake (FitsListener): no limit on the size.
OversizedNever(n) == FALSE

Oversized(n) == n > MaxPacket

Elapsed == now - lastReset >= Window

\* Mistake (WithinLimitPasses): the count goes on from window to window.
TotalOfAll(n) == recent + n

\* The bytes of the window with a datagram of n more.
Total(n) == (IF Elapsed THEN 0 ELSE recent) + n

\* A datagram of an acceptable size is counted.
Count(n) ==
  /\ ~Oversized(n)
  /\ recent' = Total(n)
  /\ lastReset' = IF Elapsed THEN now ELSE lastReset
  /\ base' = IF Elapsed THEN passed ELSE base
  /\ arrived' = arrived + n
  /\ UNCHANGED <<now, arrivedAt, passedAt>>

\* Mistake (LimiterBound): the limit is checked before the datagram counts.
WithinLimitBefore(n) == Total(n) - n <= Limit

WithinLimit(n) == Total(n) <= Limit

Drop(n) == Count(n) /\ ~WithinLimit(n) /\ UNCHANGED passed
Pass(n) == Count(n) /\ WithinLimit(n) /\ passed' = passed + n

LimiterNext == Tick \/ StartWindow \/ \E n \in Nat : Drop(n) \/ Pass(n)
LimiterSpec == LimiterInit /\ [][LimiterNext]_limiterVars

-----------------------------------------------------------------------------
(* Properties.                                                             *)

\* The ticks of the second that ends now.
LastSecond == {t \in Time : t <= now /\ now - t < Window}

\* However long a client sends and wherever one starts to count, no more passes
\* than the limit for each second that has gone by, and two of them besides: a
\* window starts late but never early, so a stretch of time that ends now has
\* parts of two windows more than it has whole seconds, at most.
LimiterBound ==
  \A t \in Time : t <= now =>
    passed - passedAt[t] <= Limit * ((now - t) \div Window + 2)

\* So in no second, wherever it starts, does more than twice the limit pass.
SecondBound == \A t \in LastSecond : passed - passedAt[t] <= 2 * Limit

\* A client that keeps to the limit in every second loses nothing to it: what
\* is dropped came at the end of a second that brought more.
WithinLimitPasses ==
  [][arrived' # arrived /\ passed' = passed =>
       \E t \in LastSecond : arrived' - arrivedAt[t] > Limit]_limiterVars

=============================================================================
