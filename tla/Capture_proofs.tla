--------------------------- MODULE Capture_proofs ---------------------------
(***************************************************************************)
(* Proofs about the capture path, for any length of frames and bursts, any *)
(* number of switches and any models.                                      *)
(***************************************************************************)
EXTENDS Capture, SequenceTheorems, TLAPS

-----------------------------------------------------------------------------
(* The noise engine.                                                       *)

\* A load is under way exactly while the flag says so, there is no engine
\* meanwhile, and it is of the path that is set unless that was set since.
NoiseInv ==
  /\ NoiseTypeOK
  /\ busy <=> loading # NoModel
  /\ loading # NoModel => engine = NoModel
  /\ ~overtaken => /\ loading # NoModel => path = loading
                   /\ engine # NoModel => path = engine
                   /\ kept.engine = kept.path

\* The steps of the noise engine preserve it; an engine that is kept again
\* replaces the one that was.
LEMMA NoiseInvNext ==
  ASSUME NoiseInv,
         \/ \E b \in BOOLEAN : SetMethod(b)
         \/ \E p \in Models : LoadModels(p) /\ kept.engine = kept.path
         \/ ProcessNoise \/ LoadDone \/ LoadFails \/ Keep \/ SameNoise
  PROVE  NoiseInv'
<1> USE ModelAssumption DEF NoiseInv, NoiseTypeOK, Option, Pair
<1>1. CASE \E b \in BOOLEAN : SetMethod(b)
  BY <1>1 DEF SetMethod
<1>2. CASE \E p \in Models : LoadModels(p) /\ kept.engine = kept.path
  BY <1>2 DEF LoadModels
<1>3. CASE ProcessNoise
  BY <1>3 DEF ProcessNoise, NeedsLoad
<1>4. CASE LoadDone
  BY <1>4 DEF LoadDone
<1>5. CASE LoadFails
  BY <1>5 DEF LoadFails
<1>6. CASE Keep
  BY <1>6 DEF Keep
<1>7. CASE SameNoise
  BY <1>7 DEF SameNoise, noise
<1> QED BY <1>1, <1>2, <1>3, <1>4, <1>5, <1>6, <1>7

-----------------------------------------------------------------------------
(* Samples.                                                                *)

\* Division leaves a remainder below the divisor.
LEMMA Quotient ==
  ASSUME NEW n \in Nat, NEW d \in Nat \ {0}
  PROVE  n \div d \in Nat /\ (n \div d) * d <= n /\ n - (n \div d) * d < d
OBVIOUS

\* The k-th of several stretches of length d ends d after it begins.
LEMMA Stretch ==
  ASSUME NEW k \in Nat \ {0}, NEW d \in Nat \ {0}
  PROVE  k * d \in Nat /\ (k - 1) * d \in Nat /\ k * d = (k - 1) * d + d
OBVIOUS

\* A smaller multiple is smaller.
LEMMA Times ==
  ASSUME NEW k \in Nat, NEW n \in Nat, NEW d \in Nat \ {0}, k <= n
  PROVE  k * d <= n * d
OBVIOUS

\* An even offset keeps the parity.
LEMMA Parity ==
  ASSUME NEW n \in Nat, NEW i \in Nat, n % 2 = 0
  PROVE  (n + i) % 2 = i % 2
OBVIOUS

\* What is interleaved for a number of channels is whole frames of it.
LEMMA InterleavedWhole ==
  ASSUME NEW c \in {1, 2}, NEW n \in Nat
  PROVE  /\ Interleaved(c, n) \in Seq(Sample)
         /\ Len(Interleaved(c, n)) = c * n
         /\ Whole(c, Interleaved(c, n))
<1>1. c * n \in Nat /\ (c * n) % c = 0
  OBVIOUS
<1>2. \A i \in 1..(c * n) : ChannelOf(c, i) \in Sample
  BY DEF ChannelOf, Sample
<1>3. Interleaved(c, n) \in Seq(Sample) /\ Len(Interleaved(c, n)) = c * n
  BY <1>1, <1>2 DEF Interleaved
<1>4. Fits(c, Interleaved(c, n))
  BY DEF Fits, Interleaved
<1> QED BY <1>1, <1>3, <1>4 DEF Whole

\* A mixture is samples, and says that it is mixed unless it is empty.
LEMMA MixedIsMixed ==
  ASSUME NEW c \in {1, 2}, NEW n \in Nat, NEW d \in {1, 2}
  PROVE  /\ Mixed(c, n) \in Seq(Sample)
         /\ IsMixed(Mixed(c, n)) \/ Whole(d, Mixed(c, n))
<1>1. c * n \in Nat
  OBVIOUS
<1>2. Mixed(c, n) \in Seq(Sample) /\ Len(Mixed(c, n)) = c * n
  BY <1>1 DEF Mixed, Sample
<1>3. CASE c * n = 0
  BY <1>2, <1>3 DEF Mixed, Whole, Fits
<1>4. CASE c * n # 0
  <2>1. 1 \in DOMAIN Mixed(c, n) /\ Mixed(c, n)[1] = "mixed"
    BY <1>1, <1>4 DEF Mixed
  <2> QED BY <1>2, <2>1 DEF IsMixed
<1> QED BY <1>3, <1>4

\* A sample an even number of places on belongs to the same channel; in mono
\* any number.
LEMMA ChannelShift ==
  ASSUME NEW c \in {1, 2}, NEW k \in Nat, k % c = 0, NEW i \in Nat
  PROVE  ChannelOf(c, k + i) = ChannelOf(c, i)
BY Parity DEF ChannelOf

\* Whole frames after whole frames are whole frames.
LEMMA WholeConcat ==
  ASSUME NEW c \in {1, 2}, NEW s \in Seq(Sample), NEW t \in Seq(Sample),
         Whole(c, s), Whole(c, t)
  PROVE  Whole(c, s \o t)
<1>1. Len(s \o t) = Len(s) + Len(t) /\ DOMAIN (s \o t) = 1..(Len(s) + Len(t))
  OBVIOUS
<1>2. (Len(s) + Len(t)) % c = 0
  BY Parity DEF Whole
<1>3. ASSUME NEW i \in 1..(Len(s) + Len(t))
      PROVE  (s \o t)[i] = ChannelOf(c, i)
  <2>1. CASE i <= Len(s)
    BY <2>1 DEF Whole, Fits
  <2>2. CASE i > Len(s)
    <3>1. i - Len(s) \in DOMAIN t /\ (s \o t)[i] = t[i - Len(s)]
      BY <2>2
    <3>2. t[i - Len(s)] = ChannelOf(c, i - Len(s))
      BY <3>1 DEF Whole, Fits
    <3>3. ChannelOf(c, Len(s) + (i - Len(s))) = ChannelOf(c, i - Len(s))
      <4>1. Len(s) \in Nat /\ Len(s) % c = 0 /\ i - Len(s) \in Nat
        BY <2>2 DEF Whole
      <4> QED BY <4>1, ChannelShift
    <3>4. Len(s) + (i - Len(s)) = i
      OBVIOUS
    <3> QED BY <3>1, <3>2, <3>3, <3>4
  <2> QED BY <2>1, <2>2
<1> QED BY <1>1, <1>2, <1>3 DEF Whole, Fits

\* Whole frames without the first of them are whole frames.
LEMMA WholeRest ==
  ASSUME NEW c \in {1, 2}, NEW s \in Seq(Sample), NEW k \in 0..Len(s),
         Whole(c, s), k % c = 0
  PROVE  Whole(c, SubSeq(s, k + 1, Len(s)))
<1> DEFINE r == SubSeq(s, k + 1, Len(s))
<1>1. Len(r) = Len(s) - k /\ DOMAIN r = 1..(Len(s) - k)
  OBVIOUS
<1>2. (Len(s) - k) % c = 0
  BY DEF Whole
<1>3. ASSUME NEW i \in 1..(Len(s) - k)
      PROVE  r[i] = ChannelOf(c, i)
  <2>1. r[i] = s[k + i] /\ k + i \in DOMAIN s
    OBVIOUS
  <2>2. s[k + i] = ChannelOf(c, k + i)
    BY <2>1 DEF Whole, Fits
  <2>3. ChannelOf(c, k + i) = ChannelOf(c, i)
    <3>1. k \in Nat /\ i \in Nat
      OBVIOUS
    <3> QED BY <3>1, ChannelShift
  <2> QED BY <2>1, <2>2, <2>3
<1> QED BY <1>1, <1>2, <1>3 DEF Whole, Fits

-----------------------------------------------------------------------------
(* The invariant.                                                          *)

\* The resampler's buffer holds less than one of its steps.
BufferInv ==
  IF resampler = NoSampler
    THEN hwBuf = <<>>
    ELSE Len(hwBuf) < resampler.channels * resampler.frames

\* With the properties: an engine is kept only once the application has let
\* go, and the two places that hold the channels agree outside set_channels.
CaptureInv ==
  /\ TypeOK /\ NoiseInv
  /\ open => kept.engine = kept.path
  /\ ~switching => channels = encode
  /\ BufferInv
  /\ FreshFits /\ NoBacklog /\ AlignedUnlessStale

\* What the callback is about to push.
Heard == Interleaved(callback.channels, callback.frames)

\* A chunk that has the encoder's layout, if it is fresh, unless it is mixed.
Sound(m) == m \in Chunk /\ (m.fresh => IsMixed(m.data) \/ Whole(encode, m.data))

\* A callback under way holds samples of its channels.
LEMMA HeardWhole ==
  ASSUME CaptureInv, callback # Quiet
  PROVE  /\ callback.channels \in {1, 2} /\ callback.frames \in Nat \ {0, 1}
         /\ callback.fresh \in BOOLEAN
         /\ Heard \in Seq(Sample)
         /\ Len(Heard) = callback.channels * callback.frames
         /\ Whole(callback.channels, Heard)
<1>1. /\ callback.channels \in {1, 2} /\ callback.frames \in Nat \ {0, 1}
      /\ callback.fresh \in BOOLEAN
  BY CaptureAssumption DEF CaptureInv, TypeOK
<1> QED BY <1>1, InterleavedWhole DEF Heard

\* Sound chunks at the end of the queue keep what holds of it.
LEMMA QueueGrows ==
  ASSUME CaptureInv, NEW new \in Seq(Chunk), \A i \in DOMAIN new : Sound(new[i]),
         queue' = queue \o new, encode' = encode
  PROVE  /\ queue' \in Seq(Chunk)
         /\ \A i \in DOMAIN queue' :
              queue'[i].fresh => IsMixed(queue'[i].data) \/ Whole(encode', queue'[i].data)
<1>1. queue \in Seq(Chunk)
  BY DEF CaptureInv, TypeOK
<1>2. ASSUME NEW i \in DOMAIN queue'
      PROVE  queue'[i].fresh => IsMixed(queue'[i].data) \/ Whole(encode', queue'[i].data)
  <2>1. CASE i <= Len(queue)
    <3>1. i \in DOMAIN queue /\ queue'[i] = queue[i]
      BY <1>1, <2>1
    <3> QED BY <3>1 DEF CaptureInv, FreshFits
  <2>2. CASE i > Len(queue)
    <3>1. i - Len(queue) \in DOMAIN new /\ queue'[i] = new[i - Len(queue)]
      BY <1>1, <2>2
    <3> QED BY <3>1 DEF Sound
  <2> QED BY <1>1, <2>1, <2>2
<1>3. queue' \in Seq(Chunk)
  BY <1>1
<1> QED BY <1>2, <1>3

\* The last sample of a stretch of n.
LEMMA LastOfStretch ==
  ASSUME NEW s \in Seq(Sample), NEW l \in Nat, NEW n \in Nat \ {0}, l + n <= Len(s)
  PROVE  /\ Len(SubSeq(s, l + 1, l + n)) = n
         /\ n \in DOMAIN SubSeq(s, l + 1, l + n)
         /\ SubSeq(s, l + 1, l + n)[n] = s[l + n]
OBVIOUS

\* Where the second of two sequences goes on.
LEMMA SecondPart ==
  ASSUME NEW s \in Seq(Sample), NEW t \in Seq(Sample), NEW j \in 1..Len(t)
  PROVE  (s \o t)[Len(s) + j] = t[j]
OBVIOUS

\* What a resampler of r takes for its own channels ends with the burst that
\* completed it, so it is of the channels of that burst.
LEMMA StepOfBurst ==
  ASSUME NEW r \in [channels : {1, 2}, frames : Nat \ {0}],
         NEW old \in Seq(Sample), Len(old) < r.channels * r.frames,
         NEW c \in {1, 2}, NEW f \in Nat,
         NEW k \in Nat \ {0}, k * (r.channels * r.frames) <= Len(old) + c * f,
         Fits(r.channels, SubSeq(old \o Interleaved(c, f),
                                 (k - 1) * (r.channels * r.frames) + 1,
                                 k * (r.channels * r.frames)))
  PROVE  r.channels = c
<1> DEFINE size  == r.channels * r.frames
           lo    == (k - 1) * size
           hi    == k * size
           burst == Interleaved(c, f)
           heard == old \o burst
           input == SubSeq(heard, lo + 1, hi)
<1>1. size \in Nat \ {0} /\ hi <= Len(old) + c * f /\ Len(old) < size
  OBVIOUS
<1>2. Fits(r.channels, input)
  OBVIOUS
<1>3. hi \in Nat /\ lo \in Nat /\ hi = lo + size
  <2> HIDE DEF size
  <2> QED BY <1>1, Stretch
<1>4. burst \in Seq(Sample) /\ Len(burst) = c * f
  BY InterleavedWhole
<1>5. c * f \in Nat /\ \A i \in 1..(c * f) : burst[i] = ChannelOf(c, i)
  BY DEF Interleaved
<1> HIDE DEF size, lo, hi, burst
<1>6. heard \in Seq(Sample) /\ Len(heard) = Len(old) + c * f
  BY <1>4
<1>7. Len(input) = size /\ size \in DOMAIN input /\ input[size] = heard[hi]
  <2>1. lo + size <= Len(heard)
    BY <1>1, <1>3, <1>6
  <2> HIDE DEF heard
  <2> QED BY <2>1, <1>1, <1>3, <1>6, LastOfStretch
<1>8. hi - Len(old) \in 1..(c * f) /\ heard[hi] = burst[hi - Len(old)]
  <2>1. hi - Len(old) \in 1..Len(burst)
    <3>1. Len(old) \in Nat /\ Len(burst) \in Nat /\ hi <= Len(old) + Len(burst)
      BY <1>1, <1>4
    <3>2. hi >= size /\ size > Len(old) /\ size \in Nat
      BY <1>1, <1>3
    <3> QED BY <3>1, <3>2, <1>3
  <2>2. heard[hi] = burst[hi - Len(old)]
    <3>1. Len(old) \in Nat /\ Len(old) + (hi - Len(old)) = hi
      BY <1>3
    <3>2. heard[Len(old) + (hi - Len(old))] = burst[hi - Len(old)]
      BY <2>1, <1>4, SecondPart
    <3> QED BY <3>1, <3>2
  <2> QED BY <2>1, <2>2, <1>4
<1>9. ChannelOf(r.channels, size) = ChannelOf(c, hi - Len(old))
  <2>1. input[size] = ChannelOf(r.channels, size)
    BY <1>2, <1>7 DEF Fits
  <2> QED BY <2>1, <1>5, <1>7, <1>8
<1> QED BY <1>9 DEF ChannelOf

\* The resampler there is, or the one that is made, has channels and a step.
LEMMA SamplerKnown ==
  ASSUME CaptureInv, callback # Quiet
  PROVE  /\ Sampler \in [channels : {1, 2}, frames : Nat \ {0}]
         /\ Sampler # NoSampler
         /\ Len(hwBuf) < Sampler.channels * Sampler.frames
<1>1. /\ callback.channels \in {1, 2} /\ callback.frames \in Nat \ {0, 1}
      /\ channels \in {1, 2}
      /\ resampler \in {NoSampler} \cup [channels : {1, 2}, frames : Nat \ {0}]
  BY HeardWhole DEF CaptureInv, TypeOK
<1>2. CASE resampler = NoSampler
  <2> DEFINE m == (callback.frames * callback.channels) \div channels
  <2>1. m \in Nat \ {0}
    BY <1>1
  <2>2. Sampler = [channels |-> channels, frames |-> m]
    BY <1>2 DEF Sampler
  <2>3. Len(hwBuf) = 0
    BY <1>2 DEF CaptureInv, BufferInv
  <2> HIDE DEF m
  <2>4. channels * m > 0
    BY <1>1, <2>1
  <2> QED BY <1>1, <2>1, <2>2, <2>3, <2>4 DEF NoSampler
<1>3. CASE resampler # NoSampler
  BY <1>1, <1>3 DEF Sampler, CaptureInv, BufferInv
<1> QED BY <1>2, <1>3

\* A step of the resampler yields a sound chunk.
LEMMA StepSound ==
  ASSUME CaptureInv, callback # Quiet, NEW n \in Nat, NEW k \in Nat \ {0},
         k * (Sampler.channels * Sampler.frames) <= Len(hwBuf \o Heard)
  PROVE  LET size == Sampler.channels * Sampler.frames
         IN  Sound([data  |-> Step(Sampler, SubSeq(hwBuf \o Heard, (k - 1) * size + 1, k * size), n),
                    fresh |-> callback.fresh])
<1> DEFINE r     == Sampler
           size  == r.channels * r.frames
           input == SubSeq(hwBuf \o Heard, (k - 1) * size + 1, k * size)
<1>1. r \in [channels : {1, 2}, frames : Nat \ {0}] /\ Len(hwBuf) < size
  BY SamplerKnown
<1>2. /\ callback.channels \in {1, 2} /\ callback.frames \in Nat
      /\ callback.fresh \in BOOLEAN /\ Heard \in Seq(Sample)
      /\ Len(Heard) = callback.channels * callback.frames
  BY HeardWhole
<1>3. hwBuf \in Seq(Sample) /\ encode \in {1, 2}
      /\ (callback.fresh => callback.channels = encode)
  BY DEF CaptureInv, TypeOK, FreshFits
<1>4. CASE Fits(r.channels, input)
  <2>1. k * size <= Len(hwBuf) + callback.channels * callback.frames
    BY <1>2, <1>3
  <2>2. r.channels = callback.channels
    BY <1>1, <1>2, <1>3, <1>4, <2>1, StepOfBurst DEF Heard
  <2>3. Step(r, input, n) = Interleaved(r.channels, n)
    BY <1>4 DEF Step
  <2>4. /\ Interleaved(r.channels, n) \in Seq(Sample)
        /\ Whole(r.channels, Interleaved(r.channels, n))
    BY <1>1, InterleavedWhole
  <2> QED BY <1>2, <1>3, <2>2, <2>3, <2>4 DEF Sound, Chunk
<1>5. CASE ~Fits(r.channels, input)
  <2>1. Step(r, input, n) = Mixed(r.channels, n)
    BY <1>5 DEF Step
  <2>2. /\ Mixed(r.channels, n) \in Seq(Sample)
        /\ IsMixed(Mixed(r.channels, n)) \/ Whole(encode, Mixed(r.channels, n))
    BY <1>1, <1>3, MixedIsMixed
  <2> QED BY <1>2, <2>1, <2>2 DEF Sound, Chunk
<1> QED BY <1>4, <1>5

\* The resampled push leaves less than a step in the buffer, and sound chunks.
LEMMA PushResampledStep ==
  ASSUME CaptureInv, NEW n \in Yields, PushResampled(n)
  PROVE  /\ resampler' \in [channels : {1, 2}, frames : Nat \ {0}]
         /\ hwBuf' \in Seq(Sample)
         /\ BufferInv'
         /\ queue' \in Seq(Chunk)
         /\ \A i \in DOMAIN queue' :
              queue'[i].fresh => IsMixed(queue'[i].data) \/ Whole(encode', queue'[i].data)
<1> DEFINE r     == Sampler
           size  == r.channels * r.frames
           heard == hwBuf \o Heard
           steps == Len(heard) \div size
           new   == [k \in 1..steps |->
                       [data  |-> Step(r, SubSeq(heard, (k - 1) * size + 1, k * size), n),
                        fresh |-> callback.fresh]]
<1>1. /\ callback # Quiet /\ encode' = encode
      /\ resampler' = r
      /\ hwBuf' = SubSeq(heard, steps * size + 1, Len(heard))
      /\ queue' = queue \o new
  BY DEF PushResampled, Heard
<1>2. /\ r \in [channels : {1, 2}, frames : Nat \ {0}] /\ r # NoSampler
      /\ size \in Nat \ {0}
  BY <1>1, SamplerKnown
<1>3. heard \in Seq(Sample) /\ n \in Nat
  BY <1>1, HeardWhole, CaptureAssumption DEF CaptureInv, TypeOK
<1>4. steps \in Nat /\ steps * size <= Len(heard) /\ Len(heard) - steps * size < size
  <2>1. Len(heard) \in Nat
    BY <1>3
  <2> HIDE DEF size, heard
  <2> QED BY <1>2, <2>1, Quotient
<1>5. steps * size \in Nat
  <2> HIDE DEF size, steps
  <2> QED BY <1>2, <1>4
<1>6. hwBuf' \in Seq(Sample) /\ Len(hwBuf') < size
  <2> HIDE DEF heard, size, steps
  <2> DEFINE done == steps * size
  <2>1. done \in Nat /\ done <= Len(heard) /\ Len(heard) - done < size
    BY <1>4, <1>5
  <2>2. hwBuf' = SubSeq(heard, done + 1, Len(heard))
    BY <1>1
  <2> HIDE DEF done
  <2> QED BY <1>2, <1>3, <2>1, <2>2
<1>7. ASSUME NEW k \in 1..steps
      PROVE  Sound(new[k])
  <2>1. k * size <= Len(heard)
    <3>1. k \in Nat /\ k <= steps
      BY <1>4
    <3>2. k * size <= steps * size
      <4> HIDE DEF size, steps
      <4> QED BY <1>2, <1>4, <3>1, Times
    <3>3. k * size \in Nat
      <4> HIDE DEF size, steps
      <4> QED BY <1>2, <3>1
    <3> HIDE DEF size, steps, heard
    <3> QED BY <1>3, <1>4, <1>5, <3>2, <3>3
  <2>2. k \in Nat \ {0}
    BY <1>4
  <2> QED BY <1>1, <1>3, <2>1, <2>2, StepSound
<1>8. new \in Seq(Chunk) /\ DOMAIN new = 1..steps
  <2>1. \A k \in 1..steps : new[k] \in Chunk
    BY <1>7 DEF Sound
  <2>2. DOMAIN new = 1..steps /\ new \in [1..steps -> Chunk]
    BY <2>1
  <2> HIDE DEF new, steps
  <2> QED BY <1>4, <2>2
<1>9. \A i \in DOMAIN new : Sound(new[i])
  BY <1>7, <1>8
<1> HIDE DEF new
<1>10. /\ queue' \in Seq(Chunk)
       /\ \A i \in DOMAIN queue' :
            queue'[i].fresh => IsMixed(queue'[i].data) \/ Whole(encode', queue'[i].data)
  BY <1>1, <1>8, <1>9, QueueGrows
<1> QED BY <1>1, <1>2, <1>6, <1>10 DEF BufferInv

-----------------------------------------------------------------------------
(* Every step preserves it.                                                *)

\* The invariant holds at first.
LEMMA CaptureInvInit == Init => CaptureInv
<1> SUFFICES ASSUME Init PROVE CaptureInv
  OBVIOUS
<1>1. NoiseInv /\ kept.engine = kept.path
  <2>1. \E q \in Option : kept = [path |-> q, engine |-> q] /\ path \in Option
                           /\ (q # NoModel => path = q)
    <3>1. CASE kept = NoPair
      BY <3>1 DEF Init, NoiseInit, NoPair, Option
    <3>2. CASE kept # NoPair
      <4>1. PICK p \in Models : kept = [path |-> p, engine |-> p]
        BY <3>2 DEF Init, NoiseInit
      <4>2. path = p
        BY <3>2, <4>1 DEF Init, NoiseInit
      <4> QED BY <4>1, <4>2 DEF Option
    <3> QED BY <3>1, <3>2
  <2>2. /\ dfn = FALSE /\ busy = FALSE /\ overtaken = FALSE
        /\ loading = NoModel /\ engine = kept.engine
    BY DEF Init, NoiseInit
  <2>3. PICK q \in Option : kept = [path |-> q, engine |-> q] /\ path \in Option
                           /\ (q # NoModel => path = q)
    BY <2>1
  <2>4. kept.path = q /\ kept.engine = q /\ kept \in Pair
    BY <2>3 DEF Pair
  <2>5. NoiseTypeOK
    <3>1. dfn \in BOOLEAN /\ busy \in BOOLEAN /\ overtaken \in BOOLEAN
      BY <2>2
    <3>2. path \in Option /\ engine \in Option /\ loading \in Option
      BY <2>2, <2>3, <2>4 DEF Option
    <3> QED BY <2>4, <3>1, <3>2 DEF NoiseTypeOK
  <2> QED BY <2>2, <2>3, <2>4, <2>5 DEF NoiseInv
<1>2. TypeOK
  <2>0. /\ native \in BOOLEAN /\ switching \in BOOLEAN
        /\ open \in BOOLEAN /\ clean \in BOOLEAN
    BY Zenon DEF Init
  <2>1. /\ channels \in {1, 2} /\ encode \in {1, 2}
        /\ switches \in 0..MaxSwitches
    BY CaptureAssumption DEF Init
  <2>2. /\ callback \in {Quiet} /\ resampler \in {NoSampler}
        /\ task \in {"waits", "encodes", "ended"}
    BY DEF Init
  <2>3. hwBuf \in Seq(Sample) /\ queue \in Seq(Chunk) /\ micBuf \in Seq(Sample)
    BY DEF Init
  <2> QED BY <1>1, <2>0, <2>1, <2>2, <2>3 DEF TypeOK, NoiseInv
<1>3. BufferInv
  BY DEF Init, BufferInv
<1>4. FreshFits
  BY DEF Init, FreshFits, Quiet
<1>5. NoBacklog
  BY CaptureAssumption DEF Init, NoBacklog, Spf
<1>6. AlignedUnlessStale
  BY CaptureAssumption DEF Init, AlignedUnlessStale, Whole, Fits
<1> QED BY <1>1, <1>2, <1>3, <1>4, <1>5, <1>6 DEF CaptureInv, Init

\* What is left of the invariant when the noise engine and the microphone
\* keep theirs.
LEMMA Rest ==
  ASSUME CaptureInv, TypeOK', NoiseInv', UNCHANGED <<kept, open>>,
         ~switching' => channels' = encode', BufferInv', FreshFits',
         NoBacklog', AlignedUnlessStale'
  PROVE  CaptureInv'
BY DEF CaptureInv

\* The steps of the callback.
LEMMA HearKeeps ==
  ASSUME CaptureInv, NEW n \in Bursts, HearBurst(n)
  PROVE  CaptureInv'
<1> USE DEF HearBurst, app
<1>1. NoiseInv'
  BY NoiseInvNext DEF CaptureInv, SameNoise
<1>2. TypeOK'
  BY <1>1 DEF CaptureInv, TypeOK, NoiseInv
<1>3. BufferInv'
  BY DEF CaptureInv, BufferInv
<1>4. FreshFits'
  BY DEF CaptureInv, FreshFits
<1>5. NoBacklog' /\ AlignedUnlessStale'
  BY DEF CaptureInv, NoBacklog, Spf, AlignedUnlessStale
<1> QED BY <1>1, <1>2, <1>3, <1>4, <1>5, Rest DEF CaptureInv, noise

\* The client may go with the callback.
LEMMA ReleaseKeeps ==
  ASSUME CaptureInv, Release, UNCHANGED open
  PROVE  NoiseInv' /\ (open' => kept'.engine = kept'.path)
<1>1. NoiseInv'
  BY NoiseInvNext DEF CaptureInv, Release
<1> QED BY <1>1 DEF CaptureInv, Release, SameNoise, noise

\* A push at the encoder's rate.
LEMMA PushNativeKeeps ==
  ASSUME CaptureInv, PushNative
  PROVE  CaptureInv'
<1> DEFINE new == <<[data |-> Heard, fresh |-> callback.fresh]>>
<1> USE DEF PushNative, app
<1>1. NoiseInv' /\ (open' => kept'.engine = kept'.path)
  BY ReleaseKeeps
<1>2. Sound([data |-> Heard, fresh |-> callback.fresh])
  <2>1. callback.fresh => callback.channels = encode
    BY DEF CaptureInv, FreshFits
  <2> QED BY <2>1, HeardWhole DEF Sound, Chunk
<1>3. queue' = queue \o new /\ encode' = encode
  BY DEF CaptureInv, TypeOK, Heard
<1>4. new \in Seq(Chunk) /\ \A i \in DOMAIN new : Sound(new[i])
  BY <1>2 DEF Sound
<1> HIDE DEF new
<1>5. /\ queue' \in Seq(Chunk)
      /\ \A i \in DOMAIN queue' :
           queue'[i].fresh => IsMixed(queue'[i].data) \/ Whole(encode', queue'[i].data)
  BY <1>3, <1>4, QueueGrows
<1>6. TypeOK'
  BY <1>1, <1>5 DEF CaptureInv, TypeOK, NoiseInv
<1>7. FreshFits'
  BY <1>5 DEF FreshFits, Quiet
<1>8. BufferInv' /\ NoBacklog' /\ AlignedUnlessStale'
  BY DEF CaptureInv, BufferInv, NoBacklog, Spf, AlignedUnlessStale
<1> QED BY <1>1, <1>6, <1>7, <1>8 DEF CaptureInv

\* A push at another rate.
LEMMA PushResampledKeeps ==
  ASSUME CaptureInv, NEW n \in Yields, PushResampled(n)
  PROVE  CaptureInv'
<1>0. /\ UNCHANGED <<native, app, encode, micBuf, task, clean>>
      /\ Release /\ callback' = Quiet
  BY DEF PushResampled
<1>1. NoiseInv' /\ (open' => kept'.engine = kept'.path)
  BY <1>0, ReleaseKeeps DEF app
<1>2. TypeOK'
  BY <1>0, <1>1, PushResampledStep DEF CaptureInv, TypeOK, NoiseInv, app
<1>3. FreshFits'
  BY <1>0, PushResampledStep DEF FreshFits, Quiet
<1>4. NoBacklog' /\ AlignedUnlessStale'
  BY <1>0 DEF CaptureInv, NoBacklog, Spf, AlignedUnlessStale
<1> QED BY <1>0, <1>1, <1>2, <1>3, <1>4, PushResampledStep DEF CaptureInv, app

\* The task takes a chunk: whole frames stay whole.
LEMMA TakeKeeps ==
  ASSUME CaptureInv, Take
  PROVE  CaptureInv'
<1> USE DEF Take, mic, app
<1>1. NoiseInv'
  BY NoiseInvNext DEF CaptureInv, SameNoise
<1>2. /\ queue \in Seq(Chunk) /\ queue # <<>> /\ Head(queue) \in Chunk
      /\ Head(queue) = queue[1] /\ 1 \in DOMAIN queue
      /\ micBuf \in Seq(Sample) /\ Head(queue).data \in Seq(Sample)
      /\ encode \in {1, 2}
  <2>1. queue \in Seq(Chunk) /\ queue # <<>> /\ micBuf \in Seq(Sample) /\ encode \in {1, 2}
    BY DEF CaptureInv, TypeOK
  <2>2. Head(queue) \in Chunk /\ Head(queue) = queue[1] /\ 1 \in DOMAIN queue
    <3> HIDE DEF Take
    <3> QED BY <2>1
  <2> QED BY <2>1, <2>2 DEF Chunk
<1>3. TypeOK'
  BY <1>1, <1>2 DEF CaptureInv, TypeOK, NoiseInv, Chunk
<1>4. FreshFits'
  <2>1. \A i \in DOMAIN queue' : i + 1 \in DOMAIN queue /\ queue'[i] = queue[i + 1]
    BY <1>2
  <2> QED BY <2>1 DEF CaptureInv, FreshFits
<1>5. AlignedUnlessStale'
  <2> SUFFICES ASSUME clean' PROVE Whole(encode, micBuf')
    BY DEF AlignedUnlessStale
  <2>1. Whole(encode, micBuf)
    BY DEF CaptureInv, AlignedUnlessStale
  <2>2. Whole(encode, Head(queue).data)
    BY <1>2 DEF CaptureInv, FreshFits
  <2> QED BY <1>2, <2>1, <2>2, WholeConcat
<1>6. BufferInv' /\ NoBacklog'
  BY DEF CaptureInv, BufferInv, NoBacklog
<1> QED BY <1>1, <1>3, <1>4, <1>5, <1>6, Rest DEF CaptureInv, noise

\* It encodes whole frames and keeps less than one.
LEMMA EncodeKeeps ==
  ASSUME CaptureInv, Encode
  PROVE  CaptureInv'
<1> USE DEF Encode, mic, app
<1>1. NoiseInv'
  BY NoiseInvNext DEF CaptureInv
<1>2. micBuf \in Seq(Sample) /\ encode \in {1, 2} /\ Spf \in Nat \ {0} /\ Len(micBuf) \in Nat
  BY CaptureAssumption DEF CaptureInv, TypeOK, Spf
<1>3. /\ Frames \in Nat /\ Frames * Spf <= Len(micBuf)
      /\ Len(micBuf) - Frames * Spf < Spf
  <2>1. \A n \in Nat : \A d \in Nat \ {0} :
          n \div d \in Nat /\ (n \div d) * d <= n /\ n - (n \div d) * d < d
    BY Quotient
  <2> QED BY <1>2, <2>1 DEF Frames
<1>4. Encoded \in 0..Len(micBuf) /\ Len(micBuf) - Encoded < Spf
  BY <1>2, <1>3 DEF Encoded
<1>5. Encoded % encode = 0
  <2>1. Frames * FrameLen \in Nat /\ Encoded = (Frames * FrameLen) * encode
    BY <1>2, <1>3, CaptureAssumption DEF Encoded, Spf
  <2>2. CASE encode = 1
    BY <2>1, <2>2
  <2>3. CASE encode = 2
    BY <2>1, <2>3
  <2> QED BY <1>2, <2>2, <2>3
<1>6. micBuf' \in Seq(Sample) /\ Len(micBuf') = Len(micBuf) - Encoded
  BY <1>2, <1>4
<1>7. TypeOK'
  BY <1>1, <1>6 DEF CaptureInv, TypeOK, NoiseInv
<1>8. NoBacklog'
  BY <1>4, <1>6 DEF NoBacklog, Spf
<1>9. AlignedUnlessStale'
  <2> SUFFICES ASSUME clean PROVE Whole(encode, micBuf')
    BY DEF AlignedUnlessStale
  <2>1. Whole(encode, micBuf)
    BY DEF CaptureInv, AlignedUnlessStale
  <2> QED BY <1>2, <1>4, <1>5, <2>1, WholeRest
<1>10. BufferInv' /\ FreshFits'
  BY DEF CaptureInv, BufferInv, FreshFits
<1>11. UNCHANGED kept
  BY DEF ProcessNoise, SameNoise, noise
<1> QED BY <1>1, <1>7, <1>8, <1>9, <1>10, <1>11, Rest DEF CaptureInv

\* The end of the task changes nothing else.
LEMMA EndTaskKeeps ==
  ASSUME CaptureInv, EndTask
  PROVE  CaptureInv'
<1> USE DEF EndTask, mic, app
<1>1. NoiseInv'
  BY NoiseInvNext DEF CaptureInv, SameNoise
<1>2. TypeOK'
  BY <1>1 DEF CaptureInv, TypeOK, NoiseInv
<1>3. BufferInv' /\ FreshFits' /\ NoBacklog' /\ AlignedUnlessStale'
  BY DEF CaptureInv, BufferInv, FreshFits, NoBacklog, AlignedUnlessStale, Spf
<1> QED BY <1>1, <1>2, <1>3, Rest DEF CaptureInv, noise

\* The encoder is switched: everything captured before becomes stale.
LEMMA SwitchEncoderKeeps ==
  ASSUME CaptureInv, NEW c \in {1, 2}, SwitchEncoder(c)
  PROVE  CaptureInv'
<1> USE DEF SwitchEncoder
<1>1. NoiseInv'
  BY NoiseInvNext DEF CaptureInv, SameNoise
<1>2. /\ queue' \in Seq(Chunk)
      /\ \A i \in DOMAIN queue' : ~queue'[i].fresh
  <2>1. queue \in Seq(Chunk)
    BY DEF CaptureInv, TypeOK
  <2>2. \A i \in DOMAIN queue :
          [queue[i] EXCEPT !.fresh = FALSE] \in Chunk
          /\ ~[queue[i] EXCEPT !.fresh = FALSE].fresh
    <3>1. ASSUME NEW m \in Chunk
          PROVE  [m EXCEPT !.fresh = FALSE] \in Chunk /\ ~[m EXCEPT !.fresh = FALSE].fresh
      BY DEF Chunk
    <3>2. \A i \in DOMAIN queue : queue[i] \in Chunk
      BY <2>1
    <3> QED BY <3>1, <3>2
  <2>3. DOMAIN queue = 1..Len(queue) /\ Len(queue) \in Nat
    BY <2>1
  <2>4. queue' = [i \in 1..Len(queue) |-> [queue[i] EXCEPT !.fresh = FALSE]]
    BY <2>3 DEF Stale
  <2> DEFINE stale == [i \in 1..Len(queue) |-> [queue[i] EXCEPT !.fresh = FALSE]]
  <2>5. /\ stale \in [1..Len(queue) -> Chunk] /\ DOMAIN stale = 1..Len(queue)
        /\ \A i \in DOMAIN stale : ~stale[i].fresh
    BY <2>2, <2>3
  <2> HIDE DEF stale
  <2>6. stale \in Seq(Chunk)
    BY <2>3, <2>5
  <2> QED BY <2>4, <2>5, <2>6 DEF stale
<1>3. callback' \in {Quiet} \cup [channels : {1, 2}, frames : Bursts, fresh : BOOLEAN]
      /\ ~callback'.fresh
  <2>1. CASE callback = Quiet
    BY <2>1 DEF Quiet
  <2>2. CASE callback # Quiet
    <3>1. callback \in [channels : {1, 2}, frames : Bursts, fresh : BOOLEAN]
      BY <2>2 DEF CaptureInv, TypeOK
    <3> QED BY <3>1
  <2> QED BY <2>1, <2>2
<1>4. switches' \in 0..MaxSwitches
  BY CaptureAssumption DEF CaptureInv, TypeOK
<1>5. TypeOK'
  BY <1>1, <1>2, <1>3, <1>4 DEF CaptureInv, TypeOK, NoiseInv
<1>6. FreshFits'
  BY <1>2, <1>3 DEF FreshFits
<1>7. NoBacklog'
  BY CaptureAssumption DEF NoBacklog, Spf
<1>8. AlignedUnlessStale'
  BY DEF AlignedUnlessStale, Whole, Fits
<1>9. BufferInv'
  BY DEF CaptureInv, BufferInv
<1> QED BY <1>1, <1>5, <1>6, <1>7, <1>8, <1>9, Rest DEF CaptureInv, noise

\* The client follows.
LEMMA SwitchClientKeeps ==
  ASSUME CaptureInv, SwitchClient
  PROVE  CaptureInv'
<1> USE DEF SwitchClient, mic
<1>1. NoiseInv'
  BY NoiseInvNext DEF CaptureInv, SameNoise
<1>2. TypeOK'
  BY <1>1 DEF CaptureInv, TypeOK, NoiseInv
<1>3. BufferInv' /\ FreshFits' /\ NoBacklog' /\ AlignedUnlessStale'
  BY DEF CaptureInv, BufferInv, FreshFits, NoBacklog, AlignedUnlessStale, Spf
<1> QED BY <1>1, <1>2, <1>3, Rest DEF CaptureInv, noise

\* The application lets go, chooses, or a load ends: the samples are as they were.
LEMMA ElseKeeps ==
  ASSUME CaptureInv, LetGo \/ ChooseNoise \/ EndLoad
  PROVE  CaptureInv'
<1>0. UNCHANGED <<native, channels, switching, switches, encode, callback, resampler,
                  hwBuf, queue, micBuf, task, clean>>
  BY DEF LetGo, ChooseNoise, EndLoad, app, mic
<1>1. open' \in BOOLEAN /\ NoiseInv' /\ (open' => kept'.engine = kept'.path)
  <2>1. CASE LetGo
    <3>1. NoiseInv'
      BY <2>1, NoiseInvNext DEF LetGo, CaptureInv
    <3> QED BY <2>1, <3>1 DEF LetGo
  <2>2. CASE ChooseNoise
    <3>1. open' = open /\ open /\ kept.engine = kept.path
      BY <2>2 DEF ChooseNoise, app, CaptureInv
    <3>2. NoiseInv'
      BY <2>2, <3>1, NoiseInvNext DEF ChooseNoise, CaptureInv
    <3>3. kept' = kept
      BY <2>2 DEF ChooseNoise, SetMethod, LoadModels
    <3> QED BY <3>1, <3>2, <3>3 DEF CaptureInv, TypeOK
  <2>3. CASE EndLoad
    <3>1. NoiseInv'
      BY <2>3, NoiseInvNext DEF EndLoad, CaptureInv
    <3>2. kept' = kept /\ open' = open
      BY <2>3 DEF EndLoad, LoadDone, LoadFails, app
    <3> QED BY <3>1, <3>2 DEF CaptureInv, TypeOK
  <2> QED BY <2>1, <2>2, <2>3
<1>2. TypeOK'
  BY <1>0, <1>1 DEF CaptureInv, TypeOK, NoiseInv
<1>3. BufferInv' /\ FreshFits' /\ NoBacklog' /\ AlignedUnlessStale'
  BY <1>0 DEF CaptureInv, BufferInv, FreshFits, NoBacklog, AlignedUnlessStale, Spf
<1> QED BY <1>0, <1>1, <1>2, <1>3 DEF CaptureInv

\* A step that changes nothing preserves it.
LEMMA StutterKeeps ==
  ASSUME CaptureInv, UNCHANGED vars
  PROVE  CaptureInv'
<1> USE DEF vars, mic, app
<1>1. NoiseInv'
  BY NoiseInvNext DEF CaptureInv, SameNoise
<1>2. TypeOK'
  BY <1>1 DEF CaptureInv, TypeOK, NoiseInv
<1>3. BufferInv' /\ FreshFits' /\ NoBacklog' /\ AlignedUnlessStale'
  BY DEF CaptureInv, BufferInv, FreshFits, NoBacklog, AlignedUnlessStale, Spf
<1> QED BY <1>1, <1>2, <1>3, Rest DEF CaptureInv, noise

-----------------------------------------------------------------------------
(* The theorems.                                                           *)

\* Every step keeps the invariant.
LEMMA CaptureNext == CaptureInv /\ [Next]_vars => CaptureInv'
<1> SUFFICES ASSUME CaptureInv, [Next]_vars PROVE CaptureInv'
  OBVIOUS
<1>1. CASE \E n \in Bursts : HearBurst(n)
  BY <1>1, HearKeeps
<1>2. CASE Push
  BY <1>2, PushNativeKeeps, PushResampledKeeps DEF Push
<1>3. CASE Take
  BY <1>3, TakeKeeps
<1>4. CASE Encode
  BY <1>4, EncodeKeeps
<1>5. CASE EndTask
  BY <1>5, EndTaskKeeps
<1>6. CASE \E c \in {1, 2} : SwitchEncoder(c)
  BY <1>6, SwitchEncoderKeeps
<1>7. CASE SwitchClient
  BY <1>7, SwitchClientKeeps
<1>8. CASE LetGo \/ ChooseNoise \/ EndLoad
  BY <1>8, ElseKeeps
<1>9. CASE UNCHANGED vars
  BY <1>9, StutterKeeps
<1> QED BY <1>1, <1>2, <1>3, <1>4, <1>5, <1>6, <1>7, <1>8, <1>9 DEF Next

\* The capture path keeps its invariant, whatever the hardware yields and
\* whenever the channels are switched.
THEOREM CaptureInvariant == Spec => []CaptureInv
  BY CaptureInvInit, CaptureNext, PTL DEF Spec

\* Its variables keep their types.
THEOREM CaptureTypeCorrect == Spec => []TypeOK
<1>1. CaptureInv => TypeOK
  BY DEF CaptureInv
<1> QED BY CaptureInvariant, <1>1, PTL

\* push_audio and the task put together whole frames: the encoder starts each
\* frame with the first channel, unless something stale or mixed has come in.
THEOREM FramesAligned == Spec => []AlignedUnlessStale
<1>1. CaptureInv => AlignedUnlessStale
  BY DEF CaptureInv
<1> QED BY CaptureInvariant, <1>1, PTL

\* After set_channels has returned the callback captures for the new encoder.
THEOREM FreshAudioFits == Spec => []FreshFits
<1>1. CaptureInv => FreshFits
  BY DEF CaptureInv
<1> QED BY CaptureInvariant, <1>1, PTL

\* The encode task leaves less than a frame behind.
THEOREM LessThanAFrameWaits == Spec => []NoBacklog
<1>1. CaptureInv => NoBacklog
  BY DEF CaptureInv
<1> QED BY CaptureInvariant, <1>1, PTL

\* A client denoises with an engine of the model it goes by, and leaves such a
\* one to the next, unless another model was set during a load.
THEOREM EngineMatchesPath == Spec => []EngineIsOfPath
<1>1. CaptureInv => EngineIsOfPath
  BY DEF CaptureInv, NoiseInv, EngineIsOfPath
<1> QED BY CaptureInvariant, <1>1, PTL

-----------------------------------------------------------------------------
(* The end of the task.                                                    *)

\* A chunk that is taken leaves the queue one shorter.
LEMMA TakenShortens ==
  ASSUME NEW q \in Seq(Chunk), q # <<>>
  PROVE  Len(q) \in Nat /\ Len(Tail(q)) \in Nat /\ Len(Tail(q)) = Len(q) - 1
OBVIOUS

\* Each step, once the application has let go.
LEMMA DrainStep ==
  ASSUME TypeOK, Next, ~open
  PROVE  /\ ~open'
         /\ \/ callback # Quiet /\ callback' = Quiet
            \/ callback' = callback /\ Turns' < Turns
            \/ UNCHANGED <<callback, queue, task>>
<1> USE DEF mic, app
<1>1. ~\E n \in Bursts : HearBurst(n)
  BY DEF HearBurst
<1>2. ~\E c \in {1, 2} : SwitchEncoder(c)
  BY DEF SwitchEncoder
<1>3. ~(LetGo \/ ChooseNoise)
  BY DEF LetGo, ChooseNoise
<1>4. CASE Push
  <2>1. callback # Quiet /\ callback' = Quiet /\ open' = open
    BY <1>4 DEF Push, PushNative, PushResampled
  <2> QED BY <2>1
<1>5. CASE Take
  <2>1. /\ open' = open /\ callback' = callback /\ queue' = Tail(queue)
        /\ task = "waits" /\ task' = "encodes"
    BY <1>5 DEF Take
  <2>2. Len(queue) \in Nat /\ Len(queue') = Len(queue) - 1
    BY <1>5, <2>1, TakenShortens DEF Take, TypeOK
  <2>3. Turns = 2 * Len(queue) + 1 /\ Turns' = 2 * Len(queue') + 2
    BY <2>1 DEF Turns
  <2> QED BY <2>1, <2>2, <2>3
<1>6. CASE Encode \/ EndTask
  <2>1. /\ open' = open /\ callback' = callback /\ queue' = queue
        /\ \/ task = "encodes" /\ task' = "waits"
           \/ task = "waits" /\ task' = "ended"
    BY <1>6 DEF Encode, EndTask
  <2>2. Len(queue) \in Nat
    BY DEF TypeOK
  <2> QED BY <2>1, <2>2 DEF Turns
<1>7. CASE SwitchClient \/ EndLoad
  BY <1>7 DEF SwitchClient, EndLoad
<1> QED BY <1>1, <1>2, <1>3, <1>4, <1>5, <1>6, <1>7 DEF Next

\* When the application lets go, the capture path only empties: the callback,
\* which may be the last to have the client, pushes once, and the task has
\* finitely many turns before it.  With fairness this is TaskEnds.
THEOREM LetGoDrains == Spec => OnlyDrains
<1>1. ASSUME CaptureInv, [Next]_vars
      PROVE  [~open =>
                /\ ~open'
                /\ \/ callback # Quiet /\ callback' = Quiet
                   \/ callback' = callback /\ Turns' < Turns
                   \/ UNCHANGED <<callback, queue, task>>]_vars
  BY <1>1, DrainStep DEF CaptureInv
<1> QED BY CaptureInvariant, <1>1, PTL DEF Spec, OnlyDrains

\* The task ends after the callback and leaves no chunk behind: what was said
\* before the application let go is encoded.
THEOREM TaskEndsLast == Spec => []EndsEmpty
<1>1. Init => EndsEmpty
  BY DEF Init, EndsEmpty
<1>2. ASSUME CaptureInv, EndsEmpty, [Next]_vars
      PROVE  EndsEmpty'
  <2>1. CASE UNCHANGED vars
    BY <1>2, <2>1 DEF vars, mic, app, EndsEmpty
  <2>2. CASE Next /\ task = "ended"
    <3>1. ~open' /\ callback' = Quiet
      BY <1>2, <2>2, DrainStep DEF CaptureInv, EndsEmpty
    <3>2. UNCHANGED <<callback, queue, task>>
      <4>1. Turns = 0
        BY <1>2, <2>2 DEF EndsEmpty, Turns
      <4>2. Len(queue') \in Nat
        BY <1>2, CaptureNext DEF CaptureInv, TypeOK
      <4>3. Turns' \in Nat
        BY <1>2, <4>2, CaptureNext DEF Turns, CaptureInv, TypeOK
      <4> QED BY <1>2, <2>2, <4>1, <4>3, DrainStep DEF CaptureInv, EndsEmpty
    <3> QED BY <1>2, <2>2, <3>1, <3>2 DEF EndsEmpty
  <2>3. CASE Next /\ task # "ended"
    <3>1. CASE task' = "ended"
      <4>1. EndTask
        BY <2>3, <3>1 DEF Next, HearBurst, Push, PushNative, PushResampled, Take, Encode,
          SwitchEncoder, SwitchClient, LetGo, ChooseNoise, EndLoad
      <4> QED BY <4>1 DEF EndTask, Gone, EndsEmpty, mic, app
    <3> QED BY <3>1 DEF EndsEmpty
  <2> QED BY <1>2, <2>1, <2>2, <2>3
<1> QED BY CaptureInvariant, <1>1, <1>2, PTL DEF Spec

=============================================================================
