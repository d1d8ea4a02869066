------------------------ MODULE JitterBuffer_proofs ------------------------
(* Theorems about JitterBuffer for all thresholds, frame lengths and        *)
(* numbers of packets.                                                      *)
EXTENDS JitterBuffer, FiniteSetTheorems, WellFoundedInduction, TLAPS

Less == {ss \in Nat \X Nat : ss[1] < ss[2]}

\* A non-empty set of natural numbers has a least element, and Min is it.
LEMMA MinFact ==
  ASSUME NEW S, S \subseteq Nat, S # {}
  PROVE  Min(S) \in S /\ \A k \in S : Min(S) <= k
<1>1. OpToRel(<, Nat) = Less
  BY Zenon DEF OpToRel, Less
<1>2. IsWellFoundedOn(Less, Nat)
  BY Zenon, <1>1, NatLessThanWellFounded
<1>3. \E x \in S : \A y \in S : ~ (<<y, x>> \in Less)
  BY <1>2, WFMin, Zenon
<1>4. PICK x \in S : \A y \in S : ~ (<<y, x>> \in Less)
  BY <1>3
<1>5. \A y \in S : x <= y
  <2> TAKE y \in S
  <2>1. x \in Nat /\ y \in Nat /\ <<y, x>> \notin Less
    BY <1>4
  <2>2. ~(y < x)
    BY <2>1 DEF Less
  <2> QED
    BY <2>1, <2>2
<1> QED
  BY <1>5 DEF Min

-----------------------------------------------------------------------------
\* What is true between any two steps.
CapHeld == Cardinality(jitter) <= Cap
Safe == TypeOK /\ LossBounded /\ TalkerTarget /\ LevelBounded
\* Once a frame was played the decoder's room fits a mono frame.
SizeKnown == ~buffering \/ played > 0 => lastFrame \in {FrameLen, MaxLen}
\* While the first packet is awaited there is none, so that the first one does
\* not set next_decode_seq past another.
NoneBeforeFirst == awaiting => jitter = {}
Inv  == Safe /\ CapHeld /\ SizeKnown /\ NoneBeforeFirst

\* A set of sequence numbers is finite, and its subsets are no larger.
LEMMA SeqSets ==
  ASSUME NEW S, S \subseteq Seqs
  PROVE  /\ IsFiniteSet(S)
         /\ Cardinality(S) \in Nat
         /\ \A T \in SUBSET S : Cardinality(T) <= Cardinality(S)
<1>1. MaxSeq \in Int
  BY ThresholdAssumption
<1>2. IsFiniteSet(Seqs)
  BY <1>1, FS_Interval DEF Seqs
<1>3. IsFiniteSet(S)
  BY <1>2, FS_Subset
<1> QED
  BY <1>3, FS_Subset, FS_CardinalityType

\* Buffering ends only when there is a packet.
LEMMA StartsWithPacket ==
  ASSUME TypeOK, MayStart
  PROVE  jitter # {}
  BY ThresholdAssumption DEF MayStart, Window, Positive

\* The frame to decode is a sequence number, and is not past a packet in the
\* buffer that is on time.
LEMMA FrameFact ==
  ASSUME TypeOK, Playing
  PROVE  /\ Start \in Nat /\ Frame \in Nat
         /\ \A s \in jitter : s >= next => s >= Frame
<1>1. buffering => jitter # {}
  BY StartsWithPacket DEF Playing, TypeOK
<1>2. jitter \subseteq Nat
  BY DEF TypeOK, Seqs
<1>3. jitter # {} => Min(jitter) \in Nat /\ \A s \in jitter : Min(jitter) <= s
  BY <1>2, MinFact
<1>4. next \in Nat
  BY DEF TypeOK
<1>5. Start \in Nat /\ \A s \in jitter : s >= next => s >= Start
  BY <1>1, <1>2, <1>3, <1>4 DEF Start
<1>6. Frame = Start \/ (jitter # {} /\ Frame = Min(jitter))
  BY DEF Frame
<1> QED
  BY <1>2, <1>3, <1>5, <1>6

\* Storing a packet gives a set of sequence numbers within the cap, and drops
\* another packet only at the cap, and then the oldest.
LEMMA StoreFact ==
  ASSUME TypeOK, CapHeld, NEW s \in Seqs
  PROVE  /\ Store(s) \subseteq Seqs
         /\ Cardinality(Store(s)) <= Cap
         /\ \A k \in jitter \ Store(s) :
              /\ Cardinality(jitter) = Cap /\ k = Min(jitter)
              /\ Store(s) = (jitter \cup {s}) \ {k}
<1> DEFINE full == jitter \cup {s}
<1>1. full \subseteq Seqs /\ full # {} /\ full \subseteq Nat
  BY DEF TypeOK, Seqs
<1>2. IsFiniteSet(jitter) /\ Cardinality(jitter) \in Nat
  BY SeqSets DEF TypeOK
<1>3. /\ Cardinality(full) \in Nat /\ IsFiniteSet(full)
      /\ Cardinality(full) = Cardinality(jitter) \/ Cardinality(full) = Cardinality(jitter) + 1
  BY <1>1, <1>2, SeqSets, FS_AddElement
<1>4. Min(full) \in full
  BY <1>1, MinFact
<1>5. Cardinality(full \ {Min(full)}) = Cardinality(full) - 1
  BY <1>3, <1>4, FS_RemoveElement
<1>6. Cap \in Nat
  BY ThresholdAssumption DEF Positive
<1>7. Store(s) = IF Cardinality(full) > Cap THEN full \ {Min(full)} ELSE full
  BY DEF Store
<1> HIDE DEF full
<1>8. CASE Cardinality(full) > Cap
  <2>1. Store(s) = full \ {Min(full)}
    BY <1>7, <1>8
  <2>2. Cardinality(jitter) = Cap /\ Cardinality(full) = Cap + 1
    BY <1>2, <1>3, <1>6, <1>8 DEF CapHeld
  <2>3. Cardinality(Store(s)) = Cap
    BY <1>5, <1>6, <2>1, <2>2
  <2>4. Store(s) \subseteq Seqs
    BY <1>1, <2>1
  <2>5. Cardinality(Store(s)) <= Cap
    BY <1>6, <2>3
  <2>6. ASSUME NEW k \in jitter \ Store(s)
        PROVE  k = Min(full) /\ k = Min(jitter)
    <3>1. k = Min(full)
      BY <2>1, <2>6 DEF full
    <3>2. \A j \in full : k <= j
      BY <1>1, <3>1, MinFact
    <3>3. jitter \subseteq Nat /\ jitter # {}
      BY <1>1 DEF full
    <3>4. Min(jitter) \in jitter /\ Min(jitter) <= k
      BY <3>3, MinFact
    <3>5. k <= Min(jitter) /\ k \in Nat /\ Min(jitter) \in Nat
      BY <3>2, <3>3, <3>4 DEF full
    <3> QED
      BY <3>1, <3>4, <3>5
  <2>7. ASSUME NEW k \in jitter \ Store(s)
        PROVE  k = Min(jitter) /\ Store(s) = (jitter \cup {s}) \ {k}
    BY <2>1, <2>6, <2>7 DEF full
  <2> QED
    BY <2>2, <2>4, <2>5, <2>7
<1>9. CASE ~(Cardinality(full) > Cap)
  <2>1. jitter \ Store(s) = {}
    BY <1>7, <1>9 DEF full
  <2> QED
    BY <1>1, <1>3, <1>6, <1>7, <1>9, <2>1
<1> QED
  BY <1>8, <1>9

\* What a pass that produced audio leaves behind.
LEMMA ProducedFact ==
  ASSUME Inv, level < Need,
         NEW js \in SUBSET jitter, NEW n \in Nat, NEW len \in Lengths,
         NEW g \in Nat, NEW t \in Nat, ~silenced => t >= 1, NEW faded \in BOOLEAN,
         lastFrame' \in Lengths, silenced' = silenced,
         Produced(js, n, len, g, t, faded)
  PROVE  /\ jitter' \subseteq Seqs /\ CapHeld'
         /\ next' \in Nat /\ wasPlc' \in BOOLEAN /\ played' \in Nat
         /\ good' \in Nat /\ target' \in Nat /\ level' \in Nat
         /\ LevelBounded' /\ TalkerTarget'
<1>1. jitter' \subseteq jitter /\ jitter \subseteq Seqs
  BY DEF Produced, Inv, Safe, TypeOK
<1>2. CapHeld'
  <2>1. Cardinality(jitter') <= Cardinality(jitter) /\ Cardinality(jitter') \in Nat
        /\ Cardinality(jitter) \in Nat
    BY <1>1, SeqSets
  <2>2. Cap \in Nat
    BY ThresholdAssumption DEF Positive
  <2> QED
    BY <2>1, <2>2 DEF CapHeld, Inv
<1>3. /\ level \in Nat /\ target \in Nat /\ played \in Nat
      /\ ~silenced => target >= 1
  BY DEF Inv, Safe, TypeOK, TalkerTarget
<1>4. PlayedMax \in Nat /\ Need \in Nat /\ Need > 0 /\ MaxLen \in Nat /\ len \in Nat /\ len <= MaxLen
  BY ThresholdAssumption, LengthAssumption DEF Positive, Lengths
<1>5. level' \in Nat /\ level' < Need + MaxLen
  BY <1>3, <1>4 DEF Produced
<1>6. target' = t \/ target' = GreaterOf(SatSub(t, 1), 1)
  BY DEF Produced
<1>7. target' \in Nat /\ (~silenced => target' >= 1)
  BY <1>6 DEF GreaterOf, SatSub
<1>8. /\ next' \in Nat /\ wasPlc' \in BOOLEAN /\ played' \in Nat /\ good' \in Nat
  BY <1>3, <1>4 DEF Produced, LesserOf
<1> QED
  BY <1>1, <1>2, <1>5, <1>7, <1>8 DEF LevelBounded, TalkerTarget

-----------------------------------------------------------------------------
\* The invariant holds initially.
LEMMA InvInit == Init => Inv
<1> SUFFICES ASSUME Init
             PROVE  Inv
  OBVIOUS
<1>0. Need \in Nat /\ Need > 0 /\ MaxLen \in Nat
  BY LengthAssumption DEF Positive
<1>1. Safe
  <2>1. reported \in Nat \X Positive /\ lastFrame \in Lengths /\ decoded \subseteq Seqs
    BY DEF Init, Positive, Lengths
  <2>2. TypeOK
    BY <2>1 DEF Init, TypeOK
  <2> QED
    BY <1>0, <2>2 DEF Init, Safe, LossBounded, TalkerTarget, LevelBounded
<1>2. CapHeld
  BY FS_EmptySet, ThresholdAssumption DEF Init, CapHeld, Positive
<1>3. SizeKnown
  BY DEF Init, SizeKnown
<1>4. NoneBeforeFirst
  BY DEF Init, NoneBeforeFirst
<1> QED
  BY <1>1, <1>2, <1>3, <1>4 DEF Inv

\* Every step keeps the size known: the first pass of all plays a frame.
LEMMA SizeNext == Inv /\ [Next]_vars => SizeKnown'
<1> SUFFICES ASSUME Inv, [Next]_vars
             PROVE  SizeKnown'
  OBVIOUS
<1>t. TypeOK /\ SizeKnown
  BY DEF Inv, Safe
<1>1. CASE PlayFrame
  BY <1>1 DEF PlayFrame, SizeKnown
<1>2. CASE CatchUp \/ CatchUpFails
  <2>1. played > 0
    <3>1. Settled \in Nat
      BY ThresholdAssumption
    <3>2. played \in Nat
      BY <1>t DEF TypeOK
    <3>3. played > Settled
      BY <1>2 DEF CatchUp, CatchUpFails, CatchingUp
    <3> QED
      BY <3>1, <3>2, <3>3
  <2> QED
    BY <1>2, <1>t, <2>1 DEF CatchUp, CatchUpFails, SizeKnown, sound
<1>3. CASE Conceal \/ FadeOut
  <2>1. ~buffering
    <3>1. SUFFICES ASSUME buffering
                   PROVE  Frame \in jitter
      BY <1>3 DEF Conceal, FadeOut
    <3>2. jitter \subseteq Nat
      BY <1>t DEF TypeOK, Seqs
    <3>3. Playing
      BY <1>3 DEF Conceal, FadeOut
    <3>4. jitter # {}
      BY <1>t, <3>1, <3>3, StartsWithPacket DEF Playing
    <3>5. Min(jitter) \in jitter
      BY <3>2, <3>4, MinFact
    <3> QED
      BY <3>1, <3>5 DEF Frame, Start
  <2>2. CASE Conceal
    BY <1>t, <2>1, <2>2 DEF Conceal, SizeKnown
  <2>3. CASE FadeOut
    BY <1>t, <2>1, <2>3 DEF FadeOut, SizeKnown
  <2> QED
    BY <1>3, <2>2, <2>3
<1>4. ASSUME NEW s \in Seqs, AudioPacket(s)
      PROVE  SizeKnown'
  BY <1>4, <1>t DEF AudioPacket, SizeKnown, sound
<1>5. ASSUME NEW s \in BOOLEAN, PeerSilence(s) \/ PeerChannels(s)
      PROVE  SizeKnown'
  BY <1>5, <1>t DEF PeerSilence, StartSentence, EndSentence, PeerChannels, SizeKnown, tuning, sound
<1>6. CASE BeginCallback \/ Refilled \/ Starved \/ EndCallback \/ UNCHANGED vars
  BY <1>6, <1>t DEF BeginCallback, Refilled, Starved, EndCallback, vars, mode, tuning, sound, SizeKnown
<1> QED
  BY <1>1, <1>2, <1>3, <1>4, <1>5, <1>6 DEF Next, Callback, Network

\* Every step keeps the buffer empty until the first packet: a message that makes
\* it awaited empties the buffer, and the refill loop plays nothing before it.
LEMMA FirstNext == NoneBeforeFirst /\ [Next]_vars => NoneBeforeFirst'
<1> SUFFICES ASSUME NoneBeforeFirst, [Next]_vars, awaiting'
             PROVE  jitter' = {}
  BY DEF NoneBeforeFirst
<1>1. ~(\E s \in Seqs : AudioPacket(s))
  BY DEF AudioPacket
<1>2. ASSUME NEW s \in BOOLEAN, PeerSilence(s) \/ PeerChannels(s)
      PROVE  jitter' = {}
  BY <1>2 DEF PeerSilence, StartSentence, EndSentence, PeerChannels, NoneBeforeFirst
<1>3. ~(PlayFrame \/ CatchUp \/ CatchUpFails \/ Conceal \/ FadeOut)
  BY DEF PlayFrame, CatchUp, CatchUpFails, Conceal, FadeOut, Playing
<1>4. CASE BeginCallback \/ Refilled \/ Starved \/ EndCallback \/ UNCHANGED vars
  BY <1>4 DEF BeginCallback, Refilled, Starved, EndCallback, vars, mode, NoneBeforeFirst
<1> QED
  BY <1>1, <1>2, <1>3, <1>4 DEF Next, Callback, Network

\* Every step keeps the invariant.
LEMMA InvNext == Inv /\ [Next]_vars => Inv'
<1> SUFFICES ASSUME Inv, [Next]_vars
             PROVE  Inv'
  OBVIOUS
<1>0. SUFFICES Safe' /\ CapHeld'
  BY SizeNext, FirstNext DEF Inv
<1>t. Safe /\ CapHeld
  BY DEF Inv
<1>n. /\ Need \in Nat /\ Need > 0 /\ MaxLen \in Nat /\ MaxLen > 0 /\ Pull \in Nat /\ Pull > 0
      /\ ReportEvery \in Nat /\ ReportEvery > 0 /\ Cap \in Nat /\ GrowMax \in Nat /\ GrowMax > 0
  BY LengthAssumption, ThresholdAssumption DEF Positive
<1>1. ASSUME NEW s \in Seqs, AudioPacket(s)
      PROVE  Safe' /\ CapHeld'
  <2>1. /\ next' = Snap(s) /\ Snap(s) \in Nat
    BY <1>1, <1>t DEF AudioPacket, Snap, Safe, TypeOK, Seqs
  <2>2. jitter' = Store(s) \/ jitter' = jitter
    BY <1>1 DEF AudioPacket
  <2>3. jitter' \subseteq Seqs /\ CapHeld'
    BY <2>2, <1>t, StoreFact DEF CapHeld, Safe, TypeOK
  <2>4. /\ lost' \subseteq Nat /\ statLost' \in Nat /\ statLost' <= statExpected
        /\ target' \in Nat /\ (~silenced => target' >= 1)
    <3>1. LateMax \in Nat /\ LateMax >= 1
      BY ThresholdAssumption DEF Positive
    <3>2. /\ lost \subseteq Nat /\ statLost \in Nat /\ statExpected \in Nat /\ target \in Nat
          /\ statLost <= statExpected /\ (~silenced => target >= 1)
      BY <1>t DEF Safe, TypeOK, LossBounded, TalkerTarget
    <3>3. CASE Late(s)
      <4>1. lost' \subseteq Nat
        BY <3>2, <3>3 DEF Late
      <4>2. statLost' = statLost \/ statLost' = SatSub(statLost, 1)
        BY <3>3 DEF Late
      <4>3. target' = target \/ target' = LesserOf(target + 1, LateMax)
        BY <3>3 DEF Late
      <4>4. statLost' \in Nat /\ statLost' <= statExpected
        BY <3>2, <4>2 DEF SatSub, GreaterOf
      <4>5. target' \in Nat /\ (~silenced => target' >= 1)
        BY <3>1, <3>2, <4>3 DEF LesserOf
      <4> QED
        BY <4>1, <4>4, <4>5
    <3>4. CASE UNCHANGED <<lost, statLost, target>>
      BY <3>2, <3>4
    <3> QED
      BY <1>1, <3>3, <3>4 DEF AudioPacket
  <2>5. coming' \subseteq Seqs /\ decoded' \subseteq Seqs
    BY <1>1, <1>t DEF AudioPacket, Safe, TypeOK
  <2> QED
    BY <1>1, <1>t, <2>1, <2>3, <2>4, <2>5
    DEF AudioPacket, Safe, TypeOK, LossBounded, TalkerTarget, LevelBounded, sound
<1>2. ASSUME NEW s \in BOOLEAN, PeerSilence(s)
      PROVE  Safe' /\ CapHeld'
  <2>1. CASE silenced /\ ~s /\ StartSentence
    <3>1. SyncTarget \in Nat /\ SyncTarget >= 1
      BY ThresholdAssumption DEF Positive
    <3>2. TypeOK'
      BY <1>2, <1>t, <2>1, <3>1 DEF PeerSilence, StartSentence, Safe, TypeOK
    <3>2a. LossBounded' /\ TalkerTarget' /\ LevelBounded'
      BY <1>n, <2>1, <3>1 DEF StartSentence, LossBounded, TalkerTarget, LevelBounded
    <3>3. CapHeld'
      BY <2>1, <1>n, FS_EmptySet DEF StartSentence, CapHeld
    <3> QED
      BY <3>2, <3>2a, <3>3 DEF Safe
  <2>2. CASE ~silenced /\ s /\ EndSentence
    <3>1. Safe'
      BY <1>2, <1>t, <2>2
      DEF PeerSilence, EndSentence, Safe, TypeOK, LossBounded, TalkerTarget, LevelBounded, tuning, stats, sound
    <3>2. CapHeld'
      BY <2>2, <1>n, FS_EmptySet DEF EndSentence, CapHeld
    <3> QED
      BY <3>1, <3>2
  <2>3. CASE silenced = s /\ UNCHANGED <<jitter, next, awaiting, buffering, tuning, stats, sound>>
    BY <1>2, <1>t, <2>3
    DEF PeerSilence, CapHeld, Safe, TypeOK, LossBounded, TalkerTarget, LevelBounded, tuning, stats, sound
  <2> QED
    BY <1>2, <2>1, <2>2, <2>3 DEF PeerSilence
<1>3. ASSUME NEW s \in BOOLEAN, PeerChannels(s)
      PROVE  Safe' /\ CapHeld'
  <2>1. Safe'
    BY <1>3, <1>t, <1>n
    DEF PeerChannels, Safe, TypeOK, LossBounded, TalkerTarget, LevelBounded, tuning, stats
  <2>2. CapHeld'
    BY <1>3, <1>n, FS_EmptySet DEF PeerChannels, CapHeld
  <2> QED
    BY <2>1, <2>2
<1>4. CASE BeginCallback
  <2>1. silence' \in Nat /\ target' \in Nat /\ (~silenced => target' = target)
    BY <1>4, <1>t DEF BeginCallback, Safe, TypeOK, SatSub, GreaterOf
  <2> QED
    BY <1>4, <1>t, <2>1
    DEF BeginCallback, CapHeld, Safe, TypeOK, LossBounded, TalkerTarget, LevelBounded, mode, stats, sound
<1>5. CASE Refilled
  BY <1>5, <1>t
  DEF Refilled, CapHeld, Safe, TypeOK, LossBounded, TalkerTarget, LevelBounded, mode, tuning, stats, sound
<1>6. CASE Starved
  BY <1>6, <1>t, <1>n
  DEF Starved, CapHeld, Safe, TypeOK, LossBounded, TalkerTarget, LevelBounded, mode, tuning, stats
<1>7. CASE PlayFrame
  <2>1. Frame \in Nat /\ Frame \in jitter
    BY <1>7, <1>t, FrameFact DEF PlayFrame, Safe
  <2>2. good + 1 \in Nat /\ target \in Nat /\ (~silenced => target >= 1) /\ lastFrame' \in Lengths /\ FrameLen \in Lengths
    BY <1>7, <1>t DEF PlayFrame, Safe, TypeOK, TalkerTarget, Lengths
  <2>3. /\ jitter' \subseteq Seqs /\ CapHeld'
        /\ next' \in Nat /\ wasPlc' \in BOOLEAN /\ played' \in Nat
        /\ good' \in Nat /\ target' \in Nat /\ level' \in Nat
        /\ LevelBounded' /\ TalkerTarget'
    <3> DEFINE js == jitter \ {Frame}
               n == Frame + 1
    <3>1. js \in SUBSET jitter /\ n \in Nat
      BY <2>1
    <3>2. level < Need /\ silenced' = silenced /\ Produced(js, n, FrameLen, good + 1, target, FALSE)
      BY <1>7 DEF PlayFrame, Playing
    <3> HIDE DEF js, n
    <3> QED
      BY <2>2, <3>1, <3>2, ProducedFact
  <2>4. statExpected' \in Nat /\ statLost' <= statExpected' /\ lost' \subseteq Nat
    <3>1. lost' = Recent(lost, Frame + 1)
      BY <1>7 DEF PlayFrame
    <3>2. lost' \subseteq Nat
      BY <1>t, <3>1 DEF Safe, TypeOK, Recent
    <3>3. statExpected' \in Nat /\ statLost' <= statExpected'
      BY <1>7, <1>t DEF PlayFrame, Safe, TypeOK, LossBounded
    <3> QED
      BY <3>2, <3>3
  <2>5. decoded' \subseteq Seqs
    BY <1>7, <1>t, <2>1 DEF PlayFrame, Safe, TypeOK
  <2> QED
    BY <1>7, <1>t, <2>2, <2>3, <2>4, <2>5 DEF PlayFrame, Safe, TypeOK, LossBounded
<1>8. CASE CatchUp
  <2>1. Frame \in Nat /\ Frame \in jitter /\ Frame + 1 \in jitter
    BY <1>8, <1>t, FrameFact DEF CatchUp, CatchingUp, Safe
  <2>2. good + 2 \in Nat /\ target \in Nat /\ (~silenced => target >= 1) /\ lastFrame' \in Lengths /\ FrameLen \in Lengths
    BY <1>8, <1>t DEF CatchUp, Safe, TypeOK, TalkerTarget, Lengths
  <2>3. /\ jitter' \subseteq Seqs /\ CapHeld'
        /\ next' \in Nat /\ wasPlc' \in BOOLEAN /\ played' \in Nat
        /\ good' \in Nat /\ target' \in Nat /\ level' \in Nat
        /\ LevelBounded' /\ TalkerTarget'
    <3> DEFINE js == jitter \ {Frame, Frame + 1}
               n == Frame + 2
    <3>1. js \in SUBSET jitter /\ n \in Nat
      BY <2>1
    <3>2. level < Need /\ silenced' = silenced /\ Produced(js, n, FrameLen, good + 2, target, TRUE)
      BY <1>8 DEF CatchUp, Playing
    <3> HIDE DEF js, n
    <3> QED
      BY <2>2, <3>1, <3>2, ProducedFact
  <2>4. statExpected' \in Nat /\ statLost' <= statExpected' /\ lost' \subseteq Nat
    <3>1. lost' = Recent(lost, Frame + 2)
      BY <1>8 DEF CatchUp
    <3>2. lost' \subseteq Nat
      BY <1>t, <3>1 DEF Safe, TypeOK, Recent
    <3>3. statExpected' \in Nat /\ statLost' <= statExpected'
      BY <1>8, <1>t DEF CatchUp, Safe, TypeOK, LossBounded
    <3> QED
      BY <3>2, <3>3
  <2>5. decoded' \subseteq Seqs
    BY <1>8, <1>t, <2>1 DEF CatchUp, Safe, TypeOK
  <2> QED
    BY <1>8, <1>t, <2>2, <2>3, <2>4, <2>5 DEF CatchUp, Safe, TypeOK, LossBounded
<1>9. CASE CatchUpFails
  <2>1. Frame \in Nat
    BY <1>9, <1>t, FrameFact DEF CatchUpFails, Safe
  <2>2. jitter' \subseteq jitter /\ jitter \subseteq Seqs
    BY <1>9, <1>t DEF CatchUpFails, Safe, TypeOK
  <2>3. CapHeld'
    BY <2>2, <1>t, <1>n, SeqSets DEF CapHeld
  <2>4. TypeOK'
    <3>1. next' \in Nat /\ statExpected' \in Nat
      BY <1>9, <1>t, <2>1 DEF CatchUpFails, Safe, TypeOK
    <3>2. buffering' \in BOOLEAN /\ decoded' \subseteq Seqs /\ jitter' \subseteq Seqs
      BY <1>9, <2>2 DEF CatchUpFails
    <3> QED
      BY <1>9, <1>t, <3>1, <3>2 DEF CatchUpFails, Safe, TypeOK, tuning, sound
  <2>5. LossBounded' /\ TalkerTarget' /\ LevelBounded'
    <3>1. statLost <= statExpected + 1
      BY <1>t DEF Safe, TypeOK, LossBounded
    <3> QED
      BY <1>9, <1>t, <3>1 DEF CatchUpFails, Safe, LossBounded, TalkerTarget, LevelBounded, tuning, sound
  <2> QED
    BY <2>3, <2>4, <2>5 DEF Safe
<1>10. CASE Conceal
  <2> DEFINE fec == Frame + 1 \in jitter
             grown == IF ~fec /\ streak > GrowStreak /\ streak % GrowStreak = 0
                        THEN LesserOf(target + 1, GrowMax) ELSE target
             len == IF fec THEN MaxLen ELSE lastFrame
  <2>1. Frame \in Nat
    BY <1>10, <1>t, FrameFact DEF Conceal, Safe
  <2>2. good \in Nat /\ target \in Nat /\ lastFrame \in Lengths /\ (~silenced => target >= 1)
    BY <1>t DEF Safe, TypeOK, TalkerTarget
  <2>3. SatSub(good, 2) \in Nat
    BY <2>2 DEF SatSub, GreaterOf
  <2>4. len \in Lengths /\ lastFrame' \in Lengths
    BY <1>10, <2>2 DEF Conceal, Lengths
  <2>5. ~silenced /\ silenced' = silenced /\ level < Need
    BY <1>10 DEF Conceal, Playing
  <2>6. grown \in Nat /\ grown >= 1
    BY <2>2, <2>5, <1>n DEF LesserOf
  <2>7. Produced(jitter, Frame + 1, len, SatSub(good, 2), grown, FALSE)
    BY <1>10 DEF Conceal
  <2> HIDE DEF grown, len
  <2>8. /\ jitter' \subseteq Seqs /\ CapHeld'
        /\ next' \in Nat /\ wasPlc' \in BOOLEAN /\ played' \in Nat
        /\ good' \in Nat /\ target' \in Nat /\ level' \in Nat
        /\ LevelBounded' /\ TalkerTarget'
    <3>1. Frame + 1 \in Nat /\ jitter \in SUBSET jitter
      BY <2>1
    <3> QED
      BY <2>3, <2>4, <2>5, <2>6, <2>7, <3>1, ProducedFact
  <2>9. statExpected' \in Nat /\ statLost' \in Nat /\ statLost' <= statExpected'
    BY <1>10, <1>t DEF Conceal, Safe, TypeOK, LossBounded
  <2>10. lost' \subseteq Nat
    BY <1>10, <1>t, <2>1 DEF Conceal, Recent, Safe, TypeOK
  <2>11. streak' \in Nat /\ buffering' \in BOOLEAN /\ decoded' \subseteq Seqs
    BY <1>10, <1>t DEF Conceal, Safe, TypeOK
  <2> QED
    BY <1>10, <1>t, <2>4, <2>8, <2>9, <2>10, <2>11 DEF Conceal, Safe, TypeOK, LossBounded
<1>11. CASE FadeOut
  <2>1. Frame \in Nat
    BY <1>11, <1>t, FrameFact DEF FadeOut, Safe
  <2>2. TypeOK'
    <3>1. next' \in Nat /\ statExpected' \in Nat
      BY <1>11, <1>t, <2>1 DEF FadeOut, Safe, TypeOK
    <3>2. buffering' \in BOOLEAN /\ decoded' \subseteq Seqs /\ wasPlc' \in BOOLEAN
      BY <1>11 DEF FadeOut
    <3> QED
      BY <1>11, <1>t, <3>1, <3>2 DEF FadeOut, Safe, TypeOK, tuning
  <2>3. LossBounded' /\ TalkerTarget' /\ LevelBounded' /\ CapHeld'
    <3>1. statLost <= statExpected + 1
      BY <1>t DEF Safe, TypeOK, LossBounded
    <3> QED
      BY <1>11, <1>t, <3>1
      DEF FadeOut, Safe, CapHeld, LossBounded, TalkerTarget, LevelBounded, tuning
  <2> QED
    BY <2>2, <2>3 DEF Safe
<1>12. CASE EndCallback
  <2>1. level' \in Nat /\ level' < Need + MaxLen
    BY <1>12, <1>t, <1>n DEF EndCallback, Drained, GreaterOf, Safe, TypeOK, LevelBounded
  <2>2. statLost' \in Nat /\ statExpected' \in Nat /\ statLost' <= statExpected'
    BY <1>12, <1>t DEF EndCallback, Safe, TypeOK, LossBounded
  <2>3. reported' \in Nat \X Positive
    <3>1. CASE statExpected >= ReportEvery
      <4>1. statExpected \in Positive /\ statLost \in Nat
        BY <3>1, <1>t, <1>n DEF Safe, TypeOK, Positive
      <4> QED
        BY <1>12, <1>t, <4>1 DEF EndCallback, Safe, TypeOK
    <3>2. CASE ~(statExpected >= ReportEvery)
      BY <1>12, <1>t, <3>2 DEF EndCallback, Safe, TypeOK
    <3> QED
      BY <3>1, <3>2
  <2> QED
    BY <1>12, <1>t, <2>1, <2>2, <2>3
    DEF EndCallback, CapHeld, Safe, TypeOK, LossBounded, TalkerTarget, LevelBounded, mode, tuning
<1>13. CASE UNCHANGED vars
  BY <1>13, <1>t
  DEF vars, CapHeld, Safe, TypeOK, LossBounded, TalkerTarget, LevelBounded, mode, tuning, stats, sound
<1> QED
  BY <1>1, <1>2, <1>3, <1>4, <1>5, <1>6, <1>7, <1>8, <1>9, <1>10, <1>11, <1>12, <1>13
  DEF Next, Callback, Network

\* A packet that arrives sets next_decode_seq past no other: the first finds the
\* buffer empty, and a later one can only move it back.
LEMMA SnapFact ==
  ASSUME TypeOK, NoneBeforeFirst, NEW s \in Seqs
  PROVE  Snap(s) \in Nat /\ (jitter # {} => Snap(s) <= next)
<1>1. s \in Nat /\ next \in Nat
  BY DEF TypeOK, Seqs
<1>2. CASE awaiting
  BY <1>1, <1>2 DEF NoneBeforeFirst, Snap
<1>3. CASE ~awaiting
  BY <1>1, <1>3 DEF Snap
<1> QED
  BY <1>2, <1>3

\* A pass that takes the packets of `taken' and goes on at n keeps the others.
LEMMA ProducedKeeps ==
  ASSUME NEW taken, NEW n, NEW len, NEW g, NEW t, NEW faded,
         Produced(jitter \ taken, n, len, g, t, faded),
         NEW s \in jitter \ taken, s >= n
  PROVE  s \in OnTime'
  BY DEF Produced, OnTime

\* Every step leaves each packet on time as it was, gives it to the decoder, or is
\* one of the exceptions.
LEMMA OnTimeNext ==
  ASSUME Inv, [Next]_vars, NEW s \in OnTime \ OnTime'
  PROVE  s \in decoded' \/ Emptied \/ Evicts(s) \/ FadeLoses(s)
<1>t. TypeOK /\ CapHeld /\ NoneBeforeFirst /\ next \in Nat
  BY DEF Inv, Safe, TypeOK
<1>s. s \in jitter /\ s >= next /\ s \in Nat
  BY <1>t DEF OnTime, TypeOK, Seqs
<1>1. ASSUME NEW r \in Seqs, AudioPacket(r)
      PROVE  Evicts(s)
  <2>1. next' \in Nat /\ next' <= next
    BY <1>1, <1>t, <1>s, SnapFact DEF AudioPacket
  <2>2. s \notin jitter'
    BY <1>t, <1>s, <2>1 DEF OnTime
  <2>3. jitter' = Store(r) /\ s \in jitter \ Store(r)
    BY <1>1, <1>s, <2>2 DEF AudioPacket
  <2>4. Cardinality(jitter) = Cap /\ s = Min(jitter) /\ jitter' = (jitter \cup {r}) \ {s}
    BY <1>t, <2>3, StoreFact
  <2>5. r \in coming \ coming'
    BY <1>1 DEF AudioPacket
  <2> QED
    BY <2>4, <2>5 DEF Evicts
<1>2. ASSUME NEW b \in BOOLEAN, PeerSilence(b)
      PROVE  Emptied
  <2>1. ~(silenced = b /\ UNCHANGED <<jitter, next, awaiting, buffering, tuning, stats, sound>>)
    BY DEF OnTime
  <2> QED
    BY <1>2, <2>1 DEF PeerSilence, StartSentence, EndSentence, Emptied
<1>3. ASSUME NEW b \in BOOLEAN, PeerChannels(b)
      PROVE  Emptied
  BY <1>3 DEF PeerChannels, Emptied
<1>4. CASE PlayFrame
  <2>1. Frame \in Nat /\ s >= Frame
    BY <1>4, <1>t, <1>s, FrameFact DEF PlayFrame
  <2>2. Produced(jitter \ {Frame}, Frame + 1, FrameLen, good + 1, target, FALSE)
    BY <1>4 DEF PlayFrame
  <2>3. ~(s \in jitter \ {Frame} /\ s >= Frame + 1)
    BY <2>2, ProducedKeeps
  <2>4. s = Frame
    BY <1>s, <2>1, <2>3
  <2> QED
    BY <1>4, <2>4 DEF PlayFrame
<1>5. CASE CatchUp
  <2>1. Frame \in Nat /\ s >= Frame
    BY <1>5, <1>t, <1>s, FrameFact DEF CatchUp
  <2>2. Produced(jitter \ {Frame, Frame + 1}, Frame + 2, FrameLen, good + 2, target, TRUE)
    BY <1>5 DEF CatchUp
  <2>3. ~(s \in jitter \ {Frame, Frame + 1} /\ s >= Frame + 2)
    BY <2>2, ProducedKeeps
  <2>4. s = Frame \/ s = Frame + 1
    BY <1>s, <2>1, <2>3
  <2> QED
    BY <1>5, <2>4 DEF CatchUp
<1>6. CASE CatchUpFails
  <2>1. stereo
    <3>1. played > 0
      BY <1>6, <1>t, ThresholdAssumption DEF CatchUpFails, CatchingUp, TypeOK
    <3>2. lastFrame >= FrameLen
      BY <3>1, LengthAssumption DEF Inv, SizeKnown, Positive
    <3> QED
      BY <1>6, <3>2, LengthAssumption DEF CatchUpFails, FadeFits, Positive
  <2>2. Frame \in Nat /\ s >= Frame
    BY <1>6, <1>t, <1>s, FrameFact DEF CatchUpFails
  <2>3. jitter' = jitter \ {Frame, Frame + 1} /\ next' = Frame + 3
    BY <1>6 DEF CatchUpFails
  <2>4. ~(s >= Frame + 3)
    BY <1>s, <2>2, <2>3 DEF OnTime
  <2>5. s \in Frame..(Frame + 2)
    BY <1>s, <2>2, <2>4
  <2> QED
    BY <1>6, <2>1, <2>5 DEF CatchUpFails, FadeLoses
<1>7. CASE Conceal
  <2>1. Frame \in Nat /\ s >= Frame /\ s # Frame
    BY <1>7, <1>t, <1>s, FrameFact DEF Conceal
  <2>2. jitter' = {k \in jitter : k >= Frame + 1} /\ next' = Frame + 1
    BY <1>7 DEF Conceal, Produced
  <2> QED
    BY <1>s, <2>1, <2>2 DEF OnTime
<1>8. CASE FadeOut
  <2>1. Frame \in Nat /\ s >= Frame
    BY <1>8, <1>t, <1>s, FrameFact DEF FadeOut
  <2> QED
    BY <1>8, <1>s, <2>1 DEF FadeOut, OnTime
<1>9. CASE BeginCallback \/ Refilled \/ Starved \/ EndCallback \/ UNCHANGED vars
  BY <1>9 DEF BeginCallback, Refilled, Starved, EndCallback, vars, OnTime
<1> QED
  BY <1>1, <1>2, <1>3, <1>4, <1>5, <1>6, <1>7, <1>8, <1>9 DEF Next, Callback, Network

-----------------------------------------------------------------------------
\* A set that lost an element of the buffer weighs a packet less.
LEMMA TakenOut ==
  ASSUME TypeOK, NEW k \in jitter, jitter' \subseteq jitter \ {k}
  PROVE  /\ Cardinality(jitter) \in Nat /\ Cardinality(jitter') \in Nat
         /\ Cardinality(jitter') + 1 <= Cardinality(jitter)
<1>1. jitter \subseteq Seqs /\ jitter \ {k} \subseteq Seqs /\ jitter' \subseteq Seqs
  BY DEF TypeOK
<1>2. /\ IsFiniteSet(jitter) /\ Cardinality(jitter) \in Nat
      /\ Cardinality(jitter \ {k}) \in Nat /\ Cardinality(jitter') \in Nat
      /\ Cardinality(jitter') <= Cardinality(jitter \ {k})
  BY <1>1, SeqSets
<1>3. Cardinality(jitter \ {k}) = Cardinality(jitter) - 1
  BY <1>2, FS_RemoveElement
<1> QED
  BY <1>2, <1>3

\* What the loop can do without a packet weighs less than one.
LEMMA RestFact ==
  ASSUME NEW hides \in BOOLEAN, NEW len \in Nat
  PROVE  Rest(hides, len) \in Nat /\ Rest(hides, len) < 2 * Need + 2
<1>1. Need \in Nat
  BY LengthAssumption DEF Positive
<1> QED
  BY <1>1 DEF Rest, SatSub, GreaterOf

\* One packet outweighs the rest.
LEMMA OutweighsRest ==
  ASSUME NEW m \in Nat, NEW n \in Nat, n + 1 <= m, NEW w \in Nat,
         NEW q \in Nat, NEW r \in Nat, r < w
  PROVE  n * w + r < m * w + q
<1> DEFINE d == m - (n + 1)
<1>1. d \in Nat /\ m = n + 1 + d
  OBVIOUS
<1> HIDE DEF d
<1>2. m * w = n * w + w + d * w
  BY <1>1
<1>3. d * w \in Nat /\ n * w \in Nat
  BY <1>1
<1> QED
  BY <1>2, <1>3

\* A pass that takes a packet out comes nearer to the end.
LEMMA TakingShrinks ==
  ASSUME TypeOK, TypeOK', NEW k \in jitter, jitter' \subseteq jitter \ {k}
  PROVE  Passes' < Passes
<1>1. Rest(wasPlc, level) \in Nat
  BY RestFact DEF TypeOK
<1>2. Rest(wasPlc', level') \in Nat /\ Rest(wasPlc', level') < 2 * Need + 2
  BY RestFact DEF TypeOK
<1>3. /\ Cardinality(jitter) \in Nat /\ Cardinality(jitter') \in Nat
      /\ Cardinality(jitter') + 1 <= Cardinality(jitter)
  BY TakenOut
<1>4. 2 * Need + 2 \in Nat
  BY LengthAssumption DEF Positive
<1>5. Cardinality(jitter') * (2 * Need + 2) + Rest(wasPlc', level')
        < Cardinality(jitter) * (2 * Need + 2) + Rest(wasPlc, level)
  BY <1>1, <1>2, <1>3, <1>4, OutweighsRest
<1> QED
  BY <1>5 DEF Passes

\* So does one that conceals a frame: it hides what the last one left, or makes
\* the audio longer, since the decoder's frames have a length.
LEMMA ConcealShrinks ==
  ASSUME TypeOK, TypeOK', Conceal
  PROVE  Passes' < Passes
<1>1. PICK len \in Lengths :
        /\ jitter' = {k \in jitter : k >= Frame + 1}
        /\ level' = IF wasPlc /\ level > 0 THEN len ELSE level + len
        /\ wasPlc' = FALSE
  <2>1. MaxLen \in Lengths /\ lastFrame \in Lengths
    BY DEF TypeOK, Lengths
  <2> QED
    BY <2>1 DEF Conceal, Produced
<1>2. /\ Need \in Nat /\ len \in Nat /\ len > 0 /\ level \in Nat /\ level < Need
      /\ level' \in Nat /\ wasPlc \in BOOLEAN
  BY LengthAssumption DEF Conceal, Playing, TypeOK, Lengths, Positive
<1>3. Rest(wasPlc', level') < Rest(wasPlc, level)
  <2>1. CASE wasPlc /\ level > 0
    BY <1>1, <1>2, <2>1 DEF Rest, SatSub, GreaterOf
  <2>2. CASE ~(wasPlc /\ level > 0)
    BY <1>1, <1>2, <2>2 DEF Rest, SatSub, GreaterOf
  <2> QED
    BY <2>1, <2>2
<1>4. Rest(wasPlc, level) \in Nat /\ Rest(wasPlc', level') \in Nat
  BY RestFact DEF TypeOK
<1>5. CASE jitter' = jitter
  <2>1. Cardinality(jitter) * (2 * Need + 2) \in Nat
    <3>1. Cardinality(jitter) \in Nat
      BY SeqSets DEF TypeOK
    <3> QED
      BY <1>2, <3>1
  <2> QED
    BY <1>3, <1>4, <1>5, <2>1 DEF Passes
<1>6. CASE jitter' # jitter
  <2>1. PICK k \in jitter : k \notin jitter'
    BY <1>1, <1>6
  <2> QED
    BY <1>1, <2>1, TakingShrinks
<1> QED
  BY <1>5, <1>6

\* Each way through the loop that does not leave it brings its end nearer.
LEMMA ShrinksNext ==
  ASSUME TypeOK, TypeOK', Next, phase = "refill", phase' = "refill"
  PROVE  Passes' < Passes
<1>1. CASE PlayFrame
  <2>1. Frame \in jitter /\ jitter' \subseteq jitter \ {Frame}
    BY <1>1 DEF PlayFrame, Produced
  <2> QED
    BY <2>1, TakingShrinks
<1>2. CASE CatchUp
  <2>1. Frame \in jitter /\ jitter' \subseteq jitter \ {Frame}
    BY <1>2 DEF CatchUp, CatchingUp, Produced
  <2> QED
    BY <2>1, TakingShrinks
<1>3. CASE CatchUpFails
  <2>1. Frame \in jitter /\ jitter' \subseteq jitter \ {Frame}
    BY <1>3 DEF CatchUpFails, CatchingUp
  <2> QED
    BY <2>1, TakingShrinks
<1>4. CASE Conceal
  BY <1>4, ConcealShrinks
<1>5. ~(BeginCallback \/ Refilled \/ Starved \/ FadeOut \/ EndCallback \/ Network)
  BY DEF BeginCallback, Refilled, Starved, FadeOut, EndCallback, Network,
         AudioPacket, PeerSilence, PeerChannels
<1> QED
  BY <1>1, <1>2, <1>3, <1>4, <1>5 DEF Next, Callback

\* A full buffer bounds the measure.
LEMMA PassesBounded == TypeOK /\ CapHeld => LoopBounded
<1> SUFFICES ASSUME TypeOK, CapHeld PROVE LoopBounded
  OBVIOUS
<1>1. Rest(wasPlc, level) \in Nat /\ Rest(wasPlc, level) < 2 * Need + 2
  BY RestFact DEF TypeOK
<1>2. Cardinality(jitter) \in Nat /\ Cap \in Nat /\ Cardinality(jitter) + 1 <= Cap + 1
  BY SeqSets, ThresholdAssumption DEF TypeOK, CapHeld, Positive
<1>3. 2 * Need + 2 \in Nat
  BY LengthAssumption DEF Positive
<1>4. Cardinality(jitter) * (2 * Need + 2) + Rest(wasPlc, level) < (Cap + 1) * (2 * Need + 2) + 0
  <2>1. Cap + 1 \in Nat
    BY <1>2
  <2> QED
    BY <1>1, <1>2, <1>3, <2>1, OutweighsRest
<1>5. (Cap + 1) * (2 * Need + 2) \in Int
  BY <1>2, <1>3
<1> QED
  BY <1>4, <1>5 DEF LoopBounded, Passes

-----------------------------------------------------------------------------
\* The inductive invariant: the types, the bounds the properties state, and the
\* buffer's cap, which makes room for one packet more enough.
THEOREM Invariant == Spec => []Inv
  BY InvInit, InvNext, PTL DEF Spec

\* The variables keep their types.
THEOREM TypeCorrect == Spec => []TypeOK
<1>1. Inv => TypeOK
  BY DEF Inv, Safe
<1> QED
  BY Invariant, <1>1, PTL

\* No loss report is above 1, however late arrivals, resets and repeated frames
\* fall: statLost never exceeds statExpected.
THEOREM ReportsBounded == Spec => []LossBounded
<1>1. Inv => LossBounded
  BY DEF Inv, Safe
<1> QED
  BY Invariant, <1>1, PTL

\* A talking peer's jitter target is at least one frame.
THEOREM TargetOfTalker == Spec => []TalkerTarget
<1>1. Inv => TalkerTarget
  BY DEF Inv, Safe
<1> QED
  BY Invariant, <1>1, PTL

\* The playback buffer holds less than a need and the longest frame.
THEOREM PlaybackBounded == Spec => []LevelBounded
<1>1. Inv => LevelBounded
  BY DEF Inv, Safe
<1> QED
  BY Invariant, <1>1, PTL

\* No step takes a packet on time out of the buffer, or sets next_decode_seq past
\* it, without giving it to the decoder, apart from the three named exceptions.
THEOREM OnTimeIsPlayed == Spec => OnTimePlayed
<1>1. Inv /\ [Next]_vars =>
        [\A s \in OnTime \ OnTime' :
           s \in decoded' \/ Emptied \/ Evicts(s) \/ FadeLoses(s)]_vars
  BY OnTimeNext
<1> QED
  BY Invariant, <1>1, PTL DEF Spec, OnTimePlayed

\* Each pass of the refill loop that stays in it brings its end nearer: no order
\* of missing, late and doubled frames keeps the callback there.
THEOREM RefillShrinks == Spec => LoopShrinks
<1>1. Inv /\ Inv' /\ [Next]_vars => [phase = "refill" /\ phase' = "refill" => Passes' < Passes]_vars
  BY ShrinksNext DEF Inv, Safe
<1> QED
  BY Invariant, <1>1, PTL DEF Spec, LoopShrinks

\* And there is a bound on the passes of a callback, which holds the mutex.
THEOREM RefillBounded == Spec => []LoopBounded
<1>1. Inv => LoopBounded
  BY PassesBounded DEF Inv, Safe
<1> QED
  BY Invariant, <1>1, PTL
=============================================================================
