---------------------------- MODULE JitterBuffer ----------------------------
(***************************************************************************)
(* What a client keeps of one peer to play its audio: PeerState            *)
(* (libs/proxa-client/src/peer.rs) and what drives it in client.rs.        *)
(*                                                                         *)
(* Two threads work on a PeerState, both under the mutex of ClientState:   *)
(* the network task inserts packets and applies control messages, the      *)
(* audio callback refills the playback buffer, plays from it and reports   *)
(* the loss.  A callback holds the mutex from its first to its last step   *)
(* (`phase'), so the network task's actions happen between callbacks.      *)
(* Each pass through the loop of refill_buffer is one action.              *)
(*                                                                         *)
(* A packet is its sequence number: the talker sends each number once, and *)
(* datagrams are lost and reordered, not duplicated.  Its payload decodes. *)
(* Lengths of audio are in units of the caller's choice.  The thresholds   *)
(* of the code are constants; their values there are given with them.      *)
(* total_expected and total_lost, which nothing reads, and the volume and  *)
(* playback rate, which decide nothing here, are left out.                 *)
(*                                                                         *)
(* A definition marked "Mistake" is a plausible error in the definition    *)
(* after it; nothing here uses it.                                         *)
(***************************************************************************)
EXTENDS Integers, FiniteSetsExt

CONSTANTS
  MaxSeq,         \* bound: the talker sends the packets 0..MaxSeq
  MaxExpected,    \* bound: no callback starts with more expected frames
  StartWindow,    \* 3: packets to start playing with
  RestartStreak,  \* 3: after a longer streak of misses one packet will do
  RebufferStreak, \* 15: longer streaks of misses stop playback
  GrowStreak,     \* 8: streaks after which the jitter target grows
  GrowMax,        \* 60: the jitter target a streak of misses can reach
  LateMax,        \* 100: the one late packets can reach
  JumpGap,        \* 30: a greater distance to the newest packet is skipped
  CatchUpGap,     \* 5: frames above the target that start catching up
  Settled,        \* 100: frames played before catching up is considered
  LateSettled,    \* 50: frames played before late packets raise the target
  PlayedMax,      \* 1000: where the count of played frames saturates
  Cap,            \* 1000: packets kept
  Keep,           \* 1000: how far back late packets and losses matter
  SilenceDecay,   \* 100: silent callbacks after which the target shrinks
  SyncTarget,     \* 3: the target a sentence starts with
  ReportEvery,    \* 50: expected frames in a loss report
  FrameLen,       \* length of a talker's frame
  MaxLen,         \* 120 ms: what the decoder makes of a frame from FEC
  FirstLen,       \* 10 ms: last_frame_size before anything was decoded
  GoodTarget,     \* 500 ms in frames of each length, at least 1
  Need,           \* length a callback wants in the buffer
  Pull            \* length it takes out of it

Positive == Nat \ {0}
Lengths == {FrameLen, MaxLen, FirstLen}

ASSUME LengthAssumption ==
  /\ FrameLen \in Positive /\ MaxLen \in Positive /\ FirstLen \in Positive
  /\ FrameLen <= MaxLen /\ FirstLen <= MaxLen
  /\ GoodTarget \in [Lengths -> Positive]
  /\ Need \in Positive /\ Pull \in Positive
ASSUME ThresholdAssumption ==
  /\ {MaxSeq, MaxExpected, RestartStreak, RebufferStreak, JumpGap, CatchUpGap,
      Settled, LateSettled, PlayedMax, Keep} \subseteq Nat
  /\ {StartWindow, GrowStreak, GrowMax, LateMax, Cap, SilenceDecay, SyncTarget,
      ReportEvery} \subseteq Positive

VARIABLES
  jitter,        \* jitter_buffer: sequence numbers of the packets in it
  next,          \* next_decode_seq
  awaiting,      \* awaiting_first_packet
  buffering,     \* is_buffering
  silenced,      \* is_silenced
  stereo,        \* channels
  target,        \* target_jitter_frames
  streak,        \* missing_frames_streak
  good,          \* good_frames
  played,        \* played_frames_since_silence
  silence,       \* silence_frames
  lost,          \* lost_sequences
  statLost,      \* stat_lost
  statExpected,  \* stat_expected
  reported,      \* reported_loss_rate, as <<lost, expected>>
  level,         \* length of audio in the playback buffer
  lastFrame,     \* last_frame_size
  wasPlc,        \* was_plc
  phase,         \* the step of the audio callback
  decoded,       \* packets the last step gave to the decoder (history)
  coming         \* packets that have not arrived yet

stats   == <<lost, statLost, statExpected, reported>>
tuning  == <<target, streak, good, played, silence>>
sound   == <<level, lastFrame, wasPlc>>
mode    == <<awaiting, buffering, silenced, stereo>>
vars    == <<jitter, next, mode, tuning, stats, sound, phase, decoded, coming>>

Seqs == 0..MaxSeq

TypeOK ==
  /\ jitter \subseteq Seqs /\ next \in Nat
  /\ awaiting \in BOOLEAN /\ buffering \in BOOLEAN
  /\ silenced \in BOOLEAN /\ stereo \in BOOLEAN
  /\ target \in Nat /\ streak \in Nat /\ good \in Nat
  /\ played \in Nat /\ silence \in Nat
  /\ lost \subseteq Nat /\ statLost \in Nat /\ statExpected \in Nat
  /\ reported \in Nat \X Positive
  /\ level \in Nat /\ lastFrame \in Lengths /\ wasPlc \in BOOLEAN
  /\ phase \in {"idle", "refill", "pull"}
  /\ decoded \subseteq Seqs /\ coming \subseteq Seqs

\* PeerState::new.
Init ==
  /\ jitter = {} /\ next = 0
  /\ awaiting = TRUE /\ buffering = TRUE /\ silenced = TRUE
  /\ stereo \in BOOLEAN
  /\ target = 1 /\ streak = 0 /\ good = 0 /\ played = 0 /\ silence = 0
  /\ lost = {} /\ statLost = 0 /\ statExpected = 0 /\ reported = <<0, 1>>
  /\ level = 0 /\ lastFrame = FirstLen /\ wasPlc = FALSE
  /\ phase = "idle" /\ decoded = {} /\ coming = Seqs

LesserOf(a, b) == IF a < b THEN a ELSE b
GreaterOf(a, b) == IF a > b THEN a ELSE b
SatSub(a, b) == GreaterOf(a - b, 0)   \* saturating_sub

-----------------------------------------------------------------------------
(* The network task.                                                       *)

\* Where the next frame to decode is once packet s has arrived.
Snap(s) == IF awaiting \/ (buffering /\ s < next) THEN s ELSE next

\* Mistake (TypeOK): the count of losses is not saturated at 0.
LateUnsaturated(s) ==
  /\ lost' = lost \ {s}
  /\ statLost' = IF s \in lost THEN statLost - 1 ELSE statLost
  /\ target' = IF ~buffering /\ played > LateSettled
                 THEN LesserOf(target + 1, LateMax) ELSE target

\* Packet s has been concealed already: undo its loss, raise the target.
Late(s) ==
  /\ lost' = lost \ {s}
  /\ statLost' = IF s \in lost THEN SatSub(statLost, 1) ELSE statLost
  /\ target' = IF ~buffering /\ played > LateSettled
                 THEN LesserOf(target + 1, LateMax) ELSE target

\* The buffer with s in it, and without its oldest packet when it is too full.
Store(s) ==
  LET full == jitter \cup {s}
  IN  IF Cardinality(full) > Cap THEN full \ {Min(full)} ELSE full

AudioPacket(s) ==
  /\ phase = "idle" /\ s \in coming
  /\ coming' = coming \ {s}
  /\ next' = Snap(s)
  /\ awaiting' = FALSE
  /\ IF s + Keep >= Snap(s)
       THEN /\ jitter' = Store(s)
            /\ IF s < Snap(s) THEN Late(s) ELSE UNCHANGED <<lost, statLost, target>>
       ELSE UNCHANGED <<jitter, lost, statLost, target>>
  /\ decoded' = {}
  /\ UNCHANGED <<buffering, silenced, stereo, streak, good, played, silence,
                 statExpected, reported, sound, phase>>

\* Mistake (LossBounded): only one of the two counts starts afresh.
StartSentenceWithLosses ==
  /\ jitter' = {} /\ next' = 0
  /\ awaiting' = TRUE /\ buffering' = TRUE
  /\ target' = SyncTarget /\ good' = 0 /\ played' = 0
  /\ statExpected' = 0
  /\ level' = 0 /\ wasPlc' = FALSE
  /\ UNCHANGED <<streak, silence, lost, statLost, reported, lastFrame>>

\* The talker starts a sentence: the "total sync".
StartSentence ==
  /\ jitter' = {} /\ next' = 0
  /\ awaiting' = TRUE /\ buffering' = TRUE
  /\ target' = SyncTarget /\ good' = 0 /\ played' = 0
  /\ statLost' = 0 /\ statExpected' = 0
  /\ level' = 0 /\ wasPlc' = FALSE
  /\ UNCHANGED <<streak, silence, lost, reported, lastFrame>>

EndSentence ==
  /\ jitter' = {} /\ awaiting' = TRUE /\ buffering' = TRUE
  /\ UNCHANGED <<next, tuning, stats, sound>>

PeerSilence(s) ==
  /\ phase = "idle"
  /\ \/ silenced /\ ~s /\ StartSentence
     \/ ~silenced /\ s /\ EndSentence
     \/ silenced = s /\ UNCHANGED <<jitter, next, awaiting, buffering, tuning,
                                    stats, sound>>
  /\ silenced' = s /\ decoded' = {}
  /\ UNCHANGED <<stereo, phase, coming>>

\* PeerChannels from the relay; with the same channels also what the client's
\* own set_channels does to every peer.
PeerChannels(s) ==
  /\ phase = "idle"
  /\ stereo' = s
  /\ jitter' = {} /\ level' = 0 /\ buffering' = TRUE /\ awaiting' = TRUE
  /\ decoded' = {}
  /\ UNCHANGED <<next, silenced, tuning, stats, lastFrame, wasPlc, phase,
                 coming>>

-----------------------------------------------------------------------------
(* The audio callback: refill_buffer.                                      *)

BeginCallback ==
  /\ phase = "idle" /\ statExpected <= MaxExpected
  /\ phase' = "refill"
  /\ silence' = IF silenced /\ silence + 1 < SilenceDecay THEN silence + 1 ELSE 0
  /\ target' = IF silenced /\ silence + 1 >= SilenceDecay
                 THEN SatSub(target, 1) ELSE target
  /\ decoded' = {}
  /\ UNCHANGED <<jitter, next, mode, streak, good, played, stats, sound, coming>>

\* max - min + 1 of the packets in the buffer.
Window == IF jitter = {} THEN 0 ELSE Max(jitter) + 1 - Min(jitter)

MayStart == Window >= StartWindow \/ (Window >= 1 /\ streak > RestartStreak)

\* Mistake (LevelBounded): a full buffer gets one more frame.
PlayingWhenFull == phase = "refill" /\ level <= Need /\ ~awaiting /\ (buffering => MayStart)

\* A pass through the loop that gets past the two checks at its top.
Playing == phase = "refill" /\ level < Need /\ ~awaiting /\ (buffering => MayStart)

Refilled ==
  /\ phase = "refill" /\ (level >= Need \/ awaiting)
  /\ phase' = "pull" /\ decoded' = {}
  /\ UNCHANGED <<jitter, next, mode, tuning, stats, sound, coming>>

\* Mistake (RefillEnds): the pass neither fills the buffer nor ends the loop.
StarvedForever ==
  /\ phase = "refill" /\ level < Need /\ ~awaiting /\ buffering /\ ~MayStart
  /\ UNCHANGED vars

\* Still buffering: the rest is silence.
Starved ==
  /\ phase = "refill" /\ level < Need /\ ~awaiting /\ buffering /\ ~MayStart
  /\ level' = Need
  /\ phase' = "pull" /\ decoded' = {}
  /\ UNCHANGED <<jitter, next, mode, tuning, stats, lastFrame, wasPlc, coming>>

\* The frame to decode: buffering ends at the oldest packet, and when the
\* newest is too far ahead playback jumps to the oldest.
Start == IF buffering THEN Min(jitter) ELSE next
Frame ==
  IF ~silenced /\ jitter # {} /\ Max(jitter) > Start + JumpGap
    THEN Min(jitter) ELSE Start

CatchingUp ==
  /\ played > Settled
  /\ jitter # {} /\ Max(jitter) + 1 > Start
  /\ Max(jitter) + 1 - Start > target + CatchUpGap
  /\ {Frame, Frame + 1} \subseteq jitter

\* Mistake (OnTimePlayed): the room is taken to be short for a mono peer as well.
FadeFitsInStereo == lastFrame >= 2 * FrameLen

\* decode_crossfade gives the decoder room for last_frame_size samples, which
\* have to hold all channels of a frame.
FadeFits == lastFrame >= (IF stereo THEN 2 ELSE 1) * FrameLen

\* Mistake (TalkerTarget): clean audio shrinks the target to nothing.
ProducedShrinking(js, n, len, g, t, faded) ==
  LET rested == g >= GoodTarget[lastFrame']
  IN  /\ jitter' = {k \in js : k >= n}
      /\ next' = n
      /\ level' = IF wasPlc /\ level > 0 THEN len ELSE level + len
      /\ wasPlc' = (faded /\ ~(wasPlc /\ level > 0))
      /\ played' = IF faded THEN played ELSE LesserOf(played + 1, PlayedMax)
      /\ good' = IF rested THEN 0 ELSE g
      /\ target' = IF rested THEN SatSub(t, 1) ELSE t

\* Mistake (OnTimePlayed): the packet to decode next is not retained.
ProducedDropping(js, n, len, g, t, faded) ==
  LET rested == g >= GoodTarget[lastFrame']
  IN  /\ jitter' = {k \in js : k > n}
      /\ next' = n
      /\ level' = IF wasPlc /\ level > 0 THEN len ELSE level + len
      /\ wasPlc' = (faded /\ ~(wasPlc /\ level > 0))
      /\ played' = IF faded THEN played ELSE LesserOf(played + 1, PlayedMax)
      /\ good' = IF rested THEN 0 ELSE g
      /\ target' = IF rested THEN GreaterOf(SatSub(t, 1), 1) ELSE t

\* The end of a pass that has produced audio of length len, with g good
\* frames, frame n to decode next and packets js left.
Produced(js, n, len, g, t, faded) ==
  LET rested == g >= GoodTarget[lastFrame']
  IN  /\ jitter' = {k \in js : k >= n}
      /\ next' = n
      /\ level' = IF wasPlc /\ level > 0 THEN len ELSE level + len
      /\ wasPlc' = (faded /\ ~(wasPlc /\ level > 0))
      /\ played' = IF faded THEN played ELSE LesserOf(played + 1, PlayedMax)
      /\ good' = IF rested THEN 0 ELSE g
      /\ target' = IF rested THEN GreaterOf(SatSub(t, 1), 1) ELSE t

\* Losses too old to matter are forgotten.
Recent(set, n) == {k \in set : k >= SatSub(n, Keep)}

PlayFrame ==
  /\ Playing /\ ~CatchingUp /\ Frame \in jitter
  /\ statExpected' = statExpected + 1
  /\ lastFrame' = FrameLen
  /\ streak' = 0
  /\ decoded' = {Frame}
  /\ Produced(jitter \ {Frame}, Frame + 1, FrameLen, good + 1, target, FALSE)
  /\ buffering' = FALSE
  /\ lost' = Recent(lost, Frame + 1)
  /\ UNCHANGED <<awaiting, silenced, stereo, silence, statLost, reported,
                 phase, coming>>

\* Two frames are faded into one.
CatchUp ==
  /\ Playing /\ CatchingUp /\ FadeFits
  /\ statExpected' = statExpected + 2
  /\ decoded' = {Frame, Frame + 1}
  /\ lastFrame' = lastFrame
  /\ Produced(jitter \ {Frame, Frame + 1}, Frame + 2, FrameLen, good + 2, target, TRUE)
  /\ buffering' = FALSE
  /\ lost' = Recent(lost, Frame + 2)
  /\ UNCHANGED <<awaiting, silenced, stereo, streak, silence, statLost,
                 reported, phase, coming>>

\* The decoder refuses: both packets are gone, and a third number is skipped.
CatchUpFails ==
  /\ Playing /\ CatchingUp /\ ~FadeFits
  /\ statExpected' = statExpected + 1
  /\ jitter' = jitter \ {Frame, Frame + 1}
  /\ next' = Frame + 3
  /\ buffering' = FALSE
  /\ decoded' = {}
  /\ UNCHANGED <<awaiting, silenced, stereo, tuning, lost, statLost, reported,
                 sound, phase, coming>>

\* With this frame the streak is too long, and nothing newer is there.
Dropout == (jitter = {} \/ Max(jitter) <= Frame) /\ streak + 1 > RebufferStreak

\* A talker's frame is missing.  The next packet may carry a copy (FEC), of
\* which the decoder makes as much audio as it has room for; otherwise it
\* extrapolates (PLC), and long streaks raise the target.
Conceal ==
  LET fec == Frame + 1 \in jitter
      grown == IF ~fec /\ streak > GrowStreak /\ streak % GrowStreak = 0
                 THEN LesserOf(target + 1, GrowMax) ELSE target
  IN  /\ Playing /\ Frame \notin jitter /\ ~silenced
      /\ statExpected' = statExpected + 1
      /\ statLost' = statLost + 1
      /\ lost' = Recent(lost \cup {Frame}, Frame + 1)
      /\ lastFrame' = IF fec THEN MaxLen ELSE lastFrame
      /\ streak' = streak + 1
      /\ decoded' = {}
      /\ Produced(jitter, Frame + 1, IF fec THEN MaxLen ELSE lastFrame, SatSub(good, 2), grown, FALSE)
      /\ buffering' = (Dropout /\ Cardinality(jitter) <= GreaterOf(grown, 1))
      /\ UNCHANGED <<awaiting, silenced, stereo, silence, reported, phase,
                     coming>>

\* The peer is silent and nothing is left: fade out.
FadeOut ==
  /\ Playing /\ Frame \notin jitter /\ silenced
  /\ statExpected' = statExpected + 1
  /\ next' = Frame /\ buffering' = FALSE
  /\ wasPlc' = TRUE
  /\ phase' = "pull" /\ decoded' = {}
  /\ UNCHANGED <<jitter, awaiting, silenced, stereo, tuning, lost, statLost,
                 reported, level, lastFrame, coming>>

-----------------------------------------------------------------------------
(* The audio callback: playing and reporting (pop_audio_internal).         *)

\* The resampler leaves a few samples behind that it needs for the next call.
Drained == IF level = 0 THEN 0 ELSE GreaterOf(level - Pull, 1)

\* The rate differs from the reported one by more than 0.02, is 0 or is 1.
WorthReporting ==
  LET diff == statLost * reported[2] - reported[1] * statExpected
      abs == IF diff < 0 THEN -diff ELSE diff
  IN  \/ 50 * abs > statExpected * reported[2]
      \/ statLost = 0
      \/ statLost >= statExpected

EndCallback ==
  /\ phase = "pull"
  /\ phase' = "idle" /\ decoded' = {}
  /\ IF silenced /\ jitter = {} /\ level = 0
       THEN UNCHANGED <<level, statLost, statExpected, reported>>
       ELSE /\ level' = Drained
            /\ IF statExpected >= ReportEvery
                 THEN /\ statLost' = 0 /\ statExpected' = 0
                      /\ reported' = IF WorthReporting
                                       THEN <<statLost, statExpected>> ELSE reported
                 ELSE UNCHANGED <<statLost, statExpected, reported>>
  /\ UNCHANGED <<jitter, next, mode, tuning, lost, lastFrame, wasPlc, coming>>

-----------------------------------------------------------------------------
Callback ==
  \/ BeginCallback \/ Refilled \/ Starved
  \/ PlayFrame \/ CatchUp \/ CatchUpFails \/ Conceal \/ FadeOut
  \/ EndCallback

Network ==
  \/ \E s \in Seqs : AudioPacket(s)
  \/ \E s \in BOOLEAN : PeerSilence(s) \/ PeerChannels(s)

Next == Callback \/ Network

Spec == Init /\ [][Next]_vars

\* The audio device keeps calling, and a callback that has begun goes on.
FairSpec == Spec /\ WF_vars(Callback)

-----------------------------------------------------------------------------
(* Properties.                                                             *)

\* A reported loss rate is never above 1: late arrivals, resets and repeated
\* frames never leave more losses than expected frames.
LossBounded == statLost <= statExpected

\* While the peer talks the jitter target is at least one frame, although it
\* may have shrunk to none while it was silent.
TalkerTarget == ~silenced => target >= 1

\* The playback buffer never holds a callback's need plus the longest frame:
\* concealment and catching up do not build up delay in it.
LevelBounded == level < Need + MaxLen

\* The packets that are still to be played: next_decode_seq is not past them.
OnTime == {s \in jitter : s >= next}

\* A packet arrives at a full buffer, and s, the oldest in it, makes room.
Evicts(s) ==
  /\ Cardinality(jitter) = Cap /\ s = Min(jitter)
  /\ \E k \in coming \ coming' : jitter' = (jitter \cup {k}) \ {s}

\* A control message empties the buffer, and playback starts anew.
Emptied == phase = "idle" /\ awaiting' /\ jitter' = {}

\* Frames that a failed catch-up, which only a stereo peer's can be, passes over.
FadeLoses(s) == stereo /\ Playing /\ CatchingUp /\ ~FadeFits /\ s \in Frame..(Frame + 2)

\* A packet that is in the buffer on time stays so until the decoder gets it:
\* it neither vanishes nor is passed over, whether playback skips, jumps, catches
\* up or conceals.  The exceptions are the three above, and a failed catch-up
\* costs the two packets it took and the next number, never more.
OnTimePlayed ==
  [][\A s \in OnTime \ OnTime' :
       s \in decoded' \/ Emptied \/ Evicts(s) \/ FadeLoses(s)]_vars

\* How far the refill loop is from its end at most: what a packet can bring
\* about weighs more than a concealed frame that hides the last one, and that
\* more than the length still missing.
Rest(hides, len) == (IF hides THEN Need + 1 ELSE 0) + SatSub(Need, len)
Passes == Cardinality(jitter) * (2 * Need + 2) + Rest(wasPlc, level)

\* Every pass that stays in the loop brings its end nearer, also one that plays
\* nothing, or whose audio takes the place of what was there.
LoopShrinks == [][phase = "refill" /\ phase' = "refill" => Passes' < Passes]_vars

\* The audio callback holds the mutex for a bounded number of passes.
LoopBounded == Passes < (Cap + 1) * (2 * Need + 2)

\* The audio callback gets out of its loop.
RefillEnds == phase = "refill" ~> phase = "pull"
=============================================================================
