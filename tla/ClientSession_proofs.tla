------------------------ MODULE ClientSession_proofs ------------------------
(* Theorems about ClientSession for all peers, settings and bounds.         *)
EXTENDS ClientSession, TLAPS

-----------------------------------------------------------------------------
(* A queue q of messages, of which those in K are about one thing and those *)
(* in G say of it what is true.                                             *)

\* The last message about it, if there is one, says what is true.
Ends(q, K, G) ==
  \A i \in 1..Len(q) :
    q[i] \in K /\ (\A j \in 1..Len(q) : j > i => q[j] \notin K) => q[i] \in G

Absent(q, K) == \A i \in 1..Len(q) : q[i] \notin K

\* What Append returns, position by position.
LEMMA AppendFacts ==
  ASSUME NEW S, NEW q \in Seq(S), NEW m \in S
  PROVE  /\ Append(q, m) \in Seq(S)
         /\ Len(q) \in Nat
         /\ Len(Append(q, m)) = Len(q) + 1
         /\ \A i \in 1..Len(q) : Append(q, m)[i] = q[i]
         /\ Append(q, m)[Len(q) + 1] = m
  OBVIOUS

\* What Tail and Head return.
LEMMA TailFacts ==
  ASSUME NEW S, NEW q \in Seq(S), q # <<>>
  PROVE  /\ Tail(q) \in Seq(S)
         /\ Len(q) \in Nat /\ Len(q) >= 1
         /\ Len(Tail(q)) = Len(q) - 1
         /\ \A i \in 1..(Len(q) - 1) : Tail(q)[i] = q[i + 1]
         /\ Head(q) \in S /\ Head(q) = q[1]
  OBVIOUS

\* A message about something else changes nothing.
LEMMA EndsOther ==
  ASSUME NEW S, NEW q \in Seq(S), NEW m \in S, NEW K, NEW G, m \notin K
  PROVE  /\ Ends(q, K, G) => Ends(Append(q, m), K, G)
         /\ Absent(Append(q, m), K) => Absent(q, K)
<1> DEFINE r == Append(q, m)
<1>1. /\ Len(q) \in Nat /\ Len(r) = Len(q) + 1
      /\ \A i \in 1..Len(q) : r[i] = q[i]
      /\ r[Len(q) + 1] = m
  BY AppendFacts
<1> HIDE DEF r
<1>2. ASSUME Ends(q, K, G), NEW i \in 1..Len(r), r[i] \in K,
             \A j \in 1..Len(r) : j > i => r[j] \notin K
      PROVE  r[i] \in G
  <2>1. i \in 1..Len(q)
    BY <1>1, <1>2
  <2>2. \A j \in 1..Len(q) : j > i => q[j] \notin K
    BY <1>1, <1>2
  <2> QED
    BY <1>1, <1>2, <2>1, <2>2 DEF Ends
<1>3. Absent(r, K) => Absent(q, K)
  BY <1>1 DEF Absent
<1> QED
  BY <1>2, <1>3 DEF Ends, r

\* A true message about it makes the queue end with the truth.
LEMMA EndsTrue ==
  ASSUME NEW S, NEW q \in Seq(S), NEW m \in S, NEW K, NEW G, m \in K, m \in G
  PROVE  Ends(Append(q, m), K, G) /\ ~Absent(Append(q, m), K)
<1> DEFINE r == Append(q, m)
<1>1. /\ Len(q) \in Nat /\ Len(r) = Len(q) + 1
      /\ r[Len(q) + 1] = m
  BY AppendFacts
<1> HIDE DEF r
<1>2. ASSUME NEW i \in 1..Len(r), r[i] \in K,
             \A j \in 1..Len(r) : j > i => r[j] \notin K
      PROVE  r[i] \in G
  <2>1. i = Len(q) + 1
    BY <1>1, <1>2
  <2> QED
    BY <1>1, <2>1
<1>3. ~Absent(r, K)
  BY <1>1 DEF Absent
<1> QED
  BY <1>2, <1>3 DEF Ends, r

\* When the first message is taken, the last one about it is as before; if
\* there is none left, there was none or it is the one taken.
LEMMA EndsTaken ==
  ASSUME NEW S, NEW q \in Seq(S), q # <<>>, NEW K, NEW G, Ends(q, K, G)
  PROVE  /\ Ends(Tail(q), K, G)
         /\ Absent(Tail(q), K) => \/ Absent(q, K) /\ Head(q) \notin K
                                  \/ Head(q) \in K /\ Head(q) \in G
<1> DEFINE r == Tail(q)
<1>1. /\ Len(q) \in Nat /\ Len(q) >= 1 /\ Len(r) = Len(q) - 1
      /\ \A i \in 1..(Len(q) - 1) : r[i] = q[i + 1]
      /\ Head(q) = q[1]
  BY TailFacts
<1> HIDE DEF r
<1>2. ASSUME NEW i \in 1..Len(r), r[i] \in K,
             \A j \in 1..Len(r) : j > i => r[j] \notin K
      PROVE  r[i] \in G
  <2>1. i + 1 \in 1..Len(q) /\ r[i] = q[i + 1]
    BY <1>1
  <2>2. ASSUME NEW j \in 1..Len(q), j > i + 1
        PROVE  q[j] \notin K
    <3>1. j - 1 \in 1..Len(r) /\ j - 1 > i /\ (j - 1) + 1 = j
      BY <1>1, <2>2
    <3> QED
      BY <1>1, <1>2, <3>1
  <2> QED
    BY <1>2, <2>1, <2>2 DEF Ends
<1>3. ASSUME Absent(r, K)
      PROVE  \A j \in 1..Len(q) : j > 1 => q[j] \notin K
  <2> TAKE j \in 1..Len(q)
  <2> HAVE j > 1
  <2>1. j - 1 \in 1..Len(r) /\ (j - 1) + 1 = j
    BY <1>1
  <2> QED
    BY <1>1, <1>3, <2>1 DEF Absent
<1>4. 1 \in 1..Len(q)
  BY <1>1
<1>5. ASSUME Absent(r, K)
      PROVE  \/ Absent(q, K) /\ Head(q) \notin K
             \/ Head(q) \in K /\ Head(q) \in G
  <2>1. CASE q[1] \in K
    BY <1>1, <1>3, <1>4, <1>5, <2>1 DEF Ends
  <2>2. CASE q[1] \notin K
    BY <1>1, <1>3, <1>4, <1>5, <2>2 DEF Absent
  <2> QED
    BY <2>1, <2>2
<1> QED
  BY <1>2, <1>5 DEF Ends, r

-----------------------------------------------------------------------------
(* The invariant.                                                           *)

AnySilence == {SetSilence(b) : b \in BOOLEAN}
AnyChannels == {SetChannels(b) : b \in BOOLEAN}
About(p) == {PeerJoined(p), PeerLeft(p)}
Truth(p) == IF p \in introduced THEN {PeerJoined(p)} ELSE {PeerLeft(p)}

\* A read holds pieces only of a message, in the select loop, and a new
\* connection starts without peers.
PartialInv == partial => stage = "joined" /\ inbox # <<>>
FreshInv == stage = "opening" => peers = {}
\* The task waits for bytes only after it has read garbage.
BlockedInv == stage = "blocked" => garbled
\* The last report on its way to the relay is right, and once none is, the
\* relay has what it says, if it was told at all.
SilenceInv ==
  /\ Ends(reports, AnySilence, {SetSilence(throttled)})
  /\ up /\ stage \in InRoom /\ "SetSilence" \in said /\ Absent(reports, AnySilence)
       => told.silenced = throttled
ChannelsInv ==
  ~telling =>
    /\ Ends(reports, AnyChannels, {SetChannels(stereo)})
    /\ up /\ stage \in InRoom /\ "SetChannels" \in said /\ Absent(reports, AnyChannels)
         => told.stereo = stereo
\* The last message on its way about a peer says whether it is in the room,
\* and once none is, the client knows.
PeersInv ==
  stage \in InRoom /\ ~garbled =>
    \A p \in Peers :
      /\ Ends(inbox, About(p), Truth(p))
      /\ Absent(inbox, About(p)) => (p \in peers <=> p \in introduced)

Base == TypeOK /\ PartialInv /\ FreshInv /\ SlotCurrent /\ EncoderTuned
Inv == Base /\ BlockedInv /\ SilenceInv /\ ChannelsInv /\ PeersInv

\* An empty queue says nothing and nothing false.
LEMMA EmptyQueue ==
  ASSUME NEW K, NEW G
  PROVE  Ends(<<>>, K, G) /\ Absent(<<>>, K)
  BY DEF Ends, Absent

\* The initial state satisfies the invariant: the one report queued by
\* ProxaClient::new says that the client is silent, as it is.
LEMMA InvInit == Init => Inv
<1> SUFFICES ASSUME Init
             PROVE  Inv
  OBVIOUS
<1>1. TypeOK
  <2>1. LowerOf(SilenceBitrate, FirstBitrate) \in Nat \ {0}
    BY BitrateAssumption DEF LowerOf
  <2>2. reports \in Seq(Report)
    BY DEF Init, VoiceInit, SetSilence, Report
  <2>3. enc \in [bitrate : Nat \ {0}, fec : BOOLEAN, loss : 0..100]
    BY <2>1 DEF Init, VoiceInit
  <2>4. VoiceTypeOK
    BY <2>2, <2>3, BitrateAssumption, ReportAssumption DEF Init, VoiceInit, VoiceTypeOK
  <2>5. told \in [silenced : BOOLEAN, stereo : BOOLEAN] /\ inbox \in Seq(Message)
    BY ReportAssumption DEF Init, FirstTold
  <2>6. SessionTypeOK
    BY <2>5 DEF Init, SessionTypeOK
  <2> QED
    BY <2>4, <2>6 DEF TypeOK
<1>2. PartialInv /\ FreshInv /\ SlotCurrent /\ EncoderTuned
  BY DEF Init, VoiceInit, PartialInv, FreshInv, SlotCurrent, Connected, EncoderTuned
<1>b. BlockedInv
  BY DEF Init, BlockedInv
<1>r. /\ Len(reports) = 1 /\ reports[1] = SetSilence(TRUE)
      /\ throttled = TRUE /\ stage \notin InRoom
  BY DEF Init, VoiceInit, InRoom
<1>i. \A i \in 1..Len(reports) : i = 1 /\ reports[i] = SetSilence(TRUE)
  <2> TAKE i \in 1..Len(reports)
  <2>1. i = 1
    BY <1>r
  <2> QED
    BY <1>r, <2>1
<1>3. SilenceInv
  <2>1. SetSilence(throttled) = SetSilence(TRUE)
    BY <1>r, Zenon
  <2>2. Ends(reports, AnySilence, {SetSilence(throttled)})
    BY <1>i, <2>1 DEF Ends
  <2> QED
    BY <1>r, <2>2 DEF SilenceInv
<1>4. ChannelsInv
  <2>1. SetSilence(TRUE) \notin AnyChannels
    BY DEF SetSilence, SetChannels, AnyChannels
  <2>2. Ends(reports, AnyChannels, {SetChannels(stereo)})
    BY <1>i, <2>1 DEF Ends
  <2> QED
    BY <1>r, <2>2 DEF ChannelsInv
<1>5. PeersInv
  BY DEF Init, PeersInv, InRoom
<1> QED
  BY <1>1, <1>2, <1>b, <1>3, <1>4, <1>5 DEF Inv, Base

\* The steps of the capture path keep the types and leave the rest alone.
LEMMA CaptureStep ==
  ASSUME TypeOK, EncoderTuned, VoiceStep
  PROVE  VoiceTypeOK' /\ EncoderTuned'
<1>0. VoiceTypeOK /\ SilenceBitrate \in Nat \ {0} /\ Bitrates \subseteq Nat
  BY BitrateAssumption DEF TypeOK
<1>a. \A b \in BOOLEAN : SetSilence(b) \in Report /\ SetChannels(b) \in Report
  BY DEF SetSilence, SetChannels, Report
<1>b. enc.bitrate \in Nat \ {0} /\ bitrate \in Nat /\ actualLoss \in 0..100
  BY <1>0 DEF VoiceTypeOK
<1>c. /\ Accepted(bitrate, enc.bitrate) \in Nat \ {0}
      /\ Accepted(LowerOf(bitrate, SilenceBitrate), enc.bitrate) \in Nat \ {0}
  BY <1>0, <1>b DEF Accepted, LowerOf
<1>1. CASE LoudFrame
  <2>1. reports' \in Seq(Report)
    BY <1>0, <1>1, <1>a, AppendFacts DEF LoudFrame, VoiceTypeOK
  <2>2. enc' = [bitrate |-> Accepted(bitrate, enc.bitrate), fec |-> TRUE, loss |-> actualLoss]
    BY <1>1 DEF LoudFrame
  <2>3. enc' \in [bitrate : Nat \ {0}, fec : BOOLEAN, loss : 0..100]
    BY <1>b, <1>c, <2>2
  <2>4. VoiceTypeOK'
    BY <1>0, <1>1, <2>1, <2>3 DEF LoudFrame, VoiceTypeOK
  <2>5. enc'.fec = TRUE /\ enc'.loss = actualLoss /\ enc'.bitrate = Accepted(bitrate, enc.bitrate)
    BY <2>2
  <2>6. bitrate' = bitrate /\ actualLoss' = actualLoss
    BY <1>1 DEF LoudFrame
  <2>7. EncoderTuned'
    BY <1>b, <2>5, <2>6 DEF EncoderTuned, Accepted
  <2> QED
    BY <2>4, <2>7
<1>q. CASE QuietFrame
  <2>1. reports' \in Seq(Report)
    BY <1>0, <1>q, <1>a, AppendFacts DEF QuietFrame, VoiceTypeOK
  <2>2. enc' \in [bitrate : Nat \ {0}, fec : BOOLEAN, loss : 0..100]
    BY <1>b, <1>c, <1>q DEF QuietFrame
  <2> QED
    BY <1>0, <1>q, <2>1, <2>2 DEF QuietFrame, VoiceTypeOK, EncoderTuned
<1>2. ASSUME NEW b \in Bitrates, SetBitrate(b)
      PROVE  VoiceTypeOK' /\ EncoderTuned'
  BY <1>0, <1>2 DEF SetBitrate, VoiceTypeOK, EncoderTuned, Accepted
<1>3. ASSUME NEW b \in BOOLEAN, SwitchEncoder(b)
      PROVE  VoiceTypeOK' /\ EncoderTuned'
  BY <1>0, <1>3 DEF SwitchEncoder, VoiceTypeOK, EncoderTuned
<1>4. CASE TellChannels
  <2>1. reports' \in Seq(Report)
    BY <1>0, <1>4 DEF TellChannels, VoiceTypeOK, SetChannels, Report
  <2> QED
    BY <1>0, <1>4, <2>1 DEF TellChannels, VoiceTypeOK, EncoderTuned
<1> QED
  BY <1>1, <1>q, <1>2, <1>3, <1>4 DEF VoiceStep

\* So does a new loss target.
LEMMA LossStep ==
  ASSUME VoiceTypeOK, EncoderTuned, NEW pct \in LossPercs, TargetLossRate(pct)
  PROVE  VoiceTypeOK' /\ EncoderTuned'
  BY LossAssumption DEF TargetLossRate, VoiceTypeOK, EncoderTuned

\* Types and the first invariants survive every step.
LEMMA BaseNext ==
  ASSUME Base, Next
  PROVE  Base'
<1>0. TypeOK /\ VoiceTypeOK /\ SessionTypeOK /\ PartialInv /\ FreshInv /\ SlotCurrent /\ EncoderTuned
  BY DEF Base, TypeOK
<1>s. \A q \in Seq(Message) : q # <<>> => Tail(q) \in Seq(Message) /\ Head(q) \in Message
  BY TailFacts
<1>d. ASSUME DropRead
      PROVE  inbox' \in Seq(Message) /\ garbled' \in BOOLEAN /\ partial' = FALSE
  BY <1>0, <1>d, <1>s DEF DropRead, PartialInv, SessionTypeOK
<1>1. CASE Capture
  <2>1. VoiceTypeOK' /\ EncoderTuned'
    BY <1>0, <1>1, CaptureStep DEF Capture
  <2>2. SessionTypeOK' /\ PartialInv' /\ FreshInv' /\ SlotCurrent'
    BY <1>0, <1>1 DEF Capture, network, control, SessionTypeOK, PartialInv, FreshInv, SlotCurrent
  <2> QED
    BY <2>1, <2>2 DEF Base, TypeOK
<1>2. CASE ReadMessage
  <2>1. Head(inbox) \in Message /\ inbox' \in Seq(Message) /\ partial' = FALSE
    BY <1>0, <1>2, <1>s DEF ReadMessage, SessionTypeOK
  <2>2. VoiceTypeOK' /\ EncoderTuned'
    <3>1. CASE Head(inbox).type = "TargetLossRate"
      <4>1. Head(inbox).loss \in LossPercs
        BY <2>1, <3>1 DEF Message
      <4>2. TargetLossRate(Head(inbox).loss)
        BY <1>2, <3>1 DEF ReadMessage
      <4> QED
        BY <1>0, <4>1, <4>2, LossStep
    <3>2. CASE Head(inbox).type # "TargetLossRate"
      <4>1. UNCHANGED <<voice, reports>>
        BY <1>2, <3>2 DEF ReadMessage
      <4> QED
        BY <1>0, <4>1 DEF voice, VoiceTypeOK, EncoderTuned
    <3> QED
      BY <3>1, <3>2
  <2>3. peers' \subseteq Peers
    BY <1>0, <1>2, <2>1 DEF ReadMessage, SessionTypeOK, Message
  <2>4. SessionTypeOK' /\ PartialInv' /\ FreshInv' /\ SlotCurrent'
    BY <1>0, <1>2, <2>1, <2>3
    DEF ReadMessage, network, SessionTypeOK, PartialInv, FreshInv, SlotCurrent
  <2> QED
    BY <2>2, <2>4 DEF Base, TypeOK
<1>3. CASE SendReport
  <2>1. reports' \in Seq(Report) /\ Head(reports) \in Report
    BY <1>0, <1>3, TailFacts DEF SendReport, VoiceTypeOK
  <2>2. VoiceTypeOK' /\ EncoderTuned'
    BY <1>0, <1>3, <2>1 DEF SendReport, voice, VoiceTypeOK, EncoderTuned
  <2>3. said' \subseteq {"SetSilence", "SetChannels"} /\ told' \in [silenced : BOOLEAN, stereo : BOOLEAN]
    BY <1>0, <1>3, <2>1 DEF SendReport, SessionTypeOK, Report
  <2>4. inbox' \in Seq(Message) /\ garbled' \in BOOLEAN /\ partial' = FALSE
    BY <1>3, <1>d DEF SendReport
  <2>5. SessionTypeOK' /\ PartialInv' /\ FreshInv' /\ SlotCurrent'
    BY <1>0, <1>3, <2>3, <2>4
    DEF SendReport, network, SessionTypeOK, PartialInv, FreshInv, SlotCurrent
  <2> QED
    BY <2>2, <2>5 DEF Base, TypeOK
<1>v. ASSUME UNCHANGED <<voice, reports>>
      PROVE  VoiceTypeOK' /\ EncoderTuned'
  BY <1>0, <1>v DEF voice, VoiceTypeOK, EncoderTuned
<1>4. CASE Connecting
  <2>1. UNCHANGED <<voice, reports>>
    BY <1>4 DEF Connecting, Resolve, ConnectFails, Connect, OpenStream, Joined, GiveUp, PauseEnds
  <2>2. SessionTypeOK' /\ PartialInv' /\ FreshInv' /\ SlotCurrent'
    <3>1. CASE Resolve \/ ConnectFails \/ Joined \/ PauseEnds
      <4>1. SessionTypeOK'
        BY <1>0, <3>1 DEF Resolve, ConnectFails, Joined, PauseEnds, control, SessionTypeOK, Connected
      <4>2. PartialInv'
        BY <1>0, <3>1 DEF Resolve, ConnectFails, Joined, PauseEnds, control, PartialInv
      <4>3. FreshInv'
        BY <1>0, <3>1 DEF Resolve, ConnectFails, Joined, PauseEnds, control, FreshInv
      <4>4. SlotCurrent'
        BY <1>0, <3>1 DEF Resolve, ConnectFails, Joined, PauseEnds, control, SlotCurrent, Connected
      <4> QED
        BY <4>1, <4>2, <4>3, <4>4
    <3>2. CASE Connect \/ GiveUp
      <4>1. SessionTypeOK'
        BY <1>0, <3>2 DEF Connect, GiveUp, control, SessionTypeOK, Connected
      <4>2. PartialInv'
        BY <1>0, <3>2 DEF Connect, GiveUp, control, PartialInv
      <4>3. FreshInv'
        BY <1>0, <3>2 DEF Connect, GiveUp, control, FreshInv
      <4>4. SlotCurrent'
        BY <1>0, <3>2 DEF Connect, GiveUp, control, SlotCurrent, Connected
      <4> QED
        BY <4>1, <4>2, <4>3, <4>4
    <3>3. CASE OpenStream
      <4>1. FirstTold \in [silenced : BOOLEAN, stereo : BOOLEAN] /\ <<>> \in Seq(Message)
        BY ReportAssumption DEF FirstTold
      <4> QED
        BY <1>0, <3>3, <4>1 DEF OpenStream,
           SessionTypeOK, PartialInv, FreshInv, SlotCurrent, Connected
    <3> QED
      BY <1>4, <3>1, <3>2, <3>3 DEF Connecting
  <2> QED
    BY <1>v, <2>1, <2>2 DEF Base, TypeOK
<1>5. CASE Leave \/ Datagram \/ ReadPart \/ ReadGarbage \/ Swallow \/ Unblock \/ Interrupted
  <2>1. UNCHANGED <<voice, reports>>
    BY <1>5 DEF Leave, Datagram, ReadPart, ReadGarbage, Swallow, Unblock, Interrupted
  <2>2. SessionTypeOK' /\ PartialInv' /\ FreshInv' /\ SlotCurrent'
    <3>1. CASE Leave \/ Datagram
      <4>1. inbox' \in Seq(Message) /\ garbled' \in BOOLEAN /\ partial' = FALSE
        BY <1>d, <3>1 DEF Leave, Datagram
      <4> QED
        BY <1>0, <3>1, <4>1 DEF Leave, Datagram, network,
           SessionTypeOK, PartialInv, FreshInv, SlotCurrent, Connected
    <3>2. CASE ReadPart \/ ReadGarbage \/ Unblock \/ Interrupted
      <4>1. SessionTypeOK'
        BY <1>0, <3>2 DEF ReadPart, ReadGarbage, Unblock, Interrupted, network, control, SessionTypeOK, Connected
      <4>2. PartialInv'
        BY <1>0, <3>2 DEF ReadPart, ReadGarbage, Unblock, Interrupted, network, control, PartialInv
      <4>3. FreshInv'
        BY <1>0, <3>2 DEF ReadPart, ReadGarbage, Unblock, Interrupted, network, control, FreshInv
      <4>4. SlotCurrent'
        BY <1>0, <3>2 DEF ReadPart, ReadGarbage, Unblock, Interrupted, network, control, SlotCurrent, Connected
      <4> QED
        BY <4>1, <4>2, <4>3, <4>4
    <3>3. CASE Swallow
      BY <1>0, <1>s, <3>3 DEF Swallow, network,
         SessionTypeOK, PartialInv, FreshInv, SlotCurrent, Connected
    <3> QED
      BY <1>5, <3>1, <3>2, <3>3
  <2> QED
    BY <1>v, <2>1, <2>2 DEF Base, TypeOK
<1>6. CASE Environment
  <2>1. UNCHANGED <<voice, reports>>
    BY <1>6 DEF Environment, RequestLeave, ConnectionLost, Introduce, PeerExits, AskLoss
  <2>2. SessionTypeOK' /\ PartialInv' /\ FreshInv' /\ SlotCurrent'
    <3>1. CASE RequestLeave \/ ConnectionLost
      <4>1. SessionTypeOK'
        BY <1>0, <3>1 DEF RequestLeave, ConnectionLost, control, SessionTypeOK, Connected
      <4>2. PartialInv'
        BY <1>0, <3>1 DEF RequestLeave, ConnectionLost, control, PartialInv
      <4>3. FreshInv'
        BY <1>0, <3>1 DEF RequestLeave, ConnectionLost, control, FreshInv
      <4>4. SlotCurrent'
        BY <1>0, <3>1 DEF RequestLeave, ConnectionLost, control, SlotCurrent, Connected
      <4> QED
        BY <4>1, <4>2, <4>3, <4>4
    <3>2. ASSUME NEW p \in Peers, Introduce(p) \/ PeerExits(p)
          PROVE  SessionTypeOK' /\ PartialInv' /\ FreshInv' /\ SlotCurrent'
      <4>1. PeerJoined(p) \in Message /\ PeerLeft(p) \in Message
        BY DEF PeerJoined, PeerLeft, Message
      <4>2. inbox' \in Seq(Message) /\ inbox' # <<>>
        BY <1>0, <3>2, <4>1 DEF Introduce, PeerExits, SessionTypeOK
      <4>3. SessionTypeOK'
        BY <1>0, <3>2, <4>2 DEF Introduce, PeerExits, network, SessionTypeOK
      <4>4. PartialInv' /\ FreshInv' /\ SlotCurrent'
        BY <1>0, <3>2, <4>2 DEF Introduce, PeerExits, network, PartialInv, FreshInv, SlotCurrent
      <4> QED
        BY <4>3, <4>4
    <3>3. ASSUME NEW pct \in LossPercs, AskLoss(pct)
          PROVE  SessionTypeOK' /\ PartialInv' /\ FreshInv' /\ SlotCurrent'
      <4>1. TargetLoss(pct) \in Message
        BY DEF TargetLoss, Message
      <4>2. inbox' \in Seq(Message) /\ inbox' # <<>>
        BY <1>0, <3>3, <4>1 DEF AskLoss, SessionTypeOK
      <4> QED
        BY <1>0, <3>3, <4>2 DEF AskLoss, network,
           SessionTypeOK, PartialInv, FreshInv, SlotCurrent
    <3> QED
      BY <1>6, <3>1, <3>2, <3>3 DEF Environment
  <2> QED
    BY <1>v, <2>1, <2>2 DEF Base, TypeOK
<1> QED
  BY <1>1, <1>2, <1>3, <1>4, <1>5, <1>6 DEF Next, Select

\* Steps that touch nothing the relay is told.
Calm ==
  /\ UNCHANGED <<told, said, reports, throttled, stereo, telling>>
  /\ up' /\ stage' \in InRoom => up /\ stage \in InRoom

LEMMA CalmSteps ==
  ASSUME Next
  PROVE  Calm \/ Capture \/ SendReport \/ OpenStream
<1>1. CASE Connecting
  <2>1. CASE Resolve \/ ConnectFails \/ GiveUp \/ PauseEnds
    BY <2>1 DEF Resolve, ConnectFails, GiveUp, PauseEnds, Calm, voice, InRoom
  <2>2. CASE Connect \/ Joined
    BY <2>2 DEF Connect, Joined, Calm, voice, InRoom
  <2> QED
    BY <1>1, <2>1, <2>2 DEF Connecting
<1>2. CASE Select
  <2>1. CASE ReadMessage
    BY <2>1 DEF ReadMessage, TargetLossRate, Calm, voice, network
  <2>2. CASE Leave \/ Datagram \/ ReadPart \/ Swallow
    BY <2>2 DEF Leave, Datagram, ReadPart, Swallow, Calm, voice, network, InRoom
  <2>3. CASE ReadGarbage \/ Unblock \/ Interrupted
    BY <2>3 DEF ReadGarbage, Unblock, Interrupted, Calm, voice, InRoom
  <2> QED
    BY <1>2, <2>1, <2>2, <2>3 DEF Select
<1>3. CASE Environment
  <2>1. CASE RequestLeave \/ ConnectionLost
    BY <2>1 DEF RequestLeave, ConnectionLost, Calm, voice
  <2>2. ASSUME NEW p \in Peers, Introduce(p) \/ PeerExits(p)
        PROVE  Calm
    BY <2>2 DEF Introduce, PeerExits, Calm, voice, network
  <2>3. ASSUME NEW pct \in LossPercs, AskLoss(pct)
        PROVE  Calm
    BY <2>3 DEF AskLoss, Calm, voice, network
  <2> QED
    BY <1>3, <2>1, <2>2, <2>3 DEF Environment
<1> QED
  BY <1>1, <1>2, <1>3 DEF Next

\* Reports of silence and of channels are different things.
LEMMA ReportKinds ==
  /\ \A b \in BOOLEAN : /\ SetSilence(b) \in Report /\ SetChannels(b) \in Report
                        /\ SetSilence(b) \in AnySilence /\ SetSilence(b) \notin AnyChannels
                        /\ SetChannels(b) \in AnyChannels /\ SetChannels(b) \notin AnySilence
                        /\ SetSilence(b).value = b /\ SetChannels(b).value = b
  /\ \A m \in Report : /\ m \in AnySilence <=> m.type = "SetSilence"
                       /\ m \in AnyChannels <=> m.type # "SetSilence"
<1>1. \A b \in BOOLEAN : /\ SetSilence(b) \in Report /\ SetChannels(b) \in Report
                         /\ SetSilence(b) \in AnySilence /\ SetSilence(b) \notin AnyChannels
                         /\ SetChannels(b) \in AnyChannels /\ SetChannels(b) \notin AnySilence
                         /\ SetSilence(b).value = b /\ SetChannels(b).value = b
  BY DEF SetSilence, SetChannels, Report, AnySilence, AnyChannels
<1>2. ASSUME NEW m \in Report
      PROVE  /\ m \in AnySilence <=> m.type = "SetSilence"
             /\ m \in AnyChannels <=> m.type # "SetSilence"
  <2>1. m = [type |-> m.type, value |-> m.value] /\ m.value \in BOOLEAN
        /\ m.type \in {"SetSilence", "SetChannels"}
    BY DEF Report
  <2>2. CASE m.type = "SetSilence"
    <3>1. m = SetSilence(m.value)
      BY <2>1, <2>2 DEF SetSilence
    <3> QED
      BY <2>1, <2>2, <3>1, <1>1
  <2>3. CASE m.type = "SetChannels"
    <3>1. m = SetChannels(m.value)
      BY <2>1, <2>3 DEF SetChannels
    <3> QED
      BY <2>1, <2>3, <3>1, <1>1
  <2> QED
    BY <2>1, <2>2, <2>3
<1> QED
  BY <1>1, <1>2

\* handle_vad queues a report with every change of is_throttled, and the
\* network task writes them in order: SilenceInv survives every step.
LEMMA SilenceNext ==
  ASSUME Base, SilenceInv, Next
  PROVE  SilenceInv'
<1>0. reports \in Seq(Report) /\ throttled \in BOOLEAN /\ stereo \in BOOLEAN
      /\ Ends(reports, AnySilence, {SetSilence(throttled)})
  BY DEF Base, TypeOK, VoiceTypeOK, SilenceInv
<1>1. CASE Calm
  BY <1>1 DEF Calm, SilenceInv
<1>2. CASE OpenStream
  BY <1>2 DEF OpenStream, voice, SilenceInv
<1>3. CASE Capture
  <2>1. UNCHANGED <<up, stage, said, told>>
    BY <1>3 DEF Capture, network
  <2>2. ASSUME NEW b \in BOOLEAN, throttled' = b, reports' = Append(reports, SetSilence(b))
        PROVE  SilenceInv'
    <3>1. Ends(reports', AnySilence, {SetSilence(throttled')}) /\ ~Absent(reports', AnySilence)
      BY <1>0, <2>2, ReportKinds, EndsTrue
    <3> QED
      BY <3>1 DEF SilenceInv
  <2>3. CASE LoudFrame \/ QuietFrame
    BY <2>2, <2>3 DEF LoudFrame, QuietFrame
  <2>4. CASE TellChannels
    <3>1. throttled' = throttled /\ reports' = Append(reports, SetChannels(stereo))
      BY <2>4 DEF TellChannels
    <3>2. /\ Ends(reports', AnySilence, {SetSilence(throttled)})
          /\ Absent(reports', AnySilence) => Absent(reports, AnySilence)
      BY <1>0, <3>1, ReportKinds, EndsOther
    <3> QED
      BY <2>1, <3>1, <3>2 DEF SilenceInv
  <2>5. CASE UNCHANGED <<throttled, reports>>
    BY <2>1, <2>5 DEF SilenceInv
  <2> QED
    BY <1>3, <2>3, <2>4, <2>5 DEF Capture, VoiceStep, SetBitrate, SwitchEncoder
<1>4. CASE SendReport
  <2> DEFINE m == Head(reports)
  <2>1. reports # <<>> /\ reports' = Tail(reports) /\ throttled' = throttled /\ up' = up /\ stage' = stage
    BY <1>4 DEF SendReport, voice, network
  <2>2. m \in Report
    BY <1>0, <2>1, TailFacts
  <2>3. /\ Ends(reports', AnySilence, {SetSilence(throttled)})
        /\ Absent(reports', AnySilence) =>
             \/ Absent(reports, AnySilence) /\ m \notin AnySilence
             \/ m \in AnySilence /\ m \in {SetSilence(throttled)}
    BY <1>0, <2>1, EndsTaken
  <2>4. SUFFICES ASSUME up', stage' \in InRoom, "SetSilence" \in said', Absent(reports', AnySilence)
                 PROVE  told'.silenced = throttled
    BY <2>1, <2>3 DEF SilenceInv
  <2>5. said' = said \cup {m.type}
    BY <1>4, <2>1, <2>4 DEF SendReport
  <2>6. told' = IF m.type = "SetSilence" THEN [told EXCEPT !.silenced = m.value]
                                         ELSE [told EXCEPT !.stereo = m.value]
    BY <1>4, <2>1, <2>4 DEF SendReport
  <2>7. told \in [silenced : BOOLEAN, stereo : BOOLEAN]
    BY DEF Base, TypeOK, SessionTypeOK
  <2>8. CASE Absent(reports, AnySilence) /\ m \notin AnySilence
    <3>1. m.type # "SetSilence"
      BY <2>2, <2>8, ReportKinds
    <3>2. told.silenced = throttled
      BY <2>1, <2>4, <2>5, <2>8, <3>1 DEF SilenceInv
    <3> QED
      BY <2>6, <2>7, <3>1, <3>2
  <2>9. CASE m \in AnySilence /\ m \in {SetSilence(throttled)}
    <3>1. m.type = "SetSilence" /\ m.value = throttled
      BY <1>0, <2>2, <2>9, ReportKinds
    <3> QED
      BY <2>6, <2>7, <3>1
  <2> QED
    BY <2>3, <2>4, <2>8, <2>9
<1> QED
  BY <1>1, <1>2, <1>3, <1>4, CalmSteps

\* Between the critical sections of set_channels nothing is claimed; after
\* them ChannelsInv survives as SilenceInv does.
LEMMA ChannelsNext ==
  ASSUME Base, ChannelsInv, Next
  PROVE  ChannelsInv'
<1>0. reports \in Seq(Report) /\ throttled \in BOOLEAN /\ stereo \in BOOLEAN
  BY DEF Base, TypeOK, VoiceTypeOK
<1>1. CASE Calm
  BY <1>1 DEF Calm, ChannelsInv
<1>2. CASE OpenStream
  BY <1>2 DEF OpenStream, voice, ChannelsInv
<1>3. CASE Capture
  <2>1. UNCHANGED <<up, stage, said, told>>
    BY <1>3 DEF Capture, network
  <2>2. ASSUME NEW b \in BOOLEAN, UNCHANGED <<telling, stereo>>,
               reports' = Append(reports, SetSilence(b))
        PROVE  ChannelsInv'
    <3>1. /\ Ends(reports, AnyChannels, {SetChannels(stereo)}) =>
             Ends(reports', AnyChannels, {SetChannels(stereo)})
          /\ Absent(reports', AnyChannels) => Absent(reports, AnyChannels)
      BY <1>0, <2>2, ReportKinds, EndsOther
    <3> QED
      BY <2>1, <2>2, <3>1 DEF ChannelsInv
  <2>3. CASE LoudFrame \/ QuietFrame
    BY <2>2, <2>3 DEF LoudFrame, QuietFrame
  <2>4. CASE TellChannels
    <3>1. stereo' = stereo /\ reports' = Append(reports, SetChannels(stereo))
      BY <2>4 DEF TellChannels
    <3>2. Ends(reports', AnyChannels, {SetChannels(stereo')}) /\ ~Absent(reports', AnyChannels)
      BY <1>0, <3>1, ReportKinds, EndsTrue
    <3> QED
      BY <3>2 DEF ChannelsInv
  <2>5. ASSUME NEW b \in Bitrates, SetBitrate(b)
        PROVE  ChannelsInv'
    BY <2>1, <2>5 DEF SetBitrate, ChannelsInv
  <2>6. ASSUME NEW b \in BOOLEAN, SwitchEncoder(b)
        PROVE  ChannelsInv'
    BY <2>6 DEF SwitchEncoder, ChannelsInv
  <2> QED
    BY <1>3, <2>3, <2>4, <2>5, <2>6 DEF Capture, VoiceStep
<1>4. CASE SendReport
  <2> DEFINE m == Head(reports)
  <2>1. /\ reports # <<>> /\ reports' = Tail(reports) /\ up' = up /\ stage' = stage
        /\ stereo' = stereo /\ telling' = telling
    BY <1>4 DEF SendReport, voice, network
  <2>2. m \in Report
    BY <1>0, <2>1, TailFacts
  <2>n. SUFFICES ASSUME ~telling
                 PROVE  ChannelsInv'
    BY <2>1 DEF ChannelsInv
  <2>3. /\ Ends(reports', AnyChannels, {SetChannels(stereo)})
        /\ Absent(reports', AnyChannels) =>
             \/ Absent(reports, AnyChannels) /\ m \notin AnyChannels
             \/ m \in AnyChannels /\ m \in {SetChannels(stereo)}
    BY <1>0, <2>1, <2>n, EndsTaken DEF ChannelsInv
  <2>4. SUFFICES ASSUME up', stage' \in InRoom, "SetChannels" \in said', Absent(reports', AnyChannels)
                 PROVE  told'.stereo = stereo
    BY <2>1, <2>3 DEF ChannelsInv
  <2>5. said' = said \cup {m.type}
    BY <1>4, <2>1, <2>4 DEF SendReport
  <2>6. told' = IF m.type = "SetSilence" THEN [told EXCEPT !.silenced = m.value]
                                         ELSE [told EXCEPT !.stereo = m.value]
    BY <1>4, <2>1, <2>4 DEF SendReport
  <2>7. told \in [silenced : BOOLEAN, stereo : BOOLEAN]
    BY DEF Base, TypeOK, SessionTypeOK
  <2>8. CASE Absent(reports, AnyChannels) /\ m \notin AnyChannels
    <3>1. m.type = "SetSilence"
      BY <2>2, <2>8, ReportKinds
    <3>2. told.stereo = stereo
      BY <2>1, <2>4, <2>5, <2>8, <2>n, <3>1 DEF ChannelsInv
    <3> QED
      BY <2>6, <2>7, <3>1, <3>2
  <2>9. CASE m \in AnyChannels /\ m \in {SetChannels(stereo)}
    <3>1. m.type # "SetSilence" /\ m.value = stereo
      BY <1>0, <2>2, <2>9, ReportKinds
    <3> QED
      BY <2>6, <2>7, <3>1
  <2> QED
    BY <2>3, <2>4, <2>8, <2>9
<1> QED
  BY <1>1, <1>2, <1>3, <1>4, CalmSteps

\* Steps that touch neither the peers nor the messages about them, or after
\* which nothing is claimed of them.
PeersCalm ==
  stage' \in InRoom /\ ~garbled' =>
    stage \in InRoom /\ ~garbled /\ UNCHANGED <<inbox, introduced, peers>>

\* Only a read of garbage makes the task wait for bytes.
LEMMA BlockedNext ==
  ASSUME Base, BlockedInv, Next
  PROVE  BlockedInv'
<1>1. CASE Capture \/ Environment
  <2>1. stage' = stage /\ garbled' = garbled
    BY <1>1 DEF Capture, Environment, RequestLeave, ConnectionLost, Introduce, PeerExits, AskLoss,
       network, control
  <2> QED
    BY <2>1 DEF BlockedInv
<1>2. CASE Connecting
  BY <1>2 DEF Connecting, Resolve, ConnectFails, Connect, OpenStream, Joined, GiveUp, PauseEnds,
     BlockedInv
<1>3. CASE Select
  BY <1>3 DEF Select, Leave, SendReport, Datagram, ReadPart, ReadMessage, ReadGarbage, Swallow,
     Unblock, Interrupted, DropRead, network, control, BlockedInv
<1> QED
  BY <1>1, <1>2, <1>3 DEF Next

\* Which steps touch the peers or what is on its way about them.
LEMMA PeersCalmSteps ==
  ASSUME Base, BlockedInv, Next
  PROVE  \/ PeersCalm \/ OpenStream \/ ReadMessage
         \/ \E p \in Peers : Introduce(p) \/ PeerExits(p)
         \/ \E pct \in LossPercs : AskLoss(pct)
<1>1. CASE Capture
  BY <1>1 DEF Capture, network, control, PeersCalm
<1>2. CASE Connecting
  <2>1. CASE Resolve \/ ConnectFails \/ GiveUp \/ PauseEnds
    BY <2>1 DEF Resolve, ConnectFails, GiveUp, PauseEnds, PeersCalm, InRoom
  <2>2. CASE Connect \/ Joined
    BY <2>2 DEF Connect, Joined, PeersCalm, InRoom, control
  <2> QED
    BY <1>2, <2>1, <2>2 DEF Connecting
<1>3. CASE Select
  <2>1. CASE Leave \/ SendReport \/ Datagram
    <3>1. CASE ~partial
      BY <2>1, <3>1 DEF Leave, SendReport, Datagram, DropRead, PeersCalm, InRoom, network
    <3>2. CASE partial
      BY <2>1, <3>2 DEF Leave, SendReport, Datagram, DropRead, PeersCalm
    <3> QED
      BY <3>1, <3>2
  <2>2. CASE ReadPart \/ Unblock
    BY <2>2 DEF ReadPart, Unblock, PeersCalm, InRoom, network, control
  <2>3. CASE ReadGarbage \/ Interrupted
    BY <2>3 DEF ReadGarbage, Interrupted, PeersCalm, InRoom
  <2>4. CASE Swallow
    BY <2>4 DEF Swallow, PeersCalm, BlockedInv
  <2> QED
    BY <1>3, <2>1, <2>2, <2>3, <2>4 DEF Select
<1>4. CASE RequestLeave \/ ConnectionLost
  BY <1>4 DEF RequestLeave, ConnectionLost, PeersCalm, control
<1> QED
  BY <1>1, <1>2, <1>3, <1>4 DEF Next, Environment

\* What a message about a peer is.
LEMMA MessageKinds ==
  ASSUME NEW m \in Message, NEW p \in Peers
  PROVE  /\ m \in About(p) => \/ m = PeerJoined(p) /\ m.type = "PeerJoined" /\ m.peer = p
                              \/ m = PeerLeft(p) /\ m.type = "PeerLeft" /\ m.peer = p
         /\ m.type \in {"PeerJoined", "PeerLeft"} /\ m \notin About(p) => m.peer # p
         /\ PeerJoined(p) # PeerLeft(p)
<1>1. /\ m \in About(p) => \/ m = PeerJoined(p) /\ m.type = "PeerJoined" /\ m.peer = p
                           \/ m = PeerLeft(p) /\ m.type = "PeerLeft" /\ m.peer = p
      /\ PeerJoined(p) # PeerLeft(p)
  BY DEF About, PeerJoined, PeerLeft
<1>2. ASSUME m.type \in {"PeerJoined", "PeerLeft"}, m.peer = p
      PROVE  m \in About(p)
  <2>1. m \in [type : {"PeerJoined", "PeerLeft"}, peer : Peers]
    BY <1>2 DEF Message
  <2>2. m = [type |-> m.type, peer |-> m.peer]
    BY <2>1
  <2> QED
    BY <1>2, <2>2 DEF About, PeerJoined, PeerLeft
<1> QED
  BY <1>1, <1>2

\* PeerJoined and PeerLeft are handled in the order the relay sends them, and
\* a lost one leaves the stream garbled: PeersInv survives every step.
LEMMA PeersNext ==
  ASSUME Base, BlockedInv, PeersInv, Next
  PROVE  PeersInv'
<1>0. inbox \in Seq(Message) /\ PartialInv /\ FreshInv
  BY DEF Base, TypeOK, SessionTypeOK
<1>1. CASE PeersCalm
  BY <1>1 DEF PeersCalm, PeersInv, Truth
<1>2. CASE OpenStream
  <2>1. peers' = {} /\ introduced' = {} /\ inbox' = <<>>
    BY <1>0, <1>2 DEF OpenStream, FreshInv
  <2> QED
    BY <2>1, EmptyQueue DEF PeersInv
<1> SUFFICES ASSUME stage' \in InRoom, ~garbled', NEW p \in Peers,
                    \/ ReadMessage
                    \/ \E q \in Peers : Introduce(q) \/ PeerExits(q)
                    \/ \E pct \in LossPercs : AskLoss(pct)
             PROVE  /\ Ends(inbox', About(p), Truth(p)')
                    /\ Absent(inbox', About(p)) => (p \in peers' <=> p \in introduced')
  BY <1>1, <1>2, PeersCalmSteps DEF PeersInv
<1>a. stage \in InRoom /\ ~garbled
  BY DEF ReadMessage, Introduce, PeerExits, AskLoss, CanSend, InRoom, network
<1>b. /\ Ends(inbox, About(p), Truth(p))
      /\ Absent(inbox, About(p)) => (p \in peers <=> p \in introduced)
  BY <1>a DEF PeersInv
<1>3. CASE ReadMessage
  <2> DEFINE m == Head(inbox)
  <2>1. inbox # <<>> /\ inbox' = Tail(inbox) /\ introduced' = introduced
    BY <1>3 DEF ReadMessage
  <2>2. m \in Message
    BY <1>0, <2>1, TailFacts
  <2>3. /\ Ends(inbox', About(p), Truth(p))
        /\ Absent(inbox', About(p)) =>
             \/ Absent(inbox, About(p)) /\ m \notin About(p)
             \/ m \in About(p) /\ m \in Truth(p)
    BY <1>0, <1>b, <2>1, EndsTaken
  <2>4. peers' = CASE m.type = "PeerJoined" -> peers \cup {m.peer}
                   [] m.type = "PeerLeft" -> peers \ {m.peer}
                   [] OTHER -> peers
    BY <1>3 DEF ReadMessage
  <2>5. CASE m \notin About(p)
    <3>1. p \in peers' <=> p \in peers
      BY <2>2, <2>4, <2>5, MessageKinds
    <3> QED
      BY <1>b, <2>1, <2>3, <2>5, <3>1 DEF Truth
  <2>6. CASE m \in About(p) /\ m \in Truth(p)
    <3>1. p \in peers' <=> p \in introduced
      <4>1. CASE p \in introduced
        <5>1. m = PeerJoined(p) /\ m.type = "PeerJoined" /\ m.peer = p
          BY <2>2, <2>6, <4>1, MessageKinds DEF Truth
        <5> QED
          BY <2>4, <4>1, <5>1
      <4>2. CASE p \notin introduced
        <5>1. m = PeerLeft(p) /\ m.type = "PeerLeft" /\ m.peer = p
          BY <2>2, <2>6, <4>2, MessageKinds DEF Truth
        <5> QED
          BY <2>4, <4>2, <5>1
      <4> QED
        BY <4>1, <4>2
    <3> QED
      BY <2>1, <2>3, <3>1 DEF Truth
  <2> QED
    BY <2>1, <2>3, <2>5, <2>6 DEF Truth
<1>4. ASSUME NEW q \in Peers, Introduce(q) \/ PeerExits(q)
      PROVE  /\ Ends(inbox', About(p), Truth(p)')
             /\ Absent(inbox', About(p)) => (p \in peers' <=> p \in introduced')
  <2>1. PICK m \in {PeerJoined(q), PeerLeft(q)} :
          /\ inbox' = Append(inbox, m) /\ peers' = peers
          /\ m = PeerJoined(q) => introduced' = introduced \cup {q}
          /\ m # PeerJoined(q) => introduced' = introduced \ {q}
    BY <1>4, MessageKinds DEF Introduce, PeerExits, PeerJoined, PeerLeft
  <2>2. m \in Message
    BY DEF PeerJoined, PeerLeft, Message
  <2>3. CASE p = q
    <3>1. m \in About(p) /\ m \in Truth(p)'
      BY <2>1, <2>3 DEF About, Truth
    <3>2. Ends(inbox', About(p), Truth(p)') /\ ~Absent(inbox', About(p))
      BY <1>0, <2>1, <2>2, <3>1, EndsTrue
    <3> QED
      BY <3>2
  <2>4. CASE p # q
    <3>1. m \notin About(p)
      BY <2>4 DEF About, PeerJoined, PeerLeft
    <3>2. Truth(p)' = Truth(p) /\ (p \in introduced' <=> p \in introduced)
      BY <2>1, <2>4 DEF Truth
    <3>3. /\ Ends(inbox', About(p), Truth(p))
          /\ Absent(inbox', About(p)) => Absent(inbox, About(p))
      BY <1>0, <1>b, <2>1, <2>2, <3>1, EndsOther
    <3> QED
      BY <1>b, <2>1, <3>2, <3>3
  <2> QED
    BY <2>3, <2>4
<1>5. ASSUME NEW pct \in LossPercs, AskLoss(pct)
      PROVE  /\ Ends(inbox', About(p), Truth(p)')
             /\ Absent(inbox', About(p)) => (p \in peers' <=> p \in introduced')
  <2>1. /\ inbox' = Append(inbox, TargetLoss(pct)) /\ UNCHANGED <<peers, introduced>>
        /\ TargetLoss(pct) \in Message /\ TargetLoss(pct) \notin About(p)
    BY <1>5 DEF AskLoss, TargetLoss, Message, About, PeerJoined, PeerLeft
  <2>2. /\ Ends(inbox', About(p), Truth(p))
        /\ Absent(inbox', About(p)) => Absent(inbox, About(p))
    BY <1>0, <1>b, <2>1, EndsOther
  <2> QED
    BY <1>b, <2>1, <2>2 DEF Truth
<1> QED
  BY <1>3, <1>4, <1>5
-----------------------------------------------------------------------------
(* The theorems.                                                            *)

\* Every step of the specification keeps the invariant.
LEMMA InvNext ==
  ASSUME Inv, [Next]_vars
  PROVE  Inv'
<1>1. CASE Next
  BY <1>1, BaseNext, BlockedNext, SilenceNext, ChannelsNext, PeersNext DEF Inv
<1>2. CASE UNCHANGED vars
  <2>1. Base'
    BY <1>2 DEF Inv, Base, vars, voice, network, control, TypeOK, VoiceTypeOK, SessionTypeOK,
       PartialInv, FreshInv, SlotCurrent, EncoderTuned
  <2>2. SilenceInv' /\ ChannelsInv'
    BY <1>2 DEF Inv, vars, voice, network, control, SilenceInv, ChannelsInv
  <2>3. PeersInv' /\ BlockedInv'
    BY <1>2 DEF Inv, vars, network, control, PeersInv, BlockedInv, Truth
  <2> QED
    BY <2>1, <2>2, <2>3 DEF Inv
<1> QED
  BY <1>1, <1>2

\* The invariant holds in every reachable state.
THEOREM Invariant == Spec => []Inv
BY InvInit, InvNext, PTL DEF Spec

\* The variables keep their types: among them, the encoder never has bit rate
\* 0, whatever set_bitrate is called with.
THEOREM TypeCorrect == Spec => []TypeOK
<1>1. Inv => TypeOK
  BY DEF Inv, Base
<1> QED
  BY <1>1, Invariant, PTL

\* The encoder of a talking client has the loss and the bit rate last asked
\* for, in whatever order set_bitrate, set_channels, TargetLossRate and
\* handle_vad come.
THEOREM EncoderAlwaysTuned == Spec => []EncoderTuned
<1>1. Inv => EncoderTuned
  BY DEF Inv, Base
<1> QED
  BY <1>1, Invariant, PTL

\* connection_slot holds a connection exactly while the network task uses it,
\* on every path out of an attempt and out of the select loop.
THEOREM SlotIsCurrent == Spec => []SlotCurrent
<1>1. Inv => SlotCurrent
  BY DEF Inv, Base
<1> QED
  BY <1>1, Invariant, PTL

\* When all reports have been written, what the relay was told of the client
\* on this connection is how the client is.
THEOREM RelayHasWhatWasSaid == Spec => []SaidAsIs
<1>1. Inv => SaidAsIs
  <2>1. reports = <<>> => Absent(reports, AnySilence) /\ Absent(reports, AnyChannels)
    BY EmptyQueue
  <2> QED
    BY <2>1 DEF Inv, SilenceInv, ChannelsInv, SaidAsIs, InRoom
<1> QED
  BY <1>1, Invariant, PTL

\* When all messages have been read and no read was dropped half way, the
\* client's peers are those the relay has introduced and not seen leave.
THEOREM PeersAreTheRelays == Spec => []PeersMatch
<1>1. Inv => PeersMatch
  <2> SUFFICES ASSUME Inv, stage = "joined", ~garbled, inbox = <<>>
               PROVE  peers = introduced
    BY DEF PeersMatch
  <2>1. peers \subseteq Peers /\ introduced \subseteq Peers
    BY DEF Inv, Base, TypeOK, SessionTypeOK
  <2>2. \A p \in Peers : p \in peers <=> p \in introduced
    BY EmptyQueue DEF Inv, PeersInv, InRoom
  <2> QED
    BY <2>1, <2>2
<1> QED
  BY <1>1, Invariant, PTL
=============================================================================
