---------------------------- MODULE VoiceControl ----------------------------
(***************************************************************************)
(* The control part of a client's capture path: EncodeState in             *)
(* libs/proxa-client/src/encode.rs, with set_bitrate, set_channels and the *)
(* TargetLossRate message of client.rs.                                    *)
(*                                                                         *)
(* The encoder task, the application's thread and the network task work on *)
(* EncodeState under one mutex, so each critical section is an action.  A  *)
(* frame of the microphone is loud, or quiet; only a quiet one more than    *)
(* 500 ms after the last loud one does anything, and when that is, is left *)
(* open.  The reports go into the queue from which the network task writes *)
(* to the relay.  The application calls from one thread, as the command    *)
(* line client does.                                                       *)
(***************************************************************************)
EXTENDS Integers, Sequences

CONSTANTS
  Bitrates,        \* the bit rates set_bitrate is called with
  FirstBitrate,    \* 32000: target_bitrate of a new client
  SilenceBitrate,  \* 8000: SILENCE_BITRATE
  LossPercs,       \* loss percentages the relay asks for
  FirstStereo,     \* config.channels
  MaxReports       \* bound: no new report when so many are queued

ASSUME BitrateAssumption ==
  /\ Bitrates \subseteq Nat
  /\ FirstBitrate \in Nat \ {0} /\ SilenceBitrate \in Nat \ {0}
ASSUME LossAssumption == LossPercs \subseteq 0..100
ASSUME ReportAssumption == FirstStereo \in BOOLEAN /\ MaxReports \in Nat \ {0}

VARIABLES
  throttled,   \* is_throttled: the user is silent, nothing is sent
  bitrate,     \* target_bitrate
  actualLoss,  \* actual_loss_perc
  enc,         \* settings of the Opus encoder
  stereo,      \* channels of the EncodeState
  telling,     \* set_channels is between its two critical sections
  reports      \* report_rx: silence and channels for the relay

voice == <<throttled, bitrate, actualLoss, enc, stereo, telling>>

SetSilence(b) == [type |-> "SetSilence", value |-> b]
SetChannels(b) == [type |-> "SetChannels", value |-> b]
Report == [type : {"SetSilence", "SetChannels"}, value : BOOLEAN]

VoiceTypeOK ==
  /\ throttled \in BOOLEAN
  /\ bitrate \in Nat /\ actualLoss \in 0..100
  /\ enc \in [bitrate : Nat \ {0}, fec : BOOLEAN, loss : 0..100]
  /\ stereo \in BOOLEAN /\ telling \in BOOLEAN
  /\ reports \in Seq(Report)

LowerOf(a, b) == IF a < b THEN a ELSE b

\* ProxaClient::new: throttled, and the queue starts with the report of it.
VoiceInit ==
  /\ throttled = TRUE
  /\ bitrate = FirstBitrate /\ actualLoss = 0
  /\ enc = [bitrate |-> LowerOf(SilenceBitrate, FirstBitrate), fec |-> FALSE, loss |-> 0]
  /\ stereo = FirstStereo /\ telling = FALSE
  /\ reports = <<SetSilence(TRUE)>>

\* Mistake (TypeOK): a refused bit rate is taken for set.
AcceptedUnchecked(b, old) == b

\* The bit rate an encoder has after set_bitrate(b): Opus refuses 0.
Accepted(b, old) == IF b = 0 THEN old ELSE b

RoomForReport == Len(reports) < MaxReports

-----------------------------------------------------------------------------
\* handle_vad on the first loud frame; on others it changes nothing.
LoudFrame ==
  /\ throttled
  /\ RoomForReport
  /\ throttled' = FALSE
  /\ enc' = [bitrate |-> Accepted(bitrate, enc.bitrate), fec |-> TRUE, loss |-> actualLoss]
  /\ reports' = Append(reports, SetSilence(FALSE))
  /\ UNCHANGED <<bitrate, actualLoss, stereo, telling>>

\* Mistake (SaidAsIs): the relay is not told.
QuietFrameUnreported ==
  /\ ~throttled
  /\ throttled' = TRUE
  /\ enc' = [bitrate |-> Accepted(LowerOf(bitrate, SilenceBitrate), enc.bitrate), fec |-> FALSE, loss |-> 0]
  /\ UNCHANGED <<bitrate, actualLoss, stereo, telling, reports>>

\* handle_vad on the first quiet frame after the hangover; on others it
\* changes nothing.
QuietFrame ==
  /\ ~throttled
  /\ RoomForReport
  /\ throttled' = TRUE
  /\ enc' = [bitrate |-> Accepted(LowerOf(bitrate, SilenceBitrate), enc.bitrate), fec |-> FALSE, loss |-> 0]
  /\ reports' = Append(reports, SetSilence(TRUE))
  /\ UNCHANGED <<bitrate, actualLoss, stereo, telling>>

\* An encoder that is throttled gets its bit rate when the user talks again.
SetBitrate(b) ==
  /\ ~telling
  /\ bitrate' = b
  /\ enc' = IF throttled THEN enc ELSE [enc EXCEPT !.bitrate = Accepted(b, @)]
  /\ UNCHANGED <<throttled, actualLoss, stereo, telling, reports>>

\* Mistake (EncoderTuned): the new encoder expects no loss.
SwitchEncoderLossless(s) ==
  /\ ~telling /\ stereo # s /\ bitrate # 0
  /\ stereo' = s /\ telling' = TRUE
  /\ enc' = [bitrate |-> bitrate, fec |-> TRUE, loss |-> 0]
  /\ UNCHANGED <<throttled, bitrate, actualLoss, reports>>

\* set_channels, first critical section: a new encoder.  With the channels it
\* has, or a target bit rate Opus refuses, the call returns and changes nothing.
SwitchEncoder(s) ==
  /\ ~telling /\ stereo # s /\ bitrate # 0
  /\ stereo' = s /\ telling' = TRUE
  /\ enc' = [bitrate |-> bitrate, fec |-> TRUE, loss |-> actualLoss]
  /\ UNCHANGED <<throttled, bitrate, actualLoss, reports>>

\* set_channels, second critical section: the report.  (It also empties the
\* peers' buffers: PeerChannels of JitterBuffer.)
TellChannels ==
  /\ telling /\ RoomForReport
  /\ telling' = FALSE
  /\ reports' = Append(reports, SetChannels(stereo))
  /\ UNCHANGED <<throttled, bitrate, actualLoss, enc, stereo>>

\* handle_server_message on TargetLossRate.
TargetLossRate(pct) ==
  /\ actualLoss' = pct
  /\ enc' = IF throttled THEN enc ELSE [enc EXCEPT !.loss = pct]
  /\ UNCHANGED <<throttled, bitrate, stereo, telling, reports>>

VoiceStep ==
  \/ LoudFrame \/ QuietFrame
  \/ \E b \in Bitrates : SetBitrate(b)
  \/ \E s \in BOOLEAN : SwitchEncoder(s)
  \/ TellChannels

-----------------------------------------------------------------------------
\* While the user talks the encoder protects its audio against the loss the
\* relay last reported, at the bit rate last asked for, whichever of the bit
\* rate, the channels, the loss and the voice changed in whatever order.
EncoderTuned ==
  ~throttled => /\ enc.fec /\ enc.loss = actualLoss
                /\ bitrate # 0 => enc.bitrate = bitrate
=============================================================================
