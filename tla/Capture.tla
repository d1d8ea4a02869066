------------------------------ MODULE Capture -------------------------------
(***************************************************************************)
(* The microphone's way to the encoder: the input callback of the audio    *)
(* backend (libs/proxa-client-cpal/src/lib.rs), push_audio and             *)
(* set_channels (libs/proxa-client/src/client.rs), and the encode task     *)
(* (libs/proxa-client/src/encode.rs).                                      *)
(*                                                                         *)
(* The callback reads the number of channels, makes its samples fit and    *)
(* pushes them: at the encoder's rate into the queue to the task, at any   *)
(* other through a resampler, which is made on the first call for the      *)
(* number of channels of that time.  The task takes a chunk from the queue *)
(* in one critical section of EncodeState and encodes whole frames in the  *)
(* next; set_channels, between any two of these, works in two of its own.  *)
(*                                                                         *)
(* A sample is the channel it belongs to: mono, left or right, or a mixture*)
(* when a resampler has taken it for another.  The application calls from  *)
(* one thread.  Encoding and sending a frame is VoiceControl's.            *)
(***************************************************************************)
EXTENDS NoiseEngine, Sequences

CONSTANTS
  FrameLen,      \* samples per channel in a frame: samples_per_frame
  Bursts,        \* samples per channel the hardware yields at once
  Yields,        \* samples per channel a step of the resampler may yield
  FirstChannels, \* config.channels
  MaxQueue,      \* bound: no callback when so many chunks are queued
  MaxSwitches    \* bound: calls of set_channels

ASSUME CaptureAssumption ==
  /\ FrameLen \in Nat \ {0} /\ FirstChannels \in {1, 2}
  /\ Bursts \subseteq Nat \ {0, 1} /\ Yields \subseteq Nat
  /\ MaxQueue \in Nat /\ MaxSwitches \in Nat

VARIABLES
  native,     \* the hardware runs at the encoder's rate
  channels,   \* channels of ClientState
  encode,     \* channels of EncodeState
  switching,  \* set_channels is between its two critical sections
  switches,   \* calls of it so far
  callback,   \* what the callback is about to push
  resampler,  \* channels and frames of a step of the resampler; none at first
  hwBuf,      \* input_hardware_buffer
  queue,      \* mic_rx
  micBuf,     \* mic_buffer
  task,       \* where the encode task is
  open,       \* the application holds the client
  clean       \* since the last clear only fresh chunks that are not mixed
              \* have come in (history)

mic  == <<callback, resampler, hwBuf>>
app  == <<channels, switching, switches, open>>
vars == <<noise, native, app, encode, mic, queue, micBuf, task, clean>>

Sample == {"mono", "left", "right", "mixed"}

\* The channel of sample i when c of them are interleaved.
ChannelOf(c, i) == IF c = 1 THEN "mono" ELSE IF i % 2 = 1 THEN "left" ELSE "right"

\* n samples of each of c channels, interleaved; and as many mixtures.
Interleaved(c, n) == [i \in 1..(c * n) |-> ChannelOf(c, i)]
Mixed(c, n)       == [i \in 1..(c * n) |-> "mixed"]

Fits(c, s)  == \A i \in DOMAIN s : s[i] = ChannelOf(c, i)
Whole(c, s) == Fits(c, s) /\ Len(s) % c = 0
IsMixed(s)  == \E i \in DOMAIN s : s[i] = "mixed"

\* Frames of the encoder, in samples.
Spf == FrameLen * encode

Quiet     == [channels |-> 0, frames |-> 0, fresh |-> FALSE]
Chunk     == [data : Seq(Sample), fresh : BOOLEAN]
NoSampler == [channels |-> 0, frames |-> 0]

TypeOK ==
  /\ NoiseTypeOK
  /\ native \in BOOLEAN /\ channels \in {1, 2} /\ encode \in {1, 2}
  /\ switching \in BOOLEAN /\ switches \in 0..MaxSwitches
  /\ callback \in {Quiet} \cup [channels : {1, 2}, frames : Bursts, fresh : BOOLEAN]
  /\ resampler \in {NoSampler} \cup [channels : {1, 2}, frames : Nat \ {0}]
  /\ hwBuf \in Seq(Sample) /\ queue \in Seq(Chunk) /\ micBuf \in Seq(Sample)
  /\ task \in {"waits", "encodes", "ended"}
  /\ open \in BOOLEAN /\ clean \in BOOLEAN

Init ==
  /\ NoiseInit
  /\ native \in BOOLEAN
  /\ channels = FirstChannels /\ encode = FirstChannels
  /\ switching = FALSE /\ switches = 0
  /\ callback = Quiet /\ resampler = NoSampler
  /\ hwBuf = <<>> /\ queue = <<>> /\ micBuf = <<>>
  /\ task = "waits" /\ open = TRUE /\ clean = TRUE

-----------------------------------------------------------------------------
(* The input callback.                                                     *)

\* The callback has the client while it runs, reads its channels, and mixes or
\* doubles what the hardware has yielded to as many.
HearBurst(n) ==
  /\ open /\ callback = Quiet /\ Len(queue) < MaxQueue
  /\ callback' = [channels |-> channels, frames |-> n, fresh |-> ~switching]
  /\ UNCHANGED <<noise, native, app, encode, resampler, hwBuf, queue, micBuf, task, clean>>

\* The client is dropped with the last that has it: the callback, when the
\* application has let go of it meanwhile.
Release == IF open THEN SameNoise ELSE Keep

\* push_audio, at the encoder's rate.
PushNative ==
  /\ native /\ callback # Quiet
  /\ queue' = Append(queue, [data  |-> Interleaved(callback.channels, callback.frames),
                             fresh |-> callback.fresh])
  /\ callback' = Quiet
  /\ Release
  /\ UNCHANGED <<native, app, encode, resampler, hwBuf, micBuf, task, clean>>

\* The resampler, made on the first call for the channels the client has then.
Sampler ==
  IF resampler = NoSampler
    THEN [channels |-> channels,
          frames   |-> (callback.frames * callback.channels) \div channels]
    ELSE resampler

\* A step of the resampler: what it takes for channels of its own stays what
\* it is, anything else is mixed.
Step(r, input, n) ==
  IF Fits(r.channels, input) THEN Interleaved(r.channels, n) ELSE Mixed(r.channels, n)

\* push_audio, at another rate: as many steps as the buffer has samples for.
PushResampled(n) ==
  LET r     == Sampler
      size  == r.channels * r.frames
      heard == hwBuf \o Interleaved(callback.channels, callback.frames)
      steps == Len(heard) \div size
  IN  /\ ~native /\ callback # Quiet
      /\ resampler' = r
      /\ hwBuf' = SubSeq(heard, steps * size + 1, Len(heard))
      /\ queue' = queue \o
           [k \in 1..steps |->
              [data  |-> Step(r, SubSeq(heard, (k - 1) * size + 1, k * size), n),
               fresh |-> callback.fresh]]
      /\ callback' = Quiet
      /\ Release
      /\ UNCHANGED <<native, app, encode, micBuf, task, clean>>

-----------------------------------------------------------------------------
(* The encode task.                                                        *)

\* It takes a chunk, in a critical section of its own.
Take ==
  /\ task = "waits" /\ queue # <<>>
  /\ micBuf' = micBuf \o Head(queue).data
  /\ queue' = Tail(queue)
  /\ clean' = (clean /\ Head(queue).fresh /\ ~IsMixed(Head(queue).data))
  /\ task' = "encodes"
  /\ UNCHANGED <<noise, native, app, encode, mic>>

Frames == Len(micBuf) \div Spf

\* Mistake (NoBacklog): one frame is encoded for each chunk.
EncodedOne == IF Frames > 0 THEN Spf ELSE 0

\* The samples a turn of the task encodes.
Encoded == Frames * Spf

\* It encodes all whole frames there are; denoising may start a load.
Encode ==
  /\ task = "encodes"
  /\ micBuf' = SubSeq(micBuf, Encoded + 1, Len(micBuf))
  /\ IF Frames > 0 THEN ProcessNoise ELSE SameNoise
  /\ task' = "waits"
  /\ UNCHANGED <<native, app, encode, mic, queue, clean>>

\* Mistake (TaskEnds): the client lives until the callback is stopped.
GoneNever == FALSE

\* Nobody has the client any more, so the queues are closed.
Gone == ~open /\ callback = Quiet

\* Both queues are closed and empty.
EndTask ==
  /\ task = "waits" /\ queue = <<>> /\ Gone
  /\ task' = "ended"
  /\ UNCHANGED <<noise, native, app, encode, mic, queue, micBuf, clean>>

-----------------------------------------------------------------------------
(* The application.                                                        *)

Stale(q) == [i \in DOMAIN q |-> [q[i] EXCEPT !.fresh = FALSE]]

\* Mistake (AlignedUnlessStale): the buffer is not emptied.
SwitchEncoderKeepingBuffer(c) ==
  /\ open /\ ~switching /\ encode # c /\ switches < MaxSwitches
  /\ encode' = c /\ clean' = TRUE
  /\ switching' = TRUE /\ switches' = switches + 1
  /\ callback' = [callback EXCEPT !.fresh = FALSE] /\ queue' = Stale(queue)
  /\ UNCHANGED <<noise, native, channels, resampler, hwBuf, micBuf, task, open>>

\* set_channels, first critical section: EncodeState.  From here on what has
\* been captured is stale.
SwitchEncoder(c) ==
  /\ open /\ ~switching /\ encode # c /\ switches < MaxSwitches
  /\ encode' = c /\ micBuf' = <<>> /\ clean' = TRUE
  /\ switching' = TRUE /\ switches' = switches + 1
  /\ callback' = [callback EXCEPT !.fresh = FALSE] /\ queue' = Stale(queue)
  /\ UNCHANGED <<noise, native, channels, resampler, hwBuf, task, open>>

\* Mistake (FreshFits): the client keeps the channels it had.
SwitchClientNot ==
  /\ switching
  /\ switching' = FALSE
  /\ UNCHANGED <<noise, native, channels, switches, open, encode, mic, queue, micBuf, task, clean>>

\* Mistake (TypeOK): the samples per frame get into the wrong field.
SwitchClientSwapped ==
  /\ switching
  /\ channels' = Spf /\ switching' = FALSE
  /\ UNCHANGED <<noise, native, switches, open, encode, mic, queue, micBuf, task, clean>>

\* set_channels, second critical section: ClientState.
SwitchClient ==
  /\ switching
  /\ channels' = encode /\ switching' = FALSE
  /\ UNCHANGED <<noise, native, switches, open, encode, mic, queue, micBuf, task, clean>>

\* The application lets go of the client.
LetGo ==
  /\ open /\ ~switching
  /\ open' = FALSE
  /\ IF callback = Quiet THEN Keep ELSE SameNoise
  /\ UNCHANGED <<native, channels, switching, switches, encode, mic, queue, micBuf, task, clean>>

\* It chooses the method and the model.
ChooseNoise ==
  /\ open /\ ~switching
  /\ \/ \E b \in BOOLEAN : SetMethod(b)
     \/ \E p \in Models : LoadModels(p)
  /\ UNCHANGED <<native, app, encode, mic, queue, micBuf, task, clean>>

EndLoad ==
  /\ LoadDone \/ LoadFails
  /\ UNCHANGED <<native, app, encode, mic, queue, micBuf, task, clean>>

-----------------------------------------------------------------------------
Push == PushNative \/ \E n \in Yields : PushResampled(n)

Next ==
  \/ \E n \in Bursts : HearBurst(n)
  \/ Push
  \/ Take \/ Encode \/ EndTask
  \/ \E c \in {1, 2} : SwitchEncoder(c)
  \/ SwitchClient \/ LetGo \/ ChooseNoise \/ EndLoad

Spec == Init /\ [][Next]_vars

\* The hardware yields samples again and again, and callback, task and load go
\* on with what they have begun.
FairSpec ==
  /\ Spec
  /\ WF_vars(\E n \in Bursts : HearBurst(n)) /\ WF_vars(Push)
  /\ WF_vars(Take) /\ WF_vars(Encode) /\ WF_vars(EndTask)
  /\ WF_vars(EndLoad)

-----------------------------------------------------------------------------
(* Properties.                                                             *)

\* The encoder's frames start where a frame starts, each sample in the place
\* of its channel, unless a chunk captured before the last switch, or mixed by
\* a resampler made for other channels, has come in since.
AlignedUnlessStale == clean => Whole(encode, micBuf)

\* What the callback captures once set_channels has returned fits the encoder,
\* unless a resampler made for other channels has mixed it.
FreshFits ==
  /\ callback.fresh => callback.channels = encode
  /\ \A i \in DOMAIN queue :
       queue[i].fresh => IsMixed(queue[i].data) \/ Whole(encode, queue[i].data)

\* Between two chunks the task keeps less than a frame, so nothing waits for
\* longer than it takes to fill one.
NoBacklog == task = "waits" => Len(micBuf) < Spf

\* As push_audio assumes, what it is given has the channels its resampler was
\* made for: after a switch as well, they are not mixed.
FreshUnmixed ==
  \A i \in DOMAIN queue : queue[i].fresh => ~IsMixed(queue[i].data)

\* With a model set and noise suppression chosen, an engine comes, or the
\* model turns out to be none.
NoiseSettles ==
  dfn /\ path # NoModel /\ engine = NoModel ~>
    engine # NoModel \/ path = NoModel \/ ~dfn \/ ~open

\* When the application lets go of the client, the encode task ends, although
\* the callback may be the last to have the client.
TaskEnds == ~open ~> task = "ended"

\* Turns the task has before it: two for each chunk, the one it is in, and the
\* last.
Turns ==
  2 * Len(queue) +
    CASE task = "waits" -> 1 [] task = "encodes" -> 2 [] task = "ended" -> 0

\* Once the application has let go, nothing is captured any more and nothing
\* brings the task back: the callback pushes what it has, at most once, and
\* every other step of callback and task leaves the task fewer turns.
OnlyDrains ==
  [][~open =>
       /\ ~open'
       /\ \/ callback # Quiet /\ callback' = Quiet
          \/ callback' = callback /\ Turns' < Turns
          \/ UNCHANGED <<callback, queue, task>>]_vars

\* The task ends last: the callback is done and no chunk is left unencoded.
EndsEmpty == task = "ended" => ~open /\ callback = Quiet /\ queue = <<>>
=============================================================================
