# A TLA+ model of proxa-voicechat

proxa-voicechat is a voice chat: clients capture a microphone, encode it with
Opus and send the frames as QUIC datagrams to a relay, which forwards them to
the other members of the room; a reliable QUIC stream per connection carries
the control messages (who is in the room, who is silent, how much loss a
listener sees).  This directory models the parts of it that are concurrent,
unreliable or stateful.

## Inventory

| part | source | state | operations | interacts with |
|---|---|---|---|---|
| relay room | `libs/proxa-relay-server/src/lib.rs` 14-26, 160-261, 311-412 | `Room::peers`: a DashMap of entries (connection, stream, loss map, silenced, channels) | join, SetSilence, SetChannels, ReportPeerLoss, leave or broken connection | one handler task per connection, all sharing the map; each writes to the streams of the others |
| relay audio forwarding | same, 263-309 | window start, bytes in the window | size limit, rate limit, fan-out to the room | reads the map while handlers change it; goes on after LeaveRoom until the connection closes |
| relay ping broadcast | same, 110-142 | none of its own | every 2 s: collect the round-trip times, tell everyone | iterates over rooms and peers, holding shard locks over awaits |
| relay peer ids | same, 35-55, 144-155 | id counter, mask, bit permutation | one id per accepted connection | ids key the map, and the clients' maps |
| wire protocol | `libs/proxa-protocol/src/lib.rs` | none | message types; audio packet codecs | both sides |
| client session | `libs/proxa-client/src/client.rs` 366-568, 1019-1078 | connection slot, reconnect loop, disconnect channel, report queue | resolve, connect, join, select loop, reconnect, leave | relay (stream, datagrams), room state, encoder task |
| client room state | `client.rs` 49-192 | `ClientState::peers`, loss target | the server messages, audio packets | network task and audio callback, under one mutex |
| jitter buffer | `libs/proxa-client/src/peer.rs` | packets by sequence number, the next one to decode, statistics, targets | packet arrival, refill, decode, conceal, catch up, report | network task inserts, audio callback removes |
| capture and encoding | `libs/proxa-client/src/encode.rs`, `client.rs` 604-797 | throttle flag, last voice time, encoder settings, next sequence number | voice activity, bitrate, channels, target loss | microphone callback, network task, user interface |
| noise suppression engine | `encode.rs` 43-51, 171-201, `dfn3.rs` | engine, model path, loading flag | set the path, load in the background, use | blocking thread and encoder task |
| signal processing | `aec3.rs`, `encode.rs` 53-169, resampling in `client.rs` | filter memories | arithmetic on samples | |
| sound effects | `assets.rs` | cache of decoded sounds | play | |
| audio backend | `libs/proxa-client-cpal` | device lists, streams | enumerate, open, callbacks | cpal |
| command line client | `apps/proxa-client-cli-app` | terminal state | user interface | the client's API |
| placeholders | `proxa-core`, `proxa-controller`, two controller apps | none | none | |

What is hard in this code: the handlers of one room run on several threads and
meet only at the shard locks of the DashMap, and most of them await a stream
while they hold one; control messages and audio take different ways, so either
may be late with respect to the other; connections break and are made again
while settings stay in the client only; the jitter buffer is driven from two
sides with packets lost, late and reordered; the number of channels changes while
samples of the old one are on their way.

What makes each part right, in short.  Room: introductions and farewells reach
everyone once and in order, clients see the settings the relay holds, loss
reports die with the reporter.  Session: state of an earlier connection does
not survive into a later one, leaving ends the task, the relay knows whether
the client talks.  Jitter buffer: a packet that is on time is played, loss is
counted once and never above what was expected.  Forwarding: a packet reaches
everyone who stays and is taken for its sender's, and the limiter neither lets
through too much nor drops what keeps to the limit.  Encoding: frames hold whole
samples of the encoder's channels, and while the client talks the encoder has the
target bitrate, error correction and the loss target.  Noise suppression: the
engine is of the model that is set.

## Modules

Six models, of the places where several actors meet:

| model | modules | actors |
|---|---|---|
| a room of the relay | `PeerFeed`, `RelayRoom`, `MCRelayRoom`, `RelayRoom_proofs` | the handler tasks of its connections |
| the same on threads | `RelayRuntime`, `MCRelayRuntime`, `RelayRuntime_proofs` | those, the worker threads, the ping task |
| audio through the relay | `AudioLimiter`, `RelayTraffic`, `MCRelayTraffic`, `RelayTraffic_proofs` | the datagram task of a client, those who join and leave, the listeners |
| the playback of one peer | `JitterBuffer`, `MCJitterBuffer`, `JitterBuffer_proofs` | the network task and the output callback |
| the microphone | `NoiseEngine`, `Capture`, `Capture_proofs` | the input callback, the encode task, the application, a load in the background |
| the client's voice and connection | `VoiceControl`, `ClientSession`, `ClientSession_proofs` | the encode task, the application, the network task |

How they are composed:

- `RelayRuntime` extends `RelayRoom` and implements it: every step on the threads
  is a step of a handler, or leaves the room alone (`ServesRoom`).
- `RelayRoom` implements `PeerFeed`, which says what a client may be told of the
  others and nothing of handlers, locks and loops (`PeersFed`).
- `RelayTraffic` extends `AudioLimiter` and implements its specification.  Its
  listeners learn of the peers as `PeerFeed` promises.
- `ClientSession` extends `VoiceControl`: the encode task and the application
  fill the queue of reports that the network task empties, and the network task
  changes the encoder when the relay asks for protection against loss.
- `Capture` extends `NoiseEngine`: a frame of the microphone starts the load of
  an engine, and the last holder of the client keeps the engine.

A definition marked "Mistake" is a plausible error in the definition after it,
and names the property it breaks when it is put in that definition's place.  No
specification uses it.

## The room of the relay

`RelayRoom` models one room: a connection is a peer, its handler's position is
`pc`, the shard read lock that its loop (or `get`) holds is `cur`, the entries
of that shard it has yet to visit are `batch`, the entry it refers to is `at`.
`members`, `entry` and `loss` are the DashMap.  Each action is the code between
two awaits, or between two calls on the map, since other tasks run there.
A write needs `Writable`: nobody iterates over, or refers into, the shard.
A message to a client is applied to `known` and `seen`, that client's copy of
the room, when it is written: the stream is reliable and ordered, and clients
act on nothing else.  `joinsTold` and `leftTold` are history, and so is
`company`: whom a peer found in the room when its join loop began, then when it
was inserted, and at last when it was removed.

`RelayRuntime` adds what the handlers run on.  A task that waits at an await
occupies no thread, but a call of `entry`, `insert`, `get_mut` or `remove` on a
locked shard does not return, and parks its worker thread.  `parked` is that
call, `pingShard` the shard the ping task reads (while it does, it has the one of
`rooms` as well).  `Poll`, `Write` and `Park` need a free worker; `Unpark` is the
wake-up by the last reader.

| run | question | bounds |
|---|---|---|
| `runtime_ok` | are joins and farewells told once, both ways and to everyone who stays from the loop's first step to its last; do the others see a peer's settings; does a report outlive its reporter; does everybody get the lock he waits for; is the room of `RelayRoom`, and the feed of `PeerFeed`, what the threads yield? | two connections on a shard each, three workers; one changes two settings, one reports loss once |
| `runtime_deadlock` | *(violated)* does a round of pings end? | the same on two workers |
| `relay_race` | *(violated)* is every member introduced to every other? | three connections on three shards |
| `relay_target` | *(violated)* is the last target told the overall rate? | three connections, two of them report once |

Two connections are enough for a newcomer and an incumbent, and for one that
leaves while the other joins, changes its settings or reports.  Each is on its
own shard, so that each loop passes a shard it finds empty and one it does not,
and each write meets the loop of the other and of the ping task.  What needs a
third (two who report on the same sender; a member inserted ahead of and one
removed behind a loop) is covered by the theorems, which hold for any number of
connections and shards.  Two workers for two connections are the smallest
standstill; three are the least number that, by `EnoughThreads`, excludes one.

Fairness (`RuntimeFairSpec`): a task that can go on is polled (weak fairness of
`Proceed` for a handler that has begun something, and of `Ping`), because tokio
polls what is woken and a stream that accepts no data closes its connection
after the idle timeout (5 s, line 88), so an await on it ends.  A parked thread
is woken whenever the last reader leaves and gets in after some of these
wake-ups (strong fairness of `Unpark`): the rounds of the ping task are two
seconds apart and the loops of handlers are finite.  Nothing is assumed of what
clients send.

### Proofs

`RelayRoom_proofs` proves, for every set of peers and shards, each safety
property of the room.  The inductive invariant says how far each handler's loop
has got: `LockInv` ties `pc`, `cur`, `batch` and `at` to the map (an entry under
a read lock stays), `JoinInv` says that a newcomer and a member still ahead of
its loop know nothing of each other, `MeetInv` that the loop has behind it only
members it has introduced, of those it found, `LossInv` that a departing listener's
reports are only ahead of its loop, `FarewellInv` that behind it everyone has
been told, `ViewInv` that what a client sees differs from the entry only ahead
of the broadcast.  `Ahead` is the common idea: a member in a later shard or not
yet taken from the current one.  `RoomFeedsPeers` follows: the invariant says
that a message about a peer goes to one that knows it and has not been told of
its leaving, so every step is one of `PeerFeed` or a stutter.

`LoopsEnd` is what can be proved of the loops' ending: no step of anybody takes a
busy handler back (`LoopsAdvance`).  A step of its own brings it to a later
shard, to fewer entries of the same one, or further in the loop body
(`Nearer`), and a step of another leaves it where it is (`OthersStay`); in
particular nobody adds to a shard it is visiting.

`RelayRuntime_proofs` shows that the calls are steps of the room
(`RuntimeImplementsRoom`), so that all of this holds on the threads
(`RoomSafeOnThreads`, `ThreadsFeedPeers`).  Its
invariant `ParkedDue` says that a parked handler is still where the call was
made; such a handler holds no shard (`NoCircularWait`), so only the threads can
run out, and with more workers than connections they cannot (`EnoughThreads`,
which counts the parked and names the holder of the lock).

## Audio through the relay

`AudioLimiter` is the size and rate limit of a connection; time is counted in
ticks.  `RelayTraffic` is the task that forwards the datagrams of one client,
`Self`: `Reject` and `Forward` are one turn of its loop up to the iteration over
the room, `SendShard` is a shard of it (no await, so no lock is held between
two steps), and `cursor` the next shard.  `Accept`, `Insert` and `Remove` are
what others do to the map meanwhile; the task outlives the sender's membership,
as in the code.  A datagram is its length.  `Scramble` is `scramble_id` bit by
bit.  `Learn` is a listener's control stream, `Hear` its `handle_audio_packet`;
`Lose` is the network.

| run | question | bounds |
|---|---|---|
| `traffic` | how much passes the limiter, and who loses what to it; whom does a packet reach, for whose is it taken, is it small enough? | three connections on two shards, one listener followed; ids of two bits, three datagrams of three sizes (too short for a header, the longest allowed, too long), windows of two ticks, four moments |

Three datagrams and two windows are enough for the limit to be met in the middle
of a window, across two, and by a datagram that only counts; the theorems have
any number.  Tasks of different connections share only the map, and only read
it, so one sender is enough.  The u32 counter is assumed not to wrap
(`BitsAssumption`).  The run may stop when everything is sent, so deadlock is not
checked.

`RelayTraffic_proofs` proves all six properties.  For the limiter the invariant
relates the count to the history: what a window has let through is at most its
count and the limit (`Counted`), and up to its start, from any tick on, a limit
has passed for each whole second and one besides (`Windows`).  That is inductive
because a window that begins leaves at least a second behind the one before it.
With the window that is open it gives `RateBounded`, the rate over any stretch of
time, and for stretches shorter than a second `NeverTwiceTheLimit`.
`TrafficLimited` is the refinement.  For the
forwarding it says that ids are scrambled counts and distinct (`Numbered`: by
`PermAssumption` no two counts scramble to the same id), and that those who stay
in the shards passed have been reached (`Passing`).

## The playback of one peer

`JitterBuffer` models `PeerState` of `peer.rs`.  The packets of the peer are
numbered; the network takes them in any order, late or never (`AudioPacket`),
and the relay's messages about silence and channels come between them
(`PeerSilence`, `PeerChannels`).  The audio callback works on the peer under the
same mutex as the network task, so that no packet arrives inside one; but its
refill loop has many ways through, and each pass of it is an action:
`PlayFrame`, `CatchUp`, `CatchUpFails`, `Conceal`, `FadeOut`, `Starved`,
`Refilled`; `BeginCallback` and `EndCallback` frame them.  The length
of the playback buffer is counted in units of which a frame has a few.  Left
out: the samples, volume, the playback rate and its latency filter
(`pull_samples` takes what a callback needs, give or take what the rate allows),
the conversion to the rate of the output device, and the sound effects.

| run | question | bounds |
|---|---|---|
| `jitter_play` | is what is on time played, is loss bounded, does the buffer stay bounded, does the refill loop end? | five packets (numbers 0 to 4) in any order or lost, a new sentence and a channel switch at any time between callbacks |

Five packets are more than the three that start playback, so that a hole, a late
packet, a catch-up and a jump to the oldest packet all occur; the thresholds of
the code are constants, small here, so that each is crossed: losses are reported
after two frames instead of fifty (`ReportEvery`), so that a late packet after a
report occurs too.  `MaxExpected` bounds the frames counted between reports.
Fairness: the audio device calls back again and again, and a callback that has
begun goes on (it is plain code under a mutex).

`OnTimePlayed` is about every step and every packet in the buffer that
`next_decode_seq` is not past: the step leaves it so, or gives it to the decoder.
It holds for mono and stereo peers, and three exceptions are named, each with its
exact extent.  A message about silence or channels empties the buffer
(`Emptied`).  A packet that arrives at a buffer of `Cap` packets pushes out the
oldest, and no other (`Evicts`).  A failed catch-up of a stereo peer costs the two
packets it took, which the decoder refused, and the next number, which stays in
the buffer but is passed over (`FadeLoses`); no other pass of a stereo peer may
lose anything.  Each exception occurs in the run.

`JitterBuffer_proofs` proves each safety property of the run for every number of
packets and every bound.  The invariant adds three facts to the properties.  The jitter buffer never
holds more than its cap, so that making room takes out one packet.  It is empty
while the first packet of a sentence is awaited (`NoneBeforeFirst`): otherwise the
first to arrive, which sets `next_decode_seq`, could set it past one that is
there.  And once playback has started the decoder's frame size is known
(`SizeKnown`): the catch-up of a mono peer has room for a frame, and concealment
adds no more than `MaxLen`.

Why the refill loop ends is proved as far as it can be without fairness:
`RefillShrinks` says that every pass that stays in the loop leaves fewer of them.
No single quantity of the code shrinks with each, so `Passes` weighs three: a
packet outweighs all that taking it can bring about, a concealed frame that
gives way to a real one (the buffer gets shorter then) outweighs the length still
missing, and that shrinks otherwise.  `RefillBounded` bounds the weight, and with
it the time the mutex is held, by the cap of the jitter buffer and what a
callback needs.

## The microphone

`Capture` follows samples from the hardware to the encoder; a sample is the
channel it belongs to, mono, left or right, or a mixture.  `HearBurst` is the
input callback up to the point where it has read the channels of the client,
`PushNative` and `PushResampled` are `push_audio`, `Take` and `Encode` the two
critical sections of a turn of the encode task, `SwitchEncoder` and
`SwitchClient` those of `set_channels`.  `queue` is `mic_rx`, `micBuf` is
`mic_buffer`, `hwBuf` what the resampler has not used.  `LetGo` is the
application dropping its handle; the callback, which upgrades a weak pointer, may
be the last to hold the client, and `Release` is the drop on the audio thread.
`NoiseEngine` is the DeepFilterNet engine: `ChooseNoise` and `EndLoad` are its
steps in `Capture`, and `Encode` starts a load.

| run | question | bounds |
|---|---|---|
| `capture` | are frames aligned, does fresh audio fit, does anything stay behind, is the engine of the path that is set, do loads and the task end? | both kinds of hardware rate, bursts of three, frames of two, a queue of two, two switches, two models |
| `capture_mixed` | *(violated)* is fresh audio unmixed after a switch? | bursts of two, one switch, no model |

Bursts of three against frames of two leave an odd rest in every buffer, which is
what misaligns channels; two switches lead there and back, with chunks of both
kinds in the queue; two models are enough for one to be overtaken by the other.
`MaxQueue` bounds the queue, which has no bound in the code, by letting the
hardware pause.  The run ends with the task, so deadlock is not checked.
Fairness (`FairSpec`): the hardware yields samples again and again; callback,
task and load go on with what they have begun, which is plain code or a blocking
thread of tokio's.

`Capture_proofs` proves the five safety properties for any bursts, frame length,
models and bounds.  The invariant adds that the resampler's rest is less than one
of its steps, that the two places that hold the channels agree outside
`set_channels`, that a load leaves no engine beside it, and that while the
application holds the client the engine kept is of its path.  Of the end it
proves what fairness only has to drive: once the application has let go, nothing
is captured, and every step of the task leaves it fewer `Turns` (`LetGoDrains`);
when it has ended, callback and queue are empty (`TaskEndsLast`).

Two of the properties have an exception by name, because the code does not
exclude it: chunks captured before a switch and taken after it are cut as the
new layout (`AlignedUnlessStale`: an odd number of mono samples swaps left and
right until the next switch), and a path set during a load gets the engine of
the old one (`EngineIsOfPath`).

## The client's voice and connection

`VoiceControl` models `EncodeState`: `LoudFrame` and `QuietFrame` are the two
outcomes of `handle_vad` that change something, `SetBitrate` and the two
critical sections of `set_channels` (`SwitchEncoder`, `TellChannels`) are the
application, `TargetLossRate` is the relay.  `enc` is what the Opus encoder was
last told; Opus refuses the bit rate 0, and the code ignores or returns the
error at different points (`Accepted`, the guard of `SwitchEncoder`).

`ClientSession` models the network task: `stage` is the await it is at.
`Resolve`, `Connect`, `OpenStream`, `Joined` are the way into the select loop,
`ConnectFails`, `GiveUp` and `PauseEnds` the way back (`GiveUp` stands for five
clean-ups in client.rs 449-512 with the same effect); `Leave`, `SendReport`,
`Datagram` and `ReadMessage` are its branches.  A message may arrive in two
pieces: `ReadPart` is the first wake-up of `read_exact`, and `DropRead` is what
`select!` does to that future when it takes another branch.  The rest of the
stream is garbage from then on (`ReadGarbage`, `Swallow`, `Unblock`).  The
connection and the relay are the environment; how the relay comes to send what
it sends is `RelayRoom`'s matter.  The relay's entry of the client (`told`) is
the one it will have once it has read what was written.

| run | question | bounds |
|---|---|---|
| `session_safe` | is the encoder tuned, the slot current, the relay told right, the list of peers right? | one other peer, two messages and two reports under way, bit rates with one that Opus refuses, one loss target; any number of reconnects |
| `session_live` | does leave() end the task, does an interrupted client come back? | nobody else in the room; connections lost at any time |
| `session_rejoin` | *(violated)* does the relay know whether the client is silent? | nobody else |
| `session_control` | *(violated)* does every control message take effect? | one other peer |

Nothing counts reconnects: a state after the second is one after the first.  One
peer is enough because messages about different peers do not touch each other
(the theorem has any number).  Two reports are enough for one of an earlier
setting, or of an earlier connection, to be ahead of the current one.

Fairness (`FairSpec`): pauses, reads on a lost connection and waits for bytes
end (weak fairness; the relay's ping broadcast keeps bytes coming, and a dead
connection fails after its idle timeout); an attempt to resolve, connect, open
and join that is possible again and again succeeds at last (strong fairness: the
network is not down for ever; if it were, `leave()` would never be noticed, since
only the select loop of a joined connection looks for it); and `select!`, which
polls its branches in random order, takes the request to leave if it is ready
again and again (strong fairness).

`ClientSession_proofs` proves the five safety properties for any peers, rates
and bounds.  `SaidAsIs` and `PeersMatch` speak of empty queues, so they are not
inductive: the invariant says of a queue that its last message about a thing
tells the truth (`Ends`), and that when it has none (`Absent`) the receiver has
it already.  Both are defined once, for the reports and for the messages about
each peer, with a lemma for each thing a step may do to a queue.

## Findings

Where the code does not do what its comments, or the protocol's, say.  Each is a
run that TLC must find violated.

| run | what happens | where |
|---|---|---|
| `relay_race` | two clients that join together never hear of each other | `proxa-relay-server` lib.rs 216-252 |
| `relay_target` | a sender may keep an older loss target | lib.rs 344-355 |
| `runtime_deadlock` | as many handlers as there are worker threads wait for a shard that the ping task holds over an await: nothing goes on | lib.rs 110-142 |
| `capture_mixed` | after `set_channels` the resampler mixes the channels for the client's life | client.rs 733-797 |
| `session_rejoin` | a client that talks while it reconnects stays silent for the relay | client.rs 459 |
| `session_control` | a partly read control message is lost, and the stream with it | client.rs 542 |

Other oddities were met while modelling.  They are not runs of their own: the
models have them, and the properties that they touch except them by name, so
that the proofs say that nothing else goes wrong.  Two sit badly with a comment of
the code:

- losses (`lost_sequences`) and the streak of misses survive the "total sync",
  which client.rs:133 announces as "start every sentence from a perfect clean
  state" (`StartSentence` leaves them; no property speaks of them);
- `set_channels` empties `mic_buffer` "to prevent sample alignment issues"
  (client.rs:667), but a chunk of the old layout may still be in the queue and is
  cut as the new one (`clean`, the exception of `AlignedUnlessStale`).

Of the others no comment says the contrary:

- a path set during a load gets the engine of the old one, or is erased when that
  load fails (`overtaken`, the exception of `EngineIsOfPath`);
- a newcomer is told which members are silent but not which talk, and takes a
  talking one for silent until it next falls silent (lib.rs 230);
- a newcomer that has been told of a member, and is inserted only after that
  member's farewell has passed, keeps it in its list as a ghost (lib.rs 217-261
  and 389-412; `company`, in `FarewellReachesAll`, leaves such a newcomer out);
- catching up fails for a stereo peer, because `decode_crossfade` asks the decoder
  for a mono frame's samples (peer.rs 328), unless the last frame came from FEC and
  was long enough for two; it then skips a third number (`CatchUpFails`,
  `FadeLoses`);
- a lost packet repaired by FEC may yield up to 120 ms, the size of the decoder's
  buffer, instead of one frame.

## What is only model-checked

The liveness properties rest on fairness and on ENABLED, which are out of the
prover's reach: `HandlersEnd`, `ParkedGetsLock`, `RoundEnds` and `ServesRoom`
(the refinement of `RelayRoom` with its fairness; without it, it is
`RuntimeImplementsRoom`), `RefillEnds`, `NoiseSettles`, `TaskEnds`, `LeaveEnds`
and `Rejoins`.  For three of them the theorems have the part that does not need
fairness: `LoopsEnd` (`HandlersEnd`), `RefillShrinks` with `RefillBounded`
(`RefillEnds`) and `LetGoDrains` (`TaskEnds`) say that every step counts and none
is undone.  What is left to TLC is that a step can be taken and, by fairness, is.
No run checks these action properties; each is stated beside the liveness
property it belongs to.  Every safety property of a passing run is proved as well as
checked.  The assumptions of the proofs are the named ASSUMEs of the modules:
types of the constants, a permutation that is one, distinct digits for distinct
counts, and a greatest rate in each set of rates.

## Not modelled

- Relay start-up (certificates, TLS, the endpoint): I/O that runs once, without
  a state that anything depends on later.
- The wire's byte order and the bincode encoding: third-party, and the same code
  on both sides.  Lengths are modelled where limits meet them.
- Signal processing (echo cancellation, denoising, gain, the arithmetic of
  resampling, volume): no property here tells samples apart except by channel.
- In the client: the loss rate shown to the user, the statistics, the loss and
  jitter that can be simulated for tests, a hardware rate that changes during a
  call, the far-end queue of the echo canceller.
- Sound effects, device enumeration, the terminal user interface: caches that are
  filled once, calls of cpal, and layout over the client's API.
- Crates that are still placeholders.

Simplifications to keep in mind: `RelayRuntime` has one room, which shares its
threads and the shard of `rooms` with no other; the queue of loss targets on the
streams is not modelled beyond the order of writing; `Capture` and
`ClientSession` are two views of the same encode task and are not composed,
because a frame changes nothing in the session but a sequence number that the
listener takes as it comes (`JitterBuffer`).

## What could come next

- One speaker and one listener composed of `VoiceControl`, a lossy path for
  datagrams, the ordered one for reports, and `JitterBuffer`: what the listener
  counts as lost against what was sent in a sentence.
- Several rooms in `RelayRuntime`: a writer of one room parked by the loop of
  another, when their ids meet in a shard of `rooms`.
