---------------------------- MODULE RelayTraffic ----------------------------
(***************************************************************************)
(* The audio of one client on its way through the room: the task of its    *)
(* connection that forwards its datagrams (libs/proxa-relay-server/src/    *)
(* lib.rs, 263-309), the ids that say whose they are (42-56, 144-155), and *)
(* what the listeners do with them (client.rs, handle_audio_packet).       *)
(*                                                                         *)
(* The task starts when the handler has put the peer into the room and     *)
(* ends when the connection does, which may be long after the handler has  *)
(* taken the peer out of the room.  It shares Room::peers with the         *)
(* handlers, but holds no lock over an await: it passes a shard in a step. *)
(* Datagrams get lost, and overtake each other and the control messages.   *)
(* Tasks of different connections have nothing else in common: one of them *)
(* is modelled.                                                            *)
(*                                                                         *)
(* A datagram is its length, which the headers add to; its sequence number *)
(* and payload are copied.  Of the control messages only PeerJoined and    *)
(* PeerLeft matter here; they come as PeerFeed promises.                   *)
(***************************************************************************)
EXTENDS AudioLimiter

CONSTANTS
  Peer,        \* the connections
  Self,        \* the one whose datagrams these are
  Listening,   \* bound: the clients whose playback is followed
  ShardOf,     \* the shard a peer's id hashes to
  NShards,     \* the number of shards
  Bit,         \* the positions of the bits of an id: 0..31
  Bits,        \* Bits[n]: the binary digits of n, a value of the counter
  IdMask,      \* id_mask, random bits
  IdPerm,      \* id_perm, a random order of the positions
  Sizes,       \* lengths of the client's datagrams
  MaxSent      \* bound: the number of them

ASSUME PlaceAssumption ==
  /\ Self \in Peer /\ Listening \subseteq Peer \ {Self}
  /\ NShards \in Nat \ {0} /\ ShardOf \in [Peer -> 1..NShards]
  /\ Sizes \subseteq Nat /\ MaxSent \in Nat
ASSUME PermAssumption ==
  /\ IdMask \in [Bit -> BOOLEAN] /\ IdPerm \in [Bit -> Bit]
  /\ \A i, j \in Bit : IdPerm[i] = IdPerm[j] => i = j
\* The counter is a u32 that no run wraps around: its values differ in a digit.
ASSUME BitsAssumption ==
  /\ DOMAIN Bits \subseteq Nat
  /\ \A n \in DOMAIN Bits : Bits[n] \in [Bit -> BOOLEAN]
  /\ \A m, n \in DOMAIN Bits : Bits[m] = Bits[n] => m = n

ClientHeader == 4           \* ClientAudioPacket: the sequence number
ServerHeader == 8           \* ServerAudioPacket: the peer id and that number
MaxPayload   == MaxPacket   \* handle_audio_packet has the same limit, 1200

VARIABLES
  nextId,     \* AppState::next_peer_id
  life,       \* where each connection is
  id,         \* its peer id
  cursor,     \* the shard the task's loop is to visit; 0 while it reads
  packet,     \* what it forwards: whose, and how long
  air,        \* packets on their way to a listener
  list,       \* list[o][q]: what o was told of q
  heard,      \* whose packet each listener last took for whose (history)
  sent,       \* datagrams left to the client
  stayed,     \* members all through the loop (history)
  reached     \* those the loop has sent the packet to (history)

room == <<nextId, life, id, list>>
task == <<cursor, packet, sent, stayed, reached>>
ear  == <<air, heard>>
vars == <<limiterVars, room, task, ear>>

Word   == [Bit -> BOOLEAN]
Packet == [from : Word, bytes : Nat]
members == {p \in Peer : life[p] = "member"}

TypeOK ==
  /\ LimiterTypeOK
  /\ nextId \in Nat
  /\ life \in [Peer -> {"new", "accepted", "member", "left"}]
  /\ id \in [Peer -> Word]
  /\ list \in [Listening -> [Peer -> {"unknown", "known", "gone"}]]
  /\ cursor \in 0..NShards /\ sent \in 0..MaxSent
  /\ packet \in Packet
  /\ stayed \subseteq Peer /\ reached \subseteq Peer
  /\ air \subseteq [to : Listening, data : Packet]
  /\ heard \in [Listening -> [from : Peer, as : Peer]]

NoId == [b \in Bit |-> FALSE]

Init ==
  /\ LimiterInit
  /\ nextId = 1
  /\ life = [p \in Peer |-> "new"]
  /\ id = [p \in Peer |-> NoId]
  /\ list = [o \in Listening |-> [q \in Peer |-> "unknown"]]
  /\ cursor = 0 /\ sent = MaxSent
  /\ packet = [from |-> NoId, bytes |-> 0]
  /\ stayed = {} /\ reached = {}
  /\ air = {}
  /\ heard = [o \in Listening |-> [from |-> o, as |-> o]]

-----------------------------------------------------------------------------
(* Connections come, join and leave.  RelayRoom has the rest of it.        *)

Differing(n) == {b \in Bit : Bits[n][b] # IdMask[b]}

\* Mistake (AudioAttributed): every bit that differs goes to the same place.
ScrambleFolding(n) == [b \in Bit |-> Differing(n) # {}]

\* scramble_id: the bits of n that differ from the mask, each at its new place.
Scramble(n) == [b \in Bit |-> \E i \in Differing(n) : IdPerm[i] = b]

Accept(p) ==
  /\ life[p] = "new" /\ nextId \in DOMAIN Bits
  /\ life' = [life EXCEPT ![p] = "accepted"]
  /\ id' = [id EXCEPT ![p] = Scramble(nextId)]
  /\ nextId' = nextId + 1
  /\ UNCHANGED <<limiterVars, list, task, ear>>

\* peers.insert; the task of the connection is spawned.
Insert(p) ==
  /\ life[p] = "accepted"
  /\ life' = [life EXCEPT ![p] = "member"]
  /\ IF p = Self THEN StartWindow ELSE UNCHANGED limiterVars
  /\ UNCHANGED <<nextId, id, list, task, ear>>

\* peers.remove; the task of the connection goes on.
Remove(p) ==
  /\ life[p] = "member"
  /\ life' = [life EXCEPT ![p] = "left"]
  /\ stayed' = stayed \ {p}
  /\ UNCHANGED <<limiterVars, nextId, id, list, cursor, packet, sent, reached,
                 ear>>

\* o reads PeerJoined(q), or PeerLeft(q).
Learn(o, q) ==
  /\ q # o /\ life[q] # "new"
  /\ \/ list[o][q] = "unknown" /\ list' = [list EXCEPT ![o][q] = "known"]
     \/ /\ list[o][q] # "gone" /\ life[q] = "left"
        /\ list' = [list EXCEPT ![o][q] = "gone"]
  /\ UNCHANGED <<limiterVars, nextId, life, id, task, ear>>

-----------------------------------------------------------------------------
(* The datagram task.                                                      *)

\* read_datagram yields one of n bytes.  Of a connection that is gone nothing
\* more is read, which needs no action of its own.
Read(n) ==
  /\ life[Self] \in {"member", "left"}
  /\ cursor = 0 /\ sent > 0
  /\ n \in Sizes
  /\ sent' = sent - 1

\* Too large, too many, or too short to have a sequence number: dropped.
Reject(n) ==
  /\ Read(n)
  /\ \/ Oversized(n) /\ UNCHANGED limiterVars
     \/ Drop(n)
     \/ n < ClientHeader /\ Pass(n)
  /\ UNCHANGED <<room, cursor, packet, stayed, reached, ear>>

\* The packet gets the sender's id, and the loop over the peers begins.
Forward(n) ==
  /\ Read(n)
  /\ n >= ClientHeader /\ Pass(n)
  /\ packet' = [from |-> id[Self], bytes |-> n - ClientHeader + ServerHeader]
  /\ cursor' = 1
  /\ stayed' = members /\ reached' = {}
  /\ UNCHANGED <<room, ear>>

\* Mistake (TypeOK): the loop goes on past the last shard.
NextShardPastEnd == cursor + 1

NextShard == IF cursor < NShards THEN cursor + 1 ELSE 0

\* A copy of the packet for each listener that is followed.
Copies(S) == [to : S \cap Listening, data : {packet}]

InShard(k) == {o \in members : ShardOf[o] = k}
Others(k)  == {o \in InShard(k) : id[o] # id[Self]}

\* Mistake (FanoutReachesStayers): the loop ends at the sender's own entry.
SendShardUntilSelf ==
  /\ cursor # 0
  /\ reached' = reached \cup Others(cursor)
  /\ air' = air \cup Copies(Others(cursor))
  /\ cursor' = IF Self \in InShard(cursor) THEN 0 ELSE NextShard
  /\ UNCHANGED <<limiterVars, room, packet, sent, stayed, heard>>

\* The loop passes a shard: send_datagram to each member with another id.
SendShard ==
  /\ cursor # 0
  /\ reached' = reached \cup Others(cursor)
  /\ air' = air \cup Copies(Others(cursor))
  /\ cursor' = NextShard
  /\ UNCHANGED <<limiterVars, room, packet, sent, stayed, heard>>

-----------------------------------------------------------------------------
(* The listeners.                                                          *)

\* A datagram is lost, or send_datagram has refused it.
Lose(a) ==
  /\ air' = air \ {a}
  /\ UNCHANGED <<limiterVars, room, task, heard>>

\* handle_audio_packet: one that is too large, or from a peer without an
\* entry, is dropped; the entry is found by the id.
Hear(a) ==
  /\ LET taken == {q \in Peer : list[a.to][q] = "known" /\ id[q] = a.data.from}
     IN  \/ /\ a.data.bytes - ServerHeader <= MaxPayload
            /\ \E q \in taken : heard' = [heard EXCEPT ![a.to] = [from |-> Self, as |-> q]]
         \/ /\ a.data.bytes - ServerHeader > MaxPayload \/ taken = {}
            /\ UNCHANGED heard
  /\ air' = air \ {a}
  /\ UNCHANGED <<limiterVars, room, task>>

Pause == Tick /\ UNCHANGED <<room, task, ear>>

Next ==
  \/ \E p \in Peer : Accept(p) \/ Insert(p) \/ Remove(p)
  \/ \E o \in Listening, q \in Peer : Learn(o, q)
  \/ \E n \in Sizes : Reject(n) \/ Forward(n)
  \/ SendShard
  \/ \E a \in air : Lose(a) \/ Hear(a)
  \/ Pause

Spec == Init /\ [][Next]_vars

-----------------------------------------------------------------------------
(* Properties.                                                             *)

\* The packet reaches every other member that stays all through the loop,
\* whoever joins and leaves between two shards, and never its sender.
FanoutReachesStayers ==
  /\ cursor = 0 => stayed \ {Self} \subseteq reached
  /\ Self \notin reached

\* A listener never takes somebody's audio for another's.
AudioAttributed == \A o \in Listening : heard[o].from # o => heard[o].as = heard[o].from

\* What the relay lets through is never too large for a listener: the limits
\* of the two sides are on different lengths of the same packet.
FitsListener == \A a \in air : a.data.bytes - ServerHeader <= MaxPayload

=============================================================================
