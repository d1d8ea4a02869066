--------------------------- MODULE ClientSession ----------------------------
(***************************************************************************)
(* The network task of a client (ProxaClient::new in                       *)
(* libs/proxa-client/src/client.rs): it connects to the relay, joins the   *)
(* room, serves the connection in a select loop and, when the connection   *)
(* is lost, starts again, until the application leaves.                    *)
(*                                                                         *)
(* `stage' is where the task awaits.  What the relay does with this        *)
(* connection is external: `told' is the entry the relay has of the client *)
(* once it has read everything written on the connection, and `inbox' the  *)
(* control messages on their way to the client.  The stream is reliable    *)
(* and ordered, but a message may arrive in pieces, and read_exact keeps   *)
(* the pieces in its future: when the select loop drops the future for     *)
(* another branch, the pieces are lost, the rest of the message cannot be  *)
(* read, and what is read next is garbage.                                 *)
(*                                                                         *)
(* Messages about a peer's silence, channels and ping change nothing here; *)
(* JitterBuffer has them.  Datagrams matter only as a branch of the loop.  *)
(* global_loss_rate is only shown to the user and left out.  The relay      *)
(* sends no Error message, so the code's branch for one is left out too.   *)
(***************************************************************************)
EXTENDS VoiceControl, FiniteSets

CONSTANTS
  Peers,     \* the other clients of the room
  MaxInbox   \* bound: the relay sends nothing when so many are on their way

ASSUME InboxAssumption == MaxInbox \in Nat \ {0}

VARIABLES
  stage,       \* where the network task is
  slot,        \* connection_slot holds the connection
  up,          \* the connection is alive
  leaving,     \* disconnect_tx holds a request
  peers,       \* keys of ClientState::peers
  told,        \* the relay's entry of the client
  said,        \* types of the reports written on this connection (history)
  introduced,  \* peers the relay has introduced on this connection and not
               \* seen leave since (history)
  inbox,       \* control messages on their way to the client
  partial,     \* the read_exact of the select loop holds pieces of one
  garbled      \* pieces of a message were lost on this connection (history)

network == <<stage, slot, up, leaving>>
control == <<inbox, partial, garbled>>
vars    == <<voice, reports, network, peers, told, said, introduced, control>>

PeerJoined(p) == [type |-> "PeerJoined", peer |-> p]
PeerLeft(p) == [type |-> "PeerLeft", peer |-> p]
TargetLoss(pct) == [type |-> "TargetLossRate", loss |-> pct]
Message == [type : {"PeerJoined", "PeerLeft"}, peer : Peers]
             \cup [type : {"TargetLossRate"}, loss : LossPercs]

Connected == {"opening", "joining", "joined", "blocked"}
InRoom == {"joining", "joined", "blocked"}

SessionTypeOK ==
  /\ stage \in {"resolving", "connecting", "pausing", "left"} \cup Connected
  /\ slot \in BOOLEAN /\ up \in BOOLEAN /\ leaving \in BOOLEAN
  /\ peers \subseteq Peers
  /\ told \in [silenced : BOOLEAN, stereo : BOOLEAN]
  /\ said \subseteq {"SetSilence", "SetChannels"}
  /\ introduced \subseteq Peers
  /\ inbox \in Seq(Message) /\ partial \in BOOLEAN /\ garbled \in BOOLEAN

TypeOK == VoiceTypeOK /\ SessionTypeOK

FirstTold == [silenced |-> TRUE, stereo |-> FirstStereo]

Init ==
  /\ VoiceInit
  /\ stage = "resolving" /\ slot = FALSE /\ up = FALSE /\ leaving = FALSE
  /\ peers = {}
  /\ told = FirstTold /\ said = {}
  /\ introduced = {}
  /\ inbox = <<>> /\ partial = FALSE /\ garbled = FALSE

-----------------------------------------------------------------------------
(* Connecting.                                                             *)

\* lookup_host fails, and the task pauses, or it succeeds.
Resolve ==
  /\ stage = "resolving"
  /\ stage' \in {"connecting", "pausing"}
  /\ UNCHANGED <<voice, reports, slot, up, leaving, peers, told, said, introduced, control>>

ConnectFails ==
  /\ stage = "connecting"
  /\ stage' = "pausing"
  /\ UNCHANGED <<voice, reports, slot, up, leaving, peers, told, said, introduced, control>>

\* Mistake (PeersMatch): the peers of the last connection stay.
ConnectKeepingPeers ==
  /\ stage = "connecting"
  /\ stage' = "opening"
  /\ up' = TRUE /\ slot' = TRUE
  /\ UNCHANGED <<voice, reports, leaving, peers, told, said, introduced, control>>

\* A new connection; the peers of the last one are dropped.
Connect ==
  /\ stage = "connecting"
  /\ stage' = "opening"
  /\ up' = TRUE /\ slot' = TRUE
  /\ peers' = {}
  /\ UNCHANGED <<voice, reports, leaving, told, said, introduced, control>>

\* open_bi and the JoinRoom message, with the channels of the configuration.
\* The relay takes the client for silenced.
OpenStream ==
  /\ stage = "opening" /\ up
  /\ stage' = "joining"
  /\ told' = FirstTold /\ said' = {}
  /\ introduced' = {} /\ inbox' = <<>>
  /\ partial' = FALSE /\ garbled' = FALSE
  /\ UNCHANGED <<voice, reports, slot, up, leaving, peers>>

\* RoomJoined arrives.
Joined ==
  /\ stage = "joining" /\ up
  /\ stage' = "joined"
  /\ UNCHANGED <<voice, reports, slot, up, leaving, peers, told, said, introduced, control>>

\* Mistake (Rejoins): the stream is opened again on the lost connection.
GiveUpStreamOnly ==
  /\ stage \in {"opening", "joining"} /\ ~up
  /\ stage' = "opening"
  /\ UNCHANGED <<voice, reports, slot, up, leaving, peers, told, said, introduced, control>>

\* Mistake (SlotCurrent): the lost connection stays in the slot.
GiveUpKeepingSlot ==
  /\ stage \in {"opening", "joining"} /\ ~up
  /\ stage' = "pausing"
  /\ UNCHANGED <<voice, reports, slot, up, leaving, peers, told, said, introduced, control>>

\* The connection is lost before RoomJoined has arrived.
GiveUp ==
  /\ stage \in {"opening", "joining"} /\ ~up
  /\ stage' = "pausing" /\ slot' = FALSE
  /\ UNCHANGED <<voice, reports, up, leaving, peers, told, said, introduced, control>>

PauseEnds ==
  /\ stage = "pausing"
  /\ stage' = "resolving"
  /\ UNCHANGED <<voice, reports, slot, up, leaving, peers, told, said, introduced, control>>

-----------------------------------------------------------------------------
(* The select loop.                                                        *)

\* Another branch than the control stream's runs: its future is dropped.
DropRead ==
  /\ inbox' = IF partial THEN Tail(inbox) ELSE inbox
  /\ garbled' = (garbled \/ partial)
  /\ partial' = FALSE

\* Mistake (LeaveEnds): the loop ends as if the connection were lost.
LeaveAndReconnect ==
  /\ stage = "joined" /\ leaving
  /\ leaving' = FALSE
  /\ stage' = "pausing" /\ slot' = FALSE
  /\ DropRead
  /\ UNCHANGED <<voice, reports, up, peers, told, said, introduced>>

\* LeaveRoom is written and the task ends.
Leave ==
  /\ stage = "joined" /\ leaving
  /\ leaving' = FALSE
  /\ stage' = "left" /\ slot' = FALSE
  /\ DropRead
  /\ UNCHANGED <<voice, reports, up, peers, told, said, introduced>>

\* A report is taken from the queue and written; a failure to write it is
\* ignored.
SendReport ==
  /\ stage = "joined" /\ reports # <<>>
  /\ reports' = Tail(reports)
  /\ LET m == Head(reports)
     IN  IF up THEN /\ said' = said \cup {m.type}
                    /\ told' = IF m.type = "SetSilence"
                                 THEN [told EXCEPT !.silenced = m.value]
                                 ELSE [told EXCEPT !.stereo = m.value]
               ELSE UNCHANGED <<told, said>>
  /\ DropRead
  /\ UNCHANGED <<voice, network, peers, introduced>>

\* A datagram is handled (AudioPacket of JitterBuffer).
Datagram ==
  /\ stage = "joined"
  /\ DropRead
  /\ UNCHANGED <<voice, reports, network, peers, told, said, introduced>>

\* Some bytes of a message's length have arrived.
ReadPart ==
  /\ stage = "joined" /\ inbox # <<>>
  /\ partial' = TRUE
  /\ UNCHANGED <<voice, reports, network, peers, told, said, introduced, inbox, garbled>>

\* A message is read and handled.
ReadMessage ==
  LET m == Head(inbox)
  IN  /\ stage = "joined" /\ inbox # <<>>
      /\ inbox' = Tail(inbox) /\ partial' = FALSE
      /\ peers' = CASE m.type = "PeerJoined" -> peers \cup {m.peer}
                    [] m.type = "PeerLeft" -> peers \ {m.peer}
                    [] OTHER -> peers
      /\ IF m.type = "TargetLossRate" THEN TargetLossRate(m.loss)
                                      ELSE UNCHANGED <<voice, reports>>
      /\ UNCHANGED <<network, told, said, introduced, garbled>>

\* Garbage is read as a length: too large, and the loop ends, or not, and
\* the task awaits as many bytes.
ReadGarbage ==
  /\ stage = "joined" /\ garbled
  /\ partial' = FALSE
  /\ \/ stage' = "pausing" /\ slot' = FALSE
     \/ stage' = "blocked" /\ UNCHANGED slot
  /\ UNCHANGED <<voice, reports, up, leaving, peers, told, said, introduced, inbox, garbled>>

\* Messages become part of the garbage, which makes no message.
Swallow ==
  /\ stage = "blocked" /\ inbox # <<>>
  /\ inbox' = Tail(inbox)
  /\ UNCHANGED <<voice, reports, network, peers, told, said, introduced, partial, garbled>>

Unblock ==
  /\ stage = "blocked"
  /\ stage' = "joined"
  /\ UNCHANGED <<voice, reports, slot, up, leaving, peers, told, said, introduced, control>>

\* The loop notices that the connection is lost.
Interrupted ==
  /\ stage \in {"joined", "blocked"} /\ ~up
  /\ stage' = "pausing" /\ slot' = FALSE
  /\ partial' = FALSE
  /\ UNCHANGED <<voice, reports, up, leaving, peers, told, said, introduced, inbox, garbled>>

-----------------------------------------------------------------------------
(* The application, the network and the relay.                             *)

\* leave(), also when the client is dropped.
RequestLeave ==
  /\ stage # "left"
  /\ leaving' = TRUE
  /\ UNCHANGED <<voice, reports, stage, slot, up, peers, told, said, introduced, control>>

ConnectionLost ==
  /\ up' = FALSE
  /\ UNCHANGED <<voice, reports, stage, slot, leaving, peers, told, said, introduced, control>>

CanSend == up /\ stage \in InRoom /\ Len(inbox) < MaxInbox

\* A peer that is in the room, or enters it.
Introduce(p) ==
  /\ CanSend /\ p \notin introduced
  /\ introduced' = introduced \cup {p}
  /\ inbox' = Append(inbox, PeerJoined(p))
  /\ UNCHANGED <<voice, reports, network, peers, told, said, partial, garbled>>

PeerExits(p) ==
  /\ CanSend /\ p \in introduced
  /\ introduced' = introduced \ {p}
  /\ inbox' = Append(inbox, PeerLeft(p))
  /\ UNCHANGED <<voice, reports, network, peers, told, said, partial, garbled>>

AskLoss(pct) ==
  /\ CanSend
  /\ inbox' = Append(inbox, TargetLoss(pct))
  /\ UNCHANGED <<voice, reports, network, peers, told, said, introduced, partial, garbled>>

-----------------------------------------------------------------------------
Capture == VoiceStep /\ UNCHANGED <<network, peers, told, said, introduced, control>>

Connecting ==
  \/ Resolve \/ ConnectFails \/ Connect \/ OpenStream \/ Joined
  \/ GiveUp \/ PauseEnds

Select ==
  \/ Leave \/ SendReport \/ Datagram
  \/ ReadPart \/ ReadMessage \/ ReadGarbage \/ Swallow \/ Unblock
  \/ Interrupted

Environment ==
  \/ RequestLeave \/ ConnectionLost
  \/ \E p \in Peers : Introduce(p) \/ PeerExits(p)
  \/ \E pct \in LossPercs : AskLoss(pct)

Next == Capture \/ Connecting \/ Select \/ Environment

Spec == Init /\ [][Next]_vars

\* The task goes on; attempts to resolve, connect and join succeed again and
\* again; select takes a branch that is ready again and again; the relay's
\* pings end every wait for bytes.
FairSpec ==
  /\ Spec
  /\ WF_vars(PauseEnds) /\ WF_vars(GiveUp) /\ WF_vars(Interrupted) /\ WF_vars(Unblock)
  /\ SF_vars(Resolve /\ stage' = "connecting")
  /\ SF_vars(Connect) /\ SF_vars(OpenStream) /\ SF_vars(Joined)
  /\ SF_vars(Leave)

-----------------------------------------------------------------------------
(* Properties.                                                             *)

\* The encoder task sends to a connection the network task is using: the slot
\* holds one from the moment it is made until it is given up.
SlotCurrent == slot <=> stage \in Connected

\* Once the queue is empty and the client has told the relay of its silence,
\* or channels, on this connection, the relay has what the client has.
SaidAsIs ==
  stage = "joined" /\ up /\ reports = <<>> =>
    /\ "SetSilence" \in said => told.silenced = throttled
    /\ "SetChannels" \in said /\ ~telling => told.stereo = stereo

\* Nothing of an earlier connection survives in the list of peers: when all
\* messages have been read it is the relay's, provided no read was dropped.
PeersMatch ==
  stage = "joined" /\ up /\ ~garbled /\ inbox = <<>> => peers = introduced

\* Control messages are sent over a reliable stream, as the protocol says:
\* on a living connection each of them takes effect.
ControlReliable ==
  stage = "joined" /\ up /\ inbox = <<>> => peers = introduced

\* The relay knows whether the client is silent, so that no loss is
\* misreported, as the protocol says of SetSilence.
RelayKnowsSilence ==
  stage = "joined" /\ up /\ reports = <<>> => told.silenced = throttled

\* A request to leave ends the task, whenever it is made.
LeaveEnds == leaving ~> stage = "left"

\* An interrupted client is back in the room, or has left.
Rejoins == stage # "joined" ~> stage \in {"joined", "left"}
=============================================================================
