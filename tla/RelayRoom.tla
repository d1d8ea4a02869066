----------------------------- MODULE RelayRoom -----------------------------
(***************************************************************************)
(* One room of the relay server and the connection handlers that share it  *)
(* (libs/proxa-relay-server/src/lib.rs, handle_connection).                *)
(*                                                                         *)
(* Every accepted connection runs handle_connection in its own tokio task  *)
(* on a multi-threaded runtime.  The tasks share Room::peers, a DashMap:   *)
(* an array of shards, each behind a reader/writer lock.  `peers.iter()'   *)
(* visits the shards in order and keeps the READ lock of the current shard *)
(* over every await of the loop body; get_mut, insert and remove need the  *)
(* WRITE lock of the key's shard.  Between two awaits, and between two     *)
(* DashMap calls, any other task may run: each action below is one such    *)
(* segment of the handler.                                                 *)
(*                                                                         *)
(* A connection gets a fresh peer id (fetch_add, then a bijection), so a   *)
(* peer here is one connection, and a reconnecting client is a new peer.   *)
(*                                                                         *)
(* What the relay writes to a control stream is reliable and ordered, so   *)
(* the model applies each message, when it is written, to the copy of the  *)
(* room that the client at the other end will have built from it           *)
(* (ClientState::peers: `known' and `seen').                               *)
(*                                                                         *)
(* A definition marked "Mistake" is a plausible error in the definition    *)
(* after it; nothing here uses it.  Put in that definition's place, it     *)
(* must break the property the comment names.                              *)
(***************************************************************************)
EXTENDS Integers

CONSTANTS
  Peer,         \* the connections that join the room
  NoPeer,       \* no entry is being visited
  Channels,     \* channel counts a client may announce
  JoinChannels, \* the one its JoinRoom announces (ClientConfig::channels)
  Rates,        \* loss rates a listener may report, 0 among them
  ShardOf,      \* the shard of Room::peers a peer id hashes to
  NShards,      \* the number of shards, visited in the order 1..NShards
  MaxSettings,  \* bound: SetSilence and SetChannels messages of each client
  MaxReports    \* bound: ReportPeerLoss messages of each client

ASSUME PeerAssumption == NoPeer \notin Peer
ASSUME ShardAssumption == NShards \in Nat /\ ShardOf \in [Peer -> 1..NShards]
ASSUME ChannelAssumption == JoinChannels \in [Peer -> Channels]
ASSUME BoundAssumption == MaxSettings \in [Peer -> Nat] /\ MaxReports \in [Peer -> Nat]
\* Rates are f32 values that are not NaN: they have an order and, being
\* finitely many, every non-empty set of them has a greatest one.
ASSUME RatesAssumption ==
  /\ Rates \subseteq Nat /\ 0 \in Rates
  /\ \A S \in SUBSET Rates : S # {} => \E m \in S : \A n \in S : n <= m

NoReport == -1   \* the loss map has no entry for this reporter

VARIABLES
  members,    \* keys of Room::peers
  entry,      \* silenced flag and channel count of each member's entry
  loss,       \* loss[o][r]: what listener r reported of sender o, in o's entry
  pc,         \* where the handler of each connection is
  cur,        \* shard whose read lock the handler holds; 0 when it holds none
  batch,      \* members of that shard the handler's loop has yet to visit
  at,         \* the member whose entry the loop body (or get) refers to
  maxRate,    \* max_rate, computed and not yet written to the stream
  known,      \* known[p]: peers p's client has an entry for
  seen,       \* seen[p][q]: that entry, silenced flag and channel count
  joinsTold,  \* joinsTold[p][q]: PeerJoined(q) messages written to p (history)
  leftTold,   \* leftTold[p][q]: PeerLeft(q) messages written to p (history)
  target,     \* the last TargetLossRate written to each peer
  company,    \* the other members when p's join loop began, then when it was
              \* inserted, at last when it was removed (history)
  settings,   \* SetSilence and SetChannels messages p's client has left
  reports     \* ReportPeerLoss messages p's client has left

shared  == <<members, entry, loss>>
handler == <<pc, cur, batch, at, maxRate>>
told    == <<known, seen, joinsTold, leftTold, target>>
budget  == <<settings, reports>>
vars    == <<shared, handler, told, company, budget>>

Entry == [silenced : BOOLEAN, channels : Channels]

\* The loops over Room::peers, and the states inside one of their bodies.
Iterating == {"joining", "silencing", "rechanneling", "leaving"}
Inside    == {"introducing", "leaveMax", "leaveTell", "leaveBye"}
Reporting == {"reportMax", "reportTell"}
Handler   == {"accepted", "inserting", "serving", "gone"}
               \cup Iterating \cup Inside \cup Reporting

RoomOK ==
  /\ members \subseteq Peer
  /\ entry \in [Peer -> Entry]
  /\ loss \in [Peer -> [Peer -> Rates \cup {NoReport}]]
  /\ company \in [Peer -> SUBSET Peer]

HandlerOK ==
  /\ pc \in [Peer -> Handler]
  /\ cur \in [Peer -> 0..NShards]
  /\ batch \in [Peer -> SUBSET Peer]
  /\ at \in [Peer -> Peer \cup {NoPeer}]
  /\ maxRate \in [Peer -> Rates]

ToldOK ==
  /\ known \in [Peer -> SUBSET Peer]
  /\ seen \in [Peer -> [Peer -> Entry]]
  /\ joinsTold \in [Peer -> [Peer -> Nat]]
  /\ leftTold \in [Peer -> [Peer -> Nat]]
  /\ target \in [Peer -> Rates]

BudgetOK == settings \in [Peer -> Nat] /\ reports \in [Peer -> Nat]

TypeOK == RoomOK /\ HandlerOK /\ ToldOK /\ BudgetOK

\* The entry a peer's join creates, at the relay and at the other clients.
NewEntry(p) == [silenced |-> TRUE, channels |-> JoinChannels[p]]

Init ==
  /\ members = {}
  /\ entry = [p \in Peer |-> NewEntry(p)]
  /\ seen = [p \in Peer |-> [q \in Peer |-> NewEntry(q)]]
  /\ loss = [o \in Peer |-> [r \in Peer |-> NoReport]]
  /\ pc = [p \in Peer |-> "accepted"]
  /\ cur = [p \in Peer |-> 0]
  /\ batch = [p \in Peer |-> {}]
  /\ at = [p \in Peer |-> NoPeer]
  /\ maxRate = [p \in Peer |-> 0]
  /\ known = [p \in Peer |-> {}]
  /\ joinsTold = [p \in Peer |-> [q \in Peer |-> 0]]
  /\ leftTold = [p \in Peer |-> [q \in Peer |-> 0]]
  /\ target = [p \in Peer |-> 0]
  /\ company = [p \in Peer |-> {}]
  /\ settings = MaxSettings
  /\ reports = MaxReports

-----------------------------------------------------------------------------
(* What the client makes of a message: ClientState::handle_server_message. *)

PeerJoined(to, q, c) ==
  /\ known' = [known EXCEPT ![to] = @ \cup {q}]
  /\ seen' = [seen EXCEPT ![to][q] = [silenced |-> TRUE, channels |-> c]]
  /\ joinsTold' = [joinsTold EXCEPT ![to][q] = @ + 1]

\* Mistake (PeersFed): the entry of a peer that left is kept.
PeerLeftKept(to, q) ==
  /\ leftTold' = [leftTold EXCEPT ![to][q] = @ + 1]
  /\ UNCHANGED known

PeerLeft(to, q) ==
  /\ known' = [known EXCEPT ![to] = @ \ {q}]
  /\ leftTold' = [leftTold EXCEPT ![to][q] = @ + 1]

\* get_mut: a message about a peer without an entry is dropped.
PeerSilence(to, q, s) ==
  seen' = IF q \in known[to] THEN [seen EXCEPT ![to][q].silenced = s] ELSE seen

PeerChannels(to, q, c) ==
  seen' = IF q \in known[to] THEN [seen EXCEPT ![to][q].channels = c] ELSE seen

-----------------------------------------------------------------------------
(* Room::peers as a DashMap.                                               *)

\* A write lock is granted when no task holds the shard's read lock.
Writable(p) == \A h \in Peer : cur[h] # ShardOf[p]

\* Iter::next past the last entry of a shard: lock the next shard.
NextShard(p) ==
  /\ pc[p] \in Iterating /\ batch[p] = {} /\ cur[p] < NShards
  /\ cur' = [cur EXCEPT ![p] = @ + 1]
  /\ batch' = [batch EXCEPT ![p] = {q \in members : ShardOf[q] = cur[p] + 1}]
  /\ UNCHANGED <<shared, pc, at, maxRate, told, company, budget>>

\* Mistake (NoStaleTalker): the loop may end one shard early.
LoopDoneEarly(p, loop, after) ==
  /\ pc[p] = loop /\ batch[p] = {} /\ cur[p] >= NShards - 1
  /\ pc' = [pc EXCEPT ![p] = after]
  /\ cur' = [cur EXCEPT ![p] = 0]
  /\ UNCHANGED <<shared, batch, at, maxRate, told, company, budget>>

\* Iter::next past the last shard: the loop ends and its lock is released.
LoopDone(p, loop, after) ==
  /\ pc[p] = loop /\ batch[p] = {} /\ cur[p] = NShards
  /\ pc' = [pc EXCEPT ![p] = after]
  /\ cur' = [cur EXCEPT ![p] = 0]
  /\ UNCHANGED <<shared, batch, at, maxRate, told, company, budget>>

\* Iter::next yields o.
Visit(p, o) ==
  /\ o \in batch[p]
  /\ batch' = [batch EXCEPT ![p] = @ \ {o}]

-----------------------------------------------------------------------------
(* Joining: introductions to everyone in the map, then the insertion.      *)

\* Mistake (ToldOnce): the newcomer is in the map before its join loop runs.
JoinInsertingFirst(p) ==
  /\ pc[p] = "accepted" /\ Writable(p)
  /\ pc' = [pc EXCEPT ![p] = "joining"]
  /\ members' = members \cup {p}
  /\ UNCHANGED <<entry, loss, cur, batch, at, maxRate, told, company, budget>>

\* The first message is JoinRoom; RoomJoined is written, the loop begins.
JoinRoom(p) ==
  /\ pc[p] = "accepted"
  /\ company' = [company EXCEPT ![p] = members]
  /\ pc' = [pc EXCEPT ![p] = "joining"]
  /\ UNCHANGED <<shared, cur, batch, at, maxRate, told, budget>>

\* No stream, no message, an oversized or undecodable one, or not JoinRoom.
Refuse(p) ==
  /\ pc[p] = "accepted"
  /\ pc' = [pc EXCEPT ![p] = "gone"]
  /\ UNCHANGED <<shared, cur, batch, at, maxRate, told, company, budget>>

\* Mistake (IntroducedBothWays): only the newcomer is told.
MeetPeerOneWay(p, o) ==
  /\ pc[p] = "joining"
  /\ Visit(p, o)
  /\ PeerJoined(p, o, entry[o].channels)
  /\ UNCHANGED <<shared, pc, cur, at, maxRate, leftTold, target, company, budget>>

\* The newcomer is told of o: PeerJoined, and PeerSilence(true) if silenced.
\* Nobody else writes to the newcomer's stream before it is in the map.
MeetPeer(p, o) ==
  /\ pc[p] = "joining"
  /\ Visit(p, o)
  /\ PeerJoined(p, o, entry[o].channels)
  /\ at' = [at EXCEPT ![p] = o]
  /\ pc' = [pc EXCEPT ![p] = "introducing"]
  /\ UNCHANGED <<shared, cur, maxRate, leftTold, target, company, budget>>

\* o is told of the newcomer.
Introduce(p) ==
  /\ pc[p] = "introducing"
  /\ PeerJoined(at[p], p, JoinChannels[p])
  /\ at' = [at EXCEPT ![p] = NoPeer]
  /\ pc' = [pc EXCEPT ![p] = "joining"]
  /\ UNCHANGED <<shared, cur, batch, maxRate, leftTold, target, company,
                 budget>>

\* Mistake (HandlersEnd): the first of a room waits for somebody to meet.
AllMetNotAlone(p) ==
  LoopDone(p, "joining", IF members = {} THEN "joining" ELSE "inserting")

AllMet(p) == LoopDone(p, "joining", "inserting")

\* Mistake (IncumbentExact): the entry does not default to silenced.
InsertTalking(p) ==
  /\ pc[p] = "inserting" /\ Writable(p)
  /\ members' = members \cup {p}
  /\ entry' = [entry EXCEPT ![p] = [NewEntry(p) EXCEPT !.silenced = FALSE]]
  /\ loss' = [loss EXCEPT ![p] = [r \in Peer |-> NoReport]]
  /\ company' = [company EXCEPT ![p] = members]
  /\ pc' = [pc EXCEPT ![p] = "serving"]
  /\ UNCHANGED <<cur, batch, at, maxRate, told, budget>>

\* peers.insert: silenced, the channels of JoinRoom, an empty loss map.
Insert(p) ==
  /\ pc[p] = "inserting" /\ Writable(p)
  /\ members' = members \cup {p}
  /\ entry' = [entry EXCEPT ![p] = NewEntry(p)]
  /\ loss' = [loss EXCEPT ![p] = [r \in Peer |-> NoReport]]
  /\ company' = [company EXCEPT ![p] = members]
  /\ pc' = [pc EXCEPT ![p] = "serving"]
  /\ UNCHANGED <<cur, batch, at, maxRate, told, budget>>

-----------------------------------------------------------------------------
(* The control loop.  LeaveRoom, a broken stream and an oversized length   *)
(* end it (Depart); a second JoinRoom and an undecodable message change    *)
(* nothing.                                                                *)

\* The value broadcast is a local of the handler; only this handler writes
\* its own entry, so the entry still holds it during the loop.
SetSilence(p, s) ==
  /\ pc[p] = "serving" /\ Writable(p) /\ settings[p] > 0
  /\ settings' = [settings EXCEPT ![p] = @ - 1]
  /\ entry' = [entry EXCEPT ![p].silenced = s]
  /\ pc' = [pc EXCEPT ![p] = "silencing"]
  /\ UNCHANGED <<members, loss, cur, batch, at, maxRate, told, company,
                 reports>>

TellSilence(p, o) ==
  /\ pc[p] = "silencing"
  /\ Visit(p, o)
  /\ IF o # p THEN PeerSilence(o, p, entry[p].silenced) ELSE UNCHANGED seen
  /\ UNCHANGED <<shared, pc, cur, at, maxRate, known, joinsTold, leftTold,
                 target, company, budget>>

SilenceTold(p) == LoopDone(p, "silencing", "serving")

SetChannels(p, c) ==
  /\ pc[p] = "serving" /\ Writable(p) /\ settings[p] > 0
  /\ settings' = [settings EXCEPT ![p] = @ - 1]
  /\ entry' = [entry EXCEPT ![p].channels = c]
  /\ pc' = [pc EXCEPT ![p] = "rechanneling"]
  /\ UNCHANGED <<members, loss, cur, batch, at, maxRate, told, company,
                 reports>>

TellChannels(p, o) ==
  /\ pc[p] = "rechanneling"
  /\ Visit(p, o)
  /\ IF o # p THEN PeerChannels(o, p, entry[p].channels) ELSE UNCHANGED seen
  /\ UNCHANGED <<shared, pc, cur, at, maxRate, known, joinsTold, leftTold,
                 target, company, budget>>

ChannelsTold(p) == LoopDone(p, "rechanneling", "serving")

-----------------------------------------------------------------------------
(* Loss reports.                                                           *)

\* A client reports on a peer it was told of; by the time the report is read
\* that peer may be gone.  peers.get holds the shard until the end.
ReportPeerLoss(p, o, rate) ==
  /\ pc[p] = "serving" /\ reports[p] > 0 /\ joinsTold[p][o] > 0
  /\ reports' = [reports EXCEPT ![p] = @ - 1]
  /\ IF o \in members
       THEN /\ loss' = [loss EXCEPT ![o][p] = rate]
            /\ cur' = [cur EXCEPT ![p] = ShardOf[o]]
            /\ at' = [at EXCEPT ![p] = o]
            /\ pc' = [pc EXCEPT ![p] = "reportMax"]
       ELSE UNCHANGED <<loss, cur, at, pc>>
  /\ UNCHANGED <<members, entry, batch, maxRate, told, company, settings>>

\* max_rate starts at 0.0 and becomes each greater rate of o's loss map.
Reported(o) == {0} \cup {loss[o][r] : r \in {q \in Peer : loss[o][q] # NoReport}}
TopRate(o)  == CHOOSE m \in Reported(o) : \A n \in Reported(o) : n <= m

ComputeMax(p) ==
  /\ pc[p] \in {"reportMax", "leaveMax"}
  /\ maxRate' = [maxRate EXCEPT ![p] = TopRate(at[p])]
  /\ pc' = [pc EXCEPT ![p] = IF @ = "reportMax" THEN "reportTell" ELSE "leaveTell"]
  /\ UNCHANGED <<shared, cur, batch, at, told, company, budget>>

\* notify_peer(sender, TargetLossRate(max_rate)), and the guard is dropped.
TellTarget(p) ==
  /\ pc[p] = "reportTell"
  /\ target' = [target EXCEPT ![at[p]] = maxRate[p]]
  /\ pc' = [pc EXCEPT ![p] = "serving"]
  /\ cur' = [cur EXCEPT ![p] = 0]
  /\ at' = [at EXCEPT ![p] = NoPeer]
  /\ maxRate' = [maxRate EXCEPT ![p] = 0]
  /\ UNCHANGED <<shared, batch, known, seen, joinsTold, leftTold, company,
                 budget>>

-----------------------------------------------------------------------------
(* Leaving: the removal, then the farewells.                               *)

\* Mistake (FarewellReachesAll): the farewell loop skips the first shard.
DepartSkippingShard(p) ==
  /\ pc[p] = "serving" /\ Writable(p)
  /\ members' = members \ {p}
  /\ company' = [company EXCEPT ![p] = members \ {p}]
  /\ pc' = [pc EXCEPT ![p] = "leaving"]
  /\ cur' = [cur EXCEPT ![p] = 1]
  /\ UNCHANGED <<entry, loss, batch, at, maxRate, told, budget>>

\* LeaveRoom or the end of the stream: peers.remove, and the loop begins.
Depart(p) ==
  /\ pc[p] = "serving" /\ Writable(p)
  /\ members' = members \ {p}
  /\ company' = [company EXCEPT ![p] = members \ {p}]
  /\ pc' = [pc EXCEPT ![p] = "leaving"]
  /\ UNCHANGED <<entry, loss, cur, batch, at, maxRate, told, budget>>

\* Mistake (NoDepartedReporter): the departing peer's reports are kept.
KeepReports(p, o) ==
  /\ pc[p] = "leaving"
  /\ Visit(p, o)
  /\ at' = [at EXCEPT ![p] = o]
  /\ pc' = [pc EXCEPT ![p] = "leaveMax"]
  /\ UNCHANGED <<shared, cur, maxRate, told, company, budget>>

\* The departing reporter is taken out of o's loss map.
ForgetReports(p, o) ==
  /\ pc[p] = "leaving"
  /\ Visit(p, o)
  /\ loss' = [loss EXCEPT ![o][p] = NoReport]
  /\ at' = [at EXCEPT ![p] = o]
  /\ pc' = [pc EXCEPT ![p] = "leaveMax"]
  /\ UNCHANGED <<members, entry, cur, maxRate, told, company, budget>>

\* notify_peer(o, TargetLossRate(max_rate)), without the departed listener.
TellNewTarget(p) ==
  /\ pc[p] = "leaveTell"
  /\ target' = [target EXCEPT ![at[p]] = maxRate[p]]
  /\ pc' = [pc EXCEPT ![p] = "leaveBye"]
  /\ maxRate' = [maxRate EXCEPT ![p] = 0]
  /\ UNCHANGED <<shared, cur, batch, at, known, seen, joinsTold, leftTold,
                 company, budget>>

\* notify_peer(o, PeerLeft(p)).
TellLeft(p) ==
  /\ pc[p] = "leaveBye"
  /\ PeerLeft(at[p], p)
  /\ pc' = [pc EXCEPT ![p] = "leaving"]
  /\ at' = [at EXCEPT ![p] = NoPeer]
  /\ UNCHANGED <<shared, cur, batch, maxRate, seen, joinsTold, target,
                 company, budget>>

Farewell(p) == LoopDone(p, "leaving", "gone")

-----------------------------------------------------------------------------
\* What the handler does by itself, once a message or a disconnect is there.
Handle(p) ==
  \/ NextShard(p)
  \/ \E o \in Peer : \/ MeetPeer(p, o)
                     \/ TellSilence(p, o)
                     \/ TellChannels(p, o)
                     \/ ForgetReports(p, o)
  \/ Introduce(p)
  \/ AllMet(p)
  \/ Insert(p)
  \/ SilenceTold(p)
  \/ ChannelsTold(p)
  \/ ComputeMax(p)
  \/ TellTarget(p)
  \/ TellNewTarget(p)
  \/ TellLeft(p)
  \/ Farewell(p)

\* What the client at the other end decides.
Request(p) ==
  \/ JoinRoom(p)
  \/ Refuse(p)
  \/ \E c \in Channels : SetChannels(p, c)
  \/ \E s \in BOOLEAN : SetSilence(p, s)
  \/ \E o \in Peer, rate \in Rates : ReportPeerLoss(p, o, rate)
  \/ Depart(p)

\* Every connection has ended.
AllGone == (\A p \in Peer : pc[p] = "gone") /\ UNCHANGED vars

Next == (\E p \in Peer : Handle(p) \/ Request(p)) \/ AllGone

Spec == Init /\ [][Next]_vars

\* tokio keeps polling a task that can run; what a client sends is its choice.
FairSpec == Spec /\ \A p \in Peer : WF_vars(Handle(p))

-----------------------------------------------------------------------------
(* Properties.                                                             *)

\* Members o that p's loop has yet to reach.
Ahead(p, o) == ShardOf[o] > cur[p] \/ o \in batch[p]

\* No client is told twice that a peer joined or that it left, whatever
\* joins run at once (the join loop, the insertion, the farewell loop).
ToldOnce == \A p, q \in Peer : joinsTold[p][q] <= 1 /\ leftTold[p][q] <= 1

\* Between two clients either both were told of the other, or neither, except
\* while the newcomer's loop is between the two.
NeverOneWay ==
  \A p, q \in Peer :
    joinsTold[p][q] > joinsTold[q][p] =>
      pc[p] = "introducing" /\ at[p] = q

\* A join loop misses nobody who is there from its first step to its last,
\* whoever joins and leaves meanwhile.
StayersIntroduced ==
  \A p \in Peer : pc[p] = "inserting" =>
    \A o \in company[p] \cap members : joinsTold[o][p] = 1 /\ joinsTold[p][o] = 1

\* Introductions go both ways, and to everybody but those who join together.
IntroducedBothWays == NeverOneWay /\ StayersIntroduced

\* A client that was in the room before q sees q's entry as the relay has it,
\* through every SetSilence and SetChannels of q, but for the broadcast that
\* has not reached it.
IncumbentExact ==
  \A q \in members : \A p \in company[q] \cap members :
    q \in known[p] =>
      \/ seen[p][q] = entry[q]
      \/ pc[q] \in {"silencing", "rechanneling"} /\ Ahead(q, p)

\* Nobody is shown as talking who has told the relay that it is silent, also
\* not to a client that joined while the broadcast was under way.
NoStaleTalker ==
  \A q \in members : \A p \in members :
    q \in known[p] /\ ~seen[p][q].silenced =>
      \/ ~entry[q].silenced
      \/ pc[q] = "silencing" /\ Ahead(q, p)

\* Whoever was in the room when q was removed, and still is, has been told
\* that q left once q's handler is done: no client keeps such a ghost.
FarewellReachesAll ==
  \A q \in Peer : pc[q] = "gone" =>
    \A p \in company[q] \cap members : leftTold[p][q] = 1 /\ q \notin known[p]

\* Once a listener's handler is done, no member's loss map still has its
\* report, so its last rate cannot raise a TargetLossRate for ever.
NoDepartedReporter ==
  \A q \in Peer : pc[q] = "gone" => \A o \in members : loss[o][q] = NoReport

\* A client told that q left is never told afterwards that q joined.
NoRejoin ==
  [][\A p, q \in Peer :
       joinsTold'[p][q] # joinsTold[p][q] => leftTold[p][q] = 0]_vars

\* What the clients are told of each other, however the handlers interleave,
\* is what PeerFeed promises each of them: a peer is introduced once, changes
\* while it is known, leaves once and is not heard of again.
Feed == INSTANCE PeerFeed
          WITH gone <- [p \in Peer |-> {q \in Peer : leftTold[p][q] > 0}]
PeersFed == Feed!Spec

\* In one of its loops or a report: the handler waits for nobody's lock or
\* message, and is the only one that may hold others up.
Busy(p) == pc[p] \in Iterating \cup Inside \cup Reporting

\* What is left of the loop body or the report.
BodyLeft(p) ==
  CASE pc[p] = "leaveMax" -> 3
    [] pc[p] \in {"leaveTell", "reportMax"} -> 2
    [] pc[p] \in {"leaveBye", "reportTell", "introducing"} -> 1
    [] OTHER -> 0

\* p gets on: to a later shard, or to fewer entries of the same one, or in the
\* body of its loop.
Nearer(p) ==
  \/ cur'[p] > cur[p]
  \/ cur'[p] = cur[p] /\ batch'[p] \subseteq batch[p] /\ batch'[p] # batch[p]
  \/ cur'[p] = cur[p] /\ batch'[p] = batch[p] /\ BodyLeft(p)' < BodyLeft(p)

\* No step of anybody takes a handler back in its loop, or gives it more to
\* visit in a shard it has locked: a lock is held for a bounded number of its
\* holder's steps, whatever the others do.
LoopsAdvance ==
  [][\A p \in Peer : Busy(p) =>
       \/ UNCHANGED <<pc[p], cur[p], batch[p]>>
       \/ ~Busy(p)' /\ cur'[p] = 0
       \/ Busy(p)' /\ Nearer(p)]_vars

\* Every handler waits for its client: no message is on its way.
Quiet == \A p \in Peer : pc[p] \in {"accepted", "serving", "gone"}

\* As the comments of the join loop say: the newcomer is notified about the
\* existing peers, and each existing peer about the newcomer.
MembersIntroduced ==
  Quiet => \A p \in members : members \ {p} \subseteq known[p]

\* As the comments of the two loss loops say: the rate a sender has been given
\* is the overall (maximum) rate of the reports on it.
TargetIsOverall == Quiet => \A o \in members : target[o] = TopRate(o)

\* A handler gets to the end of what it has begun: a client that asked for the
\* room gets into it, the writer that inserts it not kept out by the loops of
\* the others, and a peer that is removed is seen off.
HandlersEnd ==
  \A p \in Peer : /\ pc[p] = "joining" ~> p \in members
                  /\ pc[p] = "leaving" ~> pc[p] = "gone"

=============================================================================
