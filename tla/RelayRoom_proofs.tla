------------------------- MODULE RelayRoom_proofs -------------------------
(* Theorems about RelayRoom for every set of peers, every assignment of ids *)
(* to shards and every budget of messages.                                  *)
EXTENDS RelayRoom, TLAPS

-----------------------------------------------------------------------------
(* The inductive invariant, part by part.                                  *)

PreMember == {"accepted", "joining", "introducing", "inserting"}
InRoom    == {"serving", "silencing", "rechanneling", "reportMax", "reportTell"}
Leaving   == {"leaving", "leaveMax", "leaveTell", "leaveBye"}

\* What the read locks guarantee: entries under one stay in the map.
LockInv ==
  /\ \A p \in Peer : p \in members <=> pc[p] \in InRoom
  /\ \A p \in Peer : pc[p] \in {"accepted", "inserting", "serving", "gone"}
                       => cur[p] = 0
  /\ \A p \in Peer : \A o \in batch[p] : o \in members /\ ShardOf[o] = cur[p]
  /\ \A p \in Peer : pc[p] \in Inside \cup Reporting
                       => /\ at[p] \in members /\ ShardOf[at[p]] = cur[p]
                          /\ at[p] \notin batch[p]
  /\ \A p \in Peer : pc[p] \in Reporting => batch[p] = {}

Base == TypeOK /\ LockInv

\* Who has been introduced to whom: a newcomer q and a peer its loop has not
\* reached know nothing of each other.
JoinInv ==
  /\ \A p, q \in Peer : joinsTold[p][q] \in {0, 1}
  /\ \A q, o \in Peer : pc[q] = "accepted"
                           => joinsTold[q][o] = 0 /\ joinsTold[o][q] = 0
  /\ \A q, o \in Peer : pc[q] \in {"joining", "introducing"} /\ Ahead(q, o)
                           => joinsTold[q][o] = 0
  /\ \A q, o \in Peer : pc[q] \in PreMember /\ joinsTold[o][q] = 1
                           => joinsTold[q][o] = 1
  /\ \A q \in Peer : pc[q] = "introducing"
                        => joinsTold[q][at[q]] = 1 /\ joinsTold[at[q]][q] = 0
  /\ NeverOneWay

\* Where the reports of a departing listener may still be: ahead of its loop.
LossInv ==
  /\ \A q, o \in Peer : pc[q] \in PreMember => loss[o][q] = NoReport
  /\ \A q \in Peer : \A o \in members :
       pc[q] \in Leaving /\ loss[o][q] # NoReport => Ahead(q, o)
  /\ NoDepartedReporter

\* Who was in the room with whom.
CompanyInv ==
  /\ \A p, q \in Peer : p \in company[q] => pc[p] \notin PreMember
  /\ \A q \in Peer : pc[q] = "accepted" => company[q] = {}
  /\ \A p \in Peer : p \notin known[p]

\* How far the introductions of a newcomer have got.
MeetInv ==
  \A p \in Peer : pc[p] \in {"joining", "introducing", "inserting"} =>
    \A o \in company[p] \cap members :
      \/ pc[p] # "inserting" /\ Ahead(p, o)
      \/ pc[p] = "introducing" /\ at[p] = o
      \/ joinsTold[o][p] = 1 /\ joinsTold[p][o] = 1

\* How far the farewells of a departing peer have got.
FarewellInv ==
  /\ \A p, q \in Peer : leftTold[p][q] \in {0, 1}
  /\ \A p, q \in Peer : pc[q] \notin Leaving \cup {"gone"} => leftTold[p][q] = 0
  /\ \A p, q \in Peer : pc[q] \in Leaving /\ Ahead(q, p) => leftTold[p][q] = 0
  /\ \A q \in Peer : pc[q] \in Leaving \ {"leaving"} => leftTold[at[q]][q] = 0
  /\ \A q \in Peer : pc[q] \in Leaving =>
       \A p \in company[q] \cap members :
         \/ Ahead(q, p)
         \/ pc[q] # "leaving" /\ at[q] = p
         \/ leftTold[p][q] = 1 /\ q \notin known[p]
  /\ FarewellReachesAll

\* What clients see of a peer that is not a member, is one, or is broadcasting.
NewcomerSeen ==
  \A p, q \in Peer : pc[q] \in PreMember /\ q \in known[p]
                        => seen[p][q] = NewEntry(q)
NewcomerSees ==
  \A p, q \in Peer : pc[p] \in PreMember /\ q \in known[p]
                        => seen[p][q].silenced
CompanySees ==
  \A q \in members : \A p \in company[q] \cap members : q \in known[p] =>
    \/ seen[p][q] = entry[q]
    \/ /\ pc[q] = "silencing" /\ Ahead(q, p)
       /\ seen[p][q].channels = entry[q].channels
    \/ /\ pc[q] = "rechanneling" /\ Ahead(q, p)
       /\ seen[p][q].silenced = entry[q].silenced
ViewInv == NewcomerSeen /\ NewcomerSees /\ CompanySees /\ NoStaleTalker

-----------------------------------------------------------------------------
\* max_rate is one of the reported rates or 0.
LEMMA TopRateType ==
  ASSUME TypeOK, NEW o \in Peer
  PROVE  TopRate(o) \in Rates
<1>1. Reported(o) \subseteq Rates /\ Reported(o) # {}
  BY RatesAssumption DEF Reported, TypeOK, RoomOK
<1>2. PICK m \in Reported(o) : \A n \in Reported(o) : n <= m
  BY <1>1, RatesAssumption
<1> QED
  BY <1>1, <1>2 DEF TopRate

\* Initially nobody is in the room and no lock is held.
LEMMA BaseInit == Init => Base
  BY ChannelAssumption, ShardAssumption, BoundAssumption, RatesAssumption
  DEF Init, Base, TypeOK, RoomOK, HandlerOK, ToldOK, BudgetOK, LockInv, Entry, NewEntry, Handler, InRoom, Inside,
      Reporting, Iterating

\* Updating one entry of one client's copy of the room keeps its type.
LEMMA SeenUpdate ==
  ASSUME NEW f \in [Peer -> [Peer -> Entry]], NEW a \in Peer, NEW b \in Peer,
         NEW e \in Entry
  PROVE  [f EXCEPT ![a][b] = e] \in [Peer -> [Peer -> Entry]]
  OBVIOUS

\* Every step keeps the type invariant.
LEMMA TypeNext == Base /\ [Next]_vars => TypeOK'
<1> SUFFICES ASSUME Base, [Next]_vars
             PROVE  TypeOK'
  OBVIOUS
<1> USE ChannelAssumption, ShardAssumption
    DEF Base, TypeOK, shared, told, budget
<1>1. CASE UNCHANGED vars
  BY <1>1 DEF vars, handler, RoomOK, HandlerOK, ToldOK, BudgetOK
<1>2. ASSUME NEW p \in Peer, Handle(p)
      PROVE  TypeOK'
  <2>1. CASE NextShard(p)
    <3>1. HandlerOK'
      <4>1. cur[p] + 1 \in 0..NShards
        BY <2>1 DEF NextShard, HandlerOK
      <4>2. {q \in members : ShardOf[q] = cur[p] + 1} \subseteq Peer
        BY DEF RoomOK
      <4> QED
        BY <2>1, <4>1, <4>2 DEF NextShard, HandlerOK
    <3>2. RoomOK' /\ ToldOK' /\ BudgetOK'
      BY <2>1 DEF NextShard, RoomOK, ToldOK, BudgetOK
    <3> QED
      BY <3>1, <3>2
  <2>2. ASSUME NEW o \in Peer, MeetPeer(p, o)
        PROVE  TypeOK'
    <3>1. HandlerOK'
      BY <2>2 DEF MeetPeer, Visit, PeerJoined, HandlerOK, Handler, Inside, Reporting, Iterating
    <3>2. ToldOK'
      BY <2>2 DEF MeetPeer, Visit, PeerJoined, Entry, ToldOK, RoomOK
    <3>3. RoomOK' /\ BudgetOK'
      BY <2>2 DEF MeetPeer, Visit, PeerJoined, RoomOK, BudgetOK
    <3> QED
      BY <3>1, <3>2, <3>3
  <2>3. ASSUME NEW o \in Peer, TellSilence(p, o)
        PROVE  TypeOK'
    <3>1. HandlerOK'
      BY <2>3 DEF TellSilence, Visit, PeerSilence, HandlerOK, Handler, Inside, Reporting, Iterating
    <3>2. ToldOK'
      <4>1. entry[p].silenced \in BOOLEAN
        BY DEF RoomOK, Entry
      <4>2. seen' \in [Peer -> [Peer -> Entry]]
        <5> DEFINE e == [seen[o][p] EXCEPT !.silenced = entry[p].silenced]
        <5>1. seen[o][p] \in Entry
          BY DEF ToldOK
        <5>2. e \in Entry
          BY <4>1, <5>1 DEF Entry
        <5>3. seen' = seen \/ seen' = [seen EXCEPT ![o][p] = e]
          BY <2>3 DEF TellSilence, PeerSilence
        <5> HIDE DEF e
        <5>4. CASE seen' = seen
          BY <5>4 DEF ToldOK
        <5>5. CASE seen' = [seen EXCEPT ![o][p] = e]
          BY <5>2, <5>5, SeenUpdate DEF ToldOK
        <5> QED
          BY <5>3, <5>4, <5>5
      <4> QED
        BY <2>3, <4>2 DEF TellSilence, Visit, ToldOK
    <3>3. RoomOK' /\ BudgetOK'
      BY <2>3 DEF TellSilence, Visit, PeerSilence, RoomOK, BudgetOK
    <3> QED
      BY <3>1, <3>2, <3>3
  <2>4. ASSUME NEW o \in Peer, TellChannels(p, o)
        PROVE  TypeOK'
    <3>1. HandlerOK'
      BY <2>4 DEF TellChannels, Visit, PeerChannels, HandlerOK, Handler, Inside, Reporting, Iterating
    <3>2. ToldOK'
      <4>1. entry[p].channels \in Channels
        BY DEF RoomOK, Entry
      <4>2. seen' \in [Peer -> [Peer -> Entry]]
        <5> DEFINE e == [seen[o][p] EXCEPT !.channels = entry[p].channels]
        <5>1. seen[o][p] \in Entry
          BY DEF ToldOK
        <5>2. e \in Entry
          BY <4>1, <5>1 DEF Entry
        <5>3. seen' = seen \/ seen' = [seen EXCEPT ![o][p] = e]
          BY <2>4 DEF TellChannels, PeerChannels
        <5> HIDE DEF e
        <5>4. CASE seen' = seen
          BY <5>4 DEF ToldOK
        <5>5. CASE seen' = [seen EXCEPT ![o][p] = e]
          BY <5>2, <5>5, SeenUpdate DEF ToldOK
        <5> QED
          BY <5>3, <5>4, <5>5
      <4> QED
        BY <2>4, <4>2 DEF TellChannels, Visit, ToldOK
    <3>3. RoomOK' /\ BudgetOK'
      BY <2>4 DEF TellChannels, Visit, PeerChannels, RoomOK, BudgetOK
    <3> QED
      BY <3>1, <3>2, <3>3
  <2>5. ASSUME NEW o \in Peer, ForgetReports(p, o)
        PROVE  TypeOK'
    <3>1. RoomOK'
      BY <2>5 DEF ForgetReports, Visit, RoomOK
    <3>2. HandlerOK'
      BY <2>5 DEF ForgetReports, Visit, HandlerOK, Handler, Inside, Reporting, Iterating
    <3>3. ToldOK' /\ BudgetOK'
      BY <2>5 DEF ForgetReports, Visit, ToldOK, BudgetOK
    <3> QED
      BY <3>1, <3>2, <3>3
  <2>6. CASE Introduce(p)
    <3>1. HandlerOK'
      BY <2>6 DEF Introduce, PeerJoined, HandlerOK, Handler, Inside, Reporting, Iterating
    <3>2. ToldOK'
      <4>1. at[p] \in Peer
        BY <2>6 DEF Introduce, LockInv, RoomOK, Inside
      <4>2. [silenced |-> TRUE, channels |-> JoinChannels[p]] \in Entry
        BY DEF Entry
      <4>3. seen' \in [Peer -> [Peer -> Entry]]
        BY <2>6, <4>1, <4>2, SeenUpdate DEF Introduce, PeerJoined, ToldOK
      <4> QED
        BY <2>6, <4>1, <4>3 DEF Introduce, PeerJoined, ToldOK
    <3>3. RoomOK' /\ BudgetOK'
      BY <2>6 DEF Introduce, PeerJoined, RoomOK, BudgetOK
    <3> QED
      BY <3>1, <3>2, <3>3
  <2>7. CASE AllMet(p) \/ SilenceTold(p) \/ ChannelsTold(p) \/ Farewell(p)
    <3>1. HandlerOK'
      BY <2>7 DEF AllMet, SilenceTold, ChannelsTold, Farewell, LoopDone, HandlerOK, Handler, Inside, Reporting, Iterating
    <3>2. RoomOK' /\ ToldOK' /\ BudgetOK'
      BY <2>7 DEF AllMet, SilenceTold, ChannelsTold, Farewell, LoopDone, RoomOK, ToldOK, BudgetOK
    <3> QED
      BY <3>1, <3>2
  <2>8. CASE Insert(p)
    <3>1. RoomOK'
      BY <2>8 DEF Insert, NewEntry, Entry, RoomOK
    <3>2. HandlerOK'
      BY <2>8 DEF Insert, HandlerOK, Handler, Inside, Reporting, Iterating
    <3>3. ToldOK' /\ BudgetOK'
      BY <2>8 DEF Insert, ToldOK, BudgetOK
    <3> QED
      BY <3>1, <3>2, <3>3
  <2>9. CASE ComputeMax(p)
    <3>1. at[p] \in Peer
      BY <2>9 DEF ComputeMax, LockInv, RoomOK, Inside, Reporting
    <3>2. HandlerOK'
      BY <2>9, <3>1, TopRateType DEF ComputeMax, HandlerOK, Handler, Inside, Reporting, Iterating
    <3>3. RoomOK' /\ ToldOK' /\ BudgetOK'
      BY <2>9 DEF ComputeMax, RoomOK, ToldOK, BudgetOK
    <3> QED
      BY <3>2, <3>3
  <2>10. CASE TellTarget(p)
    <3>1. HandlerOK'
      BY <2>10, RatesAssumption DEF TellTarget, HandlerOK, Handler, Inside, Reporting, Iterating
    <3>2. ToldOK'
      BY <2>10 DEF TellTarget, ToldOK, HandlerOK
    <3>3. RoomOK' /\ BudgetOK'
      BY <2>10 DEF TellTarget, RoomOK, BudgetOK
    <3> QED
      BY <3>1, <3>2, <3>3
  <2>11. CASE TellNewTarget(p)
    <3>1. HandlerOK'
      BY <2>11, RatesAssumption DEF TellNewTarget, HandlerOK, Handler, Inside, Reporting, Iterating
    <3>2. ToldOK'
      BY <2>11 DEF TellNewTarget, ToldOK, HandlerOK
    <3>3. RoomOK' /\ BudgetOK'
      BY <2>11 DEF TellNewTarget, RoomOK, BudgetOK
    <3> QED
      BY <3>1, <3>2, <3>3
  <2>12. CASE TellLeft(p)
    <3>1. HandlerOK'
      BY <2>12 DEF TellLeft, PeerLeft, HandlerOK, Handler, Inside, Reporting, Iterating
    <3>2. ToldOK'
      <4>1. at[p] \in Peer
        BY <2>12 DEF TellLeft, LockInv, RoomOK, Inside
      <4> QED
        BY <2>12, <4>1 DEF TellLeft, PeerLeft, ToldOK
    <3>3. RoomOK' /\ BudgetOK'
      BY <2>12 DEF TellLeft, PeerLeft, RoomOK, BudgetOK
    <3> QED
      BY <3>1, <3>2, <3>3
  <2> QED
    BY <1>2, <2>1, <2>2, <2>3, <2>4, <2>5, <2>6, <2>7, <2>8, <2>9, <2>10, <2>11, <2>12 DEF Handle
<1>3. ASSUME NEW p \in Peer, Request(p)
      PROVE  TypeOK'
  <2>1. CASE JoinRoom(p) \/ Refuse(p)
    <3>1. HandlerOK'
      BY <2>1 DEF JoinRoom, Refuse, HandlerOK, Handler, Inside, Reporting, Iterating
    <3>2. RoomOK' /\ ToldOK' /\ BudgetOK'
      BY <2>1 DEF JoinRoom, Refuse, RoomOK, ToldOK, BudgetOK
    <3> QED
      BY <3>1, <3>2
  <2>2. ASSUME NEW c \in Channels, SetChannels(p, c)
        PROVE  TypeOK'
    <3>1. RoomOK'
      BY <2>2 DEF SetChannels, Entry, RoomOK
    <3>2. HandlerOK'
      BY <2>2 DEF SetChannels, HandlerOK, Handler, Inside, Reporting, Iterating
    <3>3. BudgetOK'
      BY <2>2 DEF SetChannels, BudgetOK
    <3>4. ToldOK'
      BY <2>2 DEF SetChannels, ToldOK
    <3> QED
      BY <3>1, <3>2, <3>3, <3>4
  <2>3. ASSUME NEW s \in BOOLEAN, SetSilence(p, s)
        PROVE  TypeOK'
    <3>1. RoomOK'
      BY <2>3 DEF SetSilence, Entry, RoomOK
    <3>2. HandlerOK'
      BY <2>3 DEF SetSilence, HandlerOK, Handler, Inside, Reporting, Iterating
    <3>3. BudgetOK'
      BY <2>3 DEF SetSilence, BudgetOK
    <3>4. ToldOK'
      BY <2>3 DEF SetSilence, ToldOK
    <3> QED
      BY <3>1, <3>2, <3>3, <3>4
  <2>4. ASSUME NEW o \in Peer, NEW rate \in Rates, ReportPeerLoss(p, o, rate)
        PROVE  TypeOK'
    <3>1. RoomOK'
      <4>1. CASE o \in members
        <5>1. loss' = [loss EXCEPT ![o][p] = rate]
          BY <2>4, <4>1 DEF ReportPeerLoss
        <5>2. UNCHANGED <<members, entry, company>>
          BY <2>4 DEF ReportPeerLoss
        <5> QED
          BY <5>1, <5>2 DEF RoomOK
      <4>2. CASE o \notin members
        BY <2>4, <4>2 DEF ReportPeerLoss, RoomOK
      <4> QED
        BY <4>1, <4>2
    <3>2. HandlerOK'
      BY <2>4 DEF ReportPeerLoss, HandlerOK, Handler, Inside, Reporting, Iterating
    <3>3. BudgetOK'
      BY <2>4 DEF ReportPeerLoss, BudgetOK
    <3>4. ToldOK'
      BY <2>4 DEF ReportPeerLoss, ToldOK
    <3> QED
      BY <3>1, <3>2, <3>3, <3>4
  <2>5. CASE Depart(p)
    <3>1. RoomOK'
      BY <2>5 DEF Depart, RoomOK
    <3>2. HandlerOK'
      BY <2>5 DEF Depart, HandlerOK, Handler, Inside, Reporting, Iterating
    <3>3. ToldOK' /\ BudgetOK'
      BY <2>5 DEF Depart, ToldOK, BudgetOK
    <3> QED
      BY <3>1, <3>2, <3>3
  <2> QED
    BY <1>3, <2>1, <2>2, <2>3, <2>4, <2>5 DEF Request
<1> QED
  BY <1>1, <1>2, <1>3 DEF Next, AllGone

\* Every step keeps what the read locks guarantee: an entry that a loop has
\* yet to visit, or refers to, is not removed under it.
LEMMA LockNext == Base /\ [Next]_vars => LockInv'
<1> SUFFICES ASSUME Base, [Next]_vars
             PROVE  LockInv'
  OBVIOUS
<1> USE ShardAssumption DEF Base, TypeOK, RoomOK, HandlerOK, LockInv, shared
<1>1. CASE UNCHANGED vars
  BY <1>1 DEF vars, handler
<1>2. ASSUME NEW p \in Peer, Handle(p)
      PROVE  LockInv'
  <2>1. CASE NextShard(p)
    BY <2>1 DEF NextShard, Iterating, InRoom, Inside, Reporting
  <2>2. ASSUME NEW o \in Peer, MeetPeer(p, o)
        PROVE  LockInv'
    BY <2>2 DEF MeetPeer, Visit, InRoom, Inside, Reporting
  <2>3. ASSUME NEW o \in Peer, TellSilence(p, o)
        PROVE  LockInv'
    BY <2>3 DEF TellSilence, Visit, InRoom, Inside, Reporting
  <2>4. ASSUME NEW o \in Peer, TellChannels(p, o)
        PROVE  LockInv'
    BY <2>4 DEF TellChannels, Visit, InRoom, Inside, Reporting
  <2>5. ASSUME NEW o \in Peer, ForgetReports(p, o)
        PROVE  LockInv'
    BY <2>5 DEF ForgetReports, Visit, InRoom, Inside, Reporting
  <2>6. CASE Introduce(p)
    BY <2>6 DEF Introduce, InRoom, Inside, Reporting
  <2>7. CASE AllMet(p) \/ SilenceTold(p) \/ ChannelsTold(p) \/ Farewell(p)
    <3>1. PICK after \in {"inserting", "serving", "gone"} :
            \E loop \in {"joining", "silencing", "rechanneling", "leaving"} :
              /\ LoopDone(p, loop, after)
              /\ loop \in InRoom <=> after \in InRoom
      BY <2>7 DEF AllMet, SilenceTold, ChannelsTold, Farewell, InRoom
    <3> QED
      BY <3>1 DEF LoopDone, InRoom, Inside, Reporting
  <2>8. CASE Insert(p)
    BY <2>8 DEF Insert, Writable, InRoom, Inside, Reporting
  <2>9. CASE ComputeMax(p)
    BY <2>9 DEF ComputeMax, InRoom, Inside, Reporting
  <2>10. CASE TellTarget(p)
    BY <2>10 DEF TellTarget, InRoom, Inside, Reporting
  <2>11. CASE TellNewTarget(p)
    BY <2>11 DEF TellNewTarget, InRoom, Inside, Reporting
  <2>12. CASE TellLeft(p)
    BY <2>12 DEF TellLeft, InRoom, Inside, Reporting
  <2> QED
    BY <1>2, <2>1, <2>2, <2>3, <2>4, <2>5, <2>6, <2>7, <2>8, <2>9, <2>10, <2>11, <2>12 DEF Handle
<1>3. ASSUME NEW p \in Peer, Request(p)
      PROVE  LockInv'
  <2>1. CASE JoinRoom(p) \/ Refuse(p)
    <3>1. PICK after \in {"joining", "gone"} :
            pc[p] = "accepted" /\ pc' = [pc EXCEPT ![p] = after]
      BY <2>1 DEF JoinRoom, Refuse
    <3>2. UNCHANGED <<members, cur, batch, at>>
      BY <2>1 DEF JoinRoom, Refuse
    <3> QED
      BY <3>1, <3>2 DEF InRoom, Inside, Reporting
  <2>2. ASSUME NEW c \in Channels, SetChannels(p, c)
        PROVE  LockInv'
    BY <2>2 DEF SetChannels, InRoom, Inside, Reporting
  <2>3. ASSUME NEW s \in BOOLEAN, SetSilence(p, s)
        PROVE  LockInv'
    BY <2>3 DEF SetSilence, InRoom, Inside, Reporting
  <2>4. ASSUME NEW o \in Peer, NEW rate \in Rates, ReportPeerLoss(p, o, rate)
        PROVE  LockInv'
    <3>1. batch[p] = {}
      BY <2>4 DEF ReportPeerLoss
    <3>2. CASE o \in members
      <4>1. /\ pc[p] = "serving" /\ pc' = [pc EXCEPT ![p] = "reportMax"]
            /\ cur' = [cur EXCEPT ![p] = ShardOf[o]]
            /\ at' = [at EXCEPT ![p] = o]
            /\ UNCHANGED <<members, batch>>
        BY <2>4, <3>2 DEF ReportPeerLoss
      <4> QED
        BY <3>1, <3>2, <4>1 DEF InRoom, Inside, Reporting
    <3>3. CASE o \notin members
      BY <2>4, <3>3 DEF ReportPeerLoss
    <3> QED
      BY <3>2, <3>3
  <2>5. CASE Depart(p)
    BY <2>5 DEF Depart, Writable, InRoom, Inside, Reporting
  <2> QED
    BY <1>3, <2>1, <2>2, <2>3, <2>4, <2>5 DEF Request
<1> QED
  BY <1>1, <1>2, <1>3 DEF Next, AllGone

-----------------------------------------------------------------------------
(* What the actions that several parts of the invariant depend on do.       *)

\* Taking the next shard's lock leaves the members ahead of the loop ahead.
LEMMA AheadNextShard ==
  ASSUME Base, NEW p \in Peer, NextShard(p)
  PROVE  /\ \A o \in Peer : Ahead(p, o)' => Ahead(p, o)
         /\ \A o \in members : Ahead(p, o) => Ahead(p, o)'
         /\ \A h \in Peer \ {p}, o \in Peer : Ahead(h, o)' <=> Ahead(h, o)
<1>1. /\ batch[p] = {} /\ cur[p] \in Nat /\ members \subseteq Peer
      /\ cur'[p] = cur[p] + 1
      /\ batch'[p] = {q \in members : ShardOf[q] = cur[p] + 1}
  BY DEF Base, TypeOK, RoomOK, HandlerOK, NextShard
<1>2. \A h \in Peer \ {p} : cur'[h] = cur[h] /\ batch'[h] = batch[h]
  BY DEF Base, TypeOK, HandlerOK, NextShard
<1>3. \A o \in Peer : ShardOf[o] \in Nat
  BY ShardAssumption
<1> QED
  BY <1>1, <1>2, <1>3 DEF Ahead

\* A loop that ends has nobody ahead.
LEMMA LoopEnd ==
  ASSUME Base, NEW p \in Peer,
         AllMet(p) \/ SilenceTold(p) \/ ChannelsTold(p) \/ Farewell(p)
  PROVE  /\ \A o \in Peer : ~Ahead(p, o)
         /\ \E after \in {"inserting", "serving", "gone"} :
              /\ pc' = [pc EXCEPT ![p] = after]
              /\ after = "inserting" => pc[p] = "joining"
              /\ after = "serving" => pc[p] \in {"silencing", "rechanneling"}
              /\ after = "gone" => pc[p] = "leaving"
         /\ cur' = [cur EXCEPT ![p] = 0]
         /\ UNCHANGED <<members, entry, loss, batch, at, known, seen, joinsTold,
                        leftTold, target, company>>
<1>1. PICK loop, after : /\ LoopDone(p, loop, after)
                         /\ <<loop, after>> \in {<<"joining", "inserting">>,
                              <<"silencing", "serving">>,
                              <<"rechanneling", "serving">>,
                              <<"leaving", "gone">>}
  BY DEF AllMet, SilenceTold, ChannelsTold, Farewell
<1>2. \A o \in Peer : ~Ahead(p, o)
  BY <1>1, ShardAssumption DEF LoopDone, Ahead
<1>3. /\ pc[p] = loop /\ pc' = [pc EXCEPT ![p] = after]
      /\ cur' = [cur EXCEPT ![p] = 0]
      /\ UNCHANGED <<members, entry, loss, batch, at, known, seen, joinsTold,
                     leftTold, target, company>>
  BY <1>1 DEF LoopDone, shared, told
<1> QED
  BY <1>1, <1>2, <1>3

\* A report changes nothing, or records a rate and takes the sender's shard.
LEMMA ReportEffect ==
  ASSUME Base, NEW p \in Peer, NEW o \in Peer, NEW rate \in Rates,
         ReportPeerLoss(p, o, rate)
  PROVE  /\ pc[p] = "serving"
         /\ UNCHANGED <<members, entry, batch, known, seen, joinsTold, leftTold,
                        target, company>>
         /\ \/ UNCHANGED <<loss, cur, at, pc>>
            \/ /\ o \in members
               /\ loss' = [loss EXCEPT ![o][p] = rate]
               /\ cur' = [cur EXCEPT ![p] = ShardOf[o]]
               /\ at' = [at EXCEPT ![p] = o]
               /\ pc' = [pc EXCEPT ![p] = "reportMax"]
  BY DEF ReportPeerLoss, told

-----------------------------------------------------------------------------
\* Every step keeps the introductions mutual and unrepeated.
LEMMA JoinNext == Base /\ JoinInv /\ [Next]_vars => JoinInv'
<1> SUFFICES ASSUME Base, JoinInv, [Next]_vars
             PROVE  JoinInv'
  OBVIOUS
<1> USE ShardAssumption DEF Base, LockInv, TypeOK, RoomOK, HandlerOK, ToldOK, JoinInv, NeverOneWay, Ahead, shared, told
<1>1. CASE UNCHANGED vars
  BY <1>1 DEF vars, handler
<1>2. ASSUME NEW p \in Peer, Handle(p)
      PROVE  JoinInv'
  <2>1. CASE NextShard(p)
    BY <2>1 DEF NextShard, Iterating, PreMember, InRoom, Inside
  <2>2. ASSUME NEW o \in Peer, MeetPeer(p, o)
        PROVE  JoinInv'
    <3>1. /\ pc[p] = "joining" /\ pc' = [pc EXCEPT ![p] = "introducing"]
          /\ o \in batch[p] /\ batch' = [batch EXCEPT ![p] = @ \ {o}]
          /\ at' = [at EXCEPT ![p] = o]
          /\ joinsTold' = [joinsTold EXCEPT ![p][o] = @ + 1]
          /\ UNCHANGED <<members, cur>>
      BY <2>2 DEF MeetPeer, Visit, PeerJoined
    <3>2. o \in members /\ p \notin members /\ o # p
      BY <3>1 DEF InRoom
    <3>3. pc[o] \notin PreMember
      BY <3>2 DEF InRoom, PreMember
    <3>4. joinsTold[p][o] = 0 /\ joinsTold[o][p] = 0
      BY <3>1 DEF PreMember
    <3>5. /\ joinsTold'[p][o] = 1
          /\ \A x, y \in Peer : x # p \/ y # o => joinsTold'[x][y] = joinsTold[x][y]
      BY <3>1, <3>4
    <3>6. \A x, y \in Peer : Ahead(x, y)' => Ahead(x, y)
      BY <3>1
    <3>7. ~Ahead(p, o)'
      BY <3>1
    <3> HIDE DEF Ahead
    <3>8. \A x, y \in Peer : joinsTold'[x][y] > joinsTold'[y][x] =>
            pc'[x] = "introducing" /\ at'[x] = y
      BY <3>1, <3>4, <3>5
    <3>9. \A x, y \in Peer : pc'[x] \in PreMember /\ joinsTold'[y][x] = 1
                                => joinsTold'[x][y] = 1
      BY <3>1, <3>2, <3>3, <3>4, <3>5 DEF PreMember
    <3>10. \A x, y \in Peer : joinsTold'[x][y] \in {0, 1}
      <4> SUFFICES ASSUME NEW x \in Peer, NEW y \in Peer
                   PROVE  joinsTold'[x][y] \in {0, 1}
        OBVIOUS
      <4>1. CASE x = p /\ y = o
        BY <3>5, <4>1
      <4>2. CASE x # p \/ y # o
        BY <3>5, <4>2
      <4> QED
        BY <4>1, <4>2
    <3>11. \A x, y \in Peer : pc'[x] = "accepted"
                                => joinsTold'[x][y] = 0 /\ joinsTold'[y][x] = 0
      BY <3>1, <3>2, <3>3, <3>5 DEF PreMember
    <3>12. \A x, y \in Peer : pc'[x] \in {"joining", "introducing"} /\ Ahead(x, y)'
                                => joinsTold'[x][y] = 0
      BY <3>1, <3>5, <3>6, <3>7
    <3>13. \A x \in Peer : pc'[x] = "introducing"
                => joinsTold'[x][at'[x]] = 1 /\ joinsTold'[at'[x]][x] = 0
      BY <3>1, <3>2, <3>3, <3>4, <3>5 DEF PreMember, InRoom, Inside
    <3> QED
      BY <3>8, <3>9, <3>10, <3>11, <3>12, <3>13
  <2>3. ASSUME NEW o \in Peer, TellSilence(p, o)
        PROVE  JoinInv'
    BY <2>3 DEF TellSilence, Visit, PreMember, InRoom, Inside
  <2>4. ASSUME NEW o \in Peer, TellChannels(p, o)
        PROVE  JoinInv'
    BY <2>4 DEF TellChannels, Visit, PreMember, InRoom, Inside
  <2>5. ASSUME NEW o \in Peer, ForgetReports(p, o)
        PROVE  JoinInv'
    BY <2>5 DEF ForgetReports, Visit, PreMember, InRoom, Inside
  <2>6. CASE Introduce(p)
    BY <2>6 DEF Introduce, PeerJoined, PreMember, InRoom, Inside
  <2>7. CASE AllMet(p) \/ SilenceTold(p) \/ ChannelsTold(p) \/ Farewell(p)
    <3>1. PICK after \in {"inserting", "serving", "gone"} :
            /\ pc' = [pc EXCEPT ![p] = after]
            /\ after = "inserting" => pc[p] = "joining"
            /\ after = "serving" => pc[p] \in {"silencing", "rechanneling"}
            /\ after = "gone" => pc[p] = "leaving"
      BY <2>7, LoopEnd
    <3>2. /\ \A o \in Peer : ~Ahead(p, o)
          /\ \A h \in Peer \ {p}, o \in Peer : Ahead(h, o)' <=> Ahead(h, o)
          /\ UNCHANGED <<members, entry, loss, batch, at, known, seen, joinsTold,
                         leftTold, target, company>>
      BY <2>7, LoopEnd
    <3> HIDE DEF Ahead
    <3> QED
      BY <3>1, <3>2 DEF PreMember, Inside
  <2>8. CASE Insert(p)
    BY <2>8 DEF Insert, PreMember, InRoom, Inside
  <2>9. CASE ComputeMax(p)
    BY <2>9 DEF ComputeMax, PreMember, InRoom, Inside
  <2>10. CASE TellTarget(p)
    BY <2>10 DEF TellTarget, PreMember, InRoom, Inside
  <2>11. CASE TellNewTarget(p)
    BY <2>11 DEF TellNewTarget, PreMember, InRoom, Inside
  <2>12. CASE TellLeft(p)
    BY <2>12 DEF TellLeft, PeerLeft, PreMember, InRoom, Inside
  <2> QED
    BY <1>2, <2>1, <2>2, <2>3, <2>4, <2>5, <2>6, <2>7, <2>8, <2>9, <2>10, <2>11, <2>12 DEF Handle
<1>3. ASSUME NEW p \in Peer, Request(p)
      PROVE  JoinInv'
  <2>1. CASE JoinRoom(p) \/ Refuse(p)
    <3>1. PICK after \in {"joining", "gone"} :
            pc[p] = "accepted" /\ pc' = [pc EXCEPT ![p] = after]
      BY <2>1 DEF JoinRoom, Refuse
    <3>2. UNCHANGED <<members, cur, batch, at, joinsTold>>
      BY <2>1 DEF JoinRoom, Refuse
    <3> QED
      BY <3>1, <3>2 DEF PreMember, InRoom, Inside
  <2>2. ASSUME NEW c \in Channels, SetChannels(p, c)
        PROVE  JoinInv'
    BY <2>2 DEF SetChannels, PreMember, InRoom, Inside
  <2>3. ASSUME NEW s \in BOOLEAN, SetSilence(p, s)
        PROVE  JoinInv'
    BY <2>3 DEF SetSilence, PreMember, InRoom, Inside
  <2>4. ASSUME NEW o \in Peer, NEW rate \in Rates, ReportPeerLoss(p, o, rate)
        PROVE  JoinInv'
    <3>1. pc[p] = "serving"
      BY <2>4, ReportEffect
    <3>2. UNCHANGED <<members, entry, batch, known, seen, joinsTold, leftTold,
                     target, company>>
      BY <2>4, ReportEffect
    <3>3. CASE UNCHANGED <<loss, cur, at, pc>>
      BY <3>2, <3>3
    <3>4. CASE /\ o \in members
               /\ loss' = [loss EXCEPT ![o][p] = rate]
               /\ cur' = [cur EXCEPT ![p] = ShardOf[o]]
               /\ at' = [at EXCEPT ![p] = o]
               /\ pc' = [pc EXCEPT ![p] = "reportMax"]
      BY <3>1, <3>2, <3>4 DEF PreMember, InRoom, Inside
    <3> QED
      BY <2>4, <3>3, <3>4, ReportEffect
  <2>5. CASE Depart(p)
    BY <2>5 DEF Depart, PreMember, InRoom, Inside
  <2> QED
    BY <1>3, <2>1, <2>2, <2>3, <2>4, <2>5 DEF Request
<1> QED
  BY <1>1, <1>2, <1>3 DEF Next, AllGone

\* Every step keeps a departing listener's reports ahead of its loop.
LEMMA LossNext == Base /\ LossInv /\ [Next]_vars => LossInv'
<1> SUFFICES ASSUME Base, LossInv, [Next]_vars
             PROVE  LossInv'
  OBVIOUS
<1> USE ShardAssumption DEF Base, LockInv, TypeOK, RoomOK, HandlerOK, LossInv, NoDepartedReporter, Ahead, shared
<1>1. CASE UNCHANGED vars
  BY <1>1 DEF vars, handler
<1>2. ASSUME NEW p \in Peer, Handle(p)
      PROVE  LossInv'
  <2>1. CASE NextShard(p)
    <3> HIDE DEF Ahead
    <3>1. UNCHANGED <<members, loss, pc>>
      BY <2>1 DEF NextShard
    <3>2. \A q \in Peer : \A o \in members : Ahead(q, o) => Ahead(q, o)'
      BY <2>1, AheadNextShard
    <3> QED
      BY <3>1, <3>2
  <2>2. ASSUME NEW o \in Peer, MeetPeer(p, o)
        PROVE  LossInv'
    BY <2>2 DEF MeetPeer, Visit, PreMember, Leaving, InRoom
  <2>3. ASSUME NEW o \in Peer, TellSilence(p, o)
        PROVE  LossInv'
    BY <2>3 DEF TellSilence, Visit, PreMember, Leaving, InRoom
  <2>4. ASSUME NEW o \in Peer, TellChannels(p, o)
        PROVE  LossInv'
    BY <2>4 DEF TellChannels, Visit, PreMember, Leaving, InRoom
  <2>5. ASSUME NEW o \in Peer, ForgetReports(p, o)
        PROVE  LossInv'
    BY <2>5 DEF ForgetReports, Visit, PreMember, Leaving, InRoom
  <2>6. CASE Introduce(p)
    BY <2>6 DEF Introduce, PreMember, Leaving, InRoom
  <2>7. CASE AllMet(p) \/ SilenceTold(p) \/ ChannelsTold(p) \/ Farewell(p)
    <3>1. PICK after \in {"inserting", "serving", "gone"} :
            /\ pc' = [pc EXCEPT ![p] = after]
            /\ after = "inserting" => pc[p] = "joining"
            /\ after = "serving" => pc[p] \in {"silencing", "rechanneling"}
            /\ after = "gone" => pc[p] = "leaving"
      BY <2>7, LoopEnd
    <3>2. /\ \A o \in Peer : ~Ahead(p, o)
          /\ \A h \in Peer \ {p}, o \in Peer : Ahead(h, o)' <=> Ahead(h, o)
          /\ UNCHANGED <<members, entry, loss, batch, at, known, seen, joinsTold,
                         leftTold, target, company>>
      BY <2>7, LoopEnd
    <3> HIDE DEF Ahead
    <3> QED
      BY <3>1, <3>2 DEF PreMember, Leaving
  <2>8. CASE Insert(p)
    BY <2>8 DEF Insert, PreMember, Leaving, InRoom
  <2>9. CASE ComputeMax(p)
    BY <2>9 DEF ComputeMax, PreMember, Leaving, InRoom
  <2>10. CASE TellTarget(p)
    BY <2>10 DEF TellTarget, PreMember, Leaving, InRoom
  <2>11. CASE TellNewTarget(p)
    BY <2>11 DEF TellNewTarget, PreMember, Leaving, InRoom
  <2>12. CASE TellLeft(p)
    BY <2>12 DEF TellLeft, PreMember, Leaving, InRoom
  <2> QED
    BY <1>2, <2>1, <2>2, <2>3, <2>4, <2>5, <2>6, <2>7, <2>8, <2>9, <2>10, <2>11, <2>12 DEF Handle
<1>3. ASSUME NEW p \in Peer, Request(p)
      PROVE  LossInv'
  <2>1. CASE JoinRoom(p) \/ Refuse(p)
    <3>1. PICK after \in {"joining", "gone"} :
            pc[p] = "accepted" /\ pc' = [pc EXCEPT ![p] = after]
      BY <2>1 DEF JoinRoom, Refuse
    <3>2. UNCHANGED <<members, loss, cur, batch>>
      BY <2>1 DEF JoinRoom, Refuse
    <3> QED
      BY <3>1, <3>2 DEF PreMember, Leaving, InRoom
  <2>2. ASSUME NEW c \in Channels, SetChannels(p, c)
        PROVE  LossInv'
    BY <2>2 DEF SetChannels, PreMember, Leaving, InRoom
  <2>3. ASSUME NEW s \in BOOLEAN, SetSilence(p, s)
        PROVE  LossInv'
    BY <2>3 DEF SetSilence, PreMember, Leaving, InRoom
  <2>4. ASSUME NEW o \in Peer, NEW rate \in Rates, ReportPeerLoss(p, o, rate)
        PROVE  LossInv'
    <3>1. pc[p] = "serving"
      BY <2>4, ReportEffect
    <3>2. UNCHANGED <<members, entry, batch, known, seen, joinsTold, leftTold,
                     target, company>>
      BY <2>4, ReportEffect
    <3>3. CASE UNCHANGED <<loss, cur, at, pc>>
      BY <3>2, <3>3
    <3>4. CASE /\ o \in members
               /\ loss' = [loss EXCEPT ![o][p] = rate]
               /\ cur' = [cur EXCEPT ![p] = ShardOf[o]]
               /\ at' = [at EXCEPT ![p] = o]
               /\ pc' = [pc EXCEPT ![p] = "reportMax"]
      BY <3>1, <3>2, <3>4 DEF PreMember, Leaving, InRoom
    <3> QED
      BY <2>4, <3>3, <3>4, ReportEffect
  <2>5. CASE Depart(p)
    BY <2>5 DEF Depart, PreMember, Leaving, InRoom
  <2> QED
    BY <1>3, <2>1, <2>2, <2>3, <2>4, <2>5 DEF Request
<1> QED
  BY <1>1, <1>2, <1>3 DEF Next, AllGone

\* Every step keeps what is recorded of who shared the room.
LEMMA CompanyNext == Base /\ CompanyInv /\ [Next]_vars => CompanyInv'
<1> SUFFICES ASSUME Base, CompanyInv, [Next]_vars
             PROVE  CompanyInv'
  OBVIOUS
<1> USE DEF Base, LockInv, TypeOK, RoomOK, HandlerOK, ToldOK, CompanyInv, told
<1>1. CASE UNCHANGED vars
  BY <1>1 DEF vars, handler
<1>2. ASSUME NEW p \in Peer, Handle(p)
      PROVE  CompanyInv'
  <2>1. CASE NextShard(p)
    BY <2>1 DEF NextShard, Iterating, PreMember, InRoom
  <2>2. ASSUME NEW o \in Peer, MeetPeer(p, o)
        PROVE  CompanyInv'
    BY <2>2 DEF MeetPeer, Visit, PeerJoined, PreMember, InRoom
  <2>3. ASSUME NEW o \in Peer, TellSilence(p, o)
        PROVE  CompanyInv'
    BY <2>3 DEF TellSilence, Visit, PreMember, InRoom
  <2>4. ASSUME NEW o \in Peer, TellChannels(p, o)
        PROVE  CompanyInv'
    BY <2>4 DEF TellChannels, Visit, PreMember, InRoom
  <2>5. ASSUME NEW o \in Peer, ForgetReports(p, o)
        PROVE  CompanyInv'
    BY <2>5 DEF ForgetReports, Visit, PreMember, InRoom
  <2>6. CASE Introduce(p)
    <3>1. /\ known' = [known EXCEPT ![at[p]] = @ \cup {p}]
          /\ pc[p] = "introducing" /\ pc' = [pc EXCEPT ![p] = "joining"]
          /\ UNCHANGED company
      BY <2>6 DEF Introduce, PeerJoined
    <3>2. at[p] \in Peer /\ at[p] # p
      BY <3>1 DEF Inside, InRoom
    <3> QED
      BY <3>1, <3>2 DEF PreMember
  <2>7. CASE AllMet(p) \/ SilenceTold(p) \/ ChannelsTold(p) \/ Farewell(p)
    <3>1. PICK after \in {"inserting", "serving", "gone"} :
            /\ pc' = [pc EXCEPT ![p] = after]
            /\ after = "inserting" => pc[p] = "joining"
            /\ after = "serving" => pc[p] \in {"silencing", "rechanneling"}
            /\ after = "gone" => pc[p] = "leaving"
      BY <2>7, LoopEnd
    <3>2. UNCHANGED <<known, company>>
      BY <2>7, LoopEnd
    <3> QED
      BY <3>1, <3>2 DEF PreMember
  <2>8. CASE Insert(p)
    BY <2>8 DEF Insert, PreMember, InRoom
  <2>9. CASE ComputeMax(p)
    BY <2>9 DEF ComputeMax, PreMember, InRoom
  <2>10. CASE TellTarget(p)
    BY <2>10 DEF TellTarget, PreMember, InRoom
  <2>11. CASE TellNewTarget(p)
    BY <2>11 DEF TellNewTarget, PreMember, InRoom
  <2>12. CASE TellLeft(p)
    BY <2>12 DEF TellLeft, PeerLeft, PreMember, InRoom
  <2> QED
    BY <1>2, <2>1, <2>2, <2>3, <2>4, <2>5, <2>6, <2>7, <2>8, <2>9, <2>10, <2>11, <2>12 DEF Handle
<1>3. ASSUME NEW p \in Peer, Request(p)
      PROVE  CompanyInv'
  <2>1. CASE JoinRoom(p) \/ Refuse(p)
    <3>1. PICK after \in {"joining", "gone"} :
            pc[p] = "accepted" /\ pc' = [pc EXCEPT ![p] = after]
      BY <2>1 DEF JoinRoom, Refuse
    <3>2. /\ UNCHANGED <<known, members>>
          /\ company' = company \/ company' = [company EXCEPT ![p] = members]
      BY <2>1 DEF JoinRoom, Refuse, shared
    <3>3. \A q \in Peer \ {p} : company'[q] = company[q] /\ pc'[q] = pc[q]
      BY <3>1, <3>2
    <3>4. company'[p] = company[p] \/ company'[p] = members
      BY <3>2
    <3>5. \A o \in members : o # p /\ pc[o] \notin PreMember
      BY <3>1 DEF InRoom, PreMember
    <3>6. \A q \in Peer : p \notin company[q]
      BY <3>1 DEF PreMember
    <3>7. \A o, q \in Peer : o \in company'[q] => pc'[o] \notin PreMember
      <4> SUFFICES ASSUME NEW o \in Peer, NEW q \in Peer, o \in company'[q]
                   PROVE  pc'[o] \notin PreMember
        OBVIOUS
      <4>1. CASE q # p
        <5>1. o \in company[q] /\ o # p
          BY <3>3, <3>6, <4>1
        <5> QED
          BY <3>3, <5>1
      <4>2. CASE q = p
        <5>1. o # p /\ (o \in members \/ o \in company[p])
          BY <3>4, <3>5, <3>6, <4>2
        <5> QED
          BY <3>3, <3>5, <5>1
      <4> QED
        BY <4>1, <4>2
    <3>8. pc'[p] # "accepted"
      BY <3>1
    <3> QED
      BY <3>2, <3>3, <3>7, <3>8
  <2>2. ASSUME NEW c \in Channels, SetChannels(p, c)
        PROVE  CompanyInv'
    BY <2>2 DEF SetChannels, PreMember, InRoom
  <2>3. ASSUME NEW s \in BOOLEAN, SetSilence(p, s)
        PROVE  CompanyInv'
    BY <2>3 DEF SetSilence, PreMember, InRoom
  <2>4. ASSUME NEW o \in Peer, NEW rate \in Rates, ReportPeerLoss(p, o, rate)
        PROVE  CompanyInv'
    <3>1. pc[p] = "serving" /\ UNCHANGED <<known, company>>
      BY <2>4, ReportEffect
    <3>2. UNCHANGED pc \/ pc' = [pc EXCEPT ![p] = "reportMax"]
      BY <2>4, ReportEffect
    <3> QED
      BY <3>1, <3>2 DEF PreMember
  <2>5. CASE Depart(p)
    BY <2>5 DEF Depart, PreMember, InRoom
  <2> QED
    BY <1>3, <2>1, <2>2, <2>3, <2>4, <2>5 DEF Request
<1> QED
  BY <1>1, <1>2, <1>3 DEF Next, AllGone

\* Every step keeps the introductions complete behind a newcomer's loop: a
\* member there from its first step on is ahead of it, being met, or told.
LEMMA MeetNext ==
  Base /\ JoinInv /\ CompanyInv /\ MeetInv /\ [Next]_vars => MeetInv'
<1> SUFFICES ASSUME Base, JoinInv, CompanyInv, MeetInv, [Next]_vars
             PROVE  MeetInv'
  OBVIOUS
<1> USE ShardAssumption DEF Base, LockInv, TypeOK, RoomOK, HandlerOK, ToldOK, CompanyInv, MeetInv, Ahead, shared, told
<1>1. CASE UNCHANGED vars
  BY <1>1 DEF vars, handler
<1>2. ASSUME NEW p \in Peer, Handle(p)
      PROVE  MeetInv'
  <2>1. CASE NextShard(p)
    <3> HIDE DEF Ahead
    <3>1. UNCHANGED <<members, pc, at, joinsTold, company>>
      BY <2>1 DEF NextShard
    <3>2. \A q \in Peer : \A o \in members : Ahead(q, o) => Ahead(q, o)'
      <4>1. members \subseteq Peer
        OBVIOUS
      <4>2. Base
        OBVIOUS
      <4> HIDE DEF Base, LockInv, TypeOK, RoomOK, HandlerOK, ToldOK, CompanyInv, MeetInv
      <4> QED
        BY <2>1, <4>1, <4>2, AheadNextShard
    <3> QED
      BY <3>1, <3>2
  <2>2. ASSUME NEW o \in Peer, MeetPeer(p, o)
        PROVE  MeetInv'
    <3>1. /\ pc[p] = "joining" /\ pc' = [pc EXCEPT ![p] = "introducing"]
          /\ o \in batch[p] /\ batch' = [batch EXCEPT ![p] = @ \ {o}]
          /\ at' = [at EXCEPT ![p] = o]
          /\ joinsTold' = [joinsTold EXCEPT ![p][o] = @ + 1]
          /\ UNCHANGED <<members, cur, company>>
      BY <2>2 DEF MeetPeer, Visit, PeerJoined
    <3>2. p \notin members
      BY <3>1 DEF InRoom
    <3>3. \A x, y \in Peer : (x # p \/ y # o) => (Ahead(x, y)' <=> Ahead(x, y))
      BY <3>1
    <3>4. \A x, y \in Peer : x # p \/ y # o => joinsTold'[x][y] = joinsTold[x][y]
      BY <3>1
    <3> HIDE DEF Ahead
    <3> SUFFICES ASSUME NEW x \in Peer, pc'[x] \in {"joining", "introducing", "inserting"},
                        NEW y \in company[x] \cap members
                 PROVE  \/ pc'[x] # "inserting" /\ Ahead(x, y)'
                        \/ pc'[x] = "introducing" /\ at'[x] = y
                        \/ joinsTold'[y][x] = 1 /\ joinsTold'[x][y] = 1
      BY <3>1
    <3>5. CASE x = p /\ y = o
      BY <3>1, <3>5
    <3>6. CASE x = p /\ y # o
      BY <3>1, <3>2, <3>3, <3>4, <3>6
    <3>7. CASE x # p
      <4>1. y # p
        BY <3>2
      <4> QED
        BY <3>1, <3>3, <3>4, <3>7, <4>1
    <3> QED
      BY <3>5, <3>6, <3>7
  <2>3. ASSUME NEW o \in Peer, TellSilence(p, o)
        PROVE  MeetInv'
    BY <2>3 DEF TellSilence, Visit, InRoom, Inside
  <2>4. ASSUME NEW o \in Peer, TellChannels(p, o)
        PROVE  MeetInv'
    BY <2>4 DEF TellChannels, Visit, InRoom, Inside
  <2>5. ASSUME NEW o \in Peer, ForgetReports(p, o)
        PROVE  MeetInv'
    BY <2>5 DEF ForgetReports, Visit, InRoom, Inside
  <2>6. CASE Introduce(p)
    <3>1. /\ pc[p] = "introducing" /\ pc' = [pc EXCEPT ![p] = "joining"]
          /\ at' = [at EXCEPT ![p] = NoPeer]
          /\ joinsTold' = [joinsTold EXCEPT ![at[p]][p] = @ + 1]
          /\ UNCHANGED <<members, cur, batch, company>>
      BY <2>6 DEF Introduce, PeerJoined
    <3>2. at[p] \in members /\ at[p] \in Peer /\ p \notin members
      BY <3>1 DEF Inside, InRoom
    <3>3. joinsTold[p][at[p]] = 1 /\ joinsTold[at[p]][p] = 0
      BY <3>1 DEF JoinInv
    <3>4. /\ joinsTold'[at[p]][p] = 1 /\ joinsTold'[p][at[p]] = 1
          /\ \A x, y \in Peer : x # at[p] \/ y # p => joinsTold'[x][y] = joinsTold[x][y]
      BY <3>1, <3>2, <3>3
    <3>5. \A x, y \in Peer : Ahead(x, y)' <=> Ahead(x, y)
      BY <3>1
    <3> HIDE DEF Ahead
    <3> SUFFICES ASSUME NEW x \in Peer, pc'[x] \in {"joining", "introducing", "inserting"},
                        NEW y \in company[x] \cap members
                 PROVE  \/ pc'[x] # "inserting" /\ Ahead(x, y)
                        \/ pc'[x] = "introducing" /\ at'[x] = y
                        \/ joinsTold'[y][x] = 1 /\ joinsTold'[x][y] = 1
      BY <3>1, <3>5
    <3>6. CASE x = p
      BY <3>1, <3>2, <3>4, <3>6
    <3>7. CASE x # p
      <4>1. x \notin members
        <5>1. pc[x] \in {"joining", "introducing", "inserting"}
          BY <3>1, <3>7
        <5> QED
          BY <5>1 DEF InRoom
      <4> QED
        BY <3>1, <3>2, <3>4, <3>7, <4>1
    <3> QED
      BY <3>6, <3>7
  <2>7. CASE AllMet(p) \/ SilenceTold(p) \/ ChannelsTold(p) \/ Farewell(p)
    <3>1. PICK after \in {"inserting", "serving", "gone"} :
            /\ pc' = [pc EXCEPT ![p] = after]
            /\ after = "inserting" => pc[p] = "joining"
            /\ after = "serving" => pc[p] \in {"silencing", "rechanneling"}
            /\ after = "gone" => pc[p] = "leaving"
      BY <2>7, LoopEnd
    <3>2. /\ \A o \in Peer : ~Ahead(p, o)
          /\ \A h \in Peer \ {p}, o \in Peer : Ahead(h, o)' <=> Ahead(h, o)
          /\ UNCHANGED <<members, entry, loss, batch, at, known, seen, joinsTold,
                         leftTold, target, company>>
      BY <2>7, LoopEnd
    <3> HIDE DEF Ahead
    <3> QED
      BY <3>1, <3>2
  <2>8. CASE Insert(p)
    BY <2>8 DEF Insert, PreMember
  <2>9. CASE ComputeMax(p)
    BY <2>9 DEF ComputeMax
  <2>10. CASE TellTarget(p)
    BY <2>10 DEF TellTarget
  <2>11. CASE TellNewTarget(p)
    BY <2>11 DEF TellNewTarget
  <2>12. CASE TellLeft(p)
    BY <2>12 DEF TellLeft, PeerLeft
  <2> QED
    BY <1>2, <2>1, <2>2, <2>3, <2>4, <2>5, <2>6, <2>7, <2>8, <2>9, <2>10, <2>11, <2>12 DEF Handle
<1>3. ASSUME NEW p \in Peer, Request(p)
      PROVE  MeetInv'
  <2>1. CASE JoinRoom(p)
    <3>1. /\ pc[p] = "accepted" /\ pc' = [pc EXCEPT ![p] = "joining"]
          /\ company' = [company EXCEPT ![p] = members]
          /\ cur[p] = 0
          /\ UNCHANGED <<members, cur, batch, at, joinsTold>>
      BY <2>1 DEF JoinRoom
    <3>2. \A x, y \in Peer : Ahead(x, y)' <=> Ahead(x, y)
      BY <3>1
    <3>3. \A y \in Peer : Ahead(p, y)
      BY <3>1
    <3> HIDE DEF Ahead
    <3> QED
      BY <3>1, <3>2, <3>3
  <2>2. CASE Refuse(p)
    BY <2>2 DEF Refuse
  <2>3. ASSUME NEW c \in Channels, SetChannels(p, c)
        PROVE  MeetInv'
    BY <2>3 DEF SetChannels
  <2>4. ASSUME NEW s \in BOOLEAN, SetSilence(p, s)
        PROVE  MeetInv'
    BY <2>4 DEF SetSilence
  <2>5. ASSUME NEW o \in Peer, NEW rate \in Rates, ReportPeerLoss(p, o, rate)
        PROVE  MeetInv'
    <3>1. pc[p] = "serving"
      BY <2>5, ReportEffect
    <3>2. UNCHANGED <<members, entry, batch, known, seen, joinsTold, leftTold,
                     target, company>>
      BY <2>5, ReportEffect
    <3>3. CASE UNCHANGED <<loss, cur, at, pc>>
      BY <3>2, <3>3
    <3>4. CASE /\ o \in members
               /\ loss' = [loss EXCEPT ![o][p] = rate]
               /\ cur' = [cur EXCEPT ![p] = ShardOf[o]]
               /\ at' = [at EXCEPT ![p] = o]
               /\ pc' = [pc EXCEPT ![p] = "reportMax"]
      BY <3>1, <3>2, <3>4
    <3> QED
      BY <2>5, <3>3, <3>4, ReportEffect
  <2>6. CASE Depart(p)
    BY <2>6 DEF Depart
  <2> QED
    BY <1>3, <2>1, <2>2, <2>3, <2>4, <2>5, <2>6 DEF Request
<1> QED
  BY <1>1, <1>2, <1>3 DEF Next, AllGone

\* Every step keeps the farewells complete behind the departing peer's loop.
LEMMA FarewellNext == Base /\ CompanyInv /\ FarewellInv /\ [Next]_vars => FarewellInv'
<1> SUFFICES ASSUME Base, CompanyInv, FarewellInv, [Next]_vars
             PROVE  FarewellInv'
  OBVIOUS
<1> USE ShardAssumption DEF Base, LockInv, TypeOK, RoomOK, HandlerOK, ToldOK, CompanyInv, FarewellInv, FarewellReachesAll, Ahead, shared, told
<1>1. CASE UNCHANGED vars
  BY <1>1 DEF vars, handler
<1>2. ASSUME NEW p \in Peer, Handle(p)
      PROVE  FarewellInv'
  <2>1. CASE NextShard(p)
    <3> HIDE DEF Ahead
    <3>1. UNCHANGED <<members, pc, at, known, leftTold, company>>
      BY <2>1 DEF NextShard
    <3>2. /\ \A q \in Peer : \A o \in members : Ahead(q, o) => Ahead(q, o)'
          /\ \A q, o \in Peer : Ahead(q, o)' => Ahead(q, o)
      <4>1. members \subseteq Peer
        OBVIOUS
      <4>2. Base
        OBVIOUS
      <4> HIDE DEF Base, LockInv, TypeOK, RoomOK, HandlerOK, ToldOK, CompanyInv, FarewellInv
      <4> QED
        BY <2>1, <4>1, <4>2, AheadNextShard
    <3> QED
      BY <3>1, <3>2
  <2>2. ASSUME NEW o \in Peer, MeetPeer(p, o)
        PROVE  FarewellInv'
    BY <2>2 DEF MeetPeer, Visit, PeerJoined, PreMember, Leaving, InRoom, Inside
  <2>3. ASSUME NEW o \in Peer, TellSilence(p, o)
        PROVE  FarewellInv'
    BY <2>3 DEF TellSilence, Visit, PeerSilence, PreMember, Leaving, InRoom, Inside
  <2>4. ASSUME NEW o \in Peer, TellChannels(p, o)
        PROVE  FarewellInv'
    BY <2>4 DEF TellChannels, Visit, PeerChannels, PreMember, Leaving, InRoom, Inside
  <2>5. ASSUME NEW o \in Peer, ForgetReports(p, o)
        PROVE  FarewellInv'
    BY <2>5 DEF ForgetReports, Visit, PreMember, Leaving, InRoom, Inside
  <2>6. CASE Introduce(p)
    BY <2>6 DEF Introduce, PeerJoined, PreMember, Leaving, InRoom, Inside
  <2>7. CASE AllMet(p) \/ SilenceTold(p) \/ ChannelsTold(p) \/ Farewell(p)
    <3>1. PICK after \in {"inserting", "serving", "gone"} :
            /\ pc' = [pc EXCEPT ![p] = after]
            /\ after = "inserting" => pc[p] = "joining"
            /\ after = "serving" => pc[p] \in {"silencing", "rechanneling"}
            /\ after = "gone" => pc[p] = "leaving"
      BY <2>7, LoopEnd
    <3>2. /\ \A o \in Peer : ~Ahead(p, o)
          /\ \A h \in Peer \ {p}, o \in Peer : Ahead(h, o)' <=> Ahead(h, o)
          /\ UNCHANGED <<members, entry, loss, batch, at, known, seen, joinsTold,
                         leftTold, target, company>>
      BY <2>7, LoopEnd
    <3> HIDE DEF Ahead
    <3> QED
      BY <3>1, <3>2 DEF PreMember, Leaving, Inside
  <2>8. CASE Insert(p)
    BY <2>8 DEF Insert, PreMember, Leaving, InRoom, Inside
  <2>9. CASE ComputeMax(p)
    BY <2>9 DEF ComputeMax, PreMember, Leaving, InRoom, Inside
  <2>10. CASE TellTarget(p)
    BY <2>10 DEF TellTarget, PreMember, Leaving, InRoom, Inside
  <2>11. CASE TellNewTarget(p)
    BY <2>11 DEF TellNewTarget, PreMember, Leaving, InRoom, Inside
  <2>12. CASE TellLeft(p)
    <3>1. /\ pc[p] = "leaveBye" /\ pc' = [pc EXCEPT ![p] = "leaving"]
          /\ at[p] \in members
          /\ at' = [at EXCEPT ![p] = NoPeer]
          /\ known' = [known EXCEPT ![at[p]] = @ \ {p}]
          /\ leftTold' = [leftTold EXCEPT ![at[p]][p] = @ + 1]
          /\ UNCHANGED <<members, cur, batch, company>>
      BY <2>12 DEF TellLeft, PeerLeft, Inside
    <3>0. at[p] \in Peer /\ leftTold[at[p]][p] = 0
      BY <3>1 DEF Leaving
    <3>2. /\ leftTold'[at[p]][p] = 1 /\ p \notin known'[at[p]]
          /\ \A x, y \in Peer : x # at[p] \/ y # p
               => leftTold'[x][y] = leftTold[x][y]
          /\ \A x \in Peer : known'[x] \subseteq known[x]
      <4> HIDE DEF Base, FarewellInv, CompanyInv, FarewellReachesAll
      <4> QED
        BY <3>0, <3>1 DEF Base
    <3>3. ~Ahead(p, at[p])
      BY <3>1, ShardAssumption DEF Leaving, Inside
    <3>4. \A x, y \in Peer : Ahead(x, y)' <=> Ahead(x, y)
      BY <3>1
    <3> HIDE DEF Ahead
    <3> QED
      BY <3>1, <3>2, <3>3, <3>4 DEF PreMember, Leaving
  <2> QED
    BY <1>2, <2>1, <2>2, <2>3, <2>4, <2>5, <2>6, <2>7, <2>8, <2>9, <2>10, <2>11, <2>12 DEF Handle
<1>3. ASSUME NEW p \in Peer, Request(p)
      PROVE  FarewellInv'
  <2>1. CASE JoinRoom(p) \/ Refuse(p)
    <3>1. PICK after \in {"joining", "gone"} :
            pc[p] = "accepted" /\ pc' = [pc EXCEPT ![p] = after]
      BY <2>1 DEF JoinRoom, Refuse
    <3>2. /\ UNCHANGED <<members, cur, batch, at, known, leftTold>>
          /\ \A q \in Peer \ {p} : company'[q] = company[q]
          /\ company[p] = {} /\ (after = "gone" => company' = company)
      BY <2>1, <3>1 DEF JoinRoom, Refuse
    <3>3. \A x, y \in Peer : Ahead(x, y)' <=> Ahead(x, y)
      BY <3>2
    <3> HIDE DEF Ahead
    <3> QED
      BY <3>1, <3>2, <3>3 DEF PreMember, Leaving
  <2>2. ASSUME NEW c \in Channels, SetChannels(p, c)
        PROVE  FarewellInv'
    BY <2>2 DEF SetChannels, PreMember, Leaving, InRoom, Inside
  <2>3. ASSUME NEW s \in BOOLEAN, SetSilence(p, s)
        PROVE  FarewellInv'
    BY <2>3 DEF SetSilence, PreMember, Leaving, InRoom, Inside
  <2>4. ASSUME NEW o \in Peer, NEW rate \in Rates, ReportPeerLoss(p, o, rate)
        PROVE  FarewellInv'
    <3>1. pc[p] = "serving"
      BY <2>4, ReportEffect
    <3>2. UNCHANGED <<members, entry, batch, known, seen, joinsTold, leftTold,
                     target, company>>
      BY <2>4, ReportEffect
    <3>3. CASE UNCHANGED <<loss, cur, at, pc>>
      BY <3>2, <3>3
    <3>4. CASE /\ o \in members
               /\ loss' = [loss EXCEPT ![o][p] = rate]
               /\ cur' = [cur EXCEPT ![p] = ShardOf[o]]
               /\ at' = [at EXCEPT ![p] = o]
               /\ pc' = [pc EXCEPT ![p] = "reportMax"]
      BY <3>1, <3>2, <3>4 DEF PreMember, Leaving, InRoom, Inside
    <3> QED
      BY <2>4, <3>3, <3>4, ReportEffect
  <2>5. CASE Depart(p)
    BY <2>5 DEF Depart, PreMember, Leaving, InRoom, Inside
  <2> QED
    BY <1>3, <2>1, <2>2, <2>3, <2>4, <2>5 DEF Request
<1> QED
  BY <1>1, <1>2, <1>3 DEF Next, AllGone

\* Every step keeps what the clients see of a peer in step with its entry.
LEMMA ViewNext == Base /\ CompanyInv /\ ViewInv /\ [Next]_vars => ViewInv'
<1> SUFFICES ASSUME Base, CompanyInv, ViewInv, [Next]_vars
             PROVE  ViewInv'
  OBVIOUS
<1> USE ShardAssumption DEF Base, LockInv, TypeOK, RoomOK, HandlerOK, ToldOK, CompanyInv, ViewInv, NewcomerSeen, NewcomerSees, CompanySees, NoStaleTalker, Ahead, shared, told
<1>1. CASE UNCHANGED vars
  BY <1>1 DEF vars, handler
<1>2. ASSUME NEW p \in Peer, Handle(p)
      PROVE  ViewInv'
  <2>1. CASE NextShard(p)
    <3>1. UNCHANGED <<members, entry, pc, known, seen, company>>
      BY <2>1 DEF NextShard
    <3>2. \A q \in Peer : \A o \in members : Ahead(q, o) => Ahead(q, o)'
      BY <2>1, AheadNextShard
    <3> HIDE DEF Ahead
    <3> QED
      BY <3>1, <3>2 DEF NewEntry
  <2>2. ASSUME NEW o \in Peer, MeetPeer(p, o)
        PROVE  ViewInv'
    <3>1. /\ pc[p] = "joining" /\ pc' = [pc EXCEPT ![p] = "introducing"]
          /\ o \in members /\ p \notin members
          /\ UNCHANGED <<members, entry, company, cur>>
          /\ batch' = [batch EXCEPT ![p] = @ \ {o}]
      BY <2>2 DEF MeetPeer, Visit, InRoom
    <3>2. /\ seen'[p][o].silenced
          /\ \A x, y \in Peer : x # p \/ y # o =>
               /\ y \in known'[x] <=> y \in known[x]
               /\ seen'[x][y] = seen[x][y]
      BY <2>2 DEF MeetPeer, PeerJoined
    <3>3. pc[o] \notin PreMember /\ o # p
      BY <3>1 DEF PreMember, InRoom
    <3>4. \A x, y \in Peer : x # p => (Ahead(x, y)' <=> Ahead(x, y))
      BY <3>1
    <3>9. /\ members \subseteq Peer
          /\ \A x \in Peer \ {p} : pc'[x] = pc[x] /\ company'[x] = company[x]
      BY <3>1
    <3> HIDE DEF Ahead, Base, TypeOK, LockInv, CompanyInv, ViewInv, NewcomerSeen,
                 NewcomerSees, CompanySees, NoStaleTalker
    <3>10. NewcomerSeen'
      BY <3>1, <3>2, <3>3, <3>4, <3>9 DEF ViewInv, NewcomerSeen, PreMember, NewEntry
    <3>11. NewcomerSees'
      BY <3>1, <3>2, <3>3, <3>4, <3>9 DEF ViewInv, NewcomerSees, PreMember, NewEntry
    <3>12. CompanySees'
      BY <3>1, <3>2, <3>3, <3>4, <3>9 DEF ViewInv, CompanySees, PreMember, NewEntry
    <3>13. NoStaleTalker'
      BY <3>1, <3>2, <3>3, <3>4, <3>9 DEF ViewInv, NoStaleTalker, PreMember, NewEntry
    <3> QED
      BY <3>10, <3>11, <3>12, <3>13 DEF ViewInv
  <2>3. ASSUME NEW o \in Peer, TellSilence(p, o)
        PROVE  ViewInv'
    <3>1. /\ pc[p] = "silencing" /\ o \in members /\ p \in members
          /\ UNCHANGED <<members, entry, company, cur, pc, known>>
          /\ batch' = [batch EXCEPT ![p] = @ \ {o}]
      BY <2>3 DEF TellSilence, Visit, InRoom
    <3>2. o # p /\ p \in known[o] => /\ seen'[o][p].silenced = entry[p].silenced
                                    /\ seen'[o][p].channels = seen[o][p].channels
                                    /\ seen'[o][p] \in Entry /\ entry[p] \in Entry
      <4> SUFFICES ASSUME o # p, p \in known[o]
                   PROVE  /\ seen'[o][p].silenced = entry[p].silenced
                          /\ seen'[o][p].channels = seen[o][p].channels
                          /\ seen'[o][p] \in Entry /\ entry[p] \in Entry
        OBVIOUS
      <4> DEFINE e == [seen[o][p] EXCEPT !.silenced = entry[p].silenced]
      <4>1. seen \in [Peer -> [Peer -> Entry]] /\ entry[p] \in Entry
        OBVIOUS
      <4>2. seen' = [seen EXCEPT ![o][p] = e]
        BY <2>3 DEF TellSilence, PeerSilence
      <4>3. /\ e.silenced = entry[p].silenced /\ e.channels = seen[o][p].channels
            /\ e \in Entry
        <5>1. seen[o][p] \in Entry
          BY <4>1
        <5> QED
          BY <4>1, <5>1 DEF Entry
      <4> HIDE DEF e, Base
      <4> QED
        BY <4>1, <4>2, <4>3
    <3>3. \A x, y \in Peer : x # o \/ y # p => seen'[x][y] = seen[x][y]
      BY <2>3 DEF TellSilence, PeerSilence
    <3>4. o = p \/ p \notin known[o] => seen' = seen
      BY <2>3 DEF TellSilence, PeerSilence
    <3>5. \A x, y \in Peer : x # p \/ y # o => (Ahead(x, y)' <=> Ahead(x, y))
      BY <3>1
    <3>6. pc[p] \notin PreMember /\ pc[o] \notin PreMember /\ p \notin known[p]
      BY <3>1 DEF PreMember, InRoom
    <3>9. /\ members \subseteq Peer
          /\ \A x \in Peer \ {p} : pc'[x] = pc[x] /\ company'[x] = company[x]
      BY <3>1
    <3> HIDE DEF Ahead, Base, TypeOK, LockInv, CompanyInv, ViewInv, NewcomerSeen,
                 NewcomerSees, CompanySees, NoStaleTalker
    <3>10. NewcomerSeen'
      BY <3>1, <3>2, <3>3, <3>4, <3>5, <3>6, <3>9 DEF ViewInv, NewcomerSeen, NewEntry, Entry
    <3>11. NewcomerSees'
      BY <3>1, <3>2, <3>3, <3>4, <3>5, <3>6, <3>9 DEF ViewInv, NewcomerSees, NewEntry, Entry
    <3>12. CompanySees'
      <4> SUFFICES ASSUME NEW q \in members, NEW x \in company[q] \cap members, q \in known[x]
                   PROVE  \/ seen'[x][q] = entry[q]
                          \/ /\ pc[q] = "silencing" /\ Ahead(q, x)'
                             /\ seen'[x][q].channels = entry[q].channels
                          \/ /\ pc[q] = "rechanneling" /\ Ahead(q, x)'
                             /\ seen'[x][q].silenced = entry[q].silenced
        BY <3>1 DEF CompanySees
      <4>1. /\ q \in Peer /\ x \in Peer
            /\ \/ seen[x][q] = entry[q]
               \/ /\ pc[q] = "silencing" /\ Ahead(q, x)
                  /\ seen[x][q].channels = entry[q].channels
               \/ /\ pc[q] = "rechanneling" /\ Ahead(q, x)
                  /\ seen[x][q].silenced = entry[q].silenced
        BY <3>9 DEF ViewInv, CompanySees
      <4>2. CASE x = o /\ q = p
        <5>1. x # q
          BY <3>6, <4>2
        <5> QED
          BY <3>1, <3>2, <4>1, <4>2, <5>1 DEF Entry
      <4>3. CASE ~(x = o /\ q = p)
        <5>1. seen'[x][q] = seen[x][q] /\ (Ahead(q, x)' <=> Ahead(q, x))
          BY <3>3, <3>5, <4>1, <4>3
        <5> QED
          BY <4>1, <5>1
      <4> QED
        BY <4>2, <4>3
    <3>13. NoStaleTalker'
      BY <3>1, <3>2, <3>3, <3>4, <3>5, <3>6, <3>9 DEF ViewInv, NoStaleTalker, NewEntry, Entry
    <3> QED
      BY <3>10, <3>11, <3>12, <3>13 DEF ViewInv
  <2>4. ASSUME NEW o \in Peer, TellChannels(p, o)
        PROVE  ViewInv'
    <3>1. /\ pc[p] = "rechanneling" /\ o \in members /\ p \in members
          /\ UNCHANGED <<members, entry, company, cur, pc, known>>
          /\ batch' = [batch EXCEPT ![p] = @ \ {o}]
      BY <2>4 DEF TellChannels, Visit, InRoom
    <3>2. o # p /\ p \in known[o] => /\ seen'[o][p].channels = entry[p].channels
                                    /\ seen'[o][p].silenced = seen[o][p].silenced
                                    /\ seen'[o][p] \in Entry /\ entry[p] \in Entry
      <4> SUFFICES ASSUME o # p, p \in known[o]
                   PROVE  /\ seen'[o][p].channels = entry[p].channels
                          /\ seen'[o][p].silenced = seen[o][p].silenced
                          /\ seen'[o][p] \in Entry /\ entry[p] \in Entry
        OBVIOUS
      <4> DEFINE e == [seen[o][p] EXCEPT !.channels = entry[p].channels]
      <4>1. seen \in [Peer -> [Peer -> Entry]] /\ entry[p] \in Entry
        OBVIOUS
      <4>2. seen' = [seen EXCEPT ![o][p] = e]
        BY <2>4 DEF TellChannels, PeerChannels
      <4>3. /\ e.channels = entry[p].channels /\ e.silenced = seen[o][p].silenced
            /\ e \in Entry
        <5>1. seen[o][p] \in Entry
          BY <4>1
        <5> QED
          BY <4>1, <5>1 DEF Entry
      <4> HIDE DEF e, Base
      <4> QED
        BY <4>1, <4>2, <4>3
    <3>3. \A x, y \in Peer : x # o \/ y # p => seen'[x][y] = seen[x][y]
      BY <2>4 DEF TellChannels, PeerChannels
    <3>4. o = p \/ p \notin known[o] => seen' = seen
      BY <2>4 DEF TellChannels, PeerChannels
    <3>5. \A x, y \in Peer : x # p \/ y # o => (Ahead(x, y)' <=> Ahead(x, y))
      BY <3>1
    <3>6. pc[p] \notin PreMember /\ pc[o] \notin PreMember /\ p \notin known[p]
      BY <3>1 DEF PreMember, InRoom
    <3>9. /\ members \subseteq Peer
          /\ \A x \in Peer \ {p} : pc'[x] = pc[x] /\ company'[x] = company[x]
      BY <3>1
    <3> HIDE DEF Ahead, Base, TypeOK, LockInv, CompanyInv, ViewInv, NewcomerSeen,
                 NewcomerSees, CompanySees, NoStaleTalker
    <3>10. NewcomerSeen'
      BY <3>1, <3>2, <3>3, <3>4, <3>5, <3>6, <3>9 DEF ViewInv, NewcomerSeen, NewEntry, Entry
    <3>11. NewcomerSees'
      BY <3>1, <3>2, <3>3, <3>4, <3>5, <3>6, <3>9 DEF ViewInv, NewcomerSees, NewEntry, Entry
    <3>12. CompanySees'
      <4> SUFFICES ASSUME NEW q \in members, NEW x \in company[q] \cap members, q \in known[x]
                   PROVE  \/ seen'[x][q] = entry[q]
                          \/ /\ pc[q] = "silencing" /\ Ahead(q, x)'
                             /\ seen'[x][q].channels = entry[q].channels
                          \/ /\ pc[q] = "rechanneling" /\ Ahead(q, x)'
                             /\ seen'[x][q].silenced = entry[q].silenced
        BY <3>1 DEF CompanySees
      <4>1. /\ q \in Peer /\ x \in Peer
            /\ \/ seen[x][q] = entry[q]
               \/ /\ pc[q] = "silencing" /\ Ahead(q, x)
                  /\ seen[x][q].channels = entry[q].channels
               \/ /\ pc[q] = "rechanneling" /\ Ahead(q, x)
                  /\ seen[x][q].silenced = entry[q].silenced
        BY <3>9 DEF ViewInv, CompanySees
      <4>2. CASE x = o /\ q = p
        <5>1. x # q
          BY <3>6, <4>2
        <5> QED
          BY <3>1, <3>2, <4>1, <4>2, <5>1 DEF Entry
      <4>3. CASE ~(x = o /\ q = p)
        <5>1. seen'[x][q] = seen[x][q] /\ (Ahead(q, x)' <=> Ahead(q, x))
          BY <3>3, <3>5, <4>1, <4>3
        <5> QED
          BY <4>1, <5>1
      <4> QED
        BY <4>2, <4>3
    <3>13. NoStaleTalker'
      BY <3>1, <3>2, <3>3, <3>4, <3>5, <3>6, <3>9 DEF ViewInv, NoStaleTalker, NewEntry, Entry
    <3> QED
      BY <3>10, <3>11, <3>12, <3>13 DEF ViewInv
  <2>5. ASSUME NEW o \in Peer, ForgetReports(p, o)
        PROVE  ViewInv'
    BY <2>5 DEF ForgetReports, Visit, PreMember, InRoom, NewEntry
  <2>6. CASE Introduce(p)
    <3>1. /\ pc[p] = "introducing" /\ pc' = [pc EXCEPT ![p] = "joining"]
          /\ at[p] \in members /\ p \notin members
          /\ UNCHANGED <<members, entry, company, cur, batch>>
      BY <2>6 DEF Introduce, InRoom, Inside
    <3>2. /\ seen'[at[p]][p] = NewEntry(p)
          /\ \A x, y \in Peer : x # at[p] \/ y # p =>
               /\ y \in known'[x] <=> y \in known[x]
               /\ seen'[x][y] = seen[x][y]
      BY <2>6, <3>1 DEF Introduce, PeerJoined, NewEntry
    <3>3. at[p] \in Peer /\ pc[at[p]] \notin PreMember
      <4>1. at[p] \in Peer /\ pc[at[p]] \in InRoom
        BY <3>1
      <4> QED
        BY <4>1 DEF PreMember, InRoom
    <3>4. \A x, y \in Peer : Ahead(x, y)' <=> Ahead(x, y)
      BY <3>1
    <3>9. /\ members \subseteq Peer
          /\ \A x \in Peer \ {p} : pc'[x] = pc[x] /\ company'[x] = company[x]
      BY <3>1
    <3> HIDE DEF Ahead, Base, TypeOK, LockInv, CompanyInv, ViewInv, NewcomerSeen,
                 NewcomerSees, CompanySees, NoStaleTalker
    <3>10. NewcomerSeen'
      <4> SUFFICES ASSUME NEW x \in Peer, NEW q \in Peer,
                          pc'[q] \in PreMember, q \in known'[x]
                   PROVE  seen'[x][q] = NewEntry(q)
        BY DEF NewcomerSeen, NewEntry
      <4>1. CASE x = at[p] /\ q = p
        BY <3>2, <4>1
      <4>2. CASE x # at[p] \/ q # p
        <5>1. pc[q] \in PreMember
          BY <3>1, <3>9 DEF PreMember
        <5> QED
          BY <3>2, <4>2, <5>1 DEF ViewInv, NewcomerSeen
      <4> QED
        BY <4>1, <4>2
    <3>11. NewcomerSees'
      BY <3>1, <3>2, <3>3, <3>4, <3>9 DEF ViewInv, NewcomerSees, PreMember, NewEntry
    <3>12. CompanySees'
      BY <3>1, <3>2, <3>3, <3>4, <3>9 DEF ViewInv, CompanySees, PreMember, NewEntry
    <3>13. NoStaleTalker'
      BY <3>1, <3>2, <3>3, <3>4, <3>9 DEF ViewInv, NoStaleTalker, PreMember, NewEntry
    <3> QED
      BY <3>10, <3>11, <3>12, <3>13 DEF ViewInv
  <2>7. CASE AllMet(p) \/ SilenceTold(p) \/ ChannelsTold(p) \/ Farewell(p)
    <3>1. PICK after \in {"inserting", "serving", "gone"} :
            /\ pc' = [pc EXCEPT ![p] = after]
            /\ after = "inserting" => pc[p] = "joining"
            /\ after = "serving" => pc[p] \in {"silencing", "rechanneling"}
            /\ after = "gone" => pc[p] = "leaving"
      BY <2>7, LoopEnd
    <3>2. /\ \A o \in Peer : ~Ahead(p, o)
          /\ \A h \in Peer \ {p}, o \in Peer : Ahead(h, o)' <=> Ahead(h, o)
          /\ UNCHANGED <<members, entry, loss, batch, at, known, seen, joinsTold,
                         leftTold, target, company>>
      BY <2>7, LoopEnd
    <3> HIDE DEF Ahead
    <3> QED
      BY <3>1, <3>2 DEF PreMember, NewEntry
  <2>8. CASE Insert(p)
    <3>1. /\ pc[p] = "inserting" /\ pc' = [pc EXCEPT ![p] = "serving"]
          /\ members' = members \cup {p} /\ p \notin members
          /\ entry' = [entry EXCEPT ![p] = NewEntry(p)]
          /\ company' = [company EXCEPT ![p] = members]
          /\ UNCHANGED <<cur, batch, known, seen>>
      BY <2>8 DEF Insert, InRoom
    <3>2. \A x, y \in Peer : Ahead(x, y)' <=> Ahead(x, y)
      BY <3>1
    <3>3. \A q \in Peer : p \notin company[q]
      BY <3>1 DEF PreMember
    <3>4. \A x \in Peer : p \in known[x] => seen[x][p] = NewEntry(p)
      BY <3>1 DEF PreMember
    <3>5. /\ pc'[p] = "serving" /\ entry'[p] = NewEntry(p) /\ company'[p] = members
          /\ \A x \in Peer \ {p} : entry'[x] = entry[x]
      BY <3>1
    <3>6. NewEntry(p).silenced /\ p \notin known[p]
      BY DEF NewEntry
    <3>9. /\ members \subseteq Peer
          /\ \A x \in Peer \ {p} : pc'[x] = pc[x] /\ company'[x] = company[x]
      BY <3>1
    <3> HIDE DEF Ahead, Base, TypeOK, LockInv, CompanyInv, ViewInv, NewcomerSeen,
                 NewcomerSees, CompanySees, NoStaleTalker
    <3>10. NewcomerSeen'
      BY <3>1, <3>2, <3>3, <3>4, <3>5, <3>6, <3>9 DEF ViewInv, NewcomerSeen, PreMember, NewEntry
    <3>11. NewcomerSees'
      BY <3>1, <3>2, <3>3, <3>4, <3>5, <3>6, <3>9 DEF ViewInv, NewcomerSees, PreMember, NewEntry
    <3>12. CompanySees'
      <4> SUFFICES ASSUME NEW q \in members', NEW x \in company'[q] \cap members',
                          q \in known[x]
                   PROVE  \/ seen[x][q] = entry'[q]
                          \/ /\ pc'[q] = "silencing" /\ Ahead(q, x)'
                             /\ seen[x][q].channels = entry'[q].channels
                          \/ /\ pc'[q] = "rechanneling" /\ Ahead(q, x)'
                             /\ seen[x][q].silenced = entry'[q].silenced
        BY <3>1 DEF CompanySees
      <4>1. CASE q = p
        BY <3>4, <3>5, <3>9, <4>1
      <4>2. CASE q # p
        <5>1. q \in members /\ x \in company[q] \cap members
          BY <3>1, <3>3, <3>9, <4>2
        <5> QED
          BY <3>2, <3>5, <3>9, <4>2, <5>1 DEF ViewInv, CompanySees
      <4> QED
        BY <4>1, <4>2
    <3>13. NoStaleTalker'
      <4> SUFFICES ASSUME NEW q \in members', NEW x \in members',
                          q \in known[x], ~seen[x][q].silenced
                   PROVE  \/ ~entry'[q].silenced
                          \/ pc'[q] = "silencing" /\ Ahead(q, x)'
        BY <3>1 DEF NoStaleTalker
      <4>1. q # p
        BY <3>1, <3>4, <3>6, <3>9
      <4>2. x # p
        BY <3>1, <3>9, <4>1 DEF ViewInv, NewcomerSees, PreMember
      <4> QED
        BY <3>1, <3>2, <3>5, <3>9, <4>1, <4>2 DEF ViewInv, NoStaleTalker
    <3> QED
      BY <3>10, <3>11, <3>12, <3>13 DEF ViewInv
  <2>9. CASE ComputeMax(p)
    BY <2>9 DEF ComputeMax, PreMember, InRoom, NewEntry
  <2>10. CASE TellTarget(p)
    BY <2>10 DEF TellTarget, PreMember, InRoom, NewEntry
  <2>11. CASE TellNewTarget(p)
    BY <2>11 DEF TellNewTarget, PreMember, InRoom, NewEntry
  <2>12. CASE TellLeft(p)
    BY <2>12 DEF TellLeft, PeerLeft, PreMember, InRoom, NewEntry
  <2> QED
    BY <1>2, <2>1, <2>2, <2>3, <2>4, <2>5, <2>6, <2>7, <2>8, <2>9, <2>10, <2>11, <2>12 DEF Handle
<1>3. ASSUME NEW p \in Peer, Request(p)
      PROVE  ViewInv'
  <2>1. CASE JoinRoom(p) \/ Refuse(p)
    <3>1. PICK after \in {"joining", "gone"} :
            pc[p] = "accepted" /\ pc' = [pc EXCEPT ![p] = after]
      BY <2>1 DEF JoinRoom, Refuse
    <3>2. /\ UNCHANGED <<members, entry, cur, batch, known, seen>>
          /\ company' = company \/ company' = [company EXCEPT ![p] = members]
      BY <2>1 DEF JoinRoom, Refuse
    <3>4. \A q \in Peer \ {p} : company'[q] = company[q]
      BY <3>2
    <3>5. p \notin members
      BY <3>1 DEF InRoom
    <3>3. \A x, y \in Peer : Ahead(x, y)' <=> Ahead(x, y)
      BY <3>2
    <3> HIDE DEF Ahead
    <3> QED
      BY <3>1, <3>2, <3>3, <3>4, <3>5 DEF PreMember, NewEntry
  <2>2. ASSUME NEW c \in Channels, SetChannels(p, c)
        PROVE  ViewInv'
    BY <2>2 DEF SetChannels, Entry, PreMember, InRoom, NewEntry
  <2>3. ASSUME NEW s \in BOOLEAN, SetSilence(p, s)
        PROVE  ViewInv'
    BY <2>3 DEF SetSilence, Entry, PreMember, InRoom, NewEntry
  <2>4. ASSUME NEW o \in Peer, NEW rate \in Rates, ReportPeerLoss(p, o, rate)
        PROVE  ViewInv'
    <3>1. pc[p] = "serving"
      BY <2>4, ReportEffect
    <3>2. UNCHANGED <<members, entry, batch, known, seen, joinsTold, leftTold,
                     target, company>>
      BY <2>4, ReportEffect
    <3>3. CASE UNCHANGED <<loss, cur, at, pc>>
      BY <3>2, <3>3 DEF NewEntry
    <3>4. CASE /\ o \in members
               /\ loss' = [loss EXCEPT ![o][p] = rate]
               /\ cur' = [cur EXCEPT ![p] = ShardOf[o]]
               /\ at' = [at EXCEPT ![p] = o]
               /\ pc' = [pc EXCEPT ![p] = "reportMax"]
      BY <3>1, <3>2, <3>4 DEF PreMember, NewEntry
    <3> QED
      BY <2>4, <3>3, <3>4, ReportEffect
  <2>5. CASE Depart(p)
    BY <2>5 DEF Depart, PreMember, InRoom, NewEntry
  <2> QED
    BY <1>3, <2>1, <2>2, <2>3, <2>4, <2>5 DEF Request
<1> QED
  BY <1>1, <1>2, <1>3 DEF Next, AllGone

-----------------------------------------------------------------------------
(* Getting on.                                                             *)

\* A handler does not move the others.
LEMMA OthersStay ==
  ASSUME TypeOK, NEW p \in Peer, NEW q \in Peer, q # p, Handle(p) \/ Request(p)
  PROVE  /\ pc'[q] = pc[q] /\ settings'[q] = settings[q]
         /\ cur'[q] = cur[q] /\ batch'[q] = batch[q]
<1> USE DEF TypeOK, HandlerOK, BudgetOK, budget
<1>1. CASE Handle(p)
  BY <1>1 DEF Handle, NextShard, MeetPeer, TellSilence, TellChannels, ForgetReports, Visit, Introduce, AllMet, Insert, SilenceTold, ChannelsTold, ComputeMax, TellTarget, TellNewTarget, TellLeft, Farewell, LoopDone
<1>2. CASE JoinRoom(p) \/ Refuse(p) \/ Depart(p)
  BY <1>2 DEF JoinRoom, Refuse, Depart
<1>3. CASE \E s \in BOOLEAN : SetSilence(p, s)
  BY <1>3 DEF SetSilence
<1>4. CASE \E c \in Channels : SetChannels(p, c)
  BY <1>4 DEF SetChannels
<1>5. CASE \E o \in Peer, rate \in Rates : ReportPeerLoss(p, o, rate)
  BY <1>5 DEF ReportPeerLoss
<1> QED
  BY <1>1, <1>2, <1>3, <1>4, <1>5 DEF Request

\* What a busy handler does brings it nearer to the end of what it does.
LEMMA BusyAdvances ==
  ASSUME Base, NEW p \in Peer, Busy(p), Handle(p) \/ Request(p)
  PROVE  \/ ~Busy(p)' /\ cur'[p] = 0
         \/ Busy(p)' /\ Nearer(p)
<1> USE DEF Base, TypeOK, HandlerOK, Iterating, Inside, Reporting
<1>1. CASE NextShard(p)
  <2>1. cur[p] \in Nat /\ cur'[p] = cur[p] + 1 /\ pc' = pc
    BY <1>1, ShardAssumption DEF NextShard
  <2> QED
    BY <2>1 DEF Busy, Nearer
<1>2. ASSUME NEW o \in Peer,
             MeetPeer(p, o) \/ TellSilence(p, o) \/ TellChannels(p, o) \/ ForgetReports(p, o)
      PROVE  Busy(p)' /\ Nearer(p)
  <2>1. /\ cur' = cur /\ o \in batch[p] /\ batch' = [batch EXCEPT ![p] = @ \ {o}]
        /\ pc' = pc \/ pc' = [pc EXCEPT ![p] = "introducing"] \/ pc' = [pc EXCEPT ![p] = "leaveMax"]
    BY <1>2 DEF MeetPeer, TellSilence, TellChannels, ForgetReports, Visit
  <2>2. batch'[p] \subseteq batch[p] /\ batch'[p] # batch[p] /\ cur'[p] = cur[p]
    BY <2>1
  <2>3. Busy(p)'
    BY <2>1 DEF Busy
  <2> QED
    BY <2>2, <2>3 DEF Nearer
<1>3. CASE Introduce(p) \/ ComputeMax(p) \/ TellNewTarget(p) \/ TellLeft(p)
  <2>1. cur'[p] = cur[p] /\ batch'[p] = batch[p]
    BY <1>3 DEF Introduce, ComputeMax, TellNewTarget, TellLeft
  <2>2. <<pc[p], pc'[p]>> \in {<<"introducing", "joining">>, <<"reportMax", "reportTell">>,
          <<"leaveMax", "leaveTell">>, <<"leaveTell", "leaveBye">>, <<"leaveBye", "leaving">>}
    BY <1>3 DEF Introduce, ComputeMax, TellNewTarget, TellLeft
  <2>3. BodyLeft(p)' < BodyLeft(p)
    BY <2>2 DEF BodyLeft
  <2> QED
    BY <2>1, <2>2, <2>3 DEF Busy, Nearer
<1>4. CASE AllMet(p) \/ SilenceTold(p) \/ ChannelsTold(p) \/ Farewell(p) \/ TellTarget(p)
  <2>1. PICK after \in {"inserting", "serving", "gone"} :
          /\ pc' = [pc EXCEPT ![p] = after]
          /\ cur' = [cur EXCEPT ![p] = 0]
    BY <1>4 DEF AllMet, SilenceTold, ChannelsTold, Farewell, LoopDone, TellTarget
  <2>2. pc'[p] = after /\ cur'[p] = 0
    BY <2>1
  <2> QED
    BY <2>2 DEF Busy
<1>5. ~(Insert(p) \/ Request(p))
  BY DEF Insert, Request, JoinRoom, Refuse, SetChannels, SetSilence,
         ReportPeerLoss, Depart, Busy
<1> QED
  BY <1>1, <1>2, <1>3, <1>4, <1>5 DEF Handle

\* A handler that is busy is left alone, or gets on.
LEMMA AdvanceNext ==
  ASSUME Base, [Next]_vars, NEW p \in Peer, Busy(p)
  PROVE  \/ UNCHANGED <<pc[p], cur[p], batch[p]>>
         \/ ~Busy(p)' /\ cur'[p] = 0
         \/ Busy(p)' /\ Nearer(p)
<1>1. CASE UNCHANGED vars
  BY <1>1 DEF vars, handler
<1>2. ASSUME NEW q \in Peer, Handle(q) \/ Request(q)
      PROVE  \/ UNCHANGED <<pc[p], cur[p], batch[p]>>
             \/ ~Busy(p)' /\ cur'[p] = 0
             \/ Busy(p)' /\ Nearer(p)
  <2>1. CASE q = p
    BY <1>2, <2>1, BusyAdvances
  <2>2. CASE q # p
    <3>1. pc'[p] = pc[p] /\ cur'[p] = cur[p] /\ batch'[p] = batch[p]
      BY <1>2, <2>2, OthersStay DEF Base
    <3> QED
      BY <3>1
  <2> QED
    BY <2>1, <2>2
<1> QED
  BY <1>1, <1>2 DEF Next, AllGone

-----------------------------------------------------------------------------
(* The theorems.                                                           *)

Inv == Base /\ JoinInv /\ LossInv /\ CompanyInv /\ MeetInv /\ FarewellInv /\ ViewInv

\* The inductive invariant holds initially.
LEMMA InvInit == Init => Inv
<1> SUFFICES ASSUME Init
             PROVE  Inv
  OBVIOUS
<1>1. Base
  BY BaseInit
<1>2. JoinInv
  BY DEF Init, JoinInv, NeverOneWay
<1>3. LossInv
  BY DEF Init, LossInv, Leaving, NoDepartedReporter
<1>4. CompanyInv
  BY DEF Init, CompanyInv
<1>5. MeetInv /\ FarewellInv
  BY DEF Init, MeetInv, FarewellInv, Leaving, FarewellReachesAll
<1>6. ViewInv
  BY DEF Init, ViewInv, NewcomerSeen, NewcomerSees, CompanySees, NoStaleTalker
<1> QED
  BY <1>1, <1>2, <1>3, <1>4, <1>5, <1>6 DEF Inv

\* Every step preserves it.
LEMMA InvNext == Inv /\ [Next]_vars => Inv'
  BY TypeNext, LockNext, JoinNext, LossNext, CompanyNext, MeetNext,
     FarewellNext, ViewNext
  DEF Inv, Base

\* Every state of the room satisfies the inductive invariant, for every set
\* of peers, every assignment of ids to shards and every budget of messages.
THEOREM Invariant == Spec => []Inv
  BY InvInit, InvNext, PTL DEF Spec

\* The type invariant.
THEOREM TypeCorrect == Spec => []TypeOK
<1>1. Inv => TypeOK
  BY DEF Inv, Base
<1> QED
  BY Invariant, <1>1, PTL

\* Nobody is told twice that a peer joined or left, however joins and leaves
\* interleave.
THEOREM ToldAtMostOnce == Spec => []ToldOnce
<1>1. Inv => ToldOnce
  <2> SUFFICES ASSUME Inv, NEW p \in Peer, NEW q \in Peer
               PROVE  joinsTold[p][q] <= 1 /\ leftTold[p][q] <= 1
    BY DEF ToldOnce
  <2>1. joinsTold[p][q] \in {0, 1}
    BY DEF Inv, JoinInv
  <2>2. leftTold[p][q] \in {0, 1}
    BY DEF Inv, FarewellInv
  <2> QED
    BY <2>1, <2>2
<1> QED
  BY Invariant, <1>1, PTL

\* Introductions go both ways, and a join loop misses nobody who stays while it
\* runs: at its end nobody is ahead of it, or being met.
THEOREM IntroductionsMutual == Spec => []IntroducedBothWays
<1>1. Inv => StayersIntroduced
  BY DEF Inv, MeetInv, StayersIntroduced
<1>2. Inv => IntroducedBothWays
  BY <1>1 DEF Inv, JoinInv, IntroducedBothWays
<1> QED
  BY Invariant, <1>2, PTL

\* No handler is taken back in its loop, or given more to visit in a shard it
\* has locked: the others cannot make it hold a lock for ever.
THEOREM LoopsEnd == Spec => LoopsAdvance
<1>1. Inv /\ [Next]_vars =>
        [\A p \in Peer : Busy(p) =>
           \/ UNCHANGED <<pc[p], cur[p], batch[p]>>
           \/ ~Busy(p)' /\ cur'[p] = 0
           \/ Busy(p)' /\ Nearer(p)]_vars
  BY AdvanceNext DEF Inv
<1> QED
  BY Invariant, <1>1, PTL DEF Spec, LoopsAdvance

\* The reports of a departed listener leave every member's loss map.
THEOREM DepartedReportersForgotten == Spec => []NoDepartedReporter
<1>1. Inv => NoDepartedReporter
  BY DEF Inv, LossInv
<1> QED
  BY Invariant, <1>1, PTL

\* A departure is announced to everyone who was in the room and still is.
THEOREM FarewellComplete == Spec => []FarewellReachesAll
<1>1. Inv => FarewellReachesAll
  BY DEF Inv, FarewellInv
<1> QED
  BY Invariant, <1>1, PTL

\* Whoever was there first sees a peer as the relay does.
THEOREM IncumbentsExact == Spec => []IncumbentExact
<1>1. Inv => IncumbentExact
  <2> SUFFICES ASSUME Inv
               PROVE  IncumbentExact
    OBVIOUS
  <2>1. CompanySees
    BY DEF Inv, ViewInv
  <2> QED
    BY <2>1 DEF CompanySees, IncumbentExact
<1> QED
  BY Invariant, <1>1, PTL

\* Nobody is shown as talking who told the relay that it is silent.
THEOREM TalkersTalk == Spec => []NoStaleTalker
<1>1. Inv => NoStaleTalker
  BY DEF Inv, ViewInv
<1> QED
  BY Invariant, <1>1, PTL

\* A client that was told of a departure is never told of the arrival.
THEOREM NoRejoinAfterLeave == Spec => NoRejoin
<1>1. Inv /\ [Next]_vars =>
        [\A p, q \in Peer :
           joinsTold'[p][q] # joinsTold[p][q] => leftTold[p][q] = 0]_vars
  <2> SUFFICES ASSUME Inv, Next, NEW x \in Peer, NEW y \in Peer,
                      joinsTold'[x][y] # joinsTold[x][y]
               PROVE  leftTold[x][y] = 0
    OBVIOUS
  <2>1. PICK p \in Peer : \/ Introduce(p)
                          \/ \E o \in Peer : MeetPeer(p, o)
    BY DEF Next, Handle, Request, AllGone, vars, told, NextShard, TellSilence,
           TellChannels, ForgetReports, AllMet, Insert, SilenceTold,
           ChannelsTold, ComputeMax, TellTarget, TellNewTarget, TellLeft,
           Farewell, LoopDone, JoinRoom, Refuse, SetChannels, SetSilence,
           ReportPeerLoss, Depart
  <2>2. CASE Introduce(p)
    <3>1. y = p
      BY <2>2 DEF Inv, Base, TypeOK, ToldOK, Introduce, PeerJoined
    <3> QED
      BY <2>2, <3>1 DEF Inv, FarewellInv, Introduce, Leaving
  <2>3. CASE \E o \in Peer : MeetPeer(p, o)
    <3>0. PICK o \in Peer : MeetPeer(p, o)
      BY <2>3
    <3>1. x = p /\ y = o
      BY <3>0 DEF Inv, Base, TypeOK, ToldOK, MeetPeer, PeerJoined
    <3>2. y \in members
      BY <3>0, <3>1 DEF Inv, Base, LockInv, MeetPeer, Visit
    <3>3. pc[y] \in InRoom
      BY <3>2 DEF Inv, Base, LockInv
    <3> QED
      BY <3>3 DEF Inv, FarewellInv, InRoom, Leaving
  <2> QED
    BY <2>1, <2>2, <2>3
<1> QED
  BY Invariant, <1>1, PTL DEF Spec, NoRejoin

-----------------------------------------------------------------------------
(* RelayRoom implements PeerFeed.                                          *)

\* A client has entries only for peers it was told of.
KnownTold == \A p, q \in Peer : q \in known[p] => joinsTold[p][q] = 1

\* Only five steps say anything about a peer to a client.
LEMMA Tellers ==
  ASSUME Next
  PROVE  \/ \E p \in Peer : \/ Introduce(p)
                            \/ TellLeft(p)
                            \/ \E o \in Peer : \/ MeetPeer(p, o)
                                               \/ TellSilence(p, o)
                                               \/ TellChannels(p, o)
         \/ UNCHANGED <<known, seen, joinsTold, leftTold>>
  BY DEF Next, Handle, Request, AllGone, vars, told, NextShard, ForgetReports,
         AllMet, Insert, SilenceTold, ChannelsTold, ComputeMax, TellTarget,
         TellNewTarget, Farewell, LoopDone, JoinRoom, Refuse, SetChannels,
         SetSilence, ReportPeerLoss, Depart

\* Whom an introduction concerns: two peers new to each other.
LEMMA IntroducesNew ==
  ASSUME Inv, NEW p \in Peer
  PROVE  /\ Introduce(p) => /\ at[p] \in Peer /\ at[p] # p
                            /\ joinsTold[at[p]][p] = 0 /\ leftTold[at[p]][p] = 0
         /\ \A o \in Peer : MeetPeer(p, o) =>
              o # p /\ joinsTold[p][o] = 0 /\ leftTold[p][o] = 0
<1>1. ASSUME Introduce(p)
      PROVE  /\ at[p] \in Peer /\ at[p] # p
             /\ joinsTold[at[p]][p] = 0 /\ leftTold[at[p]][p] = 0
  <2>1. pc[p] = "introducing"
    BY <1>1 DEF Introduce
  <2>2. at[p] \in members /\ at[p] \in Peer
    BY <2>1 DEF Inv, Base, LockInv, Inside, TypeOK, RoomOK
  <2>3. at[p] # p
    BY <2>1, <2>2 DEF Inv, Base, LockInv, InRoom
  <2>4. joinsTold[at[p]][p] = 0
    BY <2>1 DEF Inv, JoinInv
  <2>5. leftTold[at[p]][p] = 0
    BY <2>1, <2>2 DEF Inv, FarewellInv, Leaving
  <2> QED
    BY <2>2, <2>3, <2>4, <2>5
<1>2. ASSUME NEW o \in Peer, MeetPeer(p, o)
      PROVE  o # p /\ joinsTold[p][o] = 0 /\ leftTold[p][o] = 0
  <2>1. pc[p] = "joining" /\ o \in batch[p]
    BY <1>2 DEF MeetPeer, Visit
  <2>2. o \in members
    BY <2>1 DEF Inv, Base, LockInv
  <2>3. pc[o] \in InRoom
    BY <2>2 DEF Inv, Base, LockInv
  <2>4. joinsTold[p][o] = 0
    BY <2>1 DEF Inv, JoinInv, Ahead
  <2>5. leftTold[p][o] = 0
    BY <2>3 DEF Inv, FarewellInv, InRoom, Leaving
  <2> QED
    BY <2>1, <2>3, <2>4, <2>5 DEF InRoom
<1> QED
  BY <1>1, <1>2

\* A client never has an entry of its own accord.
LEMMA KnownToldNext == Inv /\ KnownTold /\ [Next]_vars => KnownTold'
<1> SUFFICES ASSUME Inv, KnownTold, [Next]_vars
             PROVE  KnownTold'
  OBVIOUS
<1>0. /\ known \in [Peer -> SUBSET Peer]
      /\ joinsTold \in [Peer -> [Peer -> Nat]]
  BY DEF Inv, Base, TypeOK, ToldOK
<1>1. CASE UNCHANGED <<known, joinsTold>>
  BY <1>1 DEF KnownTold
<1>2. ASSUME NEW p \in Peer, Introduce(p)
      PROVE  KnownTold'
  <2>1. at[p] \in Peer /\ joinsTold[at[p]][p] = 0
    BY <1>2, IntroducesNew
  <2>2. /\ known' = [known EXCEPT ![at[p]] = @ \cup {p}]
        /\ joinsTold' = [joinsTold EXCEPT ![at[p]][p] = @ + 1]
    BY <1>2 DEF Introduce, PeerJoined
  <2> QED
    BY <1>0, <2>1, <2>2 DEF KnownTold
<1>3. ASSUME NEW p \in Peer, NEW o \in Peer, MeetPeer(p, o)
      PROVE  KnownTold'
  <2>1. joinsTold[p][o] = 0
    BY <1>3, IntroducesNew
  <2>2. /\ known' = [known EXCEPT ![p] = @ \cup {o}]
        /\ joinsTold' = [joinsTold EXCEPT ![p][o] = @ + 1]
    BY <1>3 DEF MeetPeer, PeerJoined
  <2> QED
    BY <1>0, <2>1, <2>2 DEF KnownTold
<1>4. ASSUME NEW p \in Peer, TellLeft(p)
      PROVE  KnownTold'
  BY <1>0, <1>4 DEF TellLeft, PeerLeft, KnownTold
<1>5. CASE Next
  BY <1>1, <1>2, <1>3, <1>4, <1>5, Tellers DEF TellSilence, TellChannels
<1> QED
  BY <1>1, <1>5 DEF vars, told

\* Each thing a handler tells a client is a step of the abstract feed.
LEMMA FeedNext ==
  Inv /\ KnownTold /\ [Next]_vars
    => [Feed!Next]_<<known, [p \in Peer |-> {q \in Peer : leftTold[p][q] > 0}], seen>>
<1> DEFINE past == [p \in Peer |-> {q \in Peer : leftTold[p][q] > 0}]
<1> SUFFICES ASSUME Inv, KnownTold, [Next]_vars
             PROVE  Feed!Next \/ UNCHANGED <<known, past, seen>>
  OBVIOUS
<1>0. /\ known \in [Peer -> SUBSET Peer]
      /\ joinsTold \in [Peer -> [Peer -> Nat]]
      /\ leftTold \in [Peer -> [Peer -> Nat]]
      /\ entry \in [Peer -> Entry]
  BY DEF Inv, Base, TypeOK, ToldOK, RoomOK
<1>1. CASE UNCHANGED <<known, seen, leftTold>>
  BY <1>1
<1>2. ASSUME NEW p \in Peer, Introduce(p)
      PROVE  Feed!Next
  <2>1. /\ at[p] \in Peer /\ at[p] # p /\ p \notin known[at[p]]
        /\ leftTold[at[p]][p] = 0
    BY <1>2, IntroducesNew DEF KnownTold
  <2>2. JoinChannels[p] \in Channels
    BY ChannelAssumption
  <2>3. Feed!Introduce(at[p], p)
    <3>1. UNCHANGED past
      BY <1>2 DEF Introduce
    <3>2. p \notin past[at[p]]
      BY <1>0, <2>1
    <3> QED
      BY <1>2, <2>1, <2>2, <3>1, <3>2 DEF Introduce, PeerJoined, Feed!Introduce
  <2> QED
    BY <2>1, <2>3 DEF Feed!Next
<1>3. ASSUME NEW p \in Peer, NEW o \in Peer, MeetPeer(p, o)
      PROVE  Feed!Next
  <2>1. o # p /\ o \notin known[p] /\ leftTold[p][o] = 0
    BY <1>3, IntroducesNew DEF KnownTold
  <2>2. entry[o].channels \in Channels
    BY <1>0 DEF Entry
  <2>3. Feed!Introduce(p, o)
    <3>1. UNCHANGED past
      BY <1>3 DEF MeetPeer
    <3>2. o \notin past[p]
      BY <1>0, <2>1
    <3> QED
      BY <1>3, <2>1, <2>2, <3>1, <3>2 DEF MeetPeer, PeerJoined, Feed!Introduce
  <2> QED
    BY <2>3 DEF Feed!Next
<1>4. ASSUME NEW p \in Peer, NEW o \in Peer, TellSilence(p, o)
      PROVE  Feed!Next \/ UNCHANGED <<known, past, seen>>
  <2>1. CASE o # p /\ p \in known[o]
    <3>1. leftTold[o][p] = 0
      BY <1>4 DEF TellSilence, Inv, FarewellInv, Leaving
    <3>2. entry[p].silenced \in BOOLEAN
      BY <1>0 DEF Entry
    <3>3. Feed!Update(o, p)
      BY <1>4, <2>1, <3>1, <3>2 DEF TellSilence, PeerSilence, Feed!Update
    <3> QED
      BY <3>3 DEF Feed!Next
  <2>2. CASE ~(o # p /\ p \in known[o])
    BY <1>4, <2>2 DEF TellSilence, PeerSilence
  <2> QED
    BY <2>1, <2>2
<1>5. ASSUME NEW p \in Peer, NEW o \in Peer, TellChannels(p, o)
      PROVE  Feed!Next \/ UNCHANGED <<known, past, seen>>
  <2>1. CASE o # p /\ p \in known[o]
    <3>1. leftTold[o][p] = 0
      BY <1>5 DEF TellChannels, Inv, FarewellInv, Leaving
    <3>2. entry[p].channels \in Channels
      BY <1>0 DEF Entry
    <3>3. Feed!Update(o, p)
      BY <1>5, <2>1, <3>1, <3>2 DEF TellChannels, PeerChannels, Feed!Update
    <3> QED
      BY <3>3 DEF Feed!Next
  <2>2. CASE ~(o # p /\ p \in known[o])
    BY <1>5, <2>2 DEF TellChannels, PeerChannels
  <2> QED
    BY <2>1, <2>2
<1>6. ASSUME NEW p \in Peer, TellLeft(p)
      PROVE  Feed!Next
  <2>1. pc[p] = "leaveBye"
    BY <1>6 DEF TellLeft
  <2>2. at[p] \in members /\ at[p] \in Peer
    BY <2>1 DEF Inv, Base, LockInv, Inside, TypeOK, RoomOK
  <2>3. at[p] # p
    BY <2>1, <2>2 DEF Inv, Base, LockInv, InRoom
  <2>4. leftTold[at[p]][p] = 0
    BY <2>1 DEF Inv, FarewellInv, Leaving
  <2>5. past' = [past EXCEPT ![at[p]] = @ \cup {p}]
    <3>1. leftTold' = [leftTold EXCEPT ![at[p]][p] = 1]
      BY <1>0, <1>6, <2>2, <2>4 DEF TellLeft, PeerLeft
    <3>2. ASSUME NEW x \in Peer
          PROVE  past'[x] = IF x = at[p] THEN past[x] \cup {p} ELSE past[x]
      BY <1>0, <2>2, <3>1
    <3>3. /\ past  = [x \in Peer |-> past[x]]
          /\ past' = [x \in Peer |-> past'[x]]
      OBVIOUS
    <3> HIDE DEF past
    <3> QED
      BY <2>2, <3>2, <3>3
  <2>6. PICK x \in Peer : x = at[p]
    BY <2>2
  <2>7. Feed!Dismiss(x, p)
    BY <1>0, <1>6, <2>3, <2>4, <2>5, <2>6 DEF TellLeft, PeerLeft, Feed!Dismiss
  <2> QED
    BY <2>7 DEF Feed!Next
<1>7. CASE Next
  BY <1>1, <1>2, <1>3, <1>4, <1>5, <1>6, <1>7, Tellers
<1> QED
  BY <1>1, <1>7 DEF vars, told

\* The relay's handlers, together, keep the abstract promise to every client:
\* introduced once, updated while known, dismissed once and for good.
THEOREM RoomFeedsPeers == Spec => PeersFed
<1>1. Init => KnownTold /\ Feed!Init
  <2> SUFFICES ASSUME Init
               PROVE  KnownTold /\ Feed!Init
    OBVIOUS
  <2>1. KnownTold
    BY DEF Init, KnownTold
  <2>2. [p \in Peer |-> {q \in Peer : leftTold[p][q] > 0}] = [p \in Peer |-> {}]
    BY DEF Init
  <2>3. seen \in [Peer -> [Peer -> Entry]]
    BY BaseInit DEF Base, TypeOK, ToldOK
  <2>4. Feed!Entry = Entry
    BY DEF Entry, Feed!Entry
  <2>5. known = [p \in Peer |-> {}]
    BY DEF Init
  <2> QED
    BY <2>1, <2>2, <2>3, <2>4, <2>5 DEF Feed!Init
<1> QED
  BY <1>1, Invariant, KnownToldNext, FeedNext, PTL
  DEF Spec, PeersFed, Feed!Spec
=============================================================================
