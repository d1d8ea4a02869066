------------------------ MODULE RelayRuntime_proofs ------------------------
(* Theorems about RelayRuntime for any number of threads and connections:   *)
(* the threads implement the room, and enough of them cannot run out.       *)
EXTENDS RelayRuntime, RelayRoom_proofs, FiniteSetTheorems

\* A thread is parked in a call that its handler is about to make.
ParkedDue == \A p \in Parked : Due(p, parked[p])

RuntimeInv == RuntimeTypeOK /\ ParkedDue

\* A call of a handler is a step of the room.
LEMMA MakeIsStep ==
  ASSUME NEW p \in Peer, NEW call \in Call, Make(p, call)
  PROVE  Next
<1>1. CASE call = "enter"
  BY <1>1 DEF Make, Next, Request
<1>2. CASE call = "insert"
  BY <1>2 DEF Make, Next, Handle
<1>3. CASE call = "silence"
  BY <1>3 DEF Make, Next, Request
<1>4. CASE call = "rechannel"
  BY <1>4 DEF Make, Next, Request
<1>5. CASE call = "remove"
  BY <1>5 DEF Make, Next, Request
<1> QED
  BY <1>1, <1>2, <1>3, <1>4, <1>5 DEF Call

\* Every step of the runtime is a step of the room, or leaves it alone.
LEMMA StepSimulation ==
  ASSUME RuntimeTypeOK, [RuntimeNext]_<<vars, runtime>>
  PROVE  [Next]_vars
<1>1. ASSUME NEW p \in Peer, Poll(p, Read(p))
      PROVE  Next
  BY <1>1 DEF Poll, Read, Next, Handle
<1>2. ASSUME NEW p \in Peer, Poll(p, Ask(p))
      PROVE  Next
  BY <1>2 DEF Poll, Ask, Next, Request
<1>3. ASSUME NEW p \in Peer, NEW call \in Call, Write(p, call)
      PROVE  Next
  BY <1>3, MakeIsStep DEF Write
<1>4. ASSUME NEW p \in Peer, Unpark(p)
      PROVE  Next
  <2>1. PICK call \in Call : call = parked[p]
    BY <1>4 DEF Unpark, RuntimeTypeOK
  <2> QED
    BY <1>4, <2>1, MakeIsStep DEF Unpark
<1>5. ASSUME NEW p \in Peer, NEW call \in Call, Park(p, call)
      PROVE  UNCHANGED vars
  BY <1>5 DEF Park
<1>6. CASE Ping
  BY <1>6 DEF Ping, PingRound, PingNext
<1>7. CASE AllGone
  BY <1>7 DEF Next
<1>8. CASE UNCHANGED <<vars, runtime>>
  BY <1>8
<1> QED
  BY <1>1, <1>2, <1>3, <1>4, <1>5, <1>6, <1>7, <1>8 DEF RuntimeNext

\* The new variables keep their types.
LEMMA RuntimeTypeNext ==
  RuntimeTypeOK /\ [RuntimeNext]_<<vars, runtime>> /\ TypeOK' => RuntimeTypeOK'
<1> SUFFICES ASSUME RuntimeTypeOK, [RuntimeNext]_<<vars, runtime>>, TypeOK'
             PROVE  parked' \in [Peer -> Call \cup {"none"}] /\ pingShard' \in 0..NShards
  BY DEF RuntimeTypeOK
<1> USE ShardAssumption DEF RuntimeTypeOK
<1>1. CASE UNCHANGED runtime
  BY <1>1 DEF runtime
<1>2. ASSUME NEW p \in Peer, NEW call \in Call, Park(p, call)
      PROVE  /\ parked' \in [Peer -> Call \cup {"none"}]
             /\ pingShard' \in 0..NShards
  BY <1>2 DEF Park
<1>3. ASSUME NEW p \in Peer, Unpark(p)
      PROVE  /\ parked' \in [Peer -> Call \cup {"none"}]
             /\ pingShard' \in 0..NShards
  BY <1>3 DEF Unpark
<1>4. CASE PingRound
  <2>1. PICK q \in members : q \in Peer
    BY <1>4 DEF PingRound, TypeOK, RoomOK
  <2>2. ShardOf[q] \in 1..NShards
    BY <2>1
  <2> QED
    BY <1>4, <2>2 DEF PingRound
<1>5. CASE PingNext
  BY <1>5 DEF PingNext
<1> QED
  BY <1>1, <1>2, <1>3, <1>4, <1>5 DEF RuntimeNext, Ping, Poll, Write

\* The threads implement the room: what RelayRoom's theorems say of every
\* behaviour of the handlers holds of the handlers on their threads.
THEOREM RuntimeImplementsRoom == RuntimeSpec => Spec
<1>1. RuntimeInit => Init /\ RuntimeTypeOK
  BY BaseInit, ShardAssumption DEF RuntimeInit, RuntimeTypeOK, Base
<1>2. RuntimeTypeOK /\ [RuntimeNext]_<<vars, runtime>> /\ TypeOK' => RuntimeTypeOK'
  BY RuntimeTypeNext
<1>4. RuntimeTypeOK /\ [RuntimeNext]_<<vars, runtime>> => [Next]_vars
  BY StepSimulation
<1>6. Inv => TypeOK
  BY DEF Inv, Base
<1> QED
  BY <1>1, <1>2, <1>4, <1>6, InvInit, InvNext, PTL DEF RuntimeSpec, Spec

\* So the room is safe on the threads, however few they are: reports end with
\* the reporter, introductions and farewells reach whom they concern, once, and
\* the others see a peer as its entry is.
THEOREM RoomSafeOnThreads ==
  RuntimeSpec =>
    [](NoDepartedReporter /\ ToldOnce /\ IntroducedBothWays
       /\ FarewellReachesAll /\ IncumbentExact /\ NoStaleTalker)
  BY RuntimeImplementsRoom, DepartedReportersForgotten, ToldAtMostOnce,
     IntroductionsMutual, FarewellComplete, IncumbentsExact, TalkersTalk, PTL

\* And every client is fed as PeerFeed promises it, nobody coming back.
THEOREM ThreadsFeedPeers == RuntimeSpec => PeersFed /\ NoRejoin
  BY RuntimeImplementsRoom, RoomFeedsPeers, NoRejoinAfterLeave, PTL

-----------------------------------------------------------------------------
(* The parked threads.                                                     *)

\* What a call finds of its handler when it is due.
LEMMA DueState ==
  ASSUME NEW p \in Peer, NEW call \in Call
  PROVE  Due(p, call) => pc[p] \in {"accepted", "inserting", "serving"}
<1>1. CASE call = "enter"
  BY <1>1 DEF Due
<1>2. CASE call = "insert"
  BY <1>2 DEF Due
<1>3. CASE call = "silence"
  BY <1>3 DEF Due
<1>4. CASE call = "rechannel"
  BY <1>4 DEF Due
<1>5. CASE call = "remove"
  BY <1>5 DEF Due
<1> QED
  BY <1>1, <1>2, <1>3, <1>4, <1>5 DEF Call

\* A call is a step of its handler.
LEMMA MakeIsHandlers ==
  ASSUME NEW p \in Peer, NEW call \in Call, Make(p, call)
  PROVE  Handle(p) \/ Request(p)
<1>1. CASE call = "insert"
  BY <1>1 DEF Make, Handle
<1>2. CASE call = "enter"
  BY <1>2 DEF Make, Request
<1>3. CASE call = "silence"
  BY <1>3 DEF Make, Request
<1>4. CASE call = "rechannel"
  BY <1>4 DEF Make, Request
<1>5. CASE call = "remove"
  BY <1>5 DEF Make, Request
<1> QED
  BY <1>1, <1>2, <1>3, <1>4, <1>5 DEF Call

\* What is due stays due while the handler itself does nothing.
LEMMA DueStays ==
  ASSUME NEW q \in Peer, NEW call \in Call, Due(q, call),
         pc'[q] = pc[q], settings'[q] = settings[q]
  PROVE  Due(q, call)'
<1>1. CASE call = "enter"
  BY <1>1 DEF Due
<1>2. CASE call = "insert"
  BY <1>2 DEF Due
<1>3. CASE call = "silence"
  BY <1>3 DEF Due
<1>4. CASE call = "rechannel"
  BY <1>4 DEF Due
<1>5. CASE call = "remove"
  BY <1>5 DEF Due
<1> QED
  BY <1>1, <1>2, <1>3, <1>4, <1>5 DEF Call

\* A parked call stays due until it is made.
LEMMA ParkedDueNext ==
  RuntimeTypeOK /\ ParkedDue /\ [RuntimeNext]_<<vars, runtime>> => ParkedDue'
<1> SUFFICES ASSUME RuntimeTypeOK, ParkedDue, [RuntimeNext]_<<vars, runtime>>,
                    NEW q \in Peer, parked'[q] # "none"
             PROVE  Due(q, parked[q])'
  BY DEF ParkedDue, Parked
<1> DEFINE Same == parked'[q] = parked[q] /\ pc'[q] = pc[q] /\ settings'[q] = settings[q]
<1>1. ASSUME Same
      PROVE  Due(q, parked[q])'
  <2>1. PICK call \in Call : call = parked[q] /\ call = parked'[q]
    BY <1>1 DEF RuntimeTypeOK
  <2>2. Due(q, call)
    BY <1>1, <2>1 DEF ParkedDue, Parked
  <2>3. Due(q, call)'
    BY <1>1, <2>2, DueStays
  <2> QED
    BY <2>1, <2>3 DEF Due
<1>2. ASSUME NEW p \in Peer, parked[p] = "none", UNCHANGED parked,
             Handle(p) \/ Request(p)
      PROVE  Same
  <2>1. q # p
    BY <1>2
  <2> QED
    BY <1>2, <2>1, OthersStay DEF RuntimeTypeOK
<1>3. ASSUME NEW p \in Peer, Poll(p, Read(p)) \/ Poll(p, Ask(p))
      PROVE  Same
  BY <1>2, <1>3 DEF Poll, Read, Ask, Handle, Request, runtime
<1>4. ASSUME NEW p \in Peer, NEW call \in Call, Write(p, call)
      PROVE  Same
  BY <1>2, <1>4, MakeIsHandlers DEF Write, runtime
<1>5. ASSUME NEW p \in Peer, NEW call \in Call, Park(p, call)
      PROVE  Due(q, parked[q])'
  <2>1. CASE q # p
    BY <1>1, <1>5, <2>1 DEF Park, RuntimeTypeOK, vars, handler, budget
  <2>2. CASE q = p
    <3>1. parked'[q] = call /\ pc' = pc /\ settings' = settings /\ Due(q, call)
      BY <1>5, <2>2 DEF Park, RuntimeTypeOK, vars, handler, budget
    <3>2. Due(q, call)'
      BY <3>1, DueStays
    <3> QED
      BY <3>1, <3>2 DEF Due
  <2> QED
    BY <2>1, <2>2
<1>6. ASSUME NEW p \in Peer, Unpark(p)
      PROVE  Same
  <2>1. q # p /\ parked'[q] = parked[q]
    BY <1>6 DEF Unpark, RuntimeTypeOK
  <2>2. PICK call \in Call : call = parked[p]
    BY <1>6 DEF Unpark, RuntimeTypeOK
  <2>3. Handle(p) \/ Request(p)
    BY <1>6, <2>2, MakeIsHandlers DEF Unpark
  <2> QED
    BY <2>1, <2>3, OthersStay DEF RuntimeTypeOK
<1>7. CASE Ping
  <2>1. UNCHANGED vars /\ UNCHANGED parked
    BY <1>7 DEF Ping, PingRound, PingNext
  <2> QED
    BY <1>1, <2>1 DEF vars, handler, budget
<1>8. CASE UNCHANGED <<vars, runtime>> \/ (AllGone /\ UNCHANGED runtime)
  <2>1. UNCHANGED vars /\ UNCHANGED parked
    BY <1>8 DEF AllGone, runtime
  <2> QED
    BY <1>1, <2>1 DEF vars, handler, budget
<1> QED
  BY <1>1, <1>3, <1>4, <1>5, <1>6, <1>7, <1>8 DEF RuntimeNext

\* The invariants of the room, the types, and the parked calls.
LEMMA RuntimeInvariant == RuntimeSpec => [](RuntimeInv /\ Inv)
<1>1. RuntimeInit => RuntimeInv /\ Inv
  BY InvInit, BaseInit, ShardAssumption
  DEF RuntimeInit, RuntimeInv, RuntimeTypeOK, Base, ParkedDue, Parked
<1>2. RuntimeInv /\ Inv /\ [RuntimeNext]_<<vars, runtime>> => (RuntimeInv /\ Inv)'
  <2> SUFFICES ASSUME RuntimeInv, Inv, [RuntimeNext]_<<vars, runtime>>
               PROVE  RuntimeInv' /\ Inv'
    OBVIOUS
  <2>1. [Next]_vars
    BY StepSimulation DEF RuntimeInv
  <2>2. Inv'
    BY <2>1, InvNext
  <2>3. TypeOK'
    BY <2>2 DEF Inv, Base
  <2>4. RuntimeTypeOK'
    BY <2>3, RuntimeTypeNext DEF RuntimeInv
  <2>5. ParkedDue'
    BY ParkedDueNext DEF RuntimeInv
  <2> QED
    BY <2>2, <2>4, <2>5 DEF RuntimeInv
<1> QED
  BY <1>1, <1>2, PTL DEF RuntimeSpec

\* The type invariant.
THEOREM RuntimeTypeCorrect == RuntimeSpec => []RuntimeTypeOK
<1>1. RuntimeInv => RuntimeTypeOK
  BY DEF RuntimeInv
<1> QED
  BY RuntimeInvariant, <1>1, PTL

\* A handler whose thread is parked holds no lock.
LEMMA ParkedIdle == RuntimeInv /\ Inv => ParkedHoldNothing
<1> SUFFICES ASSUME RuntimeInv, Inv, NEW p \in Parked
             PROVE  cur[p] = 0 /\ batch[p] = {}
  BY DEF ParkedHoldNothing
<1>1. p \in Peer /\ parked[p] \in Call
  BY DEF Parked, RuntimeInv, RuntimeTypeOK
<1>2. Due(p, parked[p])
  BY DEF RuntimeInv, ParkedDue
<1>3. pc[p] \in {"accepted", "inserting", "serving"}
  BY <1>1, <1>2, DueState
<1>4. cur[p] = 0
  BY <1>1, <1>3 DEF Inv, Base, LockInv
<1>5. \A o \in batch[p] : ShardOf[o] = 0 /\ o \in Peer
  BY <1>1, <1>4 DEF Inv, Base, LockInv, TypeOK, RoomOK
<1>6. batch[p] = {}
  BY <1>5, ShardAssumption
<1> QED
  BY <1>4, <1>6

\* Handlers never wait for each other in a circle, on any number of threads.
THEOREM NoCircularWait == RuntimeSpec => []ParkedHoldNothing
  BY RuntimeInvariant, ParkedIdle, PTL

\* With a thread more than the room has connections, a call that waits can
\* always be served: no standstill, whatever the ping task holds.
THEOREM EnoughThreads ==
  ASSUME IsFiniteSet(Peer), Cardinality(Peer) < Workers
  PROVE  RuntimeSpec => []NoStandstill
<1>1. ParkedHoldNothing => NoStandstill
  <2>1. Parked \subseteq Peer
    BY DEF Parked
  <2>2. Cardinality(Parked) <= Cardinality(Peer) /\ Cardinality(Parked) \in Nat
        /\ Cardinality(Peer) \in Nat
    BY <2>1, FS_Subset, FS_CardinalityType
  <2>3. FreeWorker
    BY <2>2, WorkersAssumption DEF FreeWorker
  <2> SUFFICES ASSUME ParkedHoldNothing, NEW p \in Parked,
                      ~LockFree(p, parked[p]), pingShard = 0
               PROVE  \E h \in Peer \ Parked : cur[h] = ShardOf[p]
    BY <2>3 DEF NoStandstill
  <2>4. PICK h \in Peer : cur[h] = ShardOf[p]
    BY ShardAssumption, <2>1 DEF LockFree, Writable
  <2>5. ShardOf[p] # 0
    BY ShardAssumption, <2>1
  <2> QED
    BY <2>4, <2>5 DEF ParkedHoldNothing
<1> QED
  BY NoCircularWait, <1>1, PTL

=============================================================================
