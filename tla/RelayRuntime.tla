---------------------------- MODULE RelayRuntime ----------------------------
(***************************************************************************)
(* The room of RelayRoom on the threads it runs on, next to the task that  *)
(* broadcasts pings (libs/proxa-relay-server/src/lib.rs, 110-142).         *)
(*                                                                         *)
(* The handlers and the ping task are tokio tasks: one that waits at an    *)
(* await occupies no thread, and every worker thread may run it when it    *)
(* can go on.  A DashMap lock is not awaited.  A handler that calls        *)
(* entry, insert, get_mut or remove while somebody reads the shard parks   *)
(* the worker thread it runs on, until the shard is free.  The readers are *)
(* loops that wait at an await with the shard locked, so they need a       *)
(* worker thread to go on and to free it.                                  *)
(*                                                                         *)
(* The model superposes the threads on RelayRoom: every step is a step of  *)
(* a handler there, or leaves the room alone.                              *)
(***************************************************************************)
EXTENDS RelayRoom, FiniteSets

CONSTANT Workers   \* worker threads of the runtime: one for each core

ASSUME WorkersAssumption == Workers \in Nat \ {0}

VARIABLES
  parked,     \* the call that has parked the thread p's handler runs on
  pingShard   \* shard of Room::peers the ping task has locked; 0 in its sleep

runtime == <<parked, pingShard>>

\* The calls that lock a shard for writing, by what they are for.
Call == {"enter", "insert", "silence", "rechannel", "remove"}

RuntimeTypeOK ==
  /\ TypeOK
  /\ parked \in [Peer -> Call \cup {"none"}]
  /\ pingShard \in 0..NShards

RuntimeInit ==
  /\ Init
  /\ parked = [p \in Peer |-> "none"]
  /\ pingShard = 0

Parked == {p \in Peer : parked[p] # "none"}

\* Mistake (NoStandstill): a loop of the program keeps a worker.
FreeWorkerButOne == Cardinality(Parked) < Workers - 1

\* A task that can go on finds a thread to run on.
FreeWorker == Cardinality(Parked) < Workers

-----------------------------------------------------------------------------
(* Calls that write.                                                       *)

\* Mistake (ParkedHoldNothing, ParkedGetsLock): the newcomer is inserted
\* inside its loop, with the shard of the peer it meets still locked.
DueInsideLoop(p, call) ==
  CASE call = "enter"     -> pc[p] = "accepted"
    [] call = "insert"    -> pc[p] \in {"introducing", "inserting"}
    [] call = "silence"   -> pc[p] = "serving" /\ settings[p] > 0
    [] call = "rechannel" -> pc[p] = "serving" /\ settings[p] > 0
    [] call = "remove"    -> pc[p] = "serving"

\* The handler is about to make the call.
Due(p, call) ==
  CASE call = "enter"     -> pc[p] = "accepted"
    [] call = "insert"    -> pc[p] = "inserting"
    [] call = "silence"   -> pc[p] = "serving" /\ settings[p] > 0
    [] call = "rechannel" -> pc[p] = "serving" /\ settings[p] > 0
    [] call = "remove"    -> pc[p] = "serving"

Make(p, call) ==
  CASE call = "enter"     -> JoinRoom(p)
    [] call = "insert"    -> Insert(p)
    [] call = "silence"   -> \E s \in BOOLEAN : SetSilence(p, s)
    [] call = "rechannel" -> \E c \in Channels : SetChannels(p, c)
    [] call = "remove"    -> Depart(p)

\* rooms.entry needs the shard of the rooms, which the ping task reads from
\* the first peer it pings to the last; the others need the peer's shard.
LockFree(p, call) ==
  IF call = "enter" THEN pingShard = 0
                    ELSE Writable(p) /\ pingShard # ShardOf[p]

\* The lock is free: the handler goes on at once.
Write(p, call) ==
  /\ FreeWorker /\ parked[p] = "none"
  /\ LockFree(p, call) /\ Make(p, call)
  /\ UNCHANGED runtime

\* The lock is taken: the call does not return, and its thread is lost to
\* the other tasks.
Park(p, call) ==
  /\ FreeWorker /\ parked[p] = "none"
  /\ Due(p, call) /\ ~LockFree(p, call)
  /\ parked' = [parked EXCEPT ![p] = call]
  /\ UNCHANGED <<vars, pingShard>>

\* Mistake (ServesRoom): a writer that is woken starts over, and may find the
\* shard locked again.
UnparkToRetry(p) ==
  /\ parked[p] # "none"
  /\ LockFree(p, parked[p])
  /\ parked' = [parked EXCEPT ![p] = "none"]
  /\ UNCHANGED <<vars, pingShard>>

\* The last reader has left and woken the writer.
Unpark(p) ==
  /\ parked[p] # "none"
  /\ LockFree(p, parked[p]) /\ Make(p, parked[p])
  /\ parked' = [parked EXCEPT ![p] = "none"]
  /\ UNCHANGED pingShard

-----------------------------------------------------------------------------
(* Everything else a handler does: reading and waiting.                    *)

Read(p) ==
  \/ NextShard(p)
  \/ \E o \in Peer : \/ MeetPeer(p, o)
                     \/ TellSilence(p, o)
                     \/ TellChannels(p, o)
                     \/ ForgetReports(p, o)
  \/ Introduce(p)
  \/ AllMet(p)
  \/ SilenceTold(p)
  \/ ChannelsTold(p)
  \/ ComputeMax(p)
  \/ TellTarget(p)
  \/ TellNewTarget(p)
  \/ TellLeft(p)
  \/ Farewell(p)

Ask(p) == Refuse(p) \/ \E o \in Peer, rate \in Rates : ReportPeerLoss(p, o, rate)

Poll(p, A) ==
  /\ FreeWorker /\ parked[p] = "none"
  /\ A
  /\ UNCHANGED runtime

-----------------------------------------------------------------------------
(* The ping task.                                                          *)

\* The sleep ends.  The first loop collects the round-trip times without an
\* await; when it finds anybody, the second one locks the first shard.
PingRound ==
  /\ FreeWorker
  /\ pingShard = 0 /\ members # {}
  /\ pingShard' = 1
  /\ UNCHANGED <<vars, parked>>

\* Mistake (RuntimeTypeOK): one shard too many.
PingNextPastEnd ==
  /\ FreeWorker
  /\ pingShard # 0
  /\ pingShard' = IF pingShard <= NShards THEN pingShard + 1 ELSE 0
  /\ UNCHANGED <<vars, parked>>

\* Mistake (RoundEnds): the next round begins before the room is let go.
PingNextAgain ==
  /\ FreeWorker
  /\ pingShard # 0
  /\ pingShard' = (pingShard % NShards) + 1
  /\ UNCHANGED <<vars, parked>>

\* Everybody in the shard has been told everybody's ping, one await after
\* the other; past the last shard, the rooms' shard is freed as well.
PingNext ==
  /\ FreeWorker
  /\ pingShard # 0
  /\ pingShard' = IF pingShard < NShards THEN pingShard + 1 ELSE 0
  /\ UNCHANGED <<vars, parked>>

Ping == PingRound \/ PingNext

-----------------------------------------------------------------------------
\* What p's handler does once it can, without another message.
Proceed(p) ==
  \/ Poll(p, Read(p))
  \/ Write(p, "insert")
  \/ Park(p, "insert")

RuntimeNext ==
  \/ \E p \in Peer :
       \/ Poll(p, Read(p))
       \/ Poll(p, Ask(p))
       \/ \E call \in Call : Write(p, call) \/ Park(p, call)
       \/ Unpark(p)
  \/ Ping
  \/ AllGone /\ UNCHANGED runtime

RuntimeSpec == RuntimeInit /\ [][RuntimeNext]_<<vars, runtime>>

\* The runtime polls a task that can go on.  A reader that leaves a shard
\* wakes a parked writer, so one that is woken again and again gets in.
RuntimeFairSpec ==
  /\ RuntimeSpec
  /\ \A p \in Peer : /\ WF_<<vars, runtime>>(Proceed(p))
                     /\ SF_<<vars, runtime>>(Unpark(p))
  /\ WF_<<vars, runtime>>(Ping)

-----------------------------------------------------------------------------
(* Properties.                                                             *)

\* A thread that is parked keeps nobody else waiting: its handler holds no
\* shard and is in the middle of none.  So handlers never wait for each other in a
\* circle, and a lack of threads is the only way to a standstill.
ParkedHoldNothing ==
  \A p \in Parked : cur[p] = 0 /\ batch[p] = {}

\* A handler that waits can be served: the lock it waits for is free, or there
\* is a thread left for the loops that hold it.  With as many threads as
\* connections this fails, see RoundEnds.
NoStandstill ==
  \A p \in Parked :
    \/ LockFree(p, parked[p])
    \/ FreeWorker /\ \/ pingShard # 0
                     \/ \E h \in Peer \ Parked : cur[h] = ShardOf[p]

\* A parked thread gets its lock.
ParkedGetsLock == \A p \in Peer : p \in Parked ~> p \notin Parked

\* As the comment in the ping task says, the locks are not held for too long:
\* a round of pings ends.
RoundEnds == pingShard # 0 ~> pingShard = 0

\* The threads implement the room: every handler is served as RelayRoom's
\* fairness says, however the ping task and the parked threads come between.
ServesRoom == FairSpec

=============================================================================
