------------------------- MODULE MCRelayRuntime -------------------------
(* A room of two on few threads for TLC.  Each peer is on a shard of its own, *)
(* so that its calls have to wait for the loops of the other and for the ping *)
(* task, and no loop gets along with one shard.  Budgets differ between the   *)
(* peers to keep the run small: who sends what is named here.                 *)
EXTENDS RelayRuntime, TLC
CONSTANTS p1, p2
TwoPeers   == {p1, p2}
OwnShards  == p1 :> 1 @@ p2 :> 2
Mono       == p1 :> 1 @@ p2 :> 1
TwoSets    == p1 :> 2 @@ p2 :> 0
OneReports == p1 :> 0 @@ p2 :> 1
=========================================================================
