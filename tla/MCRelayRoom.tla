--------------------------- MODULE MCRelayRoom ---------------------------
(* Rooms of three for TLC.  Peers arrive in any order, so distinct shards   *)
(* given in a fixed order cover every order of the shards.  Budgets differ  *)
(* between the peers to keep the runs small: who sends what is named here.  *)
EXTENDS RelayRoom, TLC
CONSTANTS p1, p2, p3
ThreePeers == {p1, p2, p3}
OwnShards == p1 :> 1 @@ p2 :> 2 @@ p3 :> 3
Mono == [p \in ThreePeers |-> 1]
Silent == [p \in ThreePeers |-> 0]
TwoReport == p1 :> 1 @@ p2 :> 1 @@ p3 :> 0
=============================================================================
