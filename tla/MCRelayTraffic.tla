------------------------- MODULE MCRelayTraffic -------------------------
(* Three connections with ids of two bits, and a limit of two datagrams a   *)
(* second, for TLC.                                                         *)
EXTENDS RelayTraffic, TLC
CONSTANTS me, p2, p3
ThreePeers == {me, p2, p3}
Shards == me :> 1 @@ p2 :> 1 @@ p3 :> 2
TwoBits == 0..1
Digits == [n \in 0..3 |-> [b \in TwoBits |-> (n \div 2^b) % 2 = 1]]
Mask == [b \in TwoBits |-> b = 0]
Swap == 0 :> 1 @@ 1 :> 0
=========================================================================
