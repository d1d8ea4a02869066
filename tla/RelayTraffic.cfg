SPECIFICATION Spec
CONSTANTS
  me = me
  p2 = p2
  p3 = p3
  Peer <- ThreePeers
  Self = me
  Listening = {p2}
  ShardOf <- Shards
  NShards = 2
  Bit <- TwoBits
  Bits <- Digits
  IdMask <- Mask
  IdPerm <- Swap
  Sizes = {3, 11, 16}
  MaxSent = 3
  MaxPacket = 11
  Limit = 16
  Window = 2
  MaxTime = 3
INVARIANTS TypeOK LimiterBound FanoutReachesStayers AudioAttributed FitsListener
PROPERTY WithinLimitPasses
CHECK_DEADLOCK FALSE
