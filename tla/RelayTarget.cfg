SPECIFICATION Spec
CONSTANTS
  p1 = p1
  p2 = p2
  p3 = p3
  NoPeer = NoPeer
  Peer <- ThreePeers
  Channels = {1}
  JoinChannels <- Mono
  Rates = {0,1}
  NShards = 3
  ShardOf <- OwnShards
  MaxSettings <- Silent
  MaxReports <- TwoReport
INVARIANTS
  TargetIsOverall
