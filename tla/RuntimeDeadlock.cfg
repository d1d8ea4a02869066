SPECIFICATION RuntimeFairSpec
CONSTANTS
  p1 = p1
  p2 = p2
  NoPeer = NoPeer
  Peer <- TwoPeers
  Channels = {1}
  JoinChannels <- Mono
  Rates = {0}
  NShards = 2
  ShardOf <- OwnShards
  MaxSettings <- TwoSets
  MaxReports <- OneReports
  Workers = 2
PROPERTIES
  RoundEnds
CHECK_DEADLOCK FALSE
