SPECIFICATION RuntimeFairSpec
CONSTANTS
  p1 = p1
  p2 = p2
  NoPeer = NoPeer
  Peer <- TwoPeers
  Channels = {1, 2}
  JoinChannels <- Mono
  Rates = {0, 1}
  NShards = 2
  ShardOf <- OwnShards
  MaxSettings <- TwoSets
  MaxReports <- OneReports
  Workers = 3
INVARIANTS
  RuntimeTypeOK
  ParkedHoldNothing
  NoStandstill
  NoDepartedReporter
  ToldOnce
  IntroducedBothWays
  FarewellReachesAll
  IncumbentExact
  NoStaleTalker
PROPERTIES
  ParkedGetsLock
  RoundEnds
  ServesRoom
  PeersFed
  HandlersEnd
