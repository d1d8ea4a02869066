SPECIFICATION FairSpec
CONSTANTS
  Models = {m1, m2}
  NoModel = NoModel
  FrameLen = 2
  Bursts = {3}
  Yields = {3}
  FirstChannels = 1
  MaxQueue = 2
  MaxSwitches = 2
INVARIANTS
  TypeOK
  AlignedUnlessStale
  FreshFits
  NoBacklog
  EngineIsOfPath
PROPERTIES
  NoiseSettles
  TaskEnds
CHECK_DEADLOCK FALSE
