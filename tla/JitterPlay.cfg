SPECIFICATION FairSpec
CONSTANTS
  MaxSeq = 4
  MaxExpected = 2
  StartWindow = 2
  RestartStreak = 1
  RebufferStreak = 2
  GrowStreak = 1
  GrowMax = 2
  LateMax = 2
  JumpGap = 2
  CatchUpGap = 0
  Settled = 1
  LateSettled = 1
  PlayedMax = 2
  Cap = 3
  Keep = 3
  SilenceDecay = 1
  SyncTarget = 2
  ReportEvery = 2
  FrameLen = 2
  MaxLen = 4
  FirstLen = 1
  GoodTarget <- SmallGood
  Need = 3
  Pull = 2
INVARIANTS
  TypeOK
  LossBounded
  TalkerTarget
  LevelBounded
PROPERTIES
  OnTimePlayed
  RefillEnds
