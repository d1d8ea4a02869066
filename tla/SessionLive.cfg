SPECIFICATION FairSpec
CONSTANTS
  Bitrates = {2}
  FirstBitrate = 2
  SilenceBitrate = 1
  LossPercs = {0}
  FirstStereo = FALSE
  MaxReports = 1
  Peers = {}
  MaxInbox = 1
PROPERTIES
  LeaveEnds
  Rejoins
