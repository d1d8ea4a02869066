SPECIFICATION Spec
CONSTANTS
  Bitrates = {2}
  FirstBitrate = 2
  SilenceBitrate = 1
  LossPercs = {0}
  FirstStereo = FALSE
  MaxReports = 1
  Peers = {p1}
  MaxInbox = 1
INVARIANT
  ControlReliable
