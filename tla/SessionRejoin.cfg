SPECIFICATION Spec
CONSTANTS
  Bitrates = {2}
  FirstBitrate = 2
  SilenceBitrate = 1
  LossPercs = {0}
  FirstStereo = FALSE
  MaxReports = 2
  Peers = {}
  MaxInbox = 1
INVARIANT
  RelayKnowsSilence
