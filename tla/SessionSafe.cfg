SPECIFICATION Spec
CONSTANTS
  Bitrates = {0, 3}
  FirstBitrate = 2
  SilenceBitrate = 1
  LossPercs = {1}
  FirstStereo = FALSE
  MaxReports = 2
  Peers = {p1}
  MaxInbox = 2
INVARIANTS
  TypeOK
  EncoderTuned
  SlotCurrent
  SaidAsIs
  PeersMatch
