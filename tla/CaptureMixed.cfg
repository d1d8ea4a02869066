SPECIFICATION Spec
CONSTANTS
  Models = {}
  NoModel = NoModel
  FrameLen = 2
  Bursts = {2}
  Yields = {2}
  FirstChannels = 1
  MaxQueue = 1
  MaxSwitches = 1
INVARIANT
  FreshUnmixed
CHECK_DEADLOCK FALSE
