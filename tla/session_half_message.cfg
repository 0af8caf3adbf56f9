CONSTANTS
  ChannelOrder <- MCOrder
  Chunks = 2
  ReplyFrames = 2
  Window = 2
  DrainQuietRuns = 1
  CtrMod = 3
  Faults <- MCMidFail
  MaxFaults = 1
  MaxOps = 2
  MaxNotices = 1
SPECIFICATION Spec
INVARIANTS
  NoRequestIntoHalfMessage
CHECK_DEADLOCK FALSE
