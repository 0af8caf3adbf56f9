CONSTANTS
  ChannelOrder <- MCOrder
  Chunks = 2
  ReplyFrames = 2
  Window = 1
  DrainQuietRuns = 1
  CtrMod = 3
  Faults <- MCReadOrStart
  MaxFaults = 1
  MaxOps = 1
  MaxNotices = 1
SPECIFICATION FairSpec
PROPERTIES
  EveryExchangeEnds
  DebtIsSettled
  CloseReleases
CHECK_DEADLOCK FALSE
