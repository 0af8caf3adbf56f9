CONSTANTS
  Procs = {p1, p2, p3}
  Sessions = {s1, s2}
  NoProc = NoProc
  NoSession = NoSession
SPECIFICATION FairSpec
INVARIANTS
  Alone
  RunsOnOpenEditor
  ClaimNotLeaked
PROPERTIES
  CloseReturns
  PedalSpec
CHECK_DEADLOCK FALSE
