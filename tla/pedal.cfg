CONSTANTS
  Callers = {c1, c2}
  Sessions = {s1, s2}
  NoSession = NoSession
  Timer = Timer
  Server = Server
  Nobody = Nobody
  MaxCalls = 3
SPECIFICATION FairSpec
INVARIANT
  NothingLeftHeld
PROPERTIES
  IdleCloseOnlyWhenIdle
  PedalSpec
  LetGoWhenIdle
  NobodyStuck
CHECK_DEADLOCK FALSE
