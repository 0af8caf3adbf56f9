SPECIFICATION Spec
CONSTANTS
  w1 = w1
  w2 = w2
  Writers = {w1, w2}
  MaxTheirs = 1
  MaxFaults = 2
  MaxCrashes = 1
SYMMETRY Symmetry
INVARIANTS
  OldOrNew
  LeavesNothing
PROPERTY KeptExisting
CHECK_DEADLOCK FALSE
