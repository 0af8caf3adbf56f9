CONSTANTS
  Addresses = {a1, a2, a3}
  Presets = {p1, p2}
  None = None
  Blank = Blank
  Junk = Junk
  Names = {New, n1}
  Untouched = New
  NoName = NoName
  MaxEdits = 2
  MaxFaults = 1
SYMMETRY Symmetry
SPECIFICATION Spec
INVARIANTS
  ReportNamesBackups
  MoveStaysOnPedal
  DoneIsExact
PROPERTIES
  KeptFirst
CHECK_DEADLOCK FALSE
