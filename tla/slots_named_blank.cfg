CONSTANTS
  Addresses = {a1, a2}
  Presets = {p1, p2}
  None = None
  Blank = Blank
  Junk = Junk
  Names = {New, n1}
  Untouched = New
  NoName = NoName
  MaxEdits = 1
  MaxFaults = 1
SYMMETRY Symmetry
SPECIFICATION Spec
PROPERTIES
  NamedBlankKept
CHECK_DEADLOCK FALSE
