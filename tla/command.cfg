CONSTANTS
  Channels <- MCChannels
  Services <- MCServices
  ClaimAttempts = 2
  MaxRounds = 2
  MaxPresses = 3
  MaxFaults = 1
SPECIFICATION Spec
INVARIANTS
  LetGo
  SpeaksAsEditor
  SelectedIsPlaying
  AllAnswered
PROPERTIES
  AlwaysEnds
CHECK_DEADLOCK FALSE
