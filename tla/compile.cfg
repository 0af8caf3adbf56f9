CONSTANTS
  Catalog <- MCCatalog
  Stats <- MCStats
  Unit = 8
  Device = "stomp"
  Colours <- MCColours
  Limits <- MCLimits
  Trimmed <- MCTrimmed
  Blank <- MCBlank
  Recipes <- MCRecipes
  Templates <- MCTemplates
  Presets <- MCPresets
  GridSize = 8
  Untouched <- MCUntouched
  Symbols <- MCSymbols
  Flow <- MCFlow
  Slots <- MCSlots
  Files <- MCFiles
  Bundles <- MCBundles
  Singles <- MCSingles
  Places <- MCPlaces
  Alphabet <- MCAlphabet
  Folded <- MCFolded
  Bases <- MCBases
  Shelves <- MCShelves
  NewIds <- MCNewIds
  Orders <- MCOrders
  Numbers <- MCNumbers
  Strings <- MCStrings
  Bodies <- MCBodies
  Paths <- MCPaths
  Values <- MCValues
  GridPaths <- MCGridPaths
  Entered <- MCEntered
  Exchanges <- MCExchanges
  Between <- MCBetween
  FrameRoom = 2
  MaxBody = 40
SPECIFICATION RepliesSpec
INVARIANTS
  RoundTrip
  NamesFollowTheChain
  ComesBack
  ShownIsExported
  FoundIsListed
  AnswerIsThePedals
PROPERTIES
  NothingLost
  NewStandsApart
  SpliceSwapsOneValue
  ContestedSaysNothing
CHECK_DEADLOCK FALSE
