SPECIFICATION CommandSpec
CONSTANTS
  Layers = 2
  ModelContext = 4
  MaxPrompt = 6
  MaxNewTokens = 6
  NoCall = NoCall
  Artifacts <- CommandLines
  Lines = {1, 2}
  MaxPasses = 3
  MaxCalls = 2
  None = None
INVARIANTS
  NeverOverflows
  LogitsSeeTheContext
  LoadsExactlyTheTrained
  NothingFlaggedOnDisk
  SidecarDescribesItsText
CHECK_DEADLOCK FALSE
