SPECIFICATION Spec
CONSTANTS
  MaxSteps = 4
  Accumulation = 2
  EvalEvery = 1
  CheckpointEvery = 2
  MaxConsecutiveSkips = 2
  InitScale = 4
  GrowthInterval = 2
  Period = 4
  Worlds <- AllWorlds
  Losses = {1, 2}
  Infinity = 99
  NoCheckpoint = NoCheckpoint
INVARIANTS
  BestValBacked
  ReplayIsExact
  CountersAgree
  FinishedRunKeepsBest
  OverflowIsNotTraining
PROPERTIES
  CrashReplaysTheAttempt
  NoSkipsPendingAtCheckpoint
