SPECIFICATION Spec
CONSTANTS
  MaxSteps = 4
  Accumulation = 1
  EvalEvery = 1
  CheckpointEvery = 4
  MaxConsecutiveSkips = 2
  InitScale = 2
  GrowthInterval = 2
  Period = 1
  Worlds <- CalmWorlds
  Losses = {1, 2}
  Infinity = 99
  NoCheckpoint = NoCheckpoint
PROPERTY BestValNeverReplacedByWorse
