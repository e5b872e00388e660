SPECIFICATION HarnessSpec
CONSTANTS
  Categories = {"batch_indices", "scheduler", "model_parameters"}
  Counted = {"batch_indices"}
  Measured = {"model_parameters"}
  Deviations = {10000, 10010}
  TrainingSteps = 3
  Devices = {"cpu", "cuda"}
  NoFile = NoFile
INVARIANT PassedWithinTolerance
