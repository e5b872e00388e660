SPECIFICATION HarnessSpec
CONSTANTS
  Categories = {"batch_indices", "scheduler", "model_parameters"}
  Counted = {"batch_indices"}
  Measured = {"model_parameters"}
  Deviations = {9999, 10004, 10006}
  TrainingSteps = 3
  Devices = {"cpu", "cuda", "mps"}
  NoFile = NoFile
INVARIANTS
  ReportIsFresh
  PassedIsExact
  EvidenceAccepted
