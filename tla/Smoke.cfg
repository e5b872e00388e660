SPECIFICATION Spec
CONSTANTS
  Models <- TiedAndUntied
  MaxRuns = 2
  MaxSteps = 2
  None = None
INVARIANTS
  StatusBackedByRecord
  OutcomeBackedByRecord
  BuilderMeetsLedger
PROPERTY PassedGateIsFinite
