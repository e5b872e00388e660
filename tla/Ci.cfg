SPECIFICATION VerifySpec
CONSTANTS
  Quality = Quality
  Tests = Tests
  JobList <- TwoJobs
  PerPage = 1
  MaxPages = 2
  MaxCiRuns = 3
  MaxAttempts = 2
  NoRun = NoRun
INVARIANTS
  PagesMissNothing
  GreenIsBacked
