SPECIFICATION EvaluationSpec
CONSTANTS
  Categories = {"prose", "code"}
  MaxDocs = 2
  MaxTokens = 6
  MaxContext = 4
INVARIANTS
  ScoredOnceInOrder
  SameContextAsGeneration
  SumsAgree
