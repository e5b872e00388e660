SPECIFICATION FairSpec
CONSTANTS
  Variants <- TwoVariants
  Oracles = {"reference@bf16"}
  Selectable = {"reference@bf16", "sdpa_math@bf16"}
  Flags <- OneFlag
  Lengths <- TwoLengths
  SelectionLengths = {256, 1024}
  NoSelection = NoSelection
  Speeds = {1, 2}
INVARIANTS
  GridMeasuredOnce
  RefusalHasACause
  SelectionFollowsRule
PROPERTY BenchmarkEnds
