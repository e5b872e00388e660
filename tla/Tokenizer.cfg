SPECIFICATION Spec
CONSTANTS
  ByteVocab = 2
  SpecialNames <- TwoNames
  MaxLength = 4
  MaxLoaded = 2
  Corpora <- SmallCorpora
  Frequencies = {1, 2}
  TargetMerges = 3
  MinPairCounts = {1, 2}
  NoPair = NoPair
  Artifacts <- Files
  Texts <- SomeTexts
  CacheSizes = {0, 1}
  NoFile = NoFile
INVARIANTS
  SegmentsByItsMerges
  EncodesAsTrained
  RoundTrips
  ArtifactIsTheTokenizer
PROPERTY DecidesAsCounted
