SPECIFICATION SamplersSpec
CONSTANTS
  Samplers = {s1, s2}
  Streams <- TwinStreams
  Contexts = {2, 3}
  Batches = {2}
  Seeds = {1, 2}
  MaxDrawn = 3
  Absent = Absent
INVARIANTS
  ResumesTheSequence
  PreviewIsKept
