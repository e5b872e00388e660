-------------------------- MODULE MCTrainingEngine --------------------------
(* Worlds for the runs of TrainingEngine.                                   *)
EXTENDS TrainingEngine

CONSTANT Losses

World(fp16, finite, limits, losses) ==
  [fp16 : {fp16}, finite : finite, limit : [0 .. Period - 1 -> limits],
   val : [1 .. MaxSteps -> losses]]

AllBatches == {0 .. Period - 1}

\* fp16: every micro-batch overflows above some scale; validation is flat.
OverflowWorlds == World(TRUE, AllBatches, {1, InitScale - 1, InitScale}, {1})

\* fp16: some micro-batches overflow at any scale, which falls until it is 0.0.
UnderflowWorlds == World(TRUE, AllBatches, {0, InitScale}, {1})

\* fp32 or bf16: non-finite losses and gradients; validation is flat.
NanWorlds == World(FALSE, SUBSET (0 .. Period - 1), {0, 1}, {1})

\* fp16: every batch overflows until the scale is small; any validation losses.
FallingWorlds == World(TRUE, AllBatches, {1}, Losses)

\* Nothing goes wrong but the process; any validation losses.
CalmWorlds == World(FALSE, AllBatches, {InitScale}, Losses)

AllWorlds == OverflowWorlds \cup FallingWorlds \cup UnderflowWorlds \cup NanWorlds \cup CalmWorlds
=============================================================================
