--------------------------- MODULE MCAttentionBench ---------------------------
(* The grid for the run of AttentionBench.                                  *)
EXTENDS AttentionBench

TwoVariants == <<"reference@bf16", "sdpa_math@bf16">>
OneFlag == <<"unset">>
TwoLengths == <<256, 1024>>
=============================================================================
