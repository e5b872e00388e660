------------------------------ MODULE MCSmokeRun ------------------------------
(* Two model configurations for the run of SmokeRun.                        *)
EXTENDS SmokeRun

TiedAndUntied ==
  {[vocab |-> 5, width |-> 4, ffn |-> 3, layers |-> 2, tied |-> TRUE],
   [vocab |-> 3, width |-> 2, ffn |-> 7, layers |-> 1, tied |-> FALSE]}
=============================================================================
