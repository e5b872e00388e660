--------------------------- MODULE MCWindowSamplers ---------------------------
(* Two streams of one length for the run of WindowSamplers.                 *)
EXTENDS WindowSamplers

TwinStreams == {[id |-> "a", tokens |-> 5], [id |-> "b", tokens |-> 5]}
=============================================================================
