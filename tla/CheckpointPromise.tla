-------------------------- MODULE CheckpointPromise --------------------------
(***************************************************************************)
(* What kittylm.training.checkpoint promises the training engine, without  *)
(* its temporary files, renames, fsyncs and pruning: a resume always finds *)
(* exactly one complete checkpoint (or none was ever published), a new one *)
(* replaces it in one step, and once it is settled no crash of the process *)
(* or of the machine takes it back.                                        *)
(***************************************************************************)
CONSTANTS
  File,     \* the step checkpoints a run may write
  NoFile    \* "there is no checkpoint yet"

VARIABLES
  latest,   \* the checkpoint a resume would load now
  settled   \* the checkpoint a power loss may fall back to

promiseVars == <<latest, settled>>

Init == latest = NoFile /\ settled = NoFile

PublishOf(f) == latest' = f /\ UNCHANGED settled

Publish == \E f \in File : PublishOf(f)

Settle == settled' = latest /\ UNCHANGED latest

PowerLoss == latest' \in {latest, settled} /\ settled' = latest'

Next == Publish \/ Settle \/ PowerLoss

Spec == Init /\ [][Next]_promiseVars
=============================================================================
