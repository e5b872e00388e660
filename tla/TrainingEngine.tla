--------------------------- MODULE TrainingEngine ---------------------------
(***************************************************************************)
(* kittylm/training/engine.py: the optimizer-step loop, its skips and      *)
(* crashes, validation, checkpoints and resume, for one training run in    *)
(* deterministic mode.                                                     *)
(*                                                                         *)
(* Model and optimizer state stand for the sequence of updates that made   *)
(* them (params).  An update is what it depended on: the micro-batches it  *)
(* drew, the schedule step that gave its learning rate and the RNG state   *)
(* its forward passes used.  The world fixes the precision and what the    *)
(* data does to the numbers in it: which micro-batches give a non-finite   *)
(* loss, up to which loss scale the fp16 gradients of a micro-batch stay   *)
(* finite, and the validation loss after each step.  A replay meets the    *)
(* same world.                                                             *)
(*                                                                         *)
(* The checkpoint directory is three names that keep CheckpointPromise, as *)
(* CheckpointStore implements it: a save publishes one complete checkpoint *)
(* and then settles the directory; either half may raise, the process may  *)
(* be killed between them, and a power loss takes back what is not settled. *)
(***************************************************************************)
EXTENDS Integers, Sequences, FiniteSets

CONSTANTS
  MaxSteps,             \* TrainingConfig.max_steps
  Accumulation,         \* gradient_accumulation
  EvalEvery,            \* eval_every (0: never)
  CheckpointEvery,      \* checkpoint_every (0: never)
  MaxConsecutiveSkips,  \* MAX_CONSECUTIVE_SKIPS
  InitScale,            \* exponent of the initial loss scale; exponent 0 is scale 0.0
  GrowthInterval,       \* GradScaler: updates without overflow before it doubles
  Period,               \* number of micro-batches the world tells apart
  Worlds,               \* the worlds to consider
  Infinity,             \* math.inf, above every validation loss
  NoCheckpoint

ASSUME CountsAssumption ==
  /\ {MaxSteps, Accumulation, MaxConsecutiveSkips, GrowthInterval, Period} \subseteq Nat \ {0}
  /\ {EvalEvery, CheckpointEvery, InitScale, Infinity} \subseteq Nat

\* 30 skips halve 2^16 to 2^-14, far from 0.0 (engine.py 111-113).
ASSUME SkipsAssumption == MaxConsecutiveSkips <= InitScale

ASSUME WorldsAssumption ==
  Worlds \subseteq [fp16 : BOOLEAN, finite : SUBSET (0 .. Period - 1),
                   limit : [0 .. Period - 1 -> Nat], val : [1 .. MaxSteps -> 0 .. Infinity - 1]]

VARIABLES
  world,   \* [fp16 : is there a GradScaler, finite : the batches with a finite loss,
           \*  limit : batch -> exponent, val : step -> loss]
  eng,     \* what state_dict() covers of the live engine
  consecutive,  \* _consecutive_skips
  pc,      \* where the process is
  until,   \* train(until_step), 0 when train is not running
  latest, best_val, crash,  \* the checkpoints a reader would load
  latestSettled, bestValSettled, crashSettled,  \* and what a power loss may leave of them
  retried, \* history: did a process load crash.pt?
  applied  \* history: every update any process ever applied, with its step

disk == <<latest, best_val, crash, latestSettled, bestValSettled, crashSettled>>
vars == <<world, eng, consecutive, pc, until, disk, retried, applied>>

\* Everything a checkpoint may hold.
States == [params : Seq([batches : Nat, rng : Nat, schedule : Nat]), schedule : Nat,
           scale : Nat, growth : Nat, global_step : Nat, tokens_seen : Nat,
           skipped_steps : Nat, best_val_loss : Nat, rng : Nat, loader : Nat]

ASSUME NoCheckpointAssumption == NoCheckpoint \notin States

Latest == INSTANCE CheckpointPromise WITH
  latest <- latest, settled <- latestSettled, File <- States, NoFile <- NoCheckpoint
BestVal == INSTANCE CheckpointPromise WITH
  latest <- best_val, settled <- bestValSettled, File <- States, NoFile <- NoCheckpoint
CrashFile == INSTANCE CheckpointPromise WITH
  latest <- crash, settled <- crashSettled, File <- States, NoFile <- NoCheckpoint

Fresh == [params |-> <<>>, schedule |-> 0, scale |-> InitScale, growth |-> 0,
          global_step |-> 0, tokens_seen |-> 0, skipped_steps |-> 0,
          best_val_loss |-> Infinity, rng |-> 0, loader |-> 0]

\* state_dict(): every part but _consecutive_skips and history.
StateDict(e) ==
  [params |-> e.params, schedule |-> e.schedule, scale |-> e.scale, growth |-> e.growth,
   global_step |-> e.global_step, tokens_seen |-> e.tokens_seen,
   skipped_steps |-> e.skipped_steps, best_val_loss |-> e.best_val_loss,
   rng |-> e.rng, loader |-> e.loader]

\* Mutants: load_state_dict() forgets the sampler, or the best validation loss.
LoadWithoutSampler(e, s) == [s EXCEPT !.loader = e.loader]
LoadWithoutBest(e, s) == [s EXCEPT !.best_val_loss = e.best_val_loss]

\* load_state_dict() into engine e.
LoadStateDict(e, s) ==
  [e EXCEPT !.params = s.params, !.schedule = s.schedule, !.scale = s.scale,
            !.growth = s.growth, !.global_step = s.global_step,
            !.tokens_seen = s.tokens_seen, !.skipped_steps = s.skipped_steps,
            !.best_val_loss = s.best_val_loss, !.loader = s.loader, !.rng = s.rng]

Init ==
  /\ world \in Worlds
  /\ eng = Fresh
  /\ consecutive = 0
  /\ pc = "idle"
  /\ until = 0
  /\ Latest!Init /\ BestVal!Init /\ CrashFile!Init
  /\ retried = FALSE
  /\ applied = {}

-----------------------------------------------------------------------------
(* Saves                                                                   *)

\* Where each save returns to when its directory fsync is done.
Return == [save_best_val |-> "checkpoint", save_step |-> "train", save_checkpoint |-> "idle",
           save_crash |-> "failed"]

\* save_step(), save_named(): the new checkpoint is in place, or an error leaves the
\* old one there and ends the call that was saving.
SaveLatest(s, from) ==
  /\ \/ Latest!PublishOf(s) /\ pc' = from
     \/ UNCHANGED <<latest, latestSettled>> /\ pc' = "failed"
  /\ UNCHANGED <<best_val, bestValSettled, crash, crashSettled>>

\* Mutant: an error of the save is swallowed and training goes on.
SaveBestValSwallowing(s) ==
  /\ \/ BestVal!PublishOf(s) /\ pc' = "save_best_val"
     \/ UNCHANGED <<best_val, bestValSettled>> /\ pc' = "checkpoint"
  /\ UNCHANGED <<latest, latestSettled, crash, crashSettled>>

SaveBestVal(s) ==
  /\ \/ BestVal!PublishOf(s) /\ pc' = "save_best_val"
     \/ UNCHANGED <<best_val, bestValSettled>> /\ pc' = "failed"
  /\ UNCHANGED <<latest, latestSettled, crash, crashSettled>>

\* The fsync of the directory settles every name in it.
SaveReturns ==
  /\ pc \in DOMAIN Return
  /\ Latest!Settle /\ BestVal!Settle /\ CrashFile!Settle
  /\ pc' = Return[pc]
  /\ UNCHANGED <<world, eng, consecutive, until, retried, applied>>

\* The new checkpoint is in place, but its directory fsync raises.
SaveRaises ==
  /\ pc \in DOMAIN Return
  /\ pc' = "failed"
  /\ UNCHANGED <<world, eng, consecutive, until, disk, retried, applied>>

-----------------------------------------------------------------------------
(* One attempt of train_step; e is the engine before it draws              *)

Drawn(e) == {(e.loader + i) % Period : i \in 0 .. Accumulation - 1}

LossFinite(e) == Drawn(e) \subseteq world.finite

\* The gradients are non-finite whatever the scale where the limit is 0.
GradientsFinite(e) == \A b \in Drawn(e) : world.limit[b] > 0

\* GradScaler finds inf or NaN; dividing by a scale of 0.0 gives NaN.
Overflows(e) == e.scale = 0 \/ \E b \in Drawn(e) : e.scale > world.limit[b]

\* GradScaler.update(): halve on overflow, double after GrowthInterval updates.
NextScale(e) ==
  IF ~ world.fp16 THEN e.scale
  ELSE IF Overflows(e) THEN (IF e.scale = 0 THEN 0 ELSE e.scale - 1)
  ELSE IF e.growth + 1 = GrowthInterval THEN e.scale + 1 ELSE e.scale

NextGrowth(e) ==
  IF ~ world.fp16 \/ Overflows(e) \/ e.growth + 1 = GrowthInterval THEN 0 ELSE e.growth + 1

\* optimizer.step(), which the scaler leaves out on overflow.
NextParams(e) ==
  IF world.fp16 /\ Overflows(e) THEN e.params
  ELSE Append(e.params, [batches |-> e.loader, rng |-> e.rng, schedule |-> e.schedule])

\* applied = scaler.get_scale() >= scale_before
CountsAsApplied(e) == NextScale(e) >= e.scale

AfterDraw(e) == [e EXCEPT !.loader = @ + Accumulation, !.rng = @ + Accumulation]
AfterOptimizer(e) ==
  [AfterDraw(e) EXCEPT !.params = NextParams(e), !.scale = NextScale(e), !.growth = NextGrowth(e)]

SaveCrash(s) ==
  /\ \/ CrashFile!PublishOf(s) /\ pc' = "save_crash"
     \/ UNCHANGED <<crash, crashSettled>> /\ pc' = "failed"
  /\ UNCHANGED <<latest, latestSettled, best_val, bestValSettled>>

\* Mutant: the crash checkpoint keeps the sampler and RNG where the attempt left them.
CrashWithoutRewind(e, pre) == SaveCrash(StateDict(e))

\* _crash(): the state at hand with the loader and RNG of the pre-step snapshot.
Crash(e, pre) == SaveCrash([StateDict(e) EXCEPT !.loader = pre.loader, !.rng = pre.rng])

Attempt ==
  /\ pc = "train"
  /\ eng.global_step < until
  /\ UNCHANGED <<world, until, retried>>

StopsOnNonFinite == ~ LossFinite(eng) \/ (~ world.fp16 /\ ~ GradientsFinite(eng))

AttemptNonFinite ==
  /\ Attempt
  /\ StopsOnNonFinite
  /\ eng' = AfterDraw(eng)
  /\ Crash(eng', eng)
  /\ UNCHANGED <<consecutive, applied>>

\* Mutant: a skip that is not counted.
SkippedUncounted(e) == AfterOptimizer(e)

Skipped(e) == [AfterOptimizer(e) EXCEPT !.skipped_steps = @ + 1]

\* Mutant: there is no limit of consecutive skips.
AttemptSkippedForEver ==
  /\ Attempt
  /\ ~ StopsOnNonFinite
  /\ ~ CountsAsApplied(eng)
  /\ eng' = Skipped(eng)
  /\ consecutive' = consecutive + 1
  /\ UNCHANGED <<disk, pc, applied>>

AttemptSkipped ==
  /\ Attempt
  /\ ~ StopsOnNonFinite
  /\ ~ CountsAsApplied(eng)
  /\ eng' = Skipped(eng)
  /\ consecutive' = consecutive + 1
  /\ IF consecutive' >= MaxConsecutiveSkips
       THEN Crash(eng', eng)
       ELSE UNCHANGED <<disk, pc>>
  /\ UNCHANGED applied

Counted(e) ==
  [AfterOptimizer(e) EXCEPT !.schedule = @ + 1, !.global_step = @ + 1,
                            !.tokens_seen = @ + Accumulation]

\* Mutant: an applied step does not end the row of skips.
AttemptAppliedKeepsSkips ==
  /\ Attempt
  /\ ~ StopsOnNonFinite
  /\ CountsAsApplied(eng)
  /\ eng' = Counted(eng)
  /\ applied' = applied \cup {[step |-> eng'.global_step, params |-> eng'.params]}
  /\ pc' = "validate"
  /\ UNCHANGED <<disk, consecutive>>

AttemptApplied ==
  /\ Attempt
  /\ ~ StopsOnNonFinite
  /\ CountsAsApplied(eng)
  /\ eng' = Counted(eng)
  /\ consecutive' = 0
  /\ applied' = applied \cup {[step |-> eng'.global_step, params |-> eng'.params]}
  /\ pc' = "validate"
  /\ UNCHANGED disk

\* Every n-th applied step (0: never).
Due(n) == n > 0 /\ eng.global_step % n = 0

Validate ==
  /\ pc = "validate"
  /\ LET loss == world.val[eng.global_step]
     IN IF Due(EvalEvery) /\ loss < eng.best_val_loss
          THEN /\ eng' = [eng EXCEPT !.best_val_loss = loss]
               /\ SaveBestVal(StateDict(eng'))
          ELSE pc' = "checkpoint" /\ UNCHANGED <<eng, disk>>
  /\ UNCHANGED <<world, consecutive, until, retried, applied>>

Checkpoint ==
  /\ pc = "checkpoint"
  /\ IF Due(CheckpointEvery)
       THEN SaveLatest(StateDict(eng), "save_step")
       ELSE pc' = "train" /\ UNCHANGED disk
  /\ UNCHANGED <<world, eng, consecutive, until, retried, applied>>

-----------------------------------------------------------------------------
(* The callers of train: train.until, an explicit save, kill and resume    *)

\* train(until_step) refuses a step beyond max_steps.
Train(n) ==
  /\ pc = "idle"
  /\ n \in 1 .. MaxSteps
  /\ n > eng.global_step
  /\ until' = n
  /\ pc' = "train"
  /\ UNCHANGED <<world, eng, consecutive, disk, retried, applied>>

TrainReturns ==
  /\ pc = "train"
  /\ eng.global_step >= until
  /\ pc' = "idle"
  /\ until' = 0
  /\ UNCHANGED <<world, eng, consecutive, disk, retried, applied>>

\* save_checkpoint() between two calls of train, as the resume harness does.
SaveCheckpoint ==
  /\ pc = "idle"
  /\ SaveLatest(StateDict(eng), "save_checkpoint")
  /\ UNCHANGED <<world, eng, consecutive, until, retried, applied>>

\* The process is gone, and its memory with it.
MemoryLost == pc' = "dead" /\ eng' = Fresh /\ consecutive' = 0 /\ until' = 0

Kill ==
  /\ pc # "dead"
  /\ MemoryLost
  /\ UNCHANGED <<world, disk, retried, applied>>

\* Each name keeps its checkpoint or falls back to the settled one.
PowerLoss ==
  /\ Latest!PowerLoss /\ BestVal!PowerLoss /\ CrashFile!PowerLoss
  /\ MemoryLost
  /\ UNCHANGED <<world, retried, applied>>

\* A fresh process: a new engine, then resume_latest().
Restart ==
  /\ pc \in {"dead", "failed"}
  /\ eng' = IF latest = NoCheckpoint THEN Fresh ELSE LoadStateDict(Fresh, latest)
  /\ consecutive' = 0
  /\ until' = 0
  /\ pc' = "idle"
  /\ UNCHANGED <<world, disk, retried, applied>>

\* A fresh process that loads crash.pt instead.
RestartFromCrash ==
  /\ pc \in {"dead", "failed"}
  /\ crash # NoCheckpoint
  /\ eng' = LoadStateDict(Fresh, crash)
  /\ consecutive' = 0
  /\ until' = 0
  /\ pc' = "idle"
  /\ retried' = TRUE
  /\ UNCHANGED <<world, disk, applied>>

TrainLoop ==
  AttemptNonFinite \/ AttemptSkipped \/ AttemptApplied \/ Validate \/ Checkpoint \/ TrainReturns
  \/ SaveReturns \/ SaveRaises

Next ==
  \/ TrainLoop
  \/ \E n \in 1 .. MaxSteps : Train(n)
  \/ SaveCheckpoint
  \/ Kill \/ PowerLoss \/ Restart \/ RestartFromCrash

Spec == Init /\ [][Next]_vars

-----------------------------------------------------------------------------
(* Properties                                                              *)

\* Resume is exact (engine.py 56): whatever was skipped, killed and replayed, two
\* processes that reach the same step have made the same updates from the same
\* micro-batches, RNG states and learning rates.
ReplayIsExact == \A u, v \in applied : u.step = v.step => u.params = v.params

\* engine.py 38-46: global_step is the schedule step and the number of applied
\* updates (unless the loss scale has underflowed to 0.0: from then on line 349 takes
\* every skip for an applied step), the tokens seen are those of the applied steps, and every micro-batch
\* drawn belongs to an applied step or to a counted skip, so that no kill and resume
\* draws one twice or loses one.  (A retry from crash.pt draws the failing attempt's
\* micro-batches again, after it counted them as a skip.)
CountersAgree ==
  /\ eng.schedule = eng.global_step
  /\ eng.scale > 0 => Len(eng.params) = eng.global_step
  /\ eng.tokens_seen = Accumulation * eng.global_step
  /\ ~ retried /\ pc \notin {"save_crash", "failed", "dead"} =>
       eng.loader = Accumulation * (eng.global_step + eng.skipped_steps)

\* A crash checkpoint replays the failing attempt from the parameters, the schedule,
\* the micro-batches and the RNG state it began with (engine.py 49-51).
CrashReplaysTheAttempt ==
  [][pc' = "save_crash" =>
       LET c == crash'
       IN /\ c.params = eng.params
          /\ c.schedule = eng.schedule /\ c.global_step = eng.global_step
          /\ c.loader = eng.loader /\ c.rng = eng.rng]_vars

\* _consecutive_skips is not checkpointed, and need not be: a checkpoint a resume
\* starts from is never taken in the middle of a row of skips.
NoSkipsPendingAtCheckpoint ==
  [][pc' \in {"save_step", "save_checkpoint"} => consecutive = 0]_vars

\* However often it was killed, a run that trained to the end leaves the best of its
\* evaluations in best_val.pt.  (A retry from a crash.pt older than latest.json
\* validates again with the older best_val_loss, and may replace a better model.)
Evaluated == {k \in 1 .. MaxSteps : EvalEvery > 0 /\ k % EvalEvery = 0}
FinishedRunKeepsBest ==
  ~ retried /\ pc = "idle" /\ eng.global_step = MaxSteps =>
    \A k \in Evaluated : best_val.best_val_loss <= world.val[k]

\* What a resume will compare validations with is never better than the model it has:
\* a best_val_loss in the latest checkpoint is backed by a best_val.pt at least as
\* good, whichever saves were killed, raised or were taken back by a power loss, for
\* as long as no process was started from crash.pt.
BestValBacked ==
  ~ retried /\ latest # NoCheckpoint /\ latest.best_val_loss # Infinity =>
    best_val # NoCheckpoint /\ best_val.best_val_loss <= latest.best_val_loss

\* Any micro-batches an attempt may draw have one whose gradients no loss scale makes finite.
Hopeless ==
  /\ world.fp16
  /\ \A l \in 0 .. Period - 1 : \E i \in 0 .. Accumulation - 1 : world.limit[(l + i) % Period] = 0

\* An overflow that no loss scale cures is never taken for training: the limit of
\* consecutive skips stops the run long before the scale is 0.0 and line 349 counts the
\* skips as applied steps (engine.py 111-113), however often the run is killed, resumed
\* and given another until_step, and no checkpoint brings the lowered scale back.  (The
\* crash checkpoint does: retries from it go on lowering it.)
OverflowIsNotTraining ==
  ~ retried /\ Hopeless =>
    /\ applied = {} /\ eng.global_step = 0
    /\ latest # NoCheckpoint => latest.global_step = 0 /\ latest.scale = InitScale

\* engine.py 52-53: "a resumed run never replaces a better pre-interruption model".
BestValNeverReplacedByWorse ==
  [][pc' = "save_best_val" /\ best_val # NoCheckpoint =>
       best_val'.best_val_loss <= best_val.best_val_loss]_vars
=============================================================================
