------------------------- MODULE TrainingEngine_proofs -------------------------
(***************************************************************************)
(* For any numbers of steps, micro-batches, skips and intervals, any       *)
(* initial loss scale and any worlds: what the engine's counters, its      *)
(* checkpoints and the updates of its processes have to do with each other. *)
(***************************************************************************)
EXTENDS TrainingEngine, TLAPS

Saving == {"save_best_val", "save_step", "save_checkpoint", "save_crash"}
Phases == Saving \cup {"idle", "train", "validate", "checkpoint", "failed", "dead"}

\* In these the engine in memory is not one a checkpoint may be taken of.
Broken == {"save_crash", "failed", "dead"}

IsCheckpoint(s) == s = NoCheckpoint \/ s \in States

TypeInv ==
  /\ world \in Worlds
  /\ eng \in States
  /\ consecutive \in Nat
  /\ pc \in Phases
  /\ until \in 0 .. MaxSteps
  /\ IsCheckpoint(latest) /\ IsCheckpoint(latestSettled)
  /\ IsCheckpoint(best_val) /\ IsCheckpoint(bestValSettled)
  /\ IsCheckpoint(crash) /\ IsCheckpoint(crashSettled)

-----------------------------------------------------------------------------
(* The operators of an attempt                                             *)

\* What the assumption on the counts says of each.
LEMMA Counts ==
  /\ MaxSteps \in Nat \ {0} /\ Accumulation \in Nat \ {0} /\ MaxConsecutiveSkips \in Nat \ {0}
  /\ InitScale \in Nat /\ Infinity \in Nat
  BY CountsAssumption

\* The parts of a state that decide what the next attempt does.
LEMMA NumericsType ==
  ASSUME NEW e \in States
  PROVE  /\ NextScale(e) \in Nat /\ NextGrowth(e) \in Nat
         /\ NextParams(e) \in Seq([batches : Nat, rng : Nat, schedule : Nat])
<1>1. NextScale(e) \in Nat
  BY DEF NextScale, States
<1>2. NextGrowth(e) \in Nat
  BY DEF NextGrowth, States
<1>3. NextParams(e) \in Seq([batches : Nat, rng : Nat, schedule : Nat])
  <2> DEFINE U == [batches : Nat, rng : Nat, schedule : Nat]
             u == [batches |-> e.loader, rng |-> e.rng, schedule |-> e.schedule]
  <2>1. e.params \in Seq(U) /\ u \in U
    BY DEF States
  <2> HIDE DEF U, u
  <2>2. Append(e.params, u) \in Seq(U)
    BY <2>1
  <2>3. QED
    BY <2>1, <2>2 DEF NextParams, U, u
<1>4. QED
  BY <1>1, <1>2, <1>3

\* The parameters stay when the update does not count as applied.
LEMMA NotAppliedKeepsParams ==
  ASSUME NEW e \in States, ~ CountsAsApplied(e)
  PROVE  NextParams(e) = e.params
  BY DEF CountsAsApplied, NextScale, NextParams, States

\* As long as the loss scale is not 0.0, an update that counts as applied was made.
LEMMA AppliedMovesParams ==
  ASSUME NEW e \in States, CountsAsApplied(e), NextScale(e) > 0
  PROVE  /\ e.scale > 0 \/ ~ world.fp16
         /\ NextParams(e) = Append(e.params,
              [batches |-> e.loader, rng |-> e.rng, schedule |-> e.schedule])
  BY DEF CountsAsApplied, NextScale, NextParams, Overflows, States

\* The engine after drawing, after the optimizer, after a skip and after an applied step.
LEMMA AfterDrawIs ==
  ASSUME NEW e \in States
  PROVE  /\ AfterDraw(e) \in States
         /\ AfterDraw(e).params = e.params /\ AfterDraw(e).schedule = e.schedule
         /\ AfterDraw(e).scale = e.scale /\ AfterDraw(e).growth = e.growth
         /\ AfterDraw(e).global_step = e.global_step
         /\ AfterDraw(e).tokens_seen = e.tokens_seen
         /\ AfterDraw(e).skipped_steps = e.skipped_steps
         /\ AfterDraw(e).best_val_loss = e.best_val_loss
         /\ AfterDraw(e).rng = e.rng + Accumulation
         /\ AfterDraw(e).loader = e.loader + Accumulation
<1> DEFINE a == e.loader + Accumulation
           b == e.rng + Accumulation
<1>1. a \in Nat /\ b \in Nat
  BY Counts DEF States
<1>2. AfterDraw(e) = [e EXCEPT !.loader = a, !.rng = b]
  BY DEF AfterDraw
<1> HIDE DEF a, b
<1>3. /\ AfterDraw(e) \in States
      /\ AfterDraw(e).params = e.params /\ AfterDraw(e).schedule = e.schedule
      /\ AfterDraw(e).scale = e.scale /\ AfterDraw(e).growth = e.growth
      /\ AfterDraw(e).global_step = e.global_step
      /\ AfterDraw(e).tokens_seen = e.tokens_seen
      /\ AfterDraw(e).skipped_steps = e.skipped_steps
      /\ AfterDraw(e).best_val_loss = e.best_val_loss
      /\ AfterDraw(e).rng = b
      /\ AfterDraw(e).loader = a
  BY <1>1, <1>2 DEF States
<1>4. QED
  BY <1>3 DEF a, b

\* After the optimizer the draw is made and the numbers are the next ones.
LEMMA AfterOptimizerIs ==
  ASSUME NEW e \in States
  PROVE  /\ AfterOptimizer(e) \in States
         /\ AfterOptimizer(e).params = NextParams(e) /\ AfterOptimizer(e).schedule = e.schedule
         /\ AfterOptimizer(e).scale = NextScale(e) /\ AfterOptimizer(e).growth = NextGrowth(e)
         /\ AfterOptimizer(e).global_step = e.global_step
         /\ AfterOptimizer(e).tokens_seen = e.tokens_seen
         /\ AfterOptimizer(e).skipped_steps = e.skipped_steps
         /\ AfterOptimizer(e).best_val_loss = e.best_val_loss
         /\ AfterOptimizer(e).rng = e.rng + Accumulation
         /\ AfterOptimizer(e).loader = e.loader + Accumulation
  BY CountsAssumption, AfterDrawIs, NumericsType DEF AfterOptimizer, States

\* A skip counts itself and leaves the schedule and the step.
LEMMA SkippedIs ==
  ASSUME NEW e \in States
  PROVE  /\ Skipped(e) \in States
         /\ Skipped(e).params = NextParams(e) /\ Skipped(e).schedule = e.schedule
         /\ Skipped(e).scale = NextScale(e) /\ Skipped(e).growth = NextGrowth(e)
         /\ Skipped(e).global_step = e.global_step /\ Skipped(e).tokens_seen = e.tokens_seen
         /\ Skipped(e).skipped_steps = e.skipped_steps + 1
         /\ Skipped(e).best_val_loss = e.best_val_loss /\ Skipped(e).rng = e.rng + Accumulation
         /\ Skipped(e).loader = e.loader + Accumulation
<1> DEFINE o == AfterOptimizer(e)
           n == o.skipped_steps + 1
<1>1. o \in States
  BY AfterOptimizerIs
<1>2. n \in Nat
  <2> HIDE DEF o
  <2>1. o.skipped_steps \in Nat
    BY <1>1 DEF States
  <2>2. QED
    BY <2>1
<1>3. Skipped(e) = [o EXCEPT !.skipped_steps = n]
  BY DEF Skipped
<1> HIDE DEF o, n
<1>4. /\ Skipped(e) \in States /\ Skipped(e).params = o.params
      /\ Skipped(e).schedule = o.schedule /\ Skipped(e).scale = o.scale
      /\ Skipped(e).growth = o.growth /\ Skipped(e).global_step = o.global_step
      /\ Skipped(e).tokens_seen = o.tokens_seen /\ Skipped(e).skipped_steps = n
      /\ Skipped(e).best_val_loss = o.best_val_loss /\ Skipped(e).rng = o.rng
      /\ Skipped(e).loader = o.loader
  BY <1>1, <1>2, <1>3 DEF States
<1>5. QED
  BY <1>4, AfterOptimizerIs DEF o, n

\* An applied step moves the schedule, the step and the tokens together.
LEMMA CountedIs ==
  ASSUME NEW e \in States
  PROVE  /\ Counted(e) \in States
         /\ Counted(e).params = NextParams(e) /\ Counted(e).schedule = e.schedule + 1
         /\ Counted(e).scale = NextScale(e) /\ Counted(e).growth = NextGrowth(e)
         /\ Counted(e).global_step = e.global_step + 1
         /\ Counted(e).tokens_seen = e.tokens_seen + Accumulation
         /\ Counted(e).skipped_steps = e.skipped_steps
         /\ Counted(e).best_val_loss = e.best_val_loss /\ Counted(e).rng = e.rng + Accumulation
         /\ Counted(e).loader = e.loader + Accumulation
<1> DEFINE o == AfterOptimizer(e)
           n == o.schedule + 1
           k == o.global_step + 1
           t == o.tokens_seen + Accumulation
<1>1. o \in States
  BY AfterOptimizerIs
<1>2. n \in Nat /\ k \in Nat /\ t \in Nat
  <2> HIDE DEF o
  <2>1. o.schedule \in Nat /\ o.global_step \in Nat /\ o.tokens_seen \in Nat
    BY <1>1 DEF States
  <2>2. QED
    BY <2>1, Counts
<1>3. Counted(e) = [o EXCEPT !.schedule = n, !.global_step = k, !.tokens_seen = t]
  BY DEF Counted
<1> HIDE DEF o, n, k, t
<1>4. /\ Counted(e) \in States /\ Counted(e).params = o.params /\ Counted(e).schedule = n
      /\ Counted(e).scale = o.scale /\ Counted(e).growth = o.growth
      /\ Counted(e).global_step = k /\ Counted(e).tokens_seen = t
      /\ Counted(e).skipped_steps = o.skipped_steps
      /\ Counted(e).best_val_loss = o.best_val_loss /\ Counted(e).rng = o.rng
      /\ Counted(e).loader = o.loader
  BY <1>1, <1>2, <1>3 DEF States
<1>5. QED
  BY <1>4, AfterOptimizerIs DEF o, n, k, t

\* A checkpoint holds all of the state, and loading it brings all of it back.
LEMMA StateDictIs ==
  ASSUME NEW e \in States
  PROVE  StateDict(e) = e
  BY DEF StateDict, States

\* load_state_dict() leaves nothing of the engine it loads into.
LEMMA LoadIs ==
  ASSUME NEW e \in States, NEW s \in States
  PROVE  LoadStateDict(e, s) = s
  BY DEF LoadStateDict, States

\* A new engine is one a checkpoint could be taken of.
LEMMA FreshType == Fresh \in States
  BY CountsAssumption DEF Fresh, States

\* State e with the micro-batches and the RNG of f.
Rewind(e, f) == [e EXCEPT !.loader = f.loader, !.rng = f.rng]

\* Rewinding touches the micro-batches and the RNG only.
LEMMA RewindIs ==
  ASSUME NEW e \in States, NEW f \in States
  PROVE  /\ Rewind(e, f) \in States
         /\ Rewind(e, f).loader = f.loader /\ Rewind(e, f).rng = f.rng
         /\ Rewind(e, f).params = e.params /\ Rewind(e, f).schedule = e.schedule
         /\ Rewind(e, f).scale = e.scale /\ Rewind(e, f).growth = e.growth
         /\ Rewind(e, f).global_step = e.global_step /\ Rewind(e, f).tokens_seen = e.tokens_seen
         /\ Rewind(e, f).skipped_steps = e.skipped_steps
         /\ Rewind(e, f).best_val_loss = e.best_val_loss
  BY DEF Rewind, States

\* The engine e after a validation with a better loss.
Improved(f, e, loss) ==
  /\ f \in States /\ f.best_val_loss = loss
  /\ f.loader = e.loader /\ f.rng = e.rng /\ f.params = e.params /\ f.schedule = e.schedule
  /\ f.scale = e.scale /\ f.growth = e.growth /\ f.global_step = e.global_step
  /\ f.tokens_seen = e.tokens_seen /\ f.skipped_steps = e.skipped_steps

\* A better validation touches best_val_loss only.
LEMMA ImprovedIs ==
  ASSUME NEW e \in States, NEW loss \in Nat
  PROVE  Improved([e EXCEPT !.best_val_loss = loss], e, loss)
  BY DEF Improved, States

\* The engine a call of train() trains has a step to go, and one that validates made one.
StepsDone(s) == s # NoCheckpoint => s.global_step <= MaxSteps
StepInv ==
  /\ eng.global_step <= MaxSteps
  /\ StepsDone(latest) /\ StepsDone(latestSettled) /\ StepsDone(best_val)
  /\ StepsDone(bestValSettled) /\ StepsDone(crash) /\ StepsDone(crashSettled)
  /\ pc = "validate" => eng.global_step > 0
  /\ consecutive > 0 =>
       pc \in {"save_crash", "failed"} \/ (pc = "train" /\ eng.global_step < until)

-----------------------------------------------------------------------------
(* What a step does, case by case                                          *)

\* A state is the record of its fields.
LEMMA SameFields ==
  ASSUME NEW e \in States, NEW f \in States,
         e.params = f.params, e.schedule = f.schedule, e.scale = f.scale, e.growth = f.growth,
         e.global_step = f.global_step, e.tokens_seen = f.tokens_seen,
         e.skipped_steps = f.skipped_steps, e.best_val_loss = f.best_val_loss,
         e.rng = f.rng, e.loader = f.loader
  PROVE  e = f
<1>1. ASSUME NEW x \in States
      PROVE  x = [params |-> x.params, schedule |-> x.schedule, scale |-> x.scale,
                  growth |-> x.growth, global_step |-> x.global_step,
                  tokens_seen |-> x.tokens_seen, skipped_steps |-> x.skipped_steps,
                  best_val_loss |-> x.best_val_loss, rng |-> x.rng, loader |-> x.loader]
  BY <1>1 DEF States
<1>2. QED
  BY <1>1

\* The engine files are saved without a change of the others.
Unsaved == UNCHANGED <<latest, latestSettled, best_val, bestValSettled>>

\* A non-finite loss: the crash checkpoint is the engine as the attempt found it.
LEMMA NonFiniteStep ==
  ASSUME TypeInv, AttemptNonFinite
  PROVE  /\ pc = "train" /\ eng.global_step < until /\ StopsOnNonFinite
         /\ eng' = AfterDraw(eng)
         /\ UNCHANGED <<world, consecutive, until, retried, applied>> /\ Unsaved
         /\ UNCHANGED crashSettled
         /\ \/ crash' = eng /\ pc' = "save_crash"
            \/ crash' = crash /\ pc' = "failed"
<1>1. eng \in States /\ eng' = AfterDraw(eng) /\ eng' \in States /\ StateDict(eng') = eng'
  BY AfterDrawIs, StateDictIs DEF AttemptNonFinite, TypeInv
<1>2. Rewind(eng', eng) = eng
  BY <1>1, RewindIs, AfterDrawIs, SameFields
<1>3. Crash(eng', eng) => SaveCrash(Rewind(eng', eng))
  BY <1>1 DEF Crash, Rewind
<1>4. QED
  BY <1>1, <1>2, <1>3
     DEF AttemptNonFinite, Attempt, SaveCrash, CrashFile!PublishOf, Unsaved

\* The engine after a skip, with the micro-batches of the attempt still to draw.
Rewound(c, e) ==
  /\ c \in States /\ c.loader = e.loader /\ c.rng = e.rng
  /\ c.params = e.params /\ c.schedule = e.schedule /\ c.global_step = e.global_step
  /\ c.tokens_seen = e.tokens_seen /\ c.best_val_loss = e.best_val_loss
  /\ c.scale = NextScale(e) /\ c.growth = NextGrowth(e)

\* A skip goes on, or at the limit writes the rewound engine to crash.pt and stops.
LEMMA SkippedStep ==
  ASSUME TypeInv, AttemptSkipped
  PROVE  /\ pc = "train" /\ eng.global_step < until
         /\ ~ StopsOnNonFinite /\ ~ CountsAsApplied(eng)
         /\ eng' = Skipped(eng) /\ consecutive' = consecutive + 1
         /\ UNCHANGED <<world, until, retried, applied>> /\ Unsaved
         /\ UNCHANGED crashSettled
         /\ \/ /\ consecutive' < MaxConsecutiveSkips
               /\ crash' = crash /\ pc' = "train"
            \/ /\ consecutive' >= MaxConsecutiveSkips
               /\ \/ Rewound(crash', eng) /\ pc' = "save_crash"
                  \/ crash' = crash /\ pc' = "failed"
<1>1. eng \in States /\ eng' = Skipped(eng) /\ eng' \in States /\ StateDict(eng') = eng'
  BY SkippedIs, StateDictIs DEF AttemptSkipped, TypeInv
<1>2. Rewound(Rewind(eng', eng), eng)
  <2>1. NextParams(eng) = eng.params
    BY <1>1, NotAppliedKeepsParams DEF AttemptSkipped
  <2>2. QED
    BY <1>1, <2>1, RewindIs, SkippedIs DEF Rewound
<1>3. Crash(eng', eng) => SaveCrash(Rewind(eng', eng))
  BY <1>1 DEF Crash, Rewind
<1>4. consecutive + 1 >= MaxConsecutiveSkips \/ consecutive + 1 < MaxConsecutiveSkips
  BY Counts DEF TypeInv
<1>5. QED
  BY <1>1, <1>2, <1>3, <1>4
     DEF AttemptSkipped, Attempt, SaveCrash, CrashFile!PublishOf, Unsaved, disk

\* A step that is validated has a loss, and one below math.inf.
LEMMA ValidationLoss ==
  ASSUME TypeInv, StepInv, pc = "validate"
  PROVE  world.val[eng.global_step] \in 0 .. Infinity - 1
<1>1. eng.global_step \in 1 .. MaxSteps
  BY Counts DEF TypeInv, StepInv, States
<1>2. world.val \in [1 .. MaxSteps -> 0 .. Infinity - 1]
  BY WorldsAssumption DEF TypeInv
<1>3. QED
  BY <1>1, <1>2

\* A validation that is not better changes nothing; a better one is saved or ends the call.
LEMMA ValidateStep ==
  ASSUME TypeInv, StepInv, Validate
  PROVE  LET loss == world.val[eng.global_step]
         IN /\ pc = "validate"
            /\ UNCHANGED <<world, consecutive, until, retried, applied>>
            /\ UNCHANGED <<latest, latestSettled, crash, crashSettled, bestValSettled>>
            /\ \/ /\ Due(EvalEvery) => eng.best_val_loss <= loss
                  /\ eng' = eng /\ best_val' = best_val /\ pc' = "checkpoint"
               \/ /\ loss < eng.best_val_loss
                  /\ Improved(eng', eng, loss)
                  /\ \/ best_val' = eng' /\ pc' = "save_best_val"
                     \/ best_val' = best_val /\ pc' = "failed"
<1> DEFINE loss == world.val[eng.global_step]
<1>1. pc = "validate" /\ UNCHANGED <<world, consecutive, until, retried, applied>>
  BY DEF Validate
<1>2. loss \in Nat /\ eng.best_val_loss \in Nat
  BY <1>1, ValidationLoss, Counts DEF TypeInv, States
<1> HIDE DEF loss
<1>3. CASE Due(EvalEvery) /\ loss < eng.best_val_loss
  <2>1. eng' = [eng EXCEPT !.best_val_loss = loss] /\ SaveBestVal(StateDict(eng'))
    BY <1>3 DEF Validate, loss
  <2>2. Improved(eng', eng, loss) /\ StateDict(eng') = eng'
    BY <1>2, <2>1, ImprovedIs, StateDictIs DEF TypeInv, Improved
  <2>3. QED
    BY <1>1, <1>3, <2>1, <2>2 DEF SaveBestVal, BestVal!PublishOf, loss
<1>4. CASE ~ (Due(EvalEvery) /\ loss < eng.best_val_loss)
  <2>1. pc' = "checkpoint" /\ UNCHANGED <<eng, disk>>
    BY <1>4 DEF Validate, loss
  <2>2. Due(EvalEvery) => eng.best_val_loss <= loss
    BY <1>2, <1>4
  <2>3. QED
    BY <1>1, <2>1, <2>2 DEF disk, loss
<1>5. QED
  BY <1>3, <1>4

\* A periodic or explicit save publishes the engine as it is, or ends the call.
LEMMA SaveStep ==
  ASSUME TypeInv, Checkpoint \/ SaveCheckpoint
  PROVE  /\ pc \in {"checkpoint", "idle"}
         /\ UNCHANGED <<world, eng, consecutive, until, retried, applied>>
         /\ UNCHANGED <<latestSettled, best_val, bestValSettled, crash, crashSettled>>
         /\ \/ latest' = eng /\ pc' \in {"save_step", "save_checkpoint"}
            \/ latest' = latest /\ pc' \in {"failed", "train"} /\ (pc' = "train" => pc = "checkpoint")
  BY StateDictIs DEF TypeInv, Checkpoint, SaveCheckpoint, SaveLatest, Latest!PublishOf, disk

\* What a process starts from.
LEMMA RestartStep ==
  ASSUME TypeInv, Restart \/ RestartFromCrash
  PROVE  /\ pc' = "idle" /\ consecutive' = 0 /\ until' = 0
         /\ UNCHANGED <<world, disk, applied>>
         /\ \/ retried' = retried /\ latest = NoCheckpoint /\ eng' = Fresh
            \/ retried' = retried /\ latest # NoCheckpoint /\ eng' = latest
            \/ retried' = TRUE /\ crash # NoCheckpoint /\ eng' = crash
  BY FreshType, LoadIs DEF TypeInv, IsCheckpoint, Restart, RestartFromCrash

-----------------------------------------------------------------------------
(* Types and steps                                                         *)

\* The initial states have the types, and no step done.
LEMMA InitType == Init => TypeInv /\ StepInv
<1> SUFFICES ASSUME Init PROVE TypeInv /\ StepInv
  OBVIOUS
<1>1. eng = Fresh /\ eng.global_step = 0
  BY DEF Init, Fresh
<1>2. TypeInv
  BY <1>1, FreshType, Counts
     DEF Init, TypeInv, IsCheckpoint, Phases, Latest!Init, BestVal!Init, CrashFile!Init
<1>3. StepInv
  BY <1>1, Counts DEF Init, StepInv, StepsDone, Latest!Init, BestVal!Init, CrashFile!Init
<1>4. QED
  BY <1>2, <1>3

\* Every step keeps the types.
LEMMA TypeStep == TypeInv /\ StepInv /\ [Next]_vars => TypeInv'
<1> SUFFICES ASSUME TypeInv, StepInv, [Next]_vars PROVE TypeInv'
  OBVIOUS
<1> USE DEF TypeInv, IsCheckpoint, Phases, Saving
<1>1. CASE AttemptNonFinite
  BY <1>1, NonFiniteStep, AfterDrawIs DEF Unsaved
<1>2. CASE AttemptSkipped
  BY <1>2, SkippedStep, SkippedIs DEF Unsaved, Rewound
<1>3. CASE AttemptApplied
  BY <1>3, CountedIs DEF AttemptApplied, Attempt, disk
<1>4. CASE Validate
  BY <1>4, ValidateStep DEF Improved
<1>5. CASE Checkpoint \/ SaveCheckpoint
  BY <1>5, SaveStep
<1>6. CASE TrainReturns
  BY <1>6, Counts DEF TrainReturns, disk
<1>7. CASE SaveReturns
  BY <1>7 DEF SaveReturns, Return, Latest!Settle, BestVal!Settle, CrashFile!Settle
<1>8. CASE SaveRaises
  BY <1>8 DEF SaveRaises, disk
<1>9. CASE \E n \in 1 .. MaxSteps : Train(n)
  BY <1>9 DEF Train, disk
<1>10. CASE Kill
  BY <1>10, FreshType, Counts DEF Kill, MemoryLost, disk
<1>11. CASE PowerLoss
  BY <1>11, FreshType, Counts
     DEF PowerLoss, MemoryLost, Latest!PowerLoss, BestVal!PowerLoss, CrashFile!PowerLoss
<1>12. CASE Restart \/ RestartFromCrash
  <2>1. eng' \in States
    BY <1>12, RestartStep, FreshType
  <2>2. /\ pc' = "idle" /\ consecutive' = 0 /\ until' = 0 /\ UNCHANGED <<world, disk>>
    BY <1>12, RestartStep
  <2>3. QED
    BY <2>1, <2>2, Counts DEF disk
<1>13. CASE UNCHANGED vars
  BY <1>13 DEF vars, disk
<1>14. QED
  BY <1>1, <1>2, <1>3, <1>4, <1>5, <1>6, <1>7, <1>8, <1>9, <1>10, <1>11, <1>12, <1>13
     DEF Next, TrainLoop

\* Every step keeps within max_steps, and keeps a row of skips inside train().
LEMMA StepStep == TypeInv /\ StepInv /\ [Next]_vars => StepInv'
<1> SUFFICES ASSUME TypeInv, StepInv, [Next]_vars PROVE StepInv'
  OBVIOUS
<1> USE DEF StepInv, StepsDone
<1>0. eng.global_step \in Nat /\ consecutive \in Nat /\ until \in Nat /\ until <= MaxSteps
  BY Counts DEF TypeInv, States
<1>1. CASE AttemptNonFinite
  BY <1>0, <1>1, NonFiniteStep, AfterDrawIs DEF TypeInv, Unsaved
<1>2. CASE AttemptSkipped
  BY <1>0, <1>2, SkippedStep, SkippedIs DEF TypeInv, Unsaved, Rewound
<1>3. CASE AttemptApplied
  BY <1>0, <1>3, CountedIs, Counts DEF AttemptApplied, Attempt, TypeInv, disk
<1>4. CASE Validate
  BY <1>0, <1>4, ValidateStep DEF Improved
<1>5. CASE Checkpoint \/ SaveCheckpoint
  BY <1>0, <1>5, SaveStep
<1>6. CASE TrainReturns
  BY <1>0, <1>6 DEF TrainReturns, disk
<1>7. CASE SaveReturns
  BY <1>7 DEF SaveReturns, Return, Latest!Settle, BestVal!Settle, CrashFile!Settle
<1>8. CASE SaveRaises
  BY <1>8 DEF SaveRaises, disk
<1>9. CASE \E n \in 1 .. MaxSteps : Train(n)
  BY <1>9 DEF Train, disk
<1>10. CASE Kill \/ PowerLoss
  BY <1>10, Counts
     DEF Kill, PowerLoss, MemoryLost, Fresh, disk,
         Latest!PowerLoss, BestVal!PowerLoss, CrashFile!PowerLoss
<1>11. CASE Restart \/ RestartFromCrash
  <2>0. Fresh.global_step <= MaxSteps
    BY Counts DEF Fresh
  <2>1. eng'.global_step <= MaxSteps
    BY <1>11, <2>0, RestartStep, Zenon
  <2>2. pc' = "idle" /\ consecutive' = 0 /\ UNCHANGED disk
    BY <1>11, RestartStep
  <2>3. QED
    BY <2>1, <2>2 DEF disk
<1>12. CASE UNCHANGED vars
  BY <1>12 DEF vars, disk
<1>13. QED
  BY <1>1, <1>2, <1>3, <1>4, <1>5, <1>6, <1>7, <1>8, <1>9, <1>10, <1>11, <1>12 DEF Next, TrainLoop

-----------------------------------------------------------------------------
(* Counters                                                                *)

\* What CountersAgree says of the engine holds of every file it may be loaded from.
Counters(s) ==
  /\ s.schedule = s.global_step
  /\ s.scale > 0 => Len(s.params) = s.global_step
  /\ s.tokens_seen = Accumulation * s.global_step
FileCounters(s) == s # NoCheckpoint => Counters(s)

\* The micro-batches drawn are those of applied steps and of skips.
LoaderAgrees(s) == s.loader = Accumulation * (s.global_step + s.skipped_steps)
FileLoader(s) == s # NoCheckpoint => LoaderAgrees(s)

CountersInv ==
  /\ Counters(eng)
  /\ FileCounters(latest) /\ FileCounters(latestSettled) /\ FileCounters(best_val)
  /\ FileCounters(bestValSettled) /\ FileCounters(crash) /\ FileCounters(crashSettled)
  /\ ~ retried =>
       /\ pc \notin Broken => LoaderAgrees(eng)
       /\ FileLoader(latest) /\ FileLoader(latestSettled)

\* One more of n times a.
LEMMA TimesSucc ==
  ASSUME NEW a \in Nat, NEW n \in Nat
  PROVE  a * (n + 1) = a * n + a
  OBVIOUS

\* Append adds one element.
LEMMA LenAppend ==
  ASSUME NEW S, NEW s \in Seq(S), NEW x \in S
  PROVE  Len(Append(s, x)) = Len(s) + 1
  OBVIOUS

\* An applied step keeps the counters together, a skip moves the loader and its own count.
LEMMA CountedAgrees ==
  ASSUME NEW e \in States, Counters(e), CountsAsApplied(e)
  PROVE  /\ Counters(Counted(e))
         /\ LoaderAgrees(e) => LoaderAgrees(Counted(e))
<1>1. /\ e.global_step \in Nat /\ e.skipped_steps \in Nat /\ e.scale \in Nat
      /\ e.params \in Seq([batches : Nat, rng : Nat, schedule : Nat])
  BY DEF States
<1>2. NextScale(e) > 0 => Len(NextParams(e)) = e.global_step + 1
  <2> SUFFICES ASSUME NextScale(e) > 0 PROVE Len(NextParams(e)) = e.global_step + 1
    OBVIOUS
  <2>1. e.scale > 0
    BY <1>1 DEF CountsAsApplied, NextScale, Overflows
  <2>2. Len(e.params) = e.global_step
    BY <2>1 DEF Counters
  <2> DEFINE u == [batches |-> e.loader, rng |-> e.rng, schedule |-> e.schedule]
  <2>3. NextParams(e) = Append(e.params, u)
    BY AppliedMovesParams
  <2>4. u \in [batches : Nat, rng : Nat, schedule : Nat]
    BY DEF States
  <2> HIDE DEF u
  <2>5. QED
    BY <1>1, <2>2, <2>3, <2>4, LenAppend
<1>3. Accumulation * (e.global_step + 1) = Accumulation * e.global_step + Accumulation
  BY <1>1, TimesSucc, Counts
<1>4. Counters(Counted(e))
  BY <1>2, <1>3, CountedIs DEF Counters
<1>5. Accumulation * (e.global_step + 1 + e.skipped_steps)
        = Accumulation * (e.global_step + e.skipped_steps) + Accumulation
  <2>1. e.global_step + 1 + e.skipped_steps = (e.global_step + e.skipped_steps) + 1
    BY <1>1
  <2>2. e.global_step + e.skipped_steps \in Nat
    BY <1>1
  <2>3. QED
    BY <2>1, <2>2, TimesSucc, Counts
<1>6. LoaderAgrees(e) => LoaderAgrees(Counted(e))
  BY <1>5, CountedIs DEF LoaderAgrees
<1>7. QED
  BY <1>4, <1>6

\* So does a skip, in the engine and in the crash checkpoint.
LEMMA SkippedAgrees ==
  ASSUME NEW e \in States, Counters(e), ~ CountsAsApplied(e)
  PROVE  /\ Counters(Skipped(e))
         /\ \A c : Rewound(c, e) => Counters(c)
         /\ LoaderAgrees(e) => LoaderAgrees(Skipped(e))
<1>1. /\ e.global_step \in Nat /\ e.skipped_steps \in Nat /\ e.scale \in Nat
      /\ NextScale(e) \in Nat
  BY NumericsType DEF States
<1>2. NextParams(e) = e.params /\ (NextScale(e) > 0 => e.scale > 0)
  BY <1>1, NotAppliedKeepsParams DEF CountsAsApplied
<1>3. Counters(Skipped(e)) /\ \A c : Rewound(c, e) => Counters(c)
  BY <1>2, SkippedIs DEF Counters, Rewound
<1>4. Accumulation * (e.global_step + (e.skipped_steps + 1))
        = Accumulation * (e.global_step + e.skipped_steps) + Accumulation
  <2>1. e.global_step + (e.skipped_steps + 1) = (e.global_step + e.skipped_steps) + 1
    BY <1>1
  <2>2. e.global_step + e.skipped_steps \in Nat
    BY <1>1
  <2>3. QED
    BY <2>1, <2>2, TimesSucc, Counts
<1>5. LoaderAgrees(e) => LoaderAgrees(Skipped(e))
  BY <1>4, SkippedIs DEF LoaderAgrees
<1>6. QED
  BY <1>3, <1>5

\* The counters of a new engine are all 0.
LEMMA FreshAgrees == Counters(Fresh) /\ LoaderAgrees(Fresh)
<1>1. Len(<<>>) = 0 /\ Accumulation * 0 = 0
  BY Counts
<1>2. QED
  BY <1>1, Counts DEF Counters, LoaderAgrees, Fresh

\* Every step keeps the counters of the engine and of the files together.
LEMMA CountersStep == TypeInv /\ StepInv /\ CountersInv /\ [Next]_vars => CountersInv'
<1> SUFFICES ASSUME TypeInv, StepInv, CountersInv, [Next]_vars PROVE CountersInv'
  OBVIOUS
<1> USE DEF CountersInv, FileCounters, FileLoader, Broken
<1>1. CASE AttemptNonFinite
  <2>1. Counters(eng')
    BY <1>1, NonFiniteStep, AfterDrawIs DEF Counters, TypeInv
  <2>2. QED
    BY <1>1, <2>1, NonFiniteStep DEF Unsaved
<1>2. CASE AttemptSkipped
  BY <1>2, SkippedStep, SkippedAgrees DEF TypeInv, Unsaved
<1>3. CASE AttemptApplied
  BY <1>3, CountedAgrees DEF TypeInv, AttemptApplied, Attempt, disk
<1>4. CASE Validate
  <2>1. Counters(eng') /\ (LoaderAgrees(eng) => LoaderAgrees(eng'))
    BY <1>4, ValidateStep DEF Counters, LoaderAgrees, Improved
  <2>2. QED
    BY <1>4, <2>1, ValidateStep
<1>5. CASE Checkpoint \/ SaveCheckpoint
  BY <1>5, SaveStep
<1>6. CASE TrainReturns
  BY <1>6 DEF TrainReturns, disk
<1>7. CASE SaveReturns
  BY <1>7 DEF SaveReturns, Return, Latest!Settle, BestVal!Settle, CrashFile!Settle
<1>8. CASE SaveRaises
  BY <1>8 DEF SaveRaises, disk
<1>9. CASE \E n \in 1 .. MaxSteps : Train(n)
  BY <1>9 DEF Train, disk
<1>10. CASE Kill \/ PowerLoss
  BY <1>10, FreshAgrees
     DEF Kill, PowerLoss, MemoryLost, disk,
         Latest!PowerLoss, BestVal!PowerLoss, CrashFile!PowerLoss
<1>11. CASE Restart \/ RestartFromCrash
  <2>1. Counters(eng') /\ (~ retried' => LoaderAgrees(eng') /\ ~ retried)
    <3>1. CASE retried' = retried /\ latest = NoCheckpoint /\ eng' = Fresh
      BY <3>1, FreshAgrees, Zenon
    <3>2. CASE retried' = retried /\ latest # NoCheckpoint /\ eng' = latest
      BY <3>2, Zenon
    <3>3. CASE retried' = TRUE /\ crash # NoCheckpoint /\ eng' = crash
      BY <3>3, Zenon
    <3>4. QED
      BY <1>11, <3>1, <3>2, <3>3, RestartStep
  <2>2. QED
    BY <1>11, <2>1, RestartStep DEF disk
<1>12. CASE UNCHANGED vars
  BY <1>12 DEF vars, disk
<1>13. QED
  BY <1>1, <1>2, <1>3, <1>4, <1>5, <1>6, <1>7, <1>8, <1>9, <1>10, <1>11, <1>12 DEF Next, TrainLoop

-----------------------------------------------------------------------------
(* The best validation loss                                                *)

\* A best_val.pt at least as good as loss, unless no loss was ever measured.
Backed(file, loss) ==
  loss # Infinity => file # NoCheckpoint /\ file.best_val_loss <= loss

\* Whatever a power loss leaves of one name must back whatever it leaves of the other.
\* Between the publication of best_val.pt and its fsync only the published one backs
\* the engine, and no checkpoint of that engine can have been saved yet.
BackedFile(file) ==
  file # NoCheckpoint =>
    Backed(best_val, file.best_val_loss) /\ Backed(bestValSettled, file.best_val_loss)
NotBehind(file) == file # NoCheckpoint => eng.best_val_loss <= file.best_val_loss

BestInv ==
  ~ retried =>
    /\ latestSettled # NoCheckpoint =>
         latest # NoCheckpoint /\ latest.best_val_loss <= latestSettled.best_val_loss
    /\ BackedFile(latest) /\ BackedFile(latestSettled)
    /\ pc \notin {"failed", "dead"} =>
         /\ NotBehind(latest) /\ NotBehind(latestSettled)
         /\ Backed(best_val, eng.best_val_loss)
         /\ pc # "save_best_val" => Backed(bestValSettled, eng.best_val_loss)

\* Every best_val_loss is a number.
LEMMA LossTypes ==
  ASSUME TypeInv
  PROVE  /\ eng.best_val_loss \in Nat /\ Infinity \in Nat
         /\ \A s \in {latest, latestSettled, best_val, bestValSettled, crash, crashSettled} :
              s # NoCheckpoint => s \in States /\ s.best_val_loss \in Nat
  BY Counts DEF TypeInv, IsCheckpoint, States

\* Every step keeps the losses backed.
LEMMA BestStep == TypeInv /\ StepInv /\ BestInv /\ [Next]_vars => BestInv'
<1> SUFFICES ASSUME TypeInv, StepInv, BestInv, [Next]_vars, ~ retried' PROVE BestInv'
  BY DEF BestInv
<1> USE DEF BestInv, BackedFile, NotBehind, Backed
<1>0. /\ eng.best_val_loss \in Nat /\ Infinity \in Nat
      /\ \A s \in {latest, latestSettled, best_val, bestValSettled, crash, crashSettled} :
           s # NoCheckpoint => s \in States /\ s.best_val_loss \in Nat
  BY LossTypes
<1>1. CASE AttemptNonFinite
  <2>1. eng'.best_val_loss = eng.best_val_loss /\ pc' # "save_best_val"
    BY <1>1, NonFiniteStep, AfterDrawIs DEF TypeInv
  <2>2. QED
    BY <1>1, <2>1, NonFiniteStep DEF Unsaved
<1>2. CASE AttemptSkipped
  <2>1. eng'.best_val_loss = eng.best_val_loss /\ pc' # "save_best_val"
    BY <1>2, SkippedStep, SkippedIs DEF TypeInv
  <2>2. QED
    BY <1>2, <2>1, SkippedStep DEF Unsaved
<1>3. CASE AttemptApplied
  <2>1. eng'.best_val_loss = eng.best_val_loss
    BY <1>3, CountedIs DEF TypeInv, AttemptApplied
  <2>2. QED
    BY <1>3, <2>1 DEF AttemptApplied, Attempt, disk
<1>4. CASE Validate
  <2> DEFINE loss == world.val[eng.global_step]
  <2>1. loss \in Nat /\ loss < Infinity
    BY <1>0, <1>4, ValidationLoss DEF Validate
  <2> HIDE DEF loss
  <2>2. CASE eng' = eng /\ best_val' = best_val /\ pc' = "checkpoint"
    BY <1>4, <2>2, ValidateStep
  <2>3. CASE /\ loss < eng.best_val_loss /\ Improved(eng', eng, loss)
             /\ best_val' = eng' /\ pc' = "save_best_val"
    <3>1. /\ best_val' # NoCheckpoint /\ best_val'.best_val_loss = loss
          /\ eng'.best_val_loss = loss
      BY <2>3, NoCheckpointAssumption DEF Improved
    <3>2. UNCHANGED <<latest, latestSettled, bestValSettled, retried>> /\ pc = "validate"
      BY <1>4, ValidateStep
    <3>3. QED
      BY <1>0, <2>1, <2>3, <3>1, <3>2
  <2>4. CASE best_val' = best_val /\ pc' = "failed"
    BY <1>4, <2>4, ValidateStep
  <2>5. QED
    BY <1>4, <2>2, <2>3, <2>4, ValidateStep DEF loss
<1>5. CASE Checkpoint \/ SaveCheckpoint
  <2>1. /\ UNCHANGED <<eng, retried, latestSettled, best_val, bestValSettled>>
        /\ pc \in {"checkpoint", "idle"} /\ pc' # "save_best_val"
    BY <1>5, SaveStep
  <2>2. CASE latest' = eng
    <3>1. latest' # NoCheckpoint
      BY <2>2, NoCheckpointAssumption DEF TypeInv
    <3>2. QED
      BY <1>0, <2>1, <2>2, <3>1
  <2>3. CASE latest' = latest
    BY <2>1, <2>3
  <2>4. QED
    BY <1>5, <2>2, <2>3, SaveStep
<1>6. CASE TrainReturns
  BY <1>6 DEF TrainReturns, disk
<1>7. CASE SaveReturns
  BY <1>0, <1>7 DEF SaveReturns, Return, Latest!Settle, BestVal!Settle, CrashFile!Settle
<1>8. CASE SaveRaises
  BY <1>8 DEF SaveRaises, disk
<1>9. CASE \E n \in 1 .. MaxSteps : Train(n)
  BY <1>9 DEF Train, disk
<1>10. CASE Kill \/ PowerLoss
  BY <1>0, <1>10
     DEF Kill, PowerLoss, MemoryLost, disk,
         Latest!PowerLoss, BestVal!PowerLoss, CrashFile!PowerLoss
<1>11. CASE Restart \/ RestartFromCrash
  <2>1. ~ retried /\ UNCHANGED disk /\ pc' = "idle"
    BY <1>11 DEF Restart, RestartFromCrash
  <2>2. CASE latest = NoCheckpoint /\ eng' = Fresh
    <3>1. eng'.best_val_loss = Infinity
      BY <2>2 DEF Fresh
    <3>2. QED
      BY <2>1, <2>2, <3>1 DEF disk
  <2>3. CASE latest # NoCheckpoint /\ eng' = latest
    BY <1>0, <2>1, <2>3 DEF disk
  <2>4. QED
    BY <1>11, <2>1, <2>2, <2>3, RestartStep
<1>12. CASE UNCHANGED vars
  BY <1>12 DEF vars, disk
<1>13. QED
  BY <1>1, <1>2, <1>3, <1>4, <1>5, <1>6, <1>7, <1>8, <1>9, <1>10, <1>11, <1>12 DEF Next, TrainLoop

\* A state has a best_val_loss as good as every evaluation up to step n.
KnowsUpTo(s, n) == \A k \in Evaluated : k <= n => s.best_val_loss <= world.val[k]
FileKnows(file) == file # NoCheckpoint => KnowsUpTo(file, file.global_step)

\* The engine knows every evaluation made, but for the step it is about to validate.
KnowsInv ==
  /\ KnowsUpTo(eng, IF pc = "validate" THEN eng.global_step - 1 ELSE eng.global_step)
  /\ FileKnows(latest) /\ FileKnows(latestSettled) /\ FileKnows(best_val)
  /\ FileKnows(bestValSettled) /\ FileKnows(crash) /\ FileKnows(crashSettled)

\* A new engine has no evaluation to know.
LEMMA FreshKnows == KnowsUpTo(Fresh, Fresh.global_step)
<1>1. Fresh.global_step = 0
  BY DEF Fresh
<1>2. \A k \in Evaluated : k \in Nat /\ k > 0
  BY Counts DEF Evaluated
<1>3. QED
  BY <1>1, <1>2 DEF KnowsUpTo

\* Every step keeps what the engine and the files know.
LEMMA KnowsStep == TypeInv /\ StepInv /\ KnowsInv /\ [Next]_vars => KnowsInv'
<1> SUFFICES ASSUME TypeInv, StepInv, KnowsInv, [Next]_vars PROVE KnowsInv'
  OBVIOUS
<1> USE DEF KnowsInv, FileKnows
<1>0. /\ world' = world /\ eng \in States /\ eng.global_step \in Nat
      /\ \A k \in Evaluated : k \in 1 .. MaxSteps /\ k \in Nat
      /\ \A k \in Evaluated : world.val[k] \in Nat
  <2>1. world' = world
    BY DEF Next, TrainLoop, AttemptNonFinite, AttemptSkipped, AttemptApplied, Attempt, Validate,
           Checkpoint, TrainReturns, SaveReturns, SaveRaises, Train, SaveCheckpoint, Kill,
           PowerLoss, Restart, RestartFromCrash, vars
  <2>2. world.val \in [1 .. MaxSteps -> 0 .. Infinity - 1]
    BY WorldsAssumption DEF TypeInv
  <2>3. eng \in States /\ eng.global_step \in Nat
    BY DEF TypeInv, States
  <2>4. QED
    BY <2>1, <2>2, <2>3, Counts DEF Evaluated
<1>1. CASE AttemptNonFinite
  <2>1. KnowsUpTo(eng, eng.global_step) /\ pc' # "validate"
    BY <1>1, NonFiniteStep
  <2>2. KnowsUpTo(eng, eng.global_step)'
    BY <1>0, <1>1, <2>1, NonFiniteStep, AfterDrawIs DEF KnowsUpTo
  <2>3. QED
    BY <1>0, <1>1, <2>1, <2>2, NonFiniteStep DEF Unsaved, KnowsUpTo
<1>2. CASE AttemptSkipped
  <2>1. KnowsUpTo(eng, eng.global_step) /\ pc' # "validate"
    BY <1>2, SkippedStep
  <2>2. KnowsUpTo(eng, eng.global_step)'
    BY <1>0, <1>2, <2>1, SkippedStep, SkippedIs DEF KnowsUpTo
  <2>3. QED
    BY <1>0, <1>2, <2>1, <2>2, SkippedStep DEF Unsaved, KnowsUpTo, Rewound
<1>3. CASE AttemptApplied
  <2>1. KnowsUpTo(eng, eng.global_step) /\ pc' = "validate" /\ eng' = Counted(eng) /\ UNCHANGED disk
    BY <1>3 DEF AttemptApplied, Attempt
  <2>2. eng'.global_step - 1 = eng.global_step /\ eng'.best_val_loss = eng.best_val_loss
    BY <1>0, <2>1, CountedIs
  <2>3. QED
    BY <1>0, <2>1, <2>2 DEF KnowsUpTo, disk
<1>4. CASE Validate
  <2> DEFINE loss == world.val[eng.global_step]
  <2>1. /\ pc = "validate" /\ KnowsUpTo(eng, eng.global_step - 1)
        /\ loss \in Nat /\ eng.best_val_loss \in Nat
        /\ UNCHANGED <<latest, latestSettled, crash, crashSettled, bestValSettled>>
        /\ pc' # "validate"
    BY <1>4, ValidateStep, ValidationLoss, LossTypes
  <2>2. \A k \in Evaluated : k <= eng.global_step =>
           k <= eng.global_step - 1 \/ (k = eng.global_step /\ Due(EvalEvery))
    BY <1>0 DEF Evaluated, Due
  <2>3. CASE eng' = eng /\ best_val' = best_val /\ (Due(EvalEvery) => eng.best_val_loss <= loss)
    <3>1. KnowsUpTo(eng, eng.global_step)
      BY <2>1, <2>2, <2>3 DEF KnowsUpTo
    <3>2. QED
      BY <1>0, <2>1, <2>3, <3>1 DEF KnowsUpTo
  <2>4. CASE /\ loss < eng.best_val_loss /\ Improved(eng', eng, loss)
             /\ best_val' \in {eng', best_val}
    <3>1. eng'.best_val_loss = loss /\ eng'.global_step = eng.global_step
      BY <2>4 DEF Improved
    <3>2. \A k \in Evaluated : k <= eng'.global_step => eng'.best_val_loss <= world.val[k]
      <4> SUFFICES ASSUME NEW k \in Evaluated, k <= eng.global_step PROVE loss <= world.val[k]
        BY <3>1
      <4>1. CASE k <= eng.global_step - 1
        <5>1. eng.best_val_loss <= world.val[k]
          BY <2>1, <4>1 DEF KnowsUpTo
        <5> HIDE DEF loss
        <5>2. QED
          BY <1>0, <2>1, <2>4, <5>1
      <4>2. CASE k = eng.global_step
        BY <2>1, <4>2
      <4>3. QED
        BY <2>2, <4>1, <4>2
    <3>3. KnowsUpTo(eng, eng.global_step)'
      BY <1>0, <3>2 DEF KnowsUpTo
    <3>4. QED
      BY <1>0, <2>1, <2>4, <3>3 DEF KnowsUpTo
  <2>5. QED
    BY <1>4, <2>3, <2>4, ValidateStep
<1>5. CASE Checkpoint \/ SaveCheckpoint
  BY <1>0, <1>5, SaveStep DEF KnowsUpTo
<1>6. CASE TrainReturns
  BY <1>0, <1>6 DEF TrainReturns, disk, KnowsUpTo
<1>7. CASE SaveReturns
  BY <1>0, <1>7
     DEF SaveReturns, Return, Latest!Settle, BestVal!Settle, CrashFile!Settle, KnowsUpTo
<1>8. CASE SaveRaises
  BY <1>0, <1>8 DEF SaveRaises, Return, disk, KnowsUpTo
<1>9. CASE \E n \in 1 .. MaxSteps : Train(n)
  BY <1>0, <1>9 DEF Train, disk, KnowsUpTo
<1>10. CASE Kill \/ PowerLoss
  <2>1. KnowsUpTo(Fresh, Fresh.global_step)' /\ eng' = Fresh /\ pc' = "dead"
    BY <1>0, <1>10, FreshKnows DEF Kill, PowerLoss, MemoryLost, KnowsUpTo, Fresh
  <2>2. QED
    BY <1>0, <1>10, <2>1
       DEF Kill, PowerLoss, disk, KnowsUpTo,
           Latest!PowerLoss, BestVal!PowerLoss, CrashFile!PowerLoss
<1>11. CASE Restart \/ RestartFromCrash
  <2>1. KnowsUpTo(eng', eng'.global_step)
    BY <1>11, FreshKnows, RestartStep, Zenon
  <2>2. QED
    BY <1>0, <1>11, <2>1, RestartStep DEF disk, KnowsUpTo
<1>12. CASE UNCHANGED vars
  BY <1>12 DEF vars, disk, KnowsUpTo
<1>13. QED
  BY <1>1, <1>2, <1>3, <1>4, <1>5, <1>6, <1>7, <1>8, <1>9, <1>10, <1>11, <1>12 DEF Next, TrainLoop

-----------------------------------------------------------------------------
(* Replays                                                                 *)

\* What decides the updates an engine will make: its numbers and its row of skips.
Position(e, skips) ==
  [params |-> e.params, schedule |-> e.schedule, scale |-> e.scale, growth |-> e.growth,
   global_step |-> e.global_step, rng |-> e.rng, loader |-> e.loader, skips |-> skips]

Positions ==
  [params : Seq([batches : Nat, rng : Nat, schedule : Nat]), schedule : Nat, scale : Nat,
   growth : Nat, global_step : Nat, rng : Nat, loader : Nat, skips : Nat]

Stops(p) == ~ LossFinite(p) \/ (~ world.fp16 /\ ~ GradientsFinite(p))

\* The only position an attempt can lead to: the next of the run, or the one that the
\* crash checkpoint of a run that stops starts again from.
Successor(p) ==
  IF Stops(p) THEN
    [params |-> p.params, schedule |-> p.schedule, scale |-> p.scale, growth |-> p.growth,
     global_step |-> p.global_step, rng |-> p.rng, loader |-> p.loader, skips |-> 0]
  ELSE IF CountsAsApplied(p) THEN
    [params |-> NextParams(p), schedule |-> p.schedule + 1, scale |-> NextScale(p),
     growth |-> NextGrowth(p), global_step |-> p.global_step + 1,
     rng |-> p.rng + Accumulation, loader |-> p.loader + Accumulation, skips |-> 0]
  ELSE IF p.skips + 1 < MaxConsecutiveSkips THEN
    [params |-> p.params, schedule |-> p.schedule, scale |-> NextScale(p),
     growth |-> NextGrowth(p), global_step |-> p.global_step,
     rng |-> p.rng + Accumulation, loader |-> p.loader + Accumulation, skips |-> p.skips + 1]
  ELSE
    [params |-> p.params, schedule |-> p.schedule, scale |-> NextScale(p),
     growth |-> NextGrowth(p), global_step |-> p.global_step,
     rng |-> p.rng, loader |-> p.loader, skips |-> 0]

\* q is the way of one run: every process is somewhere on it.
Way(n, q) ==
  /\ q \in [1 .. n -> Positions]
  /\ q[1] = Position(Fresh, 0)
  /\ \A i \in 1 .. n - 1 : q[i + 1] = Successor(q[i])
  /\ \A i, j \in 1 .. n : i <= j => q[i].global_step <= q[j].global_step

On(n, q, p) == \E i \in 1 .. n : q[i] = p
FileOn(n, q, file) == file # NoCheckpoint => On(n, q, Position(file, 0))

\* The update is that of an applied step on the way.
Made(n, q, u) ==
  \E i \in 1 .. n - 1 :
    /\ q[i + 1].global_step = q[i].global_step + 1
    /\ u = [step |-> q[i + 1].global_step, params |-> q[i + 1].params]

Covers(n, q) ==
  /\ pc \notin Broken => On(n, q, Position(eng, consecutive))
  /\ FileOn(n, q, latest) /\ FileOn(n, q, latestSettled) /\ FileOn(n, q, best_val)
  /\ FileOn(n, q, bestValSettled) /\ FileOn(n, q, crash) /\ FileOn(n, q, crashSettled)
  /\ \A u \in applied : Made(n, q, u)

ReplayInv == \E n \in Nat \ {0} : \E q : Way(n, q) /\ Covers(n, q)

\* The operators of an attempt only look at the position.
LEMMA PositionDecides ==
  ASSUME NEW e \in States, NEW c \in Nat
  PROVE  /\ Position(e, c) \in Positions
         /\ Stops(Position(e, c)) <=> Stops(e)
         /\ CountsAsApplied(Position(e, c)) <=> CountsAsApplied(e)
         /\ NextScale(Position(e, c)) = NextScale(e)
         /\ NextGrowth(Position(e, c)) = NextGrowth(e)
         /\ NextParams(Position(e, c)) = NextParams(e)
<1> DEFINE p == Position(e, c)
<1>1. /\ p.params = e.params /\ p.schedule = e.schedule /\ p.scale = e.scale
      /\ p.growth = e.growth /\ p.global_step = e.global_step
      /\ p.rng = e.rng /\ p.loader = e.loader /\ p.skips = c
  BY DEF Position
<1>2. p \in Positions
  BY DEF Position, Positions, States
<1> HIDE DEF p
<1>3. Drawn(p) = Drawn(e)
  BY <1>1 DEF Drawn
<1>4. (LossFinite(p) <=> LossFinite(e)) /\ (GradientsFinite(p) <=> GradientsFinite(e))
  BY <1>3 DEF LossFinite, GradientsFinite
<1>5. Overflows(p) <=> Overflows(e)
  BY <1>1, <1>3 DEF Overflows
<1>6. NextScale(p) = NextScale(e)
  BY <1>1, <1>5 DEF NextScale
<1>7. NextGrowth(p) = NextGrowth(e) /\ NextParams(p) = NextParams(e)
  BY <1>1, <1>5 DEF NextGrowth, NextParams
<1>8. CountsAsApplied(p) <=> CountsAsApplied(e)
  BY <1>1, <1>6 DEF CountsAsApplied
<1>9. Stops(p) <=> Stops(e)
  BY <1>4 DEF Stops
<1>10. QED
  BY <1>2, <1>6, <1>7, <1>8, <1>9 DEF p

\* The successor is a position, at the same step or one further.
LEMMA SuccessorType ==
  ASSUME NEW p \in Positions
  PROVE  /\ Successor(p) \in Positions
         /\ Successor(p).global_step \in {p.global_step, p.global_step + 1}
<1>1. /\ NextScale(p) \in Nat /\ NextGrowth(p) \in Nat
      /\ NextParams(p) \in Seq([batches : Nat, rng : Nat, schedule : Nat])
  <2>1. NextScale(p) \in Nat
    BY DEF NextScale, Positions
  <2>2. NextGrowth(p) \in Nat
    BY DEF NextGrowth, Positions
  <2> DEFINE U == [batches : Nat, rng : Nat, schedule : Nat]
             u == [batches |-> p.loader, rng |-> p.rng, schedule |-> p.schedule]
  <2>3. p.params \in Seq(U) /\ u \in U
    BY DEF Positions
  <2> HIDE DEF U, u
  <2>4. Append(p.params, u) \in Seq(U)
    BY <2>3
  <2>5. NextParams(p) \in Seq(U)
    BY <2>3, <2>4 DEF NextParams, u
  <2>6. QED
    BY <2>1, <2>2, <2>5 DEF U
<1>2. /\ p.params \in Seq([batches : Nat, rng : Nat, schedule : Nat])
      /\ p.schedule \in Nat /\ p.scale \in Nat /\ p.growth \in Nat /\ p.global_step \in Nat
      /\ p.rng \in Nat /\ p.loader \in Nat /\ p.skips \in Nat
  BY DEF Positions
<1>3. /\ p.schedule + 1 \in Nat /\ p.global_step + 1 \in Nat /\ p.skips + 1 \in Nat
      /\ p.rng + Accumulation \in Nat /\ p.loader + Accumulation \in Nat
  <2>1. p.schedule + 1 \in Nat /\ p.global_step + 1 \in Nat /\ p.skips + 1 \in Nat
    BY <1>2
  <2>2. Accumulation \in Nat
    BY Counts
  <2>3. p.rng + Accumulation \in Nat /\ p.loader + Accumulation \in Nat
    BY <1>2, <2>2
  <2>4. QED
    BY <2>1, <2>3
<1>4. PICK g \in Nat, k \in Nat, r \in Nat, d \in Nat :
        g = p.schedule + 1 /\ k = p.skips + 1 /\ r = p.rng + Accumulation /\ d = p.loader + Accumulation
  BY <1>3
<1>5. PICK h \in Nat : h = p.global_step + 1
  BY <1>3
<1>6. CASE Stops(p)
  BY <1>2, <1>6 DEF Successor, Positions
<1>7. CASE ~ Stops(p) /\ CountsAsApplied(p)
  BY <1>1, <1>4, <1>5, <1>7 DEF Successor, Positions
<1>8. CASE ~ Stops(p) /\ ~ CountsAsApplied(p)
  BY <1>1, <1>2, <1>4, <1>8 DEF Successor, Positions
<1>9. QED
  BY <1>6, <1>7, <1>8

\* Stops is the guard of the non-finite attempt.
LEMMA StopsIs == Stops(eng) <=> StopsOnNonFinite
  BY DEF Stops, StopsOnNonFinite

\* An attempt that stops leads to the successor in its crash checkpoint.
LEMMA NonFinitePosition ==
  ASSUME TypeInv, AttemptNonFinite
  PROVE  Successor(Position(eng, consecutive)) = Position(eng, 0)
<1>1. Stops(Position(eng, consecutive))
  BY NonFiniteStep, StopsIs, PositionDecides DEF TypeInv
<1>2. QED
  BY <1>1 DEF Successor, Position

\* A skip leads to the successor, in the engine or in the crash checkpoint.
LEMMA SkippedPosition ==
  ASSUME TypeInv, AttemptSkipped
  PROVE  /\ pc' = "train" => Successor(Position(eng, consecutive)) = Position(eng', consecutive')
         /\ pc' = "save_crash" => Successor(Position(eng, consecutive)) = Position(crash', 0)
<1> DEFINE p == Position(eng, consecutive)
<1>1. /\ eng \in States /\ consecutive \in Nat
      /\ ~ Stops(p) /\ ~ CountsAsApplied(p)
      /\ NextScale(p) = NextScale(eng) /\ NextGrowth(p) = NextGrowth(eng)
      /\ NextParams(eng) = eng.params
  BY SkippedStep, StopsIs, PositionDecides, NotAppliedKeepsParams DEF TypeInv
<1>2. /\ p.params = eng.params /\ p.schedule = eng.schedule /\ p.global_step = eng.global_step
      /\ p.rng = eng.rng /\ p.loader = eng.loader /\ p.skips = consecutive
  BY DEF Position
<1> HIDE DEF p
<1>3. ASSUME pc' = "train" PROVE Successor(p) = Position(eng', consecutive')
  <2>1. consecutive' = consecutive + 1 /\ consecutive + 1 < MaxConsecutiveSkips /\ eng' = Skipped(eng)
    BY <1>3, SkippedStep
  <2>2. QED
    BY <1>1, <1>2, <2>1, SkippedIs DEF Successor, Position
<1>4. ASSUME pc' = "save_crash" PROVE Successor(p) = Position(crash', 0)
  <2>1. Rewound(crash', eng) /\ ~ (consecutive + 1 < MaxConsecutiveSkips)
    BY <1>1, <1>4, SkippedStep, Counts
  <2>2. QED
    BY <1>1, <1>2, <2>1 DEF Successor, Position, Rewound
<1>5. QED
  BY <1>3, <1>4 DEF p

\* An applied step leads to the successor in the engine.
LEMMA AppliedPosition ==
  ASSUME TypeInv, AttemptApplied
  PROVE  Successor(Position(eng, consecutive)) = Position(eng', consecutive')
<1> DEFINE p == Position(eng, consecutive)
<1>1. /\ eng \in States /\ consecutive \in Nat /\ eng' = Counted(eng) /\ consecutive' = 0
      /\ ~ Stops(p) /\ CountsAsApplied(p)
      /\ NextScale(p) = NextScale(eng) /\ NextGrowth(p) = NextGrowth(eng)
      /\ NextParams(p) = NextParams(eng)
  BY StopsIs, PositionDecides DEF TypeInv, AttemptApplied
<1>2. /\ p.schedule = eng.schedule /\ p.global_step = eng.global_step
      /\ p.rng = eng.rng /\ p.loader = eng.loader
  BY DEF Position
<1> HIDE DEF p
<1>3. Successor(p) = Position(eng', consecutive')
  BY <1>1, <1>2, CountedIs DEF Successor, Position
<1>4. QED
  BY <1>3 DEF p

\* r has all positions of q, and perhaps more.
Extends(m, r, n, q) == n <= m /\ \A i \in 1 .. n : r[i] = q[i]

\* From any position of a way the next one is on it or on a longer one.
LEMMA WayGoesOn ==
  ASSUME NEW n \in Nat \ {0}, NEW q, Way(n, q), NEW i \in 1 .. n
  PROVE  \E m \in Nat \ {0} : \E r :
           Way(m, r) /\ Extends(m, r, n, q) /\ i \in 1 .. m - 1 /\ r[i + 1] = Successor(q[i])
<1>1. CASE i < n
  <2>1. i \in 1 .. n - 1 /\ q[i + 1] = Successor(q[i]) /\ Extends(n, q, n, q)
    BY <1>1 DEF Way, Extends
  <2>2. QED
    BY <2>1
<1>2. CASE i = n
  <2> DEFINE r == [k \in 1 .. n + 1 |-> IF k <= n THEN q[k] ELSE Successor(q[n])]
  <2>1. /\ \A k \in 1 .. n : r[k] = q[k] /\ q[k] \in Positions
        /\ r[n + 1] = Successor(q[n]) /\ Successor(q[n]) \in Positions
        /\ Successor(q[n]).global_step \in {q[n].global_step, q[n].global_step + 1}
    <3>1. \A k \in 1 .. n : k \in 1 .. n + 1 /\ k <= n /\ q[k] \in Positions
      BY DEF Way
    <3>2. q[n] \in Positions
      BY <3>1
    <3>3. QED
      BY <3>1, <3>2, SuccessorType
  <2>2. r \in [1 .. n + 1 -> Positions]
    BY <2>1
  <2> HIDE DEF r
  <2>3. r[1] = Position(Fresh, 0)
    BY <2>1 DEF Way
  <2>4. \A k \in 1 .. n + 1 - 1 : r[k + 1] = Successor(r[k])
    <3> SUFFICES ASSUME NEW k \in 1 .. n PROVE r[k + 1] = Successor(r[k])
      OBVIOUS
    <3>1. CASE k < n
      <4>1. k \in 1 .. n - 1 /\ k + 1 \in 1 .. n
        BY <3>1
      <4>2. QED
        BY <2>1, <4>1 DEF Way
    <3>2. CASE k = n
      BY <2>1, <3>2
    <3>3. QED
      BY <3>1, <3>2
  <2>5. \A j, k \in 1 .. n + 1 : j <= k => r[j].global_step <= r[k].global_step
    <3> SUFFICES ASSUME NEW j \in 1 .. n + 1, NEW k \in 1 .. n + 1, j <= k
                 PROVE r[j].global_step <= r[k].global_step
      OBVIOUS
    <3>1. \A x \in 1 .. n + 1 : r[x].global_step \in Nat
      BY <2>2 DEF Positions
    <3>2. CASE k <= n
      <4>1. j \in 1 .. n /\ k \in 1 .. n
        BY <3>2
      <4>2. QED
        BY <2>1, <4>1 DEF Way
    <3>3. CASE j = n + 1 /\ k = n + 1
      BY <3>1, <3>3
    <3>4. CASE j <= n /\ k = n + 1
      <4>1. j \in 1 .. n /\ n \in 1 .. n
        BY <3>4
      <4>2. q[j].global_step <= q[n].global_step
        BY <4>1 DEF Way
      <4>3. q[j].global_step \in Nat /\ q[n].global_step \in Nat
        BY <2>1, <4>1 DEF Positions
      <4>4. QED
        BY <2>1, <3>4, <4>1, <4>2, <4>3
    <3>5. QED
      BY <3>2, <3>3, <3>4
  <2>6. Way(n + 1, r) /\ Extends(n + 1, r, n, q)
    BY <2>1, <2>2, <2>3, <2>4, <2>5 DEF Way, Extends
  <2>7. n + 1 \in Nat \ {0} /\ i \in 1 .. n + 1 - 1 /\ r[i + 1] = Successor(q[i])
    BY <1>2, <2>1
  <2>8. QED
    BY <2>6, <2>7
<1>3. QED
  BY <1>1, <1>2

\* What is on a way is on every longer one.
LEMMA ExtendsKeeps ==
  ASSUME NEW n \in Nat \ {0}, NEW q, NEW m \in Nat \ {0}, NEW r, Extends(m, r, n, q)
  PROVE  /\ \A p : On(n, q, p) => On(m, r, p)
         /\ \A file : FileOn(n, q, file) => FileOn(m, r, file)
         /\ \A u : Made(n, q, u) => Made(m, r, u)
<1>1. \A p : On(n, q, p) => On(m, r, p)
  BY DEF On, Extends
<1>2. \A u : Made(n, q, u) => Made(m, r, u)
  <2> SUFFICES ASSUME NEW u, Made(n, q, u) PROVE Made(m, r, u)
    OBVIOUS
  <2>1. PICK i \in 1 .. n - 1 : /\ q[i + 1].global_step = q[i].global_step + 1
                               /\ u = [step |-> q[i + 1].global_step, params |-> q[i + 1].params]
    BY DEF Made
  <2>2. i \in 1 .. m - 1 /\ r[i] = q[i] /\ r[i + 1] = q[i + 1]
    BY DEF Extends
  <2>3. QED
    BY <2>1, <2>2 DEF Made
<1>3. QED
  BY <1>1, <1>2 DEF FileOn

\* The world does not change, and with it the ways.
LEMMA WayStays ==
  ASSUME world' = world
  PROVE  \A n, q : Way(n, q) => Way(n, q)'
<1>1. \A p : (LossFinite(p)' <=> LossFinite(p)) /\ (GradientsFinite(p)' <=> GradientsFinite(p))
  BY DEF LossFinite, GradientsFinite, Drawn
<1>2. \A p : Overflows(p)' <=> Overflows(p)
  BY DEF Overflows, Drawn
<1>3. \A p : NextScale(p)' = NextScale(p)
  BY <1>2 DEF NextScale
<1>4. \A p : NextGrowth(p)' = NextGrowth(p) /\ NextParams(p)' = NextParams(p)
  BY <1>2 DEF NextGrowth, NextParams
<1>5. \A p : (CountsAsApplied(p)' <=> CountsAsApplied(p)) /\ (Stops(p)' <=> Stops(p))
  BY <1>1, <1>3 DEF CountsAsApplied, Stops
<1>6. \A p : Successor(p)' = Successor(p)
  BY <1>3, <1>4, <1>5 DEF Successor
<1>7. QED
  BY <1>6 DEF Way

\* No action touches the world.
LEMMA WorldStays == [Next]_vars => world' = world
  BY DEF Next, TrainLoop, AttemptNonFinite, AttemptSkipped, AttemptApplied, Attempt, Validate,
         Checkpoint, TrainReturns, SaveReturns, SaveRaises, Train, SaveCheckpoint, Kill,
         PowerLoss, Restart, RestartFromCrash, vars

\* An attempt keeps every process on the way, made one position longer if need be.
LEMMA AttemptReplays ==
  ASSUME TypeInv, AttemptNonFinite \/ AttemptSkipped \/ AttemptApplied,
         NEW n \in Nat \ {0}, NEW q, Way(n, q), Covers(n, q)
  PROVE  \E m \in Nat \ {0} : \E r : Way(m, r) /\ Covers(m, r)'
<1>1. On(n, q, Position(eng, consecutive)) /\ pc = "train"
  BY DEF Covers, Broken, AttemptNonFinite, AttemptSkipped, AttemptApplied, Attempt
<1>2. PICK i \in 1 .. n : q[i] = Position(eng, consecutive)
  BY <1>1 DEF On
<1>3. PICK m \in Nat \ {0} : \E r :
        Way(m, r) /\ Extends(m, r, n, q) /\ i \in 1 .. m - 1 /\ r[i + 1] = Successor(q[i])
  BY WayGoesOn
<1>4. PICK r : Way(m, r) /\ Extends(m, r, n, q) /\ i \in 1 .. m - 1 /\ r[i + 1] = Successor(q[i])
  BY <1>3
<1>5. /\ On(m, r, Position(eng, consecutive)) /\ On(m, r, Successor(Position(eng, consecutive)))
      /\ FileOn(m, r, latest) /\ FileOn(m, r, latestSettled) /\ FileOn(m, r, best_val)
      /\ FileOn(m, r, bestValSettled) /\ FileOn(m, r, crash) /\ FileOn(m, r, crashSettled)
      /\ \A u \in applied : Made(m, r, u)
  <2>1. On(m, r, Successor(Position(eng, consecutive)))
    <3>1. i + 1 \in 1 .. m
      BY <1>4
    <3>2. QED
      BY <1>2, <1>4, <3>1 DEF On
  <2>2. QED
    BY <1>1, <1>4, <2>1, ExtendsKeeps DEF Covers
<1>6. CASE AttemptNonFinite
  <2>1. FileOn(m, r, crash')
    BY <1>5, <1>6, NonFiniteStep, NonFinitePosition DEF FileOn
  <2>2. Covers(m, r)'
    BY <1>5, <1>6, <2>1, NonFiniteStep DEF Covers, Broken, Unsaved
  <2>3. QED
    BY <1>4, <2>2
<1>7. CASE AttemptSkipped
  <2>1. FileOn(m, r, crash')
    BY <1>5, <1>7, SkippedStep, SkippedPosition DEF FileOn
  <2>2. pc' \notin Broken => On(m, r, Position(eng', consecutive'))
    BY <1>5, <1>7, SkippedStep, SkippedPosition DEF Broken
  <2>3. Covers(m, r)'
    BY <1>5, <1>7, <2>1, <2>2, SkippedStep DEF Covers, Unsaved
  <2>4. QED
    BY <1>4, <2>3
<1>8. CASE AttemptApplied
  <2> DEFINE u == [step |-> eng'.global_step, params |-> eng'.params]
  <2>1. /\ applied' = applied \cup {u} /\ UNCHANGED disk
        /\ Successor(Position(eng, consecutive)) = Position(eng', consecutive')
        /\ eng'.global_step = eng.global_step + 1
    BY <1>8, AppliedPosition, CountedIs DEF AttemptApplied, TypeInv
  <2>2. Made(m, r, u)
    <3>1. r[i] = Position(eng, consecutive) /\ r[i + 1] = Position(eng', consecutive')
      BY <1>2, <1>4, <2>1 DEF Extends
    <3>2. /\ r[i].global_step = eng.global_step /\ r[i + 1].global_step = eng'.global_step
          /\ r[i + 1].params = eng'.params
      BY <3>1 DEF Position
    <3>3. QED
      BY <1>4, <2>1, <3>2 DEF Made
  <2> HIDE DEF u
  <2>3. Covers(m, r)'
    BY <1>5, <2>1, <2>2 DEF Covers, disk
  <2>4. QED
    BY <1>4, <2>3
<1>9. QED
  BY <1>6, <1>7, <1>8

\* Any other step leaves the engine where it was, puts it back to the beginning of the
\* way, or to the position of a file.
LEMMA OtherReplays ==
  ASSUME TypeInv, StepInv, [Next]_vars, ~ (AttemptNonFinite \/ AttemptSkipped \/ AttemptApplied),
         NEW n \in Nat \ {0}, NEW q, Way(n, q), Covers(n, q)
  PROVE  Covers(n, q)'
<1> USE DEF Covers, FileOn, Broken
<1>1. CASE Validate
  <2>1. CASE eng' = eng /\ best_val' = best_val
    BY <1>1, <2>1, ValidateStep
  <2>2. CASE /\ Improved(eng', eng, world.val[eng.global_step])
             /\ best_val' \in {eng', best_val}
    <3>1. Position(eng', 0) = Position(eng, 0) /\ consecutive = 0 /\ consecutive' = 0
      BY <1>1, <2>2, ValidateStep DEF Improved, Position, StepInv, TypeInv
    <3>2. On(n, q, Position(eng, 0))
      BY <1>1, <3>1, ValidateStep
    <3>3. QED
      BY <1>1, <2>2, <3>1, <3>2, ValidateStep
  <2>3. QED
    BY <1>1, <2>1, <2>2, ValidateStep
<1>2. CASE Checkpoint \/ SaveCheckpoint
  <2>1. consecutive = 0 /\ On(n, q, Position(eng, consecutive))
    BY <1>2, SaveStep DEF StepInv, TypeInv
  <2>2. QED
    BY <1>2, <2>1, SaveStep
<1>3. CASE TrainReturns
  BY <1>3 DEF TrainReturns, disk
<1>4. CASE SaveReturns
  BY <1>4 DEF SaveReturns, Return, Latest!Settle, BestVal!Settle, CrashFile!Settle
<1>5. CASE SaveRaises
  BY <1>5 DEF SaveRaises, disk
<1>6. CASE \E k \in 1 .. MaxSteps : Train(k)
  BY <1>6 DEF Train, disk
<1>7. CASE Kill \/ PowerLoss
  BY <1>7
     DEF Kill, PowerLoss, MemoryLost, disk,
         Latest!PowerLoss, BestVal!PowerLoss, CrashFile!PowerLoss
<1>8. CASE Restart \/ RestartFromCrash
  <2>1. On(n, q, Position(Fresh, 0))
    BY DEF Way, On
  <2>2. On(n, q, Position(eng', 0))
    BY <1>8, <2>1, RestartStep, Zenon
  <2>3. QED
    BY <1>8, <2>2, RestartStep DEF disk
<1>9. CASE UNCHANGED vars
  BY <1>9 DEF vars, disk
<1>10. QED
  BY <1>1, <1>2, <1>3, <1>4, <1>5, <1>6, <1>7, <1>8, <1>9 DEF Next, TrainLoop

\* Every step keeps the processes on one way.
LEMMA ReplayStep == TypeInv /\ StepInv /\ ReplayInv /\ [Next]_vars => ReplayInv'
<1> SUFFICES ASSUME TypeInv, StepInv, ReplayInv, [Next]_vars PROVE ReplayInv'
  OBVIOUS
<1>1. PICK n \in Nat \ {0} : \E q : Way(n, q) /\ Covers(n, q)
  BY DEF ReplayInv
<1>2. PICK q : Way(n, q) /\ Covers(n, q)
  BY <1>1
<1>3. \E m \in Nat \ {0} : \E r : Way(m, r) /\ Covers(m, r)'
  <2>1. CASE AttemptNonFinite \/ AttemptSkipped \/ AttemptApplied
    BY <1>2, <2>1, AttemptReplays
  <2>2. CASE ~ (AttemptNonFinite \/ AttemptSkipped \/ AttemptApplied)
    BY <1>2, <2>2, OtherReplays
  <2>3. QED
    BY <2>1, <2>2
<1>4. \A m, r : Way(m, r) => Way(m, r)'
  BY WorldStays, WayStays
<1>5. QED
  BY <1>3, <1>4 DEF ReplayInv
-----------------------------------------------------------------------------
(* An overflow that no loss scale cures                                    *)

\* A checkpoint from before the first attempt.
Untrained(file) == file # NoCheckpoint => file.global_step = 0 /\ file.scale = InitScale

\* train() runs.
Looping == {"train", "validate", "checkpoint", "save_best_val", "save_step"}

\* In a hopeless world nothing is applied: each skip of the row took one from the scale,
\* and the row ends before the scale does.
OverflowInv ==
  /\ pc \in Looping => until > 0
  /\ ~ retried /\ Hopeless =>
       /\ applied = {} /\ eng.global_step = 0
       /\ Untrained(latest) /\ Untrained(latestSettled)
       /\ pc \in {"idle", "train", "save_checkpoint"} \cup Broken
       /\ pc \notin Broken => eng.scale + consecutive = InitScale /\ consecutive < MaxConsecutiveSkips
       /\ pc \in {"idle", "save_checkpoint"} => consecutive = 0

\* Adding to a number or to its remainder gives the same remainder.
LEMMA SameRemainder ==
  ASSUME NEW a \in Nat, NEW i \in Nat, NEW n \in Nat \ {0}
  PROVE  (a + i) % n = ((a % n) + i) % n
<1>1. PICK q \in Nat : q = a \div n
  OBVIOUS
<1>2. PICK b \in 0 .. n - 1 : b = a % n
  OBVIOUS
<1>3. a = q * n + b
  BY <1>1, <1>2
<1>4. PICK p \in Nat : p = (b + i) \div n
  BY <1>2
<1>5. PICK m \in 0 .. n - 1 : m = (b + i) % n
  BY <1>2
<1>6. b + i = p * n + m
  BY <1>4, <1>5
<1>7. PICK k \in Nat : k = q + p
  OBVIOUS
<1>8. a + i = k * n + m
  <2>1. k * n = q * n + p * n
    BY <1>7
  <2> QED
    BY <1>3, <1>6, <2>1
<1>9. (k * n + m) % n = m
  OBVIOUS
<1> QED
  BY <1>2, <1>5, <1>8, <1>9

\* In a hopeless world no attempt counts as applied while the scale is not 0.0, and each
\* that does not stop takes one from it.
LEMMA HopelessAttempt ==
  ASSUME NEW e \in States, Hopeless, e.scale > 0
  PROVE  ~ CountsAsApplied(e) /\ NextScale(e) = e.scale - 1
<1>1. Period \in Nat \ {0} /\ Accumulation \in Nat \ {0} /\ e.loader \in Nat /\ e.scale \in Nat
  BY CountsAssumption DEF States
<1>2. PICK l \in 0 .. Period - 1 : l = e.loader % Period
  BY <1>1
<1>3. PICK i \in 0 .. Accumulation - 1 : world.limit[(l + i) % Period] = 0
  BY DEF Hopeless
<1>4. (e.loader + i) % Period = (l + i) % Period
  BY <1>1, <1>2, SameRemainder
<1>5. Overflows(e)
  BY <1>1, <1>3, <1>4 DEF Overflows, Drawn
<1>6. NextScale(e) = e.scale - 1
  BY <1>1, <1>5 DEF NextScale, Hopeless
<1> QED
  BY <1>1, <1>6 DEF CountsAsApplied

\* Every step of a hopeless run leaves it as untrained as it was.
LEMMA OverflowStep == TypeInv /\ StepInv /\ OverflowInv /\ [Next]_vars => OverflowInv'
<1> SUFFICES ASSUME TypeInv, StepInv, OverflowInv, [Next]_vars PROVE OverflowInv'
  OBVIOUS
<1> USE DEF OverflowInv, Untrained, Broken, Looping
<1>0. /\ world' = world /\ (Hopeless' <=> Hopeless)
      /\ eng \in States /\ eng.scale \in Nat /\ consecutive \in Nat /\ InitScale \in Nat
      /\ MaxConsecutiveSkips \in Nat \ {0} /\ MaxConsecutiveSkips <= InitScale
  BY WorldStays, Counts, SkipsAssumption DEF Hopeless, TypeInv, States
<1> HIDE DEF Hopeless
<1>t. ~ retried /\ Hopeless /\ pc = "train" => eng.scale > 0
  BY <1>0
<1>1. CASE AttemptNonFinite
  <2>1. eng'.global_step = eng.global_step
    BY <1>1, NonFiniteStep, AfterDrawIs DEF TypeInv
  <2> QED
    BY <1>0, <1>1, <2>1, NonFiniteStep DEF Unsaved
<1>2. CASE AttemptSkipped
  <2>1. eng'.global_step = eng.global_step /\ eng'.scale = NextScale(eng)
    BY <1>0, <1>2, SkippedStep, SkippedIs
  <2>2. ~ retried /\ Hopeless => eng'.scale + consecutive' = InitScale
    <3>1. SUFFICES ASSUME ~ retried, Hopeless PROVE eng'.scale + consecutive' = InitScale
      OBVIOUS
    <3>2. pc = "train" /\ consecutive' = consecutive + 1
      BY <1>2, SkippedStep
    <3>3. NextScale(eng) = eng.scale - 1
      BY <1>0, <1>t, <3>1, <3>2, HopelessAttempt
    <3> QED
      BY <1>0, <2>1, <3>1, <3>2, <3>3
  <2> QED
    BY <1>0, <1>2, <2>1, <2>2, SkippedStep DEF Unsaved
<1>3. CASE AttemptApplied
  <2>1. /\ pc = "train" /\ CountsAsApplied(eng) /\ pc' = "validate"
        /\ retried' = retried /\ until' = until
    BY <1>3 DEF AttemptApplied, Attempt
  <2>2. ~ (~ retried /\ Hopeless)
    BY <1>0, <1>t, <2>1, HopelessAttempt
  <2> QED
    BY <1>0, <2>1, <2>2
<1>4. CASE Validate
  BY <1>0, <1>4, ValidateStep
<1>5. CASE Checkpoint
  BY <1>0, <1>5 DEF Checkpoint, SaveLatest, disk
<1>6. CASE SaveCheckpoint
  <2>1. pc = "idle" /\ pc' \in {"save_checkpoint", "failed"}
    BY <1>6 DEF SaveCheckpoint, SaveLatest
  <2> QED
    BY <1>0, <1>6, <2>1, SaveStep
<1>7. CASE TrainReturns
  <2>1. eng.global_step >= until /\ until > 0 /\ until \in Nat /\ retried' = retried /\ pc' = "idle"
    BY <1>7, Counts DEF TrainReturns, TypeInv
  <2> QED
    BY <1>0, <2>1
<1>8. CASE SaveReturns
  <2>1. /\ UNCHANGED <<eng, consecutive, until, retried, applied>>
        /\ latest' = latest /\ latestSettled' = latest
    BY <1>8 DEF SaveReturns, Latest!Settle
  <2>2. \/ pc = "save_best_val" /\ pc' = "checkpoint"
        \/ pc = "save_step" /\ pc' = "train"
        \/ pc = "save_checkpoint" /\ pc' = "idle"
        \/ pc = "save_crash" /\ pc' = "failed"
    <3>1. pc \in {"save_best_val", "save_step", "save_checkpoint", "save_crash"} /\ pc' = Return[pc]
      BY <1>8 DEF SaveReturns, Return
    <3>2. /\ Return["save_best_val"] = "checkpoint" /\ Return["save_step"] = "train"
          /\ Return["save_checkpoint"] = "idle" /\ Return["save_crash"] = "failed"
      BY DEF Return
    <3>3. CASE pc = "save_best_val"
      BY <3>1, <3>2, <3>3
    <3>4. CASE pc = "save_step"
      BY <3>1, <3>2, <3>4
    <3>5. CASE pc = "save_checkpoint"
      BY <3>1, <3>2, <3>5
    <3>6. CASE pc = "save_crash"
      BY <3>1, <3>2, <3>6
    <3> QED
      BY <3>1, <3>3, <3>4, <3>5, <3>6
  <2> QED
    BY <1>0, <2>1, <2>2
<1>9. CASE SaveRaises
  BY <1>0, <1>9 DEF SaveRaises, disk
<1>10. CASE \E n \in 1 .. MaxSteps : Train(n)
  BY <1>0, <1>10, Counts DEF Train, disk
<1>11. CASE Kill \/ PowerLoss
  BY <1>0, <1>11 DEF Kill, PowerLoss, MemoryLost, Fresh, disk, Latest!PowerLoss
<1>12. CASE Restart \/ RestartFromCrash
  <2>1. /\ pc' = "idle" /\ consecutive' = 0 /\ UNCHANGED <<latest, latestSettled, applied>>
        /\ \/ retried' = retried /\ (eng' = Fresh \/ (latest # NoCheckpoint /\ eng' = latest))
           \/ retried' = TRUE
    BY <1>12, RestartStep DEF disk
  <2>2. Fresh.global_step = 0 /\ Fresh.scale = InitScale
    BY DEF Fresh
  <2> QED
    BY <1>0, <2>1, <2>2
<1>13. CASE UNCHANGED vars
  BY <1>0, <1>13 DEF vars, disk
<1>14. QED
  BY <1>1, <1>2, <1>3, <1>4, <1>5, <1>6, <1>7, <1>8, <1>9, <1>10, <1>11, <1>12, <1>13 DEF Next, TrainLoop

-----------------------------------------------------------------------------
(* The theorems                                                            *)

\* Everything that holds of the engine, the files and the history between two steps.
IInv == TypeInv /\ StepInv /\ CountersInv /\ BestInv /\ KnowsInv /\ ReplayInv /\ OverflowInv

\* A run starts with a fresh engine, no files, and a way of one position.
LEMMA InitIInv == Init => IInv
<1> SUFFICES ASSUME Init PROVE IInv
  OBVIOUS
<1>1. /\ TypeInv /\ StepInv
      /\ eng = Fresh /\ consecutive = 0 /\ pc = "idle" /\ applied = {}
      /\ \A s \in {latest, latestSettled, best_val, bestValSettled, crash, crashSettled} :
           s = NoCheckpoint
  BY InitType DEF Init, Latest!Init, BestVal!Init, CrashFile!Init
<1>2. CountersInv
  BY <1>1, FreshAgrees DEF CountersInv, FileCounters, FileLoader
<1>3. BestInv
  <2>1. eng.best_val_loss = Infinity
    BY <1>1 DEF Fresh
  <2>2. QED
    BY <1>1, <2>1 DEF BestInv, BackedFile, NotBehind, Backed
<1>4. KnowsInv
  BY <1>1, FreshKnows DEF KnowsInv, FileKnows
<1>5. ReplayInv
  <2> DEFINE q == [i \in 1 .. 1 |-> Position(Fresh, 0)]
  <2>1. q[1] = Position(Fresh, 0) /\ Position(Fresh, 0) \in Positions /\ q \in [1 .. 1 -> Positions]
    BY FreshType, PositionDecides
  <2> HIDE DEF q
  <2>2. Position(Fresh, 0).global_step \in Nat
    BY <2>1 DEF Positions
  <2>3. Way(1, q)
    BY <2>1, <2>2 DEF Way
  <2>4. Covers(1, q)
    BY <1>1, <2>1 DEF Covers, On, FileOn
  <2>5. QED
    BY <2>3, <2>4 DEF ReplayInv
<1>6. OverflowInv
  <2>1. eng.global_step = 0 /\ eng.scale = InitScale /\ InitScale \in Nat /\ 0 < MaxConsecutiveSkips
    BY <1>1, Counts DEF Fresh
  <2>2. QED
    BY <1>1, <2>1 DEF OverflowInv, Untrained, Looping
<1>7. QED
  BY <1>1, <1>2, <1>3, <1>4, <1>5, <1>6 DEF IInv

\* Every step keeps the inductive invariant.
LEMMA StepIInv == IInv /\ [Next]_vars => IInv'
  BY TypeStep, StepStep, CountersStep, BestStep, KnowsStep, ReplayStep, OverflowStep DEF IInv

\* The inductive invariant holds in every state of every run (engine.py: the whole
\* training loop with its saves, kills and resumes).
THEOREM Invariance == Spec => []IInv
  BY InitIInv, StepIInv, PTL DEF Spec

\* engine.py 38-46: the schedule, the applied updates, the tokens and the micro-batches
\* drawn stay together whatever is skipped, killed and resumed.
THEOREM CountersTheorem == Spec => []CountersAgree
<1>1. IInv => CountersAgree
  BY DEF IInv, CountersInv, Counters, LoaderAgrees, CountersAgree, Broken
<1>2. QED
  BY <1>1, Invariance, PTL

\* engine.py 52-53, 380-394: a best_val_loss a resume will compare with is backed by a
\* best_val.pt at least as good.
THEOREM BestValTheorem == Spec => []BestValBacked
<1>1. IInv => BestValBacked
  BY DEF IInv, BestInv, BackedFile, Backed, BestValBacked
<1>2. QED
  BY <1>1, Invariance, PTL

\* A run that trained to the end, with whatever kills on the way, has the best of its
\* evaluations in best_val.pt.
THEOREM FinishedTheorem == Spec => []FinishedRunKeepsBest
<1>1. IInv => FinishedRunKeepsBest
  <2> SUFFICES ASSUME IInv, ~ retried, pc = "idle", eng.global_step = MaxSteps,
                      NEW k \in Evaluated
               PROVE  best_val.best_val_loss <= world.val[k]
    BY DEF FinishedRunKeepsBest
  <2>1. k \in 1 .. MaxSteps /\ world.val[k] \in 0 .. Infinity - 1
    BY WorldsAssumption DEF Evaluated, IInv, TypeInv
  <2>2. eng.best_val_loss <= world.val[k]
    BY <2>1, Counts DEF IInv, KnowsInv, KnowsUpTo
  <2>3. Backed(best_val, eng.best_val_loss)
    BY DEF IInv, BestInv
  <2>4. /\ eng.best_val_loss \in Nat /\ Infinity \in Nat
        /\ best_val # NoCheckpoint => best_val.best_val_loss \in Nat
    BY LossTypes DEF IInv
  <2>5. eng.best_val_loss # Infinity
    BY <2>1, <2>2, <2>4
  <2>6. best_val # NoCheckpoint /\ best_val.best_val_loss <= eng.best_val_loss
    BY <2>3, <2>5 DEF Backed
  <2>7. QED
    BY <2>1, <2>2, <2>4, <2>6
<1>2. QED
  BY <1>1, Invariance, PTL

\* engine.py 56: two processes that reach the same step have made the same updates from
\* the same micro-batches, RNG states and learning rates.
THEOREM ReplayTheorem == Spec => []ReplayIsExact
<1>1. IInv => ReplayIsExact
  <2> SUFFICES ASSUME IInv, NEW u \in applied, NEW v \in applied, u.step = v.step
               PROVE  u.params = v.params
    BY DEF ReplayIsExact
  <2>1. PICK n \in Nat \ {0} : \E q : Way(n, q) /\ Covers(n, q)
    BY DEF IInv, ReplayInv
  <2>2. PICK q : Way(n, q) /\ Covers(n, q)
    BY <2>1
  <2>3. PICK i \in 1 .. n - 1 : /\ q[i + 1].global_step = q[i].global_step + 1
                               /\ u = [step |-> q[i + 1].global_step, params |-> q[i + 1].params]
    BY <2>2 DEF Covers, Made
  <2>4. PICK j \in 1 .. n - 1 : /\ q[j + 1].global_step = q[j].global_step + 1
                               /\ v = [step |-> q[j + 1].global_step, params |-> q[j + 1].params]
    BY <2>2 DEF Covers, Made
  <2>5. /\ i \in 1 .. n /\ i + 1 \in 1 .. n /\ j \in 1 .. n /\ j + 1 \in 1 .. n
        /\ q[i + 1].global_step = q[j + 1].global_step
    BY <2>3, <2>4
  <2>6. \A k \in 1 .. n : q[k].global_step \in Nat
    BY <2>2 DEF Way, Positions
  <2>7. /\ i + 1 <= j => q[i + 1].global_step <= q[j].global_step
        /\ j + 1 <= i => q[j + 1].global_step <= q[i].global_step
    BY <2>2, <2>5 DEF Way
  <2>8. ~ (i + 1 <= j) /\ ~ (j + 1 <= i)
    BY <2>3, <2>4, <2>5, <2>6, <2>7
  <2>9. i = j
    BY <2>8
  <2>10. QED
    BY <2>3, <2>4, <2>9
<1>2. QED
  BY <1>1, Invariance, PTL

\* engine.py 111-113, 361: an overflow that no loss scale cures stops the run and is never
\* taken for training, until someone retries from crash.pt.
THEOREM OverflowTheorem == Spec => []OverflowIsNotTraining
<1>1. IInv => OverflowIsNotTraining
  BY DEF IInv, OverflowInv, Untrained, OverflowIsNotTraining
<1>2. QED
  BY <1>1, Invariance, PTL

\* engine.py 49-51: a crash checkpoint replays the failing attempt from what it began with.
THEOREM CrashTheorem == Spec => CrashReplaysTheAttempt
<1> DEFINE c == crash'
           P == pc' = "save_crash" =>
                  /\ c.params = eng.params
                  /\ c.schedule = eng.schedule /\ c.global_step = eng.global_step
                  /\ c.loader = eng.loader /\ c.rng = eng.rng
<1>1. IInv /\ [Next]_vars => [P]_vars
  <2> SUFFICES ASSUME IInv, Next, pc' = "save_crash" PROVE P
    OBVIOUS
  <2>1. AttemptNonFinite \/ AttemptSkipped
    BY ValidateStep, SaveStep, RestartStep
       DEF IInv, Next, TrainLoop, AttemptApplied, TrainReturns, SaveReturns, Return, SaveRaises,
           Train, Kill, PowerLoss, MemoryLost
  <2>2. QED
    BY <2>1, NonFiniteStep, SkippedStep DEF IInv, Rewound
<1>2. QED
  BY <1>1, Invariance, PTL DEF Spec, CrashReplaysTheAttempt

\* engine.py: _consecutive_skips is left out of state_dict(), and no save that a resume
\* starts from is taken while it is not 0.
THEOREM NoSkipsTheorem == Spec => NoSkipsPendingAtCheckpoint
<1>1. IInv /\ [Next]_vars => [pc' \in {"save_step", "save_checkpoint"} => consecutive = 0]_vars
  <2> SUFFICES ASSUME IInv, Next, pc' \in {"save_step", "save_checkpoint"} PROVE consecutive = 0
    OBVIOUS
  <2>1. ~ (AttemptNonFinite \/ AttemptSkipped \/ AttemptApplied \/ Validate)
    BY NonFiniteStep, SkippedStep, ValidateStep DEF IInv, AttemptApplied
  <2>2. ~ (TrainReturns \/ SaveReturns \/ SaveRaises \/ \E n \in 1 .. MaxSteps : Train(n))
    BY DEF TrainReturns, SaveReturns, Return, SaveRaises, Train
  <2>3. ~ (Kill \/ PowerLoss \/ Restart \/ RestartFromCrash)
    BY RestartStep DEF IInv, Kill, PowerLoss, MemoryLost
  <2>4. Checkpoint \/ SaveCheckpoint
    BY <2>1, <2>2, <2>3 DEF Next, TrainLoop
  <2>5. QED
    BY <2>4, SaveStep DEF IInv, StepInv, TypeInv
<1>2. QED
  BY <1>1, Invariance, PTL DEF Spec, NoSkipsPendingAtCheckpoint
================================================================================
