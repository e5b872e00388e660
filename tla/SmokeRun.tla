------------------------------- MODULE SmokeRun -------------------------------
(***************************************************************************)
(* scripts/smoke_gpu.py: run_experiment() called again and again over one  *)
(* repository, the record it builds and what validate_record() of          *)
(* ledger.py finds wrong with it, and the overfit gate's checks.           *)
(*                                                                         *)
(* A call goes through its stages in order and any of them may raise; the  *)
(* message of an exception may hold text the ledger refuses in a record    *)
(* (an absolute path outside the repository, say), which redact() does not *)
(* remove.  Between two calls the run directory stays: the engine appends  *)
(* to the metrics.jsonl it finds and replaces the checkpoint of a step.    *)
(*                                                                         *)
(* A float is one of the cases its consumers tell apart: a loss is below   *)
(* or above the gate's maximum, finite but too large for exp(), inf or     *)
(* NaN.  The sections of a record that do not depend on the run are left   *)
(* out.                                                                    *)
(***************************************************************************)
EXTENDS ModelAccounting, FiniteSets

CONSTANTS
  Models,      \* model configurations
  MaxRuns,     \* calls of run_experiment considered
  MaxSteps,    \* training.max_steps
  None         \* a section that is null

ASSUME SmokeAssumption ==
  /\ MaxRuns \in Nat \ {0} /\ MaxSteps \in Nat \ {0, 1}
  /\ \A c \in Models : c \in ModelConfig /\ 0 \notin {c.vocab, c.width, c.ffn, c.layers}

VARIABLES
  model,     \* the model configuration, the same in every call
  run,       \* number of the current call
  opts,      \* its arguments: are the repeat and resume stages asked for?
  pc,        \* its stage, or how it ended
  status,    \* status.json: state and the call that wrote it
  record,    \* experiments/SMOKE-GPU-001/record.yaml
  tainted,   \* the directories whose metrics.jsonl holds a non-finite value
  saved,     \* the call whose checkpoint of step MaxSteps is in train/
  seen,      \* what this call measured so far
  failedAt,  \* the stage the exception was raised in
  clean      \* is the exception's message acceptable in a record?

vars == <<model, run, opts, pc, status, record, tainted, saved, seen, failedAt, clean>>

Options == [repeat : BOOLEAN, resume : BOOLEAN]
Stages == {"training", "checkpoint", "gate", "repeat", "resume", "record"}

\* How a call ends: returned, RunFailed, SetupError, another exception, killed.
Ends == {"returned", "run_failed", "setup_error", "escaped", "killed"}

Loss == {"low", "high", "overflow", "inf", "nan"}
IsFinite(loss) == loss \in {"low", "high", "overflow"}

\* The checks of the overfit gate.
Checks == {"final_loss_below_max", "ppl_at_most_max", "ppl_consistent",
           "token_match_at_least_min", "all_values_finite"}

\* null is none of the values a section can have.
ASSUME NoneAssumption ==
  /\ None \notin BOOLEAN
  /\ None \notin Stages \cup {"evidence"}
  /\ None \notin [steps : Nat, finite : BOOLEAN]
  /\ None \notin [step : Nat, run : Nat]
  /\ None \notin [loss : Loss, ppl : Loss]
  /\ None \notin [loss : Loss, ppl : Loss, failures : SUBSET Checks, passed : BOOLEAN]

NothingSeen ==
  [steps |-> 0, trace |-> None, checkpoint |-> None, gate |-> None,
   series |-> "not_run", repeatPassed |-> None, resume |-> "not_run"]

Init ==
  /\ model \in Models
  /\ run = 0
  /\ opts \in Options
  /\ pc = "returned"
  /\ status = [state |-> "none", run |-> 0]
  /\ record = [status |-> "none"]
  /\ tainted = {}
  /\ saved = 0
  /\ seen = NothingSeen
  /\ failedAt = "none"
  /\ clean = TRUE

-----------------------------------------------------------------------------
(* What the ledger finds wrong with a record                               *)

If(broken, problem) == IF broken THEN {problem} ELSE {}

\* math.exp(): raises OverflowError for "overflow".
Exp(loss) == IF loss = "overflow" THEN "raises" ELSE loss

\* math.isclose(): NaN is close to nothing.
Close(x, y) == x = y /\ x # "nan"

StatusProblems(r) ==
  IF r.status = "completed"
  THEN If(r.results = None, "no results") \cup If(r.failure # None, "failure")
       \cup If(r.trace = None \/ r.gate = None \/ r.checkpoint = None, "no section")
  ELSE If(r.failure = None, "no failure")
       \cup If(<<r.results, r.gate, r.checkpoint>> # <<None, None, None>>, "outcome")
       \cup If(r.resume = "passed", "resume claim")

\* results.final_ppl must be exp(final_loss): a loss exp() overflows on is refused.
PerplexityProblems(r) ==
  IF r.results = None THEN {}
  ELSE If(~ Close(r.results.ppl, Exp(r.results.loss)), "perplexity")

TraceProblems(r) ==
  If(r.steps > MaxSteps, "steps")
  \cup IF r.trace = None THEN {}
       ELSE If(r.trace.steps # r.steps, "trace steps") \cup If(~ r.trace.finite, "trace values")

\* Here final_ppl may be inf where exp(final_loss) overflows.
GateProblems(r) ==
  IF r.gate = None THEN {}
  ELSE If(r.gate.passed # (r.gate.failures = {}), "verdict")
       \cup If(IsFinite(r.gate.loss) /\ r.gate.ppl #
                 (IF Exp(r.gate.loss) = "raises" THEN "inf" ELSE Exp(r.gate.loss)), "gate perplexity")
       \cup If(r.results # None /\ ~ Close(r.results.loss, r.gate.loss), "gate loss")
       \cup If((r.series = "not_run") # (r.repeatPassed = None), "repeat")

CheckpointProblems(r) ==
  IF r.checkpoint = None THEN {} ELSE If(r.checkpoint.step # r.steps, "checkpoint step")

\* The comparison of the evidence is judged in ResumeHarness.
ResumeProblems(r) == If((r.resume = "not_run") # (r.evidence = None), "evidence")

AccountingProblems(r) == If(~ AccountingAccepted(r.parameters), "parameters")

\* Absolute paths, local identifiers, secrets: only an exception's message is not ours.
TextProblems(r) == If(r.failure # None /\ ~ clean, "text")

\* validate_record() raises LedgerError unless this is empty.
Problems(r) ==
  StatusProblems(r) \cup PerplexityProblems(r) \cup TraceProblems(r) \cup GateProblems(r)
  \cup CheckpointProblems(r) \cup ResumeProblems(r) \cup AccountingProblems(r) \cup TextProblems(r)

-----------------------------------------------------------------------------
(* Before the run starts                                                   *)

\* run_experiment(): device and precision are checked, then the run is planned.
Begin ==
  /\ pc \in Ends
  /\ run < MaxRuns
  /\ run' = run + 1
  /\ opts' \in Options
  /\ seen' = NothingSeen
  /\ failedAt' = "none"
  /\ clean' = TRUE
  /\ \/ pc' = "setup_error" /\ UNCHANGED status
     \/ pc' = "planned" /\ status' = [state |-> "planned", run |-> run']
  /\ UNCHANGED <<model, record, tainted, saved>>

\* prepare_artifacts() and check_batch_matches_windows() refuse, or the run starts.
Prepare ==
  /\ pc = "planned"
  /\ \/ pc' = "setup_error" /\ UNCHANGED status
     \/ pc' = "training" /\ status' = [state |-> "running", run |-> run]
  /\ UNCHANGED <<model, run, opts, record, tainted, saved, seen, failedAt, clean>>

-----------------------------------------------------------------------------
(* The stages                                                              *)

Continue(stage) == pc' = stage /\ UNCHANGED <<model, run, opts, status, record, failedAt, clean>>

\* metrics.jsonl is opened for appending: it keeps what earlier calls logged.
Log(dir) == tainted' \in {tainted, tainted \cup {dir}}

\* A fresh engine trains to max_steps; loss_trace() finds its values finite or not.
TrainStage ==
  /\ pc = "training"
  /\ Log("train")
  /\ \E finite \in BOOLEAN :
       seen' = [seen EXCEPT !.steps = MaxSteps,
                            !.trace = [steps |-> MaxSteps, finite |-> finite]]
  /\ UNCHANGED saved
  /\ Continue("checkpoint")

\* save_checkpoint() replaces the file an earlier call saved at this step.
CheckpointStage ==
  /\ pc = "checkpoint"
  /\ saved' = run
  /\ seen' = [seen EXCEPT !.checkpoint = [step |-> seen.steps, run |-> run]]
  /\ UNCHANGED tainted
  /\ Continue("gate")

\* stream_nll() measures the loss; perplexity() is inf where exp() overflows, and the
\* gate takes inf for a loss that is not finite.
Perplexity(loss) == IF loss \in {"low", "high"} THEN loss ELSE "inf"

\* evaluate_overfit_gate(): the names of the checks that fail.  It never raises because
\* of a non-finite model output.
GateFailures(loss, matches, finite) ==
  If(loss # "low", "final_loss_below_max")
  \cup If(Perplexity(loss) # "low", "ppl_at_most_max")
  \cup If(~ IsFinite(loss), "ppl_consistent")
  \cup If(~ matches, "token_match_at_least_min")
  \cup If(~ IsFinite(loss) \/ ~ finite, "all_values_finite")

NextStage == IF opts.repeat THEN "repeat" ELSE IF opts.resume THEN "resume" ELSE "record"

\* Mutant: the gate is called without metrics_records, which defaults to ().
GateStageWithoutMetrics ==
  /\ pc = "gate"
  /\ \E loss \in Loss, matches \in BOOLEAN :
       seen' = [seen EXCEPT !.gate =
                  [loss |-> loss, failures |-> GateFailures(loss, matches, seen.trace.finite)]]
  /\ UNCHANGED <<tainted, saved>>
  /\ Continue(NextStage)

\* nonfinite_metrics() reads every line of metrics.jsonl, an earlier call's too.
GateStage ==
  /\ pc = "gate"
  /\ \E loss \in Loss, matches \in BOOLEAN :
       LET finite == seen.trace.finite /\ "train" \notin tainted IN
       seen' = [seen EXCEPT !.gate = [loss |-> loss, failures |-> GateFailures(loss, matches, finite)]]
  /\ UNCHANGED <<tainted, saved>>
  /\ Continue(NextStage)

\* The second training logs into a directory of its own; nothing else of it is saved.
RepeatStage ==
  /\ pc = "repeat"
  /\ Log("repeat")
  /\ \E fits \in BOOLEAN :
       seen' = [seen EXCEPT !.series = "compared",
                            !.repeatPassed = fits /\ "repeat" \notin tainted']
  /\ UNCHANGED saved
  /\ Continue(IF opts.resume THEN "resume" ELSE "record")

\* validate_resume() reports, or raises (see ResumeHarness).
ResumeStage ==
  /\ pc = "resume"
  /\ \E test \in {"passed", "failed"} : seen' = [seen EXCEPT !.resume = test]
  /\ UNCHANGED <<tainted, saved>>
  /\ Continue("record")

-----------------------------------------------------------------------------
(* The record                                                              *)

\* The parameters section, for each configuration.
Parameters == [c \in Models |-> CountParameters(KittyLM(c))]

\* base_record(): every section that depends on the outcome is null.
BaseRecord(state) ==
  [status |-> state, run |-> run, parameters |-> Parameters[model],
   steps |-> seen.steps, results |-> None, failure |-> None,
   trace |-> None, gate |-> None, series |-> "not_run", repeatPassed |-> None,
   checkpoint |-> None, resume |-> "not_run", evidence |-> None]

\* gate_block()
GateBlock ==
  [loss |-> seen.gate.loss, ppl |-> Perplexity(seen.gate.loss),
   failures |-> seen.gate.failures, passed |-> seen.gate.failures = {}]

\* What the try block fills in.
CompletedRecord ==
  [BaseRecord("completed") EXCEPT
     !.results = [loss |-> seen.gate.loss, ppl |-> Perplexity(seen.gate.loss)],
     !.trace = seen.trace,
     !.gate = GateBlock,
     !.series = seen.series,
     !.repeatPassed = seen.repeatPassed,
     !.checkpoint = seen.checkpoint,
     !.resume = seen.resume,
     !.evidence = IF opts.resume THEN "evidence" ELSE None]

\* Mutant: the handler keeps the checkpoint the run saved before it failed.
FailedKeepsCheckpoint ==
  [BaseRecord("failed") EXCEPT !.failure = failedAt, !.checkpoint = seen.checkpoint]

\* What the handler fills in.
FailedRecord == [BaseRecord("failed") EXCEPT !.failure = failedAt]

\* Mutant: an existing record is not replaced.
RecordStageOnce ==
  /\ pc = "record"
  /\ Problems(CompletedRecord) = {}
  /\ record' = IF record.status = "none" THEN CompletedRecord ELSE record
  /\ pc' = "completed"
  /\ UNCHANGED <<model, run, opts, status, tainted, saved, seen, failedAt, clean>>

\* parse_record() and write_record(), which replaces record.yaml as a whole.
RecordStage ==
  /\ pc = "record"
  /\ Problems(CompletedRecord) = {}
  /\ record' = CompletedRecord
  /\ pc' = "completed"
  /\ UNCHANGED <<model, run, opts, status, tainted, saved, seen, failedAt, clean>>

ReturnRecord ==
  /\ pc = "completed"
  /\ status' = [state |-> "completed", run |-> run]
  /\ pc' = "returned"
  /\ UNCHANGED <<model, run, opts, record, tainted, saved, seen, failedAt, clean>>

\* What a stage that does not come to its end may have left on disk.
MayHaveWritten ==
  /\ CASE pc = "training" -> Log("train")
       [] pc = "repeat" -> Log("repeat")
       [] OTHER -> UNCHANGED tainted
  /\ saved' \in IF pc = "checkpoint" THEN {saved, run} ELSE {saved}

\* Any stage raises; the record stage also when the ledger rejects the record, and
\* after record.yaml was written when status.json cannot be.  Training sets steps_run
\* before it builds the trace, which may raise.
Raise ==
  /\ pc \in Stages \cup {"completed"}
  /\ MayHaveWritten
  /\ failedAt' = IF pc = "completed" THEN "record" ELSE pc
  /\ clean' \in BOOLEAN
  /\ seen' \in {seen} \cup
       IF pc = "training" THEN {[seen EXCEPT !.steps = MaxSteps]} ELSE {}
  /\ pc' = "handler"
  /\ UNCHANGED <<model, run, opts, status, record>>

\* The handler: the failed record must pass validate_record() too.
RecordFailure ==
  /\ pc = "handler"
  /\ Problems(FailedRecord) = {}
  /\ record' = FailedRecord
  /\ pc' = "recorded"
  /\ UNCHANGED <<model, run, opts, status, tainted, saved, seen, failedAt, clean>>

RaiseRunFailed ==
  /\ pc = "recorded"
  /\ status' = [state |-> "failed", run |-> run]
  /\ pc' = "run_failed"
  /\ UNCHANGED <<model, run, opts, record, tainted, saved, seen, failedAt, clean>>

\* Mutant: status.json is written before the record.
HandlerWritesStatusFirst ==
  /\ pc = "handler"
  /\ status' = [state |-> "failed", run |-> run]
  /\ pc' = "escaped"
  /\ UNCHANGED <<model, run, opts, record, tainted, saved, seen, failedAt, clean>>

\* LedgerError leaves the handler when the record is refused, OSError when record.yaml
\* or status.json cannot be written, anything when base_record() fails again.
HandlerRaises ==
  /\ pc \in {"handler", "recorded"}
  /\ pc' = "escaped"
  /\ UNCHANGED <<model, run, opts, status, record, tainted, saved, seen, failedAt, clean>>

\* The process dies, or KeyboardInterrupt passes the handler by.
Kill ==
  /\ pc \notin Ends
  /\ MayHaveWritten
  /\ pc' = "killed"
  /\ UNCHANGED <<model, run, opts, status, record, seen, failedAt, clean>>

Ended == pc \in Ends /\ run = MaxRuns /\ UNCHANGED vars

Work ==
  \/ Prepare
  \/ TrainStage \/ CheckpointStage \/ GateStage \/ RepeatStage \/ ResumeStage
  \/ RecordStage \/ ReturnRecord
  \/ Raise \/ RecordFailure \/ RaiseRunFailed \/ HandlerRaises

Next == Begin \/ Work \/ Kill \/ Ended

Spec == Init /\ [][Next]_vars

-----------------------------------------------------------------------------
(* Properties                                                              *)

\* A terminal status.json is backed by the record of the same run with the same
\* outcome, whatever was killed or raised in between; the checkpoint whose digest a
\* completed record holds is then the one on disk.
StatusBackedByRecord ==
  status.state \in {"completed", "failed"} =>
    /\ record.status = status.state /\ record.run = status.run
    /\ record.status = "completed" => record.checkpoint.run = saved

\* What run_experiment() tells its caller is what the record says of this very call.
OutcomeBackedByRecord ==
  /\ pc = "returned" /\ run > 0 =>
       record.status = "completed" /\ record.run = run
       /\ (opts.repeat <=> record.series # "not_run") /\ (opts.resume <=> record.resume # "not_run")
  /\ pc = "run_failed" => record.status = "failed" /\ record.run = run

\* base_record(), gate_block() and run_experiment() build what validate_record() asks
\* for, after any stage: a run that came to its end is refused only for a number it
\* measured, and the record of a failure only for its message.
BuilderMeetsLedger ==
  /\ pc = "record" =>
       (Problems(CompletedRecord) = {} <=>
          seen.trace.finite /\ seen.gate.loss \in {"low", "high", "inf"})
  /\ pc = "handler" => Problems(FailedRecord) \subseteq {"text"}

\* A recorded pass is a pass of everything logged so far: neither this call nor an
\* earlier one wrote a non-finite value to the metrics.jsonl its gate reads, so one such
\* value fails the gate of every later call.  The same of the second training's gate.
PassedGateIsFinite ==
  [][record' # record /\ record'.status = "completed" =>
       /\ record'.gate.passed => record'.trace.finite /\ "train" \notin tainted'
       /\ record'.repeatPassed = TRUE => "repeat" \notin tainted']_vars
=============================================================================
