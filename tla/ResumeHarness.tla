----------------------------- MODULE ResumeHarness -----------------------------
(***************************************************************************)
(* kittylm/training/resume_harness.py: validate_resume(), which runs three *)
(* worker processes over one work directory and compares what they leave.  *)
(*                                                                         *)
(* The work directory may have been used before: every file in it carries  *)
(* whether this call or an earlier one wrote it.                           *)
(***************************************************************************)
EXTENDS ResumeVerdict

CONSTANTS
  TrainingSteps,  \* training max_steps
  Devices,        \* HarnessSpec.device
  NoFile

ASSUME HarnessAssumption == TrainingSteps \in Nat \ {0}

VARIABLES
  spec,      \* HarnessSpec: kill_step, total_steps, device
  phase,
  out,       \* mode -> the results file of the worker
  pointer,   \* latest.json of the split directory
  final,     \* directory -> final.pt
  relation,  \* what the two runs amount to, by category
  report     \* ResumeReport

harnessVars == <<spec, phase, out, pointer, final, relation, report>>

Modes == {"full", "first", "resume"}
File == [step : 0 .. TrainingSteps, fresh : BOOLEAN]
Old(s) == [step |-> s, fresh |-> FALSE]
New(s) == [step |-> s, fresh |-> TRUE]

NoReport == [test |-> "none", comparison |-> <<>>]

\* An earlier call left nothing, or complete files for other steps.
HarnessInit ==
  /\ spec \in [kill : 0 .. TrainingSteps, total : 0 .. TrainingSteps + 1, device : Devices]
  /\ phase = "check"
  /\ \E left \in {NoFile} \cup {Old(s) : s \in 1 .. TrainingSteps} :
       /\ out = [m \in Modes |-> left]
       /\ pointer = left
       /\ final = [d \in {"full", "split"} |-> left]
  /\ relation \in [Categories -> UNION {Relations(c) : c \in Categories}]
  /\ \A c \in Categories : relation[c] \in Relations(c)
  /\ report = NoReport

CheckSpec ==
  /\ phase = "check"
  /\ phase' = IF 0 < spec.kill /\ spec.kill < spec.total /\ spec.total <= TrainingSteps
             THEN "full" ELSE "error"
  /\ UNCHANGED <<spec, out, pointer, final, relation, report>>

\* Mutant: results an earlier call left are used again.
FullWorkerReuses ==
  /\ phase = "full"
  /\ LET reuse == out["full"] # NoFile
     IN /\ final' = IF reuse THEN final ELSE [final EXCEPT !["full"] = New(spec.total)]
        /\ out' = IF reuse THEN out ELSE [out EXCEPT !["full"] = New(spec.total)]
  /\ phase' = "first"
  /\ UNCHANGED <<spec, pointer, relation, report>>

\* A worker that does what it was asked to: train from scratch or from the pointer,
\* save a step checkpoint (first) or final.pt, and write its results.
FullWorker ==
  /\ phase = "full"
  /\ final' = [final EXCEPT !["full"] = New(spec.total)]
  /\ out' = [out EXCEPT !["full"] = New(spec.total)]
  /\ phase' = "first"
  /\ UNCHANGED <<spec, pointer, relation, report>>

FirstWorker ==
  /\ phase = "first"
  /\ pointer' = New(spec.kill)
  /\ out' = [out EXCEPT !["first"] = New(spec.kill)]
  /\ phase' = "resume"
  /\ UNCHANGED <<spec, final, relation, report>>

\* Periodic checkpoints may move the pointer on while it trains.
ResumeWorker ==
  /\ phase = "resume"
  /\ pointer # NoFile /\ pointer.step = spec.kill
  /\ \E s \in spec.kill .. spec.total : pointer' = [pointer EXCEPT !.step = s]
  /\ final' = [final EXCEPT !["split"] = New(spec.total)]
  /\ out' = [out EXCEPT !["resume"] = New(spec.total)]
  /\ phase' = "compare"
  /\ UNCHANGED <<spec, relation, report>>

\* A worker stops early (a non-finite loss, an I/O error, a kill), having saved its
\* checkpoint or not: its exit code is not 0, or its results are missing.
WorkerFails ==
  /\ phase \in Modes
  /\ \/ /\ phase = "full"
        /\ final' \in {final, [final EXCEPT !["full"] = New(spec.total)]}
        /\ UNCHANGED pointer
     \/ /\ phase = "first"
        /\ \E s \in 1 .. spec.kill : pointer' \in {pointer, New(s)}
        /\ UNCHANGED final
     \/ /\ phase = "resume"
        /\ final' \in {final, [final EXCEPT !["split"] = New(spec.total)]}
        /\ \E s \in spec.kill .. spec.total : pointer' = [pointer EXCEPT !.step = s]
  /\ phase' = "error"
  /\ UNCHANGED <<spec, out, relation, report>>

\* _check_reached() on every step the workers and their checkpoints report.
Reached ==
  /\ out["full"].step = spec.total /\ final["full"].step = spec.total
  /\ out["first"].step = spec.kill
  /\ out["resume"].step = spec.total /\ final["split"].step = spec.total

Compare ==
  LET comparison == [c \in Categories |-> Verdict(relation[c])]
      passed == \A c \in Categories : VerdictOk(c, comparison[c], spec.device)
  IN /\ phase = "compare"
     /\ IF Reached
          THEN /\ phase' = "report"
               /\ report' = [test |-> IF passed THEN "passed" ELSE "failed",
                             comparison |-> comparison]
          ELSE phase' = "error" /\ UNCHANGED report
     /\ UNCHANGED <<spec, out, pointer, final, relation>>

HarnessEnded == phase \in {"report", "error"} /\ UNCHANGED harnessVars

HarnessNext ==
  \/ CheckSpec
  \/ FullWorker \/ FirstWorker \/ ResumeWorker \/ WorkerFails
  \/ Compare
  \/ HarnessEnded

HarnessSpec == HarnessInit /\ [][HarnessNext]_harnessVars

-----------------------------------------------------------------------------
(* Properties                                                              *)

\* A report only speaks of steps this call ran: nothing an earlier call left in the
\* work directory enters it (resume_harness.py, "never reports a pass it did not
\* observe", "evidence never claims steps that did not run").
ReportIsFresh ==
  phase = "report" =>
    /\ \A m \in Modes : out[m].fresh
    /\ pointer.fresh
    /\ \A d \in DOMAIN final : final[d] = New(spec.total)
    /\ spec.kill \in 1 .. spec.total - 1

\* A resume test passes only if what must not deviate is identical in the two runs,
\* however small the deviation: on a GPU the counters, schedule, learning rates, scaler,
\* best_val_loss, RNG and loader states and data order, and on a CPU, as on any device
\* without an entry of its own, everything.
PassedIsExact ==
  report.test = "passed" =>
    \A c \in Categories : c \notin Measured \/ spec.device # "cuda" => relation[c] = Same

\* The ledger accepts the evidence of every report, passed or failed: the harness and
\* the record validator judge alike.
EvidenceAccepted ==
  phase = "report" /\ spec.device \in KnownDevices =>
    ComparisonAccepted(report.comparison, report.test, spec.device)

\* resume_harness.py 43-45: passed "only if ... every other category (GPU tensors and
\* losses) is exact or within RESUME_GPU_MAX_ABS_DEV absolute deviation".
PassedWithinTolerance ==
  report.test = "passed" =>
    \A c \in Categories : relation[c] = Same \/ relation[c] \in {Off(d) : d \in 1 .. Tolerance}
=============================================================================
