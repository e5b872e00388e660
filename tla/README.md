# KittyLM in TLA+

TLA+ specifications of KittyLM (`src/`), the TLC configurations that check them and
TLAPS proofs. The definitions follow the code, not the docs; `PROJECT.json` maps every
definition to the lines it models, lists the runs, their mutants, the hazards each property
is for, the findings and the theorems.

    tlc -workers 2 -config Store.cfg CheckpointStore      # one run
    tlapm CheckpointStore_proofs.tla                      # the proofs of one module

## 1. The system

KittyLM is a small language-model laboratory: a byte-level BPE tokenizer, a
decoder-only transformer, a training engine with crash-safe checkpoints, evaluation and
generation over a common context policy, and a *ledger* of experiment records that other
programs (a smoke run, a resume harness, a CI check, an attention benchmark) must back with
evidence.

| component | state it keeps | operations | how others use it |
|---|---|---|---|
| checkpoint store (`training/checkpoint.py`) | step files, `latest.json`, `best_val.pt`, `crash.pt`, `final.pt` | `save_step`, `save_named`, `latest_path`, `load_latest`, pruning | engine saves and resumes; harness and inference read |
| training engine (`training/engine.py`) | parameters, optimizer, schedule, loss scaler, counters, RNG, sampler | `train_step`, `train`, `validate`, `save_checkpoint`, `resume_latest`, `_crash` | drives sampler and store; smoke run and harness drive it |
| samplers (`data/loader.py`) | generator, `batches_drawn`, seed | `next_batch`, `preview_starts`, `state_dict`, `load_state_dict` | engine draws, saves and restores |
| windows (`data/windows.py`) | none | `evaluation_windows`, `context_start`, `window_examples` | fixed-window sampler, perplexity, generation |
| perplexity (`evaluation/perplexity.py`) | running sums; the model's train/eval mode | `stream_nll`, `evaluate_documents`, `metrics` | gate, `evaluate.py` |
| generation, KV cache (`inference/generate.py`, `model/kv_cache.py`, `attention.py`, `transformer.py`) | ids, context start, cache length and buffers | `generate`, `update`, `advance`, `reset` | gate, `generate.py` |
| generate command (`scripts/generate.py`, `inference/loading.py`, `inference/samples.py`, `config.py`) | `<name>.txt`, `<name>.json` | `load_for_inference`, `apply_overrides`, `from_dict`, `redact_secrets`, `save_sample` | reads checkpoints and tokenizers, calls generation |
| tokenizer (`tokenizer/trainer.py`, `bpe.py`) | words, pair counts, pair index, heap; merges; chunk cache; the artifact file | `train_bpe`, `encode`, `decode`, `truncated`, `save`, `load` | smoke run, inference |
| resume harness (`training/resume_harness.py`) | a work directory | `validate_resume`, three worker processes | smoke run, ledger |
| smoke run (`scripts/smoke_gpu.py`, `evaluation/gates.py`) | `status.json`, `record.yaml`, run directory | `run_experiment` | writes through the ledger |
| ledger (`ledger.py`) | `experiments/<ID>/record.yaml` | `validate_record`, `write_record`, `resume_verdict_ok`, `ci_evidence_problems`, `select_attention_path`, `validate_benchmark` | all evidence passes it |
| CI evidence (`scripts/verify_ci.py`) | pages read | `fetch_all`, `select_run`, `main` | reads GitHub while it changes |
| attention benchmark (`scripts/bench_attention.py`) | remaining lengths, cells, worker files | `run_variant`, `worker`, `parent` | ledger judges it |

What is hard here: a process killed or a machine unplugged between any two file operations
(store, engine, smoke run); an interrupted run that replays steps (engine, samplers,
`best_val`); subprocesses that stop half way over a directory with leftovers (harness,
benchmark); a remote list that changes while it is paged (CI); border arithmetic that
changes a number slightly instead of failing (windows, cache, bytes); lazily repaired
structures (heap, pair index, cache); two programs that judge the same evidence (harness
and ledger, benchmark and ledger). `PROJECT.json` lists these hazards at their lines.

What makes each component correct: the store always leads a resume to a whole checkpoint
and never goes back behind a save that returned; the engine replays exactly and its
counters agree; samplers continue the saved sequence; every target is scored once, in the
context generation would use; logits depend on exactly the current context; the encoder
segments as training did; reports, statuses, records and selections speak of what was really
run.

## 2. Modules

    CheckpointPromise <- CheckpointStore <- CheckpointStore_proofs
    CheckpointPromise <- TrainingEngine <- MCTrainingEngine; TrainingEngine <- TrainingEngine_proofs
    ContextPolicy <- EvaluationWindows <- StreamEvaluation
    ContextPolicy <- Generation; Generation, InferenceLoading <- GenerateCommand <- MCGenerateCommand
                                 GenerateCommand, InductionLemmas <- GenerateCommand_proofs
    ContextPolicy <- WindowSamplers <- MCWindowSamplers
    StreamEvaluation, WindowSamplers, InductionLemmas <- Windows_proofs
    BPE <- BPETrainer, BPEEncoder <- Tokenizer <- MCTokenizer
                                     Tokenizer, InductionLemmas <- Tokenizer_proofs
    AttentionSelection <- AttentionBench <- MCAttentionBench
                          AttentionBench, InductionLemmas <- AttentionBench_proofs
    ResumeVerdict <- ResumeHarness; ModelAccounting <- SmokeRun <- MCSmokeRun
    CiEvidence <- MCCiEvidence
    SmokeRun, ResumeHarness, CiEvidence, InductionLemmas <- Evidence_proofs

**CheckpointStore** has one action per file operation of `_atomic_write` (make, write, fsync,
rename, fsync of the directory), followed by the pointer's own write and the prune
loop. Two views of the directory are kept: what the process sees (`files`, `slots`) and what
a power loss leaves (`durableFiles`, `durableSlots`). A file is absent, torn, cached or
synced; `Replace` moves the temporary file's state to the name. `SaveRaises` is the except
clause, `Kill` a SIGKILL (no except clause), `PowerLoss` lets any set of names fall back that
the directory fsync has not settled. `Resume` is `load_latest`, refused when the pointer or
the step file is damaged. `FsyncsDirectories` is FALSE on Windows (`os.name == "nt"`), where
the code promises nothing about power losses and the model has none. `staler` is the order
of modification times among files of one step, which `step_paths` sorts by.

**CheckpointPromise** is the abstract specification: one checkpoint is current, another is
settled; a save publishes, a directory fsync settles, a power loss falls back at most to what
is settled. `CheckpointStore!KeepsPromise` instantiates it with what a resume would load from
either view; a damaged store would map to a value outside `File`, which no abstract step
reaches.

**TrainingEngine** runs over `CheckpointPromise`, which CheckpointStore is shown to implement:
a save publishes a step, its return settles it, a power loss may take back what was
published and not settled, and any save may raise. The parameters *are* the sequence of
updates that made them: the micro-batches, RNG position and schedule step of each. A
constant `world` says which batches have a finite loss, up to which loss scale their
gradients are finite and what each validation gives, and a replay meets the same world; that
is the deterministic mode the docs ask for. The loss scale halves down to 0.0, where line 349
no longer notices an overflow; `SkipsAssumption` says that it takes more halvings to get there
than `MAX_CONSECUTIVE_SKIPS` (30; from the scaler's initial scale it takes over 150). Actions: the attempts of `train_step` up to its validation,
`Validate` and the write of `best_val`, the step checkpoint, `Train` and its return,
`SaveCheckpoint`, `Kill` and `PowerLoss` (which take the engine's memory with them),
`Restart` (a new process that resumes, or starts afresh without a checkpoint) and
`RestartFromCrash`. `before` and `applied` are history variables, and `retried` says whether any
process was started from `crash.pt`.

**ContextPolicy** has `DefaultStride`, `ContextStart` and the rounding-up division.
**EvaluationWindows** is the loop of `evaluation_windows` with one action per turn.
**StreamEvaluation** runs it once per document and sums a window's loss, tokens and bytes as
`stream_nll` does; a sum of losses is the multiset of its targets. Exceptions leave through
`eval_mode`'s finally clause.

**Generation** decodes one sequence after the other. A tensor row is the set of (token
position, rotary offset) pairs it depends on; a pass embeds, runs layer by layer (each stores
its rows in its buffer and attends through the backend's mask), and yields logits. The
buffers keep old rows after a reset, as the code's do.

**InferenceLoading** has `load_yaml`, `apply_overrides`, `from_dict` with its conversions by
type, and the cross-checks of `load_for_inference`, as operators on values that carry their
Python type: 10000 and 10000.0 are one number and two values. **GenerateCommand** is
`scripts/generate.py` called again and again with one `--name`: it loads artifacts, generates
through Generation's own actions, redacts and saves, and may be killed at any point, temporary
files included. What the secret scan flags in a text is free, a marker among it.

**BPETrainer** and **BPEEncoder** keep the code's structures: counts, an index that is never
cleaned, a heap with stale entries, a bounded cache that is cleared when full. The encoder
splits a text at the special names it may promote, the longest first, and cuts the rest into
chunks anywhere. **BPE** has the reference definitions (`ApplyInOrder` merges one after the
other), the layout of special ids and `Decode`. **Tokenizer** runs the encoder on what the
trainer returned, a truncation left or an artifact held, and says which artifacts load.

**WindowSamplers** holds any number of samplers of both kinds which save, load, preview and
draw in any order. A generator is its seed and the draws made so far; a draw stands for
itself, so equal draws mean equal batches. `DigestAssumption` is what the samplers take for
granted of sha256: streams with one digest are one stream.

**ResumeHarness** runs the three workers over a work directory whose files carry whether this
call wrote them. How the two runs compare in a category is a relation (`Relations`): equal or
different in structure or value for every category, and, for all but those that
`compare_runs` only compares with `==` (`Counted`), also off by some amount, not a number in
some places, or different in a tensor of integers; a category that must be exact may be off by
as little as one that may deviate. **ResumeVerdict** has the comparison with its rounding to
four digits, the harness's verdict and what `ledger.py` accepts of it. Deviations are in units
of 1e-8, so that the tolerance is 10000: 9999 is within it, 10004 is above it and prints as
10000, 10006 prints as 10010.

**SmokeRun** repeats `run_experiment` over one repository: stages, exceptions with messages
the ledger accepts or refuses, the handler, kills, `status.json`, `record.yaml`, and the
`metrics.jsonl` and checkpoint that outlive a call. It builds the record as the script does
(`BaseRecord`, `GateBlock`, `CompletedRecord`, `FailedRecord`) and judges it as the ledger does,
one operator per group of rules (`StatusProblems`, `GateProblems`, ...). A loss is one of
the five cases these rules tell apart: below the gate's maximum, above it, too large for
`exp()`, infinite, NaN. **ModelAccounting** lists the parameters of a KittyLM with the modules
that hold them, attributes each tensor to one category as `accounting.py` does, and has the
ledger's accounting rules.

**CiEvidence** interleaves `verify_ci.py` with GitHub (external), which lists the newest run
first and moves pages under the reader. `fetch_all` pages twice (`TurnPage`): through the runs,
then through the jobs of the run selected, and GitHub may act between any two of these requests;
while the jobs are read it acts only on the selected run, since the script asks for nothing else.
A page of jobs shows those of the run's latest attempt at that moment. `evidence` has each job's
conclusion and, as history, the attempt it was read in, which the code's evidence does not name.

**AttentionBench** has the parent and one worker process with every way it can end. A worker that
dies while it writes leaves a torn line, on which the parent's `json.loads` raises: the benchmark
is then lost, neither written nor refused. **AttentionSelection** has the ledger's selection, its
grid checks and its rules for texts: the detail of a cell may hold one the ledger never takes
(an absolute path, the local user or host name, what the secret scanner flags), and so may the
record's other texts (`plain`).

Definitions preceded by "Mutant" are not part of a specification: each is the changed form of
the definition below it that must break the property named in `PROJECT.json`.

## 3. Runs

All passing runs explore their state space completely. Deadlock is checked but for one run:
where a program ends there is an explicit step that says so.

| run | module, config | states | bounds and why they suffice |
|---|---|---|---|
| store | CheckpointStore, Store.cfg | 739,368 | two steps with two contents each: saves of one step twice, an orphan of a later step after a resume, pruning with `keep_last` 1 (the hardest), one named checkpoint. Kills, power losses and failures are unlimited |
| engine | MCTrainingEngine, Engine.cfg | 604,969 | four steps, a checkpoint every second: replay before and after the first one; accumulation 2; skip limit 2; scales from the initial one down to 0.0; four micro-batches the world tells apart. Worlds: overflows (passing, persistent so that the scale underflows, and together with every validation series), non-finite values, and calm ones with every validation series |
| evaluation | StreamEvaluation, Evaluation.cfg | 341,880 | two documents of 0..6 tokens, context and stride up to 4: one to several windows, strides that do and do not divide, too short documents, one or two categories |
| generation | MCGenerateCommand, Generation.cfg | 143,033 | two calls: a sample over an earlier one; two layers, contexts below, at and above the prompt, several resets; two lines and every set of them flagged; artifacts that differ in each thing the cross-checks compare |
| tokenizer | MCTokenizer, Tokenizer.cfg | 2,893,655 | two letters, chunks up to four bytes (overlapping `aaaa`), corpora of up to two chunks with frequencies 1 and 2, three merges, cache of 0 or 1 entry; special names that overlap; artifacts right and wrong in each field |
| harness | ResumeHarness, Harness.cfg | 183,600 | three categories: one only counted, one numeric that must be exact, one measured; deviations below the tolerance and on both sides of its rounding; every spec up to `max_steps` 3 and one beyond; a known and an unknown device |
| smoke | MCSmokeRun, Smoke.cfg | 1,233,800 | two calls: any record, and another one over it, with what the first logged; every case of the loss; a tied and an untied model |
| ci | MCCiEvidence, Ci.cfg | 1,192,533 | pages of one run or job, two pages, three runs (so the page limit is reached), two attempts, two jobs on two pages |
| bench | MCAttentionBench, Bench.cfg | 367,932 | the reference and one path, two lengths, one flag setting, two speeds; texts the ledger takes and others |
| samplers | MCWindowSamplers, Samplers.cfg | 975,456 | two samplers of either kind, two streams of equal length, two contexts, two seeds, three draws |
| engine_best_val | MCTrainingEngine, EngineBestValReplaced.cfg | violation | see Findings |
| harness_nan | ResumeHarness, HarnessNan.cfg | violation | see Findings |

What they show, property by property:

- *store*: `PointerLoads` (a resume is never refused), `NamedNeverTorn`,
  `ReturnedSaveIsDurable` and the refinement `KeepsPromise`.
- *engine*: `ReplayIsExact` compares every update any process ever applied at the same step;
  `CountersAgree` ties schedule, step, tokens, skips and loader position together;
  `CrashReplaysTheAttempt`, `NoSkipsPendingAtCheckpoint` and `FinishedRunKeepsBest` are about
  what reaches the disk; `BestValBacked`: a `best_val_loss` a resume would load is backed by a
  file at least as good, although the file's write may raise. `OverflowIsNotTraining`: if every
  attempt overflows at every loss scale, no update is applied, no skip is counted as a step and no
  checkpoint but `crash.pt` has a lowered scale, however often the run is killed and resumed.
  `FinishedRunKeepsBest` and `BestValBacked` speak of runs that no process continued from
  `crash.pt` (see Proofs).
- *evaluation*: `ScoredOnceInOrder`, `SameContextAsGeneration`, `SumsAgree` for overall and
  category sums after every document, however the evaluation ends.
- *generation*: `NeverOverflows`, `LogitsSeeTheContext` (cache on or off, both backends);
  `LoadsExactlyTheTrained` (what loads is what was trained, and nothing that is the same is
  refused for how it is written); `NothingFlaggedOnDisk`, temporary files included;
  `SidecarDescribesItsText` over kills between the two files.
- *tokenizer*: `DecidesAsCounted` (an action property: the lazy heap merges, and gives up, as a
  fresh count of all pairs would), `SegmentsByItsMerges`, `EncodesAsTrained` after truncation
  too, `RoundTrips`, `ArtifactIsTheTokenizer`.
- *harness*: `ReportIsFresh`; `PassedIsExact` (on a GPU, too, a category required exact fails the
  test however little it deviates); `EvidenceAccepted` (harness and ledger judge alike in spite of
  the rounding).
- *smoke*: `StatusBackedByRecord` (with the checkpoint whose digest the record holds),
  `OutcomeBackedByRecord`, `BuilderMeetsLedger` (the script builds what the ledger asks for: a
  run that came to its end is refused only when its trace is not finite or its loss is NaN or
  too large for `exp()`, a failure only for its message), `PassedGateIsFinite` (a pass is recorded
  only if no call so far logged a non-finite value in the `metrics.jsonl` the gate reads).
- *ci*: `PagesMissNothing`; `GreenIsBacked` (green rests on a completed push run that none which had
  completed at the start outranks, and on all required jobs having succeeded in the attempt
  selected, unless the run was re-run since).
- *bench*: `GridMeasuredOnce`; `RefusalHasACause` (the ledger refuses what was measured exactly
  when nothing qualifies, a NaN deviation was called "ok" or a text is one it never takes);
  `SelectionFollowsRule`; `BenchmarkEnds` (written, refused, or lost to a torn line).
- *samplers*: `ResumesTheSequence`, `PreviewIsKept` (also over refused loads).

The generation run alone does not check deadlock: a command that is not called again stops.

### Fairness

`AttentionBench!FairSpec` is weak fairness of the parent and its worker: `subprocess.run` waits
for a worker that either goes on or dies; a worker need not die. Every other specification
states safety only.

## 4. Proofs

**CheckpointStore_proofs** holds for every set of steps and contents, every `keep_last`, any set
of named checkpoints and with or without directory fsyncs, from the module's own assumptions
(`NoFile` is not a file, `KeepLast` is positive, and so on). The properties are not inductive:
`PointerLoads` says nothing about the view a power loss falls back to or about what the prune
loop is about to remove. The inductive invariant `IInv` adds

- `NothingTorn`: no name in either view ever holds an incomplete or unsynced file;
- `PointersSafe`: the step files named by the pointer in use *and* by the durable pointer
  are there in both views, so that either may survive a crash;
- `JobInv`: what the write in progress has established at its control point; in particular
  the step file is safe before the pointer is replaced, and during the prune the pointer
  and its durable copy name the file just written, which is not among those to be removed.

`TypeCorrect`, `PointerAlwaysLoads`, `NamedAlwaysWhole` and `ReturnedIsDurable` follow from it.
`Implements` shows that `Replace` of the pointer is `Publish`, `FsyncDirectory` is `Settle`,
`PowerLoss` is `PowerLoss` and every other step stutters under the refinement mapping.

**Windows_proofs** is about the evaluation and the samplers. *The evaluation*, for any number of
documents of any length, every context and
stride, and losses that may or may not be finite. Of the loop that cuts one stream, `LoopInv`
describes the variables (the start is a multiple of the stride, a window always begins to score
where the last one ended), `Chained` the list so far and `GoodWindow` each of its windows. The
arithmetic rests on the lemma that rounding up lands on the only multiple of the stride in an
interval as long as the stride. Results for a single stream: `EveryTargetScoredOnce`,
`WindowsAgreeWithGeneration`, `ContextNeverShort` (a target is predicted from at least
`context_length - stride + 1` tokens, unless there are fewer).

`EvaluationInv` carries this through an evaluation: `WindowsInv` is the loop's invariant, or no
window of a stream that is too short; `DocumentInv` says that the total holds the targets up to
the end of the last window scored (`Upto`); `ReportInv` is `SumsAgree` together with the fact
that every finished document's category is there, without which a new category could start
from zero beside targets it already has. `SumsTheorem`, `EvaluationScoresOnce` and
`EvaluationContext` follow. The numbers of bytes are sums over sets of tokens.

*The samplers*, for any samplers, streams, contexts, batch sizes and seeds. The
two sequences of `ResumesTheSequence` grow at different times and in any order, so each is
related to the saved state instead of to the other: `Sequel(k)` is the k-th batch that follows
it, and `Continues` says that a sequence is a beginning of the sequel and that its drawer stands
where it ends. `PreviewIsKept` is inductive by itself.

**InductionLemmas** has what the proofs use in place of induction over data. The library's
induction theorems take an operator as a parameter, which no prover here can instantiate; a
lemma about a *set* of numbers or sequences can be: `LeastOf` (a non-empty set of naturals has a
least member, from the well-foundedness of the naturals), `InductionUpTo` and `RecursionUpTo`
(a recursive function up to a bound exists if each value is determined by those before it). It
also has the lemmas about finite sums, which are folds. That a fold exists, that it does not
depend on the set it was built for nor on the order in which it takes elements (`FoldExists`,
`FoldsAgree`, `SumRemove`) is proved by least counterexample in the number of elements
(`LeastOf`). `SumDisjoint`, the sum over two disjoint sets, is what the evaluation uses;
`SumOfPart` and `SumOfClasses`, a sum split along a finite set of classes, are what the
parameter accounts use, and `SumSame` and `SumZero` the counts of the tokenizer's trainer.

**Evidence_proofs** is about the three programs whose evidence the ledger accepts.

*The smoke run*, for any number of calls, any `MaxSteps`, any measured values and any model
configurations. `RunInv` says at each stage what the status and the outcome will need when the
call ends: `StatusOfStage` (`status.json` is not terminal while a call goes on, so that replacing
the checkpoint or the record then breaks no claim), `CheckpointOfStage` (from the gate on the
checkpoint on disk is this call's), `OptionsOfStage` (a stage was entered if and only if it was
asked for) and `RecordOfStage` (between `record.yaml` and `status.json` the record is already this
call's). `StatusIsBacked` and `OutcomeIsBacked` follow. `MeasuredInv` adds which sections of the
record a stage has measured and that each has a value the code can measure; it is what
`BuilderTheorem` needs to go through the ledger's rules one group at a time. `CleanInv` says that
what the gates read held nothing non-finite when they passed and that no later stage logs there,
which gives `PassesTheorem`. `BuilderTheorem` relies on
`NoneAssumption`: null is none of the values a section can have. The accounting rule is
`CountsAccepted`: the parameters of a KittyLM, listed layer by layer as sequences, all have a
category (`HasCategory`, `ModelParameters`), so that the unique tensors are split by category and
`SumOfClasses` gives the total, tied weights counted once.

*The resume harness*, for any `max_steps`, categories, deviations and devices and for whatever an
earlier call left in the work directory. `Progress` says which files are this call's from the
moment each worker ended, `Reported` that a report is the verdict of this call's comparison.
`ExactTheorem` covers the categories that must be exact on a GPU with every relation the code can
find in them, deviations within the tolerance and NaN among them. Results: `FreshTheorem`, `ExactTheorem`, `AcceptedTheorem`.

*The CI evidence*, for any page size, page limit and numbers of runs, jobs and attempts.
`ListedInv`: a run is listed once, and its id is at most the last one given. `PagesInv`: a run the
reader is owed has been read already or is listed at or behind the place where the next page
begins; a run created between two pages moves it further back, never into the part already read.
A deletion may move it forward, and a re-run is no longer completed: both release the reader, which
is how the model defines `owed`. `SelectedInv` says of the runs read that GitHub has the same or a
later attempt (`Superseded`), and `JobSeen` of each job on the pages turned so far that it was read
in the selected attempt, with its conclusion, or in a later one, in which case GitHub has a later
attempt from then on (`JobStays`, `PageShows`). Every step of GitHub leaves a run as it is or replaces it by a next
version (`Follows`, `GitHubStep`), which is all the other steps need of it. Results:
`PagesTheorem`, `GreenTheorem`.

**TrainingEngine_proofs** holds for any number of steps, micro-batches and skips, any intervals,
initial scale (of at least `MAX_CONSECUTIVE_SKIPS` halvings, `SkipsAssumption`) and worlds. A world must be one the code can meet (`WorldsAssumption`: a loss scale
limit for every batch, a validation loss below `math.inf` for every step) and the absent file is
no engine state (`NoCheckpointAssumption`). The invariant has seven parts:

- `TypeInv` and `StepInv` (a row of skips exists only inside `train()`; no step beyond
  `max_steps`);
- `CountersInv`: what `CountersAgree` says of the engine holds of every file, published or
  settled; of the loader's position only for `latest.json` and before a retry, since `crash.pt`
  holds a rewound loader;
- `BestInv`: each version of `best_val.pt` a power loss may leave backs each version of
  `latest.json` it may leave, and the engine; between the publication of a `best_val.pt` and its
  fsync only the published version backs the engine, and no checkpoint of that engine can have
  been saved yet;
- `KnowsInv`: engine and files have a `best_val_loss` as good as every evaluation up to their
  step, but for the step that is about to be validated;
- `ReplayInv`: the processes of one run cannot be compared with each other directly, because
  those that skipped, crashed or were killed passed through different states. The invariant
  says instead that there is one *way*, a sequence of positions (parameters, RNG, loader, loss
  scale, counters, skips in a row) in which each is the deterministic `Successor` of the one
  before, and that the engine, every file and every update ever applied is on it. An attempt
  leads to the successor of its position and so stays on the way or makes it one longer; a
  restart goes back to the position of a file;
- `OverflowInv`: while no attempt can succeed, the loss scale and the row of skips add up to the
  initial scale and the row is shorter than the limit, so the scale is not yet 0.0 and the next
  attempt is not counted (`HopelessAttempt`); files hold the initial scale, because no
  file but `crash.pt` is written in a row of skips.

From it follow `CountersAgree`, `BestValBacked`, `FinishedRunKeepsBest`, `OverflowIsNotTraining`, `ReplayIsExact` (two
updates of one step are at one position, since a step is made once on the way) and the action
properties `CrashReplaysTheAttempt` and `NoSkipsPendingAtCheckpoint`.

The proof attempt corrected two properties that the engine's earlier worlds could not break.
A `crash.pt` may be older than `latest.json`; a process started from it validates again with the
older `best_val_loss`, and may then replace a better `best_val.pt`. `BestValBacked` and
`FinishedRunKeepsBest` are therefore about runs that no process continued from `crash.pt`
(`~ retried`), and the run contains worlds in which overflows and different validation losses
come together (`FallingWorlds`), which reach such a state.

**GenerateCommand_proofs** holds for any model context, number of layers, prompt, stride, lengths
and any number of calls, lines and redaction passes. `GenerationInv` describes a forward pass
from the inside: before layer `l` row `p` of a context that begins at `from` depends on the
tokens `from .. p` at their offsets, or on `p` alone before the first layer (`Row`); the first
`n` slots of a layer's buffer hold exactly such rows (`CacheFilled`), with one more pass in the
layers that already ran; and the tokens a pass does not run over are those in the cache
(`PassInv`). Whatever lies behind the filled slots from an earlier context is never attended to:
this is where the masks of the two backends and the arithmetic of `context_start` enter. It
gives `NeverOverflows` and `LogitsSeeTheContext`. `FilesInv` adds to `NothingFlaggedOnDisk` that
a text being written is clean, and to `SidecarDescribesItsText` which calls the two files belong
to at each stage; it assumes that no text is the value that stands for an absent file.
`LoadInv` says what the artifacts a call has loaded are, and `LoadsExactlyTheTrained` follows for
any file and any number of overrides. `ArtifactsAssumption` asks only that the overrides are
key-value items and that the configuration in a checkpoint is one `from_dict` once returned. The
overrides are applied one after the other by a recursive function: that it exists, and that its
result has each field's last override (`OverridesReflected`), is proved by least counterexample
in the number of items.

**AttentionBench_proofs** holds for any grid (of non-empty lists without duplicates, as the code's
constants and `nargs="+"` give them) and any timings. The cells are always a prefix of the grid in
the order flag, variant, length (`Filled`): with L lengths, cell `(u - 1) * L + i` is that of turn
`u` and its i-th length, whichever worker wrote it or died on it (`Lines` for a worker's own file,
`Progress` for the parent). `GridMeasuredOnce` then is the uniqueness of quotient and remainder,
`RefusalHasACause`, an equivalence, from what a worker may write into a cell and the parent into
the cell of one that died (`TakeOverKeeps`), and
`SelectionFollowsRule` from the existence of a least rank (`LeastOf`).

**Tokenizer_proofs** holds for any finite corpora with any frequencies, any thresholds and sizes of
the vocabulary, any special names, texts and cache sizes, and any files whose fields have the types
their schema gives them. It begins with the operators. The reference definitions are recursive
functions, of which a proof may use nothing but that they are equal to their bodies, and that only
once they are known to exist (`RecursionUpTo`): `MergeIs`, `ApplyIs`, `TokenBytesIs`, `DecodeIs`.
The facts that carry the rest are

- `MergeHolds`: what a merge leaves has the new token or a pair that was there before, and never
  the pair that was merged;
- `MergeLeavesNone`: valid merges refer to earlier ids, so a merge that is applied makes no pair
  of an earlier merge come back; `ApplySkips`: merges of which no pair is left change nothing.
  Together they make "lowest rank first" and "all merges in order" the same thing;
- `TotalChanges`: a count over all words changes by what the one word that is merged had before
  and has after it;
- `BeforeOrders` and `FirstExists`: a finite set of heap entries has one first entry;
- `DecodeConcat`, `DecodeMerge`: decoding a concatenation concatenates, and a merge changes nothing
  of what ids decode to.

The invariant of training (`TrainerInv`) says that a word is what *its* merges make of it: all of
them, or, while the words of a merge are visited one by one, all but the last (`MergesOf`,
`WordInv`), and that no pair of any of its merges is left in it. `IndexInv` and `HeapInv` are one-sided,
as the code is: the index has every word that has a pair, whatever else it has, and the heap has the
current count of every pair, whatever stale counts it has too; only the pair being merged and those
changed since the merge began are excepted. `CountInv` says that the counts are exact at every
moment. The first entry of the heap that is not stale is then the best pair of a fresh count
(`TopIsBest`, `ChosenPair`), which is `DecidesAsCounted`; `SegmentsByItsMerges` is `WordInv` between
two merges.

The invariant of a call to `encode` (`ChunkInv`, `MergedSoFar`) says of the ids of a chunk that they
are what some number of merges make of it and that none of these applies any more; the next merge
skips to the lowest one that does. `CacheInv` is about every entry ever cached, `TextInv` about what
the ids so far decode to. `EncodesAsTrained` and `RoundTrips` follow, and `ArtifactIsTheTokenizer`
because `load` refuses every file but the one `ToArtifact` gives (`AcceptedFile`, `SavedFile`).

Only model-checked, and why:

- liveness (`BenchmarkEnds`): it rests on fairness and ENABLED, which are beyond the prover.

Every other property of a passing run is stated by a theorem.

## 5. Findings

- **engine_best_val** (`engine.py:442-444` against `engine.py:52-53`): `best_val.pt` is replaced
  as soon as a validation is better, but the `best_val_loss` it is compared with is persisted
  only with the next step checkpoint. A process killed in between resumes with the older value,
  and its next validation overwrites the better model. `FinishedRunKeepsBest` holds nevertheless:
  a deterministic replay passes the best step again before the run ends.
- **harness_nan** (`resume_harness.py:176` against `resume_harness.py:43-45`):
  `max(0.0, nan)` is `0.0` in Python, so a NaN deviation is reported as
  `max_abs_dev=0.000e+00` and passes on a GPU.

Smaller disagreements between text and code, without a run of their own:

- `engine.py:49-50` says the counters of a crash checkpoint are unchanged; line 354 has counted
  the skip before the checkpoint is written (`tests/test_engine.py:375` agrees with the code).
- `engine.py:38` "applied optimizer updates": a loss scale that underflowed to 0.0 makes line 349
  count a skip as applied. It takes many retries from `crash.pt`; the engine's model contains it.
  `CountersAgree` excuses the number of updates once the scale is 0.0, and `OverflowIsNotTraining`
  shows that a run whose every attempt overflows does not get there without such a retry.
- `gates.py:36-38` says "a record written from this report validates". For a NaN loss the report's
  `final_ppl` is inf and for a finite loss beyond about 709.78 the ledger's line 660 refuses
  what its own line 824 accepts: such a run ends as a failure of the stage `record`.
  `BuilderMeetsLedger` states exactly which losses are refused; infinite ones are not.
- `generate.py:11-12` promises one line for every failure: `--set key=[` lets `yaml.safe_load`
  raise a `YAMLError`, and a forward pass a `RuntimeError`, which nothing catches.
- `engine.py:251-268`: a `ValueError` for the scaler, schedule or sampler leaves an engine whose
  model and optimizer are already those of the checkpoint; callers let it end the process.
- `checkpoint.py:33-34` says temporary files are cleaned up; after SIGKILL they stay.
- `smoke_gpu.py:618` "recorded, never hidden": the handler's own `parse_record` may refuse the
  record for what the exception's message holds; `status.json` then stays "running" and no record
  is written. `BuilderMeetsLedger` shows only that nothing but the message can be the reason.
- `smoke_gpu.py:287`: the gate reads the lines of earlier calls, too, so one non-finite value fails
  every later call over the same directory, whatever it measures.
- `verify_ci.py:66` "Latest completed": line 77 ranks the attempt before the id; lines 50-51 do
  not hold if a run is deleted between two pages.
- `verify_ci.py:103-104` "only the selected attempt's jobs": `filter=latest` gives those of the
  latest attempt when each page is asked for. If the run is re-run after it was selected they are
  of an attempt later than the selected one; if it is re-run between two pages of jobs they are of
  two attempts, and green may be said of a run no attempt of which was green (attempt 1: Quality
  succeeds, Tests fail; attempt 2 the other way round). The evidence names no attempt.
  `GreenIsBacked` states what remains: such a run has been superseded by the time it is judged.
- `bench_attention.py:239` "crashed without recording the current cell: record it as an error": a
  worker that crashed while it wrote the line leaves torn JSON; line 234 raises before that and the
  cells of all variants are lost.
- `bench_attention.py:7-8`: `empty_cache` may raise in a poisoned process before the
  device-error exit, so the next length is recorded as an error untried; lines 5-6: a NaN
  deviation is "ok" for the worker (line 175) and the ledger refuses the record.
- `evaluate.py:12-15`: a `RuntimeError` (out of memory) is not among the errors caught.
- `loader.py:44-46`: the random sampler checks only the number of tokens; `loader.py:53`: a
  fixed-window state of matching sizes gives `KeyError` instead of `ValueError`.

## 6. What is left out

- Numbers: losses, gradients, logits, timings. Where a property depends on a number, it is in a
  small set or in the constant `world`. A NaN validation loss is not modelled.
- In the engine: logging, throughput, `load_state_dict` refused half way.
- In the benchmark: more than one flag setting is not checked (the ledger's tie-break among
  flag settings is in the module but not exercised), nor the CLI's argument checks.
- In the tokenizer: the regular expression that cuts chunks (any cut is allowed), the artifact's
  digests and JSON.
- In the ledger: byte accounting, digests and formats, rendering, loading of records.
- In the configuration: nested dataclasses, the tree validation. In samples: the scan's regular
  expressions, of which the model assumes nothing.
- In evaluation: that `eval_mode` restores the mode is part of the model and no property.
- Not modelled at all, with reasons in `PROJECT.json`: speed measurement, optimizer and loss,
  pre-tokenization, git and artifact utilities, thin command-line scripts. The packages
  `export/` and `integration/` contain no code.

## 7. Plan

1. Done: the store with its abstract specification and proofs; windows and proofs; the engine
   over the store's abstract specification, with saves that raise; evaluation; generation, the
   generate command with loading and samples; tokenizer with special tokens, artifacts and
   truncation; harness; smoke run with its record and the ledger's rules; CI; benchmark;
   samplers.
2. Done: proofs of every property of a passing run but liveness.
3. What would be worth modelling next: two flag settings in the benchmark, the record's way
   through `load_all_records`.
