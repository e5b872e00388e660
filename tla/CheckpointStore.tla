--------------------------- MODULE CheckpointStore ---------------------------
(***************************************************************************)
(* kittylm/training/checkpoint.py: the checkpoint directory of one run.    *)
(*                                                                         *)
(* Every file is written by _atomic_write: a temporary file is created,    *)
(* written, fsynced and renamed over the target, then the directory is     *)
(* fsynced.  save_step() does that twice (the content-addressed step file, *)
(* then latest.json) and prunes.  The process may be killed between any    *)
(* two system calls, a call may raise, and the machine may lose power: a   *)
(* rename or an unlink not followed by a directory fsync may be undone and *)
(* a file whose data was not fsynced may come back torn.                   *)
(*                                                                         *)
(* Two views of the directory are kept: what the running process sees      *)
(* (files, slots) and what is known to survive a power loss (durableFiles, *)
(* durableSlots).  A payload is identified with the step file it would     *)
(* have: its step and the digest in its name.                              *)
(***************************************************************************)
EXTENDS Integers, FiniteSets

CONSTANTS
  Steps,              \* optimizer steps at which a checkpoint may be saved
  Digests,            \* payload digests; more than one per step when a replay
                      \* is not bit-exact
  KeepLast,           \* CheckpointManager.keep_last
  FsyncsDirectories,  \* FALSE on Windows, where _fsync_directory does nothing
  Named,              \* names save_named is used with
  NoFile

ASSUME StepsAssumption == Steps \subseteq Nat \ {0}
ASSUME KeepLastAssumption == KeepLast \in Nat \ {0}
ASSUME FsyncAssumption == FsyncsDirectories \in BOOLEAN

File == [step : Steps, digest : Digests]

ASSUME NoFileIsNotAFile == NoFile \notin File

ASSUME NamedAssumption == Named \subseteq {"best_val", "crash", "final"}

Slot == Named \cup {"latest"}

\* What is under a name: nothing, an incomplete file, a complete file in the
\* page cache, a complete file on the medium.
Sync == {"absent", "torn", "cached", "synced"}
Whole == {"cached", "synced"}

Content == [data : File \cup {NoFile}, sync : Sync]
Nothing == [data |-> NoFile, sync |-> "absent"]

VARIABLES
  files,         \* step files by name, as the process sees them
  durableFiles,  \* step files a power loss leaves
  slots,         \* latest.json (data: the file it names) and named checkpoints
  durableSlots,
  staler,        \* <<f, g>>: f and g have the same step, g has the later mtime
  pc,            \* where the process is
  job,           \* what _atomic_write is writing: slot "step" or a Slot
  tmp,           \* the temporary file of the write in progress
  doomed,        \* the step files the prune loop has still to unlink
  step           \* the engine's global_step

diskVars == <<files, durableFiles, slots, durableSlots, staler>>
vars == <<files, durableFiles, slots, durableSlots, staler, pc, job, tmp,
          doomed, step>>

Job == [slot : Slot \cup {"step"}, data : File \cup {NoFile}]
NoJob == [slot |-> "step", data |-> NoFile]

Working == {"mkstemp", "write", "fsync", "replace", "fsyncdir", "prune"}

TypeOK ==
  /\ files \in [File -> Sync]
  /\ durableFiles \in [File -> Sync]
  /\ slots \in [Slot -> Content]
  /\ durableSlots \in [Slot -> Content]
  /\ staler \in SUBSET (File \X File)
  /\ pc \in Working \cup {"idle", "down", "refused"}
  /\ job \in Job
  /\ tmp \in Sync
  /\ doomed \in SUBSET File
  /\ step \in Nat

Init ==
  /\ files = [f \in File |-> "absent"]
  /\ durableFiles = [f \in File |-> "absent"]
  /\ slots = [s \in Slot |-> Nothing]
  /\ durableSlots = [s \in Slot |-> Nothing]
  /\ staler = {}
  /\ pc = "idle"
  /\ job = NoJob
  /\ tmp = "absent"
  /\ doomed = {}
  /\ step = 0

-----------------------------------------------------------------------------
(* save_step and save_named                                                *)

BeginSaveStep(f) ==
  /\ pc = "idle"
  /\ f.step >= step
  /\ step' = f.step
  /\ job' = [slot |-> "step", data |-> f]
  /\ pc' = "mkstemp"
  /\ UNCHANGED <<diskVars, tmp, doomed>>

BeginSaveNamed(name, f) ==
  /\ pc = "idle"
  /\ f.step >= step
  /\ step' = f.step
  /\ job' = [slot |-> name, data |-> f]
  /\ pc' = "mkstemp"
  /\ UNCHANGED <<diskVars, tmp, doomed>>

MakeTemp ==
  /\ pc = "mkstemp"
  /\ tmp' = "torn"
  /\ pc' = "write"
  /\ UNCHANGED <<diskVars, job, doomed, step>>

WriteTemp ==
  /\ pc = "write"
  /\ tmp' = "cached"
  /\ pc' = "fsync"
  /\ UNCHANGED <<diskVars, job, doomed, step>>

\* Mutant: no fsync between the write and the rename.
RenameUnsynced ==
  /\ pc = "fsync"
  /\ pc' = "replace"
  /\ UNCHANGED <<diskVars, job, tmp, doomed, step>>

FsyncTemp ==
  /\ pc = "fsync"
  /\ tmp' = "synced"
  /\ pc' = "replace"
  /\ UNCHANGED <<diskVars, job, doomed, step>>

SameStep(f) == {g \in File \ {f} : g.step = f.step}

\* os.replace: the name now stands for what the temporary file holds.
Replace ==
  /\ pc = "replace"
  /\ \/ /\ job.slot = "step"
        /\ files' = [files EXCEPT ![job.data] = tmp]
        /\ staler' = {p \in staler : p[1] # job.data} \cup
                       {<<g, job.data>> : g \in SameStep(job.data)}
        /\ UNCHANGED slots
     \/ /\ job.slot \in Slot
        /\ slots' = [slots EXCEPT ![job.slot] = [data |-> job.data, sync |-> tmp]]
        /\ UNCHANGED <<files, staler>>
  /\ tmp' = "absent"
  /\ pc' = "fsyncdir"
  /\ UNCHANGED <<durableFiles, durableSlots, job, doomed, step>>

\* step_paths() sorts by step, then modification time.
Older(f, g) == f.step < g.step \/ <<f, g>> \in staler

Present == {f \in File : files[f] # "absent"}

\* Mutant: the checkpoint just written is not exempt.
PrunableWithoutExemption(kept) ==
  {f \in Present : Cardinality({g \in Present : Older(f, g)}) >= KeepLast}

\* step_paths()[:-keep_last] without the file just written.
Prunable(kept) ==
  {f \in Present : Cardinality({g \in Present : Older(f, g)}) >= KeepLast} \ {kept}

\* _fsync_directory, and what follows the return of _atomic_write: the pointer
\* after the step file, the prune after the pointer.
FsyncDirectory ==
  /\ pc = "fsyncdir"
  /\ IF FsyncsDirectories
       THEN durableFiles' = files /\ durableSlots' = slots
       ELSE UNCHANGED <<durableFiles, durableSlots>>
  /\ \/ /\ job.slot = "step"
        /\ job' = [job EXCEPT !.slot = "latest"]
        /\ pc' = "mkstemp"
        /\ UNCHANGED doomed
     \/ /\ job.slot = "latest"
        /\ doomed' = Prunable(job.data)
        /\ pc' = "prune"
        /\ UNCHANGED job
     \/ /\ job.slot \in Named
        /\ job' = NoJob
        /\ pc' = "idle"
        /\ UNCHANGED doomed
  /\ UNCHANGED <<files, slots, staler, tmp, step>>

Unlink ==
  /\ pc = "prune"
  /\ \E f \in doomed :
       /\ \A g \in doomed \ {f} : Older(f, g)
       /\ files' = [files EXCEPT ![f] = "absent"]
       /\ doomed' = doomed \ {f}
  /\ UNCHANGED <<durableFiles, slots, durableSlots, staler, pc, job, tmp, step>>

SaveStepReturns ==
  /\ pc = "prune"
  /\ doomed = {}
  /\ job' = NoJob
  /\ pc' = "idle"
  /\ UNCHANGED <<diskVars, tmp, doomed, step>>

\* A system call raises: the except clause of _atomic_write removes the
\* temporary file (missing_ok after the rename) and the error leaves save_step.
SaveRaises ==
  /\ pc \in Working
  /\ tmp' = "absent"
  /\ doomed' = {}
  /\ job' = NoJob
  /\ pc' = "idle"
  /\ UNCHANGED <<diskVars, step>>

-----------------------------------------------------------------------------
(* Crashes and resume_latest                                               *)

\* The process is killed: no except clause runs.
Kill ==
  /\ pc \notin {"down", "refused"}
  /\ tmp' = "absent"
  /\ doomed' = {}
  /\ job' = NoJob
  /\ step' = 0
  /\ pc' = "down"
  /\ UNCHANGED <<files, durableFiles, slots, durableSlots, staler>>

\* Any set of the names not yet known to be durable falls back; the data of a
\* file that was never fsynced may or may not have reached the medium.
Landed(sync, medium) == IF sync = "cached" THEN medium ELSE sync

PowerLoss ==
  /\ FsyncsDirectories
  /\ \E lostFiles \in SUBSET {f \in File : files[f] # durableFiles[f]},
        lostSlots \in SUBSET {s \in Slot : slots[s] # durableSlots[s]},
        medium \in {"synced", "torn"} :
       /\ files' = [f \in File |-> IF f \in lostFiles THEN durableFiles[f]
                                   ELSE Landed(files[f], medium)]
       /\ slots' = [s \in Slot |-> IF s \in lostSlots THEN durableSlots[s]
                                   ELSE [slots[s] EXCEPT !.sync = Landed(@, medium)]]
  /\ durableFiles' = files'
  /\ durableSlots' = slots'
  /\ tmp' = "absent"
  /\ doomed' = {}
  /\ job' = NoJob
  /\ step' = 0
  /\ pc' = "down"
  /\ UNCHANGED staler

\* latest_path() and load_latest(): no pointer, an error, or the checkpoint the
\* pointer names.  A run whose identity differs is refused without touching
\* anything, which is a stuttering step.
Pointed == slots["latest"].data
Damaged ==
  /\ slots["latest"].sync # "absent"
  /\ \/ slots["latest"].sync \notin Whole
     \/ files[Pointed] \notin Whole

\* Mutant: a run without a pointer resumes from a sentinel step.
ResumeFromNowhere ==
  /\ pc = "down"
  /\ slots["latest"].sync = "absent"
  /\ step' = -1
  /\ pc' = "idle"
  /\ UNCHANGED <<diskVars, job, tmp, doomed>>

Resume ==
  /\ pc = "down"
  /\ \/ /\ slots["latest"].sync = "absent"
        /\ pc' = "idle"
        /\ UNCHANGED step
     \/ /\ Damaged
        /\ pc' = "refused"
        /\ UNCHANGED step
     \/ /\ slots["latest"].sync # "absent"
        /\ ~ Damaged
        /\ step' = Pointed.step
        /\ pc' = "idle"
  /\ UNCHANGED <<diskVars, job, tmp, doomed>>

Next ==
  \/ \E f \in File : BeginSaveStep(f)
  \/ \E f \in File, name \in Named : BeginSaveNamed(name, f)
  \/ MakeTemp \/ WriteTemp \/ FsyncTemp \/ Replace \/ FsyncDirectory
  \/ Unlink \/ SaveStepReturns \/ SaveRaises
  \/ Kill \/ PowerLoss \/ Resume

Spec == Init /\ [][Next]_vars

-----------------------------------------------------------------------------
(* Properties                                                              *)

\* latest_path() finds what latest.json promises, whatever happened before: the
\* pointer is complete and names a complete step file (checkpoint.py, "latest.json
\* only names a completed checkpoint", "is never pruned").  In particular a
\* resume is never refused.
PointerLoads == ~ Damaged /\ pc # "refused"

\* A named checkpoint is replaced as a whole: a reader never finds half a file
\* under best_val.pt, crash.pt or final.pt, not even after a power loss.
NamedNeverTorn == \A n \in Named : slots[n].sync # "torn"

\* A save_step that returned is what the next resume loads, even after a power
\* loss: when it returns, the pointer and the step file are both durable.
ReturnedSaveIsDurable ==
  [][SaveStepReturns /\ FsyncsDirectories =>
       /\ durableSlots["latest"] = [data |-> job.data, sync |-> "synced"]
       /\ durableFiles[job.data] = "synced"]_vars

\* What a resume would load, for CheckpointPromise.
Loads(slotContent, stepFiles) ==
  IF slotContent.sync = "absent" THEN NoFile
  ELSE IF slotContent.sync \in Whole /\ stepFiles[slotContent.data] \in Whole
       THEN slotContent.data
       ELSE [damaged |-> slotContent.data]

Promise == INSTANCE CheckpointPromise WITH
  latest <- Loads(slots["latest"], files),
  settled <- Loads(durableSlots["latest"], durableFiles)

\* The store keeps the promise of CheckpointPromise.
KeepsPromise == Promise!Spec
=============================================================================
