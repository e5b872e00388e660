--------------------------- MODULE GenerateCommand ---------------------------
(***************************************************************************)
(* scripts/generate.py: load artifacts that belong together, generate, and *)
(* save the sample through kittylm/inference/samples.py.  The command runs *)
(* repeatedly with one --name and one --out-dir, and may be killed at any  *)
(* point; tests and experiments also call generate() by themselves.        *)
(*                                                                         *)
(* A text is [call, redacted, flagged]: the call it was generated by, the  *)
(* lines replaced by a marker so far, and the lines the secret scan flags  *)
(* in it as it now is.  What the scan flags is free: nothing here may rest *)
(* on which rules it has, nor on a marker never being flagged itself.      *)
(***************************************************************************)
EXTENDS Generation, InferenceLoading

CONSTANTS
  Artifacts,      \* what the command line may name: see LoadForInference
  Lines,          \* the lines of a sample
  MaxPasses,      \* MAX_REDACTION_PASSES
  MaxCalls,       \* bound on the calls of the command
  None

Texts == [call : Nat, redacted : SUBSET Lines, flagged : SUBSET Lines]

ASSUME CommandAssumption == MaxPasses \in Nat /\ MaxCalls \in Nat /\ None \notin Texts

\* A checkpoint's configuration is one that from_dict() returned to the run that trained it.
ASSUME ArtifactsAssumption ==
  \A a \in Artifacts :
    /\ a.overrides \in Seq(Item)
    /\ \A k \in DOMAIN a.yaml.data : a.yaml.data[k] \in Value
    /\ Resolved(a.checkpoint.config)

VARIABLES
  stage,      \* where the command is
  artifacts,  \* the artifacts of this call until generation begins
  loaded,     \* what load_for_inference returned or raised
  text,       \* the text save_sample works on
  passes,     \* redaction passes done
  sample,     \* <name>.txt
  sidecar,    \* <name>.json: the call and the redacted lines of the text it was made for
  temps,      \* the texts in temporary files, those of killed calls included
  exit,       \* how the last call ended: "ok" (0), "failed" (1), "refused" (2), "traceback",
              \* "killed"; "none" before that
  calls       \* calls of the command so far

files == <<sample, sidecar, temps>>
commandVars == <<stage, artifacts, loaded, text, passes, files, exit, calls>>
allVars == <<vars, commandVars>>

CommandInit ==
  /\ Init
  /\ stage = "idle"
  /\ artifacts = None /\ loaded = None /\ text = None /\ passes = 0
  /\ sample = None /\ sidecar = None /\ temps = {}
  /\ exit = "none"
  /\ calls = 0

\* main() returns or raises, and its locals are gone.
End(how) ==
  /\ stage' = "idle"
  /\ exit' = how
  /\ artifacts' = None /\ loaded' = None /\ text' = None /\ passes' = 0
  /\ UNCHANGED calls

-----------------------------------------------------------------------------
(* From the command line to the first token                                *)

\* An --out-dir inside the repository but not under runs/, or a device that is not there.
Refused ==
  /\ stage = "idle" /\ calls < MaxCalls
  /\ exit' \in {"refused", "failed"}
  /\ calls' = calls + 1
  /\ UNCHANGED <<vars, stage, artifacts, loaded, text, passes, files>>

Load(a) ==
  /\ stage = "idle" /\ calls < MaxCalls
  /\ calls' = calls + 1
  /\ artifacts' = a
  /\ loaded' = LoadForInference(a)
  /\ stage' = "loaded"
  /\ exit' = "none"
  /\ UNCHANGED <<vars, text, passes, files>>

\* Every exception but a YAML error is one main() reports.
LoadRaised ==
  /\ stage = "loaded" /\ loaded # "loaded"
  /\ End(IF loaded = "YAMLError" THEN "traceback" ELSE "failed")
  /\ UNCHANGED <<vars, files>>

\* Sampling settings, a stride or an empty prompt that generation refuses.
SettingsRefused ==
  /\ stage = "loaded" /\ loaded = "loaded"
  /\ End("failed")
  /\ UNCHANGED <<vars, files>>

\* The command generates with the cache and the model's own context.
BeginGeneration(c) ==
  /\ stage = "loaded" /\ loaded = "loaded"
  /\ c.useCache /\ c.context = ModelContext
  /\ Begin(c)
  /\ stage' = "generate"
  /\ artifacts' = None /\ loaded' = None
  /\ UNCHANGED <<text, passes, files, exit, calls>>

\* generate() called by a test or an experiment.
CalledDirectly(c) ==
  /\ stage = "idle" /\ calls = 0
  /\ Begin(c)
  /\ stage' = "direct"
  /\ UNCHANGED <<artifacts, loaded, text, passes, files, exit, calls>>

GenerateStep ==
  /\ stage \in {"generate", "direct"}
  /\ Step
  /\ UNCHANGED commandVars

ReturnedDirectly ==
  /\ stage = "direct" /\ pc = "done"
  /\ Leave
  /\ stage' = "idle"
  /\ UNCHANGED <<artifacts, loaded, text, passes, files, exit, calls>>

\* A forward pass raises RuntimeError, as when the device has no memory left.
GenerationFails ==
  /\ stage = "generate" /\ pc = "layer"
  /\ Leave
  /\ End("traceback")
  /\ UNCHANGED files

-----------------------------------------------------------------------------
(* save_sample                                                             *)

\* The generated ids are decoded; the name is checked before anything else.
Decode ==
  /\ stage = "generate" /\ pc = "done"
  /\ Leave
  /\ \/ /\ \E flagged \in SUBSET Lines : text' = [call |-> calls, redacted |-> {}, flagged |-> flagged]
        /\ passes' = 0
        /\ stage' = "redact"
        /\ UNCHANGED <<artifacts, loaded, exit, calls>>
     \/ End("failed")
  /\ UNCHANGED files

\* One pass of redact_secrets(): every flagged line becomes a marker, which gives
\* another text.
Redact ==
  /\ stage = "redact"
  /\ text.flagged # {} /\ passes < MaxPasses
  /\ \E flagged \in SUBSET Lines :
       text' = [text EXCEPT !.redacted = @ \cup text.flagged, !.flagged = flagged]
  /\ passes' = passes + 1
  /\ UNCHANGED <<vars, stage, artifacts, loaded, files, exit, calls>>

\* Mutant: after the last pass the text is taken for clean.
CleanAfterLastPass ==
  /\ stage = "redact"
  /\ text.flagged = {} \/ passes = MaxPasses
  /\ stage' = "write text"
  /\ UNCHANGED <<vars, artifacts, loaded, text, passes, files, exit, calls>>

Clean ==
  /\ stage = "redact"
  /\ text.flagged = {}
  /\ stage' = "write text"
  /\ UNCHANGED <<vars, artifacts, loaded, text, passes, files, exit, calls>>

\* SampleSecretError
StillFlagged ==
  /\ stage = "redact"
  /\ text.flagged # {} /\ passes = MaxPasses
  /\ End("failed")
  /\ UNCHANGED <<vars, files>>

\* Mutant: the sidecar first.
WriteSidecarFirst ==
  /\ stage = "write text"
  /\ temps' = temps \cup {text}
  /\ sidecar' = [call |-> text.call, redacted |-> text.redacted]
  /\ stage' = "rename text"
  /\ UNCHANGED <<vars, artifacts, loaded, text, passes, sample, exit, calls>>

\* _atomic_write_text(): a temporary file is written and renamed, for the text and then
\* for the sidecar.
WriteTemp ==
  /\ stage = "write text"
  /\ temps' = temps \cup {text}
  /\ stage' = "rename text"
  /\ UNCHANGED <<vars, artifacts, loaded, text, passes, sample, sidecar, exit, calls>>

RenameText ==
  /\ stage = "rename text"
  /\ sample' = text
  /\ temps' = temps \ {text}
  /\ stage' = "write sidecar"
  /\ UNCHANGED <<vars, artifacts, loaded, text, passes, sidecar, exit, calls>>

\* The sidecar's own temporary file holds rule names and line numbers only.
WriteSidecar ==
  /\ stage = "write sidecar"
  /\ sidecar' = [call |-> text.call, redacted |-> text.redacted]
  /\ End("ok")
  /\ UNCHANGED <<vars, sample, temps>>

\* mkdir, mkstemp, the write, the fsync or the rename raises OSError; the temporary file
\* is removed.
WriteFails ==
  /\ stage \in {"write text", "rename text", "write sidecar"}
  /\ temps' = temps \ {text}
  /\ End("failed")
  /\ UNCHANGED <<vars, sample, sidecar>>

Kill ==
  /\ stage \notin {"idle", "direct"}
  /\ Leave
  /\ End("killed")
  /\ UNCHANGED files

-----------------------------------------------------------------------------
CommandStep ==
  \/ LoadRaised \/ SettingsRefused \/ \E c \in Calls : BeginGeneration(c)
  \/ GenerateStep \/ ReturnedDirectly \/ GenerationFails
  \/ Decode \/ Redact \/ Clean \/ StillFlagged
  \/ WriteTemp \/ RenameText \/ WriteSidecar \/ WriteFails

CommandNext ==
  \/ Refused \/ (\E a \in Artifacts : Load(a)) \/ (\E c \in Calls : CalledDirectly(c))
  \/ CommandStep \/ Kill

CommandSpec == CommandInit /\ [][CommandNext]_allVars

-----------------------------------------------------------------------------
(* Properties                                                              *)

\* What the command line says of a field: the last override of it, else the file, else
\* the default.
Says(a, f) ==
  LET items == {i \in DOMAIN a.overrides : a.overrides[i].key = f}
  IN IF items # {} THEN a.overrides[CHOOSE i \in items : \A j \in items : j <= i].value.is
     ELSE IF f \in DOMAIN a.yaml.data THEN a.yaml.data[f].is ELSE Defaults[f].is

\* load_for_inference returns a model only for the configuration and the tokenizer it was
\* trained with (loading.py 28-33), and does not take a configuration for another one
\* because a number is written without a point, is overridden twice or is a default.
LoadsExactlyTheTrained ==
  stage = "loaded" =>
    LET a == artifacts
        same == \A f \in Fields : Says(a, f) = a.checkpoint.config[f].is
        tokenizers == /\ a.tokenizer.intact /\ a.checkpoint.intact
                      /\ a.tokenizer.sha256 = a.checkpoint.tokenizer
                      /\ a.tokenizer.vocab = Says(a, "vocab_size")
    IN /\ loaded = "loaded" => same /\ tokenizers
       /\ loaded = "LoadError" /\ a.yaml.kind = "model" => ~ same \/ ~ tokenizers

\* Nothing the scan flags is ever in a file, temporary files and killed or failed calls
\* included (samples.py 7-8, "not even to a temporary file").
NothingFlaggedOnDisk == \A t \in temps \cup ({sample} \ {None}) : t.flagged = {}

\* A sidecar never speaks of a text that is not there: it describes the text beside it or
\* one that a later call, which then did not finish, has replaced.  After a call that
\* exits with 0 both are its own.
SidecarDescribesItsText ==
  /\ sidecar # None =>
       /\ sample # None
       /\ sidecar.call <= sample.call
       /\ sidecar.call = sample.call => sidecar.redacted = sample.redacted
  /\ exit = "ok" => sample.call = calls /\ sidecar.call = calls
=============================================================================
