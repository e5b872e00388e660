---------------------------- MODULE Evidence_proofs ----------------------------
(***************************************************************************)
(* What the project takes as evidence of a run: the record of a smoke run, *)
(* the report of a resume test and the CI runs of a commit.                *)
(*                                                                         *)
(* For any number of calls, steps and models, status.json and the outcome  *)
(* the caller sees are backed by record.yaml, and what the script builds   *)
(* is what the ledger asks for.  For any work directory, a report speaks   *)
(* of this call alone and the ledger judges it as the harness did.  For    *)
(* any history of CI runs and any pages, no run that counts is missed and  *)
(* green rests on one attempt.                                             *)
(***************************************************************************)
EXTENDS SmokeRun, ResumeHarness, CiEvidence, InductionLemmas, TLAPS, FiniteSetTheorems,
        SequenceTheorems

-----------------------------------------------------------------------------
(* kittylm/model: the parameters of a model                                *)

Tensor == {<<i, t>> : i \in Nat, t \in {"tok_embeddings", "norm1", "norm2", "norm", "lm_head"}}
          \cup {<<i, t, k>> : i \in Nat, t \in {"attention", "mlp"}, k \in 1 .. 4}
Owners == {<<"Linear", "CausalSelfAttention">>, <<"Linear", "SwiGLU">>, <<"RMSNorm">>,
           <<"Embedding">>, <<"lm_head">>}
Parameter == [owners : Owners, tensor : Tensor, size : Nat]

\* Every parameter of a KittyLM has a module with a category among its owners.
LEMMA HasCategory ==
  ASSUME NEW p \in Parameter
  PROVE  Category(p) \in ParameterCategories
<1> DEFINE Nearest(n) == /\ p.owners[n] \in DOMAIN CategoryOf
                         /\ \A m \in 1 .. n - 1 : p.owners[m] \notin DOMAIN CategoryOf
           nearest == CHOOSE n \in DOMAIN p.owners : Nearest(n)
<1>1. DOMAIN CategoryOf = {"Embedding", "CausalSelfAttention", "SwiGLU", "RMSNorm",
                           "RotaryEmbedding", "lm_head"}
  BY DEF CategoryOf
<1>2. \A t \in DOMAIN CategoryOf : CategoryOf[t] \in ParameterCategories
  BY DEF CategoryOf, ParameterCategories
<1>3. \E n \in DOMAIN p.owners : Nearest(n)
  <2>1. p.owners \in Owners
    BY DEF Parameter
  <2>2. CASE p.owners \in {<<"Linear", "CausalSelfAttention">>, <<"Linear", "SwiGLU">>}
    <3>1. 2 \in DOMAIN p.owners /\ p.owners[2] \in DOMAIN CategoryOf /\ p.owners[1] = "Linear"
      BY <1>1, <2>2
    <3>2. Nearest(2)
      BY <1>1, <3>1
    <3> QED
      BY <3>1, <3>2
  <2>3. CASE p.owners \in {<<"RMSNorm">>, <<"Embedding">>, <<"lm_head">>}
    <3>1. 1 \in DOMAIN p.owners /\ Nearest(1)
      BY <1>1, <2>3
    <3> QED
      BY <3>1
  <2> QED
    BY <2>1, <2>2, <2>3 DEF Owners
<1> HIDE DEF Nearest
<1>4. nearest \in DOMAIN p.owners /\ Nearest(nearest)
  BY <1>3
<1>5. Category(p) = CategoryOf[p.owners[nearest]]
  BY DEF Category, Nearest
<1> QED
  BY <1>2, <1>4, <1>5 DEF Nearest

\* Four sequences one after another.
LEMMA FourJoined ==
  ASSUME NEW S, NEW a \in Seq(S), NEW b \in Seq(S), NEW d \in Seq(S), NEW e \in Seq(S)
  PROVE  /\ a \o b \o d \o e \in Seq(S)
         /\ Len(a \o b \o d \o e) = Len(a) + Len(b) + Len(d) + Len(e)
<1>1. a \o b \in Seq(S) /\ Len(a \o b) = Len(a) + Len(b)
  BY ConcatProperties
<1> DEFINE x == a \o b
<1> HIDE DEF x
<1>2. x \in Seq(S) /\ Len(x) = Len(a) + Len(b)
  BY <1>1 DEF x
<1>3. x \o d \in Seq(S) /\ Len(x \o d) = Len(x) + Len(d)
  BY <1>2, ConcatProperties
<1> DEFINE y == x \o d
<1> HIDE DEF y
<1>4. y \in Seq(S) /\ Len(y) = Len(x) + Len(d)
  BY <1>3 DEF y
<1>5. y \o e \in Seq(S) /\ Len(y \o e) = Len(y) + Len(e)
  BY <1>4, ConcatProperties
<1> QED
  BY <1>2, <1>4, <1>5 DEF x, y

\* Nine parameters in every block.
LEMMA BlockParameters ==
  ASSUME NEW c \in ModelConfig, NEW i \in Nat
  PROVE  TransformerBlock(c, i) \in Seq(Parameter) /\ Len(TransformerBlock(c, i)) = 9
<1> DEFINE a == <<Norm(<<i, "norm1">>, c)>>
           b == [k \in 1 .. 4 |-> Linear("CausalSelfAttention", <<i, "attention", k>>, c.width * c.width)]
           d == <<Norm(<<i, "norm2">>, c)>>
           e == [k \in 1 .. 3 |-> Linear("SwiGLU", <<i, "mlp", k>>, c.width * c.ffn)]
<1>1. c.width \in Nat /\ c.width * c.width \in Nat /\ c.width * c.ffn \in Nat
  BY DEF ModelConfig
<1>2. Norm(<<i, "norm1">>, c) \in Parameter /\ Norm(<<i, "norm2">>, c) \in Parameter
  BY <1>1 DEF Norm, Parameter, Owners, Tensor
<1>3. \A k \in 1 .. 4 :
        /\ Linear("CausalSelfAttention", <<i, "attention", k>>, c.width * c.width) \in Parameter
        /\ Linear("SwiGLU", <<i, "mlp", k>>, c.width * c.ffn) \in Parameter
  <2>1. ASSUME NEW k \in 1 .. 4 PROVE <<i, "attention", k>> \in Tensor /\ <<i, "mlp", k>> \in Tensor
    BY DEF Tensor
  <2>2. \A h \in {"CausalSelfAttention", "SwiGLU"}, t \in Tensor, s \in Nat : Linear(h, t, s) \in Parameter
    BY DEF Linear, Parameter, Owners
  <2> HIDE DEF Tensor, Parameter
  <2> QED
    BY <1>1, <2>1, <2>2
<1>4. a \in Seq(Parameter) /\ Len(a) = 1 /\ d \in Seq(Parameter) /\ Len(d) = 1
  BY <1>2
<1>5. b \in [1 .. 4 -> Parameter] /\ e \in [1 .. 3 -> Parameter]
  BY <1>3
<1>6. b \in Seq(Parameter) /\ Len(b) = 4 /\ e \in Seq(Parameter) /\ Len(e) = 3
  <2>1. \A s, n : n \in Nat /\ s \in [1 .. n -> Parameter] => s \in Seq(Parameter) /\ Len(s) = n
    <3> SUFFICES ASSUME NEW n \in Nat, NEW s \in [1 .. n -> Parameter]
                 PROVE  s \in Seq(Parameter) /\ Len(s) = n
      OBVIOUS
    <3>1. s \in Seq(Parameter)
      BY SeqDef
    <3>2. Len(s) \in Nat /\ 1 .. Len(s) = 1 .. n
      BY <3>1, LenProperties
    <3> QED
      BY <3>1, <3>2
  <2> HIDE DEF b, e
  <2> QED
    BY <1>5, <2>1
<1>7. TransformerBlock(c, i) = a \o b \o d \o e
  BY DEF TransformerBlock
<1> HIDE DEF a, b, d, e
<1>8. PICK S : S = Parameter
  OBVIOUS
<1>9. a \in Seq(S) /\ b \in Seq(S) /\ d \in Seq(S) /\ e \in Seq(S)
  BY <1>4, <1>6, <1>8
<1>10. /\ a \o b \o d \o e \in Seq(S)
       /\ Len(a \o b \o d \o e) = Len(a) + Len(b) + Len(d) + Len(e)
  BY <1>9, FourJoined
<1> QED
  BY <1>4, <1>6, <1>7, <1>8, <1>10

\* The parameters of all blocks.
LEMMA LayerParameters ==
  ASSUME NEW c \in ModelConfig
  PROVE  Layers(c) \in Seq(Parameter)
<1> DEFINE At(n) == TransformerBlock(c, 1 + ((n - 1) \div 9))[1 + ((n - 1) % 9)]
<1>1. Layers(c) = [n \in 1 .. c.layers * 9 |-> At(n)]
  <2>1. Len(TransformerBlock(c, 1)) = 9
    BY BlockParameters
  <2> QED
    BY <2>1 DEF Layers
<1>2. ASSUME NEW n \in Nat \ {0} PROVE At(n) \in Parameter
  <2>1. PICK i \in Nat : i = 1 + ((n - 1) \div 9)
    OBVIOUS
  <2>2. PICK k \in 1 .. 9 : k = 1 + ((n - 1) % 9)
    OBVIOUS
  <2>3. TransformerBlock(c, i)[k] \in Parameter
    BY BlockParameters, ElementOfSeq
  <2> QED
    BY <2>1, <2>2, <2>3
<1> HIDE DEF At
<1>3. PICK m \in Nat : m = c.layers * 9
  BY DEF ModelConfig
<1>4. Layers(c) \in [1 .. m -> Parameter]
  BY <1>1, <1>2, <1>3
<1> QED
  BY <1>4, SeqDef

\* All parameters of a model; the embedding is the first.
LEMMA ModelParameters ==
  ASSUME NEW c \in ModelConfig
  PROVE  /\ KittyLM(c) \in Seq(Parameter) /\ Len(KittyLM(c)) > 0
         /\ KittyLM(c)[1].size = c.vocab * c.width
<1> DEFINE e == [owners |-> <<"Embedding">>, tensor |-> <<0, "tok_embeddings">>, size |-> c.vocab * c.width]
           o == [owners |-> <<"lm_head">>, tensor |-> IF c.tied THEN e.tensor ELSE <<0, "lm_head">>,
                 size |-> c.vocab * c.width]
           n == Norm(<<0, "norm">>, c)
           ends == <<n, o>>
<1>1. c.width \in Nat /\ c.vocab * c.width \in Nat
  BY DEF ModelConfig
<1>2. e \in Parameter /\ n \in Parameter
  BY <1>1 DEF Norm, Parameter, Owners, Tensor
<1>3. o \in Parameter
  <2>1. <<0, "lm_head">> \in Tensor /\ <<0, "tok_embeddings">> \in Tensor
    BY DEF Tensor
  <2> QED
    BY <1>1, <2>1 DEF Parameter, Owners
<1>4. KittyLM(c) = <<e>> \o Layers(c) \o ends
  BY DEF KittyLM
<1>5. e.size = c.vocab * c.width
  OBVIOUS
<1> HIDE DEF e, o, n
<1>6. <<e>> \in Seq(Parameter) /\ Len(<<e>>) = 1 /\ <<e>>[1] = e /\ ends \in Seq(Parameter)
  BY <1>2, <1>3
<1>7. Layers(c) \in Seq(Parameter) /\ Len(Layers(c)) \in Nat /\ Len(ends) \in Nat
  BY <1>6, LayerParameters, LenProperties
<1> HIDE DEF ends
<1> DEFINE front == <<e>> \o Layers(c)
<1>8. front \in Seq(Parameter) /\ Len(front) = 1 + Len(Layers(c)) /\ front[1] = e
  BY <1>6, <1>7, ConcatProperties
<1>9. front \o ends \in Seq(Parameter) /\ Len(front \o ends) > 0 /\ (front \o ends)[1] = e
  <2> HIDE DEF front
  <2>1. /\ front \o ends \in Seq(Parameter) /\ Len(front \o ends) = Len(front) + Len(ends)
        /\ \A i \in 1 .. Len(front) + Len(ends) : (front \o ends)[i] =
             IF i <= Len(front) THEN front[i] ELSE ends[i - Len(front)]
    BY <1>6, <1>8, ConcatProperties
  <2>2. 1 \in 1 .. Len(front) + Len(ends) /\ 1 <= Len(front) /\ Len(front) + Len(ends) > 0
    BY <1>7, <1>8
  <2> QED
    BY <1>8, <2>1, <2>2
<1> QED
  BY <1>4, <1>5, <1>9

-----------------------------------------------------------------------------
(* Their accounting                                                        *)

\* There are finitely many categories.
LEMMA FinitelyManyCategories == IsFiniteSet(ParameterCategories)
<1>1. \A S, x : IsFiniteSet(S) => IsFiniteSet(S \cup {x})
  BY FS_AddElement
<1>2. IsFiniteSet({} \cup {"embedding"} \cup {"attention"} \cup {"mlp"} \cup {"normalization"}
                   \cup {"positional"} \cup {"output"})
  BY <1>1, FS_EmptySet
<1>3. ParameterCategories = {} \cup {"embedding"} \cup {"attention"} \cup {"mlp"}
                   \cup {"normalization"} \cup {"positional"} \cup {"output"}
  BY DEF ParameterCategories
<1> QED
  BY <1>2, <1>3

\* count_parameters() always counts what validate_record() accepts.
LEMMA CountsAccepted ==
  ASSUME NEW c \in ModelConfig, 0 \notin {c.vocab, c.width}
  PROVE  AccountingAccepted(CountParameters(KittyLM(c)))
<1> DEFINE ps == KittyLM(c)
           Alike(i) == {j \in DOMAIN ps : ps[j].tensor = ps[i].tensor}
           unique == {i \in DOMAIN ps : \A j \in Alike(i) : i <= j}
           size == [i \in DOMAIN ps |-> ps[i].size]
           category == [i \in DOMAIN ps |-> Category(ps[i])]
           parts == [k \in ParameterCategories |->
                       SumFunctionOnSet(size, {i \in unique : Category(ps[i]) = k})]
           total == SumFunctionOnSet(size, unique)
           shared == {i \in unique : Alike(i) # {i}}
           tied == SumFunctionOnSet(size, shared)
<1>1. CountParameters(ps) =
        [total |-> total, trainable |-> total, parts |-> parts, tied |-> tied,
         nonEmbedding |-> total - parts["embedding"]]
  BY DEF CountParameters
<1>2. /\ Len(ps) \in Nat \ {0} /\ DOMAIN ps = 1 .. Len(ps)
      /\ \A i \in DOMAIN ps : ps[i] \in Parameter
      /\ ps[1].size > 0
  <2>1. ps \in Seq(Parameter) /\ Len(ps) > 0 /\ ps[1].size = c.vocab * c.width
    BY ModelParameters
  <2>2. c.vocab * c.width > 0
    BY DEF ModelConfig
  <2> HIDE DEF ps
  <2> QED
    BY <2>1, <2>2, LenProperties, ElementOfSeq
<1> HIDE DEF ps
<1>3. IsFiniteSet(unique)
  <2>1. IsFiniteSet(1 .. Len(ps))
    BY <1>2, FS_Interval
  <2>2. unique \subseteq 1 .. Len(ps)
    BY <1>2
  <2> QED
    BY <2>1, <2>2, FS_Subset
<1>4. \A i \in unique : size[i] \in Nat /\ category[i] \in ParameterCategories
  BY <1>2, HasCategory DEF Parameter
<1>5. 1 \in unique /\ size[1] > 0
  BY <1>2
<1>6. \A k \in ParameterCategories : parts[k] = SumFunctionOnSet(size, {i \in unique : category[i] = k})
  <2>1. \A k : {i \in unique : Category(ps[i]) = k} = {i \in unique : category[i] = k}
    OBVIOUS
  <2> HIDE DEF unique, size, category
  <2> QED
    BY <2>1
<1>7. shared \in SUBSET unique
  OBVIOUS
<1> HIDE DEF unique, size, category, parts, shared
<1>8. total \in Nat /\ total > 0
  <2>1. /\ total \in Nat /\ total = size[1] + SumFunctionOnSet(size, unique \ {1})
    BY <1>3, <1>4, <1>5, SumRemove
  <2>2. SumFunctionOnSet(size, unique \ {1}) \in Nat
    BY <1>3, <1>4, SumOfPart
  <2> QED
    BY <1>4, <1>5, <2>1, <2>2
<1>9. SumFunctionOnSet(parts, ParameterCategories) = total
  <2>1. \A i \in unique : size[i] \in Nat
    BY <1>4
  <2>2. \A i \in unique : category[i] \in ParameterCategories
    BY <1>4
  <2> QED
    BY <1>3, <1>6, <2>1, <2>2, FinitelyManyCategories, SumOfClasses
<1>10. tied <= total
  BY <1>3, <1>4, <1>7, SumOfPart
<1> HIDE DEF total, tied
<1> QED
  BY <1>1, <1>8, <1>9, <1>10 DEF AccountingAccepted, ps

-----------------------------------------------------------------------------
(* status.json, the outcome and the record                                 *)

BeforeRepeat == {"planned", "training", "checkpoint", "gate", "repeat"}
BeforeResume == BeforeRepeat \cup {"resume"}
Running == Stages \cup {"completed", "handler", "recorded"}

\* seen is updated field by field.
SeenHasFields ==
  {"steps", "trace", "checkpoint", "gate", "series", "repeatPassed", "resume"} \subseteq DOMAIN seen

\* status.json follows the stages: it is terminal only once the call has ended.
StatusOfStage ==
  /\ pc = "planned" => status.state = "planned"
  /\ pc \in Running => status.state = "running"

\* From the gate on, the checkpoint measured is this call's and the one on disk.
CheckpointOfStage ==
  pc \in {"gate", "repeat", "resume", "record"} => seen.checkpoint.run = run /\ saved = run

\* A stage that was asked for is skipped by no path, and one that was not is not entered.
OptionsOfStage ==
  /\ opts \in Options
  /\ pc \in BeforeRepeat => seen.series = "not_run"
  /\ pc = "repeat" => opts.repeat
  /\ pc \in {"resume", "record"} => (opts.repeat <=> seen.series # "not_run")
  /\ pc \in BeforeResume => seen.resume = "not_run"
  /\ pc = "resume" => opts.resume
  /\ pc = "record" => (opts.resume <=> seen.resume # "not_run")

\* Between record.yaml and status.json, the record is already this call's.
RecordOfStage ==
  /\ pc = "completed" =>
       /\ record.status = "completed" /\ record.run = run /\ record.checkpoint.run = saved
       /\ opts.repeat <=> record.series # "not_run"
       /\ opts.resume <=> record.resume # "not_run"
  /\ pc = "recorded" => record.status = "failed" /\ record.run = run

\* How far a call is, what it measured and what is on disk, together.
RunInv ==
  /\ run \in Nat
  /\ SeenHasFields
  /\ StatusOfStage
  /\ CheckpointOfStage
  /\ OptionsOfStage
  /\ RecordOfStage
  /\ StatusBackedByRecord
  /\ OutcomeBackedByRecord

\* What of the completed record the properties read.
LEMMA CompletedFields ==
  /\ CompletedRecord.status = "completed" /\ CompletedRecord.run = run
  /\ CompletedRecord.checkpoint = seen.checkpoint
  /\ CompletedRecord.series = seen.series /\ CompletedRecord.resume = seen.resume
  BY DEF CompletedRecord, BaseRecord

\* The record of a failure is this call's.
LEMMA FailedFields == FailedRecord.status = "failed" /\ FailedRecord.run = run
  BY DEF FailedRecord, BaseRecord

\* Before the first call nothing is claimed.
LEMMA RunInit == Init => RunInv
  BY DEF Init, RunInv, SeenHasFields, NothingSeen, StatusOfStage, Running, Stages, CheckpointOfStage,
         OptionsOfStage, BeforeRepeat, BeforeResume, RecordOfStage, StatusBackedByRecord,
         OutcomeBackedByRecord

-----------------------------------------------------------------------------
\* Every stage, exception and kill keeps RunInv.
LEMMA RunStep == RunInv /\ [Next]_vars => RunInv'
<1> SUFFICES ASSUME RunInv, [Next]_vars PROVE RunInv'
  OBVIOUS
<1> USE DEF RunInv, SeenHasFields, StatusOfStage, CheckpointOfStage, OptionsOfStage,
            RecordOfStage, StatusBackedByRecord, OutcomeBackedByRecord,
            Running, Stages, Ends, BeforeRepeat, BeforeResume
<1>1. CASE Begin
  BY <1>1 DEF Begin, NothingSeen
<1>2. CASE Prepare
  BY <1>2 DEF Prepare
<1>3. CASE TrainStage
  BY <1>3 DEF TrainStage, Continue
<1>4. CASE CheckpointStage
  BY <1>4 DEF CheckpointStage, Continue
<1>5. CASE GateStage
  BY <1>5 DEF GateStage, Continue, NextStage, Options
<1>6. CASE RepeatStage
  BY <1>6 DEF RepeatStage, Continue, Options
<1>7. CASE ResumeStage
  BY <1>7 DEF ResumeStage, Continue
<1>8. CASE RecordStage
  BY <1>8, CompletedFields DEF RecordStage
<1>9. CASE ReturnRecord
  BY <1>9 DEF ReturnRecord
<1>10. CASE Raise
  BY <1>10 DEF Raise, MayHaveWritten
<1>11. CASE RecordFailure
  BY <1>11, FailedFields DEF RecordFailure
<1>12. CASE RaiseRunFailed
  BY <1>12 DEF RaiseRunFailed
<1>13. CASE HandlerRaises
  BY <1>13 DEF HandlerRaises
<1>14. CASE Kill
  BY <1>14 DEF Kill, MayHaveWritten
<1>15. CASE Ended \/ UNCHANGED vars
  BY <1>15 DEF Ended, vars
<1>16. QED
  BY <1>1, <1>2, <1>3, <1>4, <1>5, <1>6, <1>7, <1>8, <1>9, <1>10, <1>11, <1>12, <1>13,
     <1>14, <1>15 DEF Next, Work


-----------------------------------------------------------------------------
(* The builder and the ledger                                              *)

Traces == [steps : Nat, finite : BOOLEAN]
Checkpoints == [step : Nat, run : Nat]
GateResults == [loss : Loss, failures : SUBSET Checks]
AfterGate == {"repeat", "resume", "record"}

\* What a stage measured is there, and complete, when the next one begins.
MeasuredInv ==
  /\ model \in Models
  /\ seen.steps \in {0, MaxSteps}
  /\ pc \in {"checkpoint", "gate"} \cup AfterGate =>
       seen.steps = MaxSteps /\ seen.trace \in Traces /\ seen.trace.steps = MaxSteps
  /\ pc \in {"gate"} \cup AfterGate => seen.checkpoint \in Checkpoints /\ seen.checkpoint.step = MaxSteps
  /\ pc \in AfterGate => seen.gate \in GateResults
  /\ pc \in BeforeRepeat => seen.repeatPassed = None
  /\ pc \in {"resume", "record"} =>
       IF seen.series = "not_run" THEN seen.repeatPassed = None ELSE seen.repeatPassed \in BOOLEAN
  /\ pc = "handler" => failedAt \in Stages

\* No check of the gate has another name.
LEMMA GateChecks ==
  ASSUME NEW loss, NEW matches, NEW finite
  PROVE  GateFailures(loss, matches, finite) \subseteq Checks
  BY DEF GateFailures, If, Checks

\* Every stage, exception and kill keeps it.
LEMMA MeasuredStep == RunInv /\ MeasuredInv /\ [Next]_vars => MeasuredInv'
<1> SUFFICES ASSUME RunInv, MeasuredInv, [Next]_vars PROVE MeasuredInv'
  OBVIOUS
<1>0. SeenHasFields /\ run \in Nat /\ MaxSteps \in Nat \ {0, 1} /\ OptionsOfStage
  BY SmokeAssumption DEF RunInv
<1> USE DEF MeasuredInv, SeenHasFields, Stages, Ends, BeforeRepeat, AfterGate
<1>1. CASE Begin
  BY <1>1 DEF Begin, NothingSeen
<1>2. CASE Prepare
  BY <1>2 DEF Prepare
<1>3. CASE TrainStage
  <2>1. PICK finite \in BOOLEAN :
          seen' = [seen EXCEPT !.steps = MaxSteps, !.trace = [steps |-> MaxSteps, finite |-> finite]]
    BY <1>3 DEF TrainStage
  <2>2. [steps |-> MaxSteps, finite |-> finite] \in Traces
    BY <1>0 DEF Traces
  <2>3. /\ seen'.steps = MaxSteps /\ seen'.trace = [steps |-> MaxSteps, finite |-> finite]
        /\ seen'.repeatPassed = seen.repeatPassed
    BY <1>0, <2>1
  <2> QED
    BY <1>3, <2>2, <2>3 DEF TrainStage, Continue
<1>4. CASE CheckpointStage
  <2>1. seen' = [seen EXCEPT !.checkpoint = [step |-> seen.steps, run |-> run]]
    BY <1>4 DEF CheckpointStage
  <2>2. [step |-> seen.steps, run |-> run] \in Checkpoints
    BY <1>0 DEF Checkpoints
  <2>3. /\ seen'.checkpoint = [step |-> seen.steps, run |-> run] /\ seen'.steps = seen.steps
        /\ seen'.trace = seen.trace /\ seen'.repeatPassed = seen.repeatPassed
    BY <1>0, <2>1
  <2> QED
    BY <1>4, <2>2, <2>3 DEF CheckpointStage, Continue
<1>5. CASE GateStage
  <2>1. PICK loss \in Loss, matches \in BOOLEAN, finite \in BOOLEAN :
          seen' = [seen EXCEPT !.gate = [loss |-> loss, failures |-> GateFailures(loss, matches, finite)]]
    <3>1. (seen.trace.finite /\ "train" \notin tainted) \in BOOLEAN
      OBVIOUS
    <3> QED
      BY <1>5, <3>1 DEF GateStage
  <2>2. [loss |-> loss, failures |-> GateFailures(loss, matches, finite)] \in GateResults
    BY GateChecks DEF GateResults
  <2>3. /\ seen'.gate \in GateResults /\ seen'.steps = seen.steps /\ seen'.series = seen.series
        /\ seen'.trace = seen.trace /\ seen'.checkpoint = seen.checkpoint
        /\ seen'.repeatPassed = seen.repeatPassed
    BY <1>0, <2>1, <2>2
  <2>4. seen.series = "not_run"
    BY <1>0, <1>5 DEF GateStage, OptionsOfStage
  <2>5. pc' \in AfterGate /\ UNCHANGED <<model, failedAt>>
    BY <1>5 DEF GateStage, Continue, NextStage
  <2> QED
    BY <1>5, <2>3, <2>4, <2>5 DEF GateStage
<1>6. CASE RepeatStage
  <2>1. PICK passed \in BOOLEAN :
          seen' = [seen EXCEPT !.series = "compared", !.repeatPassed = passed]
    <3>1. \A fits \in BOOLEAN : (fits /\ "repeat" \notin tainted') \in BOOLEAN
      OBVIOUS
    <3> QED
      BY <1>6, <3>1 DEF RepeatStage
  <2>2. /\ seen'.gate = seen.gate /\ seen'.steps = seen.steps /\ seen'.series = "compared"
        /\ seen'.trace = seen.trace /\ seen'.checkpoint = seen.checkpoint
        /\ seen'.repeatPassed = passed
    BY <1>0, <2>1
  <2>3. pc' \in {"resume", "record"} /\ UNCHANGED <<model, failedAt>>
    BY <1>6 DEF RepeatStage, Continue
  <2> QED
    BY <1>6, <2>2, <2>3 DEF RepeatStage
<1>7. CASE ResumeStage
  <2>1. PICK test \in {"passed", "failed"} : seen' = [seen EXCEPT !.resume = test]
    BY <1>7 DEF ResumeStage
  <2>2. /\ seen'.gate = seen.gate /\ seen'.steps = seen.steps /\ seen'.series = seen.series
        /\ seen'.trace = seen.trace /\ seen'.checkpoint = seen.checkpoint
        /\ seen'.repeatPassed = seen.repeatPassed
    BY <1>0, <2>1
  <2> QED
    BY <1>7, <2>2 DEF ResumeStage, Continue
<1>8. CASE RecordStage \/ ReturnRecord \/ RecordFailure \/ RaiseRunFailed \/ HandlerRaises
  BY <1>8 DEF RecordStage, ReturnRecord, RecordFailure, RaiseRunFailed, HandlerRaises
<1>9. CASE Raise
  <2>1. seen' = seen \/ seen' = [seen EXCEPT !.steps = MaxSteps]
    BY <1>9 DEF Raise
  <2>2. seen'.steps \in {0, MaxSteps}
    BY <1>0, <2>1
  <2> QED
    BY <1>9, <2>2 DEF Raise
<1>10. CASE Kill
  BY <1>10 DEF Kill
<1>11. CASE Ended \/ UNCHANGED vars
  BY <1>11 DEF Ended, vars
<1> QED
  BY <1>1, <1>2, <1>3, <1>4, <1>5, <1>6, <1>7, <1>8, <1>9, <1>10, <1>11 DEF Next, Work

\* No logged value was non-finite when a gate passed, and no stage after it logs there.
CleanInv ==
  /\ pc \in AfterGate /\ seen.gate.failures = {} => seen.trace.finite /\ "train" \notin tainted
  /\ pc \in {"resume", "record"} /\ seen.repeatPassed = TRUE => "repeat" \notin tainted

\* A gate without failures was given finite values only.
LEMMA NoFailures ==
  ASSUME NEW loss, NEW matches, NEW finite, GateFailures(loss, matches, finite) = {}
  PROVE  finite
  BY DEF GateFailures, If

\* Every stage, exception and kill keeps it.
LEMMA CleanStep == RunInv /\ MeasuredInv /\ CleanInv /\ [Next]_vars => CleanInv'
<1> SUFFICES ASSUME RunInv, MeasuredInv, CleanInv, [Next]_vars PROVE CleanInv'
  OBVIOUS
<1>0. SeenHasFields
  BY DEF RunInv
<1> USE DEF CleanInv, AfterGate, Ends, Stages
<1>1. CASE Begin \/ Prepare \/ TrainStage \/ CheckpointStage
  BY <1>1 DEF Begin, Prepare, TrainStage, CheckpointStage, Continue
<1>2. CASE GateStage
  <2>1. PICK loss \in Loss, matches \in BOOLEAN :
          LET finite == seen.trace.finite /\ "train" \notin tainted IN
          seen' = [seen EXCEPT !.gate =
                     [loss |-> loss, failures |-> GateFailures(loss, matches, finite)]]
    BY <1>2 DEF GateStage
  <2> DEFINE finite == seen.trace.finite /\ "train" \notin tainted
  <2>2. /\ seen'.gate.failures = GateFailures(loss, matches, finite)
        /\ seen'.trace = seen.trace /\ seen'.repeatPassed = seen.repeatPassed
    BY <1>0, <2>1 DEF SeenHasFields
  <2>3. seen'.gate.failures = {} => finite
    BY <2>2, NoFailures
  <2>4. seen'.repeatPassed # TRUE
    BY <1>2, <2>2, NoneAssumption DEF GateStage, MeasuredInv, BeforeRepeat
  <2> QED
    BY <1>2, <2>2, <2>3, <2>4 DEF GateStage
<1>3. CASE RepeatStage
  <2>1. PICK fits \in BOOLEAN :
          seen' = [seen EXCEPT !.series = "compared",
                               !.repeatPassed = fits /\ "repeat" \notin tainted']
    BY <1>3 DEF RepeatStage
  <2>2. /\ seen'.gate = seen.gate /\ seen'.trace = seen.trace
        /\ seen'.repeatPassed = (fits /\ "repeat" \notin tainted')
    BY <1>0, <2>1 DEF SeenHasFields
  <2>3. seen'.repeatPassed = TRUE => "repeat" \notin tainted'
    BY <2>2
  <2>4. "train" \in tainted' => "train" \in tainted
    BY <1>3 DEF RepeatStage, Log
  <2> QED
    BY <1>3, <2>2, <2>3, <2>4 DEF RepeatStage
<1>4. CASE ResumeStage
  <2>1. PICK test \in {"passed", "failed"} : seen' = [seen EXCEPT !.resume = test]
    BY <1>4 DEF ResumeStage
  <2>2. /\ seen'.gate = seen.gate /\ seen'.trace = seen.trace
        /\ seen'.repeatPassed = seen.repeatPassed
    BY <1>0, <2>1 DEF SeenHasFields
  <2> QED
    BY <1>4, <2>2 DEF ResumeStage, Continue
<1>5. CASE RecordStage \/ ReturnRecord \/ RecordFailure \/ RaiseRunFailed \/ HandlerRaises
  BY <1>5 DEF RecordStage, ReturnRecord, RecordFailure, RaiseRunFailed, HandlerRaises
<1>6. CASE Raise \/ Kill
  BY <1>6 DEF Raise, Kill
<1>7. CASE Ended \/ UNCHANGED vars
  BY <1>7 DEF Ended, vars
<1> QED
  BY <1>1, <1>2, <1>3, <1>4, <1>5, <1>6, <1>7 DEF Next, Work

\* The ledger accepts the counts of every model the runs use.
LEMMA ParametersAccepted ==
  ASSUME MeasuredInv
  PROVE  AccountingAccepted(Parameters[model])
<1>1. model \in Models /\ model \in ModelConfig /\ 0 \notin {model.vocab, model.width}
  BY SmokeAssumption DEF MeasuredInv
<1> QED
  BY <1>1, CountsAccepted DEF Parameters

\* The record of a failure is refused for nothing but its message.
LEMMA FailedProblems ==
  ASSUME MeasuredInv, pc = "handler"
  PROVE  Problems(FailedRecord) \subseteq {"text"}
<1> DEFINE r == FailedRecord
<1>1. /\ r.status = "failed" /\ r.results = None /\ r.failure = failedAt /\ r.gate = None
      /\ r.trace = None /\ r.checkpoint = None /\ r.resume = "not_run" /\ r.evidence = None
      /\ r.steps = seen.steps /\ r.parameters = Parameters[model]
  BY DEF FailedRecord, BaseRecord
<1>2. failedAt # None /\ ~ (seen.steps > MaxSteps)
  BY NoneAssumption, SmokeAssumption DEF MeasuredInv
<1> HIDE DEF r
<1>3. StatusProblems(r) = {}
  BY <1>1, <1>2 DEF StatusProblems, If
<1>4. /\ PerplexityProblems(r) = {} /\ TraceProblems(r) = {} /\ GateProblems(r) = {}
      /\ CheckpointProblems(r) = {} /\ ResumeProblems(r) = {}
  BY <1>1, <1>2 DEF PerplexityProblems, TraceProblems, GateProblems, CheckpointProblems,
                    ResumeProblems, If
<1>5. AccountingProblems(r) = {}
  BY <1>1, ParametersAccepted DEF AccountingProblems, If
<1>6. TextProblems(r) \subseteq {"text"}
  BY DEF TextProblems, If
<1>7. Problems(r) \subseteq {"text"}
  BY <1>3, <1>4, <1>5, <1>6 DEF Problems
<1> QED
  BY <1>7 DEF r

\* The record of a run that came to its end is refused only for what it measured.
LEMMA CompletedProblems ==
  ASSUME RunInv, MeasuredInv, pc = "record"
  PROVE  Problems(CompletedRecord) = {} <=>
           seen.trace.finite /\ seen.gate.loss \in {"low", "high", "inf"}
<1> DEFINE r == CompletedRecord
           loss == seen.gate.loss
           results == [loss |-> loss, ppl |-> Perplexity(loss)]
<1>1. /\ r.status = "completed" /\ r.results = results /\ r.failure = None /\ r.gate = GateBlock
      /\ r.trace = seen.trace /\ r.checkpoint = seen.checkpoint /\ r.resume = seen.resume
      /\ r.series = seen.series /\ r.repeatPassed = seen.repeatPassed
      /\ r.steps = seen.steps /\ r.parameters = Parameters[model]
      /\ r.evidence = IF opts.resume THEN "evidence" ELSE None
  BY DEF CompletedRecord, BaseRecord
<1> HIDE DEF r
<1>2. /\ seen.steps = MaxSteps /\ MaxSteps \in Nat /\ seen.trace \in Traces
      /\ seen.trace.steps = MaxSteps /\ seen.checkpoint \in Checkpoints
      /\ seen.checkpoint.step = MaxSteps /\ seen.gate \in GateResults
  BY SmokeAssumption DEF MeasuredInv, AfterGate
<1>3. seen.trace # None /\ seen.checkpoint # None
  BY <1>2, NoneAssumption DEF Traces, Checkpoints
<1>4. loss \in Loss /\ Perplexity(loss) \in Loss
  BY <1>2 DEF GateResults, Perplexity, Loss
<1>5. results # None /\ results.loss = loss /\ results.ppl = Perplexity(loss)
  <2>1. results \in [loss : Loss, ppl : Loss]
    BY <1>4
  <2> QED
    BY <2>1, NoneAssumption
<1>6. /\ GateBlock # None /\ GateBlock.loss = loss /\ GateBlock.ppl = Perplexity(loss)
      /\ GateBlock.passed = (GateBlock.failures = {})
  <2>1. (seen.gate.failures = {}) \in BOOLEAN /\ seen.gate.failures \in SUBSET Checks
    BY <1>2 DEF GateResults
  <2>2. GateBlock \in [loss : Loss, ppl : Loss, failures : SUBSET Checks, passed : BOOLEAN]
    BY <1>4, <2>1 DEF GateBlock
  <2> QED
    BY <2>2, NoneAssumption DEF GateBlock
<1> HIDE DEF loss, results
<1>7. StatusProblems(r) = {}
  BY <1>1, <1>3, <1>5, <1>6 DEF StatusProblems, If
<1>8. PerplexityProblems(r) = {} <=> loss \in {"low", "high", "inf"}
  BY <1>1, <1>4, <1>5 DEF PerplexityProblems, If, Close, Exp, Perplexity, Loss
<1>9. TraceProblems(r) = {} <=> seen.trace.finite
  <2>1. r.trace # None /\ ~ (r.steps > MaxSteps) /\ r.trace.steps = r.steps
    BY <1>1, <1>2, <1>3
  <2>2. TraceProblems(r) = If(~ r.trace.finite, "trace values")
    BY <2>1 DEF TraceProblems, If
  <2>3. If(~ r.trace.finite, "trace values") = {} <=> r.trace.finite
    BY DEF If
  <2> QED
    BY <1>1, <2>2, <2>3
<1>10. (r.series = "not_run") = (r.repeatPassed = None)
  BY <1>1, NoneAssumption DEF MeasuredInv
<1>11. loss \in {"low", "high", "inf"} => GateProblems(r) = {}
  BY <1>1, <1>4, <1>5, <1>6, <1>10 DEF GateProblems, If, Close, Exp, Perplexity, IsFinite
<1>12. CheckpointProblems(r) = {}
  BY <1>1, <1>2 DEF CheckpointProblems, If
<1>13. ResumeProblems(r) = {}
  <2>1. opts.resume <=> seen.resume # "not_run"
    BY DEF RunInv, OptionsOfStage
  <2> QED
    BY <1>1, <2>1, NoneAssumption DEF ResumeProblems, If
<1>14. AccountingProblems(r) = {} /\ TextProblems(r) = {}
  BY <1>1, ParametersAccepted DEF AccountingProblems, TextProblems, If
<1>15. Problems(r) = {} <=> seen.trace.finite /\ loss \in {"low", "high", "inf"}
  BY <1>7, <1>8, <1>9, <1>11, <1>12, <1>13, <1>14 DEF Problems
<1> QED
  BY <1>15 DEF r, loss

\* RunInv, MeasuredInv and CleanInv hold in every state a sequence of calls reaches.
THEOREM RunInvariance == Spec => [](RunInv /\ MeasuredInv /\ CleanInv)
<1>1. Init => RunInv /\ MeasuredInv /\ CleanInv
  BY RunInit DEF Init, MeasuredInv, CleanInv, NothingSeen, BeforeRepeat, AfterGate
<1>2. RunInv /\ MeasuredInv /\ CleanInv /\ [Next]_vars => (RunInv /\ MeasuredInv /\ CleanInv)'
  BY RunStep, MeasuredStep, CleanStep
<1>3. QED
  BY <1>1, <1>2, PTL DEF Spec

\* A kill or an exception between record.yaml and status.json never leaves a terminal
\* status whose record is missing, of another call, or of a checkpoint since replaced.
THEOREM StatusIsBacked == Spec => []StatusBackedByRecord
<1>1. RunInv => StatusBackedByRecord
  BY DEF RunInv
<1>2. QED
  BY <1>1, RunInvariance, PTL

\* run_experiment() returns only after recording this very call, with the stages it was
\* asked for, and raises RunFailed only after recording the failure.
THEOREM OutcomeIsBacked == Spec => []OutcomeBackedByRecord
<1>1. RunInv => OutcomeBackedByRecord
  BY DEF RunInv
<1>2. QED
  BY <1>1, RunInvariance, PTL

\* The builder of the record and the ledger that judges it agree, after any stage.
THEOREM BuilderTheorem == Spec => []BuilderMeetsLedger
<1>1. RunInv /\ MeasuredInv => BuilderMeetsLedger
  BY FailedProblems, CompletedProblems DEF BuilderMeetsLedger
<1>2. QED
  BY <1>1, RunInvariance, PTL

\* A passed gate on record means that no value logged so far was non-finite: whatever an
\* earlier call left in metrics.jsonl, and whichever stages follow the gate.
THEOREM PassesTheorem == Spec => PassedGateIsFinite
<1> DEFINE Step == record' # record /\ record'.status = "completed" =>
                     /\ record'.gate.passed => record'.trace.finite /\ "train" \notin tainted'
                     /\ record'.repeatPassed = TRUE => "repeat" \notin tainted'
<1>1. CleanInv /\ [Next]_vars => [Step]_vars
  <2> SUFFICES ASSUME CleanInv, Next PROVE Step
    OBVIOUS
  <2>1. CASE RecordStage
    <3>1. record' = CompletedRecord /\ tainted' = tainted /\ pc = "record"
      BY <2>1 DEF RecordStage
    <3>2. /\ CompletedRecord.gate = GateBlock /\ CompletedRecord.trace = seen.trace
          /\ CompletedRecord.repeatPassed = seen.repeatPassed
      BY DEF CompletedRecord, BaseRecord
    <3>3. GateBlock.passed = (seen.gate.failures = {})
      BY DEF GateBlock
    <3> QED
      BY <3>1, <3>2, <3>3 DEF CleanInv, AfterGate
  <2>2. CASE RecordFailure
    BY <2>2, FailedFields DEF RecordFailure
  <2>3. CASE ~ RecordStage /\ ~ RecordFailure
    <3>1. record' = record
      BY <2>3 DEF Next, Work, Begin, Prepare, TrainStage, CheckpointStage, GateStage, RepeatStage,
                  ResumeStage, Continue, ReturnRecord, Raise, RaiseRunFailed, HandlerRaises, Kill,
                  Ended, vars
    <3> QED
      BY <3>1
  <2> QED
    BY <2>1, <2>2, <2>3
<1>2. QED
  BY <1>1, RunInvariance, PTL DEF Spec, PassedGateIsFinite

-----------------------------------------------------------------------------
(* kittylm/training/resume_harness.py                                      *)

Files == File \cup {NoFile}

HarnessTypes ==
  /\ spec \in [kill : 0 .. TrainingSteps, total : 0 .. TrainingSteps + 1, device : Devices]
  /\ phase \in Modes \cup {"check", "compare", "report", "error"}
  /\ out \in [Modes -> Files]
  /\ final \in [{"full", "split"} -> Files]
  /\ \A c \in Categories : relation[c] \in Relations(c)

\* What each worker of this call has left, from the moment it ended.
Progress ==
  /\ phase \in Modes \cup {"compare", "report"} =>
       0 < spec.kill /\ spec.kill < spec.total /\ spec.total <= TrainingSteps
  /\ phase \in {"first", "resume", "compare", "report"} =>
       final["full"] = New(spec.total) /\ out["full"] = New(spec.total)
  /\ phase \in {"resume", "compare", "report"} =>
       pointer \in File /\ pointer.fresh /\ out["first"] = New(spec.kill)
  /\ phase \in {"compare", "report"} =>
       final["split"] = New(spec.total) /\ out["resume"] = New(spec.total)

Comparison == [c \in Categories |-> Verdict(relation[c])]
Passed == \A c \in Categories : VerdictOk(c, Comparison[c], spec.device)

\* A report is the verdict of this call's comparison, and there is none before.
Reported ==
  report = IF phase = "report"
             THEN [test |-> IF Passed THEN "passed" ELSE "failed", comparison |-> Comparison]
             ELSE NoReport

HarnessInv == HarnessTypes /\ Progress /\ Reported

\* A file this call writes for a step it runs is a file.
LEMMA NewFile ==
  ASSUME NEW s \in 0 .. TrainingSteps
  PROVE  New(s) \in File /\ New(s).fresh
  BY DEF New, File

\* The workers' steps are steps of the run.
LEMMA Steps ==
  ASSUME HarnessTypes, Progress, phase \in Modes
  PROVE  spec.kill \in 1 .. TrainingSteps /\ spec.total \in 1 .. TrainingSteps
  BY HarnessAssumption DEF HarnessTypes, Progress

\* validate_resume() starts with files of earlier calls at most, and without a report.
LEMMA HarnessInitInv == HarnessInit => HarnessInv
<1> SUFFICES ASSUME HarnessInit PROVE HarnessInv
  OBVIOUS
<1>1. PICK left \in {NoFile} \cup {Old(s) : s \in 1 .. TrainingSteps} :
        out = [m \in Modes |-> left] /\ final = [d \in {"full", "split"} |-> left]
  BY DEF HarnessInit
<1>2. left \in Files
  <2>1. \A s \in 1 .. TrainingSteps : Old(s) \in File
    BY HarnessAssumption DEF File, Old
  <2>2. QED
    BY <2>1 DEF Files
<1>3. HarnessTypes
  BY <1>1, <1>2 DEF HarnessInit, HarnessTypes
<1>4. QED
  BY <1>3 DEF HarnessInit, HarnessInv, Progress, Reported, Modes

\* Every step keeps the types.
LEMMA TypeStep == HarnessTypes /\ Progress /\ [HarnessNext]_harnessVars => HarnessTypes'
<1> SUFFICES ASSUME HarnessTypes, Progress, [HarnessNext]_harnessVars PROVE HarnessTypes'
  OBVIOUS
<1>1. CASE FullWorker \/ FirstWorker \/ ResumeWorker \/ WorkerFails
  <2>1. phase \in Modes
    BY <1>1 DEF FullWorker, FirstWorker, ResumeWorker, WorkerFails, Modes
  <2>2. New(spec.kill) \in Files /\ New(spec.total) \in Files
    BY <2>1, Steps, NewFile DEF Files
  <2> HIDE DEF Files
  <2>3. out' \in [Modes -> Files] /\ final' \in [{"full", "split"} -> Files]
    BY <1>1, <2>2 DEF HarnessTypes, FullWorker, FirstWorker, ResumeWorker, WorkerFails
  <2>4. UNCHANGED <<spec, relation>> /\ phase' \in Modes \cup {"compare", "error"}
    BY <1>1 DEF FullWorker, FirstWorker, ResumeWorker, WorkerFails, Modes
  <2>5. QED
    BY <2>3, <2>4 DEF HarnessTypes
<1>2. CASE CheckSpec \/ Compare \/ HarnessEnded \/ UNCHANGED harnessVars
  BY <1>2 DEF HarnessTypes, CheckSpec, Compare, HarnessEnded, harnessVars, Modes
<1>3. QED
  BY <1>1, <1>2 DEF HarnessNext

\* Every step keeps what the workers before it left.
LEMMA ProgressStep == HarnessTypes /\ Progress /\ [HarnessNext]_harnessVars => Progress'
<1> SUFFICES ASSUME HarnessTypes, Progress, [HarnessNext]_harnessVars PROVE Progress'
  OBVIOUS
<1> USE DEF Progress, Modes
<1>1. CASE CheckSpec
  BY <1>1 DEF CheckSpec
<1>2. CASE FullWorker
  BY <1>2 DEF FullWorker, HarnessTypes
<1>3. CASE FirstWorker
  <2>1. New(spec.kill) \in File /\ New(spec.kill).fresh
    BY <1>3, Steps, NewFile DEF FirstWorker
  <2>2. QED
    BY <1>3, <2>1 DEF FirstWorker, HarnessTypes
<1>4. CASE ResumeWorker
  <2>1. pointer' \in File /\ pointer'.fresh
    <3>1. PICK s \in spec.kill .. spec.total : pointer' = [pointer EXCEPT !.step = s]
      BY <1>4 DEF ResumeWorker
    <3>2. pointer \in File /\ pointer.fresh
      BY <1>4 DEF ResumeWorker
    <3>3. s \in 0 .. TrainingSteps
      <4>1. spec.kill \in 1 .. TrainingSteps /\ spec.total \in 1 .. TrainingSteps
        BY <1>4, Steps DEF ResumeWorker
      <4>2. QED
        BY <4>1, HarnessAssumption
    <3>4. QED
      BY <3>1, <3>2, <3>3 DEF File
  <2>2. QED
    BY <1>4, <2>1 DEF ResumeWorker, HarnessTypes
<1>5. CASE WorkerFails
  BY <1>5 DEF WorkerFails
<1>6. CASE Compare
  BY <1>6 DEF Compare
<1>7. CASE HarnessEnded \/ UNCHANGED harnessVars
  BY <1>7 DEF HarnessEnded, harnessVars
<1>8. QED
  BY <1>1, <1>2, <1>3, <1>4, <1>5, <1>6, <1>7 DEF HarnessNext

\* Only the comparison reports.
LEMMA ReportedStep == HarnessTypes /\ Reported /\ [HarnessNext]_harnessVars => Reported'
<1> SUFFICES ASSUME HarnessTypes, Reported, [HarnessNext]_harnessVars PROVE Reported'
  OBVIOUS
<1>1. CASE CheckSpec \/ FullWorker \/ FirstWorker \/ ResumeWorker \/ WorkerFails
  BY <1>1 DEF CheckSpec, FullWorker, FirstWorker, ResumeWorker, WorkerFails, Reported, Modes,
              NoReport
<1>2. CASE Compare
  <2>1. UNCHANGED <<spec, relation>> /\ (Passed' <=> Passed) /\ Comparison' = Comparison
    BY <1>2 DEF Compare, Passed, Comparison
  <2>2. CASE Reached
    BY <1>2, <2>1, <2>2 DEF Compare, Reported, Passed, Comparison
  <2>3. CASE ~ Reached
    BY <1>2, <2>3 DEF Compare, Reported
  <2>4. QED
    BY <2>2, <2>3
<1>3. CASE HarnessEnded \/ UNCHANGED harnessVars
  BY <1>3 DEF HarnessEnded, harnessVars, Reported, Passed, Comparison
<1>4. QED
  BY <1>1, <1>2, <1>3 DEF HarnessNext

\* The inductive invariant of validate_resume().
THEOREM HarnessInvariance == HarnessSpec => []HarnessInv
<1>1. HarnessInv /\ [HarnessNext]_harnessVars => HarnessInv'
  BY TypeStep, ProgressStep, ReportedStep DEF HarnessInv
<1>2. QED
  BY HarnessInitInv, <1>1, PTL DEF HarnessSpec

\* A report only speaks of steps this call ran: nothing an earlier call left in the work
\* directory enters it.
THEOREM FreshTheorem == HarnessSpec => []ReportIsFresh
<1>1. HarnessInv => ReportIsFresh
  <2> SUFFICES ASSUME HarnessInv, phase = "report" PROVE ReportIsFresh
    BY DEF ReportIsFresh
  <2>1. \A m \in Modes : out[m].fresh
    BY DEF HarnessInv, Progress, New, Modes
  <2>2. \A d \in DOMAIN final : final[d] = New(spec.total)
    BY DEF HarnessInv, Progress, HarnessTypes
  <2>3. pointer.fresh /\ spec.kill \in 1 .. spec.total - 1
    BY HarnessAssumption DEF HarnessInv, Progress, HarnessTypes
  <2>4. QED
    BY <2>1, <2>2, <2>3 DEF ReportIsFresh
<1>2. QED
  BY <1>1, HarnessInvariance, PTL

\* What must be exact is exact only when the two runs agree.
LEMMA ExactIsSame ==
  ASSUME NEW c \in Categories, NEW r \in Relations(c), Verdict(r).word = "exact"
  PROVE  r = Same
  BY DEF Relations, Verdict, Same, Off, NotANumber, Unbounded, Different

\* A resume test passes only if what must not deviate is identical in the two runs.
THEOREM ExactTheorem == HarnessSpec => []PassedIsExact
<1>1. HarnessInv => PassedIsExact
  <2> SUFFICES ASSUME HarnessInv, report.test = "passed", NEW c \in Categories,
                      c \notin Measured \/ spec.device # "cuda"
               PROVE  relation[c] = Same
    BY DEF PassedIsExact
  <2>1. Passed
    BY DEF HarnessInv, Reported, NoReport
  <2>2. c \in ExactRequired(spec.device)
    BY DEF ExactRequired
  <2>3. Verdict(relation[c]).word = "exact"
    BY <2>1, <2>2 DEF Passed, Comparison, VerdictOk
  <2>4. QED
    BY <2>3, ExactIsSame DEF HarnessInv, HarnessTypes
<1>2. QED
  BY <1>1, HarnessInvariance, PTL

\* The ledger accepts the evidence of every report, passed or failed.
THEOREM AcceptedTheorem == HarnessSpec => []EvidenceAccepted
<1>1. HarnessInv => EvidenceAccepted
  <2> SUFFICES ASSUME HarnessInv, phase = "report", spec.device \in KnownDevices
               PROVE  ComparisonAccepted(report.comparison, report.test, spec.device)
    BY DEF EvidenceAccepted
  <2>1. /\ report.comparison = Comparison /\ DOMAIN Comparison = Categories
        /\ report.test = IF Passed THEN "passed" ELSE "failed"
    BY DEF HarnessInv, Reported, Comparison
  <2>2. ExactRequired(spec.device) \subseteq Categories
    BY VerdictAssumption DEF ExactRequired
  <2>3. CASE Passed
    <3>1. \A c \in ExactRequired(spec.device) : Comparison[c].word = "exact"
      BY <2>2, <2>3 DEF Passed, VerdictOk
    <3>2. \A c \in Categories : VerdictOk(c, Comparison[c], spec.device)
      BY <2>3 DEF Passed
    <3>3. QED
      BY <2>1, <2>3, <3>1, <3>2 DEF ComparisonAccepted
  <2>4. CASE ~ Passed
    <3>1. PICK c \in Categories : ~ VerdictOk(c, Comparison[c], spec.device)
      BY <2>4 DEF Passed
    <3>2. CASE c \in ExactRequired(spec.device)
      <4>1. Comparison[c].word # "exact"
        BY <3>1 DEF VerdictOk
      <4>2. QED
        BY <2>1, <2>4, <3>2, <4>1 DEF ComparisonAccepted
    <3>3. CASE c \notin ExactRequired(spec.device)
      BY <2>1, <2>4, <3>1, <3>3 DEF ComparisonAccepted
    <3>4. QED
      BY <3>2, <3>3
  <2>5. QED
    BY <2>3, <2>4
<1>2. QED
  BY <1>1, HarnessInvariance, PTL

-----------------------------------------------------------------------------
(* scripts/verify_ci.py                                                    *)

\* The runs GitHub lists are runs, each once.
ListedInv ==
  /\ created \in Nat
  /\ listed \in Seq(Run)
  /\ \A i \in DOMAIN listed : listed[i].id <= created
  /\ \A i, j \in DOMAIN listed : listed[i].id = listed[j].id => i = j

\* If the run r was read from is still listed, a later attempt of it is, or r's attempt,
\* which then is r itself unless r had not completed.
Superseded(r) ==
  /\ r.id <= created
  /\ \A i \in DOMAIN listed :
       listed[i].id = r.id =>
         \/ listed[i].attempt > r.attempt
         \/ listed[i].attempt = r.attempt /\ (r.completed => listed[i] = r)

\* The script has selected a run.
Chosen == {"jobs", "judge", "green"}

\* While pages are read, what is owed has been read or stands where the next pages begin.
PagesInv ==
  /\ page \in Nat \ {0}
  /\ items \in Seq(Run)
  /\ task = "start" => page = 1 /\ items = <<>> /\ owed = {}
  /\ task = "runs" =>
       /\ Len(items) = (page - 1) * PerPage
       /\ \A r \in owed :
            /\ Candidate(r)
            /\ \/ r \in Range(items)
               \/ \E i \in DOMAIN listed : i > (page - 1) * PerPage /\ listed[i] = r
  /\ task \in Chosen \cup {"select"} => owed \subseteq Candidates

\* What pages showed of a job: the attempt selected, as it was then, or a later one, and
\* none that is later than the run's.
JobSeen(j) ==
  /\ evidence[j] = Missing \/
       /\ evidence[j].attempt \in Nat /\ evidence[j].attempt >= selected.attempt
       /\ evidence[j].attempt = selected.attempt => evidence[j].conclusion = selected.jobs[j]
  /\ \A i \in DOMAIN listed :
       listed[i].id = selected.id => evidence[j].attempt <= listed[i].attempt

\* What was read, chosen and judged, from one step of the script to the next.
SelectedInv ==
  /\ \A r \in Range(items) : task \notin Exits \cup {"judge"} => Superseded(r)
  /\ task \in Chosen => selected \in Candidates /\ \A r \in Candidates : Ranks(selected, r)
  /\ task \in {"start", "runs", "select"} => evidence = [j \in Jobs |-> Missing]
  /\ task \in Chosen => \A j \in Jobs : JobSeen(j)
  /\ task \in {"judge", "green"} => Latest # {}
  /\ task = "green" => \A j \in Jobs : evidence[j].conclusion = "success"

\* GitHub's list, what is still to be read, and what was read of it, together.
VerifyInv == ListedInv /\ PagesInv /\ SelectedInv

\* The next version of a run in the list: the same, a later attempt, or its completion.
Follows(r, s) ==
  \/ s = r
  \/ s.id = r.id /\ s.attempt > r.attempt
  \/ s.id = r.id /\ s.attempt = r.attempt /\ ~ r.completed

\* What GitHub lists next are next versions of what it listed, or one new run.
Evolves ==
  /\ created' \in Nat /\ created <= created'
  /\ \A j \in DOMAIN listed' :
       \/ listed'[j].id > created
       \/ \E i \in DOMAIN listed : Follows(listed[i], listed'[j])

\* What is owed is not moved to an earlier place while pages are read.
OwedStays ==
  /\ owed' \subseteq owed
  /\ task = "runs" =>
       \A r \in owed', k \in DOMAIN listed :
         r = listed[k] /\ r.completed => \E j \in DOMAIN listed' : k <= j /\ listed'[j] = r

\* The places of the list and what stands there.
LEMMA Places ==
  ASSUME ListedInv
  PROVE  /\ Len(listed) \in Nat /\ DOMAIN listed = 1 .. Len(listed)
         /\ \A i \in 1 .. Len(listed) : listed[i] \in Run
  BY LenProperties, ElementOfSeq DEF ListedInv

\* What of a run the proofs compute with.
LEMMA RunFields ==
  ASSUME NEW r \in Run
  PROVE  r.id \in 1 .. MaxCiRuns /\ r.attempt \in 1 .. MaxAttempts /\ r.completed \in BOOLEAN
  BY DEF Run

\* A list with one run in front of the others.
LEMMA RunCreated ==
  ASSUME ListedInv, CreateRun
  PROVE  ListedInv' /\ Evolves /\ OwedStays
<1>1. PICK push \in BOOLEAN :
        listed' = <<[id |-> created', push |-> push, attempt |-> 1, completed |-> FALSE,
                     jobs |-> Pending]>> \o listed
  BY DEF CreateRun
<1> DEFINE r == [id |-> created', push |-> push, attempt |-> 1, completed |-> FALSE,
                 jobs |-> Pending]
<1>2. created' = created + 1 /\ created' \in 1 .. MaxCiRuns /\ created \in Nat
  BY CiAssumption DEF CreateRun, ListedInv
<1>3. r \in Run /\ r.id = created'
  BY <1>2, CiAssumption DEF Run, Pending
<1> HIDE DEF r
<1>4. listed' = <<r>> \o listed /\ <<r>> \in Seq(Run) /\ listed \in Seq(Run)
  BY <1>1, <1>3 DEF r, ListedInv
<1>5. /\ listed' \in Seq(Run) /\ Len(listed') = Len(listed) + 1
      /\ \A i \in 1 .. Len(listed) + 1 : listed'[i] = IF i = 1 THEN r ELSE listed[i - 1]
  <2>1. Len(<<r>>) = 1 /\ <<r>>[1] = r /\ Len(listed) \in Nat
    BY Places
  <2>2. /\ <<r>> \o listed \in Seq(Run) /\ Len(<<r>> \o listed) = Len(<<r>>) + Len(listed)
        /\ \A i \in 1 .. Len(<<r>>) + Len(listed) : (<<r>> \o listed)[i] =
             IF i <= Len(<<r>>) THEN <<r>>[i] ELSE listed[i - Len(<<r>>)]
    BY <1>4, ConcatProperties
  <2> QED
    BY <1>4, <2>1, <2>2
<1>6. DOMAIN listed' = 1 .. Len(listed) + 1 /\ DOMAIN listed = 1 .. Len(listed) /\ Len(listed) \in Nat
  BY <1>5, Places, LenProperties
<1>7. \A i \in 1 .. Len(listed) : listed[i].id <= created /\ listed[i].id \in Nat
  BY Places, RunFields DEF ListedInv
<1>8. ASSUME NEW i \in DOMAIN listed' PROVE listed'[i].id <= created'
  <2>1. CASE i = 1
    BY <1>2, <1>3, <1>5, <1>6, <2>1
  <2>2. CASE i # 1
    <3>1. i - 1 \in 1 .. Len(listed) /\ listed'[i] = listed[i - 1]
      BY <1>5, <1>6, <2>2
    <3> QED
      BY <1>2, <1>7, <3>1
  <2> QED
    BY <2>1, <2>2
<1>9. ASSUME NEW i \in DOMAIN listed', NEW j \in DOMAIN listed', listed'[i].id = listed'[j].id
      PROVE  i = j
  <2>1. \A k \in DOMAIN listed' \ {1} :
          k - 1 \in 1 .. Len(listed) /\ listed'[k] = listed[k - 1] /\ listed'[k].id < created'
    BY <1>2, <1>5, <1>6, <1>7
  <2>2. \A k, l \in 1 .. Len(listed) : listed[k].id = listed[l].id => k = l
    BY <1>6 DEF ListedInv
  <2>3. listed'[1].id = created' /\ created' \in Int
    BY <1>2, <1>3, <1>5, <1>6
  <2>4. CASE i = 1 \/ j = 1
    BY <1>9, <2>1, <2>3, <2>4, <1>7
  <2>5. CASE i # 1 /\ j # 1
    <3>1. i - 1 = j - 1
      BY <1>9, <2>1, <2>2, <2>5
    <3> QED
      BY <3>1, <1>6
  <2> QED
    BY <2>4, <2>5
<1>10. ListedInv'
  BY <1>2, <1>5, <1>8, <1>9 DEF ListedInv
<1>11. Evolves
  <2>1. ASSUME NEW j \in DOMAIN listed', j # 1
        PROVE  \E i \in DOMAIN listed : listed'[j] = listed[i]
    BY <1>5, <1>6, <2>1
  <2>2. listed'[1].id > created
    BY <1>2, <1>3, <1>5, <1>6
  <2> QED
    BY <1>2, <2>1, <2>2 DEF Evolves, Follows
<1>12. OwedStays
  <2>1. ASSUME NEW k \in DOMAIN listed PROVE \E j \in DOMAIN listed' : k <= j /\ listed'[j] = listed[k]
    <3>1. k + 1 \in DOMAIN listed' /\ listed'[k + 1] = listed[k] /\ k <= k + 1
      BY <1>5, <1>6
    <3> QED
      BY <3>1
  <2>2. owed' = owed
    BY DEF CreateRun
  <2> QED
    BY <2>1, <2>2 DEF OwedStays
<1> QED
  BY <1>10, <1>11, <1>12

\* A list in which one run got its next version.
LEMMA RunUpdated ==
  ASSUME ListedInv, NEW i \in DOMAIN listed, NEW r \in Run, listed' = [listed EXCEPT ![i] = r],
         UNCHANGED created, r.id = listed[i].id, Follows(listed[i], r)
  PROVE  /\ ListedInv' /\ Evolves
         /\ DOMAIN listed' = DOMAIN listed
         /\ \A k \in DOMAIN listed : k # i => listed'[k] = listed[k]
<1>1. /\ Len(listed) \in Nat /\ DOMAIN listed = 1 .. Len(listed) /\ listed \in Seq(Run)
      /\ created \in Nat
  BY Places DEF ListedInv
<1>2. /\ listed' \in Seq(Run) /\ Len(listed') = Len(listed)
      /\ \A j \in 1 .. Len(listed) : listed'[j] = IF j = i THEN r ELSE listed[j]
  BY <1>1, ExceptSeq
<1>3. DOMAIN listed' = DOMAIN listed
  BY <1>1, <1>2, LenProperties
<1>4. \A j \in DOMAIN listed : listed'[j].id = listed[j].id /\ Follows(listed[j], listed'[j])
  BY <1>1, <1>2 DEF Follows
<1>5. ListedInv'
  BY <1>2, <1>3, <1>4 DEF ListedInv
<1>6. Evolves
  BY <1>1, <1>3, <1>4 DEF Evolves
<1> QED
  BY <1>1, <1>2, <1>3, <1>5, <1>6

\* A run completes: the others keep their places, and it was not owed.
LEMMA RunCompleted ==
  ASSUME ListedInv, CompleteRun
  PROVE  ListedInv' /\ Evolves /\ OwedStays
<1>1. PICK i \in DOMAIN listed, jobs \in [Jobs -> {"success", "failure"}] :
        /\ ~ listed[i].completed
        /\ listed' = [listed EXCEPT ![i].completed = TRUE, ![i].jobs = jobs]
  BY DEF CompleteRun
<1> DEFINE r == [listed[i] EXCEPT !.completed = TRUE, !.jobs = jobs]
<1>2. listed[i] \in Run
  BY Places
<1>3. r \in Run /\ r.id = listed[i].id /\ r.attempt = listed[i].attempt
  <2>1. jobs \in [Jobs -> {"none", "success", "failure"}]
    OBVIOUS
  <2> QED
    BY <1>2, <2>1 DEF Run
<1>4. listed' = [listed EXCEPT ![i] = r]
  BY <1>1, <1>2 DEF Run
<1> HIDE DEF r
<1>5. Follows(listed[i], r) /\ UNCHANGED created
  BY <1>1, <1>3 DEF Follows, CompleteRun
<1>6. /\ ListedInv' /\ Evolves
      /\ DOMAIN listed' = DOMAIN listed
      /\ \A k \in DOMAIN listed : k # i => listed'[k] = listed[k]
  BY <1>3, <1>4, <1>5, RunUpdated
<1>7. OwedStays
  <2>1. \A k \in DOMAIN listed : k <= k
    BY Places
  <2> QED
    BY <1>1, <1>6, <2>1 DEF OwedStays, CompleteRun
<1> QED
  BY <1>6, <1>7

\* A run starts its next attempt: it is no longer owed.
LEMMA RunRerun ==
  ASSUME ListedInv, RerunRun
  PROVE  ListedInv' /\ Evolves /\ OwedStays
<1>1. PICK i \in DOMAIN listed : \E jobs \in [Jobs -> {"none", "success", "failure"}] :
        /\ listed[i].attempt < MaxAttempts
        /\ listed' = [listed EXCEPT ![i].completed = FALSE, ![i].attempt = @ + 1, ![i].jobs = jobs]
        /\ owed' = {r \in owed : r.id # listed[i].id}
  <2>1. \A i \in DOMAIN listed :
          /\ Pending \in [Jobs -> {"none", "success", "failure"}]
          /\ [j \in Jobs |-> IF listed[i].jobs[j] = "success" THEN "success" ELSE "none"]
               \in [Jobs -> {"none", "success", "failure"}]
    BY DEF Pending
  <2> HIDE DEF Pending
  <2> QED
    BY <2>1 DEF RerunRun
<1>2. PICK jobs \in [Jobs -> {"none", "success", "failure"}] :
        listed' = [listed EXCEPT ![i].completed = FALSE, ![i].attempt = @ + 1, ![i].jobs = jobs]
  BY <1>1
<1>3. listed[i] \in Run
  BY Places
<1>4. PICK n : n = listed[i].attempt + 1
  OBVIOUS
<1>5. n \in 1 .. MaxAttempts /\ n > listed[i].attempt
  BY <1>1, <1>3, <1>4, RunFields, CiAssumption
<1> DEFINE r == [listed[i] EXCEPT !.completed = FALSE, !.attempt = n, !.jobs = jobs]
<1>6. r \in Run /\ r.id = listed[i].id /\ r.attempt = n
  BY <1>3, <1>5 DEF Run
<1>7. listed' = [listed EXCEPT ![i] = r]
  BY <1>2, <1>3, <1>4 DEF Run
<1> HIDE DEF r
<1>8. Follows(listed[i], r)
  BY <1>5, <1>6 DEF Follows
<1>9. /\ ListedInv' /\ Evolves
      /\ DOMAIN listed' = DOMAIN listed
      /\ \A k \in DOMAIN listed : k # i => listed'[k] = listed[k]
  <2>1. UNCHANGED created
    BY DEF RerunRun
  <2> QED
    BY <1>6, <1>7, <1>8, <2>1, RunUpdated
<1>10. OwedStays
  <2>1. \A k \in DOMAIN listed : k <= k
    BY Places
  <2> QED
    BY <1>1, <1>9, <2>1 DEF OwedStays
<1> QED
  BY <1>9, <1>10

\* A list without one of its runs.
LEMMA RunDeleted ==
  ASSUME ListedInv, DeleteRun
  PROVE  ListedInv' /\ Evolves /\ OwedStays
<1>1. PICK i \in DOMAIN listed :
        /\ listed' = RemoveAt(listed, i)
        /\ owed' = IF task = "runs" THEN {} ELSE {r \in owed : r.id # listed[i].id}
  BY DEF DeleteRun
<1> DEFINE n == Len(listed)
           a == SubSeq(listed, 1, i - 1)
           b == SubSeq(listed, i + 1, n)
           At(j) == IF j < i THEN j ELSE j + 1
<1>2. n \in Nat /\ DOMAIN listed = 1 .. n /\ \A k \in 1 .. n : listed[k] \in Run
  BY Places
<1> HIDE DEF n
<1>3. /\ a \in Seq(Run) /\ Len(a) = i - 1
      /\ \A k \in 1 .. i - 1 : a[k] = listed[k]
  <2>1. i - 1 \in Int /\ \A k \in 1 .. i - 1 : listed[k] \in Run
    BY <1>2
  <2>2. /\ a \in Seq(Run) /\ Len(a) = IF 1 <= i - 1 THEN i - 1 - 1 + 1 ELSE 0
        /\ \A k \in 1 .. i - 1 - 1 + 1 : a[k] = listed[1 + k - 1]
    BY <2>1, SubSeqProperties
  <2> QED
    BY <1>2, <2>2
<1>4. /\ b \in Seq(Run) /\ Len(b) = n - i
      /\ \A k \in 1 .. n - i : b[k] = listed[i + k]
  <2>1. i + 1 \in Int /\ n \in Int /\ \A k \in i + 1 .. n : listed[k] \in Run
    BY <1>2
  <2>2. /\ b \in Seq(Run) /\ Len(b) = IF i + 1 <= n THEN n - (i + 1) + 1 ELSE 0
        /\ \A k \in 1 .. n - (i + 1) + 1 : b[k] = listed[(i + 1) + k - 1]
    BY <2>1, SubSeqProperties
  <2> QED
    BY <1>2, <2>2
<1>5. listed' = a \o b
  BY <1>1 DEF RemoveAt, n
<1> HIDE DEF a, b
<1>6. /\ listed' \in Seq(Run) /\ Len(listed') = n - 1
      /\ \A k \in 1 .. n - 1 : listed'[k] = listed[At(k)]
  <2>1. /\ a \o b \in Seq(Run) /\ Len(a \o b) = Len(a) + Len(b)
        /\ \A k \in 1 .. Len(a) + Len(b) : (a \o b)[k] = IF k <= Len(a) THEN a[k] ELSE b[k - Len(a)]
    BY <1>3, <1>4, ConcatProperties
  <2>2. Len(a) + Len(b) = n - 1
    BY <1>2, <1>3, <1>4
  <2>3. ASSUME NEW k \in 1 .. n - 1 PROVE listed'[k] = listed[At(k)]
    <3>1. CASE k < i
      BY <1>2, <1>3, <1>5, <2>1, <2>2, <3>1
    <3>2. CASE ~ (k < i)
      <4>1. k - (i - 1) \in 1 .. n - i /\ i + (k - (i - 1)) = k + 1
        BY <1>2, <3>2
      <4>2. (a \o b)[k] = b[k - (i - 1)]
        BY <1>2, <1>3, <2>1, <2>2, <3>2
      <4>3. b[k - (i - 1)] = listed[i + (k - (i - 1))]
        BY <1>4, <4>1
      <4> QED
        BY <1>5, <3>2, <4>1, <4>2, <4>3
    <3> QED
      BY <3>1, <3>2
  <2> QED
    BY <1>5, <2>1, <2>2, <2>3
<1>7. DOMAIN listed' = 1 .. n - 1
  BY <1>6, LenProperties
<1>8. \A j \in 1 .. n - 1 : At(j) \in 1 .. n
  BY <1>2
<1>9. \A j, k \in 1 .. n - 1 : At(j) = At(k) => j = k
  BY <1>2
<1> HIDE DEF At
<1>10. ListedInv'
  <2>1. \A j \in 1 .. n - 1 : listed'[j].id <= created
    BY <1>2, <1>6, <1>8 DEF ListedInv
  <2>2. ASSUME NEW j \in 1 .. n - 1, NEW k \in 1 .. n - 1, listed'[j].id = listed'[k].id
        PROVE  j = k
    <3>1. At(j) = At(k)
      BY <1>2, <1>6, <1>8, <2>2 DEF ListedInv
    <3> QED
      BY <1>9, <3>1
  <2> QED
    BY <1>6, <1>7, <2>1, <2>2 DEF ListedInv, DeleteRun
<1>11. Evolves
  <2>1. UNCHANGED created /\ created \in Nat
    BY DEF DeleteRun, ListedInv
  <2> QED
    BY <1>2, <1>6, <1>7, <1>8, <2>1 DEF Evolves, Follows
<1>12. OwedStays
  BY <1>1 DEF OwedStays
<1> QED
  BY <1>10, <1>11, <1>12

\* GitHub's steps, between any two of the script.
LEMMA GitHubStep ==
  ASSUME ListedInv, GitHub
  PROVE  /\ ListedInv' /\ Evolves /\ OwedStays /\ UNCHANGED script
         /\ task \in {"start", "runs", "jobs"}
<1>1. UNCHANGED script /\ task \in {"start", "runs", "jobs"}
  BY DEF GitHub, CreateRun, CompleteRun, RerunRun, DeleteRun, script
<1>2. CreateRun \/ CompleteRun \/ RerunRun \/ DeleteRun
  BY DEF GitHub
<1> QED
  BY <1>1, <1>2, RunCreated, RunCompleted, RunRerun, RunDeleted

\* What was read of a run stays an earlier or the same version of it.
LEMMA SupersededStays ==
  ASSUME ListedInv, ListedInv', Evolves, NEW r \in Run, Superseded(r)
  PROVE  Superseded(r)'
<1>1. r.id <= created' /\ r.id \in Nat /\ created \in Nat /\ r.attempt \in Nat
  BY RunFields, CiAssumption DEF Superseded, Evolves, ListedInv
<1>2. ASSUME NEW j \in DOMAIN listed', listed'[j].id = r.id
      PROVE  \/ listed'[j].attempt > r.attempt
             \/ listed'[j].attempt = r.attempt /\ (r.completed => listed'[j] = r)
  <2>1. PICK i \in DOMAIN listed : Follows(listed[i], listed'[j])
    BY <1>1, <1>2 DEF Evolves, Superseded
  <2>2. listed[i].id = r.id /\ listed[i] \in Run
    BY <1>2, <2>1, Places DEF Follows
  <2>3. listed'[j] \in Run
    BY LenProperties, ElementOfSeq DEF ListedInv
  <2>4. listed[i].attempt \in Nat /\ listed'[j].attempt \in Nat
    BY <2>2, <2>3, RunFields, CiAssumption
  <2>5. \/ listed[i].attempt > r.attempt
        \/ listed[i].attempt = r.attempt /\ (r.completed => listed[i] = r)
    BY <2>2 DEF Superseded
  <2>6. CASE listed'[j] = listed[i]
    BY <2>5, <2>6
  <2>7. CASE listed'[j].attempt > listed[i].attempt
    BY <1>1, <2>4, <2>5, <2>7
  <2>8. CASE listed'[j].attempt = listed[i].attempt /\ ~ listed[i].completed
    BY <2>5, <2>8
  <2> QED
    BY <2>1, <2>6, <2>7, <2>8 DEF Follows
<1> QED
  BY <1>1, <1>2 DEF Superseded

-----------------------------------------------------------------------------
\* One page: the places it covers, and whether it is the last.
LEMMA BatchIs ==
  ASSUME ListedInv, PagesInv, task = "runs"
  PROVE  /\ Batch \in Seq(Run)
         /\ Len(items) + Len(Batch) <= page * PerPage
         /\ Len(Batch) = PerPage => Len(items) + Len(Batch) = page * PerPage
         /\ \A i \in DOMAIN listed : Len(items) < i /\ i <= page * PerPage => listed[i] \in Range(Batch)
         /\ Len(Batch) < PerPage => Len(listed) <= page * PerPage
         /\ Range(Batch) \subseteq Range(listed)
         /\ Len(Batch) \in Nat /\ Len(Batch) <= PerPage
<1> DEFINE a == (page - 1) * PerPage
           z == page * PerPage
           n == Len(listed)
           b == Least(z, n)
<1>1. page \in Nat \ {0} /\ PerPage \in Nat \ {0}
  BY CiAssumption DEF PagesInv
<1>2. a \in Nat /\ z \in Nat /\ z = a + PerPage
  BY <1>1
<1>3. Len(items) = a
  BY DEF PagesInv
<1>4. n \in Nat /\ DOMAIN listed = 1 .. n /\ \A i \in 1 .. n : listed[i] \in Run
  BY Places
<1>5. Batch = SubSeq(listed, a + 1, b)
  BY DEF Batch, PageOf
<1> HIDE DEF a, z, n
<1>6. b \in Nat /\ b <= z /\ b <= n /\ (b = z \/ b = n)
  BY <1>2, <1>4 DEF Least
<1> HIDE DEF b
<1>7. /\ Batch \in Seq(Run)
      /\ Len(Batch) = IF a + 1 <= b THEN b - a ELSE 0
      /\ \A k \in 1 .. b - a : Batch[k] = listed[a + k]
  <2>1. a + 1 \in Int /\ b \in Int /\ \A i \in a + 1 .. b : listed[i] \in Run
    BY <1>2, <1>4, <1>6
  <2>2. /\ SubSeq(listed, a + 1, b) \in Seq(Run)
        /\ Len(SubSeq(listed, a + 1, b)) = IF a + 1 <= b THEN b - (a + 1) + 1 ELSE 0
        /\ \A k \in 1 .. b - (a + 1) + 1 : SubSeq(listed, a + 1, b)[k] = listed[(a + 1) + k - 1]
    BY <2>1, SubSeqProperties
  <2>3. b - (a + 1) + 1 = b - a /\ \A k \in 1 .. b - a : (a + 1) + k - 1 = a + k
    BY <1>2, <1>6
  <2> QED
    BY <1>5, <2>2, <2>3
<1>8. DOMAIN Batch = 1 .. Len(Batch)
  BY <1>7, LenProperties
<1>9. ASSUME NEW i \in DOMAIN listed, a < i, i <= z PROVE listed[i] \in Range(Batch)
  <2>1. i <= b
    BY <1>2, <1>4, <1>6, <1>9
  <2>2. i - a \in 1 .. b - a /\ a + (i - a) = i /\ a + 1 <= b
    BY <1>2, <1>4, <1>6, <1>9, <2>1
  <2>3. Batch[i - a] = listed[i] /\ i - a \in DOMAIN Batch
    BY <1>7, <1>8, <2>2
  <2> QED
    BY <2>3 DEF Range
<1>10. Range(Batch) \subseteq Range(listed)
  <2> SUFFICES ASSUME NEW k \in DOMAIN Batch PROVE Batch[k] \in Range(listed)
    BY DEF Range
  <2>1. k \in 1 .. b - a /\ a + k \in 1 .. n
    BY <1>2, <1>4, <1>6, <1>7, <1>8
  <2> QED
    BY <1>4, <1>7, <2>1 DEF Range
<1>11. /\ a + Len(Batch) <= z /\ (Len(Batch) = PerPage => a + Len(Batch) = z)
       /\ (Len(Batch) < PerPage => n <= z) /\ Len(Batch) \in Nat /\ Len(Batch) <= PerPage
  BY <1>1, <1>2, <1>4, <1>6, <1>7
<1> QED
  BY <1>3, <1>7, <1>9, <1>10, <1>11 DEF z, n

\* What items holds after a page.
LEMMA ItemsAfter ==
  ASSUME ListedInv, PagesInv, FetchRuns
  PROVE  /\ items' \in Seq(Run) /\ Len(items') = Len(items) + Len(Batch)
         /\ Range(items') = Range(items) \cup Range(Batch)
<1>1. items \in Seq(Run) /\ Batch \in Seq(Run) /\ items' = items \o Batch
  BY BatchIs DEF FetchRuns, PagesInv
<1> QED
  BY <1>1, ConcatProperties, RangeConcatenation

-----------------------------------------------------------------------------
\* No step of the script or of GitHub loses a run that is owed.
LEMMA PagesStep == ListedInv /\ PagesInv /\ [VerifyNext]_verifyVars => PagesInv'
<1> SUFFICES ASSUME ListedInv, PagesInv, [VerifyNext]_verifyVars PROVE PagesInv'
  OBVIOUS
<1>1. CASE Start
  <2>1. (page - 1) * PerPage = 0 /\ Len(items) = 0
    <3>1. page = 1 /\ items = <<>> /\ PerPage \in Nat
      BY <1>1, CiAssumption DEF Start, PagesInv
    <3> QED
      BY <3>1
  <2>2. \A i \in DOMAIN listed : i > 0
    BY Places
  <2>3. \A r \in owed' : Candidate(r) /\ \E i \in DOMAIN listed : i > (page - 1) * PerPage /\ listed[i] = r
    BY <1>1, <2>1, <2>2 DEF Start, Range
  <2> QED
    BY <1>1, <2>1, <2>3 DEF Start, PagesInv, github, Chosen
<1>2. CASE FetchRuns
  <2>1. task = "runs" /\ UNCHANGED <<listed, owed>>
    BY <1>2 DEF FetchRuns, github
  <2>2. /\ items' \in Seq(Run) /\ Len(items') = Len(items) + Len(Batch)
        /\ Range(items') = Range(items) \cup Range(Batch)
    BY <1>2, ItemsAfter
  <2> DEFINE z == page * PerPage
  <2>3. /\ Len(items) = (page - 1) * PerPage
        /\ Len(items) \in Nat /\ Len(Batch) \in Nat /\ Len(Batch) <= PerPage
        /\ page \in Nat \ {0} /\ PerPage \in Nat \ {0} /\ z \in Nat
    BY <2>1, BatchIs, LenProperties, CiAssumption DEF PagesInv
  <2>4. /\ Len(items) + Len(Batch) <= z /\ (Len(Batch) = PerPage => Len(items) + Len(Batch) = z)
        /\ \A i \in DOMAIN listed : Len(items) < i /\ i <= z => listed[i] \in Range(Batch)
        /\ Len(Batch) < PerPage => Len(listed) <= z
    BY <2>1, BatchIs
  <2>5. Len(listed) \in Nat /\ DOMAIN listed = 1 .. Len(listed)
    BY Places
  <2>6. \A r \in owed : /\ Candidate(r)
                        /\ r \in Range(items) \/ \E i \in DOMAIN listed : i > Len(items) /\ listed[i] = r
    BY <2>1, <2>3 DEF PagesInv
  <2> HIDE DEF z
  <2>7. CASE Len(Batch) < PerPage \/ Len(items') >= Len(listed)
    <3>1. \A i \in DOMAIN listed : i <= z
      BY <2>2, <2>3, <2>4, <2>5, <2>7
    <3>2. owed \subseteq Range(items')
      BY <2>2, <2>3, <2>4, <2>5, <2>6, <3>1
    <3>3. task' = "select" /\ page' = 1
      BY <1>2, <2>7 DEF FetchRuns, TurnPage
    <3>4. owed \subseteq Candidates'
      BY <2>6, <3>2 DEF Candidates, Candidate
    <3> QED
      BY <2>1, <2>2, <3>3, <3>4 DEF PagesInv, Chosen
  <2>8. CASE ~ (Len(Batch) < PerPage \/ Len(items') >= Len(listed)) /\ page = MaxPages
    <3>1. task' = "error" /\ UNCHANGED page
      BY <1>2, <2>8 DEF FetchRuns, TurnPage
    <3> QED
      BY <2>1, <2>2, <2>3, <3>1 DEF PagesInv, Chosen
  <2>9. CASE ~ (Len(Batch) < PerPage \/ Len(items') >= Len(listed)) /\ page # MaxPages
    <3>1. page' = page + 1 /\ task' = "runs"
      BY <1>2, <2>1, <2>9 DEF FetchRuns, TurnPage
    <3>2. Len(items') = z /\ (page' - 1) * PerPage = z
      <4>1. Len(items') = z
        BY <2>2, <2>3, <2>4, <2>9
      <4>2. (page + 1) - 1 = page
        BY <2>3
      <4> QED
        BY <3>1, <4>1, <4>2 DEF z
    <3>3. ASSUME NEW r \in owed
          PROVE  r \in Range(items') \/ \E i \in DOMAIN listed : i > z /\ listed[i] = r
      <4>1. CASE r \in Range(items)
        BY <2>2, <4>1
      <4>2. CASE \E i \in DOMAIN listed : i > Len(items) /\ listed[i] = r
        BY <2>2, <2>3, <2>4, <2>5, <4>2
      <4> QED
        BY <2>6, <4>1, <4>2
    <3>4. page' \in Nat \ {0}
      BY <2>3, <3>1
    <3> QED
      BY <2>1, <2>2, <2>6, <3>1, <3>2, <3>3, <3>4 DEF PagesInv, Chosen
  <2> QED
    BY <2>7, <2>8, <2>9
<1>3. CASE SelectRun \/ FetchJobs \/ Judge
  <2>1. task \in Chosen \cup {"select"} /\ UNCHANGED <<items, owed>>
    BY <1>3 DEF SelectRun, FetchJobs, Judge, Chosen
  <2>2. page' \in Nat \ {0}
    BY <1>3, CiAssumption DEF SelectRun, FetchJobs, Judge, PagesInv, TurnPage
  <2>3. task' \in Chosen \cup Exits
    BY <1>3 DEF SelectRun, FetchJobs, Judge, TurnPage, Chosen, Exits
  <2>4. owed' \subseteq Candidates'
    BY <2>1 DEF PagesInv, Candidates
  <2> QED
    BY <2>1, <2>2, <2>3, <2>4 DEF PagesInv, Chosen, Exits
<1>4. CASE GitHub
  <2>1. OwedStays /\ UNCHANGED <<task, page, items>>
    BY <1>4, GitHubStep DEF script
  <2>2. owed' \subseteq owed
    BY <2>1 DEF OwedStays
  <2> DEFINE a == (page - 1) * PerPage
  <2>3. a \in Nat /\ DOMAIN listed \subseteq Nat /\ DOMAIN listed' \subseteq Nat
    <3>1. page \in Nat \ {0} /\ PerPage \in Nat
      BY CiAssumption DEF PagesInv
    <3>2. ListedInv'
      BY <1>4, GitHubStep
    <3> QED
      BY <3>1, <3>2, Places, LenProperties DEF ListedInv
  <2> HIDE DEF a
  <2>4. ASSUME task = "runs", NEW r \in owed'
        PROVE  /\ Candidate(r)
               /\ r \in Range(items) \/ \E j \in DOMAIN listed' : j > a /\ listed'[j] = r
    <3>1. /\ Candidate(r)
          /\ r \in Range(items) \/ \E i \in DOMAIN listed : i > a /\ listed[i] = r
      BY <2>2, <2>4 DEF PagesInv, a
    <3>2. ASSUME NEW i \in DOMAIN listed, i > a, listed[i] = r
          PROVE  \E j \in DOMAIN listed' : j > a /\ listed'[j] = r
      <4>1. PICK j \in DOMAIN listed' : i <= j /\ listed'[j] = r
        BY <2>1, <2>4, <3>1, <3>2 DEF OwedStays, Candidate
      <4> QED
        BY <2>3, <3>2, <4>1
    <3> QED
      BY <3>1, <3>2
  <2>5. /\ page' \in Nat \ {0} /\ items' \in Seq(Run)
        /\ task' = "start" => page' = 1 /\ items' = <<>> /\ owed' = {}
        /\ task' = "runs" => Len(items') = (page' - 1) * PerPage
        /\ task' \in Chosen \cup {"select"} => owed' \subseteq Candidates'
    BY <2>1, <2>2 DEF PagesInv, Candidates
  <2>6. task' = "runs" =>
          \A r \in owed' :
            /\ Candidate(r)
            /\ \/ r \in Range(items')
               \/ \E j \in DOMAIN listed' : j > (page' - 1) * PerPage /\ listed'[j] = r
    BY <2>1, <2>4 DEF a
  <2> QED
    BY <2>5, <2>6 DEF PagesInv
<1>5. CASE VerifyEnded \/ UNCHANGED verifyVars
  BY <1>5 DEF VerifyEnded, verifyVars, PagesInv, Candidates
<1> QED
  BY <1>1, <1>2, <1>3, <1>4, <1>5 DEF VerifyNext, Script

\* A job that pages showed stays as it was shown, whatever GitHub does to the run.
LEMMA JobStays ==
  ASSUME ListedInv, ListedInv', Evolves, NEW j \in Jobs, JobSeen(j), selected \in Run,
         selected.id <= created, UNCHANGED <<selected, evidence>>
  PROVE  JobSeen(j)'
<1>1. ASSUME NEW k \in DOMAIN listed', listed'[k].id = selected.id
      PROVE  evidence[j].attempt <= listed'[k].attempt
  <2>1. selected.id \in Nat /\ created \in Nat
    BY RunFields, CiAssumption DEF ListedInv
  <2>2. PICK i \in DOMAIN listed : Follows(listed[i], listed'[k])
    BY <1>1, <2>1 DEF Evolves
  <2>3. listed[i].id = selected.id /\ listed[i] \in Run
    BY <1>1, <2>2, Places DEF Follows
  <2>4. listed'[k] \in Run
    BY LenProperties, ElementOfSeq DEF ListedInv
  <2>5. listed[i].attempt \in Nat /\ listed'[k].attempt \in Nat
    BY <2>3, <2>4, RunFields, CiAssumption
  <2>6. evidence[j].attempt \in Nat /\ evidence[j].attempt <= listed[i].attempt
    BY <2>3 DEF JobSeen, Missing
  <2>7. listed'[k].attempt >= listed[i].attempt
    BY <2>2, <2>5 DEF Follows
  <2> QED
    BY <2>5, <2>6, <2>7
<1>2. selected' = selected /\ evidence' = evidence
  OBVIOUS
<1> QED
  BY <1>1, <1>2 DEF JobSeen

\* A page of jobs shows the run as it is: the attempt selected or a later one.
LEMMA PageShows ==
  ASSUME ListedInv, SelectedInv, FetchJobs, Latest # {}, selected \in Run, NEW j \in Jobs
  PROVE  JobSeen(j)'
<1>1. PICK r \in Latest :
        evidence' = [k \in Jobs |-> IF k \in Range(PageOf(JobList, page))
                                    THEN [conclusion |-> r.jobs[k], attempt |-> r.attempt]
                                    ELSE evidence[k]]
  BY DEF FetchJobs
<1>2. UNCHANGED <<listed, selected>> /\ task = "jobs"
  BY DEF FetchJobs, github
<1>3. PICK i \in DOMAIN listed : listed[i] = r /\ r.id = selected.id
  BY DEF Latest, Range
<1>4. r \in Run
  BY <1>3, Places
<1>5. r.attempt \in Nat /\ selected.attempt \in Nat
  BY <1>4, RunFields, CiAssumption
<1>6. Superseded(selected) /\ selected.completed
  BY <1>2 DEF SelectedInv, Exits, Chosen, Candidates, Candidate
<1>7. r.attempt >= selected.attempt /\ (r.attempt = selected.attempt => r = selected)
  BY <1>3, <1>5, <1>6 DEF Superseded
<1>8. \A k \in DOMAIN listed : listed[k].id = selected.id => listed[k] = r
  BY <1>3 DEF ListedInv
<1>9. CASE j \in Range(PageOf(JobList, page))
  <2>1. evidence'[j] = [conclusion |-> r.jobs[j], attempt |-> r.attempt]
    BY <1>1, <1>9
  <2>2. evidence'[j].conclusion = r.jobs[j] /\ evidence'[j].attempt = r.attempt
    BY <2>1
  <2> QED
    BY <1>2, <1>5, <1>7, <1>8, <2>2 DEF JobSeen
<1>10. CASE j \notin Range(PageOf(JobList, page))
  <2>1. evidence'[j] = evidence[j]
    BY <1>1, <1>10
  <2>2. JobSeen(j)
    BY <1>2 DEF SelectedInv, Chosen
  <2> QED
    BY <1>2, <2>1, <2>2 DEF JobSeen
<1> QED
  BY <1>9, <1>10

\* What was selected stays the best that was read, and what is judged is its jobs in that
\* attempt or a later one, whatever GitHub does meanwhile.
LEMMA SelectedStep ==
  ListedInv /\ PagesInv /\ SelectedInv /\ [VerifyNext]_verifyVars => SelectedInv'
<1> SUFFICES ASSUME ListedInv, PagesInv, SelectedInv, [VerifyNext]_verifyVars PROVE SelectedInv'
  OBVIOUS
<1> USE DEF Exits, Chosen
<1>0. \A r \in Range(items) : r \in Run
  BY ElementOfSeq, LenProperties DEF PagesInv, Range
<1>1. CASE Start
  BY <1>1 DEF Start, SelectedInv, Superseded, github
<1>2. CASE FetchRuns
  <2>1. /\ Range(items') = Range(items) \cup Range(Batch)
        /\ Range(Batch) \subseteq Range(listed)
    BY <1>2, ItemsAfter, BatchIs DEF FetchRuns
  <2>2. ASSUME NEW r \in Range(listed) PROVE Superseded(r)
    BY <2>2 DEF Range, Superseded, ListedInv
  <2>3. \A r \in Range(items') : Superseded(r)
    BY <1>2, <2>1, <2>2 DEF FetchRuns, SelectedInv
  <2>4. \A r \in Range(items') : Superseded(r)'
    BY <1>2, <2>3 DEF FetchRuns, github, Superseded
  <2>5. task' \in {"runs", "select", "error"} /\ evidence' = [j \in Jobs |-> Missing]
    BY <1>2 DEF FetchRuns, TurnPage, SelectedInv
  <2> QED
    BY <2>4, <2>5 DEF SelectedInv
<1>3. CASE SelectRun
  <2>1. task = "select" /\ UNCHANGED <<listed, created, items, evidence>>
    BY <1>3 DEF SelectRun, github
  <2>2. CASE Candidates = {}
    <3>1. task' = "absent"
      BY <1>3, <2>2 DEF SelectRun
    <3> QED
      BY <2>1, <3>1 DEF SelectedInv
  <2>3. CASE Candidates # {}
    <3>1. task' = "jobs" /\ selected' \in Candidates /\ \A r \in Candidates : Ranks(selected', r)
      BY <1>3, <2>3 DEF SelectRun
    <3>2. \A r \in Range(items) : Superseded(r) => Superseded(r)'
      BY <2>1 DEF Superseded
    <3>3. Candidates' = Candidates /\ \A r : Ranks(selected, r)' <=> Ranks(selected', r)
      BY <2>1 DEF Candidates, Ranks
    <3>4. ASSUME NEW j \in Jobs PROVE JobSeen(j)'
      <4>1. evidence'[j] = Missing /\ Missing.attempt = 0
        BY <2>1 DEF SelectedInv, Missing
      <4>2. \A i \in DOMAIN listed : 0 <= listed[i].attempt
        BY Places, RunFields, CiAssumption
      <4> QED
        BY <2>1, <4>1, <4>2 DEF JobSeen
    <3> QED
      BY <2>1, <3>1, <3>2, <3>3, <3>4 DEF SelectedInv
  <2> QED
    BY <2>2, <2>3
<1>4. CASE FetchJobs
  <2>1. selected \in Candidates /\ selected \in Run
    BY <1>0, <1>4 DEF FetchJobs, SelectedInv, Candidates
  <2>2. task = "jobs" /\ UNCHANGED <<listed, created, items, selected>>
    BY <1>4 DEF FetchJobs, github
  <2>3. \A r \in Range(items) : Superseded(r) => Superseded(r)'
    BY <2>2 DEF Superseded
  <2>4. Candidates' = Candidates /\ \A r : Ranks(selected, r)' <=> Ranks(selected, r)
    BY <2>2 DEF Candidates, Ranks
  <2>5. CASE Latest = {}
    <3>1. task' = "error"
      BY <1>4, <2>5 DEF FetchJobs
    <3> QED
      BY <2>2, <2>3, <3>1 DEF SelectedInv
  <2>6. CASE Latest # {}
    <3>1. task' \in {"jobs", "judge", "error"}
      BY <1>4, <2>2, <2>6 DEF FetchJobs, TurnPage
    <3>2. \A j \in Jobs : JobSeen(j)'
      BY <1>4, <2>1, <2>6, PageShows
    <3>3. Latest' # {}
      BY <2>2, <2>6 DEF Latest
    <3> QED
      BY <2>2, <2>3, <2>4, <3>1, <3>2, <3>3 DEF SelectedInv
  <2> QED
    BY <2>5, <2>6
<1>5. CASE Judge
  <2>1. /\ task = "judge" /\ UNCHANGED <<listed, created, items, selected, evidence>>
        /\ task' \in {"green", "red"}
        /\ task' = "green" => \A j \in Jobs : evidence[j].conclusion = "success"
    BY <1>5 DEF Judge, Proves, github
  <2>2. Candidates' = Candidates /\ Latest' = Latest
        /\ \A r : Ranks(selected, r)' <=> Ranks(selected, r)
    BY <2>1 DEF Candidates, Latest, Ranks
  <2>3. \A j \in Jobs : JobSeen(j)' <=> JobSeen(j)
    BY <2>1 DEF JobSeen
  <2> QED
    BY <2>1, <2>2, <2>3 DEF SelectedInv
<1>6. CASE GitHub
  <2>1. /\ ListedInv' /\ Evolves /\ UNCHANGED <<task, page, items, selected, evidence>>
        /\ task \in {"start", "runs", "jobs"}
    BY <1>6, GitHubStep DEF script
  <2>2. \A r \in Range(items) : r \in Run /\ Superseded(r)
    BY <1>0, <2>1 DEF SelectedInv
  <2>3. \A r \in Range(items) : Superseded(r)'
    BY <2>1, <2>2, SupersededStays
  <2>4. Candidates' = Candidates /\ \A r : Ranks(selected, r)' <=> Ranks(selected, r)
    BY <2>1 DEF Candidates, Ranks
  <2>5. ASSUME task = "jobs", NEW j \in Jobs PROVE JobSeen(j)'
    <3>1. selected \in Run /\ selected.id <= created /\ JobSeen(j)
      BY <2>2, <2>5 DEF SelectedInv, Candidates, Superseded
    <3> QED
      BY <2>1, <3>1, JobStays
  <2> QED
    BY <2>1, <2>3, <2>4, <2>5 DEF SelectedInv
<1>7. CASE VerifyEnded \/ UNCHANGED verifyVars
  BY <1>7 DEF VerifyEnded, verifyVars, SelectedInv, Superseded, Candidates, Latest, Ranks, JobSeen
<1> QED
  BY <1>1, <1>2, <1>3, <1>4, <1>5, <1>6, <1>7 DEF VerifyNext, Script

\* The inductive invariant of verify_ci.py beside GitHub.
THEOREM VerifyInvariance == VerifySpec => []VerifyInv
<1>1. VerifyInit => VerifyInv
  BY EmptySeq DEF VerifyInit, VerifyInv, ListedInv, PagesInv, SelectedInv, Exits, Chosen, Range
<1>2. VerifyInv /\ [VerifyNext]_verifyVars => VerifyInv'
  <2> SUFFICES ASSUME VerifyInv, [VerifyNext]_verifyVars PROVE VerifyInv'
    OBVIOUS
  <2>1. PagesInv' /\ SelectedInv'
    BY PagesStep, SelectedStep DEF VerifyInv
  <2>2. ListedInv'
    <3>1. CASE GitHub
      BY <3>1, GitHubStep DEF VerifyInv
    <3>2. CASE Script \/ VerifyEnded \/ UNCHANGED verifyVars
      BY <3>2 DEF VerifyInv, ListedInv, Script, Start, FetchRuns, SelectRun, FetchJobs, Judge,
                  VerifyEnded, verifyVars, github
    <3> QED
      BY <3>1, <3>2 DEF VerifyNext
  <2> QED
    BY <2>1, <2>2 DEF VerifyInv
<1> QED
  BY <1>1, <1>2, PTL DEF VerifySpec

\* A push run that had completed when verify_ci.py began is read, though the list moves
\* under the pages, unless it is re-run or a run is deleted between two pages.
THEOREM PagesTheorem == VerifySpec => []PagesMissNothing
<1>1. VerifyInv => PagesMissNothing
  BY DEF VerifyInv, PagesInv, PagesMissNothing, Chosen, Candidates
<1> QED
  BY <1>1, VerifyInvariance, PTL

\* Green rests on the run selected, outranked by no run that had completed when
\* verify_ci.py began and stayed as it was, and on its jobs: all successful in the attempt
\* selected, unless the run was re-run meanwhile.
THEOREM GreenTheorem == VerifySpec => []GreenIsBacked
<1>1. VerifyInv => GreenIsBacked
  <2> SUFFICES ASSUME VerifyInv, task = "green" PROVE GreenIsBacked
    BY DEF GreenIsBacked
  <2>1. selected \in Candidates /\ owed \subseteq Candidates /\ Latest # {}
    BY DEF VerifyInv, PagesInv, SelectedInv, Chosen
  <2>2. \A r \in Candidates : r \in Run /\ Candidate(r)
    BY ElementOfSeq, LenProperties DEF VerifyInv, PagesInv, Candidates, Range
  <2>3. \A r \in Candidates : r.attempt \in Nat /\ r.id \in Nat
    BY <2>2, RunFields, CiAssumption
  <2>4. ASSUME NEW r \in owed
        PROVE  ~ (r.attempt > selected.attempt
                   \/ (r.attempt = selected.attempt /\ r.id > selected.id))
    <3>1. Ranks(selected, r)
      BY <2>1 DEF VerifyInv, SelectedInv, Chosen
    <3> QED
      BY <2>1, <2>3, <3>1 DEF Ranks
  <2>5. PICK r \in Latest : TRUE
    BY <2>1
  <2>6. PICK i \in DOMAIN listed : listed[i] = r /\ r.id = selected.id
    BY DEF Latest, Range
  <2>7. r \in Run
    BY <2>6, Places DEF VerifyInv
  <2>8. r.attempt \in Nat
    BY <2>7, RunFields, CiAssumption
  <2>9. ASSUME NEW j \in Jobs
        PROVE  /\ evidence[j].attempt \in Nat /\ evidence[j].attempt >= selected.attempt
               /\ evidence[j].attempt <= r.attempt
               /\ evidence[j].attempt = selected.attempt => selected.jobs[j] = "success"
    <3>1. JobSeen(j) /\ evidence[j].conclusion = "success"
      BY DEF VerifyInv, SelectedInv, Chosen
    <3>2. evidence[j] # Missing
      BY <3>1 DEF Missing
    <3> QED
      BY <2>6, <3>1, <3>2 DEF JobSeen
  <2>10. CASE r.attempt > selected.attempt
    BY <2>1, <2>2, <2>4, <2>9, <2>10 DEF GreenIsBacked
  <2>11. CASE ~ (r.attempt > selected.attempt)
    <3>1. \A j \in Jobs : evidence[j].attempt = selected.attempt
      BY <2>1, <2>3, <2>8, <2>9, <2>11
    <3> QED
      BY <2>1, <2>2, <2>4, <2>9, <3>1 DEF GreenIsBacked
  <2> QED
    BY <2>10, <2>11
<1> QED
  BY <1>1, VerifyInvariance, PTL
=============================================================================
