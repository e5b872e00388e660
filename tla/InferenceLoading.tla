-------------------------- MODULE InferenceLoading --------------------------
(***************************************************************************)
(* kittylm/inference/loading.py with the part of kittylm/config.py and     *)
(* kittylm/model/config.py it uses: from a YAML file and key=value         *)
(* overrides to a resolved model configuration, and whether it, the        *)
(* tokenizer and the checkpoint belong together.                           *)
(*                                                                         *)
(* A value is [type, is]: the Python type it has been parsed to and what   *)
(* it denotes, so that 10000 and 10000.0 denote the same and differ in     *)
(* type.  A mapping in the place of a value has type "map".  Four fields   *)
(* of ModelConfig stand for all: one of each type the class has.           *)
(***************************************************************************)
EXTENDS Integers, Sequences

Value == [type : STRING, is : STRING]

\* A command-line override.
Item == [key : STRING, sub : BOOLEAN, value : Value]

FieldType == [vocab_size |-> "int", attention_backend |-> "literal", rope_theta |-> "float",
              tie_embeddings |-> "bool"]
Fields == DOMAIN FieldType
Defaults == [rope_theta |-> [type |-> "float", is |-> "10000"],
             tie_embeddings |-> [type |-> "bool", is |-> "true"]]
Backends == {"reference", "sdpa_math"}

Error(e) == [error |-> e, data |-> <<>>]

\* load_yaml(): a syntax error, a duplicate key or a document that is no mapping.
LoadYaml(yaml) == IF yaml.readable THEN [error |-> "none", data |-> yaml.data] ELSE Error("ConfigError")

-----------------------------------------------------------------------------
(* apply_overrides                                                         *)

Put(data, key, value) ==
  [k \in DOMAIN data \cup {key} |-> IF k = key THEN value ELSE data[k]]

\* One item "key=value" or "key.sub=value"; an item without = or key has key "".  What
\* is no number is parsed as YAML, whose error nobody catches.
Override(sofar, item) ==
  LET data == sofar.data
      value == IF item.sub THEN [type |-> "map", is |-> ""] ELSE item.value
  IN IF sofar.error # "none" THEN sofar
     ELSE IF item.key = "" THEN Error("ConfigError")
     ELSE IF item.sub /\ item.key \in DOMAIN data /\ data[item.key].type # "map" THEN Error("ConfigError")
     ELSE IF item.value.type = "malformed" THEN Error("YAMLError")
     ELSE [error |-> "none", data |-> Put(data, item.key, value)]

ApplyOverrides(data, items) ==
  LET applied[n \in 0 .. Len(items)] ==
        IF n = 0 THEN [error |-> "none", data |-> data] ELSE Override(applied[n - 1], items[n])
  IN applied[Len(items)]

-----------------------------------------------------------------------------
(* from_dict(ModelConfig, data)                                            *)

Accepts(field, v) ==
  CASE FieldType[field] = "literal" -> v.type = "str" /\ v.is \in Backends
    [] FieldType[field] = "float" -> v.type \in {"int", "float"}
    [] OTHER -> v.type = FieldType[field]

\* Mutant: an int stays an int in a float field.
AsGiven(field, v) == v

\* _convert(): a float field gets a float.
Converted(field, v) == IF FieldType[field] = "float" THEN [v EXCEPT !.type = "float"] ELSE v

\* __post_init__
InRange(config) == config.vocab_size.is # "0" /\ config.rope_theta.is # "0"

Complete(data) ==
  /\ DOMAIN data \subseteq Fields
  /\ Fields \ DOMAIN Defaults \subseteq DOMAIN data
  /\ \A f \in DOMAIN data : Accepts(f, data[f])

FromDict(data) ==
  LET config == [f \in Fields |-> IF f \in DOMAIN data THEN Converted(f, data[f]) ELSE Defaults[f]]
  IN IF Complete(data) /\ InRange(config) THEN [error |-> "none", data |-> config]
     ELSE Error("ConfigError")

\* The type a field's value has in what from_dict() returns.
TypeOf(field) == IF FieldType[field] = "literal" THEN "str" ELSE FieldType[field]

Resolved(config) == config = [f \in Fields |-> [type |-> TypeOf(f), is |-> config[f].is]]

-----------------------------------------------------------------------------
(* load_for_inference                                                      *)

\* config_hash() serializes without NaN; otherwise it tells configurations apart.
Hashable(config) == config.rope_theta.is # "nan"

\* The artifacts: the YAML file [readable, kind, data], the overrides, the tokenizer
\* [intact, vocab, sha256] and the checkpoint [intact, tokenizer, config].  Weights
\* trained under a configuration fit it.  The outcome is "loaded" or the exception.
LoadForInference(a) ==
  LET file == LoadYaml(a.yaml)
      fields == ApplyOverrides(file.data, a.overrides)
      config == FromDict(fields.data)
  IN IF file.error # "none" THEN file.error
     ELSE IF a.yaml.kind # "model" THEN "LoadError"
     ELSE IF fields.error # "none" THEN fields.error
     ELSE IF config.error # "none" THEN config.error
     ELSE IF ~ a.tokenizer.intact THEN "TokenizerError"
     ELSE IF a.tokenizer.vocab # config.data.vocab_size.is THEN "LoadError"
     ELSE IF ~ a.checkpoint.intact THEN "CheckpointError"
     ELSE IF a.checkpoint.tokenizer # a.tokenizer.sha256 THEN "LoadError"
     ELSE IF ~ Hashable(config.data) THEN "ValueError"
     ELSE IF a.checkpoint.config # config.data THEN "LoadError"
     ELSE "loaded"
=============================================================================
