-------------------------- MODULE MCGenerateCommand --------------------------
(* Command lines for the run of GenerateCommand.                             *)
EXTENDS GenerateCommand, SequencesExt

V(type, is) == [type |-> type, is |-> is]

Trained(theta) ==
  [vocab_size |-> V("int", "512"), attention_backend |-> V("str", "reference"),
   rope_theta |-> V("float", theta), tie_embeddings |-> V("bool", "true")]

Shape == [vocab_size |-> V("int", "16384"), attention_backend |-> V("str", "reference")]

YamlFiles ==
  {[readable |-> TRUE, kind |-> "model", data |-> d] :
     d \in {Shape, Put(Shape, "rope_theta", V("int", "10000")),
            Put(Shape, "rope_theta", V("float", "500000")),
            Put(Shape, "rope_theta", V("str", "1e4")), Put(Shape, "learning_rate", V("float", "3e-4")),
            [vocab_size |-> V("int", "512")]}}
  \cup {[readable |-> FALSE, kind |-> "model", data |-> Shape],
        [readable |-> TRUE, kind |-> "training", data |-> Shape]}

Items ==
  {[key |-> "vocab_size", sub |-> FALSE, value |-> V("int", "512")],
   [key |-> "vocab_size", sub |-> FALSE, value |-> V("int", "0")],
   [key |-> "rope_theta", sub |-> FALSE, value |-> V("int", "10000")],
   [key |-> "rope_theta", sub |-> FALSE, value |-> V("float", "500000")],
   [key |-> "rope_theta", sub |-> FALSE, value |-> V("float", "nan")],
   [key |-> "attention_backend", sub |-> FALSE, value |-> V("malformed", "")],
   [key |-> "model", sub |-> TRUE, value |-> V("int", "512")],
   [key |-> "vocab_size", sub |-> TRUE, value |-> V("int", "512")],
   [key |-> "", sub |-> FALSE, value |-> V("int", "512")]}

Tokenizers ==
  {[intact |-> TRUE, vocab |-> "512", sha256 |-> "smoke"], [intact |-> TRUE, vocab |-> "512", sha256 |-> "other"],
   [intact |-> TRUE, vocab |-> "16384", sha256 |-> "full"], [intact |-> FALSE, vocab |-> "512", sha256 |-> "smoke"]}

Checkpoints ==
  {[intact |-> i, tokenizer |-> "smoke", config |-> Trained(theta)] :
     i \in BOOLEAN, theta \in {"10000", "500000"}}

\* Every file with every overrides for two checkpoints and the right tokenizer, and
\* every tokenizer with every checkpoint for the right configuration.
CommandLines ==
  {[yaml |-> y, overrides |-> o, tokenizer |-> t, checkpoint |-> c] :
     y \in YamlFiles, o \in BoundedSeq(Items, 2),
     t \in {t \in Tokenizers : t.intact /\ t.sha256 = "smoke"}, c \in {c \in Checkpoints : c.intact}}
  \cup
  {[yaml |-> [readable |-> TRUE, kind |-> "model", data |-> Shape],
    overrides |-> <<[key |-> "vocab_size", sub |-> FALSE, value |-> V("int", "512")]>>,
    tokenizer |-> t, checkpoint |-> c] : t \in Tokenizers, c \in Checkpoints}
=============================================================================
