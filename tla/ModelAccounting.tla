---------------------------- MODULE ModelAccounting ----------------------------
(***************************************************************************)
(* kittylm/model/accounting.py: every parameter tensor of a KittyLM is     *)
(* attributed to one category, and what ledger.py asks of the counts.      *)
(*                                                                         *)
(* A parameter is [owners, tensor, size]: the types of the modules that    *)
(* hold it, the nearest first (the output module by its name), the tensor  *)
(* object, and its number of elements.                                     *)
(***************************************************************************)
EXTENDS Integers, Sequences, Functions

\* A model configuration, as far as it decides the shapes.
ModelConfig == [vocab : Nat, width : Nat, ffn : Nat, layers : Nat, tied : BOOLEAN]

Linear(holder, tensor, size) == [owners |-> <<"Linear", holder>>, tensor |-> tensor, size |-> size]
Norm(tensor, c) == [owners |-> <<"RMSNorm">>, tensor |-> tensor, size |-> c.width]

\* Norm, sequence mixer, norm, channel mixer.
TransformerBlock(c, i) ==
  <<Norm(<<i, "norm1">>, c)>>
  \o [k \in 1 .. 4 |-> Linear("CausalSelfAttention", <<i, "attention", k>>, c.width * c.width)]
  \o <<Norm(<<i, "norm2">>, c)>>
  \o [k \in 1 .. 3 |-> Linear("SwiGLU", <<i, "mlp", k>>, c.width * c.ffn)]

\* ModuleList: the blocks' parameters, one block after the other.
Layers(c) ==
  LET size == Len(TransformerBlock(c, 1))
  IN [n \in 1 .. c.layers * size |->
        TransformerBlock(c, 1 + ((n - 1) \div size))[1 + ((n - 1) % size)]]

\* named_parameters(remove_duplicate=False); rotary tables are buffers.
KittyLM(c) ==
  LET embeddings == [owners |-> <<"Embedding">>, tensor |-> <<0, "tok_embeddings">>,
                     size |-> c.vocab * c.width]
      output == [owners |-> <<"lm_head">>,
                 tensor |-> IF c.tied THEN embeddings.tensor ELSE <<0, "lm_head">>,
                 size |-> c.vocab * c.width]
  IN <<embeddings>> \o Layers(c) \o <<Norm(<<0, "norm">>, c), output>>

ParameterCategories == {"embedding", "attention", "mlp", "normalization", "positional", "output"}

CategoryOf ==
  [Embedding |-> "embedding", CausalSelfAttention |-> "attention", SwiGLU |-> "mlp",
   RMSNorm |-> "normalization", RotaryEmbedding |-> "positional", lm_head |-> "output"]

\* The nearest module with a category gives it to its parameters.
Category(p) ==
  LET nearest == CHOOSE n \in DOMAIN p.owners :
                   /\ p.owners[n] \in DOMAIN CategoryOf
                   /\ \A m \in 1 .. n - 1 : p.owners[m] \notin DOMAIN CategoryOf
  IN CategoryOf[p.owners[nearest]]

\* A tensor with several names counts once, where it comes first.
CountParameters(parameters) ==
  LET Same(i) == {j \in DOMAIN parameters : parameters[j].tensor = parameters[i].tensor}
      unique == {i \in DOMAIN parameters : \A j \in Same(i) : i <= j}
      size == [i \in DOMAIN parameters |-> parameters[i].size]
      SizeOf(is) == SumFunctionOnSet(size, is)
      parts == [c \in ParameterCategories |-> SizeOf({i \in unique : Category(parameters[i]) = c})]
      total == SizeOf(unique)
  IN [total |-> total, trainable |-> total, parts |-> parts,
      tied |-> SizeOf({i \in unique : Same(i) # {i}}),
      nonEmbedding |-> total - parts["embedding"]]

\* The mandatory accounting validate_record() checks.
AccountingAccepted(p) ==
  /\ p.total > 0
  /\ SumFunctionOnSet(p.parts, ParameterCategories) = p.total
  /\ p.nonEmbedding = p.total - p.parts["embedding"]
  /\ p.trainable <= p.total /\ p.tied <= p.total
=============================================================================
