----------------------------- MODULE MCTokenizer -----------------------------
(* Corpora, tokenizer files and texts for the run of Tokenizer.             *)
EXTENDS Tokenizer

CONSTANTS MaxLength, MaxLoaded

Strings(lengths) == UNION {[1 .. n -> Bytes] : n \in lengths}

\* Corpora of one or two distinct chunks of at least two bytes.
SmallCorpora == {{v, w} : v, w \in Strings(2 .. MaxLength)}

\* Every short text, and repetitions that a merge may pair in more ways than one.
SomeTexts == Strings(1 .. 3) \cup {<<0, 0, 0, 0>>, <<0, 1, 0, 1>>}

TwoNames == <<<<0, 1>>, <<0, 0, 1>>>>

\* Files with any merges up to MaxLoaded, references to later ids and repetitions
\* included, and the other fields right or not.
Ids == 0 .. ByteVocab + MaxLoaded - 1
Lists == UNION {[1 .. n -> Ids \X Ids] : n \in 0 .. MaxLoaded}
Files ==
  {ToArtifact(list, count) : list \in Lists, count \in {0, 1}}
  \cup {[ToArtifact(list, 1) EXCEPT !.vocab_size = @ + 1] : list \in Lists}
  \cup {[ToArtifact(list, 1) EXCEPT !.special_tokens[1] = @ - 1] : list \in Lists}
=============================================================================
