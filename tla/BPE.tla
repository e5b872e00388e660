--------------------------------- MODULE BPE ---------------------------------
(***************************************************************************)
(* kittylm/tokenizer: what training (trainer.py) and encoding (bpe.py)     *)
(* share.  Ids 0 .. ByteVocab - 1 are the bytes, id ByteVocab + r is the   *)
(* token of the merge with rank r (from 0); merges[r + 1] is that merge.   *)
(***************************************************************************)
EXTENDS Integers, Sequences, FiniteSets

CONSTANTS
  ByteVocab,     \* BYTE_VOCAB, 256 in the code
  SpecialNames   \* SPECIAL_TOKENS: the bytes of each name

ASSUME ByteVocabAssumption == ByteVocab \in Nat \ {0}

Bytes == 0 .. ByteVocab - 1

ASSUME SpecialNamesAssumption == SpecialNames \in Seq(Seq(Bytes) \ {<<>>})

\* zip(seq, seq[1:]) as positions: the adjacent pairs of seq, overlaps included.
PairAt(seq, i) == <<seq[i], seq[i + 1]>>
PairsOf(seq) == {PairAt(seq, i) : i \in 1 .. Len(seq) - 1}

\* _pairs(seq)[pair]
PairCount(seq, pair) == Cardinality({i \in 1 .. Len(seq) - 1 : PairAt(seq, i) = pair})

\* _merge(): replace the pair from left to right, without overlaps.
Merge(seq, pair, new) ==
  LET from[i \in 1 .. Len(seq) + 1] ==
        IF i > Len(seq) THEN <<>>
        ELSE IF i < Len(seq) /\ PairAt(seq, i) = pair THEN <<new>> \o from[i + 2]
        ELSE <<seq[i]>> \o from[i + 1]
  IN from[1]

TokenOf(rank) == ByteVocab + rank

\* BPETokenizer.__init__: a merge refers to earlier ids and is not repeated.
ValidMerges(merges) ==
  \A k \in DOMAIN merges :
    /\ \A side \in 1 .. 2 : merges[k][side] \in 0 .. TokenOf(k - 1) - 1
    /\ \A j \in 1 .. k - 1 : merges[j] # merges[k]

\* BPETokenizer.__init__: after the bytes and the merges come the special tokens.
VocabSize(merges) == ByteVocab + Len(merges) + Len(SpecialNames)
SpecialId(merges, k) == VocabSize(merges) - Len(SpecialNames) + k - 1
SpecialIds(merges) == [k \in DOMAIN SpecialNames |-> SpecialId(merges, k)]

\* _token_bytes: what each id decodes to.
TokenBytes(merges) ==
  LET bytes[id \in 0 .. VocabSize(merges) - 1] ==
        IF id \in Bytes THEN <<id>>
        ELSE IF id < TokenOf(Len(merges))
               THEN LET pair == merges[id - ByteVocab + 1] IN bytes[pair[1]] \o bytes[pair[2]]
               ELSE SpecialNames[id - TokenOf(Len(merges)) + 1]
  IN bytes

\* decode_bytes()
Decode(merges, ids) ==
  LET from[i \in 1 .. Len(ids) + 1] ==
        IF i > Len(ids) THEN <<>> ELSE TokenBytes(merges)[ids[i]] \o from[i + 1]
  IN from[1]

\* What a merge list means to training: its merges applied one after the other.
ApplyInOrder(merges, seq) ==
  LET after[n \in 0 .. Len(merges)] ==
        IF n = 0 THEN seq ELSE Merge(after[n - 1], merges[n], TokenOf(n - 1))
  IN after[Len(merges)]
=============================================================================
