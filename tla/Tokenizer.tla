------------------------------ MODULE Tokenizer ------------------------------
(***************************************************************************)
(* kittylm/tokenizer: train_bpe() followed by the encoding of texts with   *)
(* the BPETokenizer it returns, with one loaded from a tokenizer file, or  *)
(* with the truncation of either to fewer merges.                          *)
(***************************************************************************)
EXTENDS BPETrainer

CONSTANTS
  Artifacts,      \* what a tokenizer file may hold: see ToArtifact
  Texts,          \* the texts encoded
  CacheSizes,     \* the values of cache_size
  NoFile

ASSUME TokenizerAssumption ==
  /\ Artifacts \subseteq [merges : Seq(Int \X Int), min_pair_count : Int, vocab_size : Int,
                          special_tokens : [DOMAIN SpecialNames -> Int]]
  /\ Texts \subseteq Seq(Bytes)
  /\ CacheSizes \subseteq Nat

VARIABLES
  file,   \* the artifact the tokenizer was loaded from
  cacheSize, cache, text, allowed, at, out, chunk, ids, encoding

Encoder == INSTANCE BPEEncoder

callVars == <<text, allowed, at, out, chunk, ids, encoding>>
encoderVars == <<cacheSize, cache, callVars>>
vars == <<trainerVars, file, encoderVars>>

-----------------------------------------------------------------------------
(* The artifact                                                            *)

\* to_artifact(): the merges, and what a reader could work out from them.
ToArtifact(list, count) ==
  [merges |-> list, min_pair_count |-> count, vocab_size |-> VocabSize(list),
   special_tokens |-> SpecialIds(list)]

\* Mutant: the special tokens may have any ids.
AcceptsAnyMapping(raw) ==
  /\ raw.min_pair_count >= 1
  /\ raw.vocab_size >= ByteVocab + Len(SpecialNames)
  /\ ValidMerges(raw.merges)
  /\ raw.vocab_size = VocabSize(raw.merges)

\* from_artifact() accepts raw; its keys and types are right.
Accepts(raw) ==
  /\ raw.min_pair_count >= 1
  /\ raw.vocab_size >= ByteVocab + Len(SpecialNames)
  /\ ValidMerges(raw.merges)
  /\ raw.vocab_size = VocabSize(raw.merges)
  /\ raw.special_tokens = SpecialIds(raw.merges)

-----------------------------------------------------------------------------

\* load(path); TokenizerError ends the caller.
LoadInit ==
  /\ file \in Artifacts
  /\ IF Accepts(file) THEN merges = file.merges /\ minCount = file.min_pair_count /\ pc = "done"
                      ELSE merges = <<>> /\ minCount = 1 /\ pc = "error"
  /\ freqs = <<>> /\ seqs = <<>> /\ pairCounts = <<>> /\ pairWords = <<>>
  /\ heap = {} /\ best = NoPair /\ todo = {} /\ changed = {}

Init ==
  /\ (TrainerInit /\ file = NoFile) \/ LoadInit
  /\ Encoder!EncoderInit

Training == Train /\ UNCHANGED <<file, encoderVars>>

\* The constructor has validated the merges when the first text is encoded.
Encoding ==
  /\ pc = "done"
  /\ Encoder!EncoderNext
  /\ UNCHANGED <<input, seqs, pairCounts, pairWords, heap, best, todo, changed, pc, file>>

\* Mutant: the truncated tokenizer takes over the cache.
TruncateWithCache(n) ==
  /\ pc = "done" /\ encoding = "idle"
  /\ merges' = SubSeq(merges, 1, n)
  /\ file' = NoFile
  /\ UNCHANGED <<input, seqs, pairCounts, pairWords, heap, best, todo, changed, pc,
                 cache, cacheSize, callVars>>

\* truncated(vocab_size): a new tokenizer of the first n merges.
Truncate(n) ==
  /\ pc = "done" /\ encoding = "idle"
  /\ merges' = SubSeq(merges, 1, n)
  /\ cache' = <<>>
  /\ file' = NoFile
  /\ UNCHANGED <<input, seqs, pairCounts, pairWords, heap, best, todo, changed, pc,
                 cacheSize, callVars>>

\* TokenizerTrainingError or TokenizerError reached the caller.
Ended == pc = "error" /\ UNCHANGED vars

Next == Training \/ Encoding \/ (\E n \in 0 .. Len(merges) : Truncate(n)) \/ Ended

Spec == Init /\ [][Next]_vars

-----------------------------------------------------------------------------
(* Properties                                                              *)

\* Whatever training returns, a file holds or a truncation leaves is a merge list
\* BPETokenizer accepts, and encoding with it segments every chunk as training with it
\* would have.
EncodesAsTrained ==
  pc = "done" => ValidMerges(merges) /\ Encoder!EncodesInOrder

\* decode(encode(s)) = s, and special ids come from allowed special tokens only.
RoundTrips == pc = "done" => Encoder!DecodesToText

\* A tokenizer and its file are the same thing: every tokenizer can be loaded from the
\* file it is saved to, and a file that is loaded is the one its tokenizer would save,
\* so that ids are never silently renumbered (bpe.py 16-20) and sha256 identifies both.
ArtifactIsTheTokenizer ==
  pc = "done" =>
    /\ Accepts(ToArtifact(merges, minCount))
    /\ file # NoFile => file = ToArtifact(merges, minCount)
=============================================================================
