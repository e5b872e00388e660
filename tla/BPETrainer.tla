------------------------------ MODULE BPETrainer ------------------------------
(***************************************************************************)
(* kittylm/tokenizer/trainer.py: train_bpe(), which keeps the pair counts, *)
(* an index from pairs to words and a heap of candidates up to date        *)
(* incrementally.  The index and the heap are cleaned up lazily: both may  *)
(* hold stale entries, which are recognised when they are met.  The index  *)
(* entry of a merged pair is visited in any order: the code sorts it.      *)
(***************************************************************************)
EXTENDS BPE, Functions

CONSTANTS
  Corpora,        \* the sets of distinct chunks considered
  Frequencies,    \* how often a chunk may occur
  TargetMerges,   \* target_merges: vocab_size - 288
  MinPairCounts,  \* the values of min_pair_count considered
  NoPair

ASSUME TrainerAssumption ==
  /\ \A corpus \in Corpora : IsFiniteSet(corpus) /\ corpus \subseteq Seq(Bytes) \ {<<>>}
  /\ Frequencies \subseteq Nat \ {0}
  /\ TargetMerges \in Nat
  /\ MinPairCounts \subseteq Nat \ {0}

VARIABLES
  freqs,        \* chunk -> number of occurrences (chunk_counts)
  minCount,     \* min_pair_count
  seqs,         \* chunk -> its current ids
  pairCounts,   \* pair_counts
  pairWords,    \* pair_words
  heap,         \* entries <<count, left, right>>
  merges,
  best,         \* the pair being merged
  todo,         \* the words of the index entry of best still to visit
  changed,
  pc

input == <<freqs, minCount>>
trainerVars == <<freqs, minCount, seqs, pairCounts, pairWords, heap, merges, best, todo,
                 changed, pc>>

Words == DOMAIN freqs

\* Get and Put: a dict read with a default, written at a key, and a key removed.
Get(dict, key, default) == IF key \in DOMAIN dict THEN dict[key] ELSE default
Put(dict, keys, Value(_)) ==
  [k \in DOMAIN dict \cup keys |-> IF k \in keys THEN Value(k) ELSE dict[k]]
Without(dict, keys) == [k \in DOMAIN dict \ keys |-> dict[k]]

\* How often the words hold a pair, weighted by their frequency.
Occurrences(words, pair) ==
  SumFunction([w \in DOMAIN words |-> PairCount(words[w], pair) * freqs[w]])

InitialPairs == UNION {PairsOf(w) : w \in Words}

TrainerInit ==
  /\ freqs \in UNION {[corpus -> Frequencies] : corpus \in Corpora}
  /\ minCount \in MinPairCounts
  /\ seqs = [w \in Words |-> w]
  /\ pairCounts = [p \in InitialPairs |-> Occurrences(seqs, p)]
  /\ pairWords = [p \in InitialPairs |-> {w \in Words : p \in PairsOf(w)}]
  /\ heap = {<<pairCounts[p], p[1], p[2]>> : p \in InitialPairs}
  /\ merges = <<>>
  /\ best = NoPair
  /\ todo = {}
  /\ changed = {}
  /\ pc = "choose"

\* The heap order: highest count, then smallest left, then smallest right.
Before(e, f) ==
  \/ e[1] > f[1]
  \/ e[1] = f[1] /\ e[2] < f[2]
  \/ e[1] = f[1] /\ e[2] = f[2] /\ e[3] < f[3]

Top == CHOOSE e \in heap : \A f \in heap \ {e} : Before(e, f)
TopPair == <<Top[2], Top[3]>>

\* Mutant: every heap entry is believed.
NeverStale == FALSE

Stale == Get(pairCounts, TopPair, 0) # Top[1]

Choosing == pc = "choose" /\ Len(merges) < TargetMerges

SkipStale ==
  /\ Choosing
  /\ heap # {}
  /\ Stale
  /\ heap' = heap \ {Top}
  /\ UNCHANGED <<input, seqs, pairCounts, pairWords, merges, best, todo, changed, pc>>

ChooseBest ==
  /\ Choosing
  /\ heap # {}
  /\ ~ Stale
  /\ Top[1] >= minCount
  /\ heap' = heap \ {Top}
  /\ best' = TopPair
  /\ merges' = Append(merges, TopPair)
  /\ todo' = Get(pairWords, TopPair, {})
  /\ pairWords' = Without(pairWords, {TopPair})
  /\ changed' = {}
  /\ pc' = "merge"
  /\ UNCHANGED <<input, seqs, pairCounts>>

\* TokenizerTrainingError: the corpus supports too few merges.
RunOut ==
  /\ Choosing
  /\ heap # {} => ~ Stale /\ Top[1] < minCount
  /\ pc' = "error"
  /\ UNCHANGED <<input, seqs, pairCounts, pairWords, heap, merges, best, todo, changed>>

\* Mutant: the pairs a merge creates are not indexed.
MergeWordUnindexed(w) ==
  LET new == Merge(seqs[w], best, TokenOf(Len(merges) - 1))
      Delta(p) == PairCount(new, p) - PairCount(seqs[w], p)
      moved == {p \in PairsOf(new) \cup PairsOf(seqs[w]) : Delta(p) # 0}
  IN /\ pc = "merge"
     /\ todo' = todo \ {w}
     /\ seqs' = [seqs EXCEPT ![w] = new]
     /\ pairCounts' = Put(pairCounts, moved, LAMBDA p : Get(pairCounts, p, 0) + Delta(p) * freqs[w])
     /\ changed' = changed \cup moved
     /\ UNCHANGED <<input, pairWords, heap, merges, best, pc>>

\* One word of the index entry of best; a stale entry leaves everything as it is.
MergeWord(w) ==
  LET new == Merge(seqs[w], best, TokenOf(Len(merges) - 1))
      Delta(p) == PairCount(new, p) - PairCount(seqs[w], p)
      moved == {p \in PairsOf(new) \cup PairsOf(seqs[w]) : Delta(p) # 0}
  IN /\ pc = "merge"
     /\ todo' = todo \ {w}
     /\ seqs' = [seqs EXCEPT ![w] = new]
     /\ pairCounts' = Put(pairCounts, moved, LAMBDA p : Get(pairCounts, p, 0) + Delta(p) * freqs[w])
     /\ pairWords' = Put(pairWords, {p \in moved : Delta(p) > 0},
                         LAMBDA p : Get(pairWords, p, {}) \cup {w})
     /\ changed' = changed \cup moved
     /\ UNCHANGED <<input, heap, merges, best, pc>>

\* pair_counts.pop(best), then push the changed pairs that still occur.
FinishMerge ==
  LET counts == Without(pairCounts, {best})
      live == {p \in changed : Get(counts, p, 0) > 0}
  IN /\ pc = "merge"
     /\ todo = {}
     /\ heap' = heap \cup {<<counts[p], p[1], p[2]>> : p \in live}
     /\ pairCounts' = Without(counts, changed \ live)
     /\ best' = NoPair
     /\ pc' = "choose"
     /\ UNCHANGED <<input, seqs, pairWords, merges, todo, changed>>

\* The merges are all that outlives the call.
ReturnTokenizer ==
  /\ pc = "choose"
  /\ Len(merges) = TargetMerges
  /\ freqs' = <<>> /\ seqs' = <<>> /\ pairCounts' = <<>> /\ pairWords' = <<>>
  /\ heap' = {} /\ best' = NoPair /\ todo' = {} /\ changed' = {}
  /\ pc' = "done"
  /\ UNCHANGED <<minCount, merges>>

Train ==
  \/ SkipStale \/ ChooseBest \/ RunOut
  \/ \E w \in todo : MergeWord(w)
  \/ FinishMerge \/ ReturnTokenizer

-----------------------------------------------------------------------------
(* Properties                                                              *)

\* The pairs of the words as they are now, counted afresh.
CurrentPairs == UNION {PairsOf(seqs[w]) : w \in Words}

\* Every decision of training is the one a fresh count of all pairs would make, whatever
\* the heap, the counts and the index still hold from earlier merges: it merges the most
\* frequent pair, ties broken by the smallest ids, and gives up only when no pair occurs
\* min_pair_count times (trainer.py 144-182).
DecidesAsCounted ==
  [][/\ ChooseBest =>
          \A p \in CurrentPairs \ {best'} :
            Before(<<Occurrences(seqs, best')>> \o best', <<Occurrences(seqs, p)>> \o p)
     /\ RunOut => \A p \in CurrentPairs : Occurrences(seqs, p) < minCount]_trainerVars

\* The stale index misses no word: between two merges every word is what the merges
\* learnt so far, applied one after the other to its bytes, make of it.
SegmentsByItsMerges ==
  pc = "choose" => \A w \in Words : seqs[w] = ApplyInOrder(merges, w)
=============================================================================
