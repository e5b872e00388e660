------------------------------ MODULE BPEEncoder ------------------------------
(***************************************************************************)
(* kittylm/tokenizer/bpe.py: BPETokenizer.encode(), which cuts a text at   *)
(* the special tokens it is allowed to emit and the rest into chunks, and  *)
(* _bpe(), which encodes one chunk by merging the pair of lowest rank      *)
(* until none is left and remembers results in a bounded cache that is     *)
(* emptied when it is full.  Where pretokenize() cuts is free: it covers   *)
(* what it is given.                                                       *)
(***************************************************************************)
EXTENDS BPE

CONSTANTS
  Texts,        \* the texts encoded
  CacheSizes    \* the values of cache_size considered

VARIABLES
  merges,     \* the merge list of the tokenizer
  cacheSize,
  cache,      \* chunk -> ids
  text,       \* the text being encoded
  allowed,    \* allowed_special, as indices of SpecialNames
  at,         \* the text before this position is encoded
  out,
  chunk,      \* the chunk being encoded
  ids,
  encoding    \* where the call is

textVars == <<text, allowed>>
object == <<merges, cacheSize, cache>>

EncoderInit ==
  /\ cacheSize \in CacheSizes
  /\ cache = <<>>
  /\ text = <<>> /\ allowed = {} /\ at = 1 /\ out = <<>>
  /\ chunk = <<>> /\ ids = <<>>
  /\ encoding = "idle"

\* encode(t, a); encode_bytes(t) with nothing allowed.
Encode(t, a) ==
  /\ encoding = "idle"
  /\ text' = t /\ allowed' = a
  /\ at' = 1 /\ out' = <<>>
  /\ encoding' = "split"
  /\ UNCHANGED <<object, chunk, ids>>

OccursAt(k, p) ==
  LET name == SpecialNames[k]
  IN p + Len(name) - 1 <= Len(text) /\ SubSeq(text, p, p + Len(name) - 1) = name

\* Mutant: every special token in the text is taken for one.
SplitterOfAll(p) == {k \in DOMAIN SpecialNames : OccursAt(k, p)}

\* What the splitter may match at p.
Splitter(p) == {k \in allowed : OccursAt(k, p)}

\* The splitter takes the longest of the names that match at the leftmost position.
EmitSpecial ==
  /\ encoding = "split"
  /\ at <= Len(text)
  /\ \E k \in Splitter(at) :
       /\ \A j \in Splitter(at) : Len(SpecialNames[j]) <= Len(SpecialNames[k])
       /\ out' = Append(out, SpecialId(merges, k))
       /\ at' = at + Len(SpecialNames[k])
  /\ UNCHANGED <<object, textVars, chunk, ids, encoding>>

\* The next chunk of ordinary text ends before the next special token that is emitted.
\* _bpe() answers from the cache, or starts from the bytes.
BeginChunk(last) ==
  /\ encoding = "split"
  /\ at <= last /\ last <= Len(text)
  /\ \A p \in at .. last : Splitter(p) = {}
  /\ chunk' = SubSeq(text, at, last)
  /\ IF cacheSize > 0 /\ chunk' \in DOMAIN cache
       THEN ids' = cache[chunk'] /\ encoding' = "result"
       ELSE ids' = chunk' /\ encoding' = "merge"
  /\ UNCHANGED <<object, textVars, at, out>>

\* The ranks of the adjacent pairs; merges[k] has rank k - 1.
Candidates == {k \in DOMAIN merges : merges[k] \in PairsOf(ids)}

MergeLowest ==
  /\ encoding = "merge"
  /\ Candidates # {}
  /\ LET k == CHOOSE k \in Candidates : \A j \in Candidates : k <= j
     IN ids' = Merge(ids, merges[k], TokenOf(k - 1))
  /\ UNCHANGED <<object, textVars, at, out, chunk, encoding>>

\* The result enters the cache, which is cleared first when it is full.
Remember ==
  /\ encoding = "merge"
  /\ Candidates = {}
  /\ LET kept == IF Cardinality(DOMAIN cache) >= cacheSize THEN {} ELSE DOMAIN cache
     IN cache' = IF cacheSize = 0 THEN cache
                 ELSE [c \in kept \cup {chunk} |-> IF c = chunk THEN ids ELSE cache[c]]
  /\ encoding' = "result"
  /\ UNCHANGED <<merges, cacheSize, textVars, at, out, chunk, ids>>

\* _encode_chunks() goes on to the next chunk.
EndChunk ==
  /\ encoding = "result"
  /\ out' = out \o ids
  /\ at' = at + Len(chunk)
  /\ chunk' = <<>> /\ ids' = <<>>
  /\ encoding' = "split"
  /\ UNCHANGED <<object, textVars>>

Return ==
  /\ encoding = "split"
  /\ at > Len(text)
  /\ text' = <<>> /\ allowed' = {} /\ at' = 1 /\ out' = <<>>
  /\ encoding' = "idle"
  /\ UNCHANGED <<object, chunk, ids>>

EncoderNext ==
  \/ \E t \in Texts, a \in SUBSET DOMAIN SpecialNames : Encode(t, a)
  \/ EmitSpecial \/ \E last \in 1 .. Len(text) : BeginChunk(last)
  \/ MergeLowest \/ Remember \/ EndChunk \/ Return

-----------------------------------------------------------------------------
(* Properties                                                              *)

\* Encoding by lowest rank gives what training gives by applying its merges one after
\* the other (bpe.py 224-257), whether or not the chunk comes from the cache, which
\* is never larger than cache_size and holds nothing else.
EncodesInOrder ==
  /\ encoding = "result" => ids = ApplyInOrder(merges, chunk)
  /\ \A c \in DOMAIN cache : cache[c] = ApplyInOrder(merges, c)
  /\ Cardinality(DOMAIN cache) <= cacheSize

\* Nothing is lost and nothing is promoted (bpe.py 33-37): what has been encoded decodes
\* to the text so far, and a special id stands only for an allowed name.
DecodesToText ==
  encoding = "split" =>
    /\ Decode(merges, out) = SubSeq(text, 1, at - 1)
    /\ \A i \in DOMAIN out, k \in DOMAIN SpecialNames \ allowed : out[i] # SpecialId(merges, k)
=============================================================================
