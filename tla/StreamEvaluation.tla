--------------------------- MODULE StreamEvaluation ---------------------------
(***************************************************************************)
(* kittylm/evaluation/perplexity.py: evaluate_documents() scores documents *)
(* one after the other; stream_nll() cuts each into windows (the loop of   *)
(* EvaluationWindows) and sums the loss of the targets a window keeps.     *)
(* The documents are those of any caller: scripts/evaluate.py, or a test.  *)
(*                                                                         *)
(* A total is [nats, finite, tokens, bytes]: nats holds how often each     *)
(* target's loss is in the sum, finite whether no term is NaN or infinite. *)
(***************************************************************************)
EXTENDS EvaluationWindows, FiniteSets, Functions

CONSTANTS
  Categories,   \* categories of documents
  MaxDocs       \* 1 .. MaxDocs documents, of 0 .. MaxTokens tokens each

ASSUME EvaluationAssumption == {MaxDocs, MaxTokens} \subseteq Nat \ {0}

VARIABLES
  docs,      \* the documents: category, number of tokens, all of them special tokens?
  training,  \* model.training
  was,       \* was_training of eval_mode()
  pc,
  doc,       \* the document evaluated
  next,      \* the next window of it to score
  total,     \* nats, tokens and n_bytes of stream_nll
  overall, byCategory,
  outcome    \* how the call ended: "none", "report", "ValueError", "RuntimeError"

sums == <<total, overall, byCategory>>
call == <<docs, was>>
evaluationVars == <<vars, sums, call, training, pc, doc, next, outcome>>

Target == (1 .. MaxDocs) \X (1 .. MaxTokens - 1)

Zero == [nats |-> [t \in Target |-> 0], finite |-> TRUE, tokens |-> 0, bytes |-> 0]

\* NLLTotals.__add__
Plus(a, b) ==
  [nats |-> [t \in Target |-> a.nats[t] + b.nats[t]], finite |-> a.finite /\ b.finite,
   tokens |-> a.tokens + b.tokens, bytes |-> a.bytes + b.bytes]

\* token_byte_lengths(): special tokens count 0, others differently here.
ByteLengths ==
  [t \in (DOMAIN docs) \X (0 .. MaxTokens - 1) |-> IF docs[t[1]].special THEN 0 ELSE t[2] + 1]

Bytes(tokens) == SumFunctionOnSet(ByteLengths, tokens)

\* Mutant: the bytes of every token of the window are counted.
WindowTotalAllBytes(d, w, finite) ==
  [nats |-> [t \in Target |-> IF t[1] = d /\ t[2] \in KeptTargets(w) THEN 1 ELSE 0],
   finite |-> finite, tokens |-> Cardinality(KeptTargets(w)),
   bytes |-> Bytes({d} \X (w.start .. w.end - 1))]

\* What one window adds: the targets it keeps, and the bytes from score_from to its end.
WindowTotal(d, w, finite) ==
  [nats |-> [t \in Target |-> IF t[1] = d /\ t[2] \in KeptTargets(w) THEN 1 ELSE 0],
   finite |-> finite, tokens |-> Cardinality(KeptTargets(w)),
   bytes |-> Bytes({d} \X (w.scoreFrom .. w.end - 1))]

Document == [category : Categories, tokens : 0 .. MaxTokens, special : BOOLEAN]

EvaluationInit ==
  /\ docs \in UNION {[1 .. n -> Document] : n \in 1 .. MaxDocs}
  /\ training \in BOOLEAN
  /\ was = training
  /\ pc = "document"
  /\ doc = 1
  /\ next = 1
  /\ total = Zero /\ overall = Zero
  /\ byCategory = [c \in {} |-> Zero]
  /\ outcome = "none"
  /\ contextLength \in 1 .. MaxContext
  /\ stride \in Strides(contextLength)
  /\ nTokens = 0 /\ start = 0 /\ scoreFrom = 1 /\ windows = <<>> /\ done = FALSE

-----------------------------------------------------------------------------
(* stream_nll                                                              *)

\* Enter eval_mode() and evaluation_windows().
BeginDocument ==
  /\ pc = "document"
  /\ doc <= Len(docs)
  /\ was' = training
  /\ training' = FALSE
  /\ nTokens' = docs[doc].tokens
  /\ start' = 0 /\ scoreFrom' = 1 /\ windows' = <<>> /\ done' = FALSE
  /\ total' = Zero
  /\ next' = 1
  /\ pc' = "windows"
  /\ UNCHANGED <<docs, doc, overall, byCategory, outcome, contextLength, stride>>

\* Leaving eval_mode() restores the mode it found when this document began; the
\* exception leaves evaluate_documents.
Raise(exception) ==
  /\ outcome' = exception
  /\ pc' = "raised"
  /\ training' = was

\* A stream needs at least 2 tokens to have a target.
TooShort ==
  /\ pc = "windows"
  /\ nTokens < 2
  /\ Raise("ValueError")
  /\ UNCHANGED <<vars, sums, call, doc, next>>

CutWindow ==
  /\ pc = "windows"
  /\ nTokens >= 2
  /\ NextWindow \/ LastWindow
  /\ pc' = IF done' THEN "score" ELSE pc
  /\ UNCHANGED <<sums, call, training, doc, next, outcome>>

\* One forward pass; its losses may be non-finite.
ScoreWindow ==
  /\ pc = "score"
  /\ next <= Len(windows)
  /\ \E finite \in BOOLEAN : total' = Plus(total, WindowTotal(doc, windows[next], finite))
  /\ next' = next + 1
  /\ UNCHANGED <<vars, call, training, pc, doc, overall, byCategory, outcome>>

\* The forward pass raises, as when the device has no memory left.
ForwardFails ==
  /\ pc = "score"
  /\ next <= Len(windows)
  /\ Raise("RuntimeError")
  /\ UNCHANGED <<vars, sums, call, doc, next>>

-----------------------------------------------------------------------------
(* evaluate_documents                                                      *)

\* The document's totals join the overall ones and those of its category.
FinishDocument ==
  /\ pc = "score"
  /\ next > Len(windows)
  /\ training' = was
  /\ overall' = Plus(overall, total)
  /\ byCategory' =
       LET c == docs[doc].category
           before == IF c \in DOMAIN byCategory THEN byCategory[c] ELSE Zero
       IN [x \in DOMAIN byCategory \cup {c} |-> IF x = c THEN Plus(before, total) ELSE byCategory[x]]
  /\ doc' = doc + 1
  /\ pc' = "document"
  /\ UNCHANGED <<vars, call, next, total, outcome>>

\* metrics(): a perplexity needs a finite loss, and bits_per_byte at least one byte, in
\* every category.
MetricsDefined ==
  /\ overall.finite
  /\ overall.bytes > 0
  /\ \A c \in DOMAIN byCategory : byCategory[c].bytes > 0

Report ==
  /\ pc = "document"
  /\ doc > Len(docs)
  /\ IF MetricsDefined THEN outcome' = "report" /\ pc' = "returned"
                       ELSE outcome' = "ValueError" /\ pc' = "raised"
  /\ UNCHANGED <<vars, sums, call, training, doc, next>>

Ended == pc \in {"returned", "raised"} /\ UNCHANGED evaluationVars

EvaluationNext ==
  \/ BeginDocument \/ TooShort \/ CutWindow \/ ScoreWindow \/ ForwardFails
  \/ FinishDocument \/ Report \/ Ended

EvaluationSpec == EvaluationInit /\ [][EvaluationNext]_evaluationVars

-----------------------------------------------------------------------------
(* Properties                                                              *)

\* The targets of the documents before document n.
TargetsBefore(n) == {t \in Target : t[1] < n /\ t[2] < docs[t[1]].tokens}

\* A total that sums exactly these targets, each once, and their bytes.
SumsOf(t, targets) ==
  /\ t.nats = [x \in Target |-> IF x \in targets THEN 1 ELSE 0]
  /\ t.tokens = Cardinality(targets)
  /\ t.bytes = Bytes(targets)

\* Whatever windows cut them, the overall sums and those of each category hold every
\* target of their finished documents exactly once (perplexity.py 13-15): neither the
\* loss nor bits-per-byte is a quotient of sums over different tokens, the categories
\* partition the total, and the first token of a stream contributes nothing.
SumsAgree ==
  LET finished == TargetsBefore(doc)
  IN /\ SumsOf(overall, finished)
     /\ \A c \in DOMAIN byCategory :
          SumsOf(byCategory[c], {x \in finished : docs[x[1]].category = c})
=============================================================================
