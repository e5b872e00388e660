------------------------------ MODULE Generation ------------------------------
(***************************************************************************)
(* kittylm/inference/generate.py with kittylm/model/kv_cache.py and the    *)
(* parts of the forward pass they rely on: decoding one sequence, with or  *)
(* without a key/value cache, over resets of the context window.           *)
(*                                                                         *)
(* Tokens are named by their position in ids, which only grows.  What a    *)
(* tensor row was computed from is the set of <<position, rotary offset>>  *)
(* pairs it depends on; a forward pass runs layer by layer, each layer     *)
(* storing its keys and values in the cache before it attends over them.   *)
(* A process may call generate() again after it returned.                  *)
(***************************************************************************)
EXTENDS ContextPolicy, FiniteSets

CONSTANTS
  Layers,          \* n_layers
  ModelContext,    \* ModelConfig.context_length
  MaxPrompt,       \* prompts considered: 1 .. MaxPrompt tokens
  MaxNewTokens,    \* bound on SamplingConfig.max_new_tokens
  NoCall

ASSUME GenerationAssumption ==
  /\ {Layers, ModelContext} \subseteq Nat \ {0}
  /\ {MaxPrompt, MaxNewTokens} \subseteq Nat

VARIABLES
  config,   \* the call: prompt length, context, stride, max_new_tokens, cache, backend;
            \* NoCall between calls
  length,   \* len(ids)
  start,    \* first position of the current context
  resets,
  stop,     \* stop_reason
  pc,
  low,      \* the forward pass runs over ids[low:length]
  layer,    \* the next layer to run
  hidden,   \* rows of the pass: position -> what the row was computed from
  cached,   \* KVCache.length
  buffers,  \* KVCache.keys and .values: layer -> slot -> what the row was computed from
  logits    \* what the last logits were computed from

vars == <<config, length, start, resets, stop, pc, low, layer, hidden, cached, buffers, logits>>

Context == config.context

\* Mutant: the context of the previous position.
StartAtPrevious(c, n) == ContextStart(n - 1, c.context, c.stride)

StartAt(c, n) == ContextStart(n, c.context, c.stride)

\* What generate() accepts.  context_length: the model's own or a validated smaller
\* override; at least one prompt token; a stride within the context.
Calls ==
  {c \in [prompt : 1 .. MaxPrompt, context : 1 .. ModelContext, stride : 1 .. ModelContext,
          maxNew : 0 .. MaxNewTokens, useCache : BOOLEAN, backend : {"reference", "sdpa"}] :
     c.stride \in Strides(c.context)}

\* No call runs, and nothing of an earlier one is left.
Init ==
  /\ config = NoCall
  /\ length = 0 /\ start = 0 /\ resets = 0
  /\ stop = "none"
  /\ pc = "idle"
  /\ low = 0 /\ layer = 1 /\ hidden = <<>>
  /\ cached = 0 /\ buffers = <<>>
  /\ logits = {}

\* The locals of generate() before its first forward pass.
Begin(c) ==
  /\ pc = "idle"
  /\ config' = c
  /\ length' = c.prompt
  /\ start' = StartAt(c, c.prompt)
  /\ resets' = 0
  /\ stop' = "max_new_tokens"
  /\ pc' = IF c.maxNew = 0 THEN "done" ELSE "forward"
  /\ low' = start'
  /\ layer' = 1
  /\ hidden' = <<>>
  /\ cached' = 0
  /\ buffers' = [l \in 1 .. Layers |-> [s \in 1 .. c.context |-> {}]]
  /\ logits' = {}

-----------------------------------------------------------------------------
(* One forward pass over ids[low:length]                                   *)

Rows == length - low
Offset == IF config.useCache THEN cached ELSE 0

\* KittyLM.forward: embed, and give each row its rotary offset.
Embed ==
  /\ pc = "forward"
  /\ IF Offset + Rows > ModelContext
       THEN pc' = "error" /\ UNCHANGED <<layer, hidden>>
       ELSE /\ hidden' = [p \in low .. length - 1 |-> {<<p, Offset + (p - low)>>}]
            /\ layer' = 1
            /\ pc' = "layer"
  /\ UNCHANGED <<config, length, start, resets, stop, low, cached, buffers, logits>>

\* attend(): may query row i of q see key j of k (both from 0)?
Attends(i, j, q, k) ==
  CASE config.backend = "reference" -> j <= i + (k - q)
    [] config.backend = "sdpa" /\ q = k -> j <= i
    [] config.backend = "sdpa" /\ q # k /\ q > 1 -> j <= i + (k - q)
    [] OTHER -> TRUE

\* Mutant: the rows go into the first slots, over the ones cached before.
StoredAtFront(l) ==
  [s \in 1 .. Context |-> IF s \in 1 .. Rows THEN hidden[low + (s - 1)] ELSE buffers[l][s]]

\* KVCache.update(): the rows go into the slots after the cached ones; the other
\* slots keep what they held, rows of an earlier context included.
Stored(l) ==
  [s \in 1 .. Context |-> IF s \in cached + 1 .. cached + Rows
                            THEN hidden[low + (s - cached - 1)]
                            ELSE buffers[l][s]]

\* The keys and values a layer attends over, and those that row p may query.
PassEnd == Offset + Rows
Slots == IF config.useCache THEN Stored(layer) ELSE buffers[layer]
Key(j) == IF config.useCache THEN Slots[j + 1] ELSE hidden[low + j]
Attended(p) == {j \in 0 .. PassEnd - 1 : Attends(p - low, j, Rows, PassEnd)}

\* One layer: store keys and values, attend over the ones up to the end of the pass,
\* and add the result to the row.
RunLayer ==
  /\ pc = "layer"
  /\ layer <= Layers
  /\ IF config.useCache /\ PassEnd > Context
       THEN pc' = "error" /\ UNCHANGED <<layer, hidden, buffers>>
       ELSE /\ buffers' = [buffers EXCEPT ![layer] = Slots]
            /\ hidden' = [p \in low .. length - 1 |->
                            hidden[p] \cup UNION {Key(j) : j \in Attended(p)}]
            /\ layer' = layer + 1
            /\ UNCHANGED pc
  /\ UNCHANGED <<config, length, start, resets, stop, low, cached, logits>>

\* The last row gives the logits, and the cache advances once for all layers.
Logits ==
  /\ pc = "layer"
  /\ layer > Layers
  /\ logits' = hidden[length - 1]
  /\ IF config.useCache THEN cached' = cached + Rows ELSE UNCHANGED cached
  /\ pc' = IF config.useCache /\ cached + Rows > Context THEN "error" ELSE "choose"
  /\ UNCHANGED <<config, length, start, resets, stop, low, layer, hidden, buffers>>

-----------------------------------------------------------------------------
(* The loop of generate()                                                  *)

ChooseEot ==
  /\ pc = "choose"
  /\ stop' = "eot"
  /\ pc' = "done"
  /\ UNCHANGED <<config, length, start, resets, low, layer, hidden, cached, buffers, logits>>

\* A token is appended; then the loop stops, starts a new context, or goes on in the
\* same one with the whole context (no cache) or the new token alone.
ChooseToken ==
  /\ pc = "choose"
  /\ length' = length + 1
  /\ IF length' - config.prompt = config.maxNew
       THEN pc' = "done" /\ UNCHANGED <<start, resets, low, cached>>
       ELSE /\ pc' = "forward"
            /\ start' = StartAt(config, length')
            /\ IF start' # start
                 THEN /\ resets' = resets + 1
                      /\ cached' = 0
                      /\ low' = start'
                 ELSE /\ UNCHANGED <<resets, cached>>
                      /\ low' = IF config.useCache THEN length ELSE start
  /\ UNCHANGED <<config, stop, layer, hidden, buffers, logits>>

\* The call is over and its locals are gone.
Leave ==
  /\ config' = NoCall
  /\ length' = 0 /\ start' = 0 /\ resets' = 0
  /\ stop' = "none"
  /\ pc' = "idle"
  /\ low' = 0 /\ layer' = 1 /\ hidden' = <<>>
  /\ cached' = 0 /\ buffers' = <<>>
  /\ logits' = {}

Step == Embed \/ RunLayer \/ Logits \/ ChooseEot \/ ChooseToken

-----------------------------------------------------------------------------
(* Properties                                                              *)

\* No forward pass exceeds the model's context or the cache (kv_cache.py "KVCache
\* overflow", transformer.py "exceeds context_length"), whatever the prompt length,
\* stride and context override.
NeverOverflows == pc # "error"

\* The cache is an optimization (generate.py 44-45): with or without it, the logits
\* come from exactly the context that evaluation scores this position with, each token
\* at its offset in it, and never from what an earlier context left in the buffers.
LogitsSeeTheContext ==
  pc = "choose" =>
    LET from == ContextStart(length, config.context, config.stride)
    IN logits = {<<p, p - from>> : p \in from .. length - 1}
=============================================================================
