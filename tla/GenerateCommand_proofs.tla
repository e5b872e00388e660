------------------------- MODULE GenerateCommand_proofs -------------------------
(***************************************************************************)
(* For any model context, layers, prompts, strides and lengths, and any    *)
(* number of lines and passes: what the logits of generate() come from,    *)
(* what the command leaves on the disk, and what it loads for any files    *)
(* and overrides.                                                          *)
(***************************************************************************)
EXTENDS GenerateCommand, TLAPS, InductionLemmas

-----------------------------------------------------------------------------
(* The context of a position                                               *)

\* Division rounds down.
LEMMA DivBounds ==
  ASSUME NEW a \in Int, NEW s \in Nat \ {0}
  PROVE  a \div s \in Int /\ s * (a \div s) <= a /\ a < s * (a \div s) + s
  OBVIOUS

\* A context has at least one token and at most context_length.
LEMMA ContextStartIs ==
  ASSUME NEW n \in Nat \ {0}, NEW c \in Nat \ {0}, NEW s \in 1 .. c
  PROVE  /\ ContextStart(n, c, s) \in Nat
         /\ ContextStart(n, c, s) < n /\ n - ContextStart(n, c, s) <= c
<1> DEFINE over == n - c
           q == (-over) \div s
<1>1. over \in Int /\ s \in Nat \ {0}
  OBVIOUS
<1>2. q \in Int /\ s * q <= -over /\ -over < s * q + s
  BY <1>1, DivBounds
<1>3. CASE over <= 0
  BY <1>3 DEF ContextStart
<1>4. CASE over > 0
  <2>1. CeilDiv(over, s) = -q
    BY DEF CeilDiv
  <2> HIDE DEF q
  <2>2. s * (-q) = -(s * q) /\ s * q \in Int
    BY <1>1, <1>2
  <2>3. ContextStart(n, c, s) = s * (-q)
    BY <1>4, <2>1 DEF ContextStart
  <2>4. QED
    BY <1>1, <1>2, <1>4, <2>2, <2>3
<1>5. QED
  BY <1>1, <1>3, <1>4

\* What a call of generate() is given, and the context it starts a position with.
LEMMA CallIs ==
  ASSUME NEW c \in Calls, NEW n \in Nat \ {0}
  PROVE  /\ c.context \in Nat \ {0} /\ c.context <= ModelContext /\ c.prompt \in Nat \ {0}
         /\ StartAt(c, n) \in Nat /\ StartAt(c, n) < n /\ n - StartAt(c, n) <= c.context
<1>1. c.context \in 1 .. ModelContext /\ c.prompt \in 1 .. MaxPrompt
      /\ c.stride \in 1 .. ModelContext /\ c.stride \in Strides(c.context)
  BY DEF Calls
<1>2. /\ c.context \in Nat \ {0} /\ c.context <= ModelContext /\ c.prompt \in Nat \ {0}
      /\ c.stride \in 1 .. c.context
  BY <1>1, GenerationAssumption DEF Strides, DefaultStride
<1>3. QED
  BY <1>2, ContextStartIs DEF StartAt

-----------------------------------------------------------------------------
(* The forward pass                                                        *)

\* What row p of the context that begins at from comes from, before layer l.
Row(from, l, p) ==
  IF l = 1 THEN {<<p, p - from>>} ELSE {<<x, x - from>> : x \in from .. p}

\* Layer l has stored the first n tokens of the context.
Filled(buffer, from, l, n) == \A s \in 1 .. n : buffer[s] = Row(from, l, from + (s - 1))

CacheFilled(from, upTo, n, k) ==
  \A l \in 1 .. Layers : Filled(buffers[l], from, l, IF l < upTo THEN n ELSE k)

\* The tokens of the context that a pass does not run over are those in the cache.
PassInv ==
  /\ low \in start .. length - 1
  /\ IF config.useCache THEN cached = low - start ELSE low = start

ForwardInv == PassInv /\ (config.useCache => CacheFilled(start, 1, 0, cached))

LayerInv ==
  /\ PassInv
  /\ layer \in 1 .. Layers + 1
  /\ \A p \in low .. length - 1 : hidden[p] = Row(start, layer, p)
  /\ config.useCache => CacheFilled(start, layer, length - start, cached)

ChooseInv ==
  /\ logits = Row(start, 2, length - 1)
  /\ config.useCache => cached = length - start /\ CacheFilled(start, 1, 0, cached)

GenerationInv ==
  /\ pc \in {"idle", "forward", "layer", "choose", "done"}
  /\ pc \in {"forward", "layer", "choose"} =>
       /\ config \in Calls /\ length \in Nat \ {0} /\ start = StartAt(config, length)
       /\ DOMAIN buffers = 1 .. Layers
  /\ pc = "forward" => ForwardInv
  /\ pc = "layer" => LayerInv
  /\ pc = "choose" => ChooseInv

\* The numbers of a running call.
LEMMA CallNumbers ==
  ASSUME GenerationInv, pc \in {"forward", "layer", "choose"}
  PROVE  /\ config \in Calls /\ length \in Nat \ {0} /\ start \in Nat
         /\ start < length /\ length - start <= Context
         /\ Context \in Nat \ {0} /\ Context <= ModelContext
         /\ Layers \in Nat \ {0} /\ ModelContext \in Nat
  BY CallIs, GenerationAssumption DEF GenerationInv, Context

\* A pass ends where the context does.
LEMMA PassNumbers ==
  ASSUME GenerationInv, pc \in {"forward", "layer"}
  PROVE  /\ low \in Nat /\ start <= low /\ low < length
         /\ Offset = low - start /\ Rows = length - low /\ Offset + Rows = length - start
         /\ config.useCache => cached = Offset
  BY CallNumbers DEF GenerationInv, ForwardInv, LayerInv, PassInv, Offset, Rows

\* Embedding gives every row its offset in the context.
LEMMA EmbedStep == GenerationInv /\ Embed => GenerationInv'
<1> SUFFICES ASSUME GenerationInv, Embed PROVE GenerationInv'
  OBVIOUS
<1>1. pc = "forward" /\ ~ (Offset + Rows > ModelContext)
  BY CallNumbers, PassNumbers DEF Embed
<1>2. /\ hidden' = [p \in low .. length - 1 |-> {<<p, Offset + (p - low)>>}]
      /\ layer' = 1 /\ pc' = "layer"
      /\ UNCHANGED <<config, length, start, low, cached, buffers>>
  BY <1>1 DEF Embed
<1>3. \A p \in low .. length - 1 : hidden'[p] = Row(start, 1, p)
  <2> SUFFICES ASSUME NEW p \in low .. length - 1 PROVE hidden'[p] = {<<p, p - start>>}
    BY DEF Row
  <2>1. Offset + (p - low) = p - start
    BY <1>1, CallNumbers, PassNumbers
  <2>2. QED
    BY <1>2, <2>1
<1>4. config.useCache => CacheFilled(start, 1, length - start, cached)
  BY <1>1, GenerationAssumption DEF GenerationInv, ForwardInv, CacheFilled
<1>5. PassInv /\ config \in Calls /\ length \in Nat \ {0} /\ start = StartAt(config, length)
      /\ DOMAIN buffers = 1 .. Layers
  BY <1>1 DEF GenerationInv, ForwardInv
<1>6. LayerInv'
  BY <1>2, <1>3, <1>4, <1>5, GenerationAssumption DEF LayerInv, PassInv, CacheFilled
<1>7. QED
  BY <1>2, <1>5, <1>6 DEF GenerationInv

\* A row attends over itself and the tokens before it, whatever the backend.
LEMMA AttendsBefore ==
  ASSUME GenerationInv, pc = "layer", NEW p \in low .. length - 1
  PROVE  Attended(p) = 0 .. p - start
<1>1. /\ low \in Nat /\ start \in Nat /\ length \in Nat /\ start <= low /\ low < length /\ p \in Nat
      /\ Rows = length - low /\ Offset + Rows = length - start
  BY CallNumbers, PassNumbers
<1>2. p - low >= 0 /\ p - low < Rows /\ p - start < length - start
      /\ (p - low) + ((length - start) - Rows) = p - start
      /\ (Rows = length - start => p - low = p - start)
      /\ (Rows <= 1 => p - start = (length - start) - 1)
  BY <1>1
<1>3. ASSUME NEW j \in 0 .. length - start - 1
      PROVE  Attends(p - low, j, Rows, length - start) <=> j <= p - start
  <2>1. CASE config.backend = "reference"
    BY <1>2, <2>1 DEF Attends
  <2>2. CASE config.backend # "reference"
    <3>1. CASE config.backend = "sdpa" /\ Rows = length - start
      BY <1>2, <3>1 DEF Attends
    <3>2. CASE config.backend = "sdpa" /\ Rows # length - start /\ Rows > 1
      BY <1>2, <3>2 DEF Attends
    <3>3. CASE config.backend = "sdpa" /\ Rows # length - start /\ Rows <= 1
      <4>1. Attends(p - low, j, Rows, length - start)
        BY <1>1, <3>3 DEF Attends
      <4>2. QED
        BY <1>1, <1>2, <3>3, <4>1
    <3>4. config.backend = "sdpa"
      BY <2>2, CallNumbers DEF Calls
    <3>5. QED
      BY <1>1, <3>1, <3>2, <3>3, <3>4
  <2>3. QED
    BY <2>1, <2>2
<1>4. PassEnd = length - start
  BY <1>1 DEF PassEnd
<1>5. \A j : j \in Attended(p) <=> j \in 0 .. length - start - 1 /\ j <= p - start
  <2>1. \A j : j \in Attended(p) <=> j \in 0 .. PassEnd - 1 /\ Attends(p - low, j, Rows, PassEnd)
    BY DEF Attended
  <2>2. QED
    BY <1>3, <1>4, <2>1
<1>6. \A j : j \in Attended(p) <=> j \in 0 .. p - start
  BY <1>1, <1>2, <1>5
<1>7. Attended(p) \subseteq 0 .. p - start /\ 0 .. p - start \subseteq Attended(p)
  BY <1>6
<1>8. QED
  BY <1>7, Zenon

\* Adding the rows before it makes a row depend on everything before it.
LEMMA RowUnion ==
  ASSUME NEW from \in Nat, NEW l \in Nat \ {0}, NEW p \in Nat, from <= p
  PROVE  Row(from, l, p) \cup UNION {Row(from, l, from + j) : j \in 0 .. p - from}
           = Row(from, l + 1, p)
<1> DEFINE below == UNION {Row(from, l, from + j) : j \in 0 .. p - from}
<1>1. Row(from, l + 1, p) = {<<x, x - from>> : x \in from .. p}
  BY DEF Row
<1>2. ASSUME NEW j \in 0 .. p - from, NEW d \in Row(from, l, from + j)
      PROVE  d \in {<<x, x - from>> : x \in from .. p}
  <2>1. from + j \in from .. p /\ from .. from + j \subseteq from .. p
    OBVIOUS
  <2>2. QED
    BY <2>1 DEF Row
<1>3. Row(from, l, p) \subseteq {<<x, x - from>> : x \in from .. p}
  BY DEF Row
<1>4. ASSUME NEW x \in from .. p PROVE <<x, x - from>> \in below
  <2>1. x - from \in 0 .. p - from /\ from + (x - from) = x
    OBVIOUS
  <2>2. <<x, x - from>> \in Row(from, l, x)
    BY DEF Row
  <2>3. QED
    BY <2>1, <2>2
<1>5. below \subseteq {<<x, x - from>> : x \in from .. p}
  BY <1>2
<1> HIDE DEF below
<1>6. Row(from, l, p) \cup below = {<<x, x - from>> : x \in from .. p}
  BY <1>3, <1>4, <1>5
<1>7. QED
  BY <1>1, <1>6 DEF below

\* The keys a layer attends over are those of the context, stored now or before.
LEMMA KeysAreRows ==
  ASSUME GenerationInv, pc = "layer", layer <= Layers, NEW j \in 0 .. length - start - 1
  PROVE  /\ Key(j) = Row(start, layer, start + j)
         /\ config.useCache => Slots[j + 1] = Row(start, layer, start + j)
<1>1. /\ low \in Nat /\ start \in Nat /\ length \in Nat /\ start <= low /\ low < length
      /\ Rows = length - low /\ length - start <= Context /\ Context \in Nat
      /\ LayerInv
  BY CallNumbers, PassNumbers DEF GenerationInv
<1>2. CASE ~ config.useCache
  <2>1. low = start /\ start + j \in low .. length - 1
    BY <1>1, <1>2 DEF LayerInv, PassInv
  <2>2. QED
    BY <1>1, <1>2, <2>1 DEF LayerInv, Key
<1>3. CASE config.useCache
  <2>1. cached = low - start /\ j + 1 \in 1 .. Context /\ layer \in 1 .. Layers /\ Layers \in Nat
    BY <1>1, <1>3, GenerationAssumption DEF LayerInv, PassInv
  <2>2. Slots[j + 1] = IF j + 1 \in cached + 1 .. cached + Rows
                         THEN hidden[low + (j + 1 - cached - 1)] ELSE buffers[layer][j + 1]
    <3>1. \A s \in 1 .. Context :
            Slots[s] = IF s \in cached + 1 .. cached + Rows
                         THEN hidden[low + (s - cached - 1)] ELSE buffers[layer][s]
      BY <1>3 DEF Slots, Stored
    <3>2. QED
      BY <2>1, <3>1
  <2>3. CASE j + 1 \in cached + 1 .. cached + Rows
    <3>1. low + (j + 1 - cached - 1) = start + j /\ start + j \in low .. length - 1
      BY <1>1, <2>1, <2>3
    <3>2. QED
      BY <1>1, <1>3, <2>2, <2>3, <3>1 DEF LayerInv, Key
  <2>4. CASE ~ (j + 1 \in cached + 1 .. cached + Rows)
    <3>1. j + 1 \in 1 .. cached /\ start + (j + 1 - 1) = start + j
      BY <1>1, <2>1, <2>4
    <3>2. Filled(buffers[layer], start, layer, cached)
      BY <1>1, <1>3, <2>1 DEF LayerInv, CacheFilled
    <3>3. QED
      BY <1>3, <2>2, <2>4, <3>1, <3>2 DEF Filled, Key
  <2>5. QED
    BY <2>3, <2>4
<1>4. QED
  BY <1>2, <1>3

\* A layer leaves every row what the next one expects, and the cache filled to the end.
LEMMA RunLayerStep == GenerationInv /\ RunLayer => GenerationInv'
<1> SUFFICES ASSUME GenerationInv, RunLayer PROVE GenerationInv'
  OBVIOUS
<1>1. /\ pc = "layer" /\ layer <= Layers /\ layer \in Nat \ {0} /\ Layers \in Nat
      /\ ~ (PassEnd > Context)
  BY CallNumbers, PassNumbers DEF RunLayer, GenerationInv, LayerInv, PassEnd
<1>2. /\ low \in Nat /\ start \in Nat /\ length \in Nat /\ start <= low /\ low < length
      /\ Rows = length - low /\ length - start <= Context /\ Context \in Nat
      /\ LayerInv
  BY <1>1, CallNumbers, PassNumbers DEF GenerationInv
<1>3. /\ buffers' = [buffers EXCEPT ![layer] = Slots]
      /\ hidden' = [p \in low .. length - 1 |->
                      hidden[p] \cup UNION {Key(j) : j \in Attended(p)}]
      /\ layer' = layer + 1 /\ pc' = pc
      /\ UNCHANGED <<config, length, start, low, cached>>
  BY <1>1 DEF RunLayer
<1>4. ASSUME NEW p \in low .. length - 1
      PROVE  hidden'[p] = Row(start, layer + 1, p)
  <2>1. Attended(p) = 0 .. p - start /\ p \in Nat /\ start <= p
    BY <1>1, <1>2, AttendsBefore
  <2>2. \A j \in Attended(p) : Key(j) = Row(start, layer, start + j)
    BY <1>1, <1>2, <2>1, KeysAreRows
  <2>3. {Key(j) : j \in Attended(p)} = {Row(start, layer, start + j) : j \in 0 .. p - start}
    BY <2>1, <2>2
  <2>4. hidden'[p] = Row(start, layer, p) \cup UNION {Row(start, layer, start + j) : j \in 0 .. p - start}
    BY <1>2, <1>3, <2>3 DEF LayerInv
  <2>5. QED
    BY <1>1, <1>2, <2>1, <2>4, RowUnion
<1>5. ASSUME config.useCache, NEW l \in 1 .. Layers
      PROVE  Filled(buffers'[l], start, l, IF l < layer + 1 THEN length - start ELSE cached)
  <2>1. CASE l = layer
    <3>1. buffers'[l] = Slots
      <4>1. DOMAIN buffers = 1 .. Layers
        BY <1>1 DEF GenerationInv
      <4>2. QED
        BY <1>3, <2>1, <4>1
    <3>2. \A s \in 1 .. length - start : s - 1 \in 0 .. length - start - 1 /\ (s - 1) + 1 = s
      BY <1>2
    <3>3. Filled(Slots, start, layer, length - start)
      BY <1>1, <1>5, <3>2, KeysAreRows DEF Filled
    <3>4. QED
      BY <1>1, <2>1, <3>1, <3>3
  <2>2. CASE l # layer
    <3>1. buffers'[l] = buffers[l] /\ (l < layer + 1 <=> l < layer)
      BY <1>1, <1>3, <2>2 DEF GenerationInv
    <3>2. QED
      BY <1>2, <1>5, <3>1 DEF LayerInv, CacheFilled
  <2>3. QED
    BY <2>1, <2>2
<1>6. LayerInv'
  BY <1>1, <1>2, <1>3, <1>4, <1>5 DEF LayerInv, PassInv, CacheFilled
<1>7. DOMAIN buffers' = 1 .. Layers
  BY <1>1, <1>3 DEF GenerationInv
<1>8. QED
  BY <1>1, <1>3, <1>6, <1>7 DEF GenerationInv
\* After the last layer the last row comes from the whole context, and the cache holds it.
LEMMA LogitsStep == GenerationInv /\ Logits => GenerationInv'
<1> SUFFICES ASSUME GenerationInv, Logits PROVE GenerationInv'
  OBVIOUS
<1>1. /\ pc = "layer" /\ LayerInv /\ Layers \in Nat \ {0} /\ layer = Layers + 1
      /\ logits' = hidden[length - 1]
      /\ UNCHANGED <<config, length, start, buffers>>
  BY GenerationAssumption DEF Logits, GenerationInv, LayerInv
<1>2. /\ low \in Nat /\ start \in Nat /\ length \in Nat /\ start <= low /\ low < length
      /\ Rows = length - low /\ length - start <= Context /\ Context \in Nat
  BY <1>1, CallNumbers, PassNumbers
<1>3. config.useCache => cached + Rows = length - start
  BY <1>1, <1>2 DEF LayerInv, PassInv
<1>4. /\ pc' = "choose"
      /\ config.useCache => cached' = length - start
  BY <1>2, <1>3 DEF Logits
<1>5. logits' = Row(start, 2, length - 1)
  <2>1. length - 1 \in low .. length - 1
    BY <1>2
  <2>2. logits' = Row(start, layer, length - 1) /\ layer # 1
    BY <1>1, <2>1 DEF LayerInv
  <2>3. QED
    BY <2>2 DEF Row
<1>6. config.useCache => CacheFilled(start, 1, 0, length - start)
  BY <1>1 DEF LayerInv, CacheFilled
<1>7. ChooseInv'
  BY <1>1, <1>4, <1>5, <1>6 DEF ChooseInv, CacheFilled
<1>8. QED
  BY <1>1, <1>4, <1>7 DEF GenerationInv

\* A range that is not empty has its first element.
LEMMA FirstOf ==
  ASSUME NEW a \in Nat, NEW b \in Nat \ {0}, a < b
  PROVE  a \in a .. b - 1 /\ a - a = 0
  OBVIOUS

\* The next pass runs over the new token, or over the whole of a context that is not in
\* the cache.
LEMMA ChooseStep == GenerationInv /\ (ChooseEot \/ ChooseToken) => GenerationInv'
<1> SUFFICES ASSUME GenerationInv, ChooseEot \/ ChooseToken PROVE GenerationInv'
  OBVIOUS
<1>1. CASE pc' = "done"
  BY <1>1 DEF GenerationInv
<1>2. CASE pc' # "done"
  <2>1. /\ ChooseToken /\ pc = "choose" /\ pc' = "forward" /\ length' = length + 1
        /\ start' = StartAt(config, length') /\ UNCHANGED <<config, buffers>>
    BY <1>2 DEF ChooseEot, ChooseToken
  <2>2. /\ length \in Nat \ {0} /\ start \in Nat /\ start < length /\ config \in Calls
        /\ DOMAIN buffers = 1 .. Layers
        /\ length' \in Nat \ {0} /\ start' \in Nat /\ start' < length'
    <3>1. /\ length \in Nat \ {0} /\ start \in Nat /\ start < length /\ config \in Calls
          /\ DOMAIN buffers = 1 .. Layers
      BY <2>1, CallNumbers DEF GenerationInv
    <3>2. length' \in Nat \ {0}
      BY <2>1, <3>1
    <3>3. start' \in Nat /\ start' < length'
      BY <2>1, <3>1, <3>2, CallIs
    <3>4. QED
      BY <3>1, <3>2, <3>3
  <2>3. CASE start' # start
    <3>1. cached' = 0 /\ low' = start'
      BY <1>2, <2>1, <2>3 DEF ChooseToken
    <3>2. PassInv'
      <4>1. start' \in start' .. length' - 1 /\ start' - start' = 0
        BY <2>2, FirstOf
      <4>2. QED
        BY <3>1, <4>1 DEF PassInv
    <3>3. CacheFilled(start, 1, 0, cached)'
      BY <3>1, GenerationAssumption DEF CacheFilled, Filled
    <3>4. QED
      BY <2>1, <2>2, <3>2, <3>3 DEF GenerationInv, ForwardInv
  <2>4. CASE start' = start
    <3>1. cached' = cached /\ low' = (IF config.useCache THEN length ELSE start)
      BY <1>2, <2>1, <2>4 DEF ChooseToken
    <3>2. PassInv'
      BY <2>1, <2>2, <2>4, <3>1 DEF PassInv, GenerationInv, ChooseInv
    <3>3. config.useCache => CacheFilled(start, 1, 0, cached)'
      BY <2>1, <2>4, <3>1 DEF CacheFilled, GenerationInv, ChooseInv
    <3>4. QED
      BY <2>1, <2>2, <3>2, <3>3 DEF GenerationInv, ForwardInv
  <2>5. QED
    BY <2>3, <2>4
<1>3. QED
  BY <1>1, <1>2

\* A call begins with the whole context of its prompt, and an empty cache.
LEMMA BeginStep == ASSUME NEW c \in Calls, Begin(c) PROVE GenerationInv'
<1>1. /\ config' = c /\ length' = c.prompt /\ start' = StartAt(c, c.prompt) /\ low' = start'
      /\ cached' = 0 /\ pc' \in {"forward", "done"} /\ DOMAIN buffers' = 1 .. Layers
  BY DEF Begin
<1>2. length' \in Nat \ {0} /\ start' \in Nat /\ start' < length'
  BY <1>1, CallIs
<1>3. PassInv'
  BY <1>1, <1>2 DEF PassInv
<1>4. CacheFilled(start, 1, 0, cached)'
  BY <1>1, GenerationAssumption DEF CacheFilled, Filled
<1>5. QED
  BY <1>1, <1>2, <1>3, <1>4 DEF GenerationInv, ForwardInv

\* Whatever the command does, generate() is at rest, begins, makes a step or is left.
LEMMA GenerationStep == GenerationInv /\ [CommandNext]_allVars => GenerationInv'
<1> SUFFICES ASSUME GenerationInv, [CommandNext]_allVars PROVE GenerationInv'
  OBVIOUS
<1>1. CASE UNCHANGED vars
  BY <1>1 DEF vars, GenerationInv, ForwardInv, LayerInv, ChooseInv, PassInv, CacheFilled
<1>2. CASE Leave
  BY <1>2 DEF Leave, GenerationInv
<1>3. CASE Step
  BY <1>3, EmbedStep, RunLayerStep, LogitsStep, ChooseStep DEF Step
<1>4. CASE \E c \in Calls : Begin(c)
  BY <1>4, BeginStep
<1>5. UNCHANGED vars \/ Leave \/ Step \/ \E c \in Calls : Begin(c)
  BY DEF CommandNext, CommandStep, Refused, Load, LoadRaised, SettingsRefused, BeginGeneration,
         CalledDirectly, GenerateStep, ReturnedDirectly, GenerationFails, Decode, Redact, Clean,
         StillFlagged, WriteTemp, RenameText, WriteSidecar, WriteFails, Kill, allVars
<1>6. QED
  BY <1>1, <1>2, <1>3, <1>4, <1>5

\* The inductive invariant of generate(): the rows of a pass, the cache and the logits
\* hold exactly the tokens of the current context.
THEOREM GenerationInvariance == CommandSpec => []GenerationInv
<1>1. CommandInit => GenerationInv
  BY DEF CommandInit, Init, GenerationInv
<1>2. QED
  BY <1>1, GenerationStep, PTL DEF CommandSpec

\* No forward pass exceeds the model's context or the cache.
THEOREM OverflowTheorem == CommandSpec => []NeverOverflows
<1>1. GenerationInv => NeverOverflows
  BY DEF GenerationInv, NeverOverflows
<1>2. QED
  BY <1>1, GenerationInvariance, PTL

\* With or without the cache, the logits come from exactly the context of the position.
THEOREM LogitsTheorem == CommandSpec => []LogitsSeeTheContext
<1>1. GenerationInv => LogitsSeeTheContext
  BY DEF GenerationInv, ChooseInv, Row, StartAt, LogitsSeeTheContext
<1>2. QED
  BY <1>1, GenerationInvariance, PTL
-----------------------------------------------------------------------------
(* The files of the command                                                *)

Writing == {"write text", "rename text", "write sidecar"}

\* A text that is being written is one the scan found clean.
CleanInv == (stage \in Writing => text.flagged = {}) /\ NothingFlaggedOnDisk

\* The calls of the two files, and of the call under way until it has replaced the text.
CallsInv ==
  /\ calls \in Nat
  /\ sample # None => sample.call \in Nat /\ sample.call <= calls
  /\ sidecar # None => sidecar.call \in Nat
  /\ stage \in Writing \cup {"redact"} => text \in Texts /\ text.call = calls
  /\ stage \in {"loaded", "generate", "redact", "write text", "rename text"} =>
       (sample # None => sample.call < calls)
  /\ stage = "write sidecar" => sample = text
  /\ stage \notin {"idle", "direct"} => exit = "none"

FilesInv == CleanInv /\ CallsInv /\ SidecarDescribesItsText

\* The actions that touch neither text nor files, but for Load, which begins a call.
Elsewhere ==
  \/ Refused \/ LoadRaised \/ SettingsRefused \/ (\E c \in Calls : BeginGeneration(c))
  \/ (\E c \in Calls : CalledDirectly(c))
  \/ GenerateStep \/ ReturnedDirectly \/ GenerationFails \/ StillFlagged \/ Kill
  \/ UNCHANGED allVars

\* What these steps do to the files, the stage, the text and the exit code.
LEMMA ElsewhereIs ==
  Elsewhere =>
    /\ UNCHANGED files
    /\ \/ UNCHANGED <<stage, text, exit, calls>>
       \/ /\ stage' = "idle" /\ calls' = calls /\ exit' \in {"failed", "traceback", "killed"}
       \/ /\ stage' = "idle" /\ calls' = calls + 1 /\ exit' \in {"refused", "failed"}
       \/ /\ stage' = "generate" /\ stage = "loaded" /\ UNCHANGED <<text, exit, calls>>
       \/ /\ stage' \in {"idle", "direct"} /\ UNCHANGED <<text, exit, calls>>
  BY DEF Elsewhere, Refused, LoadRaised, SettingsRefused, BeginGeneration, CalledDirectly,
         GenerateStep, ReturnedDirectly, GenerationFails, StillFlagged, Kill, End, allVars,
         commandVars

\* Only a clean text gets to the disk.
LEMMA CleanStep == CleanInv /\ [CommandNext]_allVars => CleanInv'
<1> SUFFICES ASSUME CleanInv, [CommandNext]_allVars PROVE CleanInv'
  OBVIOUS
<1> USE DEF CleanInv, NothingFlaggedOnDisk, Writing, files
<1>1. CASE Elsewhere
  BY <1>1, ElsewhereIs
<1>2. CASE \E a \in Artifacts : Load(a)
  BY <1>2 DEF Load
<1>3. CASE Decode \/ Redact \/ Clean
  BY <1>3 DEF Decode, Redact, Clean, End
<1>4. CASE WriteTemp \/ RenameText
  BY <1>4 DEF WriteTemp, RenameText
<1>5. CASE WriteSidecar \/ WriteFails
  BY <1>5 DEF WriteSidecar, WriteFails, End
<1>6. QED
  BY <1>1, <1>2, <1>3, <1>4, <1>5 DEF CommandNext, CommandStep, Elsewhere

\* The sidecar follows its text, and never goes before it.
LEMMA CallsStep ==
  CallsInv /\ SidecarDescribesItsText /\ [CommandNext]_allVars
    => CallsInv' /\ SidecarDescribesItsText'
<1>0. SUFFICES ASSUME CallsInv, SidecarDescribesItsText, [CommandNext]_allVars
              PROVE  CallsInv' /\ SidecarDescribesItsText'
  OBVIOUS
<1> USE DEF Writing, files
<1>a. /\ calls \in Nat
      /\ sample # None => sample.call \in Nat /\ sample.call <= calls
      /\ sidecar # None => sidecar.call \in Nat /\ sample # None /\ sidecar.call <= sample.call
      /\ sidecar # None /\ sidecar.call = sample.call => sidecar.redacted = sample.redacted
      /\ exit = "ok" => sample.call = calls /\ sidecar.call = calls
  BY <1>0 DEF CallsInv, SidecarDescribesItsText
<1>b. /\ stage \in Writing \cup {"redact"} => text \in Texts /\ text.call = calls
      /\ stage \in {"loaded", "generate", "redact", "write text", "rename text"} =>
           (sample # None => sample.call < calls)
      /\ stage = "write sidecar" => sample = text
      /\ stage \notin {"idle", "direct"} => exit = "none"
  BY <1>0 DEF CallsInv
<1>1. CASE Elsewhere
  <2>1. UNCHANGED <<sample, sidecar>>
    BY <1>1, ElsewhereIs
  <2>2. CASE UNCHANGED <<stage, text, exit, calls>>
    BY <1>a, <1>b, <2>1, <2>2 DEF CallsInv, SidecarDescribesItsText
  <2>3. CASE /\ stage' = "idle" /\ exit' \in {"failed", "traceback", "killed", "refused"}
             /\ calls' \in {calls, calls + 1}
    <3>1. calls' \in Nat /\ calls <= calls'
      BY <1>a, <2>3
    <3>2. sample # None => sample.call <= calls'
      BY <1>a, <3>1
    <3>3. QED
      BY <1>a, <2>1, <2>3, <3>1, <3>2 DEF CallsInv, SidecarDescribesItsText
  <2>4. CASE stage' = "generate" /\ stage = "loaded" /\ UNCHANGED <<text, exit, calls>>
    BY <1>a, <1>b, <2>1, <2>4 DEF CallsInv, SidecarDescribesItsText
  <2>5. CASE stage' \in {"idle", "direct"} /\ UNCHANGED <<text, exit, calls>>
    BY <1>a, <2>1, <2>5 DEF CallsInv, SidecarDescribesItsText
  <2>6. QED
    BY <1>1, <2>2, <2>3, <2>4, <2>5, ElsewhereIs
<1>2. CASE \E a \in Artifacts : Load(a)
  BY <1>a, <1>b, <1>2 DEF Load, CallsInv, SidecarDescribesItsText
<1>3. CASE Decode
  <2>1. CASE stage' = "redact"
    <3>1. PICK flagged \in SUBSET Lines : text' = [call |-> calls, redacted |-> {}, flagged |-> flagged]
      BY <1>3, <2>1 DEF Decode, End
    <3>2. text' \in Texts /\ text'.call = calls
      BY <1>a, <3>1 DEF Texts
    <3>3. stage = "generate" /\ UNCHANGED <<sample, sidecar, exit, calls>>
      BY <1>3, <2>1 DEF Decode, End
    <3>4. QED
      BY <1>a, <1>b, <2>1, <3>2, <3>3 DEF CallsInv, SidecarDescribesItsText
  <2>2. CASE stage' # "redact"
    BY <1>a, <1>3, <2>2 DEF Decode, End, CallsInv, SidecarDescribesItsText
  <2>3. QED
    BY <2>1, <2>2
<1>4. CASE Redact
  BY <1>a, <1>b, <1>4 DEF Redact, Texts, CallsInv, SidecarDescribesItsText
<1>5. CASE Clean
  BY <1>a, <1>b, <1>5 DEF Clean, CallsInv, SidecarDescribesItsText
<1>6. CASE WriteTemp
  BY <1>a, <1>b, <1>6 DEF WriteTemp, CallsInv, SidecarDescribesItsText
<1>7. CASE RenameText
  <2>1. /\ stage = "rename text" /\ stage' = "write sidecar" /\ sample' = text
        /\ UNCHANGED <<text, sidecar, exit, calls>>
    BY <1>7 DEF RenameText
  <2>2. text \in Texts /\ text.call = calls /\ text # None /\ exit = "none"
    BY <1>b, <2>1, CommandAssumption
  <2>3. ASSUME sidecar # None PROVE sidecar.call \in Nat /\ sidecar.call < calls
    <3>1. sample # None /\ sample.call < calls
      BY <1>a, <1>b, <2>1, <2>3
    <3>2. sample.call \in Nat /\ sidecar.call \in Nat /\ sidecar.call <= sample.call
      BY <1>a, <2>3
    <3>3. QED
      BY <1>a, <3>1, <3>2
  <2>4. CallsInv'
    <3>1. sample'.call = calls' /\ calls' \in Nat /\ calls' <= calls' /\ text' \in Texts
      <4>1. calls \in Nat /\ calls <= calls
        BY <1>a
      <4>2. UNCHANGED <<text, calls>> /\ sample' = text
        BY <2>1
      <4>3. QED
        BY <2>2, <4>1, <4>2, Zenon
    <3>2. sidecar' # None => sidecar'.call \in Nat
      BY <1>a, <2>1
    <3>3. QED
      BY <2>1, <2>2, <3>1, <3>2 DEF CallsInv
  <2>5. SidecarDescribesItsText'
    <3>1. sidecar # None => text # None /\ sidecar.call <= text.call /\ sidecar.call # text.call
      BY <1>a, <2>2, <2>3
    <3>2. QED
      BY <2>1, <2>2, <3>1 DEF SidecarDescribesItsText
  <2>6. QED
    BY <2>4, <2>5
<1>8. CASE WriteSidecar
  BY <1>a, <1>b, <1>8, CommandAssumption
     DEF WriteSidecar, End, CallsInv, SidecarDescribesItsText
<1>9. CASE WriteFails
  BY <1>a, <1>b, <1>9 DEF WriteFails, End, CallsInv, SidecarDescribesItsText
<1>10. QED
  BY <1>0, <1>1, <1>2, <1>3, <1>4, <1>5, <1>6, <1>7, <1>8, <1>9
     DEF CommandNext, CommandStep, Elsewhere

\* The inductive invariant of the command's files.
THEOREM FilesInvariance == CommandSpec => []FilesInv
<1>1. CommandInit => FilesInv
  BY DEF CommandInit, FilesInv, CleanInv, CallsInv, NothingFlaggedOnDisk, SidecarDescribesItsText,
         Writing
<1>2. FilesInv /\ [CommandNext]_allVars => FilesInv'
  BY CleanStep, CallsStep DEF FilesInv
<1>3. QED
  BY <1>1, <1>2, PTL DEF CommandSpec

\* Nothing the scan flags is ever in a file, whatever it flags in a redacted text.
THEOREM FlaggedTheorem == CommandSpec => []NothingFlaggedOnDisk
<1>1. FilesInv => NothingFlaggedOnDisk
  BY DEF FilesInv, CleanInv
<1>2. QED
  BY <1>1, FilesInvariance, PTL

\* A sidecar never speaks of a text that is not there or not there any more, unless a
\* later call, which did not finish, has replaced that text.
THEOREM SidecarTheorem == CommandSpec => []SidecarDescribesItsText
<1>1. FilesInv => SidecarDescribesItsText
  BY DEF FilesInv
<1>2. QED
  BY <1>1, FilesInvariance, PTL

-----------------------------------------------------------------------------
(* What a command line loads                                               *)

\* The fields after n overrides, when h holds those after fewer.
After(data, items, h, n) ==
  IF n = 0 THEN [error |-> "none", data |-> data] ELSE Override(h[n - 1], items[n])

\* The loop over the overrides has a result after each of them: a first one without would
\* get its result from the one before it.
LEMMA LoopExists ==
  ASSUME NEW data, NEW items, Len(items) \in Nat
  PROVE  \E h : h = [n \in 0 .. Len(items) |-> After(data, items, h, n)]
<1> DEFINE UpTo(m, h) == \A n \in 0 .. m : h[n] = After(data, items, h, n)
           Bad == {m \in Nat : \A h : ~ UpTo(m, h)}
<1>1. ASSUME NEW m \in Bad, \A k \in Bad : m <= k PROVE FALSE
  <2>1. CASE m = 0
    <3> DEFINE h == [n \in {0} |-> [error |-> "none", data |-> data]]
    <3>1. h[0] = After(data, items, h, 0)
      BY DEF After
    <3> HIDE DEF h
    <3>2. UpTo(0, h)
      BY <3>1
    <3> QED
      BY <2>1, <3>2
  <2>2. CASE m # 0
    <3>1. m - 1 \in Nat /\ m - 1 \notin Bad
      <4>1. m \in Nat
        OBVIOUS
      <4> HIDE DEF Bad
      <4> QED
        BY <1>1, <2>2, <4>1
    <3>2. PICK g : UpTo(m - 1, g)
      BY <3>1
    <3> DEFINE h == [n \in 0 .. m |-> After(data, items, g, n)]
    <3>3. ASSUME NEW n \in 0 .. m PROVE h[n] = After(data, items, h, n)
      <4>1. CASE n = 0
        BY <4>1 DEF After
      <4>2. CASE n # 0
        <5>1. n - 1 \in 0 .. m - 1 /\ n - 1 \in 0 .. m
          BY <3>1, <4>2
        <5>2. g[n - 1] = h[n - 1]
          BY <3>2, <5>1
        <5> QED
          BY <4>2, <5>2 DEF After
      <4> QED
        BY <4>1, <4>2
    <3> HIDE DEF h
    <3>4. UpTo(m, h)
      BY <3>3
    <3> QED
      BY <3>4
  <2> QED
    BY <2>1, <2>2
<1>2. Bad = {}
  <2> HIDE DEF Bad
  <2>1. Bad \in SUBSET Nat
    BY DEF Bad
  <2> QED
    BY <1>1, <2>1, LeastOf
<1>3. PICK g : UpTo(Len(items), g)
  BY <1>2
<1> DEFINE h == [n \in 0 .. Len(items) |-> g[n]]
<1>4. ASSUME NEW n \in 0 .. Len(items) PROVE g[n] = After(data, items, h, n)
  <2>1. n # 0 => n - 1 \in 0 .. Len(items)
    OBVIOUS
  <2> QED
    BY <1>3, <2>1 DEF After
<1>5. h = [n \in 0 .. Len(items) |-> After(data, items, h, n)]
  <2>1. [n \in 0 .. Len(items) |-> g[n]] = [n \in 0 .. Len(items) |-> After(data, items, h, n)]
    <3> HIDE DEF h
    <3> QED
      BY <1>4
  <2> QED
    BY <2>1
<1> QED
  BY <1>5

\* ApplyOverrides is the last result of the loop.
LEMMA LoopIs ==
  ASSUME NEW data, NEW items, Len(items) \in Nat
  PROVE  \E h : /\ ApplyOverrides(data, items) = h[Len(items)]
                /\ \A n \in 0 .. Len(items) : h[n] = After(data, items, h, n)
<1> DEFINE Loop(h) == h = [n \in 0 .. Len(items) |-> After(data, items, h, n)]
           loop == CHOOSE h : Loop(h)
<1>1. Loop(loop)
  BY LoopExists
<1>2. ApplyOverrides(data, items) = loop[Len(items)]
  BY DEF ApplyOverrides, After
<1>3. \A n \in 0 .. Len(items) : loop[n] = After(data, items, loop, n)
  <2> HIDE DEF loop
  <2>1. loop = [n \in 0 .. Len(items) |-> After(data, items, loop, n)]
    BY <1>1
  <2> HIDE DEF Loop
  <2> QED
    BY <2>1
<1> QED
  BY <1>2, <1>3

\* What an override puts in its field.
Given(item) == IF item.sub THEN [type |-> "map", is |-> ""] ELSE item.value

\* Each field holds what the last of the first n overrides of it says, or else the file.
Reflects(fields, data, items, n) ==
  /\ fields.error \in {"none", "ConfigError", "YAMLError"}
  /\ fields.error = "none" =>
       \A f : \/ /\ \A j \in 1 .. n : items[j].key # f
                 /\ f \in DOMAIN fields.data <=> f \in DOMAIN data
                 /\ f \in DOMAIN data => fields.data[f] = data[f]
              \/ \E i \in 1 .. n :
                   /\ items[i].key = f
                   /\ \A j \in i + 1 .. n : items[j].key # f
                   /\ f \in DOMAIN fields.data
                   /\ fields.data[f] = Given(items[i])

\* One more override.
LEMMA OverrideReflects ==
  ASSUME NEW fields, NEW data, NEW items, NEW n \in Nat, Reflects(fields, data, items, n)
  PROVE  Reflects(Override(fields, items[n + 1]), data, items, n + 1)
<1> DEFINE item == items[n + 1]
           next == Override(fields, item)
<1>1. next.error \in {"none", "ConfigError", "YAMLError"}
  BY DEF Override, Error, Reflects
<1>2. ASSUME next.error = "none", NEW f
      PROVE  \/ /\ \A j \in 1 .. n + 1 : items[j].key # f
                /\ f \in DOMAIN next.data <=> f \in DOMAIN data
                /\ f \in DOMAIN data => next.data[f] = data[f]
             \/ \E i \in 1 .. n + 1 :
                  /\ items[i].key = f
                  /\ \A j \in i + 1 .. n + 1 : items[j].key # f
                  /\ f \in DOMAIN next.data
                  /\ next.data[f] = Given(items[i])
  <2>1. fields.error = "none" /\ next.data = Put(fields.data, item.key, Given(item))
    BY <1>2 DEF Override, Error, Given
  <2>2. /\ DOMAIN next.data = DOMAIN fields.data \cup {item.key}
        /\ \A k \in DOMAIN next.data :
             next.data[k] = IF k = item.key THEN Given(item) ELSE fields.data[k]
    BY <2>1 DEF Put
  <2> HIDE DEF next
  <2>3. CASE item.key = f
    <3>1. n + 1 \in 1 .. n + 1 /\ \A j \in n + 1 + 1 .. n + 1 : items[j].key # f
      OBVIOUS
    <3> QED
      BY <2>2, <2>3, <3>1
  <2>4. CASE item.key # f
    <3>1. \A j \in 1 .. n + 1 : j = n + 1 \/ j \in 1 .. n
      OBVIOUS
    <3>2. CASE \A j \in 1 .. n : items[j].key # f
      <4>1. \A j \in 1 .. n + 1 : items[j].key # f
        BY <2>4, <3>1, <3>2
      <4>2. \A i \in 1 .. n : items[i].key # f
        BY <3>2
      <4>3. /\ f \in DOMAIN fields.data <=> f \in DOMAIN data
            /\ f \in DOMAIN data => fields.data[f] = data[f]
        BY <2>1, <4>2 DEF Reflects
      <4> QED
        BY <2>2, <2>4, <4>1, <4>3
    <3>3. CASE ~ \A j \in 1 .. n : items[j].key # f
      <4>1. PICK i \in 1 .. n : /\ items[i].key = f
                                /\ \A j \in i + 1 .. n : items[j].key # f
                                /\ f \in DOMAIN fields.data
                                /\ fields.data[f] = Given(items[i])
        BY <2>1, <3>3 DEF Reflects
      <4>2. \A j \in i + 1 .. n + 1 : j = n + 1 \/ j \in i + 1 .. n
        OBVIOUS
      <4>3. \A j \in i + 1 .. n + 1 : items[j].key # f
        BY <2>4, <4>1, <4>2
      <4>4. i \in 1 .. n + 1
        OBVIOUS
      <4> QED
        BY <2>2, <2>4, <4>1, <4>3, <4>4
    <3> QED
      BY <3>2, <3>3
  <2> QED
    BY <2>3, <2>4
<1> QED
  BY <1>1, <1>2 DEF Reflects

\* All overrides: a first one that is not reflected would follow one that is.
LEMMA OverridesReflected ==
  ASSUME NEW data, NEW items, Len(items) \in Nat
  PROVE  Reflects(ApplyOverrides(data, items), data, items, Len(items))
<1>1. PICK h : /\ ApplyOverrides(data, items) = h[Len(items)]
               /\ \A n \in 0 .. Len(items) : h[n] = After(data, items, h, n)
  BY LoopIs
<1> DEFINE Bad == {n \in 0 .. Len(items) : ~ Reflects(h[n], data, items, n)}
<1>2. ASSUME NEW n \in Bad, \A k \in Bad : n <= k PROVE FALSE
  <2>1. CASE n = 0
    <3>1. h[0] = [error |-> "none", data |-> data]
      BY <1>1 DEF After
    <3>2. Reflects(h[0], data, items, 0)
      BY <3>1 DEF Reflects
    <3> QED
      BY <2>1, <3>2
  <2>2. CASE n # 0
    <3>1. n \in 0 .. Len(items) /\ ~ Reflects(h[n], data, items, n)
      OBVIOUS
    <3>2. PICK m \in Nat : m = n - 1
      BY <2>2, <3>1
    <3>3. m \in 0 .. Len(items) /\ m \notin Bad /\ n = m + 1
      BY <1>2, <3>1, <3>2
    <3>4. Reflects(h[m], data, items, m)
      BY <3>3
    <3>5. h[n] = Override(h[m], items[n])
      BY <1>1, <2>2, <3>1, <3>2 DEF After
    <3>6. Reflects(Override(h[m], items[m + 1]), data, items, m + 1)
      BY <3>4, OverrideReflects
    <3> QED
      BY <3>1, <3>3, <3>5, <3>6
  <2> QED
    BY <2>1, <2>2
<1>3. Bad = {}
  <2> HIDE DEF Bad
  <2>1. Bad \in SUBSET Nat
    BY DEF Bad
  <2> QED
    BY <1>2, <2>1, LeastOf
<1>4. Len(items) \in 0 .. Len(items)
  OBVIOUS
<1> QED
  BY <1>1, <1>3, <1>4

\* A resolved configuration says what the command line says, in the types of its class.
LEMMA ConfigSays ==
  ASSUME NEW a \in Artifacts, NEW fields, NEW result,
         fields = ApplyOverrides(a.yaml.data, a.overrides), fields.error = "none",
         result = FromDict(fields.data), result.error = "none"
  PROVE  /\ Resolved(result.data)
         /\ \A f \in Fields : result.data[f].is = Says(a, f)
<1>1. /\ a.overrides \in Seq(Item)
      /\ \A k \in DOMAIN a.yaml.data : a.yaml.data[k] \in Value
  BY ArtifactsAssumption
<1>2. Complete(fields.data)
      /\ result.data = [f \in Fields |-> IF f \in DOMAIN fields.data
                                         THEN Converted(f, fields.data[f]) ELSE Defaults[f]]
  BY DEF FromDict, Error
<1>3. Len(a.overrides) \in Nat /\ DOMAIN a.overrides = 1 .. Len(a.overrides)
      /\ \A i \in 1 .. Len(a.overrides) : a.overrides[i] \in Item
  BY <1>1
<1>4. Reflects(fields, a.yaml.data, a.overrides, Len(a.overrides))
  BY <1>3, OverridesReflected
<1>5. ASSUME NEW f \in Fields
      PROVE  /\ f \in DOMAIN fields.data => /\ fields.data[f] \in Value
                                            /\ Accepts(f, fields.data[f])
                                            /\ fields.data[f].is = Says(a, f)
             /\ f \notin DOMAIN fields.data => /\ f \in DOMAIN Defaults
                                               /\ Defaults[f].is = Says(a, f)
  <2> DEFINE items == {i \in DOMAIN a.overrides : a.overrides[i].key = f}
  <2>1. /\ f \in DOMAIN fields.data => Accepts(f, fields.data[f])
        /\ f \notin DOMAIN fields.data => f \in DOMAIN Defaults
    BY <1>2 DEF Complete
  <2>2. CASE \A j \in 1 .. Len(a.overrides) : a.overrides[j].key # f
    <3>1. items = {}
      BY <1>3, <2>2
    <3>2. /\ f \in DOMAIN fields.data <=> f \in DOMAIN a.yaml.data
          /\ f \in DOMAIN a.yaml.data => fields.data[f] = a.yaml.data[f]
      BY <1>4, <2>2 DEF Reflects
    <3>3. Says(a, f) = IF f \in DOMAIN a.yaml.data THEN a.yaml.data[f].is ELSE Defaults[f].is
      BY <3>1 DEF Says
    <3> QED
      BY <1>1, <2>1, <3>2, <3>3
  <2>3. CASE ~ \A j \in 1 .. Len(a.overrides) : a.overrides[j].key # f
    <3>1. PICK i \in 1 .. Len(a.overrides) :
            /\ a.overrides[i].key = f
            /\ \A j \in i + 1 .. Len(a.overrides) : a.overrides[j].key # f
            /\ f \in DOMAIN fields.data
            /\ fields.data[f] = Given(a.overrides[i])
      BY <1>4, <2>3 DEF Reflects
    <3>2. i \in items /\ \A j \in items : j <= i
      BY <1>3, <3>1
    <3>3. \A k \in items : (\A j \in items : j <= k) => k = i
      BY <1>3, <3>2
    <3>4. (CHOOSE k \in items : \A j \in items : j <= k) = i
      <4> HIDE DEF items
      <4> QED
        BY <3>2, <3>3
    <3>5. Says(a, f) = a.overrides[i].value.is
      BY <3>2, <3>4 DEF Says
    <3>6. ~ a.overrides[i].sub
      <4> SUFFICES ASSUME a.overrides[i].sub PROVE FALSE
        OBVIOUS
      <4>1. PICK v : v = fields.data[f]
        OBVIOUS
      <4>2. v = [type |-> "map", is |-> ""]
        BY <3>1, <4>1 DEF Given
      <4>3. v.type = "map"
        BY <4>2
      <4>4. Accepts(f, v)
        BY <2>1, <3>1, <4>1
      <4>5. FieldType[f] \in {"int", "literal", "float", "bool"}
        BY DEF Fields, FieldType
      <4> QED
        BY <4>3, <4>4, <4>5 DEF Accepts
    <3>7. fields.data[f] = a.overrides[i].value /\ a.overrides[i].value \in Value
      BY <1>3, <3>1, <3>6 DEF Given, Item
    <3> QED
      BY <2>1, <3>1, <3>5, <3>7
  <2> QED
    BY <2>2, <2>3
<1>6. ASSUME NEW f \in Fields
      PROVE  /\ result.data[f] = [type |-> TypeOf(f), is |-> result.data[f].is]
             /\ result.data[f].is = Says(a, f)
  <2>1. CASE f \in DOMAIN fields.data
    <3>1. PICK v \in Value : v = fields.data[f]
      BY <1>5, <2>1
    <3>2. result.data[f] = Converted(f, v)
      BY <1>2, <2>1, <3>1
    <3>3. Accepts(f, v) /\ v.is = Says(a, f) /\ v = [type |-> v.type, is |-> v.is]
      BY <1>5, <2>1, <3>1 DEF Value
    <3>4. Converted(f, v) = [type |-> TypeOf(f), is |-> v.is]
      <4>1. CASE FieldType[f] = "float"
        <5>1. Converted(f, v) = [v EXCEPT !.type = "float"]
          BY <4>1 DEF Converted
        <5>2. [v EXCEPT !.type = "float"] = [type |-> "float", is |-> v.is]
          BY <3>3
        <5> QED
          BY <4>1, <5>1, <5>2 DEF TypeOf
      <4>2. CASE FieldType[f] # "float"
        BY <3>3, <4>2 DEF Converted, Accepts, TypeOf
      <4> QED
        BY <4>1, <4>2
    <3> QED
      BY <3>2, <3>3, <3>4
  <2>2. CASE f \notin DOMAIN fields.data
    <3>1. result.data[f] = Defaults[f] /\ f \in DOMAIN Defaults /\ Defaults[f].is = Says(a, f)
      BY <1>2, <1>5, <2>2
    <3>2. f \in {"rope_theta", "tie_embeddings"}
      BY <3>1 DEF Defaults
    <3>3. Defaults[f] = [type |-> TypeOf(f), is |-> Defaults[f].is]
      BY <3>2 DEF Defaults, TypeOf, FieldType
    <3> QED
      BY <3>1, <3>3
  <2> QED
    BY <2>1, <2>2
<1>7. result.data = [f \in Fields |-> [type |-> TypeOf(f), is |-> result.data[f].is]]
  <2> DEFINE d == result.data
             e == [f \in Fields |-> [type |-> TypeOf(f), is |-> d[f].is]]
  <2>1. \A f \in Fields : d[f] = e[f]
    BY <1>6
  <2>2. d = [f \in Fields |-> d[f]]
    BY <1>2
  <2>3. e = [f \in Fields |-> e[f]]
    OBVIOUS
  <2> HIDE DEF d, e
  <2>4. d = e
    BY <2>1, <2>2, <2>3
  <2> QED
    BY <2>4 DEF d, e
<1> QED
  BY <1>6, <1>7 DEF Resolved

\* Two resolved configurations with the same values are the same.
LEMMA SameValues ==
  ASSUME NEW c, NEW d, Resolved(c), Resolved(d), \A f \in Fields : c[f].is = d[f].is
  PROVE  c = d
<1> DEFINE made(x) == [f \in Fields |-> [type |-> TypeOf(f), is |-> x[f].is]]
<1>1. made(c) = made(d)
  OBVIOUS
<1> QED
  BY <1>1 DEF Resolved

\* While main() has loaded, what it loaded comes from its own command line.
LoadInv == stage = "loaded" => artifacts \in Artifacts /\ loaded = LoadForInference(artifacts)

\* Every state of the command satisfies it.
THEOREM LoadInvariance == CommandSpec => []LoadInv
<1>1. CommandInit => LoadInv
  BY DEF CommandInit, LoadInv
<1>2. LoadInv /\ [CommandNext]_allVars => LoadInv'
  <2> SUFFICES ASSUME LoadInv, [CommandNext]_allVars PROVE LoadInv'
    OBVIOUS
  <2>1. ASSUME NEW a \in Artifacts, Load(a) PROVE LoadInv'
    BY <2>1 DEF Load, LoadInv
  <2>2. ASSUME Refused \/ UNCHANGED allVars PROVE LoadInv'
    BY <2>2 DEF Refused, allVars, commandVars, LoadInv
  <2>3. ASSUME \/ \E c \in Calls : CalledDirectly(c)
               \/ CommandStep \/ Kill
        PROVE  LoadInv'
    <3>1. stage' # "loaded" \/ UNCHANGED <<stage, artifacts, loaded>>
      BY <2>3 DEF CalledDirectly, CommandStep, Kill, End, LoadRaised, SettingsRefused,
            BeginGeneration, GenerateStep, ReturnedDirectly, GenerationFails, Decode, Redact,
            Clean, StillFlagged, WriteTemp, RenameText, WriteSidecar, WriteFails, commandVars
    <3> QED
      BY <3>1 DEF LoadInv
  <2> QED
    BY <2>1, <2>2, <2>3 DEF CommandNext
<1> QED
  BY <1>1, <1>2, PTL DEF CommandSpec

\* load_for_inference returns a model only for the configuration and tokenizer it was
\* trained with, and takes none for another because of how it is written, whatever the
\* file and the overrides say.
THEOREM LoadsTheorem == CommandSpec => []LoadsExactlyTheTrained
<1>1. ASSUME LoadInv PROVE LoadsExactlyTheTrained
  <2> SUFFICES ASSUME stage = "loaded", loaded = "loaded" \/ (loaded = "LoadError" /\ artifacts.yaml.kind = "model")
               PROVE  LoadsExactlyTheTrained
    BY DEF LoadsExactlyTheTrained
  <2> DEFINE a == artifacts
             fields == ApplyOverrides(a.yaml.data, a.overrides)
             result == FromDict(fields.data)
             same == \A f \in Fields : Says(a, f) = a.checkpoint.config[f].is
             tokenizers == /\ a.tokenizer.intact /\ a.checkpoint.intact
                           /\ a.tokenizer.sha256 = a.checkpoint.tokenizer
                           /\ a.tokenizer.vocab = Says(a, "vocab_size")
  <2>1. a \in Artifacts /\ loaded = LoadForInference(a)
    BY <1>1 DEF LoadInv
  <2>2. a.yaml.kind = "model" /\ LoadYaml(a.yaml).error = "none" /\ LoadYaml(a.yaml).data = a.yaml.data
    BY <2>1 DEF LoadForInference, LoadYaml, Error
  <2>3. loaded = IF fields.error # "none" THEN fields.error
                 ELSE IF result.error # "none" THEN result.error
                 ELSE IF ~ a.tokenizer.intact THEN "TokenizerError"
                 ELSE IF a.tokenizer.vocab # result.data.vocab_size.is THEN "LoadError"
                 ELSE IF ~ a.checkpoint.intact THEN "CheckpointError"
                 ELSE IF a.checkpoint.tokenizer # a.tokenizer.sha256 THEN "LoadError"
                 ELSE IF ~ Hashable(result.data) THEN "ValueError"
                 ELSE IF a.checkpoint.config # result.data THEN "LoadError"
                 ELSE "loaded"
    BY <2>1, <2>2 DEF LoadForInference
  <2>4. fields.error \in {"none", "ConfigError", "YAMLError"}
    <3>1. Len(a.overrides) \in Nat
      BY <2>1, ArtifactsAssumption
    <3> QED
      BY <3>1, OverridesReflected DEF Reflects
  <2>5. result.error \in {"none", "ConfigError"}
    BY DEF FromDict, Error
  <2> HIDE DEF a, fields, result
  <2>6. fields.error = "none" /\ result.error = "none"
    BY <2>3, <2>4, <2>5
  <2>7. Resolved(result.data) /\ \A f \in Fields : result.data[f].is = Says(a, f)
    BY <2>1, <2>6, ConfigSays DEF fields, result
  <2>8. Resolved(a.checkpoint.config)
    BY <2>1, ArtifactsAssumption
  <2>9. same <=> a.checkpoint.config = result.data
    <3>1. CASE same
      BY <2>7, <2>8, <3>1, SameValues
    <3>2. CASE a.checkpoint.config = result.data
      BY <2>7, <3>2
    <3> QED
      BY <3>1, <3>2
  <2>10. result.data.vocab_size.is = Says(a, "vocab_size")
    BY <2>7 DEF Fields, FieldType
  <2>11. /\ loaded = "loaded" => same /\ tokenizers
         /\ loaded = "LoadError" => ~ same \/ ~ tokenizers
    <3> HIDE DEF same
    <3> QED
      BY <2>3, <2>6, <2>9, <2>10
  <2> QED
    BY <2>11 DEF LoadsExactlyTheTrained, a
<1> QED
  BY <1>1, LoadInvariance, PTL
=================================================================================
