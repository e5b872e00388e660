---------------------------- MODULE WindowSamplers ----------------------------
(***************************************************************************)
(* kittylm/data/loader.py: the two samplers a training engine draws its    *)
(* batches from, and the states that carry a sampler over a restart.       *)
(*                                                                         *)
(* A generator is the seed it was made with and the draws made from it;    *)
(* what it draws next is a function of these, of the range and of the      *)
(* batch size, and stands for itself.                                      *)
(***************************************************************************)
EXTENDS ContextPolicy, Sequences, SequencesExt

CONSTANTS
  Samplers,    \* sampler objects, of one process or of several
  Streams,     \* token streams: [id, tokens]
  Contexts,    \* context lengths
  Batches,     \* batch sizes of random samplers
  Seeds,
  MaxDrawn,    \* bound: batches drawn by a sampler
  Absent       \* what state.get() gives for a missing key

ASSUME SamplersAssumption ==
  /\ Contexts \subseteq Nat \ {0} /\ Batches \subseteq Nat \ {0} /\ MaxDrawn \in Nat
  /\ \A s \in Streams : \A c \in Contexts : s.tokens \in Nat /\ s.tokens >= c + 1
  /\ Absent \notin Samplers /\ Absent # "fixed_windows"

\* A stream's id is the sha256 of its tokens: one id, one stream.
ASSUME DigestAssumption == \A s, t \in Streams : s.id = t.id => s = t

VARIABLES
  config,     \* what each sampler was made with
  generator,  \* of a random sampler
  seed,       \* the attribute of a random sampler
  drawn,      \* batches_drawn
  saved,      \* the state last saved
  saver,      \* the sampler that saved it
  follows,    \* what the saver drew since
  resumed,    \* the sampler that loaded it last
  replays,    \* what that one drew since
  promised,   \* what the preview of each sampler's next batch said
  answer      \* how the last load ended: "none", "accepted", "ValueError", "KeyError"

object == <<config, generator, seed, drawn>>
trace == <<saver, follows, resumed, replays>>
samplersVars == <<object, trace, saved, promised, answer>>

\* The number of windows of a stream, and where they start.
WindowCount(tokens, c, s) ==
  IF tokens <= c + 1 THEN 1 ELSE 1 + CeilDiv(tokens - c - 1, s)

FixedStarts(f) == [k \in 1 .. WindowCount(f.stream.tokens, f.context, f.stride) |-> (k - 1) * f.stride]

RandomConfig ==
  [kind : {"random"}, stream : Streams, context : Contexts, stride : {Absent}, batch : Batches, seed : Seeds]

\* batch_size of a fixed-window sampler is the number of its windows.
FixedWindows(t, c) ==
  {[kind |-> "fixed_windows", stream |-> t, context |-> c, stride |-> s,
    batch |-> WindowCount(t.tokens, c, s), seed |-> Absent] : s \in Strides(c)}

FixedConfig == UNION {FixedWindows(t, c) : t \in Streams, c \in Contexts}

Fixed(x) == config[x].kind = "fixed_windows"

\* _draw(): starts in [0, max_start], as many as the batch has windows.
Draw(g, f) == <<g, f.stream.tokens - f.context - 1, f.batch>>

\* preview_starts(), and the starts of the batch next_batch() gives.
Starts(x) == IF Fixed(x) THEN FixedStarts(config[x]) ELSE Draw(generator[x], config[x])

SamplersInit ==
  /\ config \in [Samplers -> RandomConfig \cup FixedConfig]
  /\ generator = [x \in Samplers |-> <<config[x].seed, 0>>]
  /\ seed = [x \in Samplers |-> config[x].seed]
  /\ drawn = [x \in Samplers |-> 0]
  /\ saved = Absent /\ saver = Absent /\ follows = <<>>
  /\ resumed = Absent /\ replays = <<>>
  /\ promised = [x \in Samplers |-> Absent]
  /\ answer = "none"

\* What a batch is to the training: for fixed windows the tokens too.
Given(x) == IF Fixed(x) THEN <<Starts(x), config[x].stream>> ELSE <<Starts(x)>>

Advanced(x) == IF Fixed(x) THEN generator[x] ELSE <<generator[x][1], generator[x][2] + 1>>

NextBatch(x) ==
  /\ drawn[x] < MaxDrawn
  /\ generator' = [generator EXCEPT ![x] = Advanced(x)]
  /\ drawn' = [drawn EXCEPT ![x] = @ + 1]
  /\ follows' = IF x = saver THEN Append(follows, Given(x)) ELSE follows
  /\ replays' = IF x = resumed THEN Append(replays, Given(x)) ELSE replays
  /\ promised' = [promised EXCEPT ![x] = Absent]
  /\ UNCHANGED <<config, seed, saved, saver, resumed, answer>>

\* preview_starts() draws from a clone of the generator.
Preview(x) ==
  /\ promised' = [promised EXCEPT ![x] = Starts(x)]
  /\ UNCHANGED <<object, trace, saved, answer>>

\* state_dict(); a random sampler's has no kind, stride or stream_sha256, a fixed-window
\* sampler's no generator and no seed.
StateDict(x) ==
  LET f == config[x]
      Only(kind, value) == IF f.kind = kind THEN value ELSE Absent
  IN [drawn |-> drawn[x], context |-> f.context, batch |-> f.batch, tokens |-> f.stream.tokens,
      kind |-> Only("fixed_windows", f.kind),
      stride |-> Only("fixed_windows", f.stride),
      sha256 |-> Only("fixed_windows", f.stream.id),
      generator |-> Only("random", generator[x]),
      seed |-> Only("random", seed[x])]

Save(x) ==
  /\ saved' = StateDict(x)
  /\ saver' = x /\ follows' = <<>>
  /\ resumed' = Absent /\ replays' = <<>>
  /\ UNCHANGED <<object, promised, answer>>

SameShape(x) ==
  /\ saved.context = config[x].context
  /\ saved.batch = config[x].batch
  /\ saved.tokens = config[x].stream.tokens

\* Mutant: the stream of a fixed-window sampler is known by its length alone.
MatchesLength(x) ==
  /\ SameShape(x)
  /\ Fixed(x) => saved.kind = config[x].kind /\ saved.stride = config[x].stride

Matches(x) ==
  /\ SameShape(x)
  /\ Fixed(x) => /\ saved.kind = config[x].kind
                 /\ saved.stride = config[x].stride
                 /\ saved.sha256 = config[x].stream.id

\* The saver's own sequence ends where it loads its state again.
Accept(x) ==
  /\ answer' = "accepted"
  /\ resumed' = x /\ replays' = <<>>
  /\ saver' = IF x = saver THEN Absent ELSE saver

Load(x) ==
  /\ saved # Absent
  /\ Matches(x) /\ (~ Fixed(x) => saved.generator # Absent)
  /\ Accept(x)
  /\ IF Fixed(x) THEN UNCHANGED <<generator, seed>>
     ELSE /\ generator' = [generator EXCEPT ![x] = saved.generator]
          /\ seed' = [seed EXCEPT ![x] = saved.seed]
  /\ drawn' = [drawn EXCEPT ![x] = saved.drawn]
  /\ promised' = [promised EXCEPT ![x] = Absent]
  /\ UNCHANGED <<config, follows, saved>>

\* Mutant: the generator is set before the keys are compared.
RefuseAfterSeeding(x) ==
  /\ saved # Absent
  /\ ~ Matches(x)
  /\ answer' = "ValueError"
  /\ generator' = [generator EXCEPT ![x] = IF Fixed(x) \/ saved.generator = Absent THEN @ ELSE saved.generator]
  /\ UNCHANGED <<config, seed, drawn, trace, saved, promised>>

\* A key differs.
Refuse(x) ==
  /\ saved # Absent
  /\ ~ Matches(x)
  /\ answer' = "ValueError"
  /\ UNCHANGED <<object, trace, saved, promised>>

\* A random sampler reads state["generator"], which the state of the other kind lacks.
MissKey(x) ==
  /\ saved # Absent
  /\ Matches(x) /\ ~ Fixed(x) /\ saved.generator = Absent
  /\ answer' = "KeyError"
  /\ UNCHANGED <<object, trace, saved, promised>>

SamplersNext ==
  \E x \in Samplers :
    \/ NextBatch(x) \/ Preview(x) \/ Save(x)
    \/ Load(x) \/ Refuse(x) \/ MissKey(x)

SamplersSpec == SamplersInit /\ [][SamplersNext]_samplersVars

-----------------------------------------------------------------------------
(* Properties                                                              *)

\* A sampler that loads a state draws exactly what the sampler that saved it goes on to
\* draw, for as long as both draw (loader.py 42: same tokens, context length, batch size
\* and seed give the same sequence of batches), whatever previews and refused loads came
\* between.
ResumesTheSequence == IsPrefix(follows, replays) \/ IsPrefix(replays, follows)

\* A preview says what the next batch will be, however the sampler is used before it.
PreviewIsKept == \A x \in Samplers : promised[x] # Absent => Starts(x) = promised[x]
=============================================================================
