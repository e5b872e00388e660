--------------------------- MODULE Windows_proofs ----------------------------
(***************************************************************************)
(* Evaluation windows and samplers of any size.                            *)
(*                                                                         *)
(* Windows: every target is scored exactly once, in order, from the        *)
(* context generation would use; and for any documents, the sums of a      *)
(* report are sums over their targets.                                     *)
(*                                                                         *)
(* Samplers: in whatever order samplers draw, preview, save and load, one  *)
(* that loaded a state goes on as the one that saved it, and previews come *)
(* true.                                                                   *)
(***************************************************************************)
EXTENDS StreamEvaluation, WindowSamplers, InductionLemmas, TLAPS, FiniteSetTheorems

-----------------------------------------------------------------------------
(* Division                                                                *)

\* Division rounds down.
LEMMA DivBounds ==
  ASSUME NEW a \in Int, NEW s \in Nat \ {0}
  PROVE  /\ a \div s \in Int
         /\ s * (a \div s) <= a
         /\ a < s * (a \div s) + s
  OBVIOUS

\* Multiplication keeps the order.
LEMMA TimesMonotonic ==
  ASSUME NEW a \in Int, NEW b \in Int, NEW s \in Nat, a <= b
  PROVE  s * a <= s * b
<1>1. b - a >= 0 /\ s * (b - a) >= 0
  OBVIOUS
<1>2. s * (b - a) = s * b - s * a
  OBVIOUS
<1>3. s * a \in Int /\ s * b \in Int
  OBVIOUS
<1>4. QED
  BY <1>1, <1>2, <1>3

\* Rounding up lands on the only multiple of s in [x, x + s).
LEMMA CeilDivMultiple ==
  ASSUME NEW x \in Int, NEW s \in Nat \ {0}, NEW k \in Int,
         s * k - s < x, x <= s * k
  PROVE  CeilDiv(x, s) = k
<1> DEFINE q == (-x) \div s
<1>1. q \in Int /\ s * q <= -x /\ -x < s * q + s
  BY DivBounds
<1> HIDE DEF q
<1>2. /\ s * (-k) = -(s * k)
      /\ s * (-k + 1) = -(s * k) + s
      /\ s * (q + 1) = s * q + s
      /\ {s * k, s * q} \subseteq Int
  BY <1>1
<1>3. ~ (q >= -k + 1)
  <2> SUFFICES ASSUME q >= -k + 1 PROVE FALSE
    OBVIOUS
  <2>1. s * (-k + 1) <= s * q
    BY <1>1, TimesMonotonic
  <2>2. QED
    BY <1>1, <1>2, <2>1
<1>4. ~ (q + 1 <= -k)
  <2> SUFFICES ASSUME q + 1 <= -k PROVE FALSE
    OBVIOUS
  <2>1. s * (q + 1) <= s * (-k)
    BY <1>1, TimesMonotonic
  <2>2. QED
    BY <1>1, <1>2, <2>1
<1>5. q = -k
  BY <1>1, <1>3, <1>4
<1>6. QED
  BY <1>5 DEF CeilDiv, q

-----------------------------------------------------------------------------
\* A window the loop may produce: it keeps the run of targets from scoreFrom to its
\* end, and all of them belong to its context.
GoodWindow(w, n, c, s) ==
  /\ w \in Window
  /\ w.start < w.scoreFrom /\ w.scoreFrom < w.end /\ w.end <= n
  /\ w.end <= w.start + c + 1
  /\ \A t \in w.scoreFrom .. w.end - 1 :
       /\ ContextStart(t, c, s) = w.start
       /\ t - w.start >= Minimum(t, c - s + 1)

\* Where the loop stands: the window in hand starts a stride after the last one,
\* at a multiple of the stride, and scores from where the last one ended.
LoopInv ==
  ~ done =>
    /\ scoreFrom < nTokens
    /\ \/ /\ windows = <<>> /\ start = 0 /\ scoreFrom = 1
       \/ /\ windows # <<>>
          /\ windows[Len(windows)].end = scoreFrom
          /\ scoreFrom = start - stride + contextLength + 1
          /\ \E k \in Nat \ {0} : start = stride * k

Chained ==
  \A i \in DOMAIN windows :
    /\ GoodWindow(windows[i], nTokens, contextLength, stride)
    /\ windows[i].scoreFrom = IF i = 1 THEN 1 ELSE windows[i - 1].end

IInv ==
  /\ TypeOK
  /\ nTokens >= 2
  /\ Chained
  /\ LoopInv
  /\ done => windows # <<>> /\ windows[Len(windows)].end = nTokens

USE BoundsAssumption

\* The loop starts with no window.
LEMMA InitIInv == Init => IInv
<1> SUFFICES ASSUME Init PROVE IInv
  OBVIOUS
<1>1. contextLength \in Nat \ {0} /\ stride \in 1 .. contextLength
  <2>1. contextLength \in 1 .. MaxContext
    BY DEF Init
  <2>2. DefaultStride(contextLength) \in 1 .. contextLength
    BY <2>1 DEF DefaultStride
  <2>3. QED
    BY <2>1, <2>2 DEF Init, Strides
<1>2. windows = <<>> /\ nTokens \in Nat /\ nTokens >= 2
  BY DEF Init
<1>3. TypeOK
  <2>1. windows \in Seq(Window)
    BY <1>2
  <2>2. start \in Nat /\ scoreFrom \in Nat /\ done \in BOOLEAN
    BY DEF Init
  <2>3. QED
    BY <1>1, <1>2, <2>1, <2>2 DEF TypeOK
<1>4. Chained
  BY <1>2 DEF Chained
<1>5. LoopInv /\ done = FALSE
  BY <1>2 DEF Init, LoopInv
<1>6. QED
  BY <1>2, <1>3, <1>4, <1>5 DEF IInv

\* The window in hand is a good one.
LEMMA CurrentWindowGood ==
  ASSUME IInv, ~ done
  PROVE  GoodWindow([start |-> start, end |-> End, scoreFrom |-> scoreFrom],
                    nTokens, contextLength, stride)
<1>1. /\ nTokens \in Nat /\ contextLength \in Nat \ {0} /\ stride \in 1 .. contextLength
      /\ start \in Nat /\ scoreFrom \in Nat /\ scoreFrom < nTokens
  BY DEF IInv, TypeOK, LoopInv
<1>2. /\ End \in Nat /\ End <= nTokens /\ End <= start + contextLength + 1
      /\ End = nTokens \/ End = start + contextLength + 1
  BY <1>1 DEF End, Minimum
<1>4. start < scoreFrom /\ scoreFrom <= start + contextLength
  BY <1>1 DEF IInv, LoopInv
<1>5. scoreFrom < End
  BY <1>1, <1>2, <1>4
<1>6. ASSUME NEW t \in scoreFrom .. End - 1
      PROVE  /\ ContextStart(t, contextLength, stride) = start
             /\ t - start >= Minimum(t, contextLength - stride + 1)
  <2>1. t \in Nat /\ scoreFrom <= t /\ t <= start + contextLength
    BY <1>1, <1>2
  <2>2. CASE start = 0 /\ scoreFrom = 1
    BY <1>1, <2>1, <2>2 DEF ContextStart, Minimum
  <2>3. CASE windows # <<>>
    <3>1. PICK k \in Nat \ {0} : start = stride * k
      BY <2>3 DEF IInv, LoopInv
    <3>2. scoreFrom = start - stride + contextLength + 1
      BY <2>3 DEF IInv, LoopInv
    <3>3. stride * 1 <= stride * k
      BY <1>1, TimesMonotonic
    <3>4. start >= stride
      BY <1>1, <3>1, <3>3
    <3>5. t - contextLength >= 1
      BY <1>1, <2>1, <3>2, <3>4
    <3>6. CeilDiv(t - contextLength, stride) = k
      <4>1. stride * k - stride < t - contextLength /\ t - contextLength <= stride * k
        BY <1>1, <2>1, <3>1, <3>2
      <4>2. QED
        BY <1>1, <2>1, <4>1, CeilDivMultiple
    <3>7. ContextStart(t, contextLength, stride) = start
      BY <1>1, <2>1, <3>1, <3>5, <3>6 DEF ContextStart
    <3>8. t - start >= Minimum(t, contextLength - stride + 1)
      BY <1>1, <2>1, <3>2 DEF Minimum
    <3>9. QED
      BY <3>7, <3>8
  <2>4. QED
    BY <2>2, <2>3 DEF IInv, LoopInv
<1>7. QED
  BY <1>1, <1>2, <1>4, <1>5, <1>6 DEF GoodWindow, Window

\* Both kinds of step append the window in hand to the chain.
LEMMA AppendKeepsChain ==
  ASSUME IInv, ~ done, AddWindow, UNCHANGED <<nTokens, contextLength, stride>>
  PROVE  /\ windows' \in Seq(Window)
         /\ Chained'
         /\ windows' # <<>> /\ windows'[Len(windows')].end = End
<1> DEFINE w == [start |-> start, end |-> End, scoreFrom |-> scoreFrom]
<1>1. GoodWindow(w, nTokens, contextLength, stride)
  BY CurrentWindowGood
<1>2. w \in Window /\ windows \in Seq(Window)
  BY <1>1 DEF GoodWindow, IInv, TypeOK
<1>3. windows' = Append(windows, w)
  BY DEF AddWindow
<1>4. /\ windows' \in Seq(Window) /\ Len(windows') = Len(windows) + 1
      /\ windows'[Len(windows) + 1] = w
      /\ \A i \in 1 .. Len(windows) : windows'[i] = windows[i]
  BY <1>2, <1>3
<1>5. w.scoreFrom = IF Len(windows) + 1 = 1 THEN 1 ELSE windows[Len(windows)].end
  BY <1>2 DEF IInv, LoopInv
<1>7. ASSUME NEW i \in DOMAIN windows'
      PROVE  /\ GoodWindow(windows'[i], nTokens, contextLength, stride)
             /\ windows'[i].scoreFrom = IF i = 1 THEN 1 ELSE windows'[i - 1].end
  <2>1. CASE i \in 1 .. Len(windows)
    <3>1. /\ GoodWindow(windows[i], nTokens, contextLength, stride)
          /\ windows[i].scoreFrom = IF i = 1 THEN 1 ELSE windows[i - 1].end
      BY <1>2, <2>1 DEF IInv, Chained
    <3>2. i = 1 \/ i - 1 \in 1 .. Len(windows)
      BY <1>2, <2>1
    <3>3. QED
      BY <1>4, <2>1, <3>1, <3>2
  <2>2. CASE i = Len(windows) + 1
    <3>1. i = 1 \/ i - 1 \in 1 .. Len(windows)
      BY <1>2, <2>2
    <3>2. QED
      BY <1>1, <1>2, <1>4, <1>5, <2>2, <3>1
  <2>3. QED
    BY <1>2, <1>4, <2>1, <2>2
<1>8. QED
  BY <1>2, <1>4, <1>7 DEF Chained

\* One case per turn of the loop.
LEMMA StepIInv == IInv /\ [Next]_vars => IInv'
<1> SUFFICES ASSUME IInv, [Next]_vars PROVE IInv'
  OBVIOUS
<1>1. ASSUME LastWindow PROVE IInv'
  <2>1. /\ windows' \in Seq(Window) /\ Chained'
        /\ windows' # <<>> /\ windows'[Len(windows')].end = End
    BY <1>1, AppendKeepsChain DEF LastWindow
  <2>2. QED
    BY <1>1, <2>1 DEF LastWindow, IInv, TypeOK, LoopInv
<1>2. ASSUME NextWindow PROVE IInv'
  <2>1. /\ windows' \in Seq(Window) /\ Chained'
        /\ windows' # <<>> /\ windows'[Len(windows')].end = End
    BY <1>2, AppendKeepsChain DEF NextWindow
  <2>2. /\ nTokens \in Nat /\ contextLength \in Nat \ {0} /\ stride \in 1 .. contextLength
        /\ start \in Nat /\ scoreFrom \in Nat
    BY DEF IInv, TypeOK
  <2>3. End = start + contextLength + 1 /\ End < nTokens
    BY <1>2, <2>2 DEF NextWindow, End, Minimum
  <2>4. \E k \in Nat \ {0} : start' = stride * k
    <3>1. CASE start = 0
      <4>1. start' = stride * 1
        BY <1>2, <2>2, <3>1 DEF NextWindow
      <4>2. QED
        BY <4>1
    <3>2. CASE \E k \in Nat \ {0} : start = stride * k
      <4>1. PICK k \in Nat \ {0} : start = stride * k
        BY <3>2
      <4>2. stride * (k + 1) = stride * k + stride
        BY <2>2
      <4>3. start' = stride * (k + 1)
        BY <1>2, <4>1, <4>2 DEF NextWindow
      <4>4. QED
        BY <4>3
    <3>3. QED
      BY <1>2, <3>1, <3>2 DEF IInv, LoopInv, NextWindow
  <2>5. LoopInv'
    <3>1. /\ scoreFrom' = start' - stride' + contextLength' + 1
          /\ scoreFrom' < nTokens' /\ scoreFrom' = End
          /\ stride' = stride
      BY <1>2, <2>2, <2>3 DEF NextWindow
    <3>2. QED
      BY <2>1, <2>4, <3>1 DEF LoopInv
  <2>6. TypeOK'
    BY <1>2, <2>1, <2>2, <2>3 DEF NextWindow, IInv, TypeOK
  <2>7. QED
    BY <1>2, <2>1, <2>5, <2>6 DEF NextWindow, IInv
<1>3. ASSUME UNCHANGED vars PROVE IInv'
  BY <1>3 DEF vars, IInv, TypeOK, LoopInv, Chained, GoodWindow
<1>4. QED
  BY <1>1, <1>2, <1>3 DEF Next, Finished

\* Every state of the loop satisfies the inductive invariant.
THEOREM Invariance == Spec => []IInv
  BY InitIInv, StepIInv, PTL DEF Spec

\* The mask of window_examples keeps exactly the targets the window scores.
LEMMA KeptIsScored ==
  ASSUME NEW w \in Window, w.start < w.scoreFrom
  PROVE  KeptTargets(w) = w.scoreFrom .. w.end - 1
<1>1. {w.start, w.end, w.scoreFrom} \subseteq Nat
  BY DEF Window
<1>2. ASSUME NEW t \in w.scoreFrom .. w.end - 1 PROVE t \in KeptTargets(w)
  <2>1. t - (w.start + 1) \in ScoreOffset(w) .. w.end - w.start - 2
    BY <1>1 DEF ScoreOffset
  <2>2. t = w.start + 1 + (t - (w.start + 1))
    BY <1>1
  <2>3. QED
    BY <2>1, <2>2 DEF KeptTargets
<1>3. ASSUME NEW t \in KeptTargets(w) PROVE t \in w.scoreFrom .. w.end - 1
  BY <1>1 DEF KeptTargets, ScoreOffset
<1>4. QED
  BY <1>2, <1>3

\* Windows that chain score every target once, in order.
LEMMA ScoresOnce == IInv => ScoredOnceInOrder
<1> SUFFICES ASSUME IInv PROVE ScoredOnceInOrder
  OBVIOUS
<1>1. ASSUME NEW i \in DOMAIN windows
      PROVE  KeptTargets(windows[i]) = windows[i].scoreFrom .. windows[i].end - 1
  BY KeptIsScored DEF IInv, Chained, GoodWindow
<1>2. QED
  BY <1>1 DEF IInv, Chained, GoodWindow, ScoredOnceInOrder

\* Every target is scored once, in order, for every stream, context and stride.
THEOREM EveryTargetScoredOnce == Spec => []ScoredOnceInOrder
  BY ScoresOnce, Invariance, PTL

\* A window that is good starts where context_start says, at most context_length tokens
\* before the targets it scores.
LEMMA SameContext == IInv => SameContextAsGeneration
<1> SUFFICES ASSUME IInv, NEW i \in DOMAIN windows, NEW t \in KeptTargets(windows[i])
             PROVE  /\ ContextStart(t, contextLength, stride) = windows[i].start
                    /\ t - windows[i].start \in 1 .. contextLength
  BY DEF SameContextAsGeneration
<1>1. GoodWindow(windows[i], nTokens, contextLength, stride)
  BY DEF IInv, Chained
<1>2. t \in windows[i].scoreFrom .. windows[i].end - 1
  BY <1>1, KeptIsScored DEF GoodWindow
<1>3. /\ contextLength \in Nat /\ windows[i].start \in Nat /\ windows[i].end \in Nat
      /\ windows[i].scoreFrom \in Nat
  BY <1>1 DEF GoodWindow, Window, IInv, TypeOK
<1>4. QED
  BY <1>1, <1>2, <1>3 DEF GoodWindow

\* The window that scores a target starts where context_start says generation
\* starts, with at most context_length tokens before the target.
THEOREM WindowsAgreeWithGeneration == Spec => []SameContextAsGeneration
  BY SameContext, Invariance, PTL

\* No target is predicted from less context than the stride leaves.
THEOREM ContextNeverShort == Spec => []EnoughContext
<1>1. IInv => EnoughContext
  <2> SUFFICES ASSUME IInv, NEW i \in DOMAIN windows, NEW t \in KeptTargets(windows[i])
               PROVE  t - windows[i].start >= Minimum(t, contextLength - stride + 1)
    BY DEF EnoughContext
  <2>1. GoodWindow(windows[i], nTokens, contextLength, stride)
    BY DEF IInv, Chained
  <2>2. t \in windows[i].scoreFrom .. windows[i].end - 1
    BY <2>1, KeptIsScored DEF GoodWindow
  <2>3. QED
    BY <2>1, <2>2 DEF GoodWindow
<1>2. QED
  BY <1>1, Invariance, PTL

-----------------------------------------------------------------------------
(* Totals                                                                  *)

\* The documents of a call.
DocsInv ==
  /\ Len(docs) \in 1 .. MaxDocs
  /\ DOMAIN docs = 1 .. Len(docs)
  /\ \A d \in 1 .. Len(docs) : docs[d] \in Document

\* The targets of document d before position n.
Part(d, n) == {d} \X (1 .. n - 1)

\* The bytes of the token at a position of a document.
LEMMA ByteLengthType ==
  ASSUME NEW d \in DOMAIN docs, NEW t \in Nat, t <= MaxTokens - 1
  PROVE  ByteLengths[<<d, t>>] \in Nat
<1>1. t \in 0 .. MaxTokens - 1
  BY EvaluationAssumption
<1>2. ByteLengths[<<d, t>>] = IF docs[d].special THEN 0 ELSE t + 1
  BY <1>1 DEF ByteLengths
<1> QED
  BY <1>2

\* Totals of different targets add up to a total of all of them.
LEMMA PlusSums ==
  ASSUME DocsInv, NEW A \in SUBSET Target, NEW B \in SUBSET Target, A \cap B = {},
         \A x \in A \cup B : x[1] \in 1 .. Len(docs),
         NEW a, NEW b, SumsOf(a, A), SumsOf(b, B)
  PROVE  SumsOf(Plus(a, b), A \cup B)
<1>1. IsFiniteSet(A) /\ IsFiniteSet(B)
  <2>1. MaxDocs \in Int /\ MaxTokens - 1 \in Int
    BY EvaluationAssumption
  <2>2. IsFiniteSet(1 .. MaxDocs) /\ IsFiniteSet(1 .. MaxTokens - 1)
    BY <2>1, FS_Interval
  <2>3. IsFiniteSet(Target)
    BY <2>2, FS_Product DEF Target
  <2> QED
    BY <2>3, FS_Subset
<1>2. Cardinality(A \cup B) = Cardinality(A) + Cardinality(B)
  <2>1. Cardinality(A \cup B) = Cardinality(A) + Cardinality(B) - Cardinality(A \cap B)
    BY <1>1, FS_Union
  <2>2. Cardinality(A \cap B) = 0
    BY FS_EmptySet
  <2>3. Cardinality(A) \in Nat /\ Cardinality(B) \in Nat
    BY <1>1, FS_CardinalityType
  <2> QED
    BY <2>1, <2>2, <2>3
<1>3. Bytes(A \cup B) = Bytes(A) + Bytes(B)
  <2>1. ASSUME NEW x \in A \cup B PROVE ByteLengths[x] \in Nat
    <3>1. PICK d \in 1 .. MaxDocs, t \in 1 .. MaxTokens - 1 : x = <<d, t>>
      BY DEF Target
    <3>2. t \in Nat /\ t <= MaxTokens - 1
      BY EvaluationAssumption
    <3>3. d \in DOMAIN docs
      BY <3>1 DEF DocsInv
    <3>4. ByteLengths[<<d, t>>] \in Nat
      BY <3>2, <3>3, ByteLengthType
    <3> QED
      BY <3>1, <3>4
  <2> QED
    BY <1>1, <2>1, SumDisjoint DEF Bytes
<1>4. Plus(a, b).nats = [x \in Target |-> IF x \in A \cup B THEN 1 ELSE 0]
  <2>1. ASSUME NEW x \in Target
        PROVE  a.nats[x] + b.nats[x] = IF x \in A \cup B THEN 1 ELSE 0
    BY DEF SumsOf
  <2> QED
    BY <2>1 DEF Plus
<1> QED
  BY <1>2, <1>3, <1>4 DEF SumsOf, Plus

\* A call begins with the total of nothing.
LEMMA ZeroSums == SumsOf(Zero, {})
<1>1. Cardinality({}) = 0 /\ IsFiniteSet({})
  BY FS_EmptySet
<1>2. Bytes({}) = 0
  BY <1>1, SumStep DEF Bytes
<1> QED
  BY <1>1, <1>2 DEF SumsOf, Zero

\* A window's total is that of the targets it keeps.
LEMMA WindowSums ==
  ASSUME NEW w, NEW n \in Nat, n <= MaxTokens, NEW c, NEW s, GoodWindow(w, n, c, s),
         NEW d \in 1 .. MaxDocs, NEW finite
  PROVE  /\ SumsOf(WindowTotal(d, w, finite), {d} \X (w.scoreFrom .. w.end - 1))
<1> DEFINE K == w.scoreFrom .. w.end - 1
<1>1. w \in Window /\ w.start < w.scoreFrom /\ w.scoreFrom < w.end /\ w.end <= n
  BY DEF GoodWindow
<1>2. {w.start, w.scoreFrom, w.end} \subseteq Nat
  BY <1>1 DEF Window
<1>3. KeptTargets(w) = K
  BY <1>1, KeptIsScored
<1>4. Cardinality({d} \X K) = Cardinality(K)
  <2>0. w.scoreFrom \in Int /\ w.end - 1 \in Int
    BY <1>2
  <2>1. IsFiniteSet(K)
    BY <2>0, FS_Interval
  <2>2. IsFiniteSet({d}) /\ Cardinality({d}) = 1
    BY FS_Singleton
  <2>3. Cardinality(K) \in Nat
    BY <2>1, FS_CardinalityType
  <2> HIDE DEF K
  <2>4. Cardinality({d} \X K) = 1 * Cardinality(K)
    BY <2>1, <2>2, FS_Product
  <2> QED
    BY <2>3, <2>4
<1>5. WindowTotal(d, w, finite).nats = [x \in Target |-> IF x \in {d} \X K THEN 1 ELSE 0]
  <2>1. ASSUME NEW x \in Target PROVE (x[1] = d /\ x[2] \in K) <=> x \in {d} \X K
    BY DEF Target
  <2> HIDE DEF K
  <2> QED
    BY <1>3, <2>1 DEF WindowTotal
<1> QED
  BY <1>3, <1>4, <1>5 DEF SumsOf, WindowTotal

-----------------------------------------------------------------------------
(* The documents of a call                                                 *)

\* The windows are cut from a stream that has targets, or there are none.
WindowsInv ==
  /\ contextLength \in Nat \ {0} /\ stride \in 1 .. contextLength
  /\ nTokens \in Nat /\ nTokens <= MaxTokens
  /\ IF nTokens >= 2 THEN IInv ELSE windows = <<>> /\ ~ done

\* Where the next window begins to score.
Upto == IF next = 1 THEN 1 ELSE windows[next - 1].end

\* The total is that of the windows scored so far.
DocumentInv ==
  /\ doc \in 1 .. Len(docs) + 1
  /\ pc \in {"windows", "score"} => doc <= Len(docs) /\ nTokens = docs[doc].tokens
  /\ pc = "windows" => next = 1 /\ total = Zero /\ ~ done
  /\ pc = "score" => /\ nTokens >= 2 /\ done
                     /\ next \in 1 .. Len(windows) + 1
                     /\ SumsOf(total, Part(doc, Upto))

OfCategory(targets, c) == {x \in targets : docs[x[1]].category = c}

\* The sums of the report are those of the finished documents, and their categories are
\* all there.
ReportInv ==
  /\ SumsAgree
  /\ \A x \in TargetsBefore(doc) : docs[x[1]].category \in DOMAIN byCategory

EvaluationInv == DocsInv /\ WindowsInv /\ DocumentInv /\ ReportInv

\* While the documents stay, so do the sums of their targets.
LEMMA SumsStay ==
  ASSUME docs' = docs
  PROVE  /\ \A t, A : SumsOf(t, A)' <=> SumsOf(t, A)
         /\ \A n : TargetsBefore(n)' = TargetsBefore(n)
         /\ \A A, c : OfCategory(A, c)' = OfCategory(A, c)
<1>1. ByteLengths' = ByteLengths
  BY DEF ByteLengths
<1>2. \A A : Bytes(A)' = Bytes(A)
  BY <1>1 DEF Bytes
<1>3. \A t, A : SumsOf(t, A)' <=> SumsOf(t, A)
  BY <1>2 DEF SumsOf
<1> QED
  BY <1>3 DEF TargetsBefore, OfCategory

\* The report is kept by a step that finishes no document.
LEMMA ReportStays ==
  ASSUME ReportInv, docs' = docs, overall' = overall, byCategory' = byCategory, doc' = doc
  PROVE  ReportInv'
<1>1. TargetsBefore(doc)' = TargetsBefore(doc)
  BY SumsStay
<1> QED
  BY <1>1, SumsStay DEF ReportInv, SumsAgree, OfCategory

-----------------------------------------------------------------------------
(* Every step of the evaluation                                            *)

\* The call begins with its documents, and no window.
LEMMA EvaluationInitHolds == EvaluationInit => EvaluationInv
<1> SUFFICES ASSUME EvaluationInit PROVE EvaluationInv
  OBVIOUS
<1>1. DocsInv
  <2>1. PICK n \in 1 .. MaxDocs : docs \in [1 .. n -> Document]
    BY DEF EvaluationInit
  <2>2. DOMAIN docs = 1 .. n /\ Len(docs) = n
    BY <2>1
  <2> QED
    BY <2>1, <2>2 DEF DocsInv
<1>2. WindowsInv
  <2>1. contextLength \in 1 .. MaxContext
    BY DEF EvaluationInit
  <2>2. DefaultStride(contextLength) \in 1 .. contextLength
    BY <2>1 DEF DefaultStride
  <2>3. contextLength \in Nat \ {0} /\ stride \in 1 .. contextLength
    BY <2>1, <2>2 DEF EvaluationInit, Strides
  <2> QED
    BY <2>3 DEF EvaluationInit, WindowsInv
<1>3. DocumentInv
  BY <1>1 DEF EvaluationInit, DocumentInv, DocsInv
<1>4. ReportInv
  <2>1. TargetsBefore(doc) = {}
    BY DEF TargetsBefore, Target, EvaluationInit
  <2>2. overall = Zero /\ DOMAIN byCategory = {}
    BY DEF EvaluationInit
  <2> QED
    BY <2>1, <2>2, ZeroSums DEF ReportInv, SumsAgree
<1> QED
  BY <1>1, <1>2, <1>3, <1>4 DEF EvaluationInv

\* The invariant of the loop is kept while its variables are.
LEMMA LoopStays ==
  ASSUME IInv, vars' = vars
  PROVE  IInv'
  BY StepIInv

\* A document begins with no window and the total of nothing.
LEMMA BeginKeeps ==
  ASSUME EvaluationInv, BeginDocument
  PROVE  EvaluationInv'
<1>1. doc \in 1 .. Len(docs) /\ docs[doc] \in Document
  BY DEF EvaluationInv, DocsInv, DocumentInv, BeginDocument
<1>2. docs[doc].tokens \in Nat /\ docs[doc].tokens <= MaxTokens
  BY <1>1, EvaluationAssumption DEF Document
<1>3. /\ nTokens' = docs[doc].tokens /\ contextLength' = contextLength /\ stride' = stride
      /\ start' = 0 /\ scoreFrom' = 1 /\ windows' = <<>> /\ done' = FALSE
      /\ docs' = docs /\ doc' = doc /\ next' = 1 /\ total' = Zero /\ pc' = "windows"
      /\ overall' = overall /\ byCategory' = byCategory
  BY DEF BeginDocument
<1>4. DocsInv'
  BY <1>3 DEF EvaluationInv, DocsInv
<1>5. WindowsInv'
  <2>1. contextLength \in Nat \ {0} /\ stride \in 1 .. contextLength
    BY DEF EvaluationInv, WindowsInv
  <2>2. ASSUME nTokens' >= 2 PROVE IInv'
    <3>1. TypeOK'
      <4>1. windows' \in Seq(Window)
        BY <1>3
      <4>2. start' \in Nat /\ scoreFrom' \in Nat /\ done' \in BOOLEAN /\ nTokens' \in Nat
        BY <1>2, <1>3
      <4> QED
        BY <1>3, <2>1, <4>1, <4>2 DEF TypeOK
    <3>2. Chained'
      BY <1>3 DEF Chained
    <3>3. LoopInv'
      BY <1>2, <1>3, <2>2 DEF LoopInv
    <3> QED
      BY <1>3, <2>2, <3>1, <3>2, <3>3 DEF IInv
  <2> QED
    BY <1>2, <1>3, <2>1, <2>2 DEF WindowsInv
<1>6. DocumentInv'
  <2>1. doc' \in 1 .. Len(docs') + 1 /\ doc' <= Len(docs')
    BY <1>1, <1>3 DEF EvaluationInv, DocsInv
  <2> QED
    BY <1>3, <2>1, ZeroSums DEF DocumentInv, Zero
<1>7. ReportInv'
  BY <1>3, ReportStays DEF EvaluationInv
<1> QED
  BY <1>4, <1>5, <1>6, <1>7 DEF EvaluationInv

\* One more turn of the loop; the last one leads to the scoring of the first window.
LEMMA CutKeeps ==
  ASSUME EvaluationInv, CutWindow
  PROVE  EvaluationInv'
<1>1. /\ nTokens' = nTokens /\ contextLength' = contextLength /\ stride' = stride
      /\ docs' = docs /\ doc' = doc /\ next' = next /\ total' = total
      /\ overall' = overall /\ byCategory' = byCategory
      /\ pc = "windows" /\ nTokens >= 2 /\ pc' = (IF done' THEN "score" ELSE pc)
  BY DEF CutWindow, NextWindow, LastWindow, sums, call
<1>2. IInv'
  <2>1. IInv
    BY <1>1 DEF EvaluationInv, WindowsInv
  <2>2. [Next]_vars
    BY DEF CutWindow, Next
  <2> QED
    BY <2>1, <2>2, StepIInv
<1>3. DocsInv'
  BY <1>1 DEF EvaluationInv, DocsInv
<1>4. WindowsInv'
  BY <1>1, <1>2 DEF EvaluationInv, WindowsInv
<1>5. DocumentInv'
  <2>1. doc' \in 1 .. Len(docs') + 1 /\ doc' <= Len(docs') /\ nTokens' = docs'[doc'].tokens
    BY <1>1 DEF EvaluationInv, DocumentInv
  <2>2. next' = 1 /\ total' = Zero /\ ~ done
    BY <1>1 DEF EvaluationInv, DocumentInv
  <2>3. done' \in BOOLEAN /\ Len(windows') \in Nat
    BY <1>2 DEF IInv, TypeOK
  <2>4. Zero' = Zero
    BY DEF Zero
  <2>5. SumsOf(total, Part(doc, Upto))'
    <3>1. Part(doc', 1) = {}
      BY DEF Part
    <3>2. Upto' = 1
      BY <2>2 DEF Upto
    <3>3. SumsOf(Zero, {})'
      BY <1>1, SumsStay, ZeroSums
    <3> QED
      BY <2>2, <2>4, <3>1, <3>2, <3>3 DEF Part
  <2>6. 1 \in 1 .. Len(windows') + 1
    BY <2>3
  <2> QED
    BY <1>1, <2>1, <2>2, <2>3, <2>4, <2>5, <2>6 DEF DocumentInv
<1>6. ReportInv'
  BY <1>1, ReportStays DEF EvaluationInv
<1> QED
  BY <1>3, <1>4, <1>5, <1>6 DEF EvaluationInv

\* A window scored joins the total of its document.
LEMMA ScoreKeeps ==
  ASSUME EvaluationInv, ScoreWindow
  PROVE  EvaluationInv'
<1>1. /\ vars' = vars /\ docs' = docs /\ doc' = doc /\ pc' = pc /\ next' = next + 1
      /\ overall' = overall /\ byCategory' = byCategory
      /\ pc = "score" /\ next <= Len(windows)
  BY DEF ScoreWindow, call
<1>2. nTokens' = nTokens /\ contextLength' = contextLength /\ stride' = stride
      /\ start' = start /\ scoreFrom' = scoreFrom /\ windows' = windows /\ done' = done
  BY <1>1 DEF vars
<1>3. /\ nTokens >= 2 /\ done /\ next \in 1 .. Len(windows) + 1
      /\ SumsOf(total, Part(doc, Upto)) /\ doc \in 1 .. Len(docs)
      /\ nTokens = docs[doc].tokens
  BY <1>1 DEF EvaluationInv, DocumentInv
<1>4. IInv /\ windows \in Seq(Window) /\ nTokens \in Nat /\ nTokens <= MaxTokens
  BY <1>3 DEF EvaluationInv, WindowsInv, IInv, TypeOK
<1>5. next \in 1 .. Len(windows) /\ next \in Nat
  BY <1>1, <1>3, <1>4
<1> DEFINE w == windows[next]
           new == {doc} \X (w.scoreFrom .. w.end - 1)
<1>6. GoodWindow(w, nTokens, contextLength, stride) /\ w.scoreFrom = Upto
  BY <1>4, <1>5 DEF IInv, Chained, Upto
<1>7. w.scoreFrom \in Nat /\ w.end \in Nat /\ w.scoreFrom < w.end /\ w.end <= nTokens
      /\ w.scoreFrom >= 1
  BY <1>6 DEF GoodWindow, Window
<1>8. doc \in 1 .. MaxDocs /\ doc \in 1 .. Len(docs)
  BY <1>3, EvaluationAssumption DEF EvaluationInv, DocsInv
<1>9. PICK finite \in BOOLEAN : total' = Plus(total, WindowTotal(doc, w, finite))
  BY DEF ScoreWindow
<1>10. SumsOf(WindowTotal(doc, w, finite), new)
  BY <1>4, <1>6, <1>8, WindowSums
<1>11. /\ Part(doc, Upto) \cap new = {}
       /\ Part(doc, Upto) \cup new = Part(doc, w.end)
  <2>1. (1 .. Upto - 1) \cap (w.scoreFrom .. w.end - 1) = {}
    BY <1>6, <1>7
  <2>2. (1 .. Upto - 1) \cup (w.scoreFrom .. w.end - 1) = 1 .. w.end - 1
    BY <1>6, <1>7
  <2> QED
    BY <2>1, <2>2 DEF Part
<1>12. Part(doc, Upto) \in SUBSET Target /\ new \in SUBSET Target
       /\ \A x \in Part(doc, Upto) \cup new : x[1] \in 1 .. Len(docs)
  <2>1. 1 .. w.end - 1 \subseteq 1 .. MaxTokens - 1
    BY <1>4, <1>7, EvaluationAssumption
  <2>2. {doc} \X (1 .. w.end - 1) \subseteq Target
    BY <1>8, <2>1 DEF Target
  <2>3. \A x \in {doc} \X (1 .. w.end - 1) : x[1] \in 1 .. Len(docs)
    BY <1>8
  <2> QED
    BY <1>11, <2>2, <2>3 DEF Part
<1>13. SumsOf(total', Part(doc, w.end))
  <2> HIDE DEF w, new
  <2> QED
    BY <1>3, <1>9, <1>10, <1>11, <1>12, PlusSums DEF EvaluationInv
<1>14. SumsOf(total, Part(doc, Upto))'
  <2>1. Upto' = w.end
    BY <1>1, <1>2, <1>5 DEF Upto
  <2>2. Part(doc, Upto)' = Part(doc, w.end)
    BY <1>1, <2>1 DEF Part
  <2> HIDE DEF w
  <2>3. Bytes(Part(doc, w.end)) = Bytes(Part(doc, Upto))'
    BY <1>1, <2>2 DEF Bytes, ByteLengths
  <2> QED
    BY <1>13, <2>2, <2>3 DEF SumsOf
<1>15. DocsInv'
  BY <1>1 DEF EvaluationInv, DocsInv
<1>16. WindowsInv'
  BY <1>1, <1>2, <1>3, <1>4, LoopStays DEF EvaluationInv, WindowsInv
<1>17. DocumentInv'
  BY <1>1, <1>2, <1>3, <1>5, <1>14 DEF EvaluationInv, DocumentInv
<1>18. ReportInv'
  BY <1>1, ReportStays DEF EvaluationInv
<1> QED
  BY <1>15, <1>16, <1>17, <1>18 DEF EvaluationInv

\* The targets before the next document are those before this one and its own.
LEMMA TargetsOfNext ==
  ASSUME DocsInv, NEW d \in 1 .. Len(docs)
  PROVE  /\ TargetsBefore(d + 1) = TargetsBefore(d) \cup Part(d, docs[d].tokens)
         /\ TargetsBefore(d) \cap Part(d, docs[d].tokens) = {}
         /\ \A x \in TargetsBefore(d + 1) : x[1] \in 1 .. Len(docs)
<1>1. docs[d].tokens \in Nat /\ docs[d].tokens <= MaxTokens /\ d \in Nat /\ d <= MaxDocs
  BY EvaluationAssumption DEF DocsInv, Document
<1>2. ASSUME NEW x \in Target
      PROVE  /\ x[1] \in Nat /\ x[1] >= 1 /\ x[2] \in Nat /\ x[2] >= 1
             /\ x = <<x[1], x[2]>>
  BY DEF Target
<1>3. ASSUME NEW x \in Target
      PROVE  x \in Part(d, docs[d].tokens) <=> x[1] = d /\ x[2] < docs[d].tokens
  <2>1. x[2] \in 1 .. docs[d].tokens - 1 <=> x[2] < docs[d].tokens
    BY <1>1, <1>2
  <2>2. x \in {d} \X (1 .. docs[d].tokens - 1)
          <=> x[1] = d /\ x[2] \in 1 .. docs[d].tokens - 1
    BY <1>2
  <2> QED
    BY <2>1, <2>2 DEF Part
<1>4. Part(d, docs[d].tokens) \subseteq Target
  <2>1. d \in 1 .. MaxDocs /\ 1 .. docs[d].tokens - 1 \subseteq 1 .. MaxTokens - 1
    BY <1>1, EvaluationAssumption
  <2> QED
    BY <2>1 DEF Part, Target
<1>5. ASSUME NEW x \in Target
      PROVE  x[1] < d + 1 <=> x[1] < d \/ x[1] = d
  BY <1>1, <1>2
<1>6. ASSUME NEW x \in Target
      PROVE  /\ x \in TargetsBefore(d + 1)
                  <=> x \in TargetsBefore(d) \/ x \in Part(d, docs[d].tokens)
             /\ x \in TargetsBefore(d) => x[1] < d
  BY <1>3, <1>5 DEF TargetsBefore
<1>7. TargetsBefore(d + 1) \subseteq Target /\ TargetsBefore(d) \subseteq Target
  BY DEF TargetsBefore
<1>8. ASSUME NEW x \in TargetsBefore(d + 1) PROVE x[1] \in 1 .. Len(docs)
  <2>1. x \in Target /\ x[1] < d + 1
    BY DEF TargetsBefore
  <2> QED
    BY <1>2, <2>1 DEF DocsInv
<1>9. TargetsBefore(d) \cap Part(d, docs[d].tokens) = {}
  BY <1>1, <1>3, <1>6, <1>7
<1> QED
  BY <1>4, <1>6, <1>7, <1>8, <1>9

\* The last window ends with the stream.
LEMMA WholeDocumentScored ==
  ASSUME EvaluationInv, pc = "score", next > Len(windows)
  PROVE  /\ doc \in 1 .. Len(docs)
         /\ SumsOf(total, Part(doc, docs[doc].tokens))
<1>1. /\ nTokens >= 2 /\ done /\ next \in 1 .. Len(windows) + 1
      /\ SumsOf(total, Part(doc, Upto)) /\ doc \in 1 .. Len(docs)
      /\ nTokens = docs[doc].tokens
  BY DEF EvaluationInv, DocumentInv
<1>2. IInv /\ windows \in Seq(Window)
  BY <1>1 DEF EvaluationInv, WindowsInv, IInv, TypeOK
<1>3. windows # <<>> /\ windows[Len(windows)].end = nTokens
  BY <1>1, <1>2 DEF IInv
<1>4. Len(windows) \in Nat /\ Len(windows) # 0
  BY <1>2, <1>3
<1>5. next = Len(windows) + 1
  BY <1>1, <1>4
<1>6. next # 1 /\ next - 1 = Len(windows)
  BY <1>4, <1>5
<1>7. Upto = nTokens
  BY <1>3, <1>6 DEF Upto
<1> QED
  BY <1>1, <1>7

\* The totals of a document join the overall ones and those of its category.
LEMMA FinishKeeps ==
  ASSUME EvaluationInv, FinishDocument
  PROVE  EvaluationInv'
<1> DEFINE c == docs[doc].category
           old == TargetsBefore(doc)
           own == Part(doc, docs[doc].tokens)
           before == IF c \in DOMAIN byCategory THEN byCategory[c] ELSE Zero
<1>1. /\ vars' = vars /\ docs' = docs /\ doc' = doc + 1 /\ pc' = "document"
      /\ overall' = Plus(overall, total)
      /\ byCategory' = [x \in DOMAIN byCategory \cup {c} |->
                          IF x = c THEN Plus(before, total) ELSE byCategory[x]]
      /\ pc = "score" /\ next > Len(windows)
  BY DEF FinishDocument, call
<1>2. doc \in 1 .. Len(docs) /\ SumsOf(total, own)
  BY <1>1, WholeDocumentScored
<1>3. /\ TargetsBefore(doc + 1) = old \cup own
      /\ old \cap own = {}
      /\ \A x \in old \cup own : x[1] \in 1 .. Len(docs)
      /\ old \in SUBSET Target /\ own \in SUBSET Target
  <2>1. TargetsBefore(doc + 1) = old \cup own /\ old \cap own = {}
        /\ \A x \in TargetsBefore(doc + 1) : x[1] \in 1 .. Len(docs)
    BY <1>2, TargetsOfNext DEF EvaluationInv
  <2>2. TargetsBefore(doc + 1) \subseteq Target
    BY DEF TargetsBefore
  <2> HIDE DEF old, own
  <2> QED
    BY <2>1, <2>2
<1>4. \A x \in own : docs[x[1]].category = c
  BY DEF Part
<1>5. ReportInv /\ DocsInv
  BY DEF EvaluationInv
<1> HIDE DEF own
<1>6. SumsOf(Plus(overall, total), old \cup own)
  <2>1. SumsOf(overall, old)
    BY <1>5 DEF ReportInv, SumsAgree
  <2> HIDE DEF old
  <2> QED
    BY <1>2, <1>3, <1>5, <2>1, PlusSums
<1>7. SumsOf(before, OfCategory(old, c))
  <2>1. CASE c \in DOMAIN byCategory
    BY <1>5, <2>1 DEF ReportInv, SumsAgree, OfCategory
  <2>2. CASE c \notin DOMAIN byCategory
    <3>1. OfCategory(old, c) = {}
      BY <1>5, <2>2 DEF ReportInv, OfCategory
    <3> QED
      BY <2>2, <3>1, ZeroSums
  <2> QED
    BY <2>1, <2>2
<1>8. SumsOf(Plus(before, total), OfCategory(old \cup own, c))
  <2> DEFINE mine == OfCategory(old, c)
  <2>1. mine \in SUBSET Target /\ mine \cap own = {}
        /\ \A x \in mine \cup own : x[1] \in 1 .. Len(docs)
    BY <1>3 DEF OfCategory
  <2>2. OfCategory(old \cup own, c) = mine \cup own
    BY <1>4 DEF OfCategory
  <2>3. SumsOf(before, mine)
    BY <1>7
  <2> HIDE DEF mine, before, c, old
  <2>4. SumsOf(Plus(before, total), mine \cup own)
    BY <1>2, <1>3, <1>5, <2>1, <2>3, PlusSums
  <2> QED
    BY <2>2, <2>4
<1>9. ASSUME NEW x \in DOMAIN byCategory'
      PROVE  SumsOf(byCategory'[x], OfCategory(old \cup own, x))
  <2>1. CASE x = c
    BY <1>1, <1>8, <2>1
  <2>2. CASE x # c
    <3>1. x \in DOMAIN byCategory /\ byCategory'[x] = byCategory[x]
      BY <1>1, <2>2
    <3>2. SumsOf(byCategory[x], OfCategory(old, x))
      BY <1>5, <3>1 DEF ReportInv, SumsAgree, OfCategory
    <3>3. OfCategory(old \cup own, x) = OfCategory(old, x)
      BY <1>4, <2>2 DEF OfCategory
    <3> QED
      BY <3>1, <3>2, <3>3
  <2> QED
    BY <2>1, <2>2
<1>10. ASSUME NEW x \in old \cup own PROVE docs[x[1]].category \in DOMAIN byCategory'
  <2>1. DOMAIN byCategory' = DOMAIN byCategory \cup {c}
    BY <1>1
  <2>2. x \in old => docs[x[1]].category \in DOMAIN byCategory
    BY <1>5 DEF ReportInv
  <2> QED
    BY <1>4, <2>1, <2>2
<1>11. /\ TargetsBefore(doc)' = old \cup own
       /\ \A t, A : SumsOf(t, A)' <=> SumsOf(t, A)
       /\ \A A, x : OfCategory(A, x)' = OfCategory(A, x)
  <2>1. \A n : TargetsBefore(n)' = TargetsBefore(n)
    BY <1>1, SumsStay
  <2>2. TargetsBefore(doc)' = TargetsBefore(doc + 1)
    BY <1>1 DEF TargetsBefore
  <2> QED
    BY <1>1, <1>3, <2>2, SumsStay
<1>12. ReportInv'
  BY <1>1, <1>6, <1>9, <1>10, <1>11 DEF ReportInv, SumsAgree, OfCategory
<1>13. DocsInv'
  BY <1>1, <1>5 DEF DocsInv
<1>14. WindowsInv'
  BY <1>1, LoopStays DEF EvaluationInv, WindowsInv, vars
<1>15. DocumentInv'
  BY <1>1, <1>2, <1>5 DEF DocumentInv, DocsInv
<1> QED
  BY <1>12, <1>13, <1>14, <1>15 DEF EvaluationInv

\* Whatever leaves the documents, the windows and the sums alone keeps the invariant.
LEMMA OthersKeep ==
  ASSUME EvaluationInv, vars' = vars, docs' = docs, sums' = sums, doc' = doc, next' = next,
         pc' = pc \/ pc' \in {"raised", "returned"}
  PROVE  EvaluationInv'
<1>1. total' = total /\ overall' = overall /\ byCategory' = byCategory
  BY DEF sums
<1>2. nTokens' = nTokens /\ contextLength' = contextLength /\ stride' = stride
      /\ windows' = windows /\ done' = done
  BY DEF vars
<1>3. DocsInv'
  BY DEF EvaluationInv, DocsInv
<1>4. WindowsInv'
  BY <1>2, LoopStays DEF EvaluationInv, WindowsInv
<1>5. SumsOf(total, Part(doc, Upto))' <=> SumsOf(total, Part(doc, Upto))
  <2>1. Part(doc, Upto)' = Part(doc, Upto)
    BY <1>2 DEF Part, Upto
  <2>2. Bytes(Part(doc, Upto))' = Bytes(Part(doc, Upto))
    BY <2>1 DEF Bytes, ByteLengths
  <2> QED
    BY <1>1, <2>1, <2>2 DEF SumsOf
<1>6. DocumentInv'
  BY <1>1, <1>2, <1>5 DEF EvaluationInv, DocumentInv, Zero
<1>7. ReportInv'
  BY <1>1, ReportStays DEF EvaluationInv
<1> QED
  BY <1>3, <1>4, <1>6, <1>7 DEF EvaluationInv

\* Every state of an evaluation satisfies the inductive invariant.
THEOREM EvaluationInvariance == EvaluationSpec => []EvaluationInv
<1>1. EvaluationInv /\ [EvaluationNext]_evaluationVars => EvaluationInv'
  <2> SUFFICES ASSUME EvaluationInv, [EvaluationNext]_evaluationVars PROVE EvaluationInv'
    OBVIOUS
  <2>1. CASE BeginDocument
    BY <2>1, BeginKeeps
  <2>2. CASE TooShort
    BY <2>2, OthersKeep DEF TooShort, Raise, call
  <2>3. CASE CutWindow
    BY <2>3, CutKeeps
  <2>4. CASE ScoreWindow
    BY <2>4, ScoreKeeps
  <2>5. CASE ForwardFails
    BY <2>5, OthersKeep DEF ForwardFails, Raise, call
  <2>6. CASE FinishDocument
    BY <2>6, FinishKeeps
  <2>7. CASE Report
    <3>1. pc' \in {"raised", "returned"}
      BY <2>7 DEF Report
    <3> QED
      BY <2>7, <3>1, OthersKeep DEF Report, call
  <2>8. CASE Ended \/ UNCHANGED evaluationVars
    BY <2>8, OthersKeep DEF Ended, evaluationVars, call
  <2> QED
    BY <2>1, <2>2, <2>3, <2>4, <2>5, <2>6, <2>7, <2>8 DEF EvaluationNext
<1> QED
  BY <1>1, EvaluationInitHolds, PTL DEF EvaluationSpec

\* The overall sums and those of each category hold every target of the finished
\* documents exactly once (perplexity.py 13-15), whatever windows cut them.
THEOREM SumsTheorem == EvaluationSpec => []SumsAgree
<1>1. EvaluationInv => SumsAgree
  BY DEF EvaluationInv, ReportInv
<1> QED
  BY <1>1, EvaluationInvariance, PTL

\* In an evaluation, too, a document's windows score every target once, in order.
THEOREM EvaluationScoresOnce == EvaluationSpec => []ScoredOnceInOrder
<1>1. ASSUME EvaluationInv PROVE ScoredOnceInOrder
  <2>1. CASE IInv
    BY <2>1, ScoresOnce
  <2>2. CASE ~ IInv
    <3>1. windows = <<>> /\ ~ done
      BY <1>1, <2>2 DEF EvaluationInv, WindowsInv
    <3> QED
      BY <3>1 DEF ScoredOnceInOrder
  <2> QED
    BY <2>1, <2>2
<1> QED
  BY <1>1, EvaluationInvariance, PTL

\* In an evaluation, too, a target is scored in the context generation would use for it.
THEOREM EvaluationContext == EvaluationSpec => []SameContextAsGeneration
<1>1. ASSUME EvaluationInv PROVE SameContextAsGeneration
  <2>1. CASE IInv
    BY <2>1, SameContext
  <2>2. CASE ~ IInv
    <3>1. windows = <<>>
      BY <1>1, <2>2 DEF EvaluationInv, WindowsInv
    <3> QED
      BY <3>1 DEF SameContextAsGeneration
  <2> QED
    BY <2>1, <2>2
<1> QED
  BY <1>1, EvaluationInvariance, PTL

-----------------------------------------------------------------------------
(* Samplers: the states that carry them over a restart                     *)

HIDE BoundsAssumption

Configs == RandomConfig \cup FixedConfig
Generators == (Seeds \cup {Absent}) \X Nat

\* The k-th batch that follows the saved state, from the state alone.
Sequel(k) ==
  IF saved.kind = "fixed_windows"
    THEN << [j \in 1 .. WindowCount(saved.tokens, saved.context, saved.stride) |-> (j - 1) * saved.stride],
            CHOOSE t \in Streams : t.id = saved.sha256 >>
    ELSE << << <<saved.generator[1], saved.generator[2] + (k - 1)>>,
               saved.tokens - saved.context - 1, saved.batch >> >>

Sequels == {Sequel(k) : k \in Nat \ {0}}

\* Sampler x is n batches behind the saved state.
Standing(x, n) ==
  /\ x \in Samplers
  /\ Matches(x)
  /\ ~ Fixed(x) => /\ saved.kind = Absent /\ saved.generator \in Generators
                   /\ generator[x] = <<saved.generator[1], saved.generator[2] + n>>

SamplersTypeInv ==
  /\ config \in [Samplers -> Configs]
  /\ generator \in [Samplers -> Generators]
  /\ DOMAIN promised = Samplers
  /\ follows \in Seq(Sequels)
  /\ replays \in Seq(Sequels)

\* A saved state has a generator unless its kind says that it needs none.
SavedInv ==
  saved # Absent =>
    \/ saved.kind = "fixed_windows" /\ saved.generator = Absent
    \/ saved.kind = Absent /\ saved.generator \in Generators

\* What was drawn since the save is the sequel, and its drawer stands where it ends.
Continues(drawer, batches) ==
  /\ \A k \in 1 .. Len(batches) : batches[k] = Sequel(k)
  /\ drawer # Absent => Standing(drawer, Len(batches))

SamplersInv ==
  /\ SamplersTypeInv /\ SavedInv
  /\ Continues(saver, follows) /\ Continues(resumed, replays)
  /\ PreviewIsKept

-----------------------------------------------------------------------------
\* Every configuration has a stream and a seed, or none.
LEMMA ConfigFields ==
  ASSUME NEW f \in Configs
  PROVE  f.stream \in Streams /\ f.seed \in Seeds \cup {Absent} /\ f.kind \in {"random", "fixed_windows"}
BY DEF Configs, RandomConfig, FixedConfig, FixedWindows

\* The next batch of a sampler that stands n batches behind the state is the sequel's.
LEMMA NextIsSequel ==
  ASSUME SamplersTypeInv, NEW x, NEW n \in Nat, Standing(x, n)
  PROVE  Given(x) = Sequel(n + 1)
<1>1. config[x] \in Configs
  BY DEF SamplersTypeInv, Standing
<1>2. config[x].stream \in Streams
  BY <1>1, ConfigFields
<1>3. CASE Fixed(x)
  <2>1. /\ saved.kind = "fixed_windows" /\ saved.stride = config[x].stride
        /\ saved.sha256 = config[x].stream.id /\ saved.context = config[x].context
        /\ saved.tokens = config[x].stream.tokens
    BY <1>3 DEF Standing, Matches, SameShape, Fixed
  <2>2. (CHOOSE t \in Streams : t.id = saved.sha256) = config[x].stream
    BY <2>1, <1>2, DigestAssumption
  <2>3. Given(x) = <<FixedStarts(config[x]), config[x].stream>>
    BY <1>3 DEF Given, Starts
  <2> QED
    BY <2>1, <2>2, <2>3 DEF Sequel, FixedStarts
<1>4. CASE ~ Fixed(x)
  <2>1. /\ saved.kind = Absent /\ generator[x] = <<saved.generator[1], saved.generator[2] + n>>
        /\ saved.context = config[x].context /\ saved.tokens = config[x].stream.tokens
        /\ saved.batch = config[x].batch
    BY <1>4 DEF Standing, Matches, SameShape
  <2>2. (n + 1) - 1 = n
    OBVIOUS
  <2>3. saved.kind # "fixed_windows"
    BY <2>1, SamplersAssumption
  <2>4. Given(x) = <<Draw(generator[x], config[x])>>
    BY <1>4 DEF Given, Starts
  <2> QED
    BY <2>1, <2>2, <2>3, <2>4 DEF Sequel, Draw
<1> QED
  BY <1>3, <1>4

\* Two sequences that both follow the sequel are prefixes of one another.
LEMMA BothPrefixes ==
  ASSUME SamplersTypeInv, Continues(saver, follows), Continues(resumed, replays)
  PROVE  ResumesTheSequence
<1>1. Len(follows) \in Nat /\ Len(replays) \in Nat
  BY DEF SamplersTypeInv
<1>2. ASSUME NEW S, NEW s \in Seq(S), NEW t \in Seq(S), Len(s) <= Len(t),
             \A k \in 1 .. Len(s) : s[k] = t[k]
      PROVE  IsPrefix(s, t)
  BY <1>2 DEF IsPrefix
<1>3. follows \in Seq(Sequels) /\ replays \in Seq(Sequels)
  BY DEF SamplersTypeInv
<1>4. /\ \A k \in 1 .. Len(follows) : follows[k] = Sequel(k)
      /\ \A k \in 1 .. Len(replays) : replays[k] = Sequel(k)
  BY DEF Continues
<1>5. CASE Len(follows) <= Len(replays)
  <2>1. \A k \in 1 .. Len(follows) : k \in 1 .. Len(replays)
    BY <1>1, <1>5
  <2>2. \A k \in 1 .. Len(follows) : follows[k] = replays[k]
    BY <2>1, <1>4
  <2> QED
    BY <1>2, <1>3, <1>5, <2>2 DEF ResumesTheSequence
<1>6. CASE Len(replays) <= Len(follows)
  <2>1. \A k \in 1 .. Len(replays) : k \in 1 .. Len(follows)
    BY <1>1, <1>6
  <2>2. \A k \in 1 .. Len(replays) : replays[k] = follows[k]
    BY <2>1, <1>4
  <2> QED
    BY <1>2, <1>3, <1>6, <2>2 DEF ResumesTheSequence
<1> QED
  BY <1>1, <1>5, <1>6

-----------------------------------------------------------------------------
\* While the saved state stays, its sequel does, and so does the standing of a sampler
\* whose generator stays.
LEMMA SameState ==
  ASSUME saved' = saved, config' = config
  PROVE  /\ \A k : Sequel(k)' = Sequel(k)
         /\ Sequels' = Sequels
         /\ \A y, n : generator'[y] = generator[y] /\ Standing(y, n) => Standing(y, n)'
<1>1. \A k : Sequel(k)' = Sequel(k)
  BY DEF Sequel
<1>2. Sequels' = Sequels
  BY <1>1 DEF Sequels
<1>3. ASSUME NEW y, NEW n, generator'[y] = generator[y], Standing(y, n)
      PROVE  Standing(y, n)'
  BY <1>3 DEF Standing, Matches, SameShape, Fixed
<1> QED
  BY <1>1, <1>2, <1>3

\* A sequence that continues the saved state does so after any step that changes none of
\* them and keeps the generator of its drawer.
LEMMA StillContinues ==
  ASSUME saved' = saved, config' = config,
         NEW drawer, NEW batches,
         drawer # Absent => generator'[drawer] = generator[drawer],
         Continues(drawer, batches)
  PROVE  /\ \A k \in 1 .. Len(batches) : batches[k] = Sequel(k)'
         /\ drawer # Absent => Standing(drawer, Len(batches))'
BY SameState DEF Continues

\* New samplers have drawn nothing, and nothing is saved.
LEMMA SamplersInitHolds == SamplersInit => SamplersInv
<1> SUFFICES ASSUME SamplersInit PROVE SamplersInv
  OBVIOUS
<1>1. \A x \in Samplers : <<config[x].seed, 0>> \in Generators
  BY ConfigFields DEF SamplersInit, Configs, Generators
<1>2. SamplersTypeInv
  <2>1. config \in [Samplers -> Configs]
    BY DEF SamplersInit, Configs
  <2>2. generator \in [Samplers -> Generators]
    BY <1>1 DEF SamplersInit
  <2>3. DOMAIN promised = Samplers
    BY DEF SamplersInit
  <2>4. follows \in Seq(Sequels) /\ replays \in Seq(Sequels)
    BY DEF SamplersInit
  <2> QED
    BY <2>1, <2>2, <2>3, <2>4 DEF SamplersTypeInv
<1>3. Continues(saver, follows) /\ Continues(resumed, replays)
  BY DEF SamplersInit, Continues
<1>4. SavedInv /\ PreviewIsKept
  BY DEF SamplersInit, SavedInv, PreviewIsKept
<1> QED
  BY <1>2, <1>3, <1>4 DEF SamplersInv

\* One more batch of sampler x: a sequence that x continues grows by its sequel, another
\* one stays.
LEMMA Grows ==
  ASSUME SamplersInv, NEW x \in Samplers, NextBatch(x),
         NEW drawer, NEW batches \in Seq(Sequels), Continues(drawer, batches),
         NEW after, after = IF x = drawer THEN Append(batches, Given(x)) ELSE batches
  PROVE  /\ after \in Seq(Sequels)
         /\ \A k \in 1 .. Len(after) : after[k] = Sequel(k)'
         /\ drawer # Absent => Standing(drawer, Len(after))'
<1>0. saved' = saved /\ config' = config
  BY DEF NextBatch
<1>1. CASE x # drawer
  <2>1. drawer # Absent => generator'[drawer] = generator[drawer]
    BY <1>1 DEF NextBatch, SamplersInv, SamplersTypeInv, Continues, Standing
  <2> QED
    BY <1>0, <1>1, <2>1, StillContinues
<1>2. CASE x = drawer
  <2>1. drawer # Absent
    BY <1>2, SamplersAssumption
  <2>2. Standing(x, Len(batches)) /\ Len(batches) \in Nat
    BY <2>1, <1>2 DEF Continues
  <2>3. Given(x) = Sequel(Len(batches) + 1)
    BY <2>2, NextIsSequel DEF SamplersInv
  <2>4. Given(x) \in Sequels
    <3>1. Len(batches) + 1 \in Nat \ {0}
      BY <2>2
    <3> QED
      BY <2>3, <3>1 DEF Sequels
  <2>5. after \in Seq(Sequels) /\ Len(after) = Len(batches) + 1
    BY <1>2, <2>4
  <2>6. ASSUME NEW k \in 1 .. Len(after) PROVE after[k] = Sequel(k)
    <3>1. CASE k = Len(batches) + 1
      BY <1>2, <2>3, <2>4, <3>1
    <3>2. CASE k # Len(batches) + 1
      <4>1. k \in 1 .. Len(batches)
        BY <2>2, <2>5, <3>2
      <4>2. after[k] = batches[k]
        BY <1>2, <2>4, <4>1
      <4> QED
        BY <4>1, <4>2 DEF Continues
    <3> QED
      BY <3>1, <3>2
  <2>7. Standing(x, Len(after))'
    <3>1. Matches(x)' /\ Fixed(x)' = Fixed(x)
      BY <2>2, <1>0 DEF Standing, Matches, SameShape, Fixed
    <3>2. CASE Fixed(x)
      BY <2>2, <3>1, <3>2, <1>0 DEF Standing
    <3>3. CASE ~ Fixed(x)
      <4>1. generator'[x] = <<generator[x][1], generator[x][2] + 1>>
        BY <3>3 DEF NextBatch, Advanced, SamplersInv, SamplersTypeInv
      <4>2. /\ generator[x] = <<saved.generator[1], saved.generator[2] + Len(batches)>>
            /\ saved.kind = Absent /\ saved.generator \in Generators
        BY <2>2, <3>3 DEF Standing
      <4>3. PICK m \in Nat : m = saved.generator[2]
        BY <4>2 DEF Generators
      <4>4. Len(batches) \in Nat /\ Len(after) = Len(batches) + 1
        BY <2>2, <2>5
      <4>5. (m + Len(batches)) + 1 = m + Len(after)
        BY <4>4
      <4>6. generator[x][2] = m + Len(batches) /\ generator[x][1] = saved.generator[1]
        BY <4>2, <4>3
      <4>7. generator'[x] = <<saved.generator[1], saved.generator[2] + Len(after)>>
        BY <4>1, <4>3, <4>5, <4>6
      <4> QED
        BY <3>1, <3>3, <4>2, <4>7, <1>0 DEF Standing
    <3> QED
      BY <3>2, <3>3
  <2> QED
    BY <1>0, <1>2, <2>5, <2>6, <2>7, SameState
<1> QED
  BY <1>1, <1>2

\* A draw advances one sampler; one that is followed goes on in its own sequence.
LEMMA NextBatchKeeps ==
  ASSUME SamplersInv, NEW x \in Samplers, NextBatch(x)
  PROVE  SamplersInv'
<1>0. saved' = saved /\ config' = config /\ saver' = saver /\ resumed' = resumed
  BY DEF NextBatch
<1>1. /\ follows' \in Seq(Sequels) /\ Continues(saver, follows)'
  <2>1. /\ follows \in Seq(Sequels) /\ Continues(saver, follows)
        /\ follows' = IF x = saver THEN Append(follows, Given(x)) ELSE follows
    BY DEF NextBatch, SamplersInv, SamplersTypeInv
  <2>2. /\ follows' \in Seq(Sequels)
        /\ \A k \in 1 .. Len(follows') : follows'[k] = Sequel(k)'
        /\ saver # Absent => Standing(saver, Len(follows))'
    BY <1>0, <2>1, Grows
  <2> QED
    BY <1>0, <2>2 DEF Continues
<1>2. /\ replays' \in Seq(Sequels) /\ Continues(resumed, replays)'
  <2>1. /\ replays \in Seq(Sequels) /\ Continues(resumed, replays)
        /\ replays' = IF x = resumed THEN Append(replays, Given(x)) ELSE replays
    BY DEF NextBatch, SamplersInv, SamplersTypeInv
  <2>2. /\ replays' \in Seq(Sequels)
        /\ \A k \in 1 .. Len(replays') : replays'[k] = Sequel(k)'
        /\ resumed # Absent => Standing(resumed, Len(replays))'
    BY <1>0, <2>1, Grows
  <2> QED
    BY <1>0, <2>2 DEF Continues
<1>3. generator' \in [Samplers -> Generators]
  <2>1. generator \in [Samplers -> Generators]
    BY DEF SamplersInv, SamplersTypeInv
  <2>2. Advanced(x) \in Generators
    BY <2>1 DEF Advanced, Generators
  <2> QED
    BY <2>1, <2>2 DEF NextBatch
<1>4. SamplersTypeInv'
  BY <1>0, <1>1, <1>2, <1>3, SameState DEF SamplersInv, SamplersTypeInv, NextBatch
<1>5. SavedInv'
  BY <1>0 DEF SamplersInv, SavedInv
<1>6. PreviewIsKept'
  <2>1. ASSUME NEW y \in Samplers, promised'[y] # Absent PROVE Starts(y)' = promised'[y]
    <3>1. y # x /\ promised'[y] = promised[y] /\ generator'[y] = generator[y]
      BY <2>1 DEF NextBatch, SamplersInv, SamplersTypeInv
    <3> QED
      BY <2>1, <3>1, <1>0 DEF SamplersInv, PreviewIsKept, Starts, Fixed
  <2> QED
    BY <2>1 DEF PreviewIsKept
<1> QED
  BY <1>1, <1>2, <1>4, <1>5, <1>6 DEF SamplersInv

\* A preview draws nothing.
LEMMA PreviewKeeps ==
  ASSUME SamplersInv, NEW x \in Samplers, Preview(x)
  PROVE  SamplersInv'
<1>0. /\ saved' = saved /\ config' = config /\ generator' = generator
      /\ saver' = saver /\ resumed' = resumed /\ follows' = follows /\ replays' = replays
  BY DEF Preview, object, trace
<1>1. Continues(saver, follows)' /\ Continues(resumed, replays)'
  BY <1>0, StillContinues DEF SamplersInv, Continues
<1>2. SamplersTypeInv' /\ SavedInv'
  BY <1>0, SameState DEF SamplersInv, SamplersTypeInv, SavedInv, Preview
<1>3. \A y \in Samplers : Starts(y)' = Starts(y)
  BY <1>0 DEF Starts, Fixed
<1>4. PreviewIsKept'
  BY <1>3 DEF SamplersInv, SamplersTypeInv, PreviewIsKept, Preview
<1> QED
  BY <1>1, <1>2, <1>4 DEF SamplersInv

\* A sampler matches the state it saves, and stands where that state is.
LEMMA SaveKeeps ==
  ASSUME SamplersInv, NEW x \in Samplers, Save(x)
  PROVE  SamplersInv'
<1>0. /\ config' = config /\ generator' = generator /\ promised' = promised
      /\ saver' = x /\ follows' = <<>> /\ resumed' = Absent /\ replays' = <<>>
  BY DEF Save, object
<1>1. config[x] \in Configs /\ generator[x] \in Generators
  BY DEF SamplersInv, SamplersTypeInv
<1>2. config[x].kind \in {"random", "fixed_windows"}
  BY <1>1, ConfigFields
<1>3. saved' = StateDict(x)
  BY DEF Save
<1>4. /\ saved'.context = config[x].context /\ saved'.batch = config[x].batch
      /\ saved'.tokens = config[x].stream.tokens
  BY <1>3 DEF StateDict
<1>5. Fixed(x) => /\ saved'.kind = config[x].kind /\ saved'.stride = config[x].stride
                  /\ saved'.sha256 = config[x].stream.id /\ saved'.generator = Absent
  BY <1>3 DEF StateDict, Fixed
<1>6. ~ Fixed(x) => saved'.kind = Absent /\ saved'.generator = generator[x]
  BY <1>2, <1>3 DEF StateDict, Fixed
<1>7. SavedInv'
  BY <1>1, <1>5, <1>6 DEF SavedInv, Fixed, Generators
<1>8. Matches(x)' /\ Fixed(x)' = Fixed(x)
  BY <1>0, <1>4, <1>5 DEF Matches, SameShape, Fixed
<1>9. Continues(resumed, replays)'
  BY <1>0 DEF Continues
<1>10. Continues(saver, follows)'
  <2>1. ~ Fixed(x) => /\ saved'.generator \in Generators
                      /\ generator[x] = <<saved'.generator[1], saved'.generator[2] + 0>>
    BY <1>1, <1>6 DEF Generators
  <2>2. Standing(x, 0)'
    BY <1>0, <1>6, <1>8, <2>1 DEF Standing
  <2> QED
    BY <1>0, <2>2 DEF Continues
<1>11. SamplersTypeInv'
  BY <1>0 DEF SamplersInv, SamplersTypeInv
<1>12. PreviewIsKept'
  BY <1>0 DEF SamplersInv, PreviewIsKept, Starts, Fixed
<1> QED
  BY <1>7, <1>9, <1>10, <1>11, <1>12 DEF SamplersInv

\* A sampler that accepts a state stands where it is.
LEMMA LoadKeeps ==
  ASSUME SamplersInv, NEW x \in Samplers, Load(x)
  PROVE  SamplersInv'
<1>0. /\ saved' = saved /\ config' = config /\ follows' = follows
      /\ saver' = (IF x = saver THEN Absent ELSE saver) /\ resumed' = x /\ replays' = <<>>
      /\ \A y \in Samplers : y # x => generator'[y] = generator[y] /\ promised'[y] = promised[y]
      /\ DOMAIN promised' = Samplers /\ promised'[x] = Absent
      /\ saved # Absent /\ Matches(x) /\ (~ Fixed(x) => saved.generator # Absent)
  BY DEF Load, Accept, SamplersInv, SamplersTypeInv
<1>1. ~ Fixed(x) => saved.kind = Absent /\ saved.generator \in Generators
  BY <1>0 DEF SamplersInv, SavedInv
<1>2. ~ Fixed(x) => generator'[x] = saved.generator
  BY DEF Load, SamplersInv, SamplersTypeInv
<1>3. generator' \in [Samplers -> Generators]
  BY <1>1 DEF Load, SamplersInv, SamplersTypeInv
<1>4. SamplersTypeInv'
  BY <1>0, <1>3, SameState DEF SamplersInv, SamplersTypeInv
<1>5. SavedInv'
  BY <1>0 DEF SamplersInv, SavedInv
<1>6. Continues(saver, follows)'
  <2>1. saver' # Absent => saver' = saver /\ saver # x /\ saver # Absent
    BY <1>0
  <2>2. saver' # Absent => generator'[saver] = generator[saver] /\ Standing(saver, Len(follows))
    BY <1>0, <2>1 DEF SamplersInv, Continues, Standing
  <2>3. saver' # Absent => Standing(saver, Len(follows))'
    BY <1>0, <2>1, <2>2, SameState
  <2>4. \A k \in 1 .. Len(follows') : follows'[k] = Sequel(k)'
    BY <1>0, SameState DEF SamplersInv, Continues
  <2> QED
    BY <2>3, <2>4 DEF Continues
<1>7. Continues(resumed, replays)'
  <2>1. ~ Fixed(x) => generator'[x] = <<saved.generator[1], saved.generator[2] + 0>>
    BY <1>1, <1>2 DEF Generators
  <2>2. Matches(x)' /\ Fixed(x)' = Fixed(x)
    BY <1>0 DEF Matches, SameShape, Fixed
  <2>3. Standing(x, 0)'
    BY <1>0, <1>1, <2>1, <2>2 DEF Standing
  <2> QED
    BY <1>0, <2>3 DEF Continues
<1>8. PreviewIsKept'
  BY <1>0 DEF SamplersInv, PreviewIsKept, Starts, Fixed
<1> QED
  BY <1>4, <1>5, <1>6, <1>7, <1>8 DEF SamplersInv

\* A refused load, and a step of nobody, change neither sampler nor state.
LEMMA RefusalKeeps ==
  ASSUME SamplersInv, UNCHANGED <<object, trace, saved, promised>>
  PROVE  SamplersInv'
<1>0. /\ saved' = saved /\ config' = config /\ generator' = generator /\ promised' = promised
      /\ saver' = saver /\ resumed' = resumed /\ follows' = follows /\ replays' = replays
  BY DEF object, trace
<1>1. Continues(saver, follows)' /\ Continues(resumed, replays)'
  BY <1>0, StillContinues DEF SamplersInv, Continues
<1>2. SamplersTypeInv' /\ SavedInv'
  BY <1>0, SameState DEF SamplersInv, SamplersTypeInv, SavedInv
<1>3. PreviewIsKept'
  BY <1>0 DEF SamplersInv, PreviewIsKept, Starts, Fixed
<1> QED
  BY <1>1, <1>2, <1>3 DEF SamplersInv

\* The invariant holds of every behaviour of the samplers.
THEOREM SamplersInvariance == SamplersSpec => []SamplersInv
<1>1. SamplersInv /\ [SamplersNext]_samplersVars => SamplersInv'
  <2> SUFFICES ASSUME SamplersInv, [SamplersNext]_samplersVars PROVE SamplersInv'
    OBVIOUS
  <2>1. ASSUME NEW x \in Samplers, NextBatch(x) PROVE SamplersInv'
    BY <2>1, NextBatchKeeps
  <2>2. ASSUME NEW x \in Samplers, Preview(x) PROVE SamplersInv'
    BY <2>2, PreviewKeeps
  <2>3. ASSUME NEW x \in Samplers, Save(x) PROVE SamplersInv'
    BY <2>3, SaveKeeps
  <2>4. ASSUME NEW x \in Samplers, Load(x) PROVE SamplersInv'
    BY <2>4, LoadKeeps
  <2>5. ASSUME NEW x \in Samplers, Refuse(x) \/ MissKey(x) PROVE SamplersInv'
    BY <2>5, RefusalKeeps DEF Refuse, MissKey
  <2>6. CASE UNCHANGED samplersVars
    BY <2>6, RefusalKeeps DEF samplersVars
  <2> QED
    BY <2>1, <2>2, <2>3, <2>4, <2>5, <2>6 DEF SamplersNext
<1> QED
  BY SamplersInitHolds, <1>1, PTL DEF SamplersSpec

\* A sampler that loads a state draws what the sampler that saved it goes on to draw, for
\* any number of batches and whatever other samplers, previews and refused loads come
\* between (load_state_dict of both samplers in data/loader.py).
THEOREM SequenceTheorem == SamplersSpec => []ResumesTheSequence
<1>1. SamplersInv => ResumesTheSequence
  BY BothPrefixes DEF SamplersInv
<1> QED
  BY <1>1, SamplersInvariance, PTL

\* What a preview promises is what the next batch gives (preview_starts()).
THEOREM PreviewTheorem == SamplersSpec => []PreviewIsKept
<1>1. SamplersInv => PreviewIsKept
  BY DEF SamplersInv
<1> QED
  BY <1>1, SamplersInvariance, PTL
=============================================================================
