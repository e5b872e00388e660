-------------------------- MODULE Tokenizer_proofs ---------------------------
(***************************************************************************)
(* The tokenizer, for every finite corpus, threshold, vocabulary size, set *)
(* of special tokens, text and cache size: training decides as a fresh     *)
(* count would and misses no word, encoding gives what training gives,     *)
(* decoding gives the text back, and the file is the tokenizer.            *)
(*                                                                         *)
(* The operators come first: each recursive function of the model is shown *)
(* to exist (InductionLemmas) and to meet its equations. Then training and *)
(* encoding, each with its invariants and one lemma per step.              *)
(***************************************************************************)
EXTENDS Tokenizer, InductionLemmas, SequenceTheorems

-----------------------------------------------------------------------------
(* _merge()                                                                *)

\* The rest of the merged sequence from position i of seq on, when h holds the rests
\* that begin further right.
MergeRest(seq, pair, new, h, i) ==
  IF i > Len(seq) THEN <<>>
  ELSE IF i < Len(seq) /\ PairAt(seq, i) = pair THEN <<new>> \o h[i + 2]
  ELSE <<seq[i]>> \o h[i + 1]

\* The loop of _merge() has a rest at every position.
LEMMA MergeExists ==
  ASSUME NEW seq \in Seq(Nat), NEW pair, NEW new \in Nat
  PROVE  \E h : h = [i \in 1 .. Len(seq) + 1 |-> MergeRest(seq, pair, new, h, i)]
<1> DEFINE L == Len(seq)
           X == Seq(Nat)
           F == [kg \in (0 .. L) \X [0 .. L -> X] |->
                   LET i == L + 1 - kg[1]
                   IN IF kg[1] = 0 THEN <<>>
                      ELSE IF i < L /\ PairAt(seq, i) = pair THEN <<new>> \o kg[2][kg[1] - 2]
                      ELSE <<seq[i]>> \o kg[2][kg[1] - 1]]
           Value(k, g) == IF k = 0 THEN <<>>
                          ELSE IF L + 1 - k < L /\ PairAt(seq, L + 1 - k) = pair
                                 THEN <<new>> \o g[k - 2]
                          ELSE <<seq[L + 1 - k]>> \o g[k - 1]
<1>1. L \in Nat /\ <<>> \in X
  OBVIOUS
<1>2. ASSUME NEW k \in 0 .. L, NEW g \in [0 .. L -> X]
      PROVE  F[<<k, g>>] = Value(k, g) /\ Value(k, g) \in X
  <2>1. <<k, g>> \in (0 .. L) \X [0 .. L -> X]
    OBVIOUS
  <2>2. F[<<k, g>>] = Value(k, g)
    BY <2>1
  <2>3. CASE k = 0
    BY <2>2, <2>3
  <2>4. CASE k # 0 /\ L + 1 - k < L /\ PairAt(seq, L + 1 - k) = pair
    <3>1. k - 2 \in 0 .. L
      BY <2>4, <1>1
    <3>2. g[k - 2] \in Seq(Nat) /\ <<new>> \in Seq(Nat)
      BY <3>1
    <3>3. <<new>> \o g[k - 2] \in Seq(Nat)
      BY <3>2, ConcatProperties
    <3>4. Value(k, g) = <<new>> \o g[k - 2]
      BY <2>4
    <3> HIDE DEF F, Value
    <3> QED
      BY <2>2, <3>3, <3>4
  <2>5. CASE k # 0 /\ ~ (L + 1 - k < L /\ PairAt(seq, L + 1 - k) = pair)
    <3>1. k - 1 \in 0 .. L /\ L + 1 - k \in 1 .. L
      BY <2>5, <1>1
    <3>2. g[k - 1] \in Seq(Nat) /\ <<seq[L + 1 - k]>> \in Seq(Nat)
      <4>1. seq[L + 1 - k] \in Nat
        BY <3>1, ElementOfSeq
      <4>2. <<seq[L + 1 - k]>> \in Seq(Nat)
        BY <4>1
      <4>3. g[k - 1] \in Seq(Nat)
        BY <3>1
      <4> QED
        BY <4>2, <4>3
    <3>3. <<seq[L + 1 - k]>> \o g[k - 1] \in Seq(Nat)
      BY <3>2, ConcatProperties
    <3>4. Value(k, g) = <<seq[L + 1 - k]>> \o g[k - 1]
      BY <2>5
    <3> HIDE DEF F, Value
    <3> QED
      BY <2>2, <3>3, <3>4
  <2> QED
    BY <2>3, <2>4, <2>5
<1>3. F \in [(0 .. L) \X [0 .. L -> X] -> X]
  <2>1. ASSUME NEW kg \in (0 .. L) \X [0 .. L -> X] PROVE F[kg] \in X
    <3>1. kg = <<kg[1], kg[2]>> /\ kg[1] \in 0 .. L /\ kg[2] \in [0 .. L -> X]
      OBVIOUS
    <3> HIDE DEF F, X, Value, L
    <3>2. F[<<kg[1], kg[2]>>] \in X
      BY <1>2, <3>1
    <3> QED
      BY <3>1, <3>2, Zenon
  <2>2. F = [kg \in (0 .. L) \X [0 .. L -> X] |-> F[kg]]
    OBVIOUS
  <2> HIDE DEF F
  <2> QED
    BY <2>1, <2>2
<1>4. ASSUME NEW k \in 0 .. L, NEW g \in [0 .. L -> X], NEW h \in [0 .. L -> X],
             \A j \in 0 .. k - 1 : g[j] = h[j]
      PROVE  F[<<k, g>>] = F[<<k, h>>]
  <2>1. Value(k, g) = Value(k, h)
    <3>1. k # 0 => k - 1 \in 0 .. k - 1
      BY <1>1
    <3>2. k # 0 /\ L + 1 - k < L => k - 2 \in 0 .. k - 1
      BY <1>1
    <3> QED
      BY <1>4, <3>1, <3>2
  <2> HIDE DEF F, Value
  <2> QED
    BY <1>2, <2>1
<1>5. PICK h \in [0 .. L -> X] : Recursive(L, F, h)
  <2> HIDE DEF L, F, X, Value
  <2>1. \A k \in 0 .. L : \A g, h \in [0 .. L -> X] :
          (\A j \in 0 .. k - 1 : g[j] = h[j]) => F[<<k, g>>] = F[<<k, h>>]
    BY <1>4
  <2>2. ByEarlier(L, X, F) /\ X # {} /\ L \in Nat
    BY <1>1, <1>3, <2>1 DEF ByEarlier
  <2> QED
    BY <2>2, RecursionUpTo
<1>6. \A k \in 0 .. L : h[k] = Value(k, h)
  <2> HIDE DEF F, X, Value
  <2> QED
    BY <1>2, <1>5 DEF Recursive
<1> DEFINE f == [i \in 1 .. L + 1 |-> h[L + 1 - i]]
<1>7. ASSUME NEW i \in 1 .. L + 1 PROVE h[L + 1 - i] = MergeRest(seq, pair, new, f, i)
  <2>1. PICK k \in 0 .. L : k = L + 1 - i
    <3>1. L + 1 - i \in 0 .. L
      BY <1>1
    <3> QED
      BY <3>1
  <2>2. i = L + 1 - k
    BY <2>1, <1>1
  <2>3. CASE k = 0
    BY <1>1, <1>6, <2>1, <2>2, <2>3 DEF MergeRest
  <2>4. CASE k # 0
    <3>1. i \in 1 .. L /\ ~ (i > Len(seq)) /\ i + 1 \in 1 .. L + 1
      BY <1>1, <2>2, <2>4
    <3>2. f[i + 1] = h[k - 1]
      <4>1. L + 1 - (i + 1) = k - 1
        BY <1>1, <2>2
      <4> QED
        BY <3>1, <4>1
    <3>3. i < L => f[i + 2] = h[k - 2]
      <4>1. i < L => i + 2 \in 1 .. L + 1 /\ L + 1 - (i + 2) = k - 2
        BY <1>1, <2>2, <3>1
      <4> QED
        BY <4>1
    <3>4. h[k] = Value(k, h)
      BY <1>6
    <3> HIDE DEF f
    <3> QED
      BY <2>1, <2>2, <2>4, <3>1, <3>2, <3>3, <3>4 DEF MergeRest
  <2> QED
    BY <2>3, <2>4
<1>8. f = [i \in 1 .. Len(seq) + 1 |-> MergeRest(seq, pair, new, f, i)]
  <2>1. [i \in 1 .. L + 1 |-> h[L + 1 - i]] = [i \in 1 .. L + 1 |-> MergeRest(seq, pair, new, f, i)]
    <3> HIDE DEF f
    <3> QED
      BY <1>7
  <2> QED
    BY <2>1
<1> QED
  BY <1>8

\* _merge() is the rest at the first position.
LEMMA MergeIs ==
  ASSUME NEW seq \in Seq(Nat), NEW pair, NEW new \in Nat
  PROVE  \E h : /\ Merge(seq, pair, new) = h[1]
                /\ \A i \in 1 .. Len(seq) + 1 : h[i] = MergeRest(seq, pair, new, h, i)
<1> DEFINE Loop(h) == h = [i \in 1 .. Len(seq) + 1 |-> MergeRest(seq, pair, new, h, i)]
           loop == CHOOSE h : Loop(h)
<1>1. Loop(loop)
  BY MergeExists
<1>2. Merge(seq, pair, new) = loop[1]
  BY DEF Merge, MergeRest
<1>3. \A i \in 1 .. Len(seq) + 1 : loop[i] = MergeRest(seq, pair, new, loop, i)
  <2> HIDE DEF loop
  <2>1. loop = [i \in 1 .. Len(seq) + 1 |-> MergeRest(seq, pair, new, loop, i)]
    BY <1>1
  <2> HIDE DEF Loop
  <2> QED
    BY <2>1
<1> QED
  BY <1>2, <1>3

\* What a rest that begins at i may hold: ids of seq and the new one, and of the pairs of
\* seq only others than the merged one.
RestOf(seq, pair, new, i, s) ==
  /\ s \in Seq(Nat)
  /\ i <= Len(seq) => s # <<>> /\ s[1] \in {new, seq[i]}
  /\ i > Len(seq) => s = <<>>
  /\ \A j \in 1 .. Len(s) : s[j] = new \/ \E m \in 1 .. Len(seq) : s[j] = seq[m]
  /\ \A j \in 1 .. Len(s) - 1 :
       \/ s[j] = new \/ s[j + 1] = new
       \/ \E m \in 1 .. Len(seq) - 1 :
            s[j] = seq[m] /\ s[j + 1] = seq[m + 1] /\ PairAt(seq, m) # pair

\* One turn of the loop that replaces a pair.
LEMMA RestMerged ==
  ASSUME NEW seq \in Seq(Nat), NEW pair, NEW new \in Nat, NEW i \in 1 .. Len(seq) - 1,
         NEW s, RestOf(seq, pair, new, i + 2, s)
  PROVE  RestOf(seq, pair, new, i, <<new>> \o s)
<1> DEFINE t == <<new>> \o s
<1>1. s \in Seq(Nat) /\ <<new>> \in Seq(Nat) /\ Len(<<new>>) = 1 /\ <<new>>[1] = new
  BY DEF RestOf
<1>2. /\ t \in Seq(Nat) /\ Len(t) = Len(s) + 1
      /\ t[1] = new /\ \A j \in 2 .. Len(s) + 1 : t[j] = s[j - 1]
  <2>1. /\ t \in Seq(Nat) /\ Len(t) = 1 + Len(s)
        /\ \A j \in 1 .. 1 + Len(s) : t[j] = IF j <= 1 THEN <<new>>[j] ELSE s[j - 1]
    BY <1>1, ConcatProperties
  <2> HIDE DEF t
  <2>2. Len(s) \in Nat
    BY <1>1
  <2>3. t \in Seq(Nat) /\ Len(t) = Len(s) + 1
    BY <2>1, <2>2
  <2>4. t[1] = new
    <3>1. 1 \in 1 .. 1 + Len(s)
      BY <2>2
    <3> QED
      BY <1>1, <2>1, <3>1
  <2>5. ASSUME NEW j \in 2 .. Len(s) + 1 PROVE t[j] = s[j - 1]
    <3>1. j \in 1 .. 1 + Len(s) /\ ~ (j <= 1)
      BY <2>2
    <3> QED
      BY <2>1, <3>1
  <2> QED
    BY <2>3, <2>4, <2>5
<1>3. Len(s) \in Nat /\ Len(t) \in Nat
  BY <1>1, <1>2
<1> HIDE DEF t
<1>4. t # <<>>
  BY <1>2, <1>3
<1>5. ASSUME NEW j \in 1 .. Len(t) PROVE t[j] = new \/ \E m \in 1 .. Len(seq) : t[j] = seq[m]
  <2>1. CASE j = 1
    BY <1>2, <2>1
  <2>2. CASE j # 1
    <3>1. j - 1 \in 1 .. Len(s) /\ t[j] = s[j - 1]
      <4>1. Len(t) = Len(s) + 1
        BY <1>2
      <4>2. j \in 2 .. Len(s) + 1 /\ j - 1 \in 1 .. Len(s)
        BY <1>3, <2>2, <4>1
      <4> QED
        BY <1>2, <4>2
    <3>2. \A k \in 1 .. Len(s) : s[k] = new \/ \E m \in 1 .. Len(seq) : s[k] = seq[m]
      BY DEF RestOf
    <3> QED
      BY <3>1, <3>2, Zenon
  <2> QED
    BY <2>1, <2>2
<1>6. ASSUME NEW j \in 1 .. Len(t) - 1
      PROVE  \/ t[j] = new \/ t[j + 1] = new
             \/ \E m \in 1 .. Len(seq) - 1 :
                  t[j] = seq[m] /\ t[j + 1] = seq[m + 1] /\ PairAt(seq, m) # pair
  <2>1. CASE j = 1
    BY <1>2, <2>1
  <2>2. CASE j # 1
    <3>1. PICK k \in 1 .. Len(s) - 1 : j = k + 1
      <4>1. Len(t) = Len(s) + 1
        BY <1>2
      <4>2. j - 1 \in 1 .. Len(s) - 1 /\ j = (j - 1) + 1
        BY <1>3, <2>2, <4>1
      <4> QED
        BY <4>2
    <3>2. t[j] = s[k] /\ t[j + 1] = s[k + 1]
      <4>1. j \in 2 .. Len(s) + 1 /\ j + 1 \in 2 .. Len(s) + 1 /\ j - 1 = k /\ (j + 1) - 1 = k + 1
        BY <1>3, <3>1
      <4> QED
        BY <1>2, <4>1
    <3> QED
      BY <3>2 DEF RestOf
  <2> QED
    BY <2>1, <2>2
<1>7. Len(seq) \in Nat /\ ~ (i > Len(seq))
  OBVIOUS
<1>8. RestOf(seq, pair, new, i, t)
  BY <1>2, <1>4, <1>5, <1>6, <1>7 DEF RestOf
<1> QED
  BY <1>8 DEF t

\* One turn of the loop that keeps an id.
LEMMA RestKept ==
  ASSUME NEW seq \in Seq(Nat), NEW pair, NEW new \in Nat, NEW i \in 1 .. Len(seq),
         i < Len(seq) => PairAt(seq, i) # pair,
         NEW s, RestOf(seq, pair, new, i + 1, s)
  PROVE  RestOf(seq, pair, new, i, <<seq[i]>> \o s)
<1> DEFINE t == <<seq[i]>> \o s
<1>1. /\ s \in Seq(Nat) /\ <<seq[i]>> \in Seq(Nat) /\ Len(<<seq[i]>>) = 1
      /\ <<seq[i]>>[1] = seq[i] /\ Len(seq) \in Nat
  BY DEF RestOf
<1>2. /\ t \in Seq(Nat) /\ Len(t) = Len(s) + 1
      /\ t[1] = seq[i] /\ \A j \in 2 .. Len(s) + 1 : t[j] = s[j - 1]
  <2>1. /\ t \in Seq(Nat) /\ Len(t) = 1 + Len(s)
        /\ \A j \in 1 .. 1 + Len(s) : t[j] = IF j <= 1 THEN <<seq[i]>>[j] ELSE s[j - 1]
    BY <1>1, ConcatProperties
  <2> HIDE DEF t
  <2>2. Len(s) \in Nat
    BY <1>1
  <2>3. t \in Seq(Nat) /\ Len(t) = Len(s) + 1
    BY <2>1, <2>2
  <2>4. t[1] = seq[i]
    <3>1. 1 \in 1 .. 1 + Len(s)
      BY <2>2
    <3> QED
      BY <1>1, <2>1, <3>1
  <2>5. ASSUME NEW j \in 2 .. Len(s) + 1 PROVE t[j] = s[j - 1]
    <3>1. j \in 1 .. 1 + Len(s) /\ ~ (j <= 1)
      BY <2>2
    <3> QED
      BY <2>1, <3>1
  <2> QED
    BY <2>3, <2>4, <2>5
<1>3. Len(s) \in Nat /\ Len(t) \in Nat
  BY <1>1, <1>2
<1> HIDE DEF t
<1>4. t # <<>>
  BY <1>2, <1>3
<1>5. ASSUME NEW j \in 1 .. Len(t) PROVE t[j] = new \/ \E m \in 1 .. Len(seq) : t[j] = seq[m]
  <2>1. CASE j = 1
    BY <1>2, <2>1
  <2>2. CASE j # 1
    <3>1. j - 1 \in 1 .. Len(s) /\ t[j] = s[j - 1]
      <4>1. Len(t) = Len(s) + 1
        BY <1>2
      <4>2. j \in 2 .. Len(s) + 1 /\ j - 1 \in 1 .. Len(s)
        BY <1>3, <2>2, <4>1
      <4> QED
        BY <1>2, <4>2
    <3>2. \A k \in 1 .. Len(s) : s[k] = new \/ \E m \in 1 .. Len(seq) : s[k] = seq[m]
      BY DEF RestOf
    <3> QED
      BY <3>1, <3>2, Zenon
  <2> QED
    BY <2>1, <2>2
<1>6. ASSUME NEW j \in 1 .. Len(t) - 1
      PROVE  \/ t[j] = new \/ t[j + 1] = new
             \/ \E m \in 1 .. Len(seq) - 1 :
                  t[j] = seq[m] /\ t[j + 1] = seq[m + 1] /\ PairAt(seq, m) # pair
  <2>1. CASE j = 1
    <3>1. Len(s) >= 1 /\ s # <<>>
      BY <1>1, <1>2, <1>3, <2>1
    <3>2. i + 1 <= Len(seq)
      BY <3>1, <1>1 DEF RestOf
    <3>3. s[1] \in {new, seq[i + 1]}
      BY <3>2 DEF RestOf
    <3>4. t[1] = seq[i] /\ t[2] = s[1]
      BY <1>2, <1>3, <3>1
    <3>5. i \in 1 .. Len(seq) - 1 /\ PairAt(seq, i) # pair
      BY <1>1, <3>2
    <3> QED
      BY <2>1, <3>3, <3>4, <3>5
  <2>2. CASE j # 1
    <3>1. PICK k \in 1 .. Len(s) - 1 : j = k + 1
      <4>1. Len(t) = Len(s) + 1
        BY <1>2
      <4>2. j - 1 \in 1 .. Len(s) - 1 /\ j = (j - 1) + 1
        BY <1>3, <2>2, <4>1
      <4> QED
        BY <4>2
    <3>2. t[j] = s[k] /\ t[j + 1] = s[k + 1]
      <4>1. j \in 2 .. Len(s) + 1 /\ j + 1 \in 2 .. Len(s) + 1 /\ j - 1 = k /\ (j + 1) - 1 = k + 1
        BY <1>3, <3>1
      <4> QED
        BY <1>2, <4>1
    <3> QED
      BY <3>2 DEF RestOf
  <2> QED
    BY <2>1, <2>2
<1>7. Len(seq) \in Nat /\ ~ (i > Len(seq))
  OBVIOUS
<1>8. RestOf(seq, pair, new, i, t)
  BY <1>2, <1>4, <1>5, <1>6, <1>7 DEF RestOf
<1> QED
  BY <1>8 DEF t

\* All rests, from the right.
LEMMA Rests ==
  ASSUME NEW seq \in Seq(Nat), NEW pair, NEW new \in Nat, NEW h,
         \A i \in 1 .. Len(seq) + 1 : h[i] = MergeRest(seq, pair, new, h, i)
  PROVE  \A i \in 1 .. Len(seq) + 1 : RestOf(seq, pair, new, i, h[i])
<1> DEFINE L == Len(seq)
           G == {k \in 0 .. L : \A j \in 0 .. k : RestOf(seq, pair, new, L + 1 - j, h[L + 1 - j])}
<1>0. L \in Nat
  OBVIOUS
<1>1. RestOf(seq, pair, new, L + 1, h[L + 1])
  <2>1. h[L + 1] = <<>>
    <3>1. L + 1 \in 1 .. Len(seq) + 1 /\ L + 1 > Len(seq)
      BY <1>0
    <3> QED
      BY <3>1 DEF MergeRest
  <2>2. <<>> \in Seq(Nat) /\ Len(<<>>) = 0
    OBVIOUS
  <2> QED
    BY <1>0, <2>1, <2>2 DEF RestOf
<1>2. 0 \in G
  <2>1. \A j \in 0 .. 0 : L + 1 - j = L + 1
    BY <1>0
  <2> QED
    BY <1>0, <1>1, <2>1
<1>3. ASSUME NEW k \in 0 .. L - 1, k \in G PROVE k + 1 \in G
  <2>1. PICK i \in 1 .. L : i = L - k
    <3>1. L - k \in 1 .. L
      BY <1>0
    <3> QED
      BY <3>1
  <2>2. RestOf(seq, pair, new, i + 1, h[i + 1])
    <3>1. i + 1 = L + 1 - k /\ k \in 0 .. k
      BY <1>0, <2>1
    <3> QED
      BY <1>3, <3>1
  <2>3. i < L => RestOf(seq, pair, new, i + 2, h[i + 2])
    <3>1. i < L => i + 2 = L + 1 - (k - 1) /\ k - 1 \in 0 .. k
      BY <1>0, <2>1
    <3> QED
      BY <1>3, <3>1
  <2>4. h[i] = MergeRest(seq, pair, new, h, i) /\ ~ (i > Len(seq))
    <3>1. i \in 1 .. Len(seq) + 1 /\ ~ (i > Len(seq))
      BY <1>0
    <3> QED
      BY <3>1
  <2>5. RestOf(seq, pair, new, i, h[i])
    <3>1. CASE i < L /\ PairAt(seq, i) = pair
      <4>1. i \in 1 .. L - 1 /\ i < Len(seq) /\ PairAt(seq, i) = pair
        BY <1>0, <3>1
      <4>2. h[i] = <<new>> \o h[i + 2]
        BY <2>4, <4>1 DEF MergeRest
      <4> QED
        BY <2>3, <3>1, <4>1, <4>2, RestMerged
    <3>2. CASE ~ (i < L /\ PairAt(seq, i) = pair)
      <4>1. h[i] = <<seq[i]>> \o h[i + 1]
        BY <2>4, <3>2 DEF MergeRest
      <4> QED
        BY <2>2, <3>2, <4>1, RestKept
    <3> QED
      BY <3>1, <3>2
  <2>6. ASSUME NEW j \in 0 .. k + 1 PROVE RestOf(seq, pair, new, L + 1 - j, h[L + 1 - j])
    <3>1. CASE j = k + 1
      <4>1. L + 1 - j = i
        BY <1>0, <2>1, <3>1
      <4> QED
        BY <2>5, <4>1
    <3>2. CASE j # k + 1
      <4>1. j \in 0 .. k
        BY <3>2
      <4> QED
        BY <1>3, <4>1
    <3> QED
      BY <3>1, <3>2
  <2>7. k + 1 \in 0 .. L
    BY <1>0
  <2> QED
    BY <2>6, <2>7
<1>4. \A k \in 0 .. L : k \in G
  <2> HIDE DEF G
  <2> QED
    BY <1>0, <1>2, <1>3, InductionUpTo
<1>5. ASSUME NEW i \in 1 .. L + 1 PROVE RestOf(seq, pair, new, i, h[i])
  <2>1. PICK k \in 0 .. L : i = L + 1 - k
    <3>1. L + 1 - i \in 0 .. L /\ i = L + 1 - (L + 1 - i)
      BY <1>0
    <3> QED
      BY <3>1
  <2>2. k \in G /\ k \in 0 .. k
    BY <1>4
  <2> QED
    BY <2>1, <2>2
<1> QED
  BY <1>5

\* What _merge() returns: ids of seq and the new one; its pairs are pairs of seq other
\* than the merged one, or have the new id.
LEMMA MergeHolds ==
  ASSUME NEW seq \in Seq(Nat), NEW pair, NEW new \in Nat
  PROVE  /\ Merge(seq, pair, new) \in Seq(Nat)
         /\ \A j \in 1 .. Len(Merge(seq, pair, new)) :
              \/ Merge(seq, pair, new)[j] = new
              \/ \E m \in 1 .. Len(seq) : Merge(seq, pair, new)[j] = seq[m]
         /\ \A p \in PairsOf(Merge(seq, pair, new)) :
              p[1] = new \/ p[2] = new \/ (p \in PairsOf(seq) /\ p # pair)
<1>1. PICK h : /\ Merge(seq, pair, new) = h[1]
               /\ \A i \in 1 .. Len(seq) + 1 : h[i] = MergeRest(seq, pair, new, h, i)
  BY MergeIs
<1>2. PICK s : s = Merge(seq, pair, new)
  OBVIOUS
<1>3. RestOf(seq, pair, new, 1, s)
  <2>1. 1 \in 1 .. Len(seq) + 1
    OBVIOUS
  <2>2. RestOf(seq, pair, new, 1, h[1])
    BY <1>1, <2>1, Rests
  <2> QED
    BY <1>1, <1>2, <2>2
<1>4. ASSUME NEW p \in PairsOf(s)
      PROVE  p[1] = new \/ p[2] = new \/ (p \in PairsOf(seq) /\ p # pair)
  <2>1. PICK j \in 1 .. Len(s) - 1 : p = <<s[j], s[j + 1]>>
    BY DEF PairsOf, PairAt
  <2>2. CASE s[j] = new \/ s[j + 1] = new
    BY <2>1, <2>2
  <2>3. CASE \E m \in 1 .. Len(seq) - 1 :
               s[j] = seq[m] /\ s[j + 1] = seq[m + 1] /\ PairAt(seq, m) # pair
    <3>1. PICK m \in 1 .. Len(seq) - 1 :
            s[j] = seq[m] /\ s[j + 1] = seq[m + 1] /\ PairAt(seq, m) # pair
      BY <2>3
    <3>2. p = PairAt(seq, m)
      BY <2>1, <3>1 DEF PairAt
    <3> QED
      BY <3>1, <3>2 DEF PairsOf
  <2> QED
    BY <1>3, <2>2, <2>3 DEF RestOf
<1> QED
  BY <1>2, <1>3, <1>4 DEF RestOf

\* A sequence without the pair stays as it is.
LEMMA MergeNothing ==
  ASSUME NEW seq \in Seq(Nat), NEW pair, NEW new \in Nat, pair \notin PairsOf(seq)
  PROVE  Merge(seq, pair, new) = seq
<1>1. PICK h : /\ Merge(seq, pair, new) = h[1]
               /\ \A i \in 1 .. Len(seq) + 1 : h[i] = MergeRest(seq, pair, new, h, i)
  BY MergeIs
<1> DEFINE L == Len(seq)
           G == {k \in 0 .. L : h[L + 1 - k] = SubSeq(seq, L + 1 - k, L)}
<1>0. L \in Nat
  OBVIOUS
<1>2. 0 \in G
  <2>1. h[L + 1] = <<>>
    <3>1. L + 1 \in 1 .. Len(seq) + 1 /\ L + 1 > Len(seq)
      BY <1>0
    <3> QED
      BY <1>1, <3>1 DEF MergeRest
  <2>2. SubSeq(seq, L + 1, L) = <<>>
    BY <1>0, SubSeqEmpty
  <2>3. L + 1 - 0 = L + 1 /\ 0 \in 0 .. L
    BY <1>0
  <2>4. h[L + 1 - 0] = SubSeq(seq, L + 1 - 0, L)
    BY <2>1, <2>2, <2>3
  <2> QED
    BY <2>3, <2>4
<1>3. ASSUME NEW k \in 0 .. L - 1, k \in G PROVE k + 1 \in G
  <2>1. PICK i \in 1 .. L : i = L - k
    <3>1. L - k \in 1 .. L
      BY <1>0
    <3> QED
      BY <3>1
  <2>2. h[i + 1] = SubSeq(seq, i + 1, L)
    <3>1. i + 1 = L + 1 - k
      BY <1>0, <2>1
    <3> QED
      BY <1>3, <3>1
  <2>3. i < L => PairAt(seq, i) # pair
    BY <1>0 DEF PairsOf
  <2>4. h[i] = <<seq[i]>> \o h[i + 1]
    <3>1. i \in 1 .. Len(seq) + 1 /\ ~ (i > Len(seq))
      BY <1>0
    <3> QED
      BY <1>1, <2>3, <3>1 DEF MergeRest
  <2>5. SubSeq(seq, i, L) = <<seq[i]>> \o SubSeq(seq, i + 1, L)
    <3>1. L \in i .. L
      BY <1>0
    <3> QED
      BY <3>1, SubSeqRecursiveFirst
  <2>6. L + 1 - (k + 1) = i /\ k + 1 \in 0 .. L
    BY <1>0, <2>1
  <2> QED
    BY <2>2, <2>4, <2>5, <2>6
<1>4. L \in G
  <2> HIDE DEF G
  <2>1. \A k \in 0 .. L : k \in G
    BY <1>0, <1>2, <1>3, InductionUpTo
  <2> QED
    BY <1>0, <2>1
<1>5. L + 1 - L = 1
  BY <1>0
<1> QED
  BY <1>1, <1>4, <1>5, SubSeqFull

-----------------------------------------------------------------------------
(* The merges in the order in which they were learnt                       *)

\* Pairs of token ids.
Pairs == Nat \X Nat

\* The sequence after n merges, when h holds it after fewer.
Applied(merged, seq, h, n) ==
  IF n = 0 THEN seq ELSE Merge(h[n - 1], merged[n], TokenOf(n - 1))

\* A token has a natural number for an id.
LEMMA TokenIsNat == ASSUME NEW n \in Nat PROVE TokenOf(n) \in Nat
  BY ByteVocabAssumption DEF TokenOf

\* There is a sequence after each merge.
LEMMA ApplyExists ==
  ASSUME NEW merged \in Seq(Pairs), NEW seq \in Seq(Nat)
  PROVE  \E h : h = [n \in 0 .. Len(merged) |-> Applied(merged, seq, h, n)]
<1> DEFINE L == Len(merged)
           X == Seq(Nat)
           Value(k, g) == IF k = 0 THEN seq ELSE Merge(g[k - 1], merged[k], TokenOf(k - 1))
           F == [kg \in (0 .. L) \X [0 .. L -> X] |-> Value(kg[1], kg[2])]
<1>1. L \in Nat /\ seq \in X
  OBVIOUS
<1>2. ASSUME NEW k \in 0 .. L, NEW g \in [0 .. L -> X]
      PROVE  F[<<k, g>>] = Value(k, g) /\ Value(k, g) \in X
  <2>1. <<k, g>> \in (0 .. L) \X [0 .. L -> X]
    OBVIOUS
  <2>2. F[<<k, g>>] = Value(k, g)
    BY <2>1
  <2>3. CASE k = 0
    BY <2>2, <2>3
  <2>4. CASE k # 0
    <3>1. k - 1 \in 0 .. L /\ k - 1 \in Nat
      BY <2>4, <1>1
    <3>2. g[k - 1] \in Seq(Nat) /\ TokenOf(k - 1) \in Nat
      BY <3>1, TokenIsNat
    <3>3. Merge(g[k - 1], merged[k], TokenOf(k - 1)) \in Seq(Nat)
      BY <3>2, MergeHolds
    <3> QED
      BY <2>2, <2>4, <3>3
  <2> QED
    BY <2>3, <2>4
<1>3. F \in [(0 .. L) \X [0 .. L -> X] -> X]
  <2>1. ASSUME NEW kg \in (0 .. L) \X [0 .. L -> X] PROVE F[kg] \in X
    <3>1. kg = <<kg[1], kg[2]>> /\ kg[1] \in 0 .. L /\ kg[2] \in [0 .. L -> X]
      OBVIOUS
    <3> HIDE DEF F, X
    <3> QED
      BY <1>2, <3>1
  <2>2. F = [kg \in (0 .. L) \X [0 .. L -> X] |-> F[kg]]
    OBVIOUS
  <2> HIDE DEF F
  <2> QED
    BY <2>1, <2>2
<1>4. ASSUME NEW k \in 0 .. L, NEW g \in [0 .. L -> X], NEW h \in [0 .. L -> X],
             \A j \in 0 .. k - 1 : g[j] = h[j]
      PROVE  F[<<k, g>>] = F[<<k, h>>]
  <2>1. Value(k, g) = Value(k, h)
    <3>1. k # 0 => k - 1 \in 0 .. k - 1
      BY <1>1
    <3> QED
      BY <1>4, <3>1
  <2> HIDE DEF F, Value
  <2> QED
    BY <1>2, <2>1
<1>5. PICK h \in [0 .. L -> X] : Recursive(L, F, h)
  <2> HIDE DEF L, F, X, Value
  <2>1. \A k \in 0 .. L : \A g, h \in [0 .. L -> X] :
          (\A j \in 0 .. k - 1 : g[j] = h[j]) => F[<<k, g>>] = F[<<k, h>>]
    BY <1>4
  <2>2. ByEarlier(L, X, F) /\ X # {} /\ L \in Nat
    BY <1>1, <1>3, <2>1 DEF ByEarlier
  <2> QED
    BY <2>2, RecursionUpTo
<1>6. \A k \in 0 .. L : h[k] = Value(k, h)
  <2> HIDE DEF L, F, X, Value
  <2> QED
    BY <1>2, <1>5 DEF Recursive
<1>7. h = [n \in 0 .. Len(merged) |-> Applied(merged, seq, h, n)]
  <2>1. \A k \in 0 .. L : Value(k, h) = Applied(merged, seq, h, k)
    BY DEF Applied
  <2>2. h = [k \in 0 .. L |-> h[k]]
    OBVIOUS
  <2> HIDE DEF X, Value
  <2> QED
    BY <1>6, <2>1, <2>2
<1> QED
  BY <1>7

\* ApplyInOrder is the sequence after the last merge; all of them are sequences.
LEMMA ApplyIs ==
  ASSUME NEW merged \in Seq(Pairs), NEW seq \in Seq(Nat)
  PROVE  \E h : /\ ApplyInOrder(merged, seq) = h[Len(merged)]
                /\ \A n \in 0 .. Len(merged) : h[n] = Applied(merged, seq, h, n)
                /\ \A n \in 0 .. Len(merged) : h[n] \in Seq(Nat)
<1> DEFINE Loop(h) == h = [n \in 0 .. Len(merged) |-> Applied(merged, seq, h, n)]
           loop == CHOOSE h : Loop(h)
<1>1. Loop(loop)
  BY ApplyExists
<1>2. ApplyInOrder(merged, seq) = loop[Len(merged)]
  BY DEF ApplyInOrder, Applied
<1>3. \A n \in 0 .. Len(merged) : loop[n] = Applied(merged, seq, loop, n)
  <2> HIDE DEF loop
  <2>1. loop = [n \in 0 .. Len(merged) |-> Applied(merged, seq, loop, n)]
    BY <1>1
  <2> HIDE DEF Loop
  <2> QED
    BY <2>1
<1> HIDE DEF loop, Loop
<1> DEFINE G == {n \in 0 .. Len(merged) : loop[n] \in Seq(Nat)}
<1>4. Len(merged) \in Nat
  OBVIOUS
<1>5. 0 \in G
  <2>1. 0 \in 0 .. Len(merged) /\ loop[0] = seq
    BY <1>3, <1>4 DEF Applied
  <2> QED
    BY <2>1
<1>6. ASSUME NEW n \in 0 .. Len(merged) - 1, n \in G PROVE n + 1 \in G
  <2>1. n + 1 \in 0 .. Len(merged) /\ n + 1 # 0 /\ (n + 1) - 1 = n /\ n \in Nat
    BY <1>4
  <2>2. loop[n + 1] = Merge(loop[n], merged[n + 1], TokenOf(n))
    BY <1>3, <2>1 DEF Applied
  <2>3. loop[n] \in Seq(Nat) /\ TokenOf(n) \in Nat
    BY <1>6, <2>1, TokenIsNat
  <2>4. Merge(loop[n], merged[n + 1], TokenOf(n)) \in Seq(Nat)
    BY <2>3, MergeHolds
  <2> QED
    BY <2>1, <2>2, <2>4
<1>7. \A n \in 0 .. Len(merged) : n \in G
  <2> HIDE DEF G
  <2> QED
    BY <1>4, <1>5, <1>6, InductionUpTo
<1> QED
  BY <1>2, <1>3, <1>7

\* No merge, and one more merge.
LEMMA ApplyNothing ==
  ASSUME NEW seq \in Seq(Nat)
  PROVE  ApplyInOrder(<<>>, seq) = seq
<1>1. PICK none \in Seq(Pairs) : none = <<>>
  BY EmptySeq
<1>2. Len(none) = 0 /\ 0 \in 0 .. Len(none)
  BY <1>1
<1>3. PICK h : /\ ApplyInOrder(none, seq) = h[Len(none)]
               /\ \A n \in 0 .. Len(none) : h[n] = Applied(none, seq, h, n)
  BY ApplyIs
<1>4. h[0] = seq
  BY <1>2, <1>3 DEF Applied
<1> QED
  BY <1>1, <1>2, <1>3, <1>4

\* One more merge is applied to what the merges before it gave.
LEMMA ApplyOneMore ==
  ASSUME NEW merged \in Seq(Pairs), NEW pair \in Pairs, NEW seq \in Seq(Nat)
  PROVE  /\ ApplyInOrder(merged, seq) \in Seq(Nat)
         /\ ApplyInOrder(Append(merged, pair), seq)
              = Merge(ApplyInOrder(merged, seq), pair, TokenOf(Len(merged)))
<1>1. PICK g : /\ ApplyInOrder(merged, seq) = g[Len(merged)]
               /\ \A n \in 0 .. Len(merged) : g[n] = Applied(merged, seq, g, n)
               /\ \A n \in 0 .. Len(merged) : g[n] \in Seq(Nat)
  BY ApplyIs
<1>2. PICK more : more = Append(merged, pair)
  OBVIOUS
<1>3. /\ more \in Seq(Pairs) /\ Len(more) = Len(merged) + 1 /\ Len(merged) \in Nat
      /\ \A i \in 1 .. Len(merged) : more[i] = merged[i]
      /\ more[Len(merged) + 1] = pair
  BY <1>2, AppendProperties
<1>4. PICK h : /\ ApplyInOrder(more, seq) = h[Len(more)]
               /\ \A n \in 0 .. Len(more) : h[n] = Applied(more, seq, h, n)
  BY <1>3, ApplyIs
<1> DEFINE G == {n \in 0 .. Len(merged) : h[n] = g[n]}
<1>5. 0 \in G
  <2>1. 0 \in 0 .. Len(merged) /\ 0 \in 0 .. Len(more)
    BY <1>3
  <2>2. g[0] = seq /\ h[0] = seq
    BY <1>1, <1>4, <2>1 DEF Applied
  <2> QED
    BY <2>1, <2>2
<1>6. ASSUME NEW n \in 0 .. Len(merged) - 1, n \in G PROVE n + 1 \in G
  <2>1. /\ n + 1 \in 0 .. Len(merged) /\ n + 1 \in 0 .. Len(more) /\ n + 1 # 0
        /\ (n + 1) - 1 = n /\ n + 1 \in 1 .. Len(merged)
    BY <1>3
  <2>2. g[n + 1] = Merge(g[n], merged[n + 1], TokenOf(n))
    BY <1>1, <2>1 DEF Applied
  <2>3. h[n + 1] = Merge(h[n], more[n + 1], TokenOf(n))
    BY <1>4, <2>1 DEF Applied
  <2>4. h[n] = g[n] /\ more[n + 1] = merged[n + 1]
    BY <1>3, <1>6, <2>1
  <2> QED
    BY <2>1, <2>2, <2>3, <2>4
<1>7. h[Len(merged)] = g[Len(merged)]
  <2>1. \A n \in 0 .. Len(merged) : n \in G
    <3> HIDE DEF G
    <3> QED
      BY <1>3, <1>5, <1>6, InductionUpTo
  <2>2. Len(merged) \in 0 .. Len(merged)
    BY <1>3
  <2> QED
    BY <2>1, <2>2
<1>8. h[Len(more)] = Merge(h[Len(merged)], pair, TokenOf(Len(merged)))
  <2>1. Len(more) \in 0 .. Len(more) /\ Len(more) # 0 /\ Len(more) - 1 = Len(merged)
    BY <1>3
  <2>2. h[Len(more)] = Merge(h[Len(more) - 1], more[Len(more)], TokenOf(Len(more) - 1))
    BY <1>4, <2>1 DEF Applied
  <2> QED
    BY <1>3, <2>1, <2>2
<1>9. g[Len(merged)] \in Seq(Nat)
  BY <1>1, <1>3
<1> QED
  BY <1>1, <1>2, <1>4, <1>7, <1>8, <1>9

\* The first n of the merges, one after the other.
LEMMA ApplyPrefix ==
  ASSUME NEW merged \in Seq(Pairs), NEW seq \in Seq(Nat), NEW n \in 1 .. Len(merged)
  PROVE  /\ SubSeq(merged, 1, n - 1) \in Seq(Pairs) /\ Len(SubSeq(merged, 1, n - 1)) = n - 1
         /\ SubSeq(merged, 1, n) = Append(SubSeq(merged, 1, n - 1), merged[n])
         /\ ApplyInOrder(SubSeq(merged, 1, n), seq)
              = Merge(ApplyInOrder(SubSeq(merged, 1, n - 1), seq), merged[n], TokenOf(n - 1))
<1>1. PICK fewer : fewer = SubSeq(merged, 1, n - 1)
  OBVIOUS
<1>2. fewer \in Seq(Pairs) /\ Len(fewer) = n - 1
  <2>1. \A i \in 1 .. n - 1 : merged[i] \in Pairs
    <3>1. \A i \in 1 .. n - 1 : i \in 1 .. Len(merged)
      OBVIOUS
    <3> QED
      BY <3>1, ElementOfSeq
  <2>2. n - 1 \in Int /\ 1 \in Int /\ n \in Int
    OBVIOUS
  <2>3. fewer \in Seq(Pairs) /\ Len(fewer) = IF 1 <= n - 1 THEN n - 1 - 1 + 1 ELSE 0
    BY <1>1, <2>1, <2>2, SubSeqProperties
  <2> QED
    BY <2>2, <2>3
<1>3. merged[n] \in Pairs
  BY ElementOfSeq
<1>4. SubSeq(merged, 1, n) = Append(fewer, merged[n])
  <2>1. SubSeq(merged, 1, n) = SubSeq(merged, 1, n - 1) \o <<merged[n]>>
    <3>1. 1 \in 1 .. Len(merged) /\ n \in 1 .. Len(merged)
      OBVIOUS
    <3> QED
      BY <3>1, SubSeqRecursiveSecond
  <2>2. Append(fewer, merged[n]) = fewer \o <<merged[n]>>
    BY <1>2, <1>3, AppendIsConcat
  <2> QED
    BY <1>1, <2>1, <2>2
<1>5. ApplyInOrder(Append(fewer, merged[n]), seq)
        = Merge(ApplyInOrder(fewer, seq), merged[n], TokenOf(n - 1))
  BY <1>2, <1>3, ApplyOneMore
<1> QED
  BY <1>1, <1>2, <1>4, <1>5

\* Merges whose pairs do not occur change nothing.
LEMMA ApplySkips ==
  ASSUME NEW merged \in Seq(Pairs), NEW seq \in Seq(Nat),
         NEW n \in 0 .. Len(merged), NEW m \in n .. Len(merged),
         \A k \in n + 1 .. m : merged[k] \notin PairsOf(ApplyInOrder(SubSeq(merged, 1, n), seq))
  PROVE  ApplyInOrder(SubSeq(merged, 1, m), seq) = ApplyInOrder(SubSeq(merged, 1, n), seq)
<1> DEFINE s == ApplyInOrder(SubSeq(merged, 1, n), seq)
           G == {d \in 0 .. m - n : ApplyInOrder(SubSeq(merged, 1, n + d), seq) = s}
<1>0. Len(merged) \in Nat /\ m - n \in Nat
  OBVIOUS
<1>1. 0 \in G
  <2>1. n + 0 = n /\ 0 \in 0 .. m - n
    BY <1>0
  <2> QED
    BY <2>1
<1>2. ASSUME NEW d \in 0 .. (m - n) - 1, d \in G PROVE d + 1 \in G
  <2>1. PICK k \in n + 1 .. m : k = n + d + 1
    OBVIOUS
  <2>2. k \in 1 .. Len(merged) /\ k - 1 = n + d /\ k = n + (d + 1) /\ k - 1 \in Nat
    BY <1>0, <2>1
  <2>3. /\ SubSeq(merged, 1, k - 1) \in Seq(Pairs)
        /\ ApplyInOrder(SubSeq(merged, 1, k), seq)
             = Merge(ApplyInOrder(SubSeq(merged, 1, k - 1), seq), merged[k], TokenOf(k - 1))
    BY <2>2, ApplyPrefix
  <2>4. ApplyInOrder(SubSeq(merged, 1, k - 1), seq) = s
    BY <1>2, <2>2
  <2>5. s \in Seq(Nat)
    <3>1. merged[k] \in Pairs
      BY <2>2, ElementOfSeq
    <3> HIDE DEF s
    <3> QED
      BY <2>3, <2>4, <3>1, ApplyOneMore
  <2>6. Merge(s, merged[k], TokenOf(k - 1)) = s
    <3>1. merged[k] \notin PairsOf(s) /\ TokenOf(k - 1) \in Nat
      BY <2>2, TokenIsNat
    <3> HIDE DEF s
    <3> QED
      BY <2>5, <3>1, MergeNothing
  <2>7. ApplyInOrder(SubSeq(merged, 1, k), seq) = s
    <3> HIDE DEF s
    <3> QED
      BY <2>3, <2>4, <2>6
  <2>8. d + 1 \in 0 .. m - n
    BY <1>0
  <2> HIDE DEF s
  <2> QED
    BY <2>2, <2>7, <2>8
<1>3. m - n \in G
  <2> HIDE DEF G
  <2>1. \A d \in 0 .. m - n : d \in G
    BY <1>0, <1>1, <1>2, InductionUpTo
  <2> QED
    BY <1>0, <2>1
<1>4. n + (m - n) = m
  BY <1>0
<1> QED
  BY <1>3, <1>4

\* The ids of a sequence to which merges were applied.
Below(n) == 0 .. TokenOf(n) - 1

\* A merge of ids below the new one gives ids up to it.
LEMMA MergeBelow ==
  ASSUME NEW n \in Nat, NEW seq \in Seq(Below(n)), NEW pair
  PROVE  /\ seq \in Seq(Nat) /\ TokenOf(n) \in Nat
         /\ Merge(seq, pair, TokenOf(n)) \in Seq(Below(n + 1))
<1>1. TokenOf(n) \in Nat /\ TokenOf(n + 1) = TokenOf(n) + 1
  BY ByteVocabAssumption DEF TokenOf
<1>2. seq \in Seq(Nat)
  <2>1. Below(n) \subseteq Nat
    BY <1>1 DEF Below
  <2> QED
    BY <2>1, SeqMonotonic
<1>3. PICK s : s = Merge(seq, pair, TokenOf(n))
  OBVIOUS
<1>4. /\ s \in Seq(Nat)
      /\ \A j \in 1 .. Len(s) : s[j] = TokenOf(n) \/ \E m \in 1 .. Len(seq) : s[j] = seq[m]
  BY <1>1, <1>2, <1>3, MergeHolds
<1>5. ASSUME NEW j \in 1 .. Len(s) PROVE s[j] \in Below(n + 1)
  <2>1. CASE s[j] = TokenOf(n)
    BY <1>1, <2>1 DEF Below
  <2>2. CASE s[j] # TokenOf(n)
    <3>1. PICK m \in 1 .. Len(seq) : s[j] = seq[m]
      BY <1>4, <2>2
    <3>2. seq[m] \in Below(n)
      BY ElementOfSeq
    <3> QED
      BY <1>1, <3>1, <3>2 DEF Below
  <2> QED
    BY <2>1, <2>2
<1>6. s \in Seq(Below(n + 1))
  <2>1. Len(s) \in Nat /\ s = [j \in 1 .. Len(s) |-> s[j]]
    BY <1>4
  <2>2. s \in [1 .. Len(s) -> Below(n + 1)]
    BY <1>5, <2>1
  <2> QED
    BY <2>1, <2>2, SeqDef
<1> QED
  BY <1>1, <1>2, <1>3, <1>6

-----------------------------------------------------------------------------
(* Counting pairs                                                          *)

\* A sequence has finitely many pairs, and counts those it has.
LEMMA CountIs ==
  ASSUME NEW seq \in Seq(Nat)
  PROVE  /\ IsFiniteSet(PairsOf(seq)) /\ PairsOf(seq) \subseteq Pairs
         /\ \A p : /\ PairCount(seq, p) \in Nat
                   /\ p \in PairsOf(seq) <=> PairCount(seq, p) > 0
<1> DEFINE Places(p) == {i \in 1 .. Len(seq) - 1 : PairAt(seq, i) = p}
           f == [i \in 1 .. Len(seq) - 1 |-> PairAt(seq, i)]
<1>1. IsFiniteSet(1 .. Len(seq) - 1)
  BY FS_Interval
<1>2. IsFiniteSet(PairsOf(seq))
  <2>1. {f[i] : i \in 1 .. Len(seq) - 1} = PairsOf(seq)
    BY DEF PairsOf
  <2> HIDE DEF f
  <2> QED
    BY <1>1, <2>1, FiniteImage
<1>3. ASSUME NEW i \in 1 .. Len(seq) - 1 PROVE PairAt(seq, i) \in Pairs
  <2>1. seq[i] \in Nat /\ seq[i + 1] \in Nat
    <3>1. i \in 1 .. Len(seq) /\ i + 1 \in 1 .. Len(seq)
      OBVIOUS
    <3> QED
      BY <3>1, ElementOfSeq
  <2> QED
    BY <2>1 DEF PairAt, Pairs
<1>4. ASSUME NEW p
      PROVE  /\ PairCount(seq, p) \in Nat
             /\ p \in PairsOf(seq) <=> PairCount(seq, p) > 0
  <2>1. Places(p) \in SUBSET (1 .. Len(seq) - 1)
    OBVIOUS
  <2>2. IsFiniteSet(Places(p))
    BY <1>1, <2>1, FS_Subset
  <2>3. Cardinality(Places(p)) \in Nat /\ (Cardinality(Places(p)) = 0 <=> Places(p) = {})
    BY <2>2, FS_CardinalityType, FS_EmptySet
  <2>4. PairCount(seq, p) = Cardinality(Places(p))
    BY DEF PairCount
  <2>5. p \in PairsOf(seq) <=> Places(p) # {}
    BY DEF PairsOf
  <2> HIDE DEF Places
  <2> QED
    BY <2>3, <2>4, <2>5
<1> QED
  BY <1>2, <1>3, <1>4 DEF PairsOf

\* What each word contributes to the occurrences of a pair, and their sum.
Weighted(words, frequency, pair) ==
  [w \in DOMAIN words |-> PairCount(words[w], pair) * frequency[w]]
Total(words, frequency, pair) ==
  SumFunctionOnSet(Weighted(words, frequency, pair), DOMAIN words)

\* The model's count of a pair is the total over the words, now and after a step.
LEMMA OccurrencesIs ==
  ASSUME NEW p
  PROVE  /\ Occurrences(seqs, p) = Total(seqs, freqs, p)
         /\ Occurrences(seqs, p)' = Total(seqs', freqs', p)
  BY DEF Occurrences, Total, Weighted, SumFunction

\* Words that are counted.
Countable(words, frequency) ==
  /\ IsFiniteSet(DOMAIN words)
  /\ \A w \in DOMAIN words : words[w] \in Seq(Nat) /\ frequency[w] \in Nat \ {0}

\* A word weighs something for a pair if and only if it has the pair.
LEMMA WeightIs ==
  ASSUME NEW words, NEW frequency, Countable(words, frequency), NEW p, NEW w \in DOMAIN words
  PROVE  /\ Weighted(words, frequency, p)[w] = PairCount(words[w], p) * frequency[w]
         /\ Weighted(words, frequency, p)[w] \in Nat
         /\ p \in PairsOf(words[w]) <=> Weighted(words, frequency, p)[w] # 0
<1>1. words[w] \in Seq(Nat) /\ frequency[w] \in Nat \ {0}
  BY DEF Countable
<1>2. PICK c \in Nat : c = PairCount(words[w], p) /\ (p \in PairsOf(words[w]) <=> c > 0)
  BY <1>1, CountIs
<1>3. PICK n \in Nat : n = frequency[w] /\ n # 0
  BY <1>1
<1>4. Weighted(words, frequency, p)[w] = c * n
  BY <1>2, <1>3 DEF Weighted
<1>5. c * n \in Nat /\ (c * n = 0 <=> c = 0)
  BY <1>3
<1> QED
  BY <1>2, <1>3, <1>4, <1>5

\* The total is positive just if a word has the pair.
LEMMA TotalIs ==
  ASSUME NEW words, NEW frequency, Countable(words, frequency), NEW p
  PROVE  /\ Total(words, frequency, p) \in Nat
         /\ Total(words, frequency, p) > 0 <=> \E w \in DOMAIN words : p \in PairsOf(words[w])
<1> DEFINE W == Weighted(words, frequency, p)
           S == DOMAIN words
           T == Total(words, frequency, p)
<1>1. T = SumFunctionOnSet(W, S) /\ IsFiniteSet(S)
  BY DEF Total, Countable
<1>2. \A w \in S : W[w] \in Nat /\ (p \in PairsOf(words[w]) <=> W[w] # 0)
  BY WeightIs
<1> HIDE DEF W, S, T
<1>3. T \in Nat /\ \A w \in S : T = W[w] + SumFunctionOnSet(W, S \ {w})
  BY <1>1, <1>2, SumRemove
<1>4. ASSUME NEW w \in S, p \in PairsOf(words[w]) PROVE T > 0
  <2>1. W[w] \in Nat \ {0}
    BY <1>2, <1>4
  <2>2. IsFiniteSet(S \ {w}) /\ \A x \in S \ {w} : W[x] \in Nat
    BY <1>1, <1>2, FS_RemoveElement
  <2>3. SumFunctionOnSet(W, S \ {w}) \in Nat
    BY <2>2, SumRemove
  <2> QED
    BY <1>3, <2>1, <2>3
<1>5. ASSUME \A w \in S : p \notin PairsOf(words[w]) PROVE T = 0
  <2>1. \A w \in S : W[w] = 0
    BY <1>2, <1>5
  <2> QED
    BY <1>1, <2>1, SumZero
<1> QED
  BY <1>3, <1>4, <1>5 DEF S, T

\* The total after one word was replaced.
LEMMA TotalChanges ==
  ASSUME NEW words, NEW frequency, Countable(words, frequency), NEW p,
         NEW w \in DOMAIN words, NEW new \in Seq(Nat)
  PROVE  Total([words EXCEPT ![w] = new], frequency, p)
           = Total(words, frequency, p)
               + (PairCount(new, p) - PairCount(words[w], p)) * frequency[w]
<1>1. PICK next : next = [words EXCEPT ![w] = new]
  OBVIOUS
<1>2. /\ DOMAIN next = DOMAIN words /\ next[w] = new
      /\ \A x \in DOMAIN words \ {w} : next[x] = words[x]
  BY <1>1
<1>3. Countable(next, frequency)
  BY <1>2 DEF Countable
<1> DEFINE U == Weighted(words, frequency, p)
           V == Weighted(next, frequency, p)
           S == DOMAIN words
<1>4. /\ IsFiniteSet(S) /\ \A x \in S : U[x] \in Nat /\ V[x] \in Nat
  BY <1>2, <1>3, WeightIs DEF Countable
<1>5. \A x \in S \ {w} : V[x] = U[x]
  BY <1>2 DEF Weighted
<1>6. U[w] = PairCount(words[w], p) * frequency[w] /\ V[w] = PairCount(new, p) * frequency[w]
  BY <1>2 DEF Weighted
<1>7. /\ Total(words, frequency, p) = SumFunctionOnSet(U, S)
      /\ Total(next, frequency, p) = SumFunctionOnSet(V, S)
  BY <1>2 DEF Total
<1>8. words[w] \in Seq(Nat) /\ frequency[w] \in Nat
  BY DEF Countable
<1>9. w \in S
  OBVIOUS
<1> HIDE DEF U, V, S
<1>10. SumFunctionOnSet(U, S) = U[w] + SumFunctionOnSet(U, S \ {w})
  BY <1>4, <1>9, SumRemove
<1>11. SumFunctionOnSet(V, S) = V[w] + SumFunctionOnSet(V, S \ {w})
  BY <1>4, <1>9, SumRemove
<1>12. IsFiniteSet(S \ {w}) /\ \A x \in S \ {w} : U[x] \in Nat
  BY <1>4, FS_RemoveElement
<1>13. SumFunctionOnSet(V, S \ {w}) = SumFunctionOnSet(U, S \ {w})
  BY <1>5, <1>12, SumSame
<1>14. PICK r \in Nat : r = SumFunctionOnSet(U, S \ {w})
  BY <1>12, SumRemove
<1>15. PICK a \in Nat, b \in Nat, n \in Nat :
         a = PairCount(words[w], p) /\ b = PairCount(new, p) /\ n = frequency[w]
  BY <1>8, CountIs
<1>16. b * n + r = (a * n + r) + (b - a) * n
  OBVIOUS
<1> QED
  BY <1>1, <1>6, <1>7, <1>10, <1>11, <1>13, <1>14, <1>15, <1>16

-----------------------------------------------------------------------------
(* The heap                                                                *)

\* Heap entries: a count and the two ids of a pair.
Entries == Nat \X Nat \X Nat

\* The first of a set of heap entries.
First(s, e) == e \in s /\ \A f \in s \ {e} : Before(e, f)

\* Of two entries one is before the other, and order passes on.
LEMMA BeforeOrders ==
  /\ \A e, f \in Entries : e = f \/ Before(e, f) \/ Before(f, e)
  /\ \A e, f, g \in Entries : Before(e, f) /\ Before(f, g) => Before(e, g)
<1>1. ASSUME NEW a \in Nat, NEW b \in Nat, NEW c \in Nat, NEW x \in Nat, NEW y \in Nat, NEW z \in Nat
      PROVE  <<a, b, c>> = <<x, y, z>> \/ Before(<<a, b, c>>, <<x, y, z>>)
               \/ Before(<<x, y, z>>, <<a, b, c>>)
  BY DEF Before
<1>2. ASSUME NEW e \in Entries, NEW f \in Entries PROVE e = f \/ Before(e, f) \/ Before(f, e)
  <2>1. PICK a \in Nat, b \in Nat, c \in Nat : e = <<a, b, c>>
    BY DEF Entries
  <2>2. PICK x \in Nat, y \in Nat, z \in Nat : f = <<x, y, z>>
    BY DEF Entries
  <2> QED
    BY <1>1, <2>1, <2>2
<1>3. ASSUME NEW e \in Entries, NEW f \in Entries, NEW g \in Entries, Before(e, f), Before(f, g)
      PROVE  Before(e, g)
  <2>1. /\ e[1] \in Nat /\ e[2] \in Nat /\ e[3] \in Nat
        /\ f[1] \in Nat /\ f[2] \in Nat /\ f[3] \in Nat
        /\ g[1] \in Nat /\ g[2] \in Nat /\ g[3] \in Nat
    BY DEF Entries
  <2> QED
    BY <1>3, <2>1 DEF Before
<1> QED
  BY <1>2, <1>3

\* A finite set of entries has a first one: without one element it has, and this one or
\* that element is the first of all.
LEMMA FirstExists ==
  ASSUME NEW H, IsFiniteSet(H), H \subseteq Entries, H # {}
  PROVE  \E e : First(H, e)
<1> DEFINE Bad == {n \in Nat : \E s \in SUBSET H :
                     Cardinality(s) = n /\ s # {} /\ \A e : ~ First(s, e)}
<1>0. \A s \in SUBSET H : IsFiniteSet(s) /\ Cardinality(s) \in Nat
  BY FS_Subset, FS_CardinalityType
<1>1. ASSUME NEW n \in Bad, \A m \in Bad : n <= m PROVE FALSE
  <2>1. PICK s \in SUBSET H : Cardinality(s) = n /\ s # {} /\ \A e : ~ First(s, e)
    OBVIOUS
  <2>2. PICK x \in s : TRUE
    BY <2>1
  <2> DEFINE r == s \ {x}
  <2>3. Cardinality(r) = Cardinality(s) - 1 /\ r \in SUBSET H
    BY <1>0, <2>1, FS_RemoveElement
  <2>4. r # {}
    <3>1. r = {} => First(s, x)
      BY DEF First
    <3> QED
      BY <2>1, <3>1
  <2>5. Cardinality(r) \notin Bad
    BY <1>0, <1>1, <2>1, <2>3
  <2>6. PICK e : First(r, e)
    BY <1>0, <2>3, <2>4, <2>5
  <2>7. x \in Entries /\ e \in Entries /\ e # x /\ e \in s /\ s \subseteq Entries
    BY <2>6 DEF First
  <2>8. CASE Before(e, x)
    <3>1. First(s, e)
      BY <2>6, <2>7, <2>8 DEF First
    <3> QED
      BY <2>1, <3>1
  <2>9. CASE Before(x, e)
    <3>1. ASSUME NEW f \in s \ {x} PROVE Before(x, f)
      <4>1. f = e \/ Before(e, f)
        BY <2>6 DEF First
      <4> QED
        BY <2>7, <2>9, <4>1, BeforeOrders
    <3>2. First(s, x)
      BY <3>1 DEF First
    <3> QED
      BY <2>1, <3>2
  <2> QED
    BY <2>7, <2>8, <2>9, BeforeOrders
<1>2. Bad = {}
  <2> HIDE DEF Bad
  <2>1. Bad \in SUBSET Nat
    BY DEF Bad
  <2> QED
    BY <1>1, <2>1, LeastOf
<1>3. Cardinality(H) \notin Bad /\ Cardinality(H) \in Nat
  BY <1>0, <1>2
<1> QED
  BY <1>3

-----------------------------------------------------------------------------
(* Training                                                                *)

\* A word has had all merges, but not yet the one it is still to be visited for.
MergesOf(w) == IF w \in todo THEN Len(merges) - 1 ELSE Len(merges)

\* The words are those of the corpus, and the merges are ones BPETokenizer accepts.
WordsInv ==
  /\ IsFiniteSet(Words) /\ Words \subseteq Seq(Bytes) /\ DOMAIN seqs = Words
  /\ \A w \in Words : freqs[w] \in Nat \ {0}
  /\ minCount \in Nat \ {0}
  /\ merges \in Seq(Pairs) /\ ValidMerges(merges)
  /\ todo \subseteq Words
  /\ IF pc = "choose" THEN todo = {} ELSE merges # <<>> /\ best = merges[Len(merges)]

\* A word is what its merges make of its bytes, and no pair that was merged is left in it.
WordInv(w) ==
  /\ seqs[w] \in Seq(Below(MergesOf(w)))
  /\ seqs[w] = ApplyInOrder(SubSeq(merges, 1, MergesOf(w)), w)
  /\ \A j \in 1 .. MergesOf(w) : merges[j] \notin PairsOf(seqs[w])

\* The index has every pair of every word, whatever else it has; the entry of the pair
\* being merged has become todo.
IndexInv ==
  /\ \A p \in DOMAIN pairWords : pairWords[p] \subseteq Words
  /\ \A w \in Words : \A p \in PairsOf(seqs[w]) :
       (pc = "merge" /\ p = best) \/ w \in Get(pairWords, p, {})

\* The counts are those of a fresh count.
CountInv ==
  /\ DOMAIN pairCounts \subseteq Pairs
  /\ \A p \in Pairs : Get(pairCounts, p, 0) = Occurrences(seqs, p)

\* The heap has the current count of every pair that occurs, whatever else it has; those of
\* the pairs that a merge has changed so far are pushed when it ends.
HeapInv ==
  /\ IsFiniteSet(heap) /\ heap \subseteq Entries
  /\ IsFiniteSet(changed) /\ changed \subseteq Pairs
  /\ \A p \in DOMAIN pairCounts :
       \/ pc = "merge" /\ p \in changed \cup {best}
       \/ pairCounts[p] > 0 /\ <<pairCounts[p], p[1], p[2]>> \in heap

\* While training goes on, all of these hold.
TrainerInv ==
  pc \in {"choose", "merge"} =>
    WordsInv /\ (\A w \in Words : WordInv(w)) /\ IndexInv /\ CountInv /\ HeapInv

\* A word as it was before any merge.
LEMMA WordAtFirst ==
  ASSUME NEW w \in Seq(Bytes)
  PROVE  w \in Seq(Nat) /\ w \in Seq(Below(0)) /\ w = ApplyInOrder(SubSeq(<<>>, 1, 0), w)
<1>1. Bytes \subseteq Nat /\ Bytes = Below(0)
  BY ByteVocabAssumption DEF Bytes, Below, TokenOf
<1>2. w \in Seq(Nat)
  BY <1>1, SeqMonotonic
<1>3. SubSeq(<<>>, 1, 0) = <<>>
  OBVIOUS
<1> QED
  BY <1>1, <1>2, <1>3, ApplyNothing

\* The pairs of a finite set of words are finitely many.
LEMMA PairsFinite ==
  ASSUME NEW S, IsFiniteSet(S), S \subseteq Seq(Nat)
  PROVE  /\ IsFiniteSet(UNION {PairsOf(w) : w \in S})
         /\ UNION {PairsOf(w) : w \in S} \subseteq Pairs
<1> DEFINE f == [w \in S |-> PairsOf(w)]
<1>1. {f[w] : w \in S} = {PairsOf(w) : w \in S}
  OBVIOUS
<1>2. \A w \in S : IsFiniteSet(PairsOf(w)) /\ PairsOf(w) \subseteq Pairs
  BY CountIs
<1>3. IsFiniteSet({PairsOf(w) : w \in S})
  <2> HIDE DEF f
  <2> QED
    BY <1>1, FiniteImage
<1>4. \A T \in {PairsOf(w) : w \in S} : IsFiniteSet(T) /\ T \subseteq Pairs
  BY <1>2
<1> QED
  BY <1>3, <1>4, FS_UNION

\* A pair is the pair of its sides.
LEMMA PairIs ==
  ASSUME NEW p \in Pairs
  PROVE  p = <<p[1], p[2]>> /\ p[1] \in Nat /\ p[2] \in Nat
  BY DEF Pairs

\* What counting needs, while training.
LEMMA WordsCount ==
  ASSUME WordsInv, \A w \in Words : WordInv(w)
  PROVE  /\ Countable(seqs, freqs)
         /\ \A w \in Words : MergesOf(w) \in Nat /\ seqs[w] \in Seq(Nat)
         /\ merges \in Seq(Pairs) /\ Len(merges) \in Nat
<1>1. /\ IsFiniteSet(Words) /\ DOMAIN seqs = Words /\ \A w \in Words : freqs[w] \in Nat \ {0}
      /\ merges \in Seq(Pairs) /\ Len(merges) \in Nat
  BY DEF WordsInv
<1>2. ASSUME NEW w \in Words PROVE MergesOf(w) \in Nat
  <2>1. w \in todo => merges # <<>>
    BY DEF WordsInv
  <2>2. w \in todo => Len(merges) # 0
    BY <1>1, <2>1, EmptySeq
  <2> QED
    BY <1>1, <2>2 DEF MergesOf
<1>3. ASSUME NEW w \in Words PROVE seqs[w] \in Seq(Nat)
  <2>1. seqs[w] \in Seq(Below(MergesOf(w)))
    BY DEF WordInv
  <2>2. Below(MergesOf(w)) \subseteq Nat
    BY DEF Below
  <2> QED
    BY <2>1, <2>2, SeqMonotonic
<1> QED
  BY <1>1, <1>2, <1>3 DEF Countable

\* Before the first merge.
LEMMA TrainerInitially ==
  ASSUME TrainerInit
  PROVE  TrainerInv
<1>1. PICK corpus \in Corpora : freqs \in [corpus -> Frequencies]
  BY DEF TrainerInit
<1>2. /\ IsFiniteSet(Words) /\ Words \subseteq Seq(Bytes) /\ Words \subseteq Seq(Nat)
      /\ \A w \in Words : freqs[w] \in Nat \ {0}
  <2>1. Words = corpus /\ IsFiniteSet(corpus) /\ corpus \subseteq Seq(Bytes)
    BY <1>1, TrainerAssumption DEF Words
  <2>2. \A w \in corpus : freqs[w] \in Frequencies
    BY <1>1
  <2> QED
    BY <2>1, <2>2, TrainerAssumption, WordAtFirst
<1>3. /\ seqs = [w \in Words |-> w] /\ merges = <<>> /\ todo = {} /\ changed = {} /\ pc = "choose"
      /\ minCount \in Nat \ {0}
      /\ pairCounts = [p \in InitialPairs |-> Occurrences(seqs, p)]
      /\ pairWords = [p \in InitialPairs |-> {w \in Words : p \in PairsOf(w)}]
      /\ heap = {<<pairCounts[p], p[1], p[2]>> : p \in InitialPairs}
  BY TrainerAssumption DEF TrainerInit
<1>4. IsFiniteSet(InitialPairs) /\ InitialPairs \subseteq Pairs
  BY <1>2, PairsFinite DEF InitialPairs
<1>5. WordsInv
  <2>1. <<>> \in Seq(Pairs) /\ DOMAIN <<>> = {}
    OBVIOUS
  <2>2. ValidMerges(<<>>)
    BY <2>1 DEF ValidMerges
  <2>3. DOMAIN seqs = Words
    BY <1>3
  <2> QED
    BY <1>2, <1>3, <2>1, <2>2, <2>3 DEF WordsInv
<1>6. ASSUME NEW w \in Words PROVE WordInv(w)
  <2>1. MergesOf(w) = 0 /\ seqs[w] = w /\ w \in Seq(Bytes)
    BY <1>2, <1>3 DEF MergesOf
  <2>2. 1 .. 0 = {}
    OBVIOUS
  <2> QED
    BY <1>3, <2>1, <2>2, WordAtFirst DEF WordInv
<1>7. IndexInv
  <2>1. \A w \in Words : seqs[w] = w
    BY <1>3
  <2>2. \A w \in Words : PairsOf(w) \subseteq InitialPairs
    BY DEF InitialPairs
  <2>3. \A p \in InitialPairs : pairWords[p] = {w \in Words : p \in PairsOf(w)}
    BY <1>3
  <2>4. DOMAIN pairWords = InitialPairs
    BY <1>3
  <2> QED
    BY <2>1, <2>2, <2>3, <2>4 DEF IndexInv, Get
<1>8. /\ Countable(seqs, freqs)
  BY <1>5, <1>6, WordsCount
<1>9. ASSUME NEW p \in Pairs
      PROVE  /\ Occurrences(seqs, p) \in Nat
             /\ Occurrences(seqs, p) > 0 <=> p \in InitialPairs
  <2>1. /\ Total(seqs, freqs, p) \in Nat
        /\ Total(seqs, freqs, p) > 0 <=> \E w \in DOMAIN seqs : p \in PairsOf(seqs[w])
    BY <1>8, TotalIs
  <2>2. DOMAIN seqs = Words /\ \A w \in Words : seqs[w] = w
    BY <1>3
  <2>3. p \in InitialPairs <=> \E w \in Words : p \in PairsOf(w)
    BY DEF InitialPairs
  <2> QED
    BY <2>1, <2>2, <2>3, OccurrencesIs
<1>10. DOMAIN pairCounts = InitialPairs /\ \A p \in InitialPairs : pairCounts[p] = Occurrences(seqs, p)
  BY <1>3
<1>11. CountInv
  <2>1. ASSUME NEW p \in Pairs PROVE Get(pairCounts, p, 0) = Occurrences(seqs, p)
    BY <1>9, <1>10 DEF Get
  <2> QED
    BY <1>4, <1>10, <2>1 DEF CountInv
<1>12. HeapInv
  <2> DEFINE f == [p \in InitialPairs |-> <<pairCounts[p], p[1], p[2]>>]
  <2>1. {f[p] : p \in InitialPairs} = heap
    BY <1>3
  <2>2. IsFiniteSet(heap)
    <3> HIDE DEF f
    <3> QED
      BY <1>4, <2>1, FiniteImage
  <2>3. ASSUME NEW p \in InitialPairs
        PROVE  pairCounts[p] \in Nat /\ pairCounts[p] > 0 /\ <<pairCounts[p], p[1], p[2]>> \in Entries
    <3>1. pairCounts[p] \in Nat /\ pairCounts[p] > 0 /\ p[1] \in Nat /\ p[2] \in Nat
      BY <1>4, <1>9, <1>10, PairIs
    <3> QED
      BY <3>1 DEF Entries
  <2>4. heap \subseteq Entries
    BY <1>3, <2>3
  <2>5. IsFiniteSet(changed) /\ changed \subseteq Pairs
    BY <1>3, FS_EmptySet
  <2>6. \A p \in DOMAIN pairCounts : pairCounts[p] > 0 /\ <<pairCounts[p], p[1], p[2]>> \in heap
    BY <1>3, <1>10, <2>3
  <2> QED
    BY <2>2, <2>4, <2>5, <2>6 DEF HeapInv
<1> QED
  BY <1>5, <1>6, <1>7, <1>11, <1>12 DEF TrainerInv

-----------------------------------------------------------------------------
(* What training decides                                                   *)

\* While choosing, the heap has the count of every pair that a word has, and the entry
\* on top, unless it is stale, is that of the most frequent pair.
LEMMA TopIsBest ==
  ASSUME TrainerInv, pc = "choose"
  PROVE  /\ \A p \in CurrentPairs :
              /\ p \in Pairs /\ Occurrences(seqs, p) \in Nat
              /\ <<Occurrences(seqs, p), p[1], p[2]>> \in heap
         /\ heap # {} => Top \in Entries /\ First(heap, Top) /\ TopPair \in Pairs
         /\ heap # {} /\ ~ Stale => Top = <<Occurrences(seqs, TopPair), TopPair[1], TopPair[2]>>
<1>1. WordsInv /\ (\A w \in Words : WordInv(w)) /\ CountInv /\ HeapInv
  BY DEF TrainerInv
<1>2. Countable(seqs, freqs) /\ DOMAIN seqs = Words /\ \A w \in Words : seqs[w] \in Seq(Nat)
  BY <1>1, WordsCount DEF WordsInv
<1>3. ASSUME NEW p \in CurrentPairs
      PROVE  /\ p \in Pairs /\ Occurrences(seqs, p) \in Nat
             /\ <<Occurrences(seqs, p), p[1], p[2]>> \in heap
  <2>1. PICK w \in Words : p \in PairsOf(seqs[w])
    BY DEF CurrentPairs
  <2>2. p \in Pairs
    BY <1>2, <2>1, CountIs
  <2>3. Occurrences(seqs, p) \in Nat /\ Occurrences(seqs, p) > 0
    BY <1>2, <2>1, TotalIs, OccurrencesIs
  <2>4. Get(pairCounts, p, 0) = Occurrences(seqs, p)
    BY <1>1, <2>2 DEF CountInv
  <2>5. p \in DOMAIN pairCounts /\ pairCounts[p] = Occurrences(seqs, p)
    BY <2>3, <2>4 DEF Get
  <2> QED
    BY <1>1, <2>2, <2>3, <2>5 DEF HeapInv
<1>4. ASSUME heap # {} PROVE Top \in Entries /\ First(heap, Top) /\ TopPair \in Pairs
  <2>1. IsFiniteSet(heap) /\ heap \subseteq Entries
    BY <1>1 DEF HeapInv
  <2>2. \E e : First(heap, e)
    BY <1>4, <2>1, FirstExists
  <2>3. First(heap, Top)
    BY <2>2 DEF First, Top
  <2>4. Top \in Entries
    BY <2>1, <2>3 DEF First
  <2> QED
    BY <2>3, <2>4 DEF Entries, Pairs, TopPair
<1>5. ASSUME heap # {}, ~ Stale
      PROVE  Top = <<Occurrences(seqs, TopPair), TopPair[1], TopPair[2]>>
  <2>1. Top \in Entries /\ TopPair \in Pairs
    BY <1>4, <1>5
  <2>2. Get(pairCounts, TopPair, 0) = Top[1]
    BY <1>5 DEF Stale
  <2>3. Occurrences(seqs, TopPair) = Top[1]
    BY <1>1, <2>1, <2>2 DEF CountInv
  <2>4. TopPair[1] = Top[2] /\ TopPair[2] = Top[3]
    BY DEF TopPair
  <2>5. Top = <<Top[1], Top[2], Top[3]>>
    BY <2>1 DEF Entries
  <2> QED
    BY <2>3, <2>4, <2>5
<1> QED
  BY <1>3, <1>4, <1>5

\* The pair chosen is one of a word, and no earlier merge.
LEMMA ChosenPair ==
  ASSUME TrainerInv, ChooseBest
  PROVE  /\ TopPair \in Pairs /\ TopPair \in CurrentPairs
         /\ TopPair[1] \in Below(Len(merges)) /\ TopPair[2] \in Below(Len(merges))
         /\ \A j \in 1 .. Len(merges) : merges[j] # TopPair
<1>1. pc = "choose" /\ heap # {} /\ ~ Stale /\ Top[1] >= minCount
  BY DEF ChooseBest, Choosing
<1>2. WordsInv /\ (\A w \in Words : WordInv(w))
  BY <1>1 DEF TrainerInv
<1>3. /\ Top = <<Occurrences(seqs, TopPair), TopPair[1], TopPair[2]>>
      /\ TopPair \in Pairs
  BY <1>1, TopIsBest
<1>4. /\ Countable(seqs, freqs) /\ DOMAIN seqs = Words
      /\ \A w \in Words : seqs[w] \in Seq(Nat)
  BY <1>2, WordsCount DEF WordsInv
<1>5. Occurrences(seqs, TopPair) > 0
  <2>1. Occurrences(seqs, TopPair) \in Nat
    BY <1>4, TotalIs, OccurrencesIs
  <2>2. minCount \in Nat \ {0}
    BY <1>2 DEF WordsInv
  <2>3. Occurrences(seqs, TopPair) >= minCount
    BY <1>1, <1>3
  <2> QED
    BY <2>1, <2>2, <2>3
<1>6. PICK w \in Words : TopPair \in PairsOf(seqs[w])
  BY <1>4, <1>5, TotalIs, OccurrencesIs
<1>7. MergesOf(w) = Len(merges)
  BY <1>1, <1>2 DEF WordsInv, MergesOf
<1>8. TopPair[1] \in Below(Len(merges)) /\ TopPair[2] \in Below(Len(merges))
  <2>1. PICK i \in 1 .. Len(seqs[w]) - 1 : TopPair = PairAt(seqs[w], i)
    BY <1>6 DEF PairsOf
  <2>2. seqs[w] \in Seq(Below(Len(merges)))
    BY <1>2, <1>7 DEF WordInv
  <2>3. i \in 1 .. Len(seqs[w]) /\ i + 1 \in 1 .. Len(seqs[w])
    BY <2>2
  <2>4. seqs[w][i] \in Below(Len(merges)) /\ seqs[w][i + 1] \in Below(Len(merges))
    BY <2>2, <2>3, ElementOfSeq
  <2> QED
    BY <2>1, <2>4 DEF PairAt
<1>9. \A j \in 1 .. Len(merges) : merges[j] # TopPair
  BY <1>2, <1>6, <1>7 DEF WordInv
<1> QED
  BY <1>3, <1>6, <1>8, <1>9 DEF CurrentPairs

\* The count of a pair before the pair is its heap entry.
LEMMA EntryIs ==
  ASSUME NEW n \in Nat, NEW p \in Pairs
  PROVE  <<n>> \o p = <<n, p[1], p[2]>>
<1>1. PICK a \in Nat, b \in Nat : p = <<a, b>>
  BY DEF Pairs
<1>2. /\ <<n>> \in Seq(Nat) /\ <<a, b>> \in Seq(Nat) /\ <<n, a, b>> \in Seq(Nat)
      /\ Len(<<n>>) = 1 /\ Len(<<a, b>>) = 2 /\ Len(<<n, a, b>>) = 3
  OBVIOUS
<1>3. <<n>> \o <<a, b>> \in Seq(Nat) /\ Len(<<n>> \o <<a, b>>) = 3
  BY <1>2, ConcatProperties
<1>4. \A i \in 1 .. 3 : (<<n>> \o <<a, b>>)[i] = <<n, a, b>>[i]
  OBVIOUS
<1>5. <<n>> \o <<a, b>> = <<n, a, b>>
  BY <1>2, <1>3, <1>4, SeqEqual
<1> QED
  BY <1>1, <1>5

\* DecidesAsCounted holds of every step.
LEMMA StepsDecideAsCounted ==
  ASSUME TrainerInv
  PROVE  /\ ChooseBest =>
              \A p \in CurrentPairs \ {best'} :
                Before(<<Occurrences(seqs, best')>> \o best', <<Occurrences(seqs, p)>> \o p)
         /\ RunOut => \A p \in CurrentPairs : Occurrences(seqs, p) < minCount
<1> DEFINE entry(p) == <<Occurrences(seqs, p), p[1], p[2]>>
<1>2. ASSUME ChooseBest, NEW p \in CurrentPairs \ {best'}
      PROVE  Before(<<Occurrences(seqs, best')>> \o best', <<Occurrences(seqs, p)>> \o p)
  <2>1. pc = "choose" /\ heap # {} /\ ~ Stale /\ best' = TopPair
    BY <1>2 DEF ChooseBest, Choosing
  <2>2. Top = entry(TopPair) /\ First(heap, Top) /\ TopPair \in Pairs
    BY <2>1, TopIsBest
  <2>3. p \in Pairs /\ entry(p) \in heap
    BY <2>1, TopIsBest
  <2>4. entry(p) # Top
    <3>1. entry(p)[2] = p[1] /\ entry(p)[3] = p[2] /\ TopPair = <<Top[2], Top[3]>>
      BY DEF TopPair
    <3>2. p # TopPair
      BY <2>1
    <3> QED
      BY <2>3, <3>1, <3>2, PairIs
  <2>5. Before(Top, entry(p))
    BY <2>2, <2>3, <2>4 DEF First
  <2>6. entry(TopPair) = <<Occurrences(seqs, TopPair)>> \o TopPair
    <3>1. Occurrences(seqs, TopPair) = Top[1] /\ Top[1] \in Nat
      BY <2>1, <2>2, TopIsBest DEF Entries
    <3> QED
      BY <2>2, <3>1, EntryIs
  <2>7. entry(p) = <<Occurrences(seqs, p)>> \o p
    <3>1. Occurrences(seqs, p) \in Nat
      BY <2>1, TopIsBest
    <3> QED
      BY <2>3, <3>1, EntryIs
  <2> HIDE DEF entry
  <2> QED
    BY <2>1, <2>2, <2>5, <2>6, <2>7
<1>3. ASSUME RunOut, NEW p \in CurrentPairs PROVE Occurrences(seqs, p) < minCount
  <2>1. pc = "choose" /\ (heap # {} => ~ Stale /\ Top[1] < minCount)
    BY <1>3 DEF RunOut, Choosing
  <2>2. p \in Pairs /\ entry(p) \in heap /\ Occurrences(seqs, p) \in Nat
    BY <2>1, TopIsBest
  <2>3. Top \in Entries /\ First(heap, Top) /\ Top[1] < minCount
    BY <2>1, <2>2, TopIsBest
  <2>4. entry(p) = Top \/ Before(Top, entry(p))
    BY <2>2, <2>3 DEF First
  <2>5. entry(p)[1] = Occurrences(seqs, p)
    OBVIOUS
  <2>6. Top[1] \in Nat /\ minCount \in Nat
    BY <2>1, <2>3 DEF Entries, TrainerInv, WordsInv
  <2>7. Top[1] >= entry(p)[1]
    <3> HIDE DEF entry
    <3> QED
      BY <2>2, <2>4, <2>5, <2>6 DEF Before
  <2> QED
    BY <2>2, <2>3, <2>5, <2>6, <2>7
<1> QED
  BY <1>2, <1>3

-----------------------------------------------------------------------------
(* The steps of training                                                   *)

\* A new merge of earlier ids keeps a merge list valid.
LEMMA ValidAppend ==
  ASSUME NEW merged \in Seq(Pairs), ValidMerges(merged), NEW pair \in Pairs,
         pair[1] \in Below(Len(merged)), pair[2] \in Below(Len(merged)),
         \A j \in 1 .. Len(merged) : merged[j] # pair
  PROVE  ValidMerges(Append(merged, pair))
<1>0. PICK longer : longer = Append(merged, pair)
  OBVIOUS
<1>1. PICK n \in Nat : longer = Append(merged, pair) /\ n = Len(merged)
  BY <1>0
<1>2. /\ DOMAIN longer = 1 .. n + 1 /\ longer[n + 1] = pair
      /\ \A j \in 1 .. n : longer[j] = merged[j]
  BY <1>1
<1>3. ASSUME NEW k \in 1 .. n + 1
      PROVE  /\ \A side \in 1 .. 2 : longer[k][side] \in 0 .. TokenOf(k - 1) - 1
             /\ \A j \in 1 .. k - 1 : longer[j] # longer[k]
  <2>1. CASE k = n + 1
    <3>1. longer[k] = pair /\ k - 1 = n
      BY <1>2, <2>1
    <3>2. \A side \in 1 .. 2 : longer[k][side] \in 0 .. TokenOf(k - 1) - 1
      BY <1>1, <3>1 DEF Below
    <3>3. \A j \in 1 .. k - 1 : longer[j] = merged[j] /\ merged[j] # pair
      BY <1>1, <1>2, <3>1
    <3> QED
      BY <3>1, <3>2, <3>3
  <2>2. CASE k # n + 1
    <3>1. k \in DOMAIN merged /\ k \in 1 .. n /\ \A j \in 1 .. k - 1 : j \in 1 .. n
      BY <1>1, <2>2
    <3>2. longer[k] = merged[k] /\ \A j \in 1 .. k - 1 : longer[j] = merged[j]
      BY <1>2, <3>1
    <3> QED
      BY <3>1, <3>2 DEF ValidMerges
  <2> QED
    BY <2>1, <2>2
<1> QED
  BY <1>1, <1>2, <1>3 DEF ValidMerges

\* A stale entry is none of those the heap must have.
LEMMA SkipStaleKeeps ==
  ASSUME TrainerInv, SkipStale
  PROVE  TrainerInv'
<1>1. /\ pc = "choose" /\ heap # {} /\ Stale /\ heap' = heap \ {Top}
      /\ UNCHANGED <<freqs, minCount, seqs, pairCounts, pairWords, merges, best, todo, changed, pc>>
  BY DEF SkipStale, Choosing, input
<1>2. WordsInv /\ (\A w \in Words : WordInv(w)) /\ IndexInv /\ CountInv /\ HeapInv
  BY <1>1 DEF TrainerInv
<1>3. WordsInv'
  BY <1>1, <1>2 DEF WordsInv, Words
<1>4. \A w \in Words' : WordInv(w)'
  <2>1. Words' = Words /\ \A w \in Words : MergesOf(w)' = MergesOf(w)
    BY <1>1 DEF Words, MergesOf
  <2> QED
    BY <1>1, <1>2, <2>1 DEF WordInv
<1>5. IndexInv'
  BY <1>1, <1>2 DEF IndexInv, Words
<1>6. CountInv'
  BY <1>1, <1>2 DEF CountInv, Occurrences
<1>7. HeapInv'
  <2>1. IsFiniteSet(heap') /\ heap' \subseteq Entries
    BY <1>1, <1>2, FS_RemoveElement DEF HeapInv
  <2>2. ASSUME NEW p \in DOMAIN pairCounts
        PROVE  pairCounts[p] > 0 /\ <<pairCounts[p], p[1], p[2]>> \in heap'
    <3>1. pairCounts[p] > 0 /\ <<pairCounts[p], p[1], p[2]>> \in heap
      BY <1>1, <1>2 DEF HeapInv
    <3>2. p \in Pairs
      BY <1>2 DEF CountInv
    <3>3. ASSUME <<pairCounts[p], p[1], p[2]>> = Top PROVE FALSE
      <4>1. TopPair = p /\ Top[1] = pairCounts[p]
        BY <3>2, <3>3, PairIs DEF TopPair
      <4>2. Get(pairCounts, p, 0) = pairCounts[p]
        BY DEF Get
      <4> QED
        BY <1>1, <4>1, <4>2 DEF Stale
    <3> QED
      BY <1>1, <3>1, <3>3
  <2> QED
    BY <1>1, <1>2, <2>1, <2>2 DEF HeapInv
<1> QED
  BY <1>3, <1>4, <1>5, <1>6, <1>7 DEF TrainerInv

\* The entry chosen is the only one the heap loses, and its pair is now being merged.
LEMMA ChooseBestKeeps ==
  ASSUME TrainerInv, ChooseBest
  PROVE  TrainerInv'
<1>1. /\ pc = "choose" /\ heap # {} /\ ~ Stale /\ heap' = heap \ {Top}
      /\ best' = TopPair /\ merges' = Append(merges, TopPair)
      /\ todo' = Get(pairWords, TopPair, {}) /\ pairWords' = Without(pairWords, {TopPair})
      /\ changed' = {} /\ pc' = "merge"
      /\ UNCHANGED <<freqs, minCount, seqs, pairCounts>>
  BY DEF ChooseBest, Choosing, input
<1>2. WordsInv /\ (\A w \in Words : WordInv(w)) /\ IndexInv /\ CountInv /\ HeapInv
  BY <1>1 DEF TrainerInv
<1>3. /\ TopPair \in Pairs /\ TopPair[1] \in Below(Len(merges)) /\ TopPair[2] \in Below(Len(merges))
      /\ \A j \in 1 .. Len(merges) : merges[j] # TopPair
  BY ChosenPair
<1>4. PICK n \in Nat : n = Len(merges)
  BY <1>2, WordsCount
<1>5. /\ merges \in Seq(Pairs) /\ merges' \in Seq(Pairs) /\ Len(merges') = n + 1
      /\ merges'[n + 1] = TopPair /\ \A j \in 1 .. n : merges'[j] = merges[j]
  BY <1>1, <1>2, <1>3, <1>4 DEF WordsInv
<1>6. Words' = Words /\ todo = {}
  BY <1>1, <1>2 DEF Words, WordsInv
<1>7. WordsInv'
  <2>1. ValidMerges(merges')
    BY <1>1, <1>2, <1>3, ValidAppend DEF WordsInv
  <2>2. todo' \subseteq Words
    BY <1>1, <1>2 DEF IndexInv, Get
  <2>3. merges' # <<>> /\ best' = merges'[Len(merges')]
    BY <1>1, <1>5
  <2> QED
    BY <1>1, <1>2, <1>5, <1>6, <2>1, <2>2, <2>3 DEF WordsInv
<1>8. ASSUME NEW w \in Words PROVE WordInv(w)'
  <2>1. MergesOf(w) = n
    BY <1>4, <1>6 DEF MergesOf
  <2>2. /\ seqs[w] \in Seq(Below(n)) /\ seqs[w] = ApplyInOrder(SubSeq(merges, 1, n), w)
        /\ \A j \in 1 .. n : merges[j] \notin PairsOf(seqs[w])
    BY <1>2, <2>1 DEF WordInv
  <2>3. SubSeq(merges, 1, n) = merges /\ SubSeq(merges', 1, n) = merges
    <3>1. SubSeq(merges', 1, n) = SubSeq(merges, 1, n)
      BY <1>4, <1>5
    <3>2. SubSeq(merges, 1, n) = merges
      BY <1>4, <1>5, SubSeqFull
    <3> QED
      BY <3>1, <3>2
  <2>4. CASE w \in todo'
    <3>1. MergesOf(w)' = n
      BY <1>5, <2>4 DEF MergesOf
    <3> QED
      BY <1>1, <1>5, <2>2, <2>3, <3>1 DEF WordInv
  <2>5. CASE w \notin todo'
    <3>1. MergesOf(w)' = n + 1
      BY <1>5, <2>5 DEF MergesOf
    <3>2. TopPair \notin PairsOf(seqs[w])
      BY <1>1, <1>2, <2>5 DEF IndexInv
    <3>3. seqs[w] \in Seq(Below(n + 1)) /\ seqs[w] \in Seq(Nat) /\ TokenOf(n) \in Nat
      <4>1. Below(n) \subseteq Below(n + 1)
        BY ByteVocabAssumption DEF Below, TokenOf
      <4>2. seqs[w] \in Seq(Below(n + 1))
        BY <2>2, <4>1, SeqMonotonic
      <4> QED
        BY <2>2, <4>2, MergeBelow
    <3>4. w \in Seq(Nat)
      BY <1>2, WordAtFirst DEF WordsInv
    <3>5. ApplyInOrder(SubSeq(merges', 1, n + 1), w)
            = Merge(ApplyInOrder(SubSeq(merges', 1, n), w), TopPair, TokenOf(n))
      <4>1. n + 1 \in 1 .. Len(merges') /\ (n + 1) - 1 = n
        BY <1>5
      <4> QED
        BY <1>5, <3>4, <4>1, ApplyPrefix
    <3>6. ApplyInOrder(SubSeq(merges', 1, n + 1), w) = seqs[w]
      BY <2>2, <2>3, <3>2, <3>3, <3>5, MergeNothing
    <3>7. \A j \in 1 .. n + 1 : merges'[j] \notin PairsOf(seqs[w])
      <4>1. \A j \in 1 .. n + 1 : j \in 1 .. n \/ j = n + 1
        OBVIOUS
      <4> QED
        BY <1>5, <2>2, <3>2, <4>1
    <3> QED
      BY <1>1, <3>1, <3>3, <3>6, <3>7 DEF WordInv
  <2> QED
    BY <2>4, <2>5
<1>9. IndexInv'
  <2>1. DOMAIN pairWords' = DOMAIN pairWords \ {TopPair}
        /\ \A p \in DOMAIN pairWords \ {TopPair} : pairWords'[p] = pairWords[p]
    BY <1>1 DEF Without
  <2>2. \A p \in DOMAIN pairWords' : pairWords'[p] \subseteq Words
    BY <1>2, <2>1 DEF IndexInv
  <2>3. ASSUME NEW w \in Words, NEW p \in PairsOf(seqs[w]), p # TopPair
        PROVE  w \in Get(pairWords', p, {})
    <3>1. w \in Get(pairWords, p, {})
      BY <1>1, <1>2 DEF IndexInv
    <3> QED
      BY <2>1, <2>3, <3>1 DEF Get
  <2> QED
    BY <1>1, <1>6, <2>2, <2>3 DEF IndexInv
<1>10. CountInv'
  BY <1>1, <1>2 DEF CountInv, Occurrences
<1>11. HeapInv'
  <2>1. /\ IsFiniteSet(heap') /\ heap' \subseteq Entries
        /\ IsFiniteSet(changed') /\ changed' \subseteq Pairs
    BY <1>1, <1>2, FS_RemoveElement, FS_EmptySet DEF HeapInv
  <2>2. ASSUME NEW p \in DOMAIN pairCounts, p # TopPair
        PROVE  pairCounts[p] > 0 /\ <<pairCounts[p], p[1], p[2]>> \in heap'
    <3>1. pairCounts[p] > 0 /\ <<pairCounts[p], p[1], p[2]>> \in heap
      BY <1>1, <1>2 DEF HeapInv
    <3>2. p \in Pairs
      BY <1>2 DEF CountInv
    <3>3. ASSUME <<pairCounts[p], p[1], p[2]>> = Top PROVE FALSE
      BY <2>2, <3>2, <3>3, PairIs DEF TopPair
    <3> QED
      BY <1>1, <3>1, <3>3
  <2> QED
    BY <1>1, <2>1, <2>2 DEF HeapInv
<1> QED
  BY <1>6, <1>7, <1>8, <1>9, <1>10, <1>11 DEF TrainerInv

\* What MergeWord does to a word, its pairs, the counts and the index.
LEMMA MergeWordDoes ==
  ASSUME TrainerInv, NEW w \in todo, MergeWord(w)
  PROVE  \E new \in Seq(Nat), moved \in SUBSET Pairs :
           /\ new = Merge(seqs[w], best, TokenOf(Len(merges) - 1))
           /\ seqs' = [seqs EXCEPT ![w] = new]
           /\ IsFiniteSet(moved) /\ changed' = changed \cup moved
           /\ \A p \in PairsOf(new) \cup PairsOf(seqs[w]) :
                p \in moved <=> PairCount(new, p) # PairCount(seqs[w], p)
           /\ DOMAIN pairCounts' = DOMAIN pairCounts \cup moved
           /\ \A p \in DOMAIN pairCounts \ moved : pairCounts'[p] = pairCounts[p]
           /\ \A p \in moved : pairCounts'[p] = Get(pairCounts, p, 0)
                                 + (PairCount(new, p) - PairCount(seqs[w], p)) * freqs[w]
           /\ \A p \in Pairs : Get(pairCounts', p, 0) = Get(pairCounts, p, 0)
                                 + (PairCount(new, p) - PairCount(seqs[w], p)) * freqs[w]
           /\ \A p \in DOMAIN pairWords' : pairWords'[p] \subseteq Words
           /\ \A p : Get(pairWords, p, {}) \subseteq Get(pairWords', p, {})
           /\ \A p \in moved : PairCount(new, p) > PairCount(seqs[w], p) =>
                                 w \in Get(pairWords', p, {})
<1>1. PICK new : new = Merge(seqs[w], best, TokenOf(Len(merges) - 1))
  OBVIOUS
<1> DEFINE Delta(p) == PairCount(new, p) - PairCount(seqs[w], p)
<1>2. PICK moved : moved = {p \in PairsOf(new) \cup PairsOf(seqs[w]) : Delta(p) # 0}
  OBVIOUS
<1>3. PICK more : more = {p \in moved : Delta(p) > 0}
  OBVIOUS
<1>4. /\ pc = "merge" /\ seqs' = [seqs EXCEPT ![w] = new] /\ changed' = changed \cup moved
      /\ pairCounts' = [p \in DOMAIN pairCounts \cup moved |->
                          IF p \in moved THEN Get(pairCounts, p, 0) + Delta(p) * freqs[w]
                                         ELSE pairCounts[p]]
      /\ pairWords' = [p \in DOMAIN pairWords \cup more |->
                         IF p \in more THEN Get(pairWords, p, {}) \cup {w} ELSE pairWords[p]]
  BY <1>1, <1>2, <1>3 DEF MergeWord, Put
<1>5. WordsInv /\ (\A v \in Words : WordInv(v)) /\ IndexInv /\ CountInv
  BY <1>4 DEF TrainerInv
<1>6. w \in Words /\ MergesOf(w) \in Nat /\ seqs[w] \in Seq(Nat) /\ MergesOf(w) = Len(merges) - 1
  BY <1>5, WordsCount DEF WordsInv, MergesOf
<1>7. new \in Seq(Nat)
  BY <1>1, <1>6, TokenIsNat, MergeHolds
<1>8. /\ IsFiniteSet(PairsOf(new)) /\ IsFiniteSet(PairsOf(seqs[w]))
      /\ PairsOf(new) \subseteq Pairs /\ PairsOf(seqs[w]) \subseteq Pairs
      /\ \A p : /\ PairCount(new, p) \in Nat /\ PairCount(seqs[w], p) \in Nat
                /\ p \in PairsOf(new) <=> PairCount(new, p) > 0
                /\ p \in PairsOf(seqs[w]) <=> PairCount(seqs[w], p) > 0
  BY <1>6, <1>7, CountIs
<1>9. IsFiniteSet(moved) /\ moved \in SUBSET Pairs
  <2>1. IsFiniteSet(PairsOf(new) \cup PairsOf(seqs[w]))
    BY <1>8, FS_Union
  <2>2. moved \in SUBSET (PairsOf(new) \cup PairsOf(seqs[w]))
    BY <1>2
  <2> QED
    BY <1>8, <2>1, <2>2, FS_Subset
<1>10. \A p \in PairsOf(new) \cup PairsOf(seqs[w]) :
         p \in moved <=> PairCount(new, p) # PairCount(seqs[w], p)
  BY <1>2, <1>8
<1>11. /\ DOMAIN pairCounts' = DOMAIN pairCounts \cup moved
       /\ \A p \in DOMAIN pairCounts \ moved : pairCounts'[p] = pairCounts[p]
       /\ \A p \in moved : pairCounts'[p] = Get(pairCounts, p, 0) + Delta(p) * freqs[w]
  BY <1>4
<1>12. ASSUME NEW p \in Pairs
       PROVE  Get(pairCounts', p, 0) = Get(pairCounts, p, 0) + Delta(p) * freqs[w]
  <2>1. CASE p \in moved
    BY <1>11, <2>1 DEF Get
  <2>2. CASE p \notin moved
    <3>1. Delta(p) = 0
      BY <1>2, <1>8, <2>2
    <3>2. Get(pairCounts', p, 0) = Get(pairCounts, p, 0)
      BY <1>11, <2>2 DEF Get
    <3>3. PICK n \in Nat : n = freqs[w]
      BY <1>5, <1>6 DEF WordsInv
    <3>4. PICK c \in Nat : c = Get(pairCounts, p, 0)
      <4>1. Countable(seqs, freqs)
        BY <1>5, WordsCount
      <4> QED
        BY <1>5, <4>1, TotalIs, OccurrencesIs DEF CountInv
    <3> QED
      BY <3>1, <3>2, <3>3, <3>4
  <2> QED
    BY <2>1, <2>2
<1>13. /\ DOMAIN pairWords' = DOMAIN pairWords \cup more
       /\ \A p \in DOMAIN pairWords \ more : pairWords'[p] = pairWords[p]
       /\ \A p \in more : pairWords'[p] = Get(pairWords, p, {}) \cup {w}
  BY <1>4
<1>14. \A p : Get(pairWords, p, {}) \subseteq Words
  BY <1>5 DEF IndexInv, Get
<1>15. \A p \in DOMAIN pairWords' : pairWords'[p] \subseteq Words
  BY <1>5, <1>6, <1>13, <1>14 DEF IndexInv
<1>16. \A p : Get(pairWords, p, {}) \subseteq Get(pairWords', p, {})
  BY <1>13 DEF Get
<1>17. \A p \in moved : PairCount(new, p) > PairCount(seqs[w], p) => w \in Get(pairWords', p, {})
  BY <1>3, <1>8, <1>13 DEF Get
<1> QED
  BY <1>1, <1>4, <1>7, <1>9, <1>10, <1>11, <1>12, <1>15, <1>16, <1>17

\* A merge that applies after those before it were exhausted exhausts itself: the ids it
\* makes are in no earlier merge.
LEMMA MergeLeavesNone ==
  ASSUME NEW merged \in Seq(Pairs), ValidMerges(merged), NEW k \in 1 .. Len(merged),
         NEW seq \in Seq(Below(k - 1)),
         \A j \in 1 .. k - 1 : merged[j] \notin PairsOf(seq)
  PROVE  /\ Merge(seq, merged[k], TokenOf(k - 1)) \in Seq(Below(k))
         /\ \A j \in 1 .. k : merged[j] \notin PairsOf(Merge(seq, merged[k], TokenOf(k - 1)))
<1>1. PICK n \in Nat : k = n + 1
  <2>1. k - 1 \in Nat /\ k = (k - 1) + 1
    OBVIOUS
  <2> QED
    BY <2>1
<1>2. k - 1 = n /\ seq \in Seq(Below(n))
  BY <1>1
<1>3. PICK new : new = Merge(seq, merged[k], TokenOf(n))
  OBVIOUS
<1>4. new \in Seq(Below(n + 1)) /\ seq \in Seq(Nat) /\ TokenOf(n) \in Nat
  BY <1>2, <1>3, MergeBelow
<1>5. ASSUME NEW j \in 1 .. k PROVE merged[j] \notin PairsOf(new)
  <2>1. j \in DOMAIN merged
    OBVIOUS
  <2>2. merged[j][1] < TokenOf(n) /\ merged[j][2] < TokenOf(n)
    <3>1. \A side \in 1 .. 2 : merged[j][side] \in 0 .. TokenOf(j - 1) - 1
      BY <2>1 DEF ValidMerges
    <3>2. TokenOf(j - 1) <= TokenOf(n) /\ TokenOf(j - 1) \in Nat
      BY <1>1, ByteVocabAssumption DEF TokenOf
    <3>3. merged[j][1] \in 0 .. TokenOf(j - 1) - 1 /\ merged[j][2] \in 0 .. TokenOf(j - 1) - 1
      BY <3>1
    <3>4. \A x \in 0 .. TokenOf(j - 1) - 1 : x < TokenOf(n)
      BY <1>4, <3>2
    <3> QED
      BY <3>3, <3>4
  <2>3. \A p \in PairsOf(new) :
          p[1] = TokenOf(n) \/ p[2] = TokenOf(n) \/ (p \in PairsOf(seq) /\ p # merged[k])
    BY <1>3, <1>4, MergeHolds
  <2>4. j \in 1 .. k - 1 \/ j = k
    OBVIOUS
  <2>5. merged[j][1] # TokenOf(n) /\ merged[j][2] # TokenOf(n)
    BY <1>4, <2>2
  <2> QED
    BY <2>3, <2>4, <2>5
<1> QED
  BY <1>1, <1>2, <1>3, <1>4, <1>5

\* The word that was visited has had all merges.
LEMMA MergedWord ==
  ASSUME TrainerInv, NEW w \in todo, MergeWord(w)
  PROVE  WordInv(w)' /\ best \notin PairsOf(seqs'[w])
<1>1. PICK new \in Seq(Nat) :
        new = Merge(seqs[w], best, TokenOf(Len(merges) - 1)) /\ seqs' = [seqs EXCEPT ![w] = new]
  BY MergeWordDoes
<1>2. pc = "merge" /\ todo' = todo \ {w} /\ merges' = merges
  BY DEF MergeWord
<1>3. WordsInv /\ WordInv(w) /\ w \in Words /\ \A v \in Words : WordInv(v)
  BY <1>2 DEF TrainerInv, WordsInv
<1>4. PICK n \in Nat : n = MergesOf(w) /\ Len(merges) = n + 1
  <2>1. MergesOf(w) \in Nat /\ Len(merges) \in Nat
    BY <1>3, WordsCount
  <2>2. Len(merges) = MergesOf(w) + 1
    BY <2>1 DEF MergesOf
  <2> QED
    BY <2>1, <2>2
<1>5. /\ merges \in Seq(Pairs) /\ ValidMerges(merges) /\ best = merges[n + 1]
      /\ seqs'[w] = new /\ new = Merge(seqs[w], best, TokenOf(n))
  BY <1>1, <1>2, <1>3, <1>4 DEF WordsInv
<1>6. /\ seqs[w] \in Seq(Below(n)) /\ seqs[w] = ApplyInOrder(SubSeq(merges, 1, n), w)
      /\ \A j \in 1 .. n : merges[j] \notin PairsOf(seqs[w])
  BY <1>3, <1>4 DEF WordInv
<1>7. new \in Seq(Below(n + 1)) /\ \A j \in 1 .. n + 1 : merges[j] \notin PairsOf(new)
  <2>1. n + 1 \in 1 .. Len(merges) /\ (n + 1) - 1 = n
    BY <1>4
  <2> QED
    BY <1>5, <1>6, <2>1, MergeLeavesNone
<1>8. new = ApplyInOrder(SubSeq(merges, 1, n + 1), w)
  <2>1. w \in Seq(Nat)
    BY <1>3, WordAtFirst DEF WordsInv
  <2>2. n + 1 \in 1 .. Len(merges) /\ (n + 1) - 1 = n
    BY <1>4
  <2>3. ApplyInOrder(SubSeq(merges, 1, n + 1), w)
          = Merge(ApplyInOrder(SubSeq(merges, 1, n), w), merges[n + 1], TokenOf(n))
    BY <1>5, <2>1, <2>2, ApplyPrefix
  <2> QED
    BY <1>5, <1>6, <2>3
<1>9. MergesOf(w)' = n + 1
  BY <1>2, <1>4 DEF MergesOf
<1>10. n + 1 \in 1 .. n + 1
  OBVIOUS
<1> QED
  BY <1>2, <1>5, <1>7, <1>8, <1>9, <1>10 DEF WordInv

\* A word that is merged gets all merges, and its own pairs are recounted and indexed.
LEMMA MergeWordKeeps ==
  ASSUME TrainerInv, NEW w \in todo, MergeWord(w)
  PROVE  TrainerInv'
<1>1. PICK new \in Seq(Nat), moved \in SUBSET Pairs :
        /\ seqs' = [seqs EXCEPT ![w] = new]
        /\ IsFiniteSet(moved) /\ changed' = changed \cup moved
        /\ \A p \in PairsOf(new) \cup PairsOf(seqs[w]) :
             p \in moved <=> PairCount(new, p) # PairCount(seqs[w], p)
        /\ DOMAIN pairCounts' = DOMAIN pairCounts \cup moved
        /\ \A p \in DOMAIN pairCounts \ moved : pairCounts'[p] = pairCounts[p]
        /\ \A p \in Pairs : Get(pairCounts', p, 0) = Get(pairCounts, p, 0)
                              + (PairCount(new, p) - PairCount(seqs[w], p)) * freqs[w]
        /\ \A p \in DOMAIN pairWords' : pairWords'[p] \subseteq Words
        /\ \A p : Get(pairWords, p, {}) \subseteq Get(pairWords', p, {})
        /\ \A p \in moved : PairCount(new, p) > PairCount(seqs[w], p) =>
                              w \in Get(pairWords', p, {})
  BY MergeWordDoes
<1>2. /\ pc = "merge" /\ todo' = todo \ {w}
      /\ UNCHANGED <<freqs, minCount, heap, merges, best, pc>>
  BY DEF MergeWord, input
<1>3. WordsInv /\ (\A v \in Words : WordInv(v)) /\ IndexInv /\ CountInv /\ HeapInv
  BY <1>2 DEF TrainerInv
<1>4. /\ w \in Words /\ Words' = Words /\ Countable(seqs, freqs) /\ seqs[w] \in Seq(Nat)
      /\ DOMAIN seqs = Words
  BY <1>2, <1>3, WordsCount DEF WordsInv, Words
<1>5. WordsInv'
  <2>1. DOMAIN seqs' = Words
    BY <1>1, <1>4
  <2> QED
    BY <1>2, <1>3, <1>4, <2>1 DEF WordsInv
<1>6. ASSUME NEW v \in Words PROVE WordInv(v)'
  <2>1. CASE v = w
    BY <2>1, MergedWord
  <2>2. CASE v # w
    <3>1. MergesOf(v)' = MergesOf(v) /\ seqs'[v] = seqs[v]
      BY <1>1, <1>2, <1>4, <2>2 DEF MergesOf
    <3> QED
      BY <1>2, <1>3, <3>1 DEF WordInv
  <2> QED
    BY <2>1, <2>2
<1>7. IndexInv'
  <2>1. ASSUME NEW v \in Words, NEW p \in PairsOf(seqs'[v]), p # best
        PROVE  v \in Get(pairWords', p, {})
    <3>1. CASE v # w \/ p \in PairsOf(seqs[w])
      <4>1. p \in PairsOf(seqs[v])
        BY <1>1, <1>4, <3>1, <2>1
      <4>2. v \in Get(pairWords, p, {})
        BY <1>3, <2>1, <4>1 DEF IndexInv
      <4> QED
        BY <1>1, <4>2
    <3>2. CASE v = w /\ p \notin PairsOf(seqs[w])
      <4>1. p \in PairsOf(new)
        BY <1>1, <1>4, <2>1, <3>2
      <4>2. PairCount(new, p) > 0
        BY <4>1, CountIs
      <4>3. PairCount(seqs[w], p) \in Nat /\ ~ (PairCount(seqs[w], p) > 0)
        BY <1>4, <3>2, CountIs
      <4>4. p \in moved /\ PairCount(new, p) > PairCount(seqs[w], p)
        <5>1. PairCount(new, p) # PairCount(seqs[w], p)
          BY <4>2, <4>3
        <5>2. PairCount(seqs[w], p) = 0
          BY <4>3
        <5> QED
          BY <1>1, <4>1, <4>2, <5>1, <5>2
      <4> QED
        BY <1>1, <3>2, <4>4
    <3> QED
      BY <3>1, <3>2
  <2> QED
    BY <1>1, <1>2, <1>4, <2>1 DEF IndexInv
<1>8. CountInv'
  <2>1. ASSUME NEW p \in Pairs PROVE Get(pairCounts', p, 0) = Occurrences(seqs, p)'
    <3>1. Total(seqs', freqs, p)
            = Total(seqs, freqs, p) + (PairCount(new, p) - PairCount(seqs[w], p)) * freqs[w]
      <4>1. Total([seqs EXCEPT ![w] = new], freqs, p)
              = Total(seqs, freqs, p) + (PairCount(new, p) - PairCount(seqs[w], p)) * freqs[w]
        <5>1. Countable(seqs, freqs) /\ w \in DOMAIN seqs /\ new \in Seq(Nat)
          BY <1>4
        <5> QED
          BY <5>1, TotalChanges
      <4> QED
        BY <1>1, <4>1
    <3>2. Get(pairCounts, p, 0) = Total(seqs, freqs, p)
      BY <1>3, OccurrencesIs DEF CountInv
    <3>3. Occurrences(seqs, p)' = Total(seqs', freqs, p)
      BY <1>2, OccurrencesIs
    <3> QED
      BY <1>1, <3>1, <3>2, <3>3
  <2>2. DOMAIN pairCounts' \subseteq Pairs
    BY <1>1, <1>3 DEF CountInv
  <2> QED
    BY <2>1, <2>2 DEF CountInv
<1>9. HeapInv'
  <2>1. IsFiniteSet(changed') /\ changed' \subseteq Pairs
    BY <1>1, <1>3, FS_Union DEF HeapInv
  <2>2. ASSUME NEW p \in DOMAIN pairCounts', p \notin changed' \cup {best}
        PROVE  pairCounts'[p] > 0 /\ <<pairCounts'[p], p[1], p[2]>> \in heap
    <3>1. p \in DOMAIN pairCounts /\ p \notin moved /\ p \notin changed
      BY <1>1, <2>2
    <3>2. pairCounts'[p] = pairCounts[p]
      BY <1>1, <3>1
    <3> QED
      BY <1>3, <2>2, <3>1, <3>2 DEF HeapInv
  <2> QED
    BY <1>2, <1>3, <2>1, <2>2 DEF HeapInv
<1> QED
  BY <1>4, <1>5, <1>6, <1>7, <1>8, <1>9 DEF TrainerInv

\* When the last word is merged, every changed count that is left has been pushed.
LEMMA FinishMergeKeeps ==
  ASSUME TrainerInv, FinishMerge
  PROVE  TrainerInv'
<1>1. PICK counts : counts = Without(pairCounts, {best})
  OBVIOUS
<1>2. PICK live : live = {p \in changed : Get(counts, p, 0) > 0}
  OBVIOUS
<1>3. /\ pc = "merge" /\ todo = {} /\ pc' = "choose"
      /\ heap' = heap \cup {<<counts[p], p[1], p[2]>> : p \in live}
      /\ pairCounts' = Without(counts, changed \ live)
      /\ UNCHANGED <<freqs, minCount, seqs, pairWords, merges, todo, changed>>
  BY <1>1, <1>2 DEF FinishMerge, input
<1>4. WordsInv /\ (\A w \in Words : WordInv(w)) /\ IndexInv /\ CountInv /\ HeapInv
  BY <1>3 DEF TrainerInv
<1>5. /\ Words' = Words /\ Countable(seqs, freqs) /\ DOMAIN seqs = Words
      /\ \A w \in Words : seqs[w] \in Seq(Nat)
  BY <1>3, <1>4, WordsCount DEF WordsInv, Words
<1>6. \A w \in Words : best \notin PairsOf(seqs[w])
  <2>1. merges # <<>> /\ best = merges[Len(merges)] /\ merges \in Seq(Pairs)
    BY <1>3, <1>4 DEF WordsInv
  <2>2. Len(merges) \in 1 .. Len(merges)
    BY <2>1, EmptySeq
  <2>3. \A w \in Words : MergesOf(w) = Len(merges)
    BY <1>3 DEF MergesOf
  <2> QED
    BY <1>4, <2>1, <2>2, <2>3 DEF WordInv
<1>7. WordsInv'
  BY <1>3, <1>4, <1>5 DEF WordsInv
<1>8. \A w \in Words : WordInv(w)'
  <2>1. \A w \in Words : MergesOf(w)' = MergesOf(w)
    BY <1>3 DEF MergesOf
  <2> QED
    BY <1>3, <1>4, <2>1 DEF WordInv
<1>9. IndexInv'
  <2>1. ASSUME NEW w \in Words, NEW p \in PairsOf(seqs[w]) PROVE w \in Get(pairWords, p, {})
    BY <1>4, <1>6 DEF IndexInv
  <2> QED
    BY <1>3, <1>4, <1>5, <2>1 DEF IndexInv
<1>10. /\ DOMAIN counts = DOMAIN pairCounts \ {best}
       /\ \A p \in DOMAIN counts : counts[p] = pairCounts[p]
       /\ DOMAIN pairCounts' = DOMAIN counts \ (changed \ live)
       /\ \A p \in DOMAIN pairCounts' : pairCounts'[p] = counts[p]
  BY <1>1, <1>3 DEF Without
<1>11. ASSUME NEW p \in Pairs
       PROVE  /\ Occurrences(seqs, p) \in Nat
              /\ Get(pairCounts, p, 0) = Occurrences(seqs, p)
              /\ Get(counts, p, 0) = Occurrences(seqs, p)
              /\ Get(pairCounts', p, 0) = Occurrences(seqs, p)
  <2>1. /\ Occurrences(seqs, p) \in Nat
        /\ Occurrences(seqs, p) > 0 <=> \E w \in Words : p \in PairsOf(seqs[w])
    BY <1>5, TotalIs, OccurrencesIs
  <2>2. Get(pairCounts, p, 0) = Occurrences(seqs, p)
    BY <1>4 DEF CountInv
  <2>3. p = best => Occurrences(seqs, p) = 0
    BY <1>6, <2>1
  <2>4. Get(counts, p, 0) = Occurrences(seqs, p)
    BY <1>10, <2>2, <2>3 DEF Get
  <2>5. p \in changed \ live => Occurrences(seqs, p) = 0
    BY <1>2, <2>1, <2>4
  <2>6. Get(pairCounts', p, 0) = Occurrences(seqs, p)
    BY <1>10, <2>4, <2>5 DEF Get
  <2> QED
    BY <2>1, <2>2, <2>4, <2>6
<1>12. CountInv'
  <2>1. \A p \in Pairs : Occurrences(seqs, p)' = Occurrences(seqs, p)
    BY <1>3 DEF Occurrences
  <2>2. DOMAIN pairCounts' \subseteq Pairs
    BY <1>4, <1>10 DEF CountInv
  <2> QED
    BY <1>11, <2>1, <2>2 DEF CountInv
<1>13. HeapInv'
  <2> DEFINE f == [p \in live |-> <<counts[p], p[1], p[2]>>]
  <2>1. /\ IsFiniteSet(changed) /\ changed \subseteq Pairs
        /\ IsFiniteSet(heap) /\ heap \subseteq Entries
    BY <1>4 DEF HeapInv
  <2>2. live \in SUBSET changed
    BY <1>2
  <2>3. IsFiniteSet({<<counts[p], p[1], p[2]>> : p \in live})
    <3>1. {f[p] : p \in live} = {<<counts[p], p[1], p[2]>> : p \in live}
      OBVIOUS
    <3>2. IsFiniteSet(live)
      BY <2>1, <2>2, FS_Subset
    <3> HIDE DEF f
    <3> QED
      BY <3>1, <3>2, FiniteImage
  <2>4. IsFiniteSet(heap')
    BY <1>3, <2>1, <2>3, FS_Union
  <2>5. ASSUME NEW p \in live
        PROVE  /\ p \in DOMAIN counts /\ counts[p] > 0
               /\ <<counts[p], p[1], p[2]>> \in Entries
    <3>1. p \in Pairs /\ Get(counts, p, 0) > 0 /\ Get(counts, p, 0) \in Nat
      BY <1>2, <1>11, <2>1, <2>2
    <3>2. p \in DOMAIN counts /\ counts[p] \in Nat /\ counts[p] > 0
      BY <3>1 DEF Get
    <3>3. p[1] \in Nat /\ p[2] \in Nat
      BY <3>1, PairIs
    <3> QED
      BY <3>2, <3>3 DEF Entries
  <2>6. heap' \subseteq Entries
    BY <1>3, <2>1, <2>5
  <2>7. ASSUME NEW p \in DOMAIN pairCounts'
        PROVE  pairCounts'[p] > 0 /\ <<pairCounts'[p], p[1], p[2]>> \in heap'
    <3>1. p \in DOMAIN pairCounts /\ p # best /\ pairCounts'[p] = counts[p] /\ counts[p] = pairCounts[p]
      BY <1>10
    <3>2. CASE p \in live
      BY <1>3, <2>5, <3>1, <3>2
    <3>3. CASE p \notin live
      <4>1. p \notin changed
        BY <1>10, <3>3
      <4> QED
        BY <1>3, <1>4, <3>1, <4>1 DEF HeapInv
    <3> QED
      BY <3>2, <3>3
  <2> QED
    BY <1>3, <2>1, <2>4, <2>6, <2>7 DEF HeapInv
<1> QED
  BY <1>5, <1>7, <1>8, <1>9, <1>12, <1>13 DEF TrainerInv

-----------------------------------------------------------------------------
(* What holds of every state                                               *)

\* Training without a step of it changes nothing that TrainerInv is about.
LEMMA TrainKeeps ==
  ASSUME TrainerInv, Train
  PROVE  TrainerInv'
<1>1. CASE SkipStale
  BY <1>1, SkipStaleKeeps
<1>2. CASE ChooseBest
  BY <1>2, ChooseBestKeeps
<1>3. CASE \E w \in todo : MergeWord(w)
  BY <1>3, MergeWordKeeps
<1>4. CASE FinishMerge
  BY <1>4, FinishMergeKeeps
<1>5. CASE RunOut \/ ReturnTokenizer
  <2>1. pc' = "error" \/ pc' = "done"
    BY <1>5 DEF RunOut, ReturnTokenizer
  <2> QED
    BY <2>1 DEF TrainerInv
<1> QED
  BY <1>1, <1>2, <1>3, <1>4, <1>5 DEF Train

-----------------------------------------------------------------------------
(* Decoding                                                                *)

\* What the ids of a tokenizer decode to: a byte to itself, a merge to its two sides and a
\* special token to its name.
DecodesIds(merged, bytes) ==
  /\ \A id \in 0 .. VocabSize(merged) - 1 : bytes[id] \in Seq(Bytes)
  /\ \A id \in Bytes : bytes[id] = <<id>>
  /\ \A k \in 1 .. Len(merged) :
       bytes[TokenOf(k - 1)] = bytes[merged[k][1]] \o bytes[merged[k][2]]
  /\ \A k \in DOMAIN SpecialNames : bytes[SpecialId(merged, k)] = SpecialNames[k]

\* _token_bytes, when h holds it for smaller ids.
IdBytes(merged, h, id) ==
  IF id \in Bytes THEN <<id>>
  ELSE IF id < TokenOf(Len(merged))
         THEN LET pair == merged[id - ByteVocab + 1] IN h[pair[1]] \o h[pair[2]]
         ELSE SpecialNames[id - TokenOf(Len(merged)) + 1]

\* The ids: bytes, merges and special tokens.
LEMMA IdKinds ==
  ASSUME NEW merged \in Seq(Pairs)
  PROVE  /\ VocabSize(merged) \in Nat \ {0} /\ Bytes = 0 .. ByteVocab - 1
         /\ TokenOf(Len(merged)) = ByteVocab + Len(merged)
         /\ VocabSize(merged) = TokenOf(Len(merged)) + Len(SpecialNames)
         /\ ByteVocab \in Nat \ {0} /\ Len(merged) \in Nat /\ Len(SpecialNames) \in Nat
         /\ DOMAIN SpecialNames = 1 .. Len(SpecialNames)
         /\ \A k \in DOMAIN SpecialNames :
              SpecialNames[k] \in Seq(Bytes) /\ SpecialId(merged, k) = TokenOf(Len(merged)) + k - 1
<1>1. Len(merged) \in Nat /\ Len(SpecialNames) \in Nat /\ DOMAIN SpecialNames = 1 .. Len(SpecialNames)
  BY SpecialNamesAssumption
<1>2. \A k \in DOMAIN SpecialNames : SpecialNames[k] \in Seq(Bytes)
  BY <1>1, SpecialNamesAssumption, ElementOfSeq
<1> QED
  BY <1>1, <1>2, ByteVocabAssumption DEF VocabSize, TokenOf, SpecialId, Bytes

\* The ids of a merge are smaller than its own.
LEMMA SidesBefore ==
  ASSUME NEW merged \in Seq(Pairs), ValidMerges(merged), NEW k \in 1 .. Len(merged)
  PROVE  /\ merged[k][1] \in 0 .. TokenOf(k - 1) - 1
         /\ merged[k][2] \in 0 .. TokenOf(k - 1) - 1
<1>1. k \in DOMAIN merged
  OBVIOUS
<1> QED
  BY <1>1 DEF ValidMerges

\* The table of token bytes exists and is what decoding needs.
LEMMA TokenBytesIs ==
  ASSUME NEW merged \in Seq(Pairs), ValidMerges(merged)
  PROVE  DecodesIds(merged, TokenBytes(merged))
<1> DEFINE n == VocabSize(merged) - 1
           X == Seq(Bytes)
           F == [kg \in (0 .. n) \X [0 .. n -> X] |-> IdBytes(merged, kg[2], kg[1])]
<1>1. n \in Nat /\ X # {}
  <2>1. <<>> \in X
    OBVIOUS
  <2>2. X # {}
    BY <2>1, Zenon
  <2>3. VocabSize(merged) \in Nat \ {0}
    BY IdKinds
  <2>4. n \in Nat
    BY <2>3
  <2> QED
    BY <2>2, <2>4
<1>2. ASSUME NEW id \in 0 .. n, id \notin Bytes, id < TokenOf(Len(merged))
      PROVE  /\ id - ByteVocab + 1 \in 1 .. Len(merged)
             /\ merged[id - ByteVocab + 1][1] \in 0 .. id - 1
             /\ merged[id - ByteVocab + 1][2] \in 0 .. id - 1
  <2>1. PICK k \in 1 .. Len(merged) : k = id - ByteVocab + 1
    <3>1. id - ByteVocab + 1 \in 1 .. Len(merged)
      BY <1>2, IdKinds
    <3> QED
      BY <3>1
  <2>2. TokenOf(k - 1) = id
    <3>1. ByteVocab \in Nat /\ id \in Int
      BY IdKinds
    <3> QED
      BY <2>1, <3>1 DEF TokenOf
  <2>3. merged[k][1] \in 0 .. TokenOf(k - 1) - 1 /\ merged[k][2] \in 0 .. TokenOf(k - 1) - 1
    BY SidesBefore
  <2> QED
    BY <2>1, <2>2, <2>3
<1>3. ASSUME NEW id \in 0 .. n, id \notin Bytes, ~ (id < TokenOf(Len(merged)))
      PROVE  SpecialNames[id - TokenOf(Len(merged)) + 1] \in X
  <2>1. id - TokenOf(Len(merged)) + 1 \in DOMAIN SpecialNames
    BY <1>3, IdKinds
  <2> QED
    BY <2>1, IdKinds
<1>4. ASSUME NEW id \in 0 .. n, NEW g, \A j \in 0 .. id - 1 : g[j] \in X
      PROVE  IdBytes(merged, g, id) \in X
  <2>1. CASE id \in Bytes
    BY <2>1 DEF IdBytes
  <2>2. CASE id \notin Bytes /\ id < TokenOf(Len(merged))
    <3>1. PICK a \in 0 .. id - 1, b \in 0 .. id - 1 :
            a = merged[id - ByteVocab + 1][1] /\ b = merged[id - ByteVocab + 1][2]
      BY <1>2, <2>2
    <3>2. g[a] \in Seq(Bytes) /\ g[b] \in Seq(Bytes)
      BY <1>4
    <3>3. g[a] \o g[b] \in Seq(Bytes)
      BY <3>2, ConcatProperties
    <3> QED
      BY <2>2, <3>1, <3>3 DEF IdBytes
  <2>3. CASE id \notin Bytes /\ ~ (id < TokenOf(Len(merged)))
    BY <1>3, <2>3 DEF IdBytes
  <2> QED
    BY <2>1, <2>2, <2>3
<1>5. ASSUME NEW id \in 0 .. n, NEW g, NEW h, \A j \in 0 .. id - 1 : g[j] = h[j]
      PROVE  IdBytes(merged, g, id) = IdBytes(merged, h, id)
  <2>1. CASE id \notin Bytes /\ id < TokenOf(Len(merged))
    BY <1>2, <1>5, <2>1 DEF IdBytes
  <2>2. CASE id \in Bytes \/ ~ (id < TokenOf(Len(merged)))
    BY <2>2 DEF IdBytes
  <2> QED
    BY <2>1, <2>2
<1>6. ASSUME NEW id \in 0 .. n, NEW g \in [0 .. n -> X] PROVE F[<<id, g>>] = IdBytes(merged, g, id)
  <2>1. <<id, g>> \in (0 .. n) \X [0 .. n -> X]
    OBVIOUS
  <2> QED
    BY <2>1
<1>7. ByEarlier(n, X, F)
  <2>1. ASSUME NEW id \in 0 .. n, NEW g \in [0 .. n -> X] PROVE IdBytes(merged, g, id) \in X
    <3>1. \A j \in 0 .. id - 1 : j \in 0 .. n
      BY <1>1
    <3> QED
      BY <1>4, <3>1
  <2>2. F \in [(0 .. n) \X [0 .. n -> X] -> X]
    BY <2>1
  <2>3. ASSUME NEW id \in 0 .. n, NEW g \in [0 .. n -> X], NEW h \in [0 .. n -> X],
               \A j \in 0 .. id - 1 : g[j] = h[j]
        PROVE  F[<<id, g>>] = F[<<id, h>>]
    <3>1. IdBytes(merged, g, id) = IdBytes(merged, h, id)
      BY <1>5, <2>3
    <3> HIDE DEF F, n, X
    <3> QED
      BY <1>6, <3>1
  <2> HIDE DEF F, n, X
  <2> QED
    BY <2>2, <2>3 DEF ByEarlier
<1>8. PICK h \in [0 .. n -> X] : Recursive(n, F, h)
  <2> HIDE DEF F, n, X
  <2> QED
    BY <1>1, <1>7, RecursionUpTo
<1>9. h = [id \in 0 .. n |-> IdBytes(merged, h, id)]
  <2>1. \A id \in 0 .. n : h[id] = IdBytes(merged, h, id)
    BY <1>6, <1>8 DEF Recursive
  <2>2. h = [id \in 0 .. n |-> h[id]]
    OBVIOUS
  <2> HIDE DEF n
  <2> QED
    BY <2>1, <2>2
<1> DEFINE Loop(f) == f = [id \in 0 .. n |-> IdBytes(merged, f, id)]
           loop == CHOOSE f : Loop(f)
<1>10. Loop(loop)
  BY <1>9
<1>11. PICK bytes : bytes = TokenBytes(merged) /\ bytes = loop
  BY DEF TokenBytes, IdBytes
<1>12. ASSUME NEW id \in 0 .. n PROVE bytes[id] = IdBytes(merged, bytes, id)
  <2> HIDE DEF loop
  <2>1. bytes = [j \in 0 .. n |-> IdBytes(merged, bytes, j)]
    BY <1>10, <1>11
  <2> HIDE DEF Loop, n
  <2> QED
    BY <2>1
<1> HIDE DEF loop, Loop, F
<1> DEFINE G == {m \in 0 .. n : \A id \in 0 .. m : bytes[id] \in X}
<1>13. n \in G
  <2>1. 0 \in G
    <3>1. IdBytes(merged, bytes, 0) \in X
      <4>1. \A j \in 0 .. 0 - 1 : bytes[j] \in X
        OBVIOUS
      <4>2. 0 \in 0 .. n
        BY <1>1
      <4> HIDE DEF X, n
      <4> QED
        BY <1>4, <4>1, <4>2
    <3>2. 0 \in 0 .. n /\ \A id \in 0 .. 0 : id = 0
      BY <1>1
    <3> HIDE DEF X, n
    <3> QED
      BY <1>12, <3>1, <3>2
  <2>2. ASSUME NEW m \in 0 .. n - 1, m \in G PROVE m + 1 \in G
    <3>1. m + 1 \in 0 .. n /\ (m + 1) - 1 = m /\ \A id \in 0 .. m + 1 : id \in 0 .. m \/ id = m + 1
      BY <1>1
    <3>2. \A id \in 0 .. m : bytes[id] \in X
      BY <2>2
    <3> HIDE DEF X, n
    <3>3. IdBytes(merged, bytes, m + 1) \in X
      BY <1>4, <3>1, <3>2
    <3>4. bytes[m + 1] \in X
      BY <1>12, <3>1, <3>3
    <3> QED
      BY <3>1, <3>2, <3>4
  <2> HIDE DEF G
  <2>3. \A m \in 0 .. n : m \in G
    BY <1>1, <2>1, <2>2, InductionUpTo
  <2>4. n \in 0 .. n
    BY <1>1
  <2> QED
    BY <2>3, <2>4
<1>14. \A id \in 0 .. n : bytes[id] \in X
  BY <1>13
<1>15. ASSUME NEW id \in Bytes PROVE bytes[id] = <<id>>
  <2>1. id \in 0 .. n
    BY IdKinds
  <2> QED
    BY <1>12, <2>1 DEF IdBytes
<1>16. ASSUME NEW k \in 1 .. Len(merged)
       PROVE  bytes[TokenOf(k - 1)] = bytes[merged[k][1]] \o bytes[merged[k][2]]
  <2>1. PICK id : id = TokenOf(k - 1)
    OBVIOUS
  <2>2. id \in 0 .. n /\ id \notin Bytes /\ id < TokenOf(Len(merged)) /\ id - ByteVocab + 1 = k
    <3>1. id = ByteVocab + (k - 1) /\ ByteVocab \in Nat /\ Len(merged) \in Nat
      BY <2>1, IdKinds DEF TokenOf
    <3>2. id - ByteVocab + 1 = k /\ id \in Nat /\ id >= ByteVocab /\ id < ByteVocab + Len(merged)
      BY <3>1
    <3> QED
      BY <3>1, <3>2, IdKinds
  <2>3. bytes[id] = IdBytes(merged, bytes, id)
    BY <1>12, <2>2
  <2> QED
    BY <2>1, <2>2, <2>3 DEF IdBytes
<1>17. ASSUME NEW k \in DOMAIN SpecialNames
       PROVE  bytes[SpecialId(merged, k)] = SpecialNames[k]
  <2>1. PICK id : id = SpecialId(merged, k)
    OBVIOUS
  <2>2. /\ id \in 0 .. n /\ id \notin Bytes /\ ~ (id < TokenOf(Len(merged)))
        /\ id - TokenOf(Len(merged)) + 1 = k
    <3>1. k \in 1 .. Len(SpecialNames) /\ id = TokenOf(Len(merged)) + k - 1
      BY <2>1, IdKinds
    <3>2. /\ TokenOf(Len(merged)) = ByteVocab + Len(merged) /\ ByteVocab \in Nat /\ Len(merged) \in Nat
          /\ n = TokenOf(Len(merged)) + Len(SpecialNames) - 1 /\ Len(SpecialNames) \in Nat
      BY IdKinds
    <3>3. Bytes = 0 .. ByteVocab - 1
      BY IdKinds
    <3> HIDE DEF n
    <3>4. id = ByteVocab + Len(merged) + k - 1 /\ id \in Nat
      BY <3>1, <3>2
    <3>5. id <= n /\ id >= ByteVocab + Len(merged) /\ id - (ByteVocab + Len(merged)) + 1 = k
      BY <3>1, <3>2, <3>4
    <3> QED
      BY <3>2, <3>3, <3>4, <3>5
  <2> QED
    BY <1>12, <2>1, <2>2 DEF IdBytes
<1> QED
  BY <1>11, <1>14, <1>15, <1>16, <1>17 DEF DecodesIds

\* The rest of the decoded bytes from position i of seq on, when h holds the rests that
\* begin further right.
DecodeRest(merged, seq, h, i) ==
  IF i > Len(seq) THEN <<>> ELSE TokenBytes(merged)[seq[i]] \o h[i + 1]

\* The ids of a tokenizer.
IdsOf(merged) == 0 .. VocabSize(merged) - 1

\* decode_bytes() has a rest at every position.
LEMMA DecodeExists ==
  ASSUME NEW merged \in Seq(Pairs), ValidMerges(merged), NEW seq \in Seq(IdsOf(merged))
  PROVE  \E h : h = [i \in 1 .. Len(seq) + 1 |-> DecodeRest(merged, seq, h, i)]
<1> DEFINE L == Len(seq)
           X == Seq(Bytes)
           Value(k, g) == IF k = 0 THEN <<>>
                          ELSE TokenBytes(merged)[seq[L + 1 - k]] \o g[k - 1]
           F == [kg \in (0 .. L) \X [0 .. L -> X] |-> Value(kg[1], kg[2])]
<1>1. L \in Nat /\ <<>> \in X
  OBVIOUS
<1>2. ASSUME NEW k \in 0 .. L, NEW g \in [0 .. L -> X] PROVE Value(k, g) \in X
  <2>1. CASE k = 0
    BY <1>1, <2>1
  <2>2. CASE k # 0
    <3>1. k - 1 \in 0 .. L /\ L + 1 - k \in 1 .. L
      BY <1>1, <2>2
    <3>2. seq[L + 1 - k] \in IdsOf(merged)
      BY <3>1, ElementOfSeq
    <3>3. TokenBytes(merged)[seq[L + 1 - k]] \in Seq(Bytes)
      BY <3>2, TokenBytesIs DEF DecodesIds, IdsOf
    <3>4. g[k - 1] \in Seq(Bytes)
      BY <3>1
    <3>5. TokenBytes(merged)[seq[L + 1 - k]] \o g[k - 1] \in Seq(Bytes)
      BY <3>3, <3>4, ConcatProperties
    <3> QED
      BY <2>2, <3>5
  <2> QED
    BY <2>1, <2>2
<1>3. ASSUME NEW k \in 0 .. L, NEW g \in [0 .. L -> X] PROVE F[<<k, g>>] = Value(k, g)
  <2>1. <<k, g>> \in (0 .. L) \X [0 .. L -> X]
    OBVIOUS
  <2> HIDE DEF Value
  <2> QED
    BY <2>1
<1>4. ByEarlier(L, X, F)
  <2>1. F \in [(0 .. L) \X [0 .. L -> X] -> X]
    <3> HIDE DEF Value, L, X
    <3> QED
      BY <1>2
  <2>2. ASSUME NEW k \in 0 .. L, NEW g \in [0 .. L -> X], NEW h \in [0 .. L -> X],
               \A j \in 0 .. k - 1 : g[j] = h[j]
        PROVE  F[<<k, g>>] = F[<<k, h>>]
    <3>1. k # 0 => k - 1 \in 0 .. k - 1
      BY <1>1
    <3>2. Value(k, g) = Value(k, h)
      BY <2>2, <3>1
    <3> HIDE DEF F, Value, L, X
    <3> QED
      BY <1>3, <3>2
  <2> HIDE DEF F, L, X, Value
  <2> QED
    BY <2>1, <2>2 DEF ByEarlier
<1>5. PICK h \in [0 .. L -> X] : Recursive(L, F, h)
  <2>1. X # {}
    BY <1>1, Zenon
  <2> HIDE DEF F, L, X, Value
  <2> QED
    BY <1>1, <1>4, <2>1, RecursionUpTo
<1> DEFINE r == [i \in 1 .. L + 1 |-> h[L + 1 - i]]
<1>6. ASSUME NEW i \in 1 .. L + 1 PROVE r[i] = DecodeRest(merged, seq, r, i)
  <2>1. PICK k \in 0 .. L : k = L + 1 - i
    <3>1. L + 1 - i \in 0 .. L
      BY <1>1
    <3> QED
      BY <3>1
  <2>2. h[k] = Value(k, h)
    <3> HIDE DEF F, Value, L, X
    <3> QED
      BY <1>3, <1>5 DEF Recursive
  <2>3. r[i] = h[k]
    BY <2>1
  <2>4. CASE k = 0
    <3>1. i > Len(seq)
      BY <1>1, <2>1, <2>4
    <3> QED
      BY <2>2, <2>3, <2>4, <3>1 DEF DecodeRest
  <2>5. CASE k # 0
    <3>1. ~ (i > L) /\ L + 1 - k = i /\ i + 1 \in 1 .. L + 1 /\ L + 1 - (i + 1) = k - 1
      BY <1>1, <2>1, <2>5
    <3>2. r[i + 1] = h[k - 1]
      BY <3>1
    <3> HIDE DEF r
    <3> QED
      BY <2>2, <2>3, <2>5, <3>1, <3>2 DEF DecodeRest
  <2> QED
    BY <2>4, <2>5
<1>7. r = [i \in 1 .. L + 1 |-> r[i]]
  OBVIOUS
<1>8. r = [i \in 1 .. Len(seq) + 1 |-> DecodeRest(merged, seq, r, i)]
  <2> HIDE DEF r
  <2> QED
    BY <1>6, <1>7
<1> QED
  BY <1>8

\* The loop of decoding exists, and its value at 1 is the text.
LEMMA DecodeIs ==
  ASSUME NEW merged \in Seq(Pairs), ValidMerges(merged), NEW seq \in Seq(IdsOf(merged))
  PROVE  \E h : /\ Decode(merged, seq) = h[1]
                /\ \A i \in 1 .. Len(seq) + 1 : h[i] = DecodeRest(merged, seq, h, i)
<1> DEFINE Loop(h) == h = [i \in 1 .. Len(seq) + 1 |-> DecodeRest(merged, seq, h, i)]
           loop == CHOOSE h : Loop(h)
<1>1. Loop(loop)
  BY DecodeExists
<1>2. Decode(merged, seq) = loop[1]
  BY DEF Decode, DecodeRest
<1>3. \A i \in 1 .. Len(seq) + 1 : loop[i] = DecodeRest(merged, seq, loop, i)
  <2> HIDE DEF loop
  <2>1. loop = [i \in 1 .. Len(seq) + 1 |-> DecodeRest(merged, seq, loop, i)]
    BY <1>1
  <2> HIDE DEF Loop
  <2> QED
    BY <2>1
<1> QED
  BY <1>2, <1>3

\* A sequence that is not empty is its head before its tail.
LEMMA ConsIs ==
  ASSUME NEW S, NEW seq \in Seq(S), seq # <<>>
  PROVE  /\ Head(seq) \in S /\ Tail(seq) \in Seq(S) /\ Len(Tail(seq)) = Len(seq) - 1
         /\ seq = <<Head(seq)>> \o Tail(seq)
<1>1. /\ Head(seq) \in S /\ Tail(seq) \in Seq(S) /\ Len(seq) \in Nat \ {0} /\ Head(seq) = seq[1]
      /\ Len(Tail(seq)) = Len(seq) - 1 /\ \A i \in 1 .. Len(Tail(seq)) : Tail(seq)[i] = seq[i + 1]
  BY HeadTailProperties, EmptySeq
<1>2. PICK x \in S, t \in Seq(S) : x = Head(seq) /\ t = Tail(seq)
  BY <1>1
<1>3. /\ <<x>> \in Seq(S) /\ Len(<<x>>) = 1 /\ <<x>>[1] = x /\ Len(t) \in Nat
  OBVIOUS
<1>4. PICK s : s = <<x>> \o t
  OBVIOUS
<1>5. /\ s \in Seq(S) /\ Len(s) = 1 + Len(t)
      /\ \A i \in 1 .. 1 + Len(t) : s[i] = IF i <= 1 THEN <<x>>[i] ELSE t[i - 1]
  BY <1>3, <1>4, ConcatProperties
<1>6. ASSUME NEW i \in 1 .. Len(s) PROVE s[i] = seq[i]
  <2>1. CASE i = 1
    <3>1. s[1] = x
      BY <1>3, <1>5, <2>1
    <3> QED
      BY <1>1, <1>2, <2>1, <3>1
  <2>2. CASE i # 1
    <3>1. i - 1 \in 1 .. Len(t) /\ (i - 1) + 1 = i /\ ~ (i <= 1) /\ i \in 1 .. 1 + Len(t)
      BY <1>3, <1>5, <2>2
    <3>2. s[i] = t[i - 1]
      BY <1>5, <3>1
    <3>3. t[i - 1] = seq[(i - 1) + 1]
      BY <1>1, <1>2, <3>1
    <3> QED
      BY <3>1, <3>2, <3>3
  <2> QED
    BY <2>1, <2>2
<1>7. Len(s) = Len(seq)
  BY <1>1, <1>2, <1>5
<1>8. s = seq
  BY <1>5, <1>6, <1>7, SeqEqual
<1> QED
  BY <1>1, <1>2, <1>4, <1>8

\* A set with the empty sequence and, with each sequence, those longer by an element in
\* front has all sequences.
LEMMA InductionOnSeq ==
  ASSUME NEW S, NEW G, <<>> \in G, \A x \in S, s \in Seq(S) : s \in G => <<x>> \o s \in G,
         NEW seq \in Seq(S)
  PROVE  seq \in G
<1> DEFINE H == {n \in Nat : \A s \in Seq(S) : Len(s) = n => s \in G}
<1>1. PICK L \in Nat : L = Len(seq)
  OBVIOUS
<1>2. 0 \in H
  <2>1. \A s \in Seq(S) : Len(s) = 0 => s = <<>>
    BY EmptySeq
  <2> QED
    BY <2>1
<1>3. ASSUME NEW m \in 0 .. L - 1, m \in H PROVE m + 1 \in H
  <2>1. ASSUME NEW s \in Seq(S), Len(s) = m + 1 PROVE s \in G
    <3>1. s # <<>>
      BY <2>1
    <3>2. Head(s) \in S /\ Tail(s) \in Seq(S) /\ Len(Tail(s)) = m /\ s = <<Head(s)>> \o Tail(s)
      BY <2>1, <3>1, ConsIs
    <3>3. Tail(s) \in G
      BY <1>3, <3>2
    <3> QED
      BY <3>2, <3>3
  <2> QED
    BY <2>1
<1>4. L \in H
  <2> HIDE DEF H
  <2>1. \A m \in 0 .. L : m \in H
    BY <1>1, <1>2, <1>3, InductionUpTo
  <2> QED
    BY <2>1
<1> QED
  BY <1>1, <1>4

\* Nothing decodes to nothing.
LEMMA DecodeNothing ==
  ASSUME NEW merged \in Seq(Pairs), ValidMerges(merged)
  PROVE  <<>> \in Seq(IdsOf(merged)) /\ Decode(merged, <<>>) = <<>>
<1>1. <<>> \in Seq(IdsOf(merged)) /\ Len(<<>>) = 0
  OBVIOUS
<1>2. PICK h : /\ Decode(merged, <<>>) = h[1]
               /\ \A i \in 1 .. Len(<<>>) + 1 : h[i] = DecodeRest(merged, <<>>, h, i)
  BY <1>1, DecodeIs
<1>3. 1 \in 1 .. Len(<<>>) + 1 /\ 1 > Len(<<>>)
  BY <1>1
<1> QED
  BY <1>1, <1>2, <1>3 DEF DecodeRest

\* An id in front decodes to its bytes in front.
LEMMA DecodeCons ==
  ASSUME NEW merged \in Seq(Pairs), ValidMerges(merged), NEW id \in IdsOf(merged),
         NEW seq \in Seq(IdsOf(merged))
  PROVE  /\ <<id>> \o seq \in Seq(IdsOf(merged))
         /\ Decode(merged, <<id>> \o seq) = TokenBytes(merged)[id] \o Decode(merged, seq)
<1> DEFINE V == IdsOf(merged)
<1>1. PICK longer : longer = <<id>> \o seq
  OBVIOUS
<1>2. PICK L \in Nat : L = Len(seq)
  OBVIOUS
<1>3. <<id>> \in Seq(V) /\ Len(<<id>>) = 1 /\ <<id>>[1] = id
  OBVIOUS
<1>4. /\ longer \in Seq(V) /\ Len(longer) = L + 1
      /\ \A i \in 1 .. 1 + L : longer[i] = IF i <= 1 THEN <<id>>[i] ELSE seq[i - 1]
  <2> HIDE DEF V
  <2> QED
    BY <1>1, <1>2, <1>3, ConcatProperties DEF V
<1>5. longer[1] = id /\ \A i \in 1 .. L : longer[i + 1] = seq[i]
  <2>1. 1 \in 1 .. 1 + L /\ \A i \in 1 .. L : i + 1 \in 1 .. 1 + L /\ ~ (i + 1 <= 1) /\ (i + 1) - 1 = i
    BY <1>2
  <2> QED
    BY <1>3, <1>4, <2>1
<1>6. PICK g : /\ Decode(merged, longer) = g[1]
               /\ \A i \in 1 .. Len(longer) + 1 : g[i] = DecodeRest(merged, longer, g, i)
  BY <1>4, DecodeIs
<1>7. PICK h : /\ Decode(merged, seq) = h[1]
               /\ \A i \in 1 .. Len(seq) + 1 : h[i] = DecodeRest(merged, seq, h, i)
  BY DecodeIs
<1> DEFINE G == {d \in 0 .. L : g[L + 2 - d] = h[L + 1 - d]}
<1>8. 0 \in G
  <2>1. /\ L + 2 - 0 \in 1 .. Len(longer) + 1 /\ L + 2 - 0 > Len(longer)
        /\ L + 1 - 0 \in 1 .. Len(seq) + 1 /\ L + 1 - 0 > Len(seq) /\ 0 \in 0 .. L
    BY <1>2, <1>4
  <2>2. g[L + 2 - 0] = <<>> /\ h[L + 1 - 0] = <<>>
    BY <1>6, <1>7, <2>1 DEF DecodeRest
  <2> QED
    BY <2>1, <2>2
<1>9. ASSUME NEW d \in 0 .. L - 1, d \in G PROVE d + 1 \in G
  <2>1. PICK i \in 1 .. L : i = L - d
    <3>1. L - d \in 1 .. L
      BY <1>2
    <3> QED
      BY <3>1
  <2>2. /\ i \in 1 .. Len(seq) + 1 /\ ~ (i > Len(seq))
        /\ i + 1 \in 1 .. Len(longer) + 1 /\ ~ (i + 1 > Len(longer))
        /\ (i + 1) + 1 = L + 2 - d /\ i + 1 = L + 1 - d
        /\ i + 1 = L + 2 - (d + 1) /\ i = L + 1 - (d + 1) /\ d + 1 \in 0 .. L
    BY <1>2, <1>4, <2>1
  <2>3. h[i] = TokenBytes(merged)[seq[i]] \o h[i + 1]
    BY <1>7, <2>2 DEF DecodeRest
  <2>4. g[i + 1] = TokenBytes(merged)[longer[i + 1]] \o g[(i + 1) + 1]
    BY <1>6, <2>2 DEF DecodeRest
  <2>5. g[(i + 1) + 1] = h[i + 1] /\ longer[i + 1] = seq[i]
    BY <1>5, <1>9, <2>2
  <2>6. g[L + 2 - (d + 1)] = h[L + 1 - (d + 1)]
    BY <2>2, <2>3, <2>4, <2>5
  <2> QED
    BY <2>2, <2>6
<1>10. g[2] = h[1]
  <2> HIDE DEF G
  <2>1. \A d \in 0 .. L : d \in G
    BY <1>2, <1>8, <1>9, InductionUpTo
  <2>2. L \in G
    BY <1>2, <2>1
  <2>3. L + 2 - L = 2 /\ L + 1 - L = 1
    BY <1>2
  <2> QED
    BY <2>2, <2>3 DEF G
<1>11. g[1] = TokenBytes(merged)[longer[1]] \o g[1 + 1]
  <2>1. 1 \in 1 .. Len(longer) + 1 /\ ~ (1 > Len(longer))
    BY <1>2, <1>4
  <2> QED
    BY <1>6, <2>1 DEF DecodeRest
<1>12. g[1] = TokenBytes(merged)[id] \o h[1]
  <2>1. 1 + 1 = 2
    OBVIOUS
  <2> QED
    BY <1>5, <1>10, <1>11, <2>1
<1>13. Decode(merged, longer) = TokenBytes(merged)[id] \o Decode(merged, seq)
  BY <1>6, <1>7, <1>12
<1> QED
  BY <1>1, <1>4, <1>13

\* Ids decode to bytes.
LEMMA DecodeToBytes ==
  ASSUME NEW merged \in Seq(Pairs), ValidMerges(merged), NEW seq \in Seq(IdsOf(merged))
  PROVE  Decode(merged, seq) \in Seq(Bytes)
<1> DEFINE V == IdsOf(merged)
           G == {s \in Seq(V) : Decode(merged, s) \in Seq(Bytes)}
<1>1. <<>> \in G
  <2>1. <<>> \in Seq(Bytes)
    OBVIOUS
  <2> QED
    BY <2>1, DecodeNothing
<1>2. ASSUME NEW x \in V, NEW s \in Seq(V), s \in G PROVE <<x>> \o s \in G
  <2>1. TokenBytes(merged)[x] \in Seq(Bytes) /\ Decode(merged, s) \in Seq(Bytes)
    BY <1>2, TokenBytesIs DEF DecodesIds, IdsOf
  <2>2. TokenBytes(merged)[x] \o Decode(merged, s) \in Seq(Bytes)
    BY <2>1, ConcatProperties
  <2> QED
    BY <2>2, DecodeCons
<1> HIDE DEF G
<1>3. seq \in G
  BY <1>1, <1>2, InductionOnSeq
<1> QED
  BY <1>3 DEF G

\* Appending bytes is associative.
LEMMA BytesAssociative ==
  ASSUME NEW a \in Seq(Bytes), NEW b \in Seq(Bytes), NEW c \in Seq(Bytes)
  PROVE  a \o (b \o c) = (a \o b) \o c
  BY ConcatAssociative, SMTT(30)

\* Ids decode one after the other.
LEMMA DecodeConcat ==
  ASSUME NEW merged \in Seq(Pairs), ValidMerges(merged), NEW seq \in Seq(IdsOf(merged)),
         NEW rest \in Seq(IdsOf(merged))
  PROVE  /\ seq \o rest \in Seq(IdsOf(merged))
         /\ Decode(merged, seq \o rest) = Decode(merged, seq) \o Decode(merged, rest)
<1> DEFINE V == IdsOf(merged)
           D(s) == Decode(merged, s)
           G == {s \in Seq(V) : D(s \o rest) = D(s) \o D(rest)}
<1>1. <<>> \in G
  <2>1. <<>> \o rest = rest
    BY ConcatEmptySeq
  <2>2. D(<<>>) = <<>> /\ <<>> \in Seq(V)
    BY DecodeNothing
  <2>3. <<>> \o D(rest) = D(rest)
    BY DecodeToBytes, ConcatEmptySeq
  <2> HIDE DEF D, V
  <2> QED
    BY <2>1, <2>2, <2>3
<1>2. ASSUME NEW x \in V, NEW s \in Seq(V), s \in G PROVE <<x>> \o s \in G
  <2>1. <<x>> \in Seq(V) /\ s \o rest \in Seq(V)
    BY ConcatProperties
  <2>2. (<<x>> \o s) \o rest = <<x>> \o (s \o rest)
    BY <2>1, ConcatAssociative
  <2> DEFINE b == TokenBytes(merged)[x]
  <2>3. <<x>> \o s \in Seq(V) /\ D(<<x>> \o s) = b \o D(s) /\ D(<<x>> \o (s \o rest)) = b \o D(s \o rest)
    BY <2>1, DecodeCons
  <2>4. b \in Seq(Bytes) /\ D(s) \in Seq(Bytes) /\ D(rest) \in Seq(Bytes)
    <3>1. b \in Seq(Bytes)
      BY TokenBytesIs DEF DecodesIds, IdsOf
    <3> QED
      BY <3>1, DecodeToBytes
  <2>5. D(s \o rest) = D(s) \o D(rest)
    BY <1>2
  <2> HIDE DEF D, b, V
  <2>6. b \o (D(s) \o D(rest)) = (b \o D(s)) \o D(rest)
    BY <2>4, BytesAssociative
  <2> QED
    BY <2>2, <2>3, <2>5, <2>6
<1> HIDE DEF G
<1>3. seq \in G
  BY <1>1, <1>2, InductionOnSeq
<1>4. seq \o rest \in Seq(V)
  BY ConcatProperties
<1> QED
  BY <1>3, <1>4 DEF G

\* Bytes are ids, and decode to themselves.
LEMMA DecodeBytes ==
  ASSUME NEW merged \in Seq(Pairs), ValidMerges(merged), NEW seq \in Seq(Bytes)
  PROVE  seq \in Seq(IdsOf(merged)) /\ Decode(merged, seq) = seq
<1> DEFINE G == {s \in Seq(Bytes) : s \in Seq(IdsOf(merged)) /\ Decode(merged, s) = s}
<1>1. Bytes \subseteq IdsOf(merged)
  BY IdKinds DEF IdsOf
<1>2. <<>> \in G
  BY DecodeNothing
<1>3. ASSUME NEW x \in Bytes, NEW s \in Seq(Bytes), s \in G PROVE <<x>> \o s \in G
  <2>1. x \in IdsOf(merged) /\ s \in Seq(IdsOf(merged)) /\ Decode(merged, s) = s
    BY <1>1, <1>3
  <2>2. <<x>> \in Seq(Bytes) /\ <<x>> \o s \in Seq(Bytes)
    BY ConcatProperties
  <2>3. TokenBytes(merged)[x] = <<x>>
    BY TokenBytesIs DEF DecodesIds
  <2>4. Decode(merged, <<x>> \o s) = TokenBytes(merged)[x] \o Decode(merged, s)
    BY <2>1, DecodeCons
  <2>5. <<x>> \o s \in Seq(IdsOf(merged))
    BY <2>1, ConcatProperties
  <2> QED
    BY <2>1, <2>2, <2>3, <2>4, <2>5
<1> HIDE DEF G
<1>4. seq \in G
  BY <1>2, <1>3, InductionOnSeq
<1> QED
  BY <1>4 DEF G

\* Merging a pair into an id that decodes to the bytes of its sides changes no byte.
LEMMA DecodeMerge ==
  ASSUME NEW merged \in Seq(Pairs), ValidMerges(merged), NEW k \in 1 .. Len(merged),
         NEW seq \in Seq(IdsOf(merged))
  PROVE  /\ Merge(seq, merged[k], TokenOf(k - 1)) \in Seq(IdsOf(merged))
         /\ Decode(merged, Merge(seq, merged[k], TokenOf(k - 1))) = Decode(merged, seq)
<1> DEFINE V == IdsOf(merged)
           L == Len(seq)
           D(s) == Decode(merged, s)
           B(id) == TokenBytes(merged)[id]
<1>0. PICK pair : pair = merged[k]
  OBVIOUS
<1>1. PICK new \in Nat : pair = merged[k] /\ new = TokenOf(k - 1)
  <2>1. k - 1 \in Nat
    OBVIOUS
  <2>2. TokenOf(k - 1) \in Nat
    BY <2>1, TokenIsNat
  <2> QED
    BY <1>0, <2>2
<1>2. /\ new \in V /\ pair[1] \in V /\ pair[2] \in V
      /\ B(new) = B(pair[1]) \o B(pair[2])
      /\ V \subseteq Nat /\ \A id \in V : B(id) \in Seq(Bytes)
  <2>1. /\ TokenOf(k - 1) \in V /\ V \subseteq Nat
        /\ \A id \in 0 .. TokenOf(k - 1) - 1 : id \in V
    <3>1. TokenOf(k - 1) < VocabSize(merged) /\ TokenOf(k - 1) \in Nat /\ VocabSize(merged) \in Nat
      BY IdKinds DEF TokenOf
    <3> QED
      BY <3>1 DEF IdsOf
  <2>2. DecodesIds(merged, TokenBytes(merged))
    BY TokenBytesIs
  <2>3. merged[k][1] \in 0 .. TokenOf(k - 1) - 1 /\ merged[k][2] \in 0 .. TokenOf(k - 1) - 1
    BY SidesBefore
  <2> QED
    BY <1>1, <2>1, <2>2, <2>3 DEF DecodesIds, IdsOf
<1>3. seq \in Seq(Nat) /\ L \in Nat
  BY <1>2, SeqMonotonic
<1>4. PICK h : /\ Merge(seq, pair, new) = h[1]
               /\ \A i \in 1 .. L + 1 : h[i] = MergeRest(seq, pair, new, h, i)
  BY <1>3, MergeIs
<1> DEFINE P(i) == h[i] \in Seq(V) /\ D(h[i]) = D(SubSeq(seq, i, L))
           G == {d \in 0 .. L : \A i \in L + 1 - d .. L + 1 : P(i)}
<1>5. ASSUME NEW i \in 1 .. L
      PROVE  /\ SubSeq(seq, i + 1, L) \in Seq(V) /\ seq[i] \in V
             /\ D(SubSeq(seq, i, L)) = B(seq[i]) \o D(SubSeq(seq, i + 1, L))
  <2>1. i \in 1 .. Len(seq) /\ L \in i .. Len(seq)
    BY <1>3
  <2>2. SubSeq(seq, i, L) = <<seq[i]>> \o SubSeq(seq, i + 1, L)
    BY <2>1, SubSeqRecursiveFirst
  <2>3. SubSeq(seq, i + 1, L) \in Seq(V)
    <3>1. \A j \in i + 1 .. L : seq[j] \in V
      <4>1. \A j \in i + 1 .. L : j \in 1 .. Len(seq)
        BY <1>3
      <4> QED
        BY <4>1, ElementOfSeq
    <3>2. i + 1 \in Int /\ L \in Int
      BY <1>3
    <3> HIDE DEF V
    <3> QED
      BY <3>1, <3>2, SubSeqProperties
  <2>4. seq[i] \in V
    BY <2>1, ElementOfSeq
  <2> QED
    BY <2>2, <2>3, <2>4, DecodeCons
<1>6. ASSUME NEW i \in 1 .. L, i < L, PairAt(seq, i) = pair, P(i + 2) PROVE P(i)
  <2>1. i + 1 \in 1 .. L /\ (i + 1) + 1 = i + 2 /\ i \in 1 .. L + 1 /\ ~ (i > L)
    BY <1>3, <1>6
  <2>2. h[i] = <<new>> \o h[i + 2]
    BY <1>4, <1>6, <2>1 DEF MergeRest
  <2>3. h[i] \in Seq(V) /\ D(h[i]) = B(new) \o D(h[i + 2])
    <3>1. h[i + 2] \in Seq(V) /\ new \in V
      BY <1>2, <1>6
    <3> QED
      BY <2>2, <3>1, DecodeCons
  <2>4. pair[1] = seq[i] /\ pair[2] = seq[i + 1]
    BY <1>6 DEF PairAt
  <2>5. /\ D(SubSeq(seq, i, L)) = B(pair[1]) \o (B(pair[2]) \o D(SubSeq(seq, i + 2, L)))
        /\ SubSeq(seq, i + 2, L) \in Seq(V)
    <3>1. D(SubSeq(seq, i, L)) = B(seq[i]) \o D(SubSeq(seq, i + 1, L))
      BY <1>5
    <3>2. /\ D(SubSeq(seq, i + 1, L)) = B(seq[i + 1]) \o D(SubSeq(seq, i + 2, L))
          /\ SubSeq(seq, i + 2, L) \in Seq(V)
      BY <1>5, <2>1
    <3> HIDE DEF V, D, B, L
    <3> QED
      BY <2>4, <3>1, <3>2
  <2>6. D(SubSeq(seq, i + 2, L)) \in Seq(Bytes)
    BY <2>5, DecodeToBytes
  <2>7. D(h[i + 2]) = D(SubSeq(seq, i + 2, L))
    BY <1>6
  <2> HIDE DEF V, D, B, L
  <2>8. /\ B(pair[1]) \o (B(pair[2]) \o D(SubSeq(seq, i + 2, L)))
             = (B(pair[1]) \o B(pair[2])) \o D(SubSeq(seq, i + 2, L))
    <3>1. B(pair[1]) \in Seq(Bytes) /\ B(pair[2]) \in Seq(Bytes)
      BY <1>2
    <3> QED
      BY <2>6, <3>1, BytesAssociative
  <2> QED
    BY <1>2, <2>3, <2>5, <2>7, <2>8
<1>7. ASSUME NEW i \in 1 .. L, ~ (i < L /\ PairAt(seq, i) = pair), P(i + 1) PROVE P(i)
  <2>1. i \in 1 .. L + 1 /\ ~ (i > L)
    BY <1>3
  <2>2. h[i] = <<seq[i]>> \o h[i + 1]
    BY <1>4, <1>7, <2>1 DEF MergeRest
  <2>3. /\ seq[i] \in V
        /\ D(SubSeq(seq, i, L)) = B(seq[i]) \o D(SubSeq(seq, i + 1, L))
    BY <1>5
  <2>4. h[i] \in Seq(V) /\ D(h[i]) = B(seq[i]) \o D(h[i + 1])
    BY <1>7, <2>2, <2>3, DecodeCons
  <2> QED
    BY <1>7, <2>3, <2>4
<1>8. P(L + 1)
  <2>1. L + 1 \in 1 .. L + 1 /\ L + 1 > L /\ L < L + 1 /\ L + 1 \in Int /\ L \in Int
    BY <1>3
  <2>2. h[L + 1] = <<>>
    BY <1>4, <2>1 DEF MergeRest
  <2>3. SubSeq(seq, L + 1, L) = <<>>
    <3> HIDE DEF L
    <3> QED
      BY <2>1, SubSeqEmpty
  <2> QED
    BY <2>2, <2>3, DecodeNothing
<1> HIDE DEF P
<1>9. 0 \in G
  <2>1. 0 \in 0 .. L /\ \A i \in L + 1 - 0 .. L + 1 : i = L + 1
    BY <1>3
  <2> HIDE DEF L
  <2> QED
    BY <1>8, <2>1
<1>10. ASSUME NEW d \in 0 .. L - 1, d \in G PROVE d + 1 \in G
  <2>1. PICK i \in 1 .. L : i = L - d
    <3>1. L - d \in 1 .. L
      BY <1>3
    <3> QED
      BY <3>1
  <2>2. /\ i + 1 \in L + 1 - d .. L + 1
        /\ i < L => i + 2 \in L + 1 - d .. L + 1
        /\ \A j \in L + 1 - (d + 1) .. L + 1 : j = i \/ j \in L + 1 - d .. L + 1
        /\ d + 1 \in 0 .. L
    BY <1>3, <2>1
  <2>3. \A j \in L + 1 - d .. L + 1 : P(j)
    BY <1>10
  <2> HIDE DEF L
  <2>4. P(i)
    BY <1>6, <1>7, <2>2, <2>3
  <2> QED
    BY <2>2, <2>3, <2>4
<1>11. P(1)
  <2> HIDE DEF G
  <2>1. \A d \in 0 .. L : d \in G
    BY <1>3, <1>9, <1>10, InductionUpTo
  <2>2. L \in G
    BY <1>3, <2>1
  <2>3. 1 \in L + 1 - L .. L + 1
    BY <1>3
  <2> QED
    BY <2>2, <2>3 DEF G
<1>12. SubSeq(seq, 1, L) = seq
  BY SubSeqFull
<1> QED
  BY <1>1, <1>4, <1>11, <1>12 DEF P

\* Applying merges changes no byte.
LEMMA DecodeApplied ==
  ASSUME NEW merged \in Seq(Pairs), ValidMerges(merged), NEW seq \in Seq(Bytes)
  PROVE  /\ ApplyInOrder(merged, seq) \in Seq(Below(Len(merged)))
         /\ ApplyInOrder(merged, seq) \in Seq(IdsOf(merged))
         /\ Decode(merged, ApplyInOrder(merged, seq)) = seq
<1>1. PICK L \in Nat : L = Len(merged)
  OBVIOUS
<1>2. seq \in Seq(Nat) /\ seq \in Seq(Below(0))
  BY WordAtFirst
<1>3. PICK h : /\ ApplyInOrder(merged, seq) = h[Len(merged)]
               /\ \A n \in 0 .. Len(merged) : h[n] = Applied(merged, seq, h, n)
  BY <1>2, ApplyIs
<1>4. \A n \in 0 .. L : Below(n) \subseteq IdsOf(merged)
  <2>1. ASSUME NEW n \in 0 .. L PROVE TokenOf(n) <= VocabSize(merged)
    BY <1>1, IdKinds DEF TokenOf
  <2> QED
    BY <2>1, IdKinds DEF Below, IdsOf, TokenOf
<1> DEFINE G == {n \in 0 .. L : h[n] \in Seq(Below(n)) /\ Decode(merged, h[n]) = seq}
<1>5. 0 \in G
  <2>1. 0 \in 0 .. L /\ h[0] = seq
    BY <1>1, <1>3 DEF Applied
  <2> QED
    BY <1>2, <2>1, DecodeBytes
<1>6. ASSUME NEW n \in 0 .. L - 1, n \in G PROVE n + 1 \in G
  <2>1. n + 1 \in 0 .. L /\ n + 1 # 0 /\ (n + 1) - 1 = n /\ n \in 0 .. L /\ n \in Nat
        /\ n + 1 \in 1 .. Len(merged)
    BY <1>1
  <2>2. h[n + 1] = Merge(h[n], merged[n + 1], TokenOf(n))
    BY <1>1, <1>3, <2>1 DEF Applied
  <2>3. h[n] \in Seq(Below(n)) /\ h[n] \in Seq(IdsOf(merged)) /\ Decode(merged, h[n]) = seq
    <3>1. Below(n) \subseteq IdsOf(merged)
      BY <1>4, <2>1
    <3> QED
      BY <1>6, <3>1, SeqMonotonic
  <2>4. h[n + 1] \in Seq(Below(n + 1))
    BY <2>1, <2>2, <2>3, MergeBelow
  <2>5. Decode(merged, h[n + 1]) = seq
    <3>1. PICK k \in 1 .. Len(merged) : k = n + 1 /\ k - 1 = n
      BY <2>1
    <3> QED
      BY <2>2, <2>3, <3>1, DecodeMerge
  <2> QED
    BY <2>1, <2>4, <2>5
<1>7. L \in G
  <2> HIDE DEF G
  <2>1. \A n \in 0 .. L : n \in G
    BY <1>1, <1>5, <1>6, InductionUpTo
  <2> QED
    BY <1>1, <2>1
<1>8. h[L] \in Seq(IdsOf(merged))
  <2>1. L \in 0 .. L
    BY <1>1
  <2> QED
    BY <1>4, <1>7, <2>1, SeqMonotonic
<1> QED
  BY <1>1, <1>3, <1>7, <1>8

\* A tokenizer has merges it accepts, and its file is the one it would save.
TokenizerInv ==
  /\ pc \in {"choose", "merge"} => file = NoFile
  /\ pc = "done" =>
       /\ merges \in Seq(Pairs) /\ ValidMerges(merges)
       /\ minCount \in Nat \ {0}
       /\ file # NoFile => file = ToArtifact(merges, minCount)

\* The cache holds what encoding gives, and no more than cache_size of it.
CacheInv ==
  /\ cacheSize \in Nat
  /\ IsFiniteSet(DOMAIN cache) /\ Cardinality(DOMAIN cache) <= cacheSize
  /\ pc # "done" => DOMAIN cache = {}
  /\ \A c \in DOMAIN cache : c \in Seq(Bytes) /\ cache[c] = ApplyInOrder(merges, c)

\* The ids of the chunk being merged are what some number of merges make of it, and none of
\* these merges applies to them any more.
MergedSoFar(n) ==
  /\ ids \in Seq(Below(n))
  /\ ids = ApplyInOrder(SubSeq(merges, 1, n), chunk)
  /\ \A j \in 1 .. n : merges[j] \notin PairsOf(ids)

\* The chunk is the next piece of the text.
ChunkInv ==
  /\ pc # "done" => encoding = "idle"
  /\ encoding \in {"merge", "result"} =>
       /\ chunk \in Seq(Bytes)
       /\ at + Len(chunk) - 1 <= Len(text)
       /\ chunk = SubSeq(text, at, at + Len(chunk) - 1)
  /\ encoding = "merge" => \E n \in 0 .. Len(merges) : MergedSoFar(n)
  /\ encoding = "result" => ids = ApplyInOrder(merges, chunk)

\* What has been encoded decodes to the text so far.
TextInv ==
  encoding # "idle" =>
    /\ text \in Seq(Bytes) /\ allowed \subseteq DOMAIN SpecialNames
    /\ at \in 1 .. Len(text) + 1
    /\ out \in Seq(0 .. VocabSize(merges) - 1)
    /\ Decode(merges, out) = SubSeq(text, 1, at - 1)
    /\ \A i \in DOMAIN out, k \in DOMAIN SpecialNames \ allowed : out[i] # SpecialId(merges, k)

\* The inductive invariant.
IInv == TrainerInv /\ TokenizerInv /\ CacheInv /\ ChunkInv /\ TextInv

-----------------------------------------------------------------------------
(* The steps of encoding                                                   *)

\* The operators of BPE are the same in the encoder.
LEMMA SameOperators ==
  /\ \A merged, k : Encoder!SpecialId(merged, k) = SpecialId(merged, k)
  /\ \A n : Encoder!TokenOf(n) = TokenOf(n)
  /\ \A seq : Encoder!PairsOf(seq) = PairsOf(seq)
  /\ \A seq, pair, new : Encoder!Merge(seq, pair, new) = Merge(seq, pair, new)
  /\ \A merged, seq : Encoder!ApplyInOrder(merged, seq) = ApplyInOrder(merged, seq)
  /\ \A merged, seq : Encoder!Decode(merged, seq) = Decode(merged, seq)
  /\ \A S : Encoder!Cardinality(S) = Cardinality(S)
<1>1. \A merged : Encoder!VocabSize(merged) = VocabSize(merged)
  BY DEF Encoder!VocabSize, VocabSize
<1>2. \A merged, k : Encoder!SpecialId(merged, k) = SpecialId(merged, k)
  BY <1>1 DEF Encoder!SpecialId, SpecialId
<1>3. \A n : Encoder!TokenOf(n) = TokenOf(n)
  BY DEF Encoder!TokenOf, TokenOf
<1>4. \A seq, i : Encoder!PairAt(seq, i) = PairAt(seq, i)
  BY DEF Encoder!PairAt, PairAt
<1>5. \A seq : Encoder!PairsOf(seq) = PairsOf(seq)
  BY <1>4 DEF Encoder!PairsOf, PairsOf
<1>6. \A seq, pair, new : Encoder!Merge(seq, pair, new) = Merge(seq, pair, new)
  BY DEF Encoder!Merge, Merge, Encoder!PairAt, PairAt
<1>7. \A merged, seq : Encoder!ApplyInOrder(merged, seq) = ApplyInOrder(merged, seq)
  BY DEF Encoder!ApplyInOrder, ApplyInOrder, Encoder!Merge, Merge, Encoder!PairAt, PairAt,
         Encoder!TokenOf, TokenOf
<1>8. \A merged, seq : Encoder!Decode(merged, seq) = Decode(merged, seq)
  BY DEF Encoder!Decode, Decode, Encoder!TokenBytes, TokenBytes, Encoder!VocabSize, VocabSize,
         Encoder!TokenOf, TokenOf, Encoder!Bytes, Bytes
<1>9. \A S : Encoder!Cardinality(S) = Cardinality(S)
  BY DEF Encoder!Cardinality, Cardinality
<1> QED
  BY <1>2, <1>3, <1>5, <1>6, <1>7, <1>8, <1>9

\* What encoding starts from: the tokenizer and the text, between two steps.
LEMMA TokenizerIs ==
  ASSUME TokenizerInv, pc = "done"
  PROVE  merges \in Seq(Pairs) /\ ValidMerges(merges) /\ Len(merges) \in Nat
  BY DEF TokenizerInv

\* A piece of a text and the next one are a longer piece.
LEMMA SubSeqJoin ==
  ASSUME NEW seq \in Seq(Bytes), NEW i \in 1 .. Len(seq) + 1, NEW j \in i - 1 .. Len(seq)
  PROVE  /\ SubSeq(seq, 1, i - 1) \in Seq(Bytes) /\ SubSeq(seq, i, j) \in Seq(Bytes)
         /\ Len(SubSeq(seq, i, j)) = j - i + 1
         /\ SubSeq(seq, 1, i - 1) \o SubSeq(seq, i, j) = SubSeq(seq, 1, j)
<1>1. Len(seq) \in Nat /\ \A x \in 1 .. Len(seq) : seq[x] \in Bytes
  OBVIOUS
<1>2. /\ i \in Int /\ j \in Int /\ i - 1 \in Int
      /\ \A x \in 1 .. i - 1 : seq[x] \in Bytes
      /\ \A x \in i .. j : seq[x] \in Bytes
  BY <1>1
<1>3. SubSeq(seq, 1, i - 1) \in Seq(Bytes)
  BY <1>2, SubSeqProperties
<1>4. SubSeq(seq, i, j) \in Seq(Bytes) /\ Len(SubSeq(seq, i, j)) = IF i <= j THEN j - i + 1 ELSE 0
  BY <1>2, SubSeqProperties
<1>5. SubSeq(seq, 1, i - 1) \o SubSeq(seq, i, j) = SubSeq(seq, 1, j)
  <2>1. PICK k \in 1 - 1 .. Len(seq) : k = i - 1
    <3>1. i - 1 \in 1 - 1 .. Len(seq)
      BY <1>1
    <3> QED
      BY <3>1
  <2>2. 1 \in 1 .. Len(seq) + 1 /\ j \in k .. Len(seq) /\ k + 1 = i
    BY <1>1, <2>1
  <2>3. SubSeq(seq, 1, k) \o SubSeq(seq, k + 1, j) = SubSeq(seq, 1, j)
    BY <2>2, ConcatAdjacentSubSeq
  <2> QED
    BY <2>1, <2>2, <2>3
<1> QED
  BY <1>2, <1>3, <1>4, <1>5

\* Nothing of the encoder changes but the text and where it is.
LEMMA EncodeKeeps ==
  ASSUME TokenizerInv, CacheInv, pc = "done",
         \E t \in Texts, a \in SUBSET DOMAIN SpecialNames : Encoder!Encode(t, a),
         UNCHANGED <<pc, merges>>
  PROVE  CacheInv' /\ ChunkInv' /\ TextInv'
<1>1. PICK t \in Texts, a \in SUBSET DOMAIN SpecialNames : Encoder!Encode(t, a)
  OBVIOUS
<1>2. /\ text' = t /\ allowed' = a /\ at' = 1 /\ out' = <<>> /\ encoding' = "split"
      /\ UNCHANGED <<cacheSize, cache, pc, merges>>
  BY <1>1 DEF Encoder!Encode, Encoder!object
<1>3. CacheInv'
  BY <1>2 DEF CacheInv
<1>4. ChunkInv'
  BY <1>2 DEF ChunkInv
<1>5. TextInv'
  <2>1. t \in Seq(Bytes) /\ Len(t) \in Nat
    BY TokenizerAssumption
  <2>2. 1 \in 1 .. Len(t) + 1 /\ SubSeq(t, 1, 1 - 1) = <<>>
    <3>1. SubSeq(t, 1, 1 - 1) = <<>>
      BY SubSeqEmpty
    <3> QED
      BY <2>1, <3>1
  <2>3. <<>> \in Seq(IdsOf(merges)) /\ Decode(merges, <<>>) = <<>> /\ DOMAIN <<>> = {}
    BY TokenizerIs, DecodeNothing
  <2> QED
    BY <1>2, <2>1, <2>2, <2>3 DEF TextInv, IdsOf
<1> QED
  BY <1>3, <1>4, <1>5

\* More ids that decode to the next piece of the text.
LEMMA OutGrows ==
  ASSUME TokenizerInv, pc = "done", TextInv, encoding # "idle",
         NEW more \in Seq(IdsOf(merges)), NEW j \in at - 1 .. Len(text),
         Decode(merges, more) = SubSeq(text, at, j),
         \A i \in DOMAIN more, k \in DOMAIN SpecialNames \ allowed : more[i] # SpecialId(merges, k),
         out' = out \o more, at' = j + 1,
         UNCHANGED <<merges, text, allowed>>
  PROVE  TextInv'
<1>1. merges \in Seq(Pairs) /\ ValidMerges(merges)
  BY TokenizerIs
<1>2. /\ text \in Seq(Bytes) /\ allowed \subseteq DOMAIN SpecialNames /\ at \in 1 .. Len(text) + 1
      /\ out \in Seq(IdsOf(merges)) /\ Decode(merges, out) = SubSeq(text, 1, at - 1)
      /\ \A i \in DOMAIN out, k \in DOMAIN SpecialNames \ allowed : out[i] # SpecialId(merges, k)
  BY DEF TextInv, IdsOf
<1>3. out' \in Seq(IdsOf(merges)) /\ Decode(merges, out') = Decode(merges, out) \o Decode(merges, more)
  BY <1>1, <1>2, DecodeConcat
<1>4. Decode(merges, out') = SubSeq(text, 1, at' - 1)
  <2>1. SubSeq(text, 1, at - 1) \o SubSeq(text, at, j) = SubSeq(text, 1, j)
    BY <1>2, SubSeqJoin
  <2>2. at' - 1 = j
    BY <1>2
  <2> QED
    BY <1>2, <1>3, <2>1, <2>2
<1>5. at' \in 1 .. Len(text) + 1
  BY <1>2
<1>6. ASSUME NEW i \in DOMAIN out', NEW k \in DOMAIN SpecialNames \ allowed
      PROVE  out'[i] # SpecialId(merges, k)
  <2>1. /\ Len(out) \in Nat /\ Len(more) \in Nat /\ i \in 1 .. Len(out) + Len(more)
        /\ out'[i] = IF i <= Len(out) THEN out[i] ELSE more[i - Len(out)]
    <3>1. /\ Len(out') = Len(out) + Len(more)
          /\ \A x \in 1 .. Len(out) + Len(more) :
               out'[x] = IF x <= Len(out) THEN out[x] ELSE more[x - Len(out)]
      BY <1>2, ConcatProperties
    <3>2. DOMAIN out' = 1 .. Len(out')
      BY <1>3
    <3>3. i \in 1 .. Len(out) + Len(more)
      BY <3>1, <3>2
    <3> QED
      BY <1>2, <3>1, <3>3
  <2>2. CASE i <= Len(out)
    <3>1. i \in DOMAIN out
      BY <1>2, <2>1, <2>2
    <3> QED
      BY <1>2, <2>1, <2>2, <3>1
  <2>3. CASE ~ (i <= Len(out))
    <3>1. i - Len(out) \in DOMAIN more
      BY <2>1, <2>3
    <3> QED
      BY <2>1, <2>3, <3>1
  <2> QED
    BY <2>2, <2>3
<1> QED
  BY <1>2, <1>3, <1>4, <1>5, <1>6 DEF TextInv, IdsOf

\* A special token stands for its name.
LEMMA EmitSpecialKeeps ==
  ASSUME TokenizerInv, CacheInv, ChunkInv, TextInv, pc = "done", Encoder!EmitSpecial,
         UNCHANGED <<pc, merges>>
  PROVE  CacheInv' /\ ChunkInv' /\ TextInv'
<1>1. PICK k \in Encoder!Splitter(at) :
        /\ out' = Append(out, SpecialId(merges, k))
        /\ at' = at + Len(SpecialNames[k])
  BY SameOperators DEF Encoder!EmitSpecial
<1>2. /\ encoding = "split" /\ encoding' = "split"
      /\ UNCHANGED <<merges, cacheSize, cache, text, allowed, chunk, ids, pc>>
  BY DEF Encoder!EmitSpecial, Encoder!object, Encoder!textVars
<1>3. CacheInv'
  BY <1>2 DEF CacheInv
<1>4. ChunkInv'
  BY <1>2 DEF ChunkInv
<1>5. /\ text \in Seq(Bytes) /\ allowed \subseteq DOMAIN SpecialNames /\ at \in 1 .. Len(text) + 1
      /\ out \in Seq(IdsOf(merges)) /\ merges \in Seq(Pairs) /\ ValidMerges(merges)
  BY <1>2, TokenizerIs DEF TextInv, IdsOf
<1>6. /\ k \in allowed /\ at + Len(SpecialNames[k]) - 1 <= Len(text)
      /\ SubSeq(text, at, at + Len(SpecialNames[k]) - 1) = SpecialNames[k]
  BY DEF Encoder!Splitter, Encoder!OccursAt
<1>7. PICK id : id = SpecialId(merges, k)
  OBVIOUS
<1>8. /\ id \in IdsOf(merges) /\ SpecialNames[k] \in Seq(Bytes)
      /\ \A m \in DOMAIN SpecialNames : SpecialId(merges, m) = id => m = k
  <2>1. k \in DOMAIN SpecialNames
    BY <1>5, <1>6
  <2>2. /\ VocabSize(merges) = TokenOf(Len(merges)) + Len(SpecialNames) /\ TokenOf(Len(merges)) \in Nat
        /\ Len(SpecialNames) \in Nat /\ DOMAIN SpecialNames = 1 .. Len(SpecialNames)
        /\ \A m \in DOMAIN SpecialNames :
             SpecialNames[m] \in Seq(Bytes) /\ SpecialId(merges, m) = TokenOf(Len(merges)) + m - 1
    BY <1>5, IdKinds
  <2> QED
    BY <1>7, <2>1, <2>2 DEF IdsOf
<1>9. Decode(merges, <<id>>) = SpecialNames[k] /\ <<id>> \in Seq(IdsOf(merges))
  <2>1. TokenBytes(merges)[id] = SpecialNames[k]
    BY <1>5, <1>6, <1>7, TokenBytesIs DEF DecodesIds
  <2>2. <<>> \in Seq(IdsOf(merges)) /\ Decode(merges, <<>>) = <<>>
    BY <1>5, DecodeNothing
  <2>3. <<id>> \o <<>> = <<id>> /\ <<id>> \in Seq(IdsOf(merges))
    BY <1>8, ConcatEmptySeq
  <2>4. SpecialNames[k] \o <<>> = SpecialNames[k]
    BY <1>8, ConcatEmptySeq
  <2>5. Decode(merges, <<id>> \o <<>>) = TokenBytes(merges)[id] \o Decode(merges, <<>>)
    BY <1>5, <1>8, <2>2, DecodeCons
  <2> QED
    BY <2>1, <2>2, <2>3, <2>4, <2>5
<1>10. out' = out \o <<id>>
  BY <1>1, <1>5, <1>7, <1>8, AppendIsConcat
<1>11. PICK j \in at - 1 .. Len(text) : j = at + Len(SpecialNames[k]) - 1 /\ at' = j + 1
  <2>1. Len(SpecialNames[k]) \in Nat
    BY <1>8
  <2>2. at + Len(SpecialNames[k]) - 1 \in at - 1 .. Len(text)
    BY <1>5, <1>6, <2>1
  <2>3. at' = (at + Len(SpecialNames[k]) - 1) + 1
    BY <1>1, <1>5, <2>1
  <2> QED
    BY <2>2, <2>3
<1>12. \A i \in DOMAIN <<id>>, m \in DOMAIN SpecialNames \ allowed : <<id>>[i] # SpecialId(merges, m)
  BY <1>6, <1>8
<1>13. TextInv'
  BY <1>2, <1>5, <1>6, <1>9, <1>10, <1>11, <1>12, OutGrows
<1> QED
  BY <1>3, <1>4, <1>13

\* A chunk starts from the cache or from its bytes.
LEMMA BeginChunkKeeps ==
  ASSUME TokenizerInv, CacheInv, ChunkInv, TextInv, pc = "done",
         \E last \in 1 .. Len(text) : Encoder!BeginChunk(last),
         UNCHANGED <<pc, merges>>
  PROVE  CacheInv' /\ ChunkInv' /\ TextInv'
<1>1. PICK last \in 1 .. Len(text) : Encoder!BeginChunk(last)
  OBVIOUS
<1>2. /\ encoding = "split" /\ at <= last /\ last <= Len(text) /\ chunk' = SubSeq(text, at, last)
      /\ UNCHANGED <<merges, cacheSize, cache, text, allowed, at, out, pc>>
  BY <1>1 DEF Encoder!BeginChunk, Encoder!object, Encoder!textVars
<1>3. \/ chunk' \in DOMAIN cache /\ ids' = cache[chunk'] /\ encoding' = "result"
      \/ ids' = chunk' /\ encoding' = "merge"
  BY <1>1 DEF Encoder!BeginChunk
<1>4. text \in Seq(Bytes) /\ at \in 1 .. Len(text) + 1 /\ merges \in Seq(Pairs) /\ Len(merges) \in Nat
  BY <1>2, TokenizerIs DEF TextInv
<1>5. CacheInv'
  BY <1>2 DEF CacheInv
<1>6. /\ chunk' \in Seq(Bytes) /\ at + Len(chunk') - 1 <= Len(text)
      /\ chunk' = SubSeq(text, at, at + Len(chunk') - 1)
  <2>1. PICK j \in at - 1 .. Len(text) : j = last
    BY <1>2, <1>4
  <2>2. chunk' \in Seq(Bytes) /\ Len(chunk') = last - at + 1
    BY <1>2, <1>4, <2>1, SubSeqJoin
  <2>3. at + Len(chunk') - 1 = last
    BY <1>4, <2>2
  <2> QED
    BY <1>2, <2>2, <2>3
<1>7. encoding' = "result" => ids' = ApplyInOrder(merges, chunk')
  BY <1>3 DEF CacheInv
<1>8. encoding' = "merge" => MergedSoFar(0)'
  <2>1. SubSeq(merges, 1, 0) = <<>> /\ SubSeq(<<>>, 1, 0) = <<>>
    BY SubSeqEmpty
  <2>2. chunk' \in Seq(Below(0)) /\ chunk' = ApplyInOrder(SubSeq(merges, 1, 0), chunk')
    BY <1>6, <2>1, WordAtFirst
  <2>3. 1 .. 0 = {}
    OBVIOUS
  <2> QED
    BY <1>2, <1>3, <2>2, <2>3 DEF MergedSoFar
<1>9. ChunkInv'
  <2>1. 0 \in 0 .. Len(merges)
    BY <1>4
  <2>2. encoding' = "merge" => \E n \in 0 .. Len(merges) : MergedSoFar(n)'
    BY <1>8, <2>1
  <2>3. encoding' = "merge" => \E n \in 0 .. Len(merges') : MergedSoFar(n)'
    BY <1>2, <2>2
  <2> QED
    BY <1>2, <1>6, <1>7, <2>3 DEF ChunkInv
<1>10. TextInv'
  BY <1>2 DEF TextInv
<1> QED
  BY <1>5, <1>9, <1>10

\* The merges between those done and the next one that applies have nothing to merge.
LEMMA MergeLowestKeeps ==
  ASSUME TokenizerInv, CacheInv, ChunkInv, TextInv, pc = "done", Encoder!MergeLowest,
         UNCHANGED <<pc, merges>>
  PROVE  CacheInv' /\ ChunkInv' /\ TextInv'
<1>1. /\ encoding = "merge" /\ Encoder!Candidates # {}
      /\ UNCHANGED <<merges, cacheSize, cache, text, allowed, at, out, chunk, encoding, pc>>
  BY DEF Encoder!MergeLowest, Encoder!object, Encoder!textVars
<1>2. PICK k : /\ k = CHOOSE m \in Encoder!Candidates : \A j \in Encoder!Candidates : m <= j
               /\ ids' = Merge(ids, merges[k], TokenOf(k - 1))
  BY SameOperators DEF Encoder!MergeLowest
<1>3. merges \in Seq(Pairs) /\ ValidMerges(merges) /\ Len(merges) \in Nat
  BY TokenizerIs
<1>4. Encoder!Candidates = {j \in 1 .. Len(merges) : merges[j] \in PairsOf(ids)}
  BY <1>3, SameOperators DEF Encoder!Candidates
<1>5. /\ k \in 1 .. Len(merges) /\ merges[k] \in PairsOf(ids)
      /\ \A j \in 1 .. k - 1 : merges[j] \notin PairsOf(ids)
  <2>1. \E m \in Encoder!Candidates : \A j \in Encoder!Candidates : m <= j
    <3>1. Encoder!Candidates \in SUBSET Nat
      BY <1>3, <1>4
    <3> QED
      BY <1>1, <3>1, LeastOf
  <2>2. k \in Encoder!Candidates /\ \A j \in Encoder!Candidates : k <= j
    BY <1>2, <2>1
  <2> QED
    BY <1>4, <2>2
<1>6. chunk \in Seq(Bytes) /\ chunk \in Seq(Nat)
  BY <1>1, WordAtFirst DEF ChunkInv
<1>7. PICK n \in 0 .. Len(merges) : MergedSoFar(n)
  BY <1>1 DEF ChunkInv
<1>8. n <= k - 1
  <2>1. \A j \in 1 .. n : merges[j] \notin PairsOf(ids)
    BY <1>7 DEF MergedSoFar
  <2>2. ~ (k \in 1 .. n)
    BY <1>5, <2>1
  <2> QED
    BY <1>3, <1>5, <1>7, <2>2
<1>9. PICK m \in n .. Len(merges) : m = k - 1
  <2>1. k - 1 \in n .. Len(merges)
    BY <1>3, <1>5, <1>7, <1>8
  <2> QED
    BY <2>1
<1>10. ids = ApplyInOrder(SubSeq(merges, 1, m), chunk)
  <2>1. ids = ApplyInOrder(SubSeq(merges, 1, n), chunk)
    BY <1>7 DEF MergedSoFar
  <2>2. \A j \in n + 1 .. m : merges[j] \notin PairsOf(ApplyInOrder(SubSeq(merges, 1, n), chunk))
    <3>1. \A j \in n + 1 .. m : j \in 1 .. k - 1
      BY <1>7, <1>9
    <3> QED
      BY <1>5, <2>1, <3>1
  <2> QED
    BY <1>3, <1>6, <2>1, <2>2, ApplySkips
<1>11. ids \in Seq(Below(k - 1))
  <2>1. ids \in Seq(Below(n))
    BY <1>7 DEF MergedSoFar
  <2>2. Below(n) \subseteq Below(k - 1)
    BY <1>5, <1>7, <1>8, ByteVocabAssumption DEF Below, TokenOf
  <2> QED
    BY <2>1, <2>2, SeqMonotonic
<1>12. ids' \in Seq(Below(k)) /\ \A j \in 1 .. k : merges[j] \notin PairsOf(ids')
  BY <1>2, <1>3, <1>5, <1>11, MergeLeavesNone
<1>13. ids' = ApplyInOrder(SubSeq(merges, 1, k), chunk)
  <2>1. ApplyInOrder(SubSeq(merges, 1, k), chunk)
          = Merge(ApplyInOrder(SubSeq(merges, 1, k - 1), chunk), merges[k], TokenOf(k - 1))
    BY <1>3, <1>5, <1>6, ApplyPrefix
  <2> QED
    BY <1>2, <1>9, <1>10, <2>1
<1>14. MergedSoFar(k)' /\ k \in 0 .. Len(merges)
  BY <1>1, <1>5, <1>12, <1>13 DEF MergedSoFar
<1>15. ChunkInv'
  <2>1. \E i \in 0 .. Len(merges') : MergedSoFar(i)'
    BY <1>1, <1>14
  <2> QED
    BY <1>1, <2>1 DEF ChunkInv
<1>16. CacheInv'
  BY <1>1 DEF CacheInv
<1>17. TextInv'
  BY <1>1 DEF TextInv
<1> QED
  BY <1>15, <1>16, <1>17

\* When no merge applies any more, all have been applied.
LEMMA RememberKeeps ==
  ASSUME TokenizerInv, CacheInv, ChunkInv, TextInv, pc = "done", Encoder!Remember,
         UNCHANGED <<pc, merges>>
  PROVE  CacheInv' /\ ChunkInv' /\ TextInv'
<1>1. /\ encoding = "merge" /\ Encoder!Candidates = {} /\ encoding' = "result"
      /\ UNCHANGED <<merges, cacheSize, text, allowed, at, out, chunk, ids, pc>>
  BY DEF Encoder!Remember, Encoder!textVars
<1>2. merges \in Seq(Pairs) /\ ValidMerges(merges) /\ Len(merges) \in Nat
  BY TokenizerIs
<1>3. chunk \in Seq(Bytes) /\ chunk \in Seq(Nat)
  BY <1>1, WordAtFirst DEF ChunkInv
<1>4. ids = ApplyInOrder(merges, chunk)
  <2>1. PICK n \in 0 .. Len(merges) : MergedSoFar(n)
    BY <1>1 DEF ChunkInv
  <2>2. \A j \in 1 .. Len(merges) : merges[j] \notin PairsOf(ids)
    <3>1. Encoder!Candidates = {j \in 1 .. Len(merges) : merges[j] \in PairsOf(ids)}
      BY <1>2, SameOperators DEF Encoder!Candidates
    <3> QED
      BY <1>1, <3>1
  <2>3. ids = ApplyInOrder(SubSeq(merges, 1, n), chunk)
    BY <2>1 DEF MergedSoFar
  <2>4. PICK m \in n .. Len(merges) : m = Len(merges)
    BY <1>2
  <2>5. \A j \in n + 1 .. m : merges[j] \notin PairsOf(ApplyInOrder(SubSeq(merges, 1, n), chunk))
    <3>1. \A j \in n + 1 .. m : j \in 1 .. Len(merges)
      BY <2>4
    <3> QED
      BY <2>2, <2>3, <3>1
  <2>6. ApplyInOrder(SubSeq(merges, 1, m), chunk) = ApplyInOrder(SubSeq(merges, 1, n), chunk)
    BY <1>2, <1>3, <2>5, ApplySkips
  <2>7. SubSeq(merges, 1, m) = merges
    BY <1>2, <2>4, SubSeqFull
  <2> QED
    BY <2>3, <2>6, <2>7
<1>5. CacheInv'
  <2>1. CASE cacheSize = 0
    <3>1. cache' = cache
      BY <2>1 DEF Encoder!Remember
    <3> QED
      BY <1>1, <3>1 DEF CacheInv
  <2>2. CASE cacheSize # 0
    <3>0. PICK kept : kept = IF Cardinality(DOMAIN cache) >= cacheSize THEN {} ELSE DOMAIN cache
      OBVIOUS
    <3>1. /\ kept = IF Cardinality(DOMAIN cache) >= cacheSize THEN {} ELSE DOMAIN cache
          /\ cache' = [c \in kept \cup {chunk} |-> IF c = chunk THEN ids ELSE cache[c]]
      BY <2>2, <3>0, SameOperators DEF Encoder!Remember
    <3>2. /\ IsFiniteSet(DOMAIN cache) /\ cacheSize \in Nat \ {0}
          /\ \A c \in DOMAIN cache : c \in Seq(Bytes) /\ cache[c] = ApplyInOrder(merges, c)
      BY <2>2 DEF CacheInv
    <3>3. /\ IsFiniteSet(kept) /\ Cardinality(kept) \in Nat /\ Cardinality(kept) < cacheSize
          /\ kept \subseteq DOMAIN cache
      <4>1. CASE Cardinality(DOMAIN cache) >= cacheSize
        BY <3>1, <3>2, <4>1, FS_EmptySet
      <4>2. CASE ~ (Cardinality(DOMAIN cache) >= cacheSize)
        <5>1. kept = DOMAIN cache /\ Cardinality(DOMAIN cache) \in Nat
          BY <3>1, <3>2, <4>2, FS_CardinalityType
        <5> QED
          BY <3>2, <4>2, <5>1
      <4> QED
        BY <4>1, <4>2
    <3>4. DOMAIN cache' = kept \cup {chunk}
      BY <3>1
    <3>5. IsFiniteSet(kept \cup {chunk}) /\ Cardinality(kept \cup {chunk}) <= Cardinality(kept) + 1
      <4>1. /\ IsFiniteSet(kept \cup {chunk})
            /\ Cardinality(kept \cup {chunk}) =
                 IF chunk \in kept THEN Cardinality(kept) ELSE Cardinality(kept) + 1
        BY <3>3, FS_AddElement
      <4> QED
        BY <3>3, <4>1
    <3>6. Cardinality(kept \cup {chunk}) <= cacheSize
      <4>1. Cardinality(kept \cup {chunk}) \in Nat
        BY <3>5, FS_CardinalityType
      <4> QED
        BY <3>2, <3>3, <3>5, <4>1
    <3>7. \A c \in kept \cup {chunk} : c \in Seq(Bytes) /\ cache'[c] = ApplyInOrder(merges, c)
      BY <1>3, <1>4, <3>1, <3>2, <3>3
    <3> QED
      BY <1>1, <3>2, <3>4, <3>5, <3>6, <3>7 DEF CacheInv
  <2> QED
    BY <2>1, <2>2
<1>6. ChunkInv'
  BY <1>1, <1>4 DEF ChunkInv
<1>7. TextInv'
  BY <1>1 DEF TextInv
<1> QED
  BY <1>5, <1>6, <1>7

\* The ids of a chunk decode to the chunk, and none is a special token.
LEMMA EndChunkKeeps ==
  ASSUME TokenizerInv, CacheInv, ChunkInv, TextInv, pc = "done", Encoder!EndChunk,
         UNCHANGED <<pc, merges>>
  PROVE  CacheInv' /\ ChunkInv' /\ TextInv'
<1>1. /\ encoding = "result" /\ encoding' = "split" /\ out' = out \o ids /\ at' = at + Len(chunk)
      /\ UNCHANGED <<merges, cacheSize, cache, text, allowed, pc>>
  BY DEF Encoder!EndChunk, Encoder!object, Encoder!textVars
<1>2. /\ chunk \in Seq(Bytes) /\ at + Len(chunk) - 1 <= Len(text)
      /\ chunk = SubSeq(text, at, at + Len(chunk) - 1) /\ ids = ApplyInOrder(merges, chunk)
  BY <1>1 DEF ChunkInv
<1>3. merges \in Seq(Pairs) /\ ValidMerges(merges) /\ Len(merges) \in Nat
  BY TokenizerIs
<1>4. /\ ids \in Seq(Below(Len(merges))) /\ ids \in Seq(IdsOf(merges))
      /\ Decode(merges, ids) = chunk
  BY <1>2, <1>3, DecodeApplied
<1>5. \A i \in DOMAIN ids, k \in DOMAIN SpecialNames \ allowed : ids[i] # SpecialId(merges, k)
  <2>1. ASSUME NEW i \in DOMAIN ids, NEW k \in DOMAIN SpecialNames
        PROVE  ids[i] # SpecialId(merges, k)
    <3>1. ids[i] \in Below(Len(merges))
      BY <1>4
    <3>2. SpecialId(merges, k) = TokenOf(Len(merges)) + k - 1 /\ k \in 1 .. Len(SpecialNames)
      BY <1>3, IdKinds
    <3>3. TokenOf(Len(merges)) \in Nat
      BY <1>3, TokenIsNat
    <3> QED
      BY <3>1, <3>2, <3>3 DEF Below
  <2> QED
    BY <2>1
<1>6. at \in 1 .. Len(text) + 1 /\ text \in Seq(Bytes)
  BY <1>1 DEF TextInv
<1>7. PICK j \in at - 1 .. Len(text) : j = at + Len(chunk) - 1 /\ at' = j + 1
  <2>1. Len(chunk) \in Nat /\ Len(text) \in Nat
    BY <1>2, <1>6
  <2>2. at + Len(chunk) - 1 \in at - 1 .. Len(text) /\ at + Len(chunk) = (at + Len(chunk) - 1) + 1
    BY <1>2, <1>6, <2>1
  <2> QED
    BY <1>1, <2>2
<1>8. TextInv'
  <2>1. Decode(merges, ids) = SubSeq(text, at, j)
    BY <1>2, <1>4, <1>7
  <2> QED
    BY <1>1, <1>4, <1>5, <1>7, <2>1, OutGrows
<1>9. CacheInv'
  BY <1>1 DEF CacheInv
<1>10. ChunkInv'
  BY <1>1 DEF ChunkInv
<1> QED
  BY <1>8, <1>9, <1>10

-----------------------------------------------------------------------------
(* The artifact, and what always holds                                     *)

\* A file that is accepted is the one its tokenizer would save.
LEMMA AcceptedFile ==
  ASSUME NEW raw \in Artifacts, Accepts(raw)
  PROVE  /\ raw.merges \in Seq(Pairs) /\ ValidMerges(raw.merges)
         /\ raw.min_pair_count \in Nat \ {0}
         /\ raw = ToArtifact(raw.merges, raw.min_pair_count)
<1>1. PICK list \in Seq(Int \X Int), count \in Int, size \in Int,
           special \in [DOMAIN SpecialNames -> Int] :
        raw = [merges |-> list, min_pair_count |-> count, vocab_size |-> size,
               special_tokens |-> special]
  BY TokenizerAssumption
<1>2. /\ raw.merges = list /\ raw.min_pair_count = count /\ raw.vocab_size = size
      /\ raw.special_tokens = special
  BY <1>1
<1>3. /\ count \in Nat \ {0} /\ ValidMerges(list) /\ size = VocabSize(list)
      /\ special = SpecialIds(list)
  BY <1>2 DEF Accepts
<1>4. list \in Seq(Pairs)
  <2>1. ASSUME NEW k \in 1 .. Len(list) PROVE list[k] \in Pairs
    <3>1. \A side \in 1 .. 2 : list[k][side] \in 0 .. TokenOf(k - 1) - 1
      BY <1>3 DEF ValidMerges
    <3>2. list[k] \in Int \X Int
      BY ElementOfSeq
    <3>3. list[k] = <<list[k][1], list[k][2]>>
      BY <3>2
    <3>4. list[k][1] \in Nat /\ list[k][2] \in Nat
      BY <3>1
    <3> QED
      BY <3>3, <3>4, Zenon DEF Pairs
  <2>2. Len(list) \in Nat /\ list = [k \in 1 .. Len(list) |-> list[k]]
    OBVIOUS
  <2>3. PICK n \in Nat : n = Len(list)
    BY <2>2
  <2>4. list \in [1 .. n -> Pairs]
    BY <2>1, <2>2, <2>3
  <2> QED
    BY <2>4, SeqDef
<1>5. raw = ToArtifact(list, count)
  BY <1>1, <1>3 DEF ToArtifact
<1> QED
  BY <1>2, <1>3, <1>4, <1>5

\* Every tokenizer can be loaded from the file it is saved to.
LEMMA SavedFile ==
  ASSUME NEW merged \in Seq(Pairs), ValidMerges(merged), NEW count \in Nat \ {0}
  PROVE  Accepts(ToArtifact(merged, count))
<1>1. PICK raw : raw = ToArtifact(merged, count)
  OBVIOUS
<1>2. /\ raw.merges = merged /\ raw.min_pair_count = count /\ raw.vocab_size = VocabSize(merged)
      /\ raw.special_tokens = SpecialIds(merged)
  BY <1>1 DEF ToArtifact
<1>3. VocabSize(merged) >= ByteVocab + Len(SpecialNames)
  BY IdKinds
<1> QED
  BY <1>1, <1>2, <1>3 DEF Accepts

\* The encoder's part of IInv needs the tokenizer's step to leave it idle.
LEMMA IdleKeeps ==
  ASSUME CacheInv, ChunkInv, encoding = "idle", encoding' = "idle",
         cacheSize' = cacheSize, cache' = <<>>
  PROVE  CacheInv' /\ ChunkInv' /\ TextInv'
<1>1. DOMAIN <<>> = {}
  OBVIOUS
<1>2. IsFiniteSet(DOMAIN cache') /\ Cardinality(DOMAIN cache') = 0 /\ DOMAIN cache' = {}
  BY <1>1, FS_EmptySet
<1>3. cacheSize \in Nat
  BY DEF CacheInv
<1> QED
  BY <1>2, <1>3 DEF CacheInv, ChunkInv, TextInv

\* Training starts, or a file is loaded that load() accepts.
LEMMA Initially ==
  ASSUME Init
  PROVE  IInv
<1>1. /\ encoding = "idle" /\ cache = <<>> /\ cacheSize \in Nat
  BY TokenizerAssumption DEF Init, Encoder!EncoderInit
<1>2. CacheInv /\ ChunkInv /\ TextInv
  <2>1. DOMAIN <<>> = {}
    OBVIOUS
  <2>2. IsFiniteSet(DOMAIN cache) /\ Cardinality(DOMAIN cache) = 0 /\ DOMAIN cache = {}
    BY <1>1, <2>1, FS_EmptySet
  <2> QED
    BY <1>1, <2>2 DEF CacheInv, ChunkInv, TextInv
<1>3. CASE TrainerInit /\ file = NoFile
  <2>1. TrainerInv /\ pc = "choose"
    BY <1>3, TrainerInitially DEF TrainerInit
  <2> QED
    BY <1>2, <1>3, <2>1 DEF IInv, TokenizerInv
<1>4. CASE LoadInit
  <2>1. TrainerInv
    BY <1>4 DEF LoadInit, TrainerInv
  <2>2. TokenizerInv
    <3>1. CASE Accepts(file)
      <4>1. file \in Artifacts /\ merges = file.merges /\ minCount = file.min_pair_count /\ pc = "done"
        BY <1>4, <3>1 DEF LoadInit
      <4> QED
        BY <3>1, <4>1, AcceptedFile DEF TokenizerInv
    <3>2. CASE ~ Accepts(file)
      BY <1>4, <3>2 DEF LoadInit, TokenizerInv
    <3> QED
      BY <3>1, <3>2
  <2> QED
    BY <1>2, <2>1, <2>2 DEF IInv
<1> QED
  BY <1>3, <1>4 DEF Init

\* A step of training leaves the encoder alone; the last one returns a valid tokenizer.
LEMMA TrainingKeeps ==
  ASSUME IInv, Training
  PROVE  IInv'
<1>1. TrainerInv' /\ Train /\ UNCHANGED <<file, encoderVars>>
  BY TrainKeeps DEF IInv, Training
<1>2. pc \in {"choose", "merge"} /\ file = NoFile /\ encoding = "idle" /\ DOMAIN cache = {}
  BY <1>1 DEF IInv, TokenizerInv, ChunkInv, CacheInv, Train, SkipStale, ChooseBest, RunOut, Choosing,
            MergeWord, FinishMerge, ReturnTokenizer
<1>3. TokenizerInv'
  <2>1. file' = NoFile
    BY <1>1, <1>2
  <2>2. CASE ReturnTokenizer
    <3>1. pc = "choose" /\ merges' = merges /\ minCount' = minCount
      BY <2>2 DEF ReturnTokenizer
    <3>2. merges \in Seq(Pairs) /\ ValidMerges(merges) /\ minCount \in Nat \ {0}
      BY <3>1 DEF IInv, TrainerInv, WordsInv
    <3> QED
      BY <2>1, <3>1, <3>2 DEF TokenizerInv
  <2>3. CASE ~ ReturnTokenizer
    <3>1. pc' # "done"
      BY <1>1, <1>2, <2>3 DEF Train, SkipStale, ChooseBest, RunOut, MergeWord, FinishMerge
    <3> QED
      BY <2>1, <3>1 DEF TokenizerInv
  <2> QED
    BY <2>2, <2>3
<1>4. CacheInv' /\ ChunkInv' /\ TextInv'
  <2>1. UNCHANGED <<cacheSize, cache, encoding>>
    BY <1>1 DEF encoderVars, callVars
  <2> QED
    BY <1>2, <2>1 DEF IInv, CacheInv, ChunkInv, TextInv
<1> QED
  BY <1>1, <1>3, <1>4 DEF IInv

\* No step of a call to encode() disturbs the invariant.
LEMMA EncodingKeeps ==
  ASSUME IInv, Encoding
  PROVE  IInv'
<1>1. pc = "done" /\ Encoder!EncoderNext /\ UNCHANGED <<minCount, pc, file>>
  BY DEF Encoding, input
<1>2. UNCHANGED merges
  BY <1>1 DEF Encoder!EncoderNext, Encoder!Encode, Encoder!EmitSpecial, Encoder!BeginChunk,
         Encoder!MergeLowest, Encoder!Remember, Encoder!EndChunk, Encoder!Return, Encoder!object
<1>3. TrainerInv' /\ TokenizerInv'
  BY <1>1, <1>2 DEF IInv, TrainerInv, TokenizerInv
<1>4. TokenizerInv /\ CacheInv /\ ChunkInv /\ TextInv
  BY DEF IInv
<1>5. CacheInv' /\ ChunkInv' /\ TextInv'
  <2>1. CASE \E t \in Texts, a \in SUBSET DOMAIN SpecialNames : Encoder!Encode(t, a)
    BY <1>1, <1>2, <1>4, <2>1, EncodeKeeps
  <2>2. CASE Encoder!EmitSpecial
    BY <1>1, <1>2, <1>4, <2>2, EmitSpecialKeeps
  <2>3. CASE \E last \in 1 .. Len(text) : Encoder!BeginChunk(last)
    BY <1>1, <1>2, <1>4, <2>3, BeginChunkKeeps
  <2>4. CASE Encoder!MergeLowest
    BY <1>1, <1>2, <1>4, <2>4, MergeLowestKeeps
  <2>5. CASE Encoder!Remember
    BY <1>1, <1>2, <1>4, <2>5, RememberKeeps
  <2>6. CASE Encoder!EndChunk
    BY <1>1, <1>2, <1>4, <2>6, EndChunkKeeps
  <2>7. CASE Encoder!Return
    <3>1. encoding' = "idle" /\ UNCHANGED <<cacheSize, cache>>
      BY <2>7 DEF Encoder!Return, Encoder!object
    <3> QED
      BY <1>1, <1>2, <1>4, <3>1 DEF CacheInv, ChunkInv, TextInv
  <2> QED
    BY <1>1, <2>1, <2>2, <2>3, <2>4, <2>5, <2>6, <2>7 DEF Encoder!EncoderNext
<1> QED
  BY <1>3, <1>5 DEF IInv

\* The first merges of a valid list are a valid list.
LEMMA TruncateKeeps ==
  ASSUME IInv, NEW n \in 0 .. Len(merges), Truncate(n)
  PROVE  IInv'
<1>1. /\ pc = "done" /\ encoding = "idle" /\ merges' = SubSeq(merges, 1, n) /\ cache' = <<>>
      /\ file' = NoFile /\ UNCHANGED <<minCount, pc, cacheSize, encoding>>
  BY DEF Truncate, input, callVars
<1>2. merges \in Seq(Pairs) /\ ValidMerges(merges) /\ minCount \in Nat \ {0} /\ Len(merges) \in Nat
  BY <1>1 DEF IInv, TokenizerInv
<1>3. /\ merges' \in Seq(Pairs) /\ DOMAIN merges' = 1 .. n
      /\ \A k \in 1 .. n : k \in DOMAIN merges /\ merges'[k] = merges[k]
  BY <1>1, <1>2
<1>4. ValidMerges(merges')
  <2>1. ASSUME NEW k \in 1 .. n
        PROVE  /\ \A side \in 1 .. 2 : merges'[k][side] \in 0 .. TokenOf(k - 1) - 1
               /\ \A j \in 1 .. k - 1 : merges'[j] # merges'[k]
    <3>1. \A j \in 1 .. k - 1 : merges'[j] = merges[j] /\ merges[j] # merges[k]
      <4>1. \A j \in 1 .. k - 1 : j \in 1 .. n
        OBVIOUS
      <4> QED
        BY <1>2, <1>3, <4>1 DEF ValidMerges
    <3> QED
      BY <1>2, <1>3, <3>1 DEF ValidMerges
  <2> QED
    BY <1>3, <2>1 DEF ValidMerges
<1>5. TrainerInv' /\ TokenizerInv'
  BY <1>1, <1>2, <1>3, <1>4 DEF TrainerInv, TokenizerInv
<1>6. CacheInv' /\ ChunkInv' /\ TextInv'
  BY <1>1, IdleKeeps DEF IInv
<1> QED
  BY <1>5, <1>6 DEF IInv

\* IInv is inductive.
THEOREM Invariance == Spec => []IInv
<1>1. Init => IInv
  BY Initially
<1>2. IInv /\ [Next]_vars => IInv'
  <2> SUFFICES ASSUME IInv, [Next]_vars PROVE IInv'
    OBVIOUS
  <2>1. CASE Training
    BY <2>1, TrainingKeeps
  <2>2. CASE Encoding
    BY <2>2, EncodingKeeps
  <2>3. CASE \E n \in 0 .. Len(merges) : Truncate(n)
    BY <2>3, TruncateKeeps
  <2>4. CASE UNCHANGED vars
    <3>1. UNCHANGED <<trainerVars, file, encoderVars>>
      BY <2>4 DEF vars
    <3> QED
      BY <3>1 DEF trainerVars, encoderVars, callVars, IInv, TrainerInv, WordsInv, Words, WordInv,
                MergesOf, IndexInv, CountInv, Occurrences, HeapInv, TokenizerInv, CacheInv, ChunkInv,
                MergedSoFar, TextInv
  <2> QED
    BY <2>1, <2>2, <2>3, <2>4 DEF Next, Ended
<1> QED
  BY <1>1, <1>2, PTL DEF Spec

-----------------------------------------------------------------------------
(* Theorems                                                                *)

\* Every decision of training is the one a fresh count of all pairs would make, for every
\* corpus, whatever the heap, the counts and the index still hold (trainer.py 144-182).
THEOREM Decisions == Spec => DecidesAsCounted
<1>1. IInv =>
        [/\ ChooseBest =>
              \A p \in CurrentPairs \ {best'} :
                Before(<<Occurrences(seqs, best')>> \o best', <<Occurrences(seqs, p)>> \o p)
         /\ RunOut => \A p \in CurrentPairs : Occurrences(seqs, p) < minCount]_trainerVars
  BY StepsDecideAsCounted DEF IInv
<1> QED
  BY <1>1, Invariance, PTL DEF DecidesAsCounted

\* The stale index misses no word: between two merges every word is what the merges learnt
\* so far make of its bytes (trainer.py 144-182).
THEOREM Segments == Spec => []SegmentsByItsMerges
<1>1. IInv => SegmentsByItsMerges
  <2> SUFFICES ASSUME IInv, pc = "choose", NEW w \in Words
               PROVE  seqs[w] = ApplyInOrder(merges, w)
    BY DEF SegmentsByItsMerges
  <2>1. WordsInv /\ WordInv(w)
    BY DEF IInv, TrainerInv
  <2>2. todo = {} /\ merges \in Seq(Pairs)
    BY <2>1 DEF WordsInv
  <2>3. MergesOf(w) = Len(merges)
    BY <2>2 DEF MergesOf
  <2>4. SubSeq(merges, 1, Len(merges)) = merges
    BY <2>2, SubSeqFull
  <2> QED
    BY <2>1, <2>3, <2>4 DEF WordInv
<1> QED
  BY <1>1, Invariance, PTL

\* Encoding by lowest rank and the bounded cache give what training gives, with every
\* tokenizer that training, a file or a truncation makes (bpe.py 224-257).
THEOREM Encodes == Spec => []EncodesAsTrained
<1>1. IInv => EncodesAsTrained
  <2> SUFFICES ASSUME IInv, pc = "done"
               PROVE  ValidMerges(merges) /\ Encoder!EncodesInOrder
    BY DEF EncodesAsTrained
  <2>1. ValidMerges(merges) /\ CacheInv /\ ChunkInv
    BY DEF IInv, TokenizerInv
  <2> QED
    BY <2>1, SameOperators DEF CacheInv, ChunkInv, Encoder!EncodesInOrder
<1> QED
  BY <1>1, Invariance, PTL

\* decode(encode(s)) = s for every text, and special ids come from allowed special tokens
\* only (bpe.py 33-37).
THEOREM Decodes == Spec => []RoundTrips
<1>1. IInv => RoundTrips
  <2> SUFFICES ASSUME IInv, pc = "done" PROVE Encoder!DecodesToText
    BY DEF RoundTrips
  <2> QED
    BY SameOperators DEF IInv, TextInv, Encoder!DecodesToText
<1> QED
  BY <1>1, Invariance, PTL

\* A tokenizer and its file are the same thing (bpe.py 16-20).
THEOREM OneArtifact == Spec => []ArtifactIsTheTokenizer
<1>1. IInv => ArtifactIsTheTokenizer
  BY SavedFile DEF IInv, TokenizerInv, ArtifactIsTheTokenizer
<1> QED
  BY <1>1, Invariance, PTL
=============================================================================
