--------------------------- MODULE InductionLemmas ---------------------------
(***************************************************************************)
(* What the proofs need in place of induction over data: least elements,   *)
(* induction and recursion up to a bound, and sums over finite sets (the   *)
(* sum of SumFunctionOnSet exists, takes its elements in any order and     *)
(* adds up over a partition).                                              *)
(***************************************************************************)
EXTENDS Integers, FiniteSets, Functions, TLAPS, FiniteSetTheorems, WellFoundedInduction

\* A non-empty set of naturals has a least element.
LEMMA LeastOf ==
  ASSUME NEW S \in SUBSET Nat, S # {}
  PROVE  \E n \in S : \A m \in S : n <= m
<1>1. PICK n \in S : \A m \in S : ~ (<<m, n>> \in OpToRel(<, Nat))
  BY NatLessThanWellFounded, WFMin
<1>2. ASSUME NEW m \in S PROVE n <= m
  <2>1. <<m, n>> \in Nat \X Nat
    OBVIOUS
  <2>2. m < n => <<m, n>> \in OpToRel(<, Nat)
    BY <2>1 DEF OpToRel
  <2>3. ~ (m < n)
    BY <1>1, <2>2
  <2> QED
    BY <2>1, <2>3
<1> QED
  BY <1>2

\* A set that has 0 and with each number up to n the next one has them all.
LEMMA InductionUpTo ==
  ASSUME NEW n \in Nat, NEW G, 0 \in G, \A m \in 0 .. n - 1 : m \in G => m + 1 \in G
  PROVE  \A m \in 0 .. n : m \in G
<1> DEFINE Bad == {m \in 0 .. n : m \notin G}
<1>1. ASSUME NEW m \in Bad, \A k \in Bad : m <= k PROVE FALSE
  <2>1. m \in 1 .. n
    OBVIOUS
  <2>2. PICK k \in 0 .. n - 1 : m = k + 1
    BY <2>1
  <2>3. k \notin Bad
    BY <1>1, <2>2
  <2> QED
    BY <2>2, <2>3
<1>2. Bad = {}
  <2> HIDE DEF Bad
  <2>1. Bad \in SUBSET Nat
    BY DEF Bad
  <2> QED
    BY <1>1, <2>1, LeastOf
<1> QED
  BY <1>2

\* F gives each value of a function from 0 .. n to X by those before it.
ByEarlier(n, X, F) ==
  /\ F \in [(0 .. n) \X [0 .. n -> X] -> X]
  /\ \A k \in 0 .. n : \A g, h \in [0 .. n -> X] :
       (\A j \in 0 .. k - 1 : g[j] = h[j]) => F[<<k, g>>] = F[<<k, h>>]

\* The values of h are those F gives.
Recursive(n, F, h) == \A k \in 0 .. n : h[k] = F[<<k, h>>]

\* There is a function whose values are given by earlier ones.
LEMMA RecursionUpTo ==
  ASSUME NEW n \in Nat, NEW X, X # {}, NEW F, ByEarlier(n, X, F)
  PROVE  \E h \in [0 .. n -> X] : Recursive(n, F, h)
<1> USE DEF ByEarlier, Recursive
<1>0. PICK x \in X : TRUE
  OBVIOUS
<1> DEFINE Below(m, h) == \A k \in 0 .. n : k < m => h[k] = F[<<k, h>>]
           G == {m \in Nat : \E h \in [0 .. n -> X] : Below(m, h)}
<1>1. 0 \in G
  <2>1. [k \in 0 .. n |-> x] \in [0 .. n -> X] /\ Below(0, [k \in 0 .. n |-> x])
    OBVIOUS
  <2> QED
    BY <2>1
<1>2. ASSUME NEW m \in 0 .. n, m \in G PROVE m + 1 \in G
  <2>1. PICK g \in [0 .. n -> X] : Below(m, g)
    BY <1>2
  <2>2. F[<<m, g>>] \in X
    OBVIOUS
  <2> DEFINE h == [k \in 0 .. n |-> IF k = m THEN F[<<m, g>>] ELSE g[k]]
  <2>3. h \in [0 .. n -> X]
    BY <2>2
  <2>4. h[m] = F[<<m, g>>] /\ \A k \in 0 .. n : k # m => h[k] = g[k]
    OBVIOUS
  <2> HIDE DEF h
  <2>5. ASSUME NEW k \in 0 .. n, k <= m PROVE F[<<k, g>>] = F[<<k, h>>]
    <3>1. \A j \in 0 .. k - 1 : g[j] = h[j]
      BY <2>4, <2>5
    <3> QED
      BY <2>3, <3>1
  <2>6. ASSUME NEW k \in 0 .. n, k < m + 1 PROVE h[k] = F[<<k, h>>]
    <3>0. k <= m /\ (k # m => k < m)
      BY <2>6
    <3>1. F[<<k, g>>] = F[<<k, h>>]
      BY <2>5, <3>0
    <3>2. CASE k = m
      BY <2>4, <3>1, <3>2
    <3>3. CASE k # m
      <4>1. g[k] = F[<<k, g>>]
        BY <2>1, <3>0, <3>3
      <4> QED
        BY <2>4, <3>1, <3>3, <4>1
    <3> QED
      BY <3>2, <3>3
  <2>7. PICK N \in Nat : N = m + 1
    OBVIOUS
  <2>8. \A k \in 0 .. n : k < N => k < m + 1
    BY <2>7
  <2>9. Below(N, h)
    BY <2>6, <2>8
  <2>10. N \in G
    BY <2>3, <2>9
  <2> QED
    BY <2>7, <2>10
<1>3. PICK N \in Nat : N = n + 1
  OBVIOUS
<1>4. N \in G
  <2> HIDE DEF G
  <2>1. \A m \in 0 .. N - 1 : m \in 0 .. n
    BY <1>3
  <2>2. \A m \in 0 .. N : m \in G
    BY <1>1, <1>2, <2>1, InductionUpTo
  <2> QED
    BY <2>2
<1>5. PICK h \in [0 .. n -> X] : Below(N, h)
  BY <1>4
<1>6. \A k \in 0 .. n : k < N
  BY <1>3
<1> QED
  BY <1>5, <1>6

\* The image of a finite set.
LEMMA FiniteImage ==
  ASSUME NEW f, NEW S, IsFiniteSet(S)
  PROVE  IsFiniteSet({f[x] : x \in S})
<1> DEFINE T == {f[x] : x \in S}
           g == [x \in S |-> f[x]]
<1>1. g \in Surjection(S, T)
  BY DEF Surjection
<1> QED
  BY <1>1, FS_Surjection

-----------------------------------------------------------------------------
(* Sums over a finite set                                                  *)

\* The element the fold takes next.
Pick(s) == CHOOSE x \in s : TRUE

\* A non-empty set has its picked element, and fewer without it.
LEMMA PickSmaller ==
  ASSUME NEW s, IsFiniteSet(s), NEW x \in s
  PROVE  /\ Pick(s) \in s
         /\ IsFiniteSet(s \ {x}) /\ Cardinality(s) \in Nat \ {0}
         /\ Cardinality(s \ {x}) = Cardinality(s) - 1
<1>1. Pick(s) \in s
  BY DEF Pick
<1>2. IsFiniteSet(s \ {x}) /\ Cardinality(s \ {x}) = Cardinality(s) - 1
  BY FS_RemoveElement
<1>3. Cardinality(s) \in Nat /\ (Cardinality(s) = 0 <=> s = {})
  BY FS_CardinalityType, FS_EmptySet
<1> QED
  BY <1>1, <1>2, <1>3

\* What the sum adds up for s.
Turn(f, h, s) == IF s = {} THEN 0 ELSE f[Pick(s)] + h[s \ {Pick(s)}]

\* What the fold over the subsets of S is to satisfy.
Folds(f, S, h) == h = [s \in SUBSET S |-> Turn(f, h, s)]

\* SumFunctionOnSet is defined by it.
LEMMA SumIsFold ==
  ASSUME NEW f, NEW S
  PROVE  SumFunctionOnSet(f, S) = (CHOOSE h : Folds(f, S, h))[S]
BY DEF SumFunctionOnSet, FoldFunctionOnSet, MapThenFoldSet, Folds, Turn, Pick

\* There is such a function, built up by the number of elements.
LEMMA FoldExists ==
  ASSUME NEW f, NEW S, IsFiniteSet(S)
  PROVE  \E h : Folds(f, S, h)
<1> DEFINE UpTo(n, h) == \A s \in SUBSET S : Cardinality(s) <= n => h[s] = Turn(f, h, s)
           Bad == {n \in Nat : \A h : ~ UpTo(n, h)}
<1>0. \A s \in SUBSET S : IsFiniteSet(s) /\ Cardinality(s) \in Nat /\ Cardinality(s) <= Cardinality(S)
  BY FS_Subset, FS_CardinalityType
<1>1. ASSUME NEW n \in Bad, \A m \in Bad : n <= m PROVE FALSE
  <2>1. CASE n = 0
    <3> DEFINE h == [s \in SUBSET S |-> 0]
    <3>1. ASSUME NEW s \in SUBSET S, Cardinality(s) <= 0 PROVE h[s] = Turn(f, h, s)
      <4>1. s = {}
        BY <1>0, <3>1, FS_EmptySet
      <4> QED
        BY <4>1 DEF Turn
    <3> QED
      BY <2>1, <3>1
  <2>2. CASE n # 0
    <3>1. n - 1 \in Nat /\ n - 1 \notin Bad
      BY <1>1, <2>2
    <3>2. PICK g : UpTo(n - 1, g)
      BY <3>1
    <3> HIDE DEF Bad
    <3> DEFINE h == [s \in SUBSET S |-> Turn(f, g, s)]
    <3>3. ASSUME NEW s \in SUBSET S, Cardinality(s) <= n PROVE h[s] = Turn(f, h, s)
      <4>1. CASE s = {}
        BY <4>1 DEF Turn
      <4>2. CASE s # {}
        <5>1. /\ s \ {Pick(s)} \in SUBSET S /\ Pick(s) \in s
          BY <1>0, <4>2, PickSmaller
        <5>2. Cardinality(s \ {Pick(s)}) = Cardinality(s) - 1
          BY <1>0, <5>1, PickSmaller
        <5>3. Cardinality(s \ {Pick(s)}) <= n - 1
          BY <1>0, <1>1, <3>3, <5>2 DEF Bad
        <5>4. g[s \ {Pick(s)}] = Turn(f, g, s \ {Pick(s)})
          BY <3>2, <5>1, <5>3
        <5>5. g[s \ {Pick(s)}] = h[s \ {Pick(s)}]
          BY <5>1, <5>4
        <5>6. h[s] = f[Pick(s)] + g[s \ {Pick(s)}]
          BY <4>2 DEF Turn
        <5> QED
          BY <4>2, <5>5, <5>6 DEF Turn
      <4> QED
        BY <4>1, <4>2
    <3>4. UpTo(n, h)
      BY <3>3
    <3> QED
      BY <3>4 DEF Bad
  <2> QED
    BY <2>1, <2>2
<1>2. Bad = {}
  BY <1>1, LeastOf
<1>3. Cardinality(S) \in Nat
  BY FS_CardinalityType
<1>4. PICK g : UpTo(Cardinality(S), g)
  BY <1>2, <1>3
<1> DEFINE h == [s \in SUBSET S |-> g[s]]
<1>5. ASSUME NEW s \in SUBSET S PROVE h[s] = Turn(f, h, s)
  <2>1. g[s] = Turn(f, g, s)
    BY <1>0, <1>4
  <2>2. s # {} => s \ {Pick(s)} \in SUBSET S
    OBVIOUS
  <2> QED
    BY <2>1, <2>2 DEF Turn
<1>6. Folds(f, S, h)
  BY <1>5 DEF Folds
<1> QED
  BY <1>6

\* Two that fold the same values agree on a common part.
LEMMA FoldsAgree ==
  ASSUME NEW f, NEW S, NEW T \in SUBSET S, IsFiniteSet(S),
         NEW g, NEW h, Folds(f, S, g), Folds(f, T, h)
  PROVE  \A s \in SUBSET T : g[s] = h[s]
<1>0. \A s \in SUBSET T : IsFiniteSet(s) /\ Cardinality(s) \in Nat
  BY FS_Subset, FS_CardinalityType
<1>1. \A s \in SUBSET T : g[s] = Turn(f, g, s) /\ h[s] = Turn(f, h, s)
  BY DEF Folds
<1> DEFINE Bad == {n \in Nat : \E s \in SUBSET T : Cardinality(s) = n /\ g[s] # h[s]}
<1>2. ASSUME NEW n \in Bad, \A m \in Bad : n <= m PROVE FALSE
  <2>1. PICK s \in SUBSET T : Cardinality(s) = n /\ g[s] # h[s]
    OBVIOUS
  <2>2. s # {}
    BY <1>1, <2>1 DEF Turn
  <2>3. Pick(s) \in s /\ s \ {Pick(s)} \in SUBSET T
    BY <1>0, <2>2, PickSmaller
  <2>4. Cardinality(s \ {Pick(s)}) = n - 1 /\ n - 1 \in Nat
    BY <1>0, <2>1, <2>3, PickSmaller
  <2>5. g[s \ {Pick(s)}] = h[s \ {Pick(s)}]
    <3>1. n - 1 \notin Bad
      BY <1>2, <2>4
    <3> QED
      BY <2>3, <2>4, <3>1
  <2> QED
    BY <1>1, <2>1, <2>2, <2>5 DEF Turn
<1>3. Bad = {}
  BY <1>2, LeastOf
<1> QED
  BY <1>0, <1>3

\* The sum of no values is 0, and a sum is the picked value and the sum of the others.
LEMMA SumStep ==
  ASSUME NEW f, NEW S, IsFiniteSet(S)
  PROVE  SumFunctionOnSet(f, S) =
           IF S = {} THEN 0 ELSE f[Pick(S)] + SumFunctionOnSet(f, S \ {Pick(S)})
<1> DEFINE R == S \ {Pick(S)}
           g == CHOOSE h : Folds(f, S, h)
           k == CHOOSE h : Folds(f, R, h)
<1>1. Folds(f, S, g) /\ SumFunctionOnSet(f, S) = g[S]
  BY FoldExists, SumIsFold
<1>2. g[S] = Turn(f, g, S)
  BY <1>1 DEF Folds
<1>3. R \in SUBSET S /\ IsFiniteSet(R)
  BY FS_Subset
<1>4. Folds(f, R, k) /\ SumFunctionOnSet(f, R) = k[R]
  BY <1>3, FoldExists, SumIsFold
<1> HIDE DEF g, k
<1>5. g[R] = k[R]
  BY <1>1, <1>3, <1>4, FoldsAgree
<1> QED
  BY <1>1, <1>2, <1>4, <1>5 DEF Turn

\* Which value is taken out first makes no difference.
LEMMA SumRemove ==
  ASSUME NEW f, NEW S, IsFiniteSet(S), \A x \in S : f[x] \in Nat
  PROVE  /\ SumFunctionOnSet(f, S) \in Nat
         /\ \A x \in S : SumFunctionOnSet(f, S) = f[x] + SumFunctionOnSet(f, S \ {x})
<1> DEFINE Sum(s) == SumFunctionOnSet(f, s)
           Holds(s) == Sum(s) \in Nat /\ \A x \in s : Sum(s) = f[x] + Sum(s \ {x})
           Bad == {n \in Nat : \E s \in SUBSET S : Cardinality(s) = n /\ ~ Holds(s)}
<1>0. \A s \in SUBSET S : IsFiniteSet(s) /\ Cardinality(s) \in Nat
  BY FS_Subset, FS_CardinalityType
<1>1. \A s \in SUBSET S : Sum(s) = IF s = {} THEN 0 ELSE f[Pick(s)] + Sum(s \ {Pick(s)})
  BY <1>0, SumStep
<1> HIDE DEF Sum
<1>2. ASSUME NEW n \in Bad, \A m \in Bad : n <= m PROVE FALSE
  <2>1. PICK s \in SUBSET S : Cardinality(s) = n /\ ~ Holds(s)
    OBVIOUS
  <2>2. s # {}
    BY <1>1, <2>1
  <2> DEFINE p == Pick(s)
  <2>3. p \in s
    BY <1>0, <2>2, PickSmaller
  <2>4. \A x \in s : Cardinality(s \ {x}) = n - 1 /\ n - 1 \in Nat
    BY <1>0, <2>1, PickSmaller
  <2>5. \A x \in s : Holds(s \ {x})
    <3>0. n \in Nat /\ n - 1 \in Nat
      BY <2>3, <2>4
    <3>1. n - 1 \notin Bad
      <4> HIDE DEF Bad
      <4> QED
        BY <1>2, <3>0
    <3>2. \A r \in SUBSET S : Cardinality(r) = n - 1 => Holds(r)
      BY <3>0, <3>1
    <3> QED
      BY <2>4, <3>2
  <2>6. Sum(s) = f[p] + Sum(s \ {p}) /\ f[p] \in Nat
    BY <1>1, <2>2, <2>3
  <2> HIDE DEF p
  <2>7. Sum(s) \in Nat
    BY <2>3, <2>5, <2>6
  <2>8. ASSUME NEW x \in s PROVE Sum(s) = f[x] + Sum(s \ {x})
    <3>1. CASE x = p
      BY <2>6, <3>1
    <3>2. CASE x # p
      <4>1. x \in s \ {p} /\ p \in s \ {x} /\ (s \ {p}) \ {x} = (s \ {x}) \ {p}
        BY <2>3, <3>2
      <4> DEFINE r == Sum((s \ {p}) \ {x})
      <4>2. Sum(s \ {p}) = f[x] + r
        BY <2>3, <2>5, <4>1
      <4>3. Sum(s \ {x}) = f[p] + r
        BY <2>5, <4>1
      <4>4. r \in Nat
        <5>1. Cardinality(s \ {p}) = n - 1 /\ s \ {p} \in SUBSET S
          BY <2>3, <2>4
        <5>0. IsFiniteSet(s \ {p})
          BY <1>0, <5>1
        <5>r. Cardinality(s \ {p}) \in Nat \ {0} /\ Cardinality((s \ {p}) \ {x}) = Cardinality(s \ {p}) - 1
          BY <4>1, <5>0, PickSmaller
        <5>2. Cardinality((s \ {p}) \ {x}) = n - 2 /\ n - 2 \in Nat
          BY <1>2, <5>1, <5>r
        <5>3. n - 2 \notin Bad
          BY <1>2, <5>2
        <5> QED
          BY <5>2, <5>3
      <4> HIDE DEF r
      <4>5. f[x] \in Nat
        OBVIOUS
      <4> QED
        BY <2>6, <4>2, <4>3, <4>4, <4>5
    <3> QED
      BY <3>1, <3>2
  <2> QED
    BY <2>1, <2>7, <2>8
<1>3. Bad = {}
  BY <1>2, LeastOf
<1>4. Holds(S)
  BY <1>0, <1>3
<1> QED
  BY <1>4 DEF Sum

\* The sum over two parts is the sum of their sums.
LEMMA SumDisjoint ==
  ASSUME NEW f, NEW A, NEW B, IsFiniteSet(A), IsFiniteSet(B), A \cap B = {},
         \A x \in A \cup B : f[x] \in Nat
  PROVE  SumFunctionOnSet(f, A \cup B) = SumFunctionOnSet(f, A) + SumFunctionOnSet(f, B)
<1> DEFINE Sum(s) == SumFunctionOnSet(f, s)
           Holds(s) == Sum(A \cup s) = Sum(A) + Sum(s)
           Bad == {n \in Nat : \E s \in SUBSET B : Cardinality(s) = n /\ ~ Holds(s)}
<1>0. \A s \in SUBSET B : IsFiniteSet(s) /\ Cardinality(s) \in Nat
  BY FS_Subset, FS_CardinalityType
<1>1. \A s \in SUBSET B : IsFiniteSet(A \cup s)
  BY <1>0, FS_Union
<1>2. /\ Sum(A) \in Nat
      /\ \A s \in SUBSET B : Sum(s) \in Nat /\ Sum(A \cup s) \in Nat
      /\ \A s \in SUBSET B : \A x \in s : Sum(s) = f[x] + Sum(s \ {x})
      /\ \A s \in SUBSET B : \A x \in s : Sum(A \cup s) = f[x] + Sum((A \cup s) \ {x})
  <2>1. \A s : IsFiniteSet(s) /\ (\A x \in s : f[x] \in Nat) =>
               Sum(s) \in Nat /\ \A x \in s : Sum(s) = f[x] + Sum(s \ {x})
    BY SumRemove
  <2> HIDE DEF Sum
  <2>2. \A s \in SUBSET B : /\ IsFiniteSet(s) /\ \A x \in s : f[x] \in Nat
                            /\ IsFiniteSet(A \cup s) /\ \A x \in A \cup s : f[x] \in Nat
    BY <1>0, <1>1
  <2>3. IsFiniteSet(A) /\ \A x \in A : f[x] \in Nat
    OBVIOUS
  <2>4. \A s \in SUBSET B : /\ Sum(s) \in Nat /\ Sum(A \cup s) \in Nat
                            /\ \A x \in s : Sum(s) = f[x] + Sum(s \ {x})
                            /\ \A x \in A \cup s : Sum(A \cup s) = f[x] + Sum((A \cup s) \ {x})
    BY <2>1, <2>2
  <2>5. Sum(A) \in Nat
    BY <2>1, <2>3
  <2> QED
    BY <2>4, <2>5
<1>3. Sum({}) = 0
  BY FS_EmptySet, SumStep
<1> HIDE DEF Sum
<1>4. ASSUME NEW n \in Bad, \A m \in Bad : n <= m PROVE FALSE
  <2>1. PICK s \in SUBSET B : Cardinality(s) = n /\ ~ Holds(s)
    OBVIOUS
  <2>2. s # {}
    <3>1. A \cup {} = A
      OBVIOUS
    <3>2. Holds({})
      BY <1>2, <1>3, <3>1
    <3> QED
      BY <2>1, <3>2
  <2>3. PICK x \in s : TRUE
    BY <2>2
  <2>4. Cardinality(s \ {x}) = n - 1 /\ n - 1 \in Nat
    BY <1>0, <2>1, PickSmaller
  <2>5. Holds(s \ {x})
    <3>0. n \in Nat /\ n - 1 \in Nat
      BY <2>4
    <3>1. n - 1 \notin Bad
      <4> HIDE DEF Bad
      <4> QED
        BY <1>4, <3>0
    <3> QED
      BY <2>4, <3>0, <3>1
  <2>6. (A \cup s) \ {x} = A \cup (s \ {x})
    BY <2>3
  <2>7. f[x] \in Nat /\ s \ {x} \in SUBSET B
    BY <2>3
  <2>8. Sum(A \cup s) = f[x] + Sum(A \cup (s \ {x})) /\ Sum(s) = f[x] + Sum(s \ {x})
    <3>1. Sum(A \cup s) = f[x] + Sum((A \cup s) \ {x}) /\ Sum(s) = f[x] + Sum(s \ {x})
      BY <1>2, <2>3
    <3> QED
      BY <2>6, <3>1
  <2>9. Sum(s \ {x}) \in Nat
    BY <1>2, <2>7
  <2> QED
    BY <1>2, <2>1, <2>5, <2>7, <2>8, <2>9
<1>5. Bad = {}
  BY <1>4, LeastOf
<1>6. Holds(B)
  BY <1>0, <1>5
<1> QED
  BY <1>6 DEF Sum

\* A sum of naturals is a natural number, at least that over a part.
LEMMA SumOfPart ==
  ASSUME NEW f, NEW S, IsFiniteSet(S), NEW T \in SUBSET S, \A x \in S : f[x] \in Nat
  PROVE  /\ SumFunctionOnSet(f, S) \in Nat /\ SumFunctionOnSet(f, T) \in Nat
         /\ SumFunctionOnSet(f, T) <= SumFunctionOnSet(f, S)
<1> DEFINE R == S \ T
<1>1. IsFiniteSet(T) /\ IsFiniteSet(R)
  BY FS_Subset
<1>2. T \cap R = {} /\ T \cup R = S
  OBVIOUS
<1>3. /\ SumFunctionOnSet(f, S) \in Nat /\ SumFunctionOnSet(f, T) \in Nat
      /\ SumFunctionOnSet(f, R) \in Nat
  BY <1>1, SumRemove
<1>4. SumFunctionOnSet(f, S) = SumFunctionOnSet(f, T) + SumFunctionOnSet(f, R)
  <2> HIDE DEF R
  <2>1. \A x \in T \cup R : f[x] \in Nat
    BY <1>2
  <2> QED
    BY <1>1, <1>2, <2>1, SumDisjoint
<1> QED
  BY <1>3, <1>4

\* The sums over the classes of a partition add up to the sum over the whole set.
LEMMA SumOfClasses ==
  ASSUME NEW C, IsFiniteSet(C), NEW S, IsFiniteSet(S), NEW f, \A x \in S : f[x] \in Nat,
         NEW g, \A x \in S : g[x] \in C,
         NEW h, \A c \in C : h[c] = SumFunctionOnSet(f, {x \in S : g[x] = c})
  PROVE  SumFunctionOnSet(h, C) = SumFunctionOnSet(f, S)
<1> DEFINE Of(T) == {x \in S : g[x] \in T}
           Holds(T) == SumFunctionOnSet(h, T) = SumFunctionOnSet(f, Of(T))
           Bad == {n \in Nat : \E T \in SUBSET C : Cardinality(T) = n /\ ~ Holds(T)}
<1>0. \A T \in SUBSET C : IsFiniteSet(T) /\ Cardinality(T) \in Nat
  BY FS_Subset, FS_CardinalityType
<1>1. \A s \in SUBSET S : IsFiniteSet(s)
  BY FS_Subset
<1>2. \A c \in C : h[c] \in Nat
  <2> SUFFICES ASSUME NEW c \in C PROVE h[c] \in Nat
    OBVIOUS
  <2> DEFINE s == {x \in S : g[x] = c}
  <2>1. IsFiniteSet(s) /\ \A x \in s : f[x] \in Nat
    BY <1>1
  <2> HIDE DEF s
  <2>2. SumFunctionOnSet(f, s) \in Nat
    BY <2>1, SumRemove
  <2> QED
    BY <2>2 DEF s
<1>3. ASSUME NEW n \in Bad, \A m \in Bad : n <= m PROVE FALSE
  <2>1. PICK T \in SUBSET C : Cardinality(T) = n /\ ~ Holds(T)
    OBVIOUS
  <2>2. T # {}
    <3>1. Of({}) = {}
      OBVIOUS
    <3> HIDE DEF Of
    <3>2. Holds({})
      BY <3>1, FS_EmptySet, SumStep
    <3> QED
      BY <2>1, <3>2
  <2>3. PICK c \in T : TRUE
    BY <2>2
  <2> DEFINE R == T \ {c}
             s == {x \in S : g[x] = c}
  <2>4. R \in SUBSET C /\ Cardinality(R) = n - 1 /\ n - 1 \in Nat
    BY <1>0, <2>1, PickSmaller
  <2>5. Holds(R)
    <3>0. n \in Nat /\ n - 1 \in Nat
      BY <2>4
    <3>1. n - 1 \notin Bad
      <4> HIDE DEF Bad
      <4> QED
        BY <1>3, <3>0
    <3> HIDE DEF Holds, R
    <3> QED
      BY <2>4, <3>0, <3>1
  <2>6. Of(T) = s \cup Of(R) /\ s \cap Of(R) = {} /\ s \in SUBSET S /\ Of(R) \in SUBSET S
    BY <2>3
  <2>7. \A x \in s \cup Of(R) : f[x] \in Nat
    BY <2>6
  <2>8. h[c] = SumFunctionOnSet(f, s)
    BY <2>3
  <2>9. SumFunctionOnSet(h, T) = h[c] + SumFunctionOnSet(h, R)
    <3>1. IsFiniteSet(T) /\ \A x \in T : h[x] \in Nat
      BY <1>0, <1>2
    <3> QED
      BY <3>1, SumRemove
  <2> HIDE DEF s, R, Of
  <2>10. SumFunctionOnSet(f, Of(T)) = SumFunctionOnSet(f, s) + SumFunctionOnSet(f, Of(R))
    BY <1>1, <2>6, <2>7, SumDisjoint
  <2> QED
    BY <2>1, <2>5, <2>8, <2>9, <2>10
<1>4. Bad = {}
  BY <1>3, LeastOf
<1>5. Holds(C)
  <2> HIDE DEF Holds
  <2> QED
    BY <1>0, <1>4
<1>6. Of(C) = S
  OBVIOUS
<1> QED
  BY <1>5, <1>6

\* Functions that agree on a set have one sum over it.
LEMMA SumSame ==
  ASSUME NEW S, IsFiniteSet(S), NEW f, NEW h, \A x \in S : f[x] \in Nat /\ h[x] = f[x]
  PROVE  SumFunctionOnSet(h, S) = SumFunctionOnSet(f, S)
<1> DEFINE g == [x \in S |-> x]
<1>1. ASSUME NEW c \in S PROVE h[c] = SumFunctionOnSet(f, {x \in S : g[x] = c})
  <2>1. {x \in S : g[x] = c} = {c} /\ {c} \ {c} = {}
    OBVIOUS
  <2>2. SumFunctionOnSet(f, {c}) = f[c] + SumFunctionOnSet(f, {})
    <3>1. IsFiniteSet({c})
      BY FS_Singleton
    <3> QED
      BY <2>1, <3>1, SumRemove
  <2>3. SumFunctionOnSet(f, {}) = 0
    BY FS_EmptySet, SumStep
  <2>4. h[c] = f[c] /\ f[c] \in Nat
    OBVIOUS
  <2>5. SumFunctionOnSet(f, {c}) = f[c]
    BY <2>2, <2>3, <2>4
  <2> QED
    BY <2>1, <2>4, <2>5
<1>2. \A x \in S : g[x] \in S
  OBVIOUS
<1>3. \A x \in S : f[x] \in Nat
  OBVIOUS
<1> HIDE DEF g
<1> QED
  BY <1>1, <1>2, <1>3, SumOfClasses

\* Zeros add up to zero.
LEMMA SumZero ==
  ASSUME NEW S, IsFiniteSet(S), NEW f, \A x \in S : f[x] = 0
  PROVE  SumFunctionOnSet(f, S) = 0
<1> DEFINE Bad == {n \in Nat : \E s \in SUBSET S : Cardinality(s) = n /\ SumFunctionOnSet(f, s) # 0}
<1>0. \A s \in SUBSET S : IsFiniteSet(s) /\ Cardinality(s) \in Nat
  BY FS_Subset, FS_CardinalityType
<1>1. ASSUME NEW n \in Bad, \A m \in Bad : n <= m PROVE FALSE
  <2>1. PICK s \in SUBSET S : Cardinality(s) = n /\ SumFunctionOnSet(f, s) # 0
    OBVIOUS
  <2>2. s # {} /\ IsFiniteSet(s)
    BY <1>0, <2>1, SumStep
  <2> DEFINE r == s \ {Pick(s)}
  <2>3. Pick(s) \in s /\ Cardinality(r) = Cardinality(s) - 1 /\ r \in SUBSET S
    BY <2>2, PickSmaller
  <2>4. Cardinality(r) \notin Bad
    BY <1>0, <1>1, <2>1, <2>3
  <2>5. SumFunctionOnSet(f, r) = 0
    BY <1>0, <2>3, <2>4
  <2>6. SumFunctionOnSet(f, s) = f[Pick(s)] + SumFunctionOnSet(f, r)
    BY <2>2, SumStep
  <2> QED
    BY <2>1, <2>3, <2>5, <2>6
<1>2. Bad = {}
  <2> HIDE DEF Bad
  <2>1. Bad \in SUBSET Nat
    BY DEF Bad
  <2> QED
    BY <1>1, <2>1, LeastOf
<1> QED
  BY <1>0, <1>2
===============================================================================
