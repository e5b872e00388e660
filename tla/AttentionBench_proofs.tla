------------------------- MODULE AttentionBench_proofs -------------------------
(***************************************************************************)
(* For any grid, and workers that fail or die at any cell: every cell is   *)
(* measured once, and what the ledger refuses or selects.                  *)
(***************************************************************************)
EXTENDS AttentionBench, TLAPS, FiniteSetTheorems, InductionLemmas

\* Division: a number is a quotient and a remainder in one way.
LEMMA DivMod ==
  ASSUME NEW q \in Nat, NEW n \in Nat \ {0}, NEW r \in 0 .. n - 1
  PROVE  (q * n + r) \div n = q /\ (q * n + r) % n = r
  OBVIOUS

\* A number is its quotient times n and its remainder.
LEMMA SplitNumber ==
  ASSUME NEW k \in Nat, NEW n \in Nat \ {0}
  PROVE  k \div n \in Nat /\ k % n \in 0 .. n - 1 /\ k = (k \div n) * n + (k % n)
  OBVIOUS

\* Quotient and remainder determine each other.
LEMMA SplitUnique ==
  ASSUME NEW n \in Nat \ {0}, NEW q \in Nat, NEW p \in Nat, NEW r \in 0 .. n - 1, NEW s \in 0 .. n - 1,
         q * n + r = p * n + s
  PROVE  q = p /\ r = s
BY DivMod

\* Multiplication keeps the order.
LEMMA TimesMonotonic ==
  ASSUME NEW a \in Nat, NEW b \in Nat, NEW n \in Nat, a <= b
  PROVE  a * n \in Nat /\ b * n \in Nat /\ a * n <= b * n
<1>1. (b - a) * n >= 0 /\ (b - a) * n = b * n - a * n
  OBVIOUS
<1> QED
  BY <1>1

\* A non-empty set of naturals with an upper bound has a greatest element.
LEMMA GreatestOf ==
  ASSUME NEW S \in SUBSET Nat, S # {}, NEW b \in Nat, \A m \in S : m <= b
  PROVE  \E n \in S : \A m \in S : m <= n
<1> DEFINE D == {b - m : m \in S}
<1>1. D \in SUBSET Nat /\ D # {}
  <2>1. \A m \in S : m \in Nat /\ b - m \in Nat
    OBVIOUS
  <2>2. PICK m \in S : TRUE
    OBVIOUS
  <2>3. b - m \in D
    BY <2>2
  <2> QED
    BY <2>1, <2>3
<1>2. PICK d \in D : \A e \in D : d <= e
  BY <1>1, LeastOf
<1>3. PICK n \in S : d = b - n
  BY <1>2
<1>4. ASSUME NEW m \in S PROVE m <= n
  <2>1. d <= b - m
    BY <1>2
  <2>2. m \in Nat /\ n \in Nat
    OBVIOUS
  <2> QED
    BY <1>3, <2>1, <2>2
<1> QED
  BY <1>4

\* Two numbers have an upper bound, and the order is transitive.
LEMMA Upper ==
  /\ \A a, b \in Nat : \E c \in Nat : a <= c /\ b <= c
  /\ \A a, b, c \in Nat : a <= b /\ b <= c => a <= c
<1>1. \A a, b \in Nat : a <= a + b /\ b <= a + b /\ a + b \in Nat
  OBVIOUS
<1>2. \A a, b, c \in Nat : a <= b /\ b <= c => a <= c
  OBVIOUS
<1> QED
  BY <1>1, <1>2

\* The members of a sequence of naturals have an upper bound: a shortest prefix without
\* one would be one longer than a prefix that has one.
LEMMA SequenceBounded ==
  ASSUME NEW s \in Seq(Nat)
  PROVE  \E b \in Nat : \A i \in 1 .. Len(s) : s[i] <= b
<1> DEFINE Bounded(n) == \E b \in Nat : \A i \in 1 .. n : s[i] <= b
<1> DEFINE S == {n \in 0 .. Len(s) : ~ Bounded(n)}
<1>1. Len(s) \in Nat
  OBVIOUS
<1>2. S \in SUBSET Nat
  BY <1>1
<1>3. ASSUME S # {} PROVE FALSE
  <2>1. PICK n \in S : \A m \in S : n <= m
    <3> HIDE DEF S
    <3> QED
      BY <1>2, <1>3, LeastOf
  <2>2. n \in 0 .. Len(s) /\ ~ Bounded(n)
    BY <2>1
  <2>3. n # 0
    <3>1. \A i \in 1 .. 0 : s[i] <= 0
      OBVIOUS
    <3>2. 0 \in Nat /\ Bounded(0)
      BY <3>1, Zenon
    <3> QED
      BY <2>2, <3>2
  <2>4. n \in 1 .. Len(s) /\ n - 1 \in 0 .. Len(s) /\ ~ (n <= n - 1)
    BY <1>1, <2>2, <2>3
  <2>5. Bounded(n - 1)
    BY <2>1, <2>4
  <2>6. PICK b \in Nat : \A i \in 1 .. n - 1 : s[i] <= b
    BY <2>5
  <2>7. PICK x \in Nat : x = s[n]
    <3> HIDE DEF Bounded, S
    <3>1. s[n] \in Nat
      BY <2>4
    <3> QED
      BY <3>1
  <2>8. PICK c \in Nat : b <= c /\ x <= c
    <3> HIDE DEF Bounded, S
    <3> QED
      BY Upper, Zenon
  <2>9. ASSUME NEW i \in 1 .. n PROVE s[i] <= c
    <3>1. CASE i = n
      BY <2>7, <2>8, <3>1
    <3>2. CASE i # n
      <4>1. i \in 1 .. n - 1 /\ i \in 1 .. Len(s)
        BY <1>1, <2>4, <3>2
      <4> HIDE DEF Bounded, S
      <4>s. s[i] \in Nat
        BY <4>1
      <4>2. PICK y \in Nat : y = s[i]
        BY <4>s
      <4>3. y <= b
        BY <2>6, <4>1, <4>2
      <4>4. y <= c
        BY <2>8, <4>3, Upper
      <4> QED
        BY <4>2, <4>4
    <3> QED
      BY <3>1, <3>2
  <2> QED
    BY <2>2, <2>9
<1>4. Len(s) \in 0 .. Len(s)
  BY <1>1
<1> QED
  BY <1>3, <1>4

\* Taking the least number from an interval leaves the rest of it: a worker
\* measures the lengths in their order.
LEMMA MinOfInterval ==
  ASSUME NEW a \in Nat, NEW b \in Nat, a <= b
  PROVE  Min(a .. b) = a /\ (a .. b) \ {a} = a + 1 .. b
BY DEF Min

-----------------------------------------------------------------------------
(* The grid                                                                *)

L == Len(Lengths)
V == Len(Variants)
F == Len(Flags)

VariantAt(t) == Variants[1 + ((t - 1) % V)]
FlagAt(t) == Flags[1 + ((t - 1) \div V)]

\* The cell of the t-th turn and the i-th length.
At(c, t, i) == c.variant = VariantAt(t) /\ c.flag = FlagAt(t) /\ c.length = Lengths[i]

\* The grid is not empty and has one turn for each flag setting and variant.
LEMMA GridSizes ==
  /\ L \in Nat \ {0} /\ V \in Nat \ {0} /\ F \in Nat \ {0}
  /\ DOMAIN Lengths = 1 .. L /\ DOMAIN Variants = 1 .. V /\ DOMAIN Flags = 1 .. F
  /\ Turns = F * V /\ Turns \in Nat \ {0}
<1>1. L \in Nat \ {0} /\ V \in Nat \ {0} /\ F \in Nat \ {0}
  BY GridAssumption DEF L, V, F
<1>2. F * V \in Nat \ {0}
  BY <1>1
<1> QED
  BY <1>1, <1>2, GridAssumption DEF L, V, F, Turns

\* A turn is a place in each list, and the places determine the turn.
LEMMA TurnPlaces ==
  ASSUME NEW t \in 1 .. Turns
  PROVE  /\ 1 + ((t - 1) % V) \in 1 .. V
         /\ 1 + ((t - 1) \div V) \in 1 .. F
         /\ t = ((t - 1) \div V) * V + ((t - 1) % V) + 1
<1>0. t \in Nat /\ 1 <= t /\ t <= F * V /\ V \in Nat \ {0} /\ F \in Nat \ {0}
  BY GridSizes
<1>k. PICK k \in Nat : k = t - 1
  BY <1>0
<1> DEFINE q == k \div V
<1> DEFINE r == k % V
<1>1. q \in Nat /\ r \in 0 .. V - 1 /\ k = q * V + r
  BY <1>0, SplitNumber
<1> HIDE DEF q, r
<1>2. ~ (F <= q)
  <2> SUFFICES ASSUME F <= q PROVE FALSE
    OBVIOUS
  <2>1. F * V <= q * V /\ q * V \in Nat /\ F * V \in Nat
    BY <1>0, <1>1, TimesMonotonic
  <2> QED
    BY <1>0, <1>1, <1>k, <2>1
<1>3. 1 + q \in 1 .. F /\ 1 + r \in 1 .. V /\ t = q * V + r + 1
  <2>1. q * V \in Nat /\ r \in Nat
    BY <1>0, <1>1
  <2> QED
    BY <1>0, <1>1, <1>2, <1>k, <2>1
<1> QED
  BY <1>3, <1>k DEF q, r

\* Two turns with the same variant and the same flag setting are one.
LEMMA TurnsDiffer ==
  ASSUME NEW t \in 1 .. Turns, NEW u \in 1 .. Turns,
         VariantAt(t) = VariantAt(u), FlagAt(t) = FlagAt(u)
  PROVE  t = u
<1>1. 1 + ((t - 1) % V) = 1 + ((u - 1) % V)
  BY TurnPlaces, GridSizes, GridAssumption DEF VariantAt, IsInjective
<1>2. 1 + ((t - 1) \div V) = 1 + ((u - 1) \div V)
  BY TurnPlaces, GridSizes, GridAssumption DEF FlagAt, IsInjective
<1>3. (t - 1) % V = (u - 1) % V /\ (t - 1) \div V = (u - 1) \div V
  <2>1. \A k \in Nat : k % V \in Nat /\ k \div V \in Nat
    <3>1. V \in Nat \ {0}
      BY GridSizes
    <3>2. \A k \in Nat : k % V \in 0 .. V - 1 /\ k \div V \in Nat
      BY <3>1, SplitNumber
    <3> QED
      BY <3>1, <3>2
  <2>2. PICK j \in Nat, k \in Nat : j = t - 1 /\ k = u - 1
    BY GridSizes
  <2>3. PICK x \in Nat, y \in Nat : x = j % V /\ y = k % V
    BY <2>1
  <2>4. PICK z \in Nat, w \in Nat : z = j \div V /\ w = k \div V
    BY <2>1
  <2>5. 1 + x = 1 + y /\ 1 + z = 1 + w
    BY <1>1, <1>2, <2>2, <2>3, <2>4
  <2>6. x = y /\ z = w
    BY <2>5
  <2> QED
    BY <2>2, <2>3, <2>4, <2>6
<1> QED
  BY <1>3, TurnPlaces

\* Every variant meets every flag setting in a turn.
LEMMA TurnOf ==
  ASSUME NEW v \in Range(Variants), NEW f \in Range(Flags)
  PROVE  \E t \in 1 .. Turns : VariantAt(t) = v /\ FlagAt(t) = f
<1>1. PICK a \in 1 .. V : Variants[a] = v
  BY GridSizes DEF Range
<1>2. PICK b \in 1 .. F : Flags[b] = f
  BY GridSizes DEF Range
<1> DEFINE t == (b - 1) * V + a
<1>3. V \in Nat \ {0} /\ F \in Nat \ {0} /\ b - 1 \in Nat /\ a - 1 \in 0 .. V - 1
  BY GridSizes
<1>4. (b - 1) * V \in Nat /\ (b - 1) * V <= (F - 1) * V /\ (F - 1) * V = F * V - V /\ F * V \in Nat
  <2>1. b - 1 <= F - 1 /\ F - 1 \in Nat
    BY <1>3
  <2> QED
    BY <2>1, <1>3, TimesMonotonic
<1>5. t \in 1 .. Turns /\ t - 1 = (b - 1) * V + (a - 1)
  <2>1. (b - 1) * V + a <= F * V
    BY <1>3, <1>4
  <2> QED
    BY <2>1, <1>3, <1>4, GridSizes
<1>6. (t - 1) \div V = b - 1 /\ (t - 1) % V = a - 1
  <2> HIDE DEF t
  <2>1. PICK q \in Nat, r \in 0 .. V - 1 : q = b - 1 /\ r = a - 1
    BY <1>3
  <2>2. (q * V + r) \div V = q /\ (q * V + r) % V = r
    BY <1>3, DivMod
  <2>3. t - 1 = q * V + r
    BY <1>5, <2>1
  <2> QED
    BY <2>1, <2>2, <2>3
<1> HIDE DEF t
<1>7. VariantAt(t) = v /\ FlagAt(t) = f
  BY <1>1, <1>2, <1>6 DEF VariantAt, FlagAt
<1> QED
  BY <1>5, <1>7

-----------------------------------------------------------------------------
(* The cells                                                               *)

Statuses == {"ok", "mismatch", "nonfinite", "unsupported", "oom", "error"}
Details == {"", "non-finite values", "reference unavailable"} \cup Messages

CellSet ==
  [variant : Range(Variants), flag : Range(Flags), length : Range(Lengths),
   status : Statuses, speed : Nat, diff : Diffs, detail : Details]

\* What validate_benchmark() and the selection ask of a cell.
GoodCell(c) ==
  /\ c \in CellSet
  /\ c.status = "ok" => c.speed > 0
  /\ CellAcceptable(c) <=> ~ (c.status = "ok" /\ c.diff = "nan")

\* The cells of the turns before t.
Base(t) == (t - 1) * L

\* The cells cs, in the order of the turns up to t and of the lengths.
Filled(cs, t) ==
  /\ cs \in Seq(CellSet)
  /\ \A k \in 1 .. Len(cs) : GoodCell(cs[k])
  /\ \A k \in 1 .. Len(cs) : \E u \in 1 .. t, i \in 1 .. L : k = (u - 1) * L + i /\ At(cs[k], u, i)

\* They end after m lengths of turn t.
FilledTo(cs, t, m) == Filled(cs, t) /\ Len(cs) = Base(t) + m

\* What a worker of turn t adds when m lengths of the turn have been measured.
Lines(ls, t, m) ==
  /\ ls \in Seq(CellSet)
  /\ m + Len(ls) <= L
  /\ \A j \in 1 .. Len(ls) : GoodCell(ls[j]) /\ At(ls[j], t, m + j)

\* Appended to cells that end there, the lines continue the grid.
LEMMA FilledGrows ==
  ASSUME NEW t \in Nat \ {0}, NEW m \in Nat, NEW cs, NEW ls,
         FilledTo(cs, t, m), Lines(ls, t, m)
  PROVE  FilledTo(cs \o ls, t, m + Len(ls))
<1>0. Filled(cs, t) /\ Len(cs) = Base(t) + m
  BY DEF FilledTo
<1>1. PICK b \in Nat : b = (t - 1) * L /\ b = Base(t)
  <2>1. t - 1 \in Nat /\ L \in Nat
    BY GridSizes
  <2>2. (t - 1) * L \in Nat
    BY <2>1
  <2> QED
    BY <2>2 DEF Base
<1>2. cs \in Seq(CellSet) /\ ls \in Seq(CellSet) /\ Len(cs) \in Nat /\ Len(ls) \in Nat /\ L \in Nat
  BY <1>0, GridSizes DEF Filled, Lines
<1>3. cs \o ls \in Seq(CellSet) /\ Len(cs \o ls) = Len(cs) + Len(ls)
  BY <1>2
<1>4. ASSUME NEW k \in 1 .. Len(cs \o ls)
      PROVE  /\ GoodCell((cs \o ls)[k])
             /\ \E u \in 1 .. t, i \in 1 .. L : k = (u - 1) * L + i /\ At((cs \o ls)[k], u, i)
  <2>1. CASE k \in 1 .. Len(cs)
    <3>1. (cs \o ls)[k] = cs[k]
      BY <1>2, <2>1
    <3> QED
      BY <1>0, <2>1, <3>1 DEF Filled
  <2>2. CASE k \notin 1 .. Len(cs)
    <3>1. PICK j \in 1 .. Len(ls) : k = Len(cs) + j
      <4>1. k - Len(cs) \in 1 .. Len(ls) /\ k = Len(cs) + (k - Len(cs))
        BY <1>2, <1>3, <2>2
      <4> QED
        BY <4>1
    <3>2. (cs \o ls)[k] = ls[j]
      BY <1>2, <3>1
    <3>3. GoodCell(ls[j]) /\ At(ls[j], t, m + j)
      BY DEF Lines
    <3>4. m + j \in 1 .. L /\ Len(cs) + j = b + (m + j)
      <4>1. Len(cs) = b + m /\ m + Len(ls) <= L
        BY <1>0, <1>1 DEF Lines
      <4> QED
        BY <1>2, <3>1, <4>1
    <3>5. k = (t - 1) * L + (m + j) /\ t \in 1 .. t
      BY <1>1, <3>1, <3>4
    <3> QED
      BY <3>2, <3>3, <3>4, <3>5
  <2> QED
    BY <2>1, <2>2
<1>5. Len(cs) + Len(ls) = Base(t) + (m + Len(ls))
  BY <1>0, <1>1, <1>2
<1> QED
  BY <1>3, <1>4, <1>5 DEF FilledTo, Filled

\* Cells that follow the grid differ in their coordinates.
LEMMA FilledOnce ==
  ASSUME NEW cs, Filled(cs, Turns), NEW j \in 1 .. Len(cs), NEW k \in 1 .. Len(cs),
         cs[j].variant = cs[k].variant, cs[j].flag = cs[k].flag, cs[j].length = cs[k].length
  PROVE  j = k
<1>1. PICK u \in 1 .. Turns, i \in 1 .. L : j = (u - 1) * L + i /\ At(cs[j], u, i)
  BY DEF Filled
<1>2. PICK w \in 1 .. Turns, h \in 1 .. L : k = (w - 1) * L + h /\ At(cs[k], w, h)
  BY DEF Filled
<1>3. u = w
  BY <1>1, <1>2, TurnsDiffer DEF At
<1>4. i = h
  BY <1>1, <1>2, GridSizes, GridAssumption DEF At, IsInjective
<1> QED
  BY <1>1, <1>2, <1>3, <1>4

\* Cells of all turns have one cell of each combination.
LEMMA FilledCompletely ==
  ASSUME NEW cs, Filled(cs, Turns), Len(cs) = Turns * L
  PROVE  GridComplete(cs)
<1>0. L \in Nat \ {0} /\ Turns \in Nat \ {0} /\ DOMAIN cs = 1 .. Len(cs)
  BY GridSizes DEF Filled
<1>1. ASSUME NEW v \in Range(Variants), NEW f \in Range(Flags), NEW n \in Range(Lengths)
      PROVE  Cardinality(CellsAt(cs, v, f, n)) = 1
  <2>1. PICK t \in 1 .. Turns : VariantAt(t) = v /\ FlagAt(t) = f
    BY TurnOf
  <2>2. PICK i \in 1 .. L : Lengths[i] = n
    BY GridSizes DEF Range
  <2>3. PICK p \in Nat, r \in 0 .. L - 1 : p = t - 1 /\ r = i - 1
    BY <1>0
  <2>4. p * L \in Nat /\ p * L + L <= Turns * L /\ Turns * L \in Nat
    <3>1. p + 1 <= Turns /\ p + 1 \in Nat
      BY <1>0, <2>3
    <3>2. (p + 1) * L <= Turns * L /\ Turns * L \in Nat
      BY <1>0, <3>1, TimesMonotonic
    <3>3. (p + 1) * L = p * L + L /\ p * L \in Nat
      BY <1>0
    <3> QED
      BY <3>2, <3>3
  <2>5. PICK k \in 1 .. Len(cs) : k = p * L + r + 1
    <3>1. p * L + r + 1 \in 1 .. Turns * L
      BY <1>0, <2>4
    <3> QED
      BY <3>1
  <2>6. PICK u \in 1 .. Turns, h \in 1 .. L : k = (u - 1) * L + h /\ At(cs[k], u, h)
    BY DEF Filled
  <2>7. PICK q \in Nat, s \in 0 .. L - 1 : q = u - 1 /\ s = h - 1
    BY <1>0
  <2>8. q * L + s = p * L + r
    <3>1. q * L \in Nat /\ q * L = (u - 1) * L
      BY <1>0, <2>7
    <3> QED
      BY <2>4, <2>5, <2>6, <2>7, <3>1, <1>0
  <2>9. q = p /\ s = r
    BY <1>0, <2>8, SplitUnique
  <2>10. u = t /\ h = i
    BY <1>0, <2>3, <2>7, <2>9
  <2>11. cs[k].variant = v /\ cs[k].flag = f /\ cs[k].length = n
    BY <2>1, <2>2, <2>6, <2>10 DEF At
  <2>12. \A j : j \in CellsAt(cs, v, f, n) <=> j = k
    BY <1>0, <2>11, FilledOnce DEF CellsAt
  <2>13. CellsAt(cs, v, f, n) = {k}
    BY <2>12
  <2> QED
    BY <2>13, FS_Singleton
<1>2. Len(cs) = Len(Variants) * Len(Flags) * Len(Lengths)
  <2>1. Turns * L = (F * V) * L /\ F * V = V * F
    BY GridSizes
  <2> QED
    BY <2>1 DEF L, V, F
<1> QED
  BY <1>1, <1>2 DEF GridComplete

-----------------------------------------------------------------------------
(* The invariant                                                           *)

Final == {"select", "written", "refused"}

WorkerType ==
  [todo : SUBSET Nat, lines : Seq(CellSet), deviceError : BOOLEAN,
   exit : {"none", "zero", "device", "other"}, torn : BOOLEAN]

\* The worker has written a line for each length it no longer has to do.
WorkerInv(m) ==
  /\ worker \in WorkerType
  /\ Lines(worker.lines, turn, m)
  /\ worker.todo = m + Len(worker.lines) + 1 .. L

\* m lengths of this turn have a cell, and those of all turns before.
Progress ==
  \E m \in 0 .. L :
    /\ Len(cells) = Base(turn) + m
    /\ remaining = m + 1 .. L
    /\ pc = "worker" => WorkerInv(m)
    /\ pc \in Final => m = L

IInv ==
  /\ pc \in {"launch", "worker", "raised"} \cup Final
  /\ turn \in 1 .. Turns
  /\ pc \in Final => turn = Turns
  /\ Filled(cells, turn)
  /\ Progress
  /\ pc \in {"written", "refused"} => selection = Selected(cells)
  /\ pc = "refused" => ~ Accepted(cells, selection, plain)
  /\ pc = "written" => Accepted(cells, selection, plain)

\* A cell of this turn is one of the grid.
LEMMA CellPlace ==
  ASSUME turn \in 1 .. Turns, NEW i \in 1 .. L, NEW st \in Statuses, NEW sp \in Nat,
         NEW d \in Diffs, NEW det \in Details
  PROVE  /\ Cell(Lengths[i], st, sp, d, det) \in CellSet
         /\ At(Cell(Lengths[i], st, sp, d, det), turn, i)
<1>1. Variant \in Range(Variants) /\ Flag \in Range(Flags) /\ Lengths[i] \in Range(Lengths)
  BY TurnPlaces, GridSizes DEF Variant, Flag, Range, V
<1>2. Variant = VariantAt(turn) /\ Flag = FlagAt(turn)
  BY DEF Variant, Flag, VariantAt, FlagAt, V
<1> QED
  BY <1>1, <1>2 DEF Cell, CellSet, At

\* Whatever a measurement gives, the ledger accepts the cell exactly when it does not
\* call a NaN deviation "ok".
LEMMA MeasuredIsGood ==
  ASSUME turn \in 1 .. Turns, NEW i \in 1 .. L, NEW finite \in BOOLEAN,
         NEW diff \in Comparisons, NEW speed \in Speeds
  PROVE  /\ GoodCell(Measured(Lengths[i], finite, diff, speed))
         /\ At(Measured(Lengths[i], finite, diff, speed), turn, i)
<1>0. diff \in Diffs /\ speed \in Nat /\ speed > 0 /\ 0 \in Nat
  BY BenchAssumption DEF Comparisons, Diffs
<1>1. CASE ~ finite
  <2> DEFINE c == Cell(Lengths[i], "nonfinite", 0, diff, "non-finite values")
  <2>1. Measured(Lengths[i], finite, diff, speed) = c
    BY <1>1 DEF Measured
  <2>2. c \in CellSet /\ At(c, turn, i)
    BY <1>0, CellPlace DEF Statuses, Details, Messages
  <2>3. c.status = "nonfinite" /\ c.speed = 0 /\ c.detail = "non-finite values"
    BY DEF Cell
  <2> HIDE DEF c
  <2> QED
    BY <2>1, <2>2, <2>3 DEF GoodCell, CellAcceptable
<1>2. CASE finite
  <2> DEFINE st == IF diff = "beyond" THEN "mismatch" ELSE "ok"
  <2> DEFINE det == IF diff = "none" /\ Variant \notin Oracles THEN "reference unavailable" ELSE ""
  <2> DEFINE c == Cell(Lengths[i], st, speed, diff, det)
  <2>1. Measured(Lengths[i], finite, diff, speed) = c
    BY <1>2 DEF Measured
  <2>2. st \in Statuses /\ det \in Details
    BY DEF Statuses, Details, Messages
  <2>3. c \in CellSet /\ At(c, turn, i)
    <3> HIDE DEF st, det
    <3> QED
      BY <1>0, <2>2, CellPlace
  <2>4. /\ c.status = st /\ c.speed = speed /\ c.detail = det /\ c.diff = diff
        /\ c.variant = Variant
    BY DEF Cell
  <2> HIDE DEF c
  <2>5. CellAcceptable(c) <=> ~ (c.status = "ok" /\ c.diff = "nan")
    BY <1>0, <2>4 DEF CellAcceptable, Equivalent, Diffs, Comparisons
  <2> QED
    BY <1>0, <2>1, <2>3, <2>4, <2>5 DEF GoodCell
<1> QED
  BY <1>1, <1>2

\* So is a cell that says what failed.
LEMMA FailedIsGood ==
  ASSUME turn \in 1 .. Turns, NEW i \in 1 .. L, NEW st \in {"unsupported", "oom", "error"},
         NEW det \in Messages
  PROVE  /\ GoodCell(Cell(Lengths[i], st, 0, "none", det))
         /\ At(Cell(Lengths[i], st, 0, "none", det), turn, i)
<1> DEFINE c == Cell(Lengths[i], st, 0, "none", det)
<1>1. c \in CellSet /\ At(c, turn, i)
  BY CellPlace DEF Statuses, Details, Diffs, Messages
<1>2. c.status = st /\ c.speed = 0 /\ c.detail = det
  BY DEF Cell
<1> HIDE DEF c
<1>3. GoodCell(c)
  BY <1>1, <1>2 DEF GoodCell, CellAcceptable, Messages
<1> QED
  BY <1>1, <1>3 DEF c

\* The length a worker does next, and what remains when its line is written.
LEMMA OneLine ==
  ASSUME NEW m \in 0 .. L, WorkerInv(m), worker.todo # {}
  PROVE  \E i \in 1 .. L :
           /\ Current = Lengths[i]
           /\ \A c : GoodCell(c) /\ At(c, turn, i) =>
                /\ Lines(Append(worker.lines, c), turn, m)
                /\ worker.todo \ {Min(worker.todo)} = m + Len(Append(worker.lines, c)) + 1 .. L
<1>0. L \in Nat /\ worker.lines \in Seq(CellSet) /\ worker.todo = m + Len(worker.lines) + 1 .. L
  BY GridSizes DEF WorkerInv, Lines
<1>1. PICK n \in Nat : n = Len(worker.lines)
  BY <1>0
<1>2. PICK i \in Nat : i = m + n + 1
  OBVIOUS
<1>3. worker.todo = i .. L /\ i \in 1 .. L
  BY <1>0, <1>1, <1>2
<1>4. Min(worker.todo) = i /\ worker.todo \ {i} = i + 1 .. L
  BY <1>0, <1>3, MinOfInterval
<1>5. ASSUME NEW c, GoodCell(c), At(c, turn, i)
      PROVE  /\ Lines(Append(worker.lines, c), turn, m)
             /\ worker.todo \ {i} = m + Len(Append(worker.lines, c)) + 1 .. L
  <2>1. c \in CellSet
    BY <1>5 DEF GoodCell
  <2>2. /\ Append(worker.lines, c) \in Seq(CellSet) /\ Len(Append(worker.lines, c)) = n + 1
        /\ Append(worker.lines, c)[n + 1] = c
        /\ \A j \in 1 .. n : Append(worker.lines, c)[j] = worker.lines[j]
    BY <1>0, <1>1, <2>1
  <2>3. ASSUME NEW j \in 1 .. n + 1
        PROVE  GoodCell(Append(worker.lines, c)[j]) /\ At(Append(worker.lines, c)[j], turn, m + j)
    <3>1. CASE j = n + 1
      <4>1. m + j = i
        BY <1>2, <3>1
      <4> QED
        BY <1>5, <2>2, <3>1, <4>1
    <3>2. CASE j # n + 1
      <4>1. j \in 1 .. n
        BY <3>2
      <4> QED
        BY <1>1, <2>2, <4>1 DEF WorkerInv, Lines
    <3> QED
      BY <3>1, <3>2
  <2>4. m + (n + 1) <= L /\ i + 1 = m + (n + 1) + 1
    BY <1>2, <1>3
  <2> QED
    BY <1>4, <2>2, <2>3, <2>4 DEF Lines
<1> QED
  BY <1>3, <1>4, <1>5 DEF Current

-----------------------------------------------------------------------------
(* Every step keeps the invariant                                          *)

\* The benchmark starts with nothing measured.
LEMMA InitHolds == Init => IInv
<1> SUFFICES ASSUME Init PROVE IInv
  OBVIOUS
<1>0. pc = "launch" /\ turn = 1 /\ remaining = 1 .. L /\ cells = <<>> /\ L \in Nat /\ 1 \in 1 .. Turns
  BY GridSizes DEF Init
<1>1. Filled(cells, turn)
  BY <1>0 DEF Filled
<1>2. Progress
  <2>1. Base(turn) = 0 /\ 0 \in 0 .. L /\ Len(cells) = 0
    BY <1>0 DEF Base
  <2>2. Len(cells) = Base(turn) + 0 /\ remaining = 0 + 1 .. L
    BY <1>0, <2>1
  <2> QED
    BY <1>0, <2>1, <2>2 DEF Progress, Final
<1> QED
  BY <1>0, <1>1, <1>2 DEF IInv, Final

\* A worker that records one good line for its current length.
LEMMA RecordKeeps ==
  ASSUME IInv, pc = "worker", worker.todo # {}, NEW c, NEW error \in BOOLEAN,
         \A i \in 1 .. L : Current = Lengths[i] => GoodCell(c) /\ At(c, turn, i),
         worker' = [worker EXCEPT !.todo = @ \ {Min(@)}, !.deviceError = error,
                                  !.lines = Append(@, c)],
         UNCHANGED <<pc, turn, remaining, cells, selection, plain>>
  PROVE  IInv'
<1>1. PICK m \in 0 .. L : /\ Len(cells) = Base(turn) + m /\ remaining = m + 1 .. L
                          /\ WorkerInv(m)
  BY DEF IInv, Progress
<1>2. PICK i \in 1 .. L :
        /\ Current = Lengths[i]
        /\ \A d : GoodCell(d) /\ At(d, turn, i) =>
             /\ Lines(Append(worker.lines, d), turn, m)
             /\ worker.todo \ {Min(worker.todo)} = m + Len(Append(worker.lines, d)) + 1 .. L
  BY <1>1, OneLine
<1>3. GoodCell(c) /\ At(c, turn, i)
  BY <1>2
<1>4. /\ Lines(Append(worker.lines, c), turn, m)
      /\ worker.todo \ {Min(worker.todo)} = m + Len(Append(worker.lines, c)) + 1 .. L
  BY <1>2, <1>3
<1>5. worker \in WorkerType
  BY <1>1 DEF WorkerInv
<1>6. /\ worker'.todo = worker.todo \ {Min(worker.todo)} /\ worker'.lines = Append(worker.lines, c)
      /\ worker' \in WorkerType
  <2>1. worker.todo \ {Min(worker.todo)} \in SUBSET Nat /\ Append(worker.lines, c) \in Seq(CellSet)
    BY <1>3, <1>5 DEF WorkerType, GoodCell
  <2> QED
    BY <1>5, <2>1 DEF WorkerType
<1>7. WorkerInv(m)'
  BY <1>4, <1>6 DEF WorkerInv
<1>8. Progress'
  BY <1>1, <1>7 DEF Progress, Final
<1> QED
  BY <1>8 DEF IInv

\* One that ends leaves its lines as they are.
LEMMA ExitKeeps ==
  ASSUME IInv, pc = "worker", NEW e \in {"zero", "device", "other"}, NEW torn \in BOOLEAN,
         worker' = [worker EXCEPT !.exit = e, !.torn = torn],
         UNCHANGED <<pc, turn, remaining, cells, selection, plain>>
  PROVE  IInv'
<1>1. PICK m \in 0 .. L : /\ Len(cells) = Base(turn) + m /\ remaining = m + 1 .. L
                          /\ WorkerInv(m)
  BY DEF IInv, Progress
<1>2. /\ worker'.todo = worker.todo /\ worker'.lines = worker.lines /\ worker' \in WorkerType
  BY <1>1 DEF WorkerInv, WorkerType
<1>3. WorkerInv(m)'
  BY <1>1, <1>2 DEF WorkerInv
<1>4. Progress'
  BY <1>1, <1>3 DEF Progress, Final
<1> QED
  BY <1>4 DEF IInv

\* A new worker process starts with the lengths that remain.
LEMMA LaunchKeeps ==
  ASSUME IInv, Launch
  PROVE  IInv'
<1>0. /\ pc = "launch" /\ pc' = "worker" /\ worker' = [NoWorker EXCEPT !.todo = remaining]
      /\ UNCHANGED <<turn, remaining, cells, plain>>
  BY DEF Launch
<1>1. PICK m \in 0 .. L : Len(cells) = Base(turn) + m /\ remaining = m + 1 .. L
  BY DEF IInv, Progress
<1>2. L \in Nat
  BY GridSizes
<1>3. worker' \in WorkerType /\ worker'.todo = remaining /\ worker'.lines = <<>>
  <2>1. remaining \in SUBSET Nat
    BY <1>1, <1>2
  <2>2. worker' = [todo |-> remaining, lines |-> <<>>, deviceError |-> FALSE, exit |-> "none",
                   torn |-> FALSE]
    BY <1>0 DEF NoWorker
  <2>3. <<>> \in Seq(CellSet)
    OBVIOUS
  <2> QED
    BY <2>1, <2>2, <2>3 DEF WorkerType
<1>4. Lines(<<>>, turn, m) /\ m + Len(<<>>) + 1 .. L = m + 1 .. L
  BY <1>2 DEF Lines
<1>5. WorkerInv(m)'
  BY <1>0, <1>1, <1>3, <1>4 DEF WorkerInv
<1>6. Progress'
  BY <1>0, <1>1, <1>5 DEF Progress, Final
<1> QED
  BY <1>0, <1>6 DEF IInv, Final

\* What a worker leaves unfinished are the lengths after its lines.
LEMMA UnfinishedIs ==
  ASSUME NEW m \in 0 .. L, remaining = m + 1 .. L, WorkerInv(m)
  PROVE  Unfinished = m + Len(worker.lines) + 1 .. L
<1>0. /\ L \in Nat /\ worker.lines \in Seq(CellSet) /\ m + Len(worker.lines) <= L
      /\ DOMAIN Lengths = 1 .. L
      /\ \A j \in 1 .. Len(worker.lines) : worker.lines[j].length = Lengths[m + j]
  BY GridSizes DEF WorkerInv, Lines, At
<1>1. PICK n \in Nat : n = Len(worker.lines)
  BY <1>0
<1>2. DOMAIN worker.lines = 1 .. n
  BY <1>0, <1>1
<1>3. ASSUME NEW k \in m + 1 .. L
      PROVE  (\A j \in 1 .. n : worker.lines[j].length # Lengths[k]) <=> k \in m + n + 1 .. L
  <2>1. CASE k \in m + n + 1 .. L
    <3>1. ASSUME NEW j \in 1 .. n PROVE Lengths[m + j] # Lengths[k]
      <4>1. m + j \in 1 .. L /\ k \in 1 .. L /\ m + j # k
        BY <1>0, <1>1, <2>1
      <4> QED
        BY <1>0, <4>1, GridAssumption DEF IsInjective
    <3> QED
      BY <1>0, <1>1, <2>1, <3>1
  <2>2. CASE k \notin m + n + 1 .. L
    <3>1. PICK j \in 1 .. n : k = m + j
      <4>1. k - m \in 1 .. n /\ k = m + (k - m)
        BY <1>0, <1>1, <2>2
      <4> QED
        BY <4>1
    <3> QED
      BY <1>0, <1>1, <2>2, <3>1
  <2> QED
    BY <2>1, <2>2
<1>4. m + n + 1 .. L \subseteq m + 1 .. L
  BY <1>0, <1>1
<1>5. \A k : k \in Unfinished <=> k \in m + n + 1 .. L
  BY <1>2, <1>3, <1>4 DEF Unfinished
<1> QED
  BY <1>1, <1>5

\* The parent appends what the worker recorded, or a cell for the length it died on.
LEMMA TakeOverKeeps ==
  ASSUME IInv, Collect, ~ worker.torn
  PROVE  IInv'
<1>0. /\ pc = "worker" /\ pc' = "launch" /\ turn' = turn /\ UNCHANGED <<selection, plain>>
      /\ turn \in 1 .. Turns /\ Filled(cells, turn) /\ L \in Nat /\ TakeOver
  BY GridSizes DEF Collect, IInv
<1>t. turn \in Nat \ {0}
  BY <1>0, GridSizes
<1>1. PICK m \in 0 .. L : /\ Len(cells) = Base(turn) + m /\ remaining = m + 1 .. L
                          /\ WorkerInv(m)
  BY <1>0 DEF IInv, Progress
<1>2. PICK n \in Nat : n = Len(worker.lines) /\ m + n <= L
  BY <1>1 DEF WorkerInv, Lines
<1>3. Unfinished = m + n + 1 .. L
  BY <1>1, <1>2, UnfinishedIs
<1>4. /\ Filled(cells \o worker.lines, turn)
      /\ Len(cells \o worker.lines) = Base(turn) + (m + n)
  <2>1. Lines(worker.lines, turn, m) /\ m \in Nat
    BY <1>0, <1>1 DEF WorkerInv
  <2>2. /\ Filled(cells \o worker.lines, turn)
        /\ Len(cells \o worker.lines) = Base(turn) + (m + Len(worker.lines))
    <3>1. FilledTo(cells, turn, m)
      BY <1>0, <1>1 DEF FilledTo
    <3>2. FilledTo(cells \o worker.lines, turn, m + Len(worker.lines))
      BY <1>t, <2>1, <3>1, FilledGrows
    <3> QED
      BY <3>2 DEF FilledTo
  <2> QED
    BY <1>2, <2>2
<1>5. PICK k \in Nat : k = m + n
  OBVIOUS
<1>6. CASE Unfinished # {} /\ worker.exit = "other"
  <2>0. PICK message \in Messages :
           /\ cells' = cells \o worker.lines \o
                         <<Cell(Lengths[Min(Unfinished)], "error", 0, "none", message)>>
           /\ remaining' = Unfinished \ {Min(Unfinished)}
    BY <1>0, <1>6 DEF TakeOver
  <2> DEFINE c == Cell(Lengths[Min(Unfinished)], "error", 0, "none", message)
  <2>1. /\ cells' = cells \o worker.lines \o <<c>>
        /\ remaining' = Unfinished \ {Min(Unfinished)}
    BY <2>0
  <2>2. k + 1 \in 1 .. L /\ Unfinished = k + 1 .. L
    BY <1>0, <1>3, <1>5, <1>6
  <2>3. Min(Unfinished) = k + 1 /\ Unfinished \ {k + 1} = (k + 1) + 1 .. L
    BY <1>0, <2>2, MinOfInterval
  <2>4. GoodCell(c) /\ At(c, turn, k + 1)
    BY <1>0, <2>2, <2>3, FailedIsGood
  <2> HIDE DEF c
  <2>5. c \in CellSet
    BY <2>4 DEF GoodCell
  <2>6. Lines(<<c>>, turn, k) /\ Len(<<c>>) = 1
    BY <1>0, <2>2, <2>4, <2>5 DEF Lines
  <2>7. Filled(cells', turn) /\ Len(cells') = Base(turn) + (k + 1)
    <3>1. FilledTo(cells \o worker.lines, turn, k)
      BY <1>4, <1>5 DEF FilledTo
    <3>2. FilledTo((cells \o worker.lines) \o <<c>>, turn, k + Len(<<c>>))
      BY <1>t, <2>6, <3>1, FilledGrows
    <3> QED
      BY <2>1, <2>6, <3>2 DEF FilledTo
  <2>8. k + 1 \in 0 .. L
    BY <2>2
  <2>9. Progress'
    BY <1>0, <2>1, <2>3, <2>7, <2>8 DEF Progress, Final
  <2> QED
    BY <1>0, <2>7, <2>9 DEF IInv, Final
<1>7. CASE ~ (Unfinished # {} /\ worker.exit = "other")
  <2>1. cells' = cells \o worker.lines /\ remaining' = Unfinished
    BY <1>0, <1>7 DEF TakeOver
  <2>2. k \in 0 .. L /\ Unfinished = k + 1 .. L
    BY <1>0, <1>2, <1>3, <1>5
  <2>3. Progress'
    BY <1>0, <1>4, <1>5, <2>1, <2>2 DEF Progress, Final
  <2> QED
    BY <1>0, <1>4, <2>1, <2>3 DEF IInv, Final
<1> QED
  BY <1>6, <1>7

\* On a torn line it ends, with what it has collected before.
LEMMA CollectKeeps ==
  ASSUME IInv, Collect
  PROVE  IInv'
<1>1. CASE ~ worker.torn
  BY <1>1, TakeOverKeeps
<1>2. CASE worker.torn
  <2>1. pc' = "raised" /\ UNCHANGED <<turn, remaining, cells, worker, selection, plain>>
    BY <1>2 DEF Collect
  <2>2. Progress'
    BY <2>1 DEF IInv, Progress, Final
  <2> QED
    BY <2>1, <2>2 DEF IInv, Final
<1> QED
  BY <1>1, <1>2

\* The next turn starts where the cells of this one end.
LEMMA NextVariantKeeps ==
  ASSUME IInv, NextVariant
  PROVE  IInv'
<1>0. /\ pc = "launch" /\ remaining = {} /\ cells' = cells /\ worker' = worker
      /\ UNCHANGED <<selection, plain>> /\ turn \in 1 .. Turns /\ Filled(cells, turn) /\ L \in Nat \ {0} /\ Turns \in Nat \ {0}
  BY GridSizes DEF NextVariant, IInv
<1>1. PICK m \in 0 .. L : Len(cells) = Base(turn) + m /\ remaining = m + 1 .. L
  BY DEF IInv, Progress
<1>2. m = L
  <2>1. m < L => m + 1 \in m + 1 .. L
    BY <1>0
  <2> QED
    BY <1>0, <1>1, <2>1
<1>3. CASE turn < Turns
  <2>1. turn' = turn + 1 /\ remaining' = 1 .. L /\ pc' = "launch"
    BY <1>0, <1>3, GridSizes DEF NextVariant
  <2>2. Base(turn) + L = Base(turn + 1) /\ Base(turn) \in Nat
    BY <1>0 DEF Base
  <2>3. Len(cells) = Base(turn') + 0
    BY <1>0, <1>1, <1>2, <2>1, <2>2
  <2>4. Filled(cells, turn + 1)
    <3>1. 1 .. turn \subseteq 1 .. turn + 1
      BY <1>0
    <3> QED
      BY <1>0, <3>1 DEF Filled
  <2>5. 0 \in 0 .. L /\ 0 + 1 .. L = 1 .. L
    BY <1>0
  <2>6. Progress'
    BY <1>0, <2>1, <2>3, <2>5 DEF Progress, Final
  <2>7. turn + 1 \in 1 .. Turns
    BY <1>0, <1>3
  <2> QED
    BY <1>0, <2>1, <2>4, <2>6, <2>7 DEF IInv, Final
<1>4. CASE ~ (turn < Turns)
  <2>1. turn' = turn /\ remaining' = remaining /\ pc' = "select"
    BY <1>4 DEF NextVariant
  <2>2. turn = Turns
    BY <1>0, <1>4
  <2>3. Progress'
    BY <1>0, <1>1, <1>2, <2>1 DEF Progress, Final
  <2> QED
    BY <1>0, <2>1, <2>2, <2>3 DEF IInv, Final
<1> QED
  BY <1>3, <1>4

\* The selection is made over all cells.
LEMMA WriteKeeps ==
  ASSUME IInv, WriteBenchmark
  PROVE  IInv'
<1>0. /\ pc = "select" /\ selection' = Selected(cells) /\ cells' = cells /\ turn' = turn
      /\ UNCHANGED <<remaining, plain>>
      /\ pc' = IF Accepted(cells, selection', plain) THEN "written" ELSE "refused"
  BY DEF WriteBenchmark
<1>1. Progress'
  BY <1>0 DEF IInv, Progress, Final
<1>2. /\ Selected(cells)' = Selected(cells)
      /\ Accepted(cells, selection, plain)' = Accepted(cells, selection', plain)
  BY <1>0
<1> QED
  BY <1>0, <1>1, <1>2 DEF IInv, Final

\* The invariant holds of every behaviour.
THEOREM Invariance == Spec => []IInv
<1>1. IInv /\ [Next]_vars => IInv'
  <2> SUFFICES ASSUME IInv, [Next]_vars PROVE IInv'
    OBVIOUS
  <2>0. turn \in 1 .. Turns
    BY DEF IInv
  <2>t. pc = "worker" => worker \in WorkerType
    BY DEF IInv, Progress, WorkerInv
  <2>1. CASE MeasureLength
    <3>1. PICK finite \in BOOLEAN, diff \in Comparisons, speed \in Speeds :
            Record(Measured(Current, finite, diff, speed))
      BY <2>1 DEF MeasureLength
    <3>2. \A i \in 1 .. L : Current = Lengths[i] =>
             /\ GoodCell(Measured(Current, finite, diff, speed))
             /\ At(Measured(Current, finite, diff, speed), turn, i)
      BY <2>0, MeasuredIsGood
    <3> DEFINE c == Measured(Current, finite, diff, speed)
    <3>3. worker' = [worker EXCEPT !.todo = @ \ {Min(@)}, !.deviceError = FALSE, !.lines = Append(@, c)]
      BY <2>1, <2>t, <3>1 DEF MeasureLength, Running, Record, WorkerType
    <3> HIDE DEF c
    <3> QED
      BY <2>1, <3>2, <3>3, RecordKeeps DEF MeasureLength, Running, c
  <2>2. CASE FailLength
    <3>1. PICK st \in {"unsupported", "oom", "error"}, message \in Messages :
            Record(Cell(Current, st, 0, "none", message))
      BY <2>2 DEF FailLength
    <3>2. \A i \in 1 .. L : Current = Lengths[i] =>
             /\ GoodCell(Cell(Current, st, 0, "none", message))
             /\ At(Cell(Current, st, 0, "none", message), turn, i)
      BY <2>0, FailedIsGood
    <3> DEFINE c == Cell(Current, st, 0, "none", message)
    <3>3. worker' = [worker EXCEPT !.todo = @ \ {Min(@)}, !.deviceError = FALSE, !.lines = Append(@, c)]
      BY <2>2, <2>t, <3>1 DEF FailLength, Running, Record, WorkerType
    <3> HIDE DEF c
    <3> QED
      BY <2>2, <3>2, <3>3, RecordKeeps DEF FailLength, Running, c
  <2>3. CASE FailDevice
    <3>1. PICK message \in Messages :
            worker' = [worker EXCEPT !.todo = @ \ {Min(@)}, !.deviceError = TRUE,
                         !.lines = Append(@, Cell(Current, "error", 0, "none", message))]
      BY <2>3 DEF FailDevice
    <3>2. \A i \in 1 .. L : Current = Lengths[i] =>
             /\ GoodCell(Cell(Current, "error", 0, "none", message))
             /\ At(Cell(Current, "error", 0, "none", message), turn, i)
      BY <2>0, FailedIsGood
    <3> QED
      BY <2>3, <3>1, <3>2, RecordKeeps DEF FailDevice, Running
  <2>4. CASE WorkerReturns
    <3>1. PICK e \in {"zero", "device"} : worker' = [worker EXCEPT !.exit = e]
      BY <2>4 DEF WorkerReturns
    <3>2. PICK torn \in BOOLEAN : worker.torn = torn
      BY <2>4, <2>t DEF WorkerReturns, Running, WorkerType
    <3>3. worker' = [worker EXCEPT !.exit = e, !.torn = torn]
      BY <2>4, <2>t, <3>1, <3>2 DEF WorkerReturns, Running, WorkerType
    <3> QED
      BY <2>4, <3>3, ExitKeeps DEF WorkerReturns, Running
  <2>5. CASE WorkerDies
    <3>1. PICK torn \in BOOLEAN : worker' = [worker EXCEPT !.exit = "other", !.torn = torn]
      BY <2>5 DEF WorkerDies
    <3> QED
      BY <2>5, <3>1, ExitKeeps DEF WorkerDies, Running
  <2>6. CASE Launch
    BY <2>6, LaunchKeeps
  <2>7. CASE Collect
    BY <2>7, CollectKeeps
  <2>8. CASE NextVariant
    BY <2>8, NextVariantKeeps
  <2>9. CASE WriteBenchmark
    BY <2>9, WriteKeeps
  <2>10. CASE UNCHANGED vars
    <3>1. Progress' = Progress
      BY <2>10 DEF vars, Progress, WorkerInv
    <3> QED
      BY <2>10, <3>1 DEF vars, IInv
  <2> QED
    BY <2>1, <2>2, <2>3, <2>4, <2>5, <2>6, <2>7, <2>8, <2>9, <2>10 DEF Next, Work, Ended
<1> QED
  BY InitHolds, <1>1, PTL DEF Spec

-----------------------------------------------------------------------------
(* What follows for the grid and for the ledger's judgement                *)

\* Cells that follow the grid up to some turn follow all of it.
LEMMA FilledSoFar ==
  ASSUME IInv
  PROVE  /\ Filled(cells, Turns)
         /\ pc \in Final => Len(cells) = Turns * L
<1>0. turn \in 1 .. Turns /\ Filled(cells, turn) /\ Turns \in Nat /\ L \in Nat
  BY GridSizes DEF IInv
<1>1. 1 .. turn \subseteq 1 .. Turns
  BY <1>0
<1>2. Filled(cells, Turns)
  BY <1>0, <1>1 DEF Filled
<1>3. pc \in Final => Len(cells) = Base(Turns) + L
  BY DEF IInv, Progress
<1>4. Base(Turns) + L = Turns * L
  BY <1>0 DEF Base
<1> QED
  BY <1>2, <1>3, <1>4

\* Every combination of the grid is measured once, however the workers ended
\* (run_variant() of bench_attention.py).
THEOREM GridTheorem == Spec => []GridMeasuredOnce
<1>1. IInv => GridMeasuredOnce
  <2> SUFFICES ASSUME IInv PROVE GridMeasuredOnce
    OBVIOUS
  <2>0. Filled(cells, Turns) /\ DOMAIN cells = 1 .. Len(cells)
    BY FilledSoFar DEF Filled
  <2>1. ASSUME NEW i \in DOMAIN cells, NEW j \in DOMAIN cells,
               <<cells[i].variant, cells[i].flag, cells[i].length>>
               = <<cells[j].variant, cells[j].flag, cells[j].length>>
        PROVE  i = j
    BY <2>0, <2>1, FilledOnce
  <2>2. pc \in Final => GridComplete(cells)
    BY FilledSoFar, FilledCompletely
  <2> QED
    BY <2>1, <2>2 DEF GridMeasuredOnce, Final
<1> QED
  BY <1>1, Invariance, PTL

\* The ledger refuses a record exactly when no variant qualifies, a NaN deviation is called
\* "ok", or a message or another text of the record is one it never takes
\* (validate_benchmark() of ledger.py against the worker's statuses and details).
THEOREM RefusalTheorem == Spec => []RefusalHasACause
<1>1. IInv => RefusalHasACause
  <2> SUFFICES ASSUME IInv, pc \in {"written", "refused"} PROVE RefusalHasACause
    BY DEF RefusalHasACause
  <2>1. selection = Selected(cells) /\ (pc = "refused" <=> ~ Accepted(cells, selection, plain))
    BY DEF IInv
  <2>2. Filled(cells, Turns) /\ GridComplete(cells) /\ DOMAIN cells = 1 .. Len(cells)
    <3>1. Filled(cells, Turns) /\ Len(cells) = Turns * L
      BY FilledSoFar DEF Final
    <3>2. GridComplete(cells)
      BY <3>1, FilledCompletely
    <3>3. DOMAIN cells = 1 .. Len(cells)
      BY <3>1 DEF Filled
    <3> QED
      BY <3>1, <3>2, <3>3
  <2>3. \A i \in DOMAIN cells :
          CellAcceptable(cells[i]) <=> ~ (cells[i].status = "ok" /\ cells[i].diff = "nan")
    BY <2>2 DEF Filled, GoodCell
  <2>4. Accepted(cells, selection, plain) <=>
          /\ \A i \in DOMAIN cells : ~ (cells[i].status = "ok" /\ cells[i].diff = "nan")
          /\ selection # NoSelection /\ plain
          /\ \A i \in DOMAIN cells : cells[i].detail # "forbidden"
    BY <2>1, <2>2, <2>3 DEF Accepted
  <2> QED
    BY <2>1, <2>4 DEF RefusalHasACause
<1> QED
  BY <1>1, Invariance, PTL

\* The largest selection length is one of them.
LEMMA LargestIn == Largest \in SelectionLengths
<1>1. Lengths \in Seq(Nat) /\ SelectionLengths \in SUBSET Nat /\ SelectionLengths # {}
  <2>1. Range(Lengths) \subseteq Nat
    BY GridAssumption
  <2> QED
    BY <2>1, GridAssumption
<1>2. PICK b \in Nat : \A i \in 1 .. Len(Lengths) : Lengths[i] <= b
  BY <1>1, SequenceBounded
<1>3. \A n \in SelectionLengths : n <= b
  <2>1. \A n \in SelectionLengths : \E i \in 1 .. Len(Lengths) : n = Lengths[i]
    BY GridAssumption DEF Range
  <2> QED
    BY <1>2, <2>1
<1>4. \E n \in SelectionLengths : \A m \in SelectionLengths : m <= n
  BY <1>1, <1>3, GreatestOf
<1> QED
  BY <1>4 DEF Largest

\* Where a combination has a cell, its speed is that cell's.
LEMMA SpeedIs ==
  ASSUME NEW cs, Filled(cs, Turns), NEW v, NEW f, NEW k \in CellsAt(cs, v, f, Largest)
  PROVE  Speed(cs, v, f) = cs[k].speed /\ cs[k].speed \in Nat
<1>0. DOMAIN cs = 1 .. Len(cs)
  BY DEF Filled
<1>1. PICK j \in CellsAt(cs, v, f, Largest) : Speed(cs, v, f) = cs[j].speed
  BY DEF Speed
<1>2. j = k
  BY <1>0, FilledOnce DEF CellsAt
<1>3. cs[k] \in CellSet
  BY <1>0 DEF CellsAt, Filled, GoodCell
<1> QED
  BY <1>1, <1>2, <1>3 DEF CellSet

\* The rank of a member of a list is one of its places.
LEMMA RankIs ==
  ASSUME NEW S, NEW list \in Seq(S), NEW x \in Range(list)
  PROVE  Rank(list, x) \in Nat /\ list[Rank(list, x)] = x
<1>1. \E i \in DOMAIN list : list[i] = x
  BY DEF Range
<1>2. Rank(list, x) \in DOMAIN list /\ list[Rank(list, x)] = x
  BY <1>1 DEF Rank
<1> QED
  BY <1>2

\* When some variant qualifies, the one selected does and precedes every other: among the
\* fastest, among those of the first flag setting, the first in grid order.
LEMMA SelectedIsBest ==
  ASSUME NEW cs, Filled(cs, Turns), Qualifying(cs) # {}
  PROVE  /\ Selected(cs) \in Qualifying(cs)
         /\ \A q \in Qualifying(cs) : Precedes(cs, Selected(cs), q)
<1> DEFINE Q == Qualifying(cs)
<1> DEFINE SpeedOf(p) == Speed(cs, p[1], p[2])
<1> DEFINE FlagOf(p) == Rank(Flags, p[2])
<1> DEFINE VariantOf(p) == Rank(Variants, p[1])
<1>0. DOMAIN cs = 1 .. Len(cs) /\ \A k \in 1 .. Len(cs) : cs[k].speed \in Nat
  BY DEF Filled, GoodCell, CellSet
<1>1. PICK b \in Nat : \A k \in 1 .. Len(cs) : cs[k].speed <= b
  <2> DEFINE speeds == [k \in 1 .. Len(cs) |-> cs[k].speed]
  <2>1. Len(cs) \in Nat
    BY DEF Filled
  <2>2. speeds \in Seq(Nat) /\ Len(speeds) = Len(cs)
    BY <1>0, <2>1
  <2>3. \E b \in Nat : \A k \in 1 .. Len(speeds) : speeds[k] <= b
    <3> HIDE DEF speeds
    <3> QED
      BY <2>2, SequenceBounded
  <2> QED
    BY <2>2, <2>3
<1>2. ASSUME NEW p \in Q
      PROVE  SpeedOf(p) \in Nat /\ SpeedOf(p) <= b /\ FlagOf(p) \in Nat /\ VariantOf(p) \in Nat
  <2>1. p[1] \in Range(Variants) /\ p[2] \in Range(Flags) /\ Qualifies(cs, p[1], p[2])
    BY DEF Qualifying
  <2>2. PICK k \in CellsAt(cs, p[1], p[2], Largest) : Usable(cs[k])
    BY <2>1, LargestIn DEF Qualifies
  <2>3. SpeedOf(p) = cs[k].speed /\ k \in 1 .. Len(cs)
    BY <1>0, <2>2, SpeedIs DEF CellsAt
  <2>4. FlagOf(p) \in Nat /\ VariantOf(p) \in Nat
    BY <2>1, RankIs, GridAssumption
  <2> QED
    BY <1>0, <1>1, <2>3, <2>4
<1> HIDE DEF SpeedOf, FlagOf, VariantOf
<1>3. PICK top \in Nat : (\E p \in Q : SpeedOf(p) = top) /\ (\A p \in Q : SpeedOf(p) <= top)
  <2> DEFINE S == {SpeedOf(p) : p \in Q}
  <2>1. S \in SUBSET Nat /\ S # {} /\ \A n \in S : n <= b
    BY <1>2
  <2>2. PICK n \in S : \A m \in S : m <= n
    <3> HIDE DEF S
    <3> QED
      BY <2>1, GreatestOf
  <2> QED
    BY <2>1, <2>2
<1> DEFINE Fastest == {p \in Q : SpeedOf(p) = top}
<1>4. PICK flag \in Nat : (\E p \in Fastest : FlagOf(p) = flag) /\ (\A p \in Fastest : flag <= FlagOf(p))
  <2> DEFINE S == {FlagOf(p) : p \in Fastest}
  <2>1. S \in SUBSET Nat /\ S # {}
    BY <1>2, <1>3
  <2>2. PICK n \in S : \A m \in S : n <= m
    <3> HIDE DEF S
    <3> QED
      BY <2>1, LeastOf
  <2> QED
    BY <2>1, <2>2
<1> DEFINE First == {p \in Fastest : FlagOf(p) = flag}
<1>5. PICK best \in First : \A p \in First : VariantOf(best) <= VariantOf(p)
  <2> DEFINE S == {VariantOf(p) : p \in First}
  <2>1. S \in SUBSET Nat /\ S # {}
    BY <1>2, <1>4
  <2>2. PICK n \in S : \A m \in S : n <= m
    <3> HIDE DEF S
    <3> QED
      BY <2>1, LeastOf
  <2> QED
    BY <2>1, <2>2
<1>6. ASSUME NEW q \in Q PROVE Precedes(cs, best, q)
  <2>1. best \in Q /\ SpeedOf(best) = top /\ FlagOf(best) = flag
    OBVIOUS
  <2>2. CASE SpeedOf(q) # top
    <3>1. top > SpeedOf(q)
      BY <1>2, <1>3, <2>2
    <3> QED
      BY <2>1, <3>1 DEF Precedes, SpeedOf
  <2>3. CASE SpeedOf(q) = top /\ FlagOf(q) # flag
    <3>1. flag < FlagOf(q)
      BY <1>2, <1>4, <2>3
    <3> QED
      BY <2>1, <2>3, <3>1 DEF Precedes, SpeedOf, FlagOf
  <2>4. CASE SpeedOf(q) = top /\ FlagOf(q) = flag
    <3>1. VariantOf(best) <= VariantOf(q)
      BY <1>5, <2>4
    <3> QED
      BY <2>1, <2>4, <3>1 DEF Precedes, SpeedOf, FlagOf, VariantOf
  <2> QED
    BY <2>2, <2>3, <2>4
<1>7. \E p \in Q : \A q \in Q : Precedes(cs, p, q)
  BY <1>6
<1> QED
  BY <1>7 DEF Selected

\* A recorded selection was measured and agrees with the reference at every selection
\* length, and no other path that was is faster (SELECTION_RULE of ledger.py).
THEOREM SelectionTheorem == Spec => []SelectionFollowsRule
<1>1. IInv => SelectionFollowsRule
  <2> SUFFICES ASSUME IInv, pc = "written" PROVE SelectionFollowsRule
    BY DEF SelectionFollowsRule
  <2> DEFINE Proven(v, f, n) == \E c \in Range(cells) :
               /\ <<c.variant, c.flag, c.length>> = <<v, f, n>>
               /\ c.status = "ok" /\ (v \in Oracles \/ c.diff = "within")
  <2>0. Filled(cells, Turns) /\ DOMAIN cells = 1 .. Len(cells)
    BY FilledSoFar DEF Filled
  <2>1. selection = Selected(cells) /\ Selected(cells) # NoSelection
    BY DEF IInv, Accepted
  <2>2. Qualifying(cells) # {}
    BY <2>1 DEF Selected
  <2>3. /\ selection \in Qualifying(cells)
        /\ \A q \in Qualifying(cells) : Precedes(cells, selection, q)
    BY <2>0, <2>1, <2>2, SelectedIsBest
  <2>4. Qualifies(cells, selection[1], selection[2])
    BY <2>3 DEF Qualifying
  <2>5. selection[1] \in Selectable
    BY <2>4 DEF Qualifies
  <2>6. ASSUME NEW n \in SelectionLengths PROVE Proven(selection[1], selection[2], n)
    <3>1. PICK i \in CellsAt(cells, selection[1], selection[2], n) : Usable(cells[i])
      BY <2>4 DEF Qualifies
    <3>2. cells[i] \in Range(cells)
      BY DEF CellsAt, Range
    <3> QED
      BY <3>1, <3>2 DEF CellsAt, Usable, Equivalent
  <2>7. ASSUME NEW c \in Range(cells), NEW d \in Range(cells),
               <<c.variant, c.flag, c.length>> = <<selection[1], selection[2], Largest>>,
               d.length = Largest, d.speed > c.speed, d.variant \in Selectable,
               \A n \in SelectionLengths : Proven(d.variant, d.flag, n)
        PROVE  FALSE
    <3>1. PICK i \in DOMAIN cells, j \in DOMAIN cells : c = cells[i] /\ d = cells[j]
      BY DEF Range
    <3>2. d \in CellSet
      BY <2>0, <3>1 DEF Filled, GoodCell
    <3>3. Qualifies(cells, d.variant, d.flag)
      <4>1. ASSUME NEW n \in SelectionLengths
            PROVE  \E k \in CellsAt(cells, d.variant, d.flag, n) : Usable(cells[k])
        <5>1. Proven(d.variant, d.flag, n)
          BY <2>7
        <5>2. PICK e \in Range(cells) :
                /\ <<e.variant, e.flag, e.length>> = <<d.variant, d.flag, n>>
                /\ e.status = "ok" /\ (d.variant \in Oracles \/ e.diff = "within")
          BY <5>1
        <5>3. PICK k \in DOMAIN cells : e = cells[k]
          BY DEF Range
        <5>4. GoodCell(e)
          BY <2>0, <5>3 DEF Filled
        <5>5. k \in CellsAt(cells, d.variant, d.flag, n)
          BY <5>2, <5>3 DEF CellsAt
        <5>6. Usable(e)
          BY <5>2, <5>4 DEF Usable, Equivalent, GoodCell
        <5> QED
          BY <5>3, <5>5, <5>6
      <4> QED
        BY <2>7, <4>1 DEF Qualifies
    <3>4. <<d.variant, d.flag>> \in Qualifying(cells)
      BY <3>2, <3>3 DEF Qualifying, CellSet
    <3>5. Precedes(cells, selection, <<d.variant, d.flag>>)
      BY <2>3, <3>4
    <3>6. i \in CellsAt(cells, selection[1], selection[2], Largest)
      BY <2>7, <3>1 DEF CellsAt
    <3>7. j \in CellsAt(cells, d.variant, d.flag, Largest)
      BY <2>7, <3>1 DEF CellsAt
    <3>8. Speed(cells, selection[1], selection[2]) = c.speed /\ c.speed \in Nat
      BY <2>0, <3>1, <3>6, SpeedIs
    <3>9. Speed(cells, d.variant, d.flag) = d.speed /\ d.speed \in Nat
      BY <2>0, <3>1, <3>7, SpeedIs
    <3>10. c.speed > d.speed \/ c.speed = d.speed
      BY <3>5, <3>8, <3>9 DEF Precedes
    <3> QED
      BY <2>7, <3>8, <3>9, <3>10
  <2> QED
    BY <2>5, <2>6, <2>7 DEF SelectionFollowsRule
<1> QED
  BY <1>1, Invariance, PTL
===============================================================================
