-------------------------- MODULE AttentionSelection --------------------------
(***************************************************************************)
(* kittylm/ledger.py: what a benchmark record may say of its cells, and    *)
(* the attention path it selects (select_attention_path,                   *)
(* validate_benchmark).                                                    *)
(*                                                                         *)
(* A cell is [variant, flag, length, status, speed, diff, detail]: speed 0 *)
(* stands for a missing throughput; diff says what the relative deviations *)
(* from the reference amount to; detail is "", "reference unavailable",    *)
(* another text the program chose, or a message of an exception or of      *)
(* stderr, which the ledger may refuse.                                    *)
(***************************************************************************)
EXTENDS Integers, Sequences, FiniteSets, SequencesExt

CONSTANTS
  Variants,          \* grid.variants, in grid order
  Oracles,           \* those whose path is the reference implementation
  Selectable,        \* those that run in SELECTION_DTYPE
  Flags,             \* grid.flag_settings, in grid order
  Lengths,           \* grid.sequence_lengths, in the order they are measured
  SelectionLengths,  \* grid.selection_lengths
  NoSelection

ASSUME GridAssumption ==
  /\ Variants \in Seq(Range(Variants)) /\ Variants # <<>> /\ IsInjective(Variants)
  /\ Flags \in Seq(Range(Flags)) /\ Flags # <<>> /\ IsInjective(Flags)
  /\ Lengths \in Seq(Range(Lengths)) /\ Lengths # <<>> /\ IsInjective(Lengths)
  /\ Oracles \cup Selectable \subseteq Range(Variants)
  /\ SelectionLengths \subseteq Range(Lengths) /\ SelectionLengths # {}
  /\ Range(Lengths) \subseteq Nat \ {0}

Diffs == {"none", "within", "beyond", "nan"}

\* _cell_equivalent()
Equivalent(c) == c.variant \in Oracles \/ c.diff = "within"

CellsAt(cells, v, f, n) == {i \in DOMAIN cells : <<cells[i].variant, cells[i].flag, cells[i].length>> = <<v, f, n>>}

Usable(c) == c.status = "ok" /\ c.speed > 0 /\ Equivalent(c)

\* Mutant: one measured selection length is enough.
QualifiesSomewhere(cells, v, f) ==
  /\ v \in Selectable
  /\ \E n \in SelectionLengths, i \in DOMAIN cells : i \in CellsAt(cells, v, f, n) /\ Usable(cells[i])

\* Does the variant qualify with this flag setting at every selection length?
Qualifies(cells, v, f) ==
  /\ v \in Selectable
  /\ \A n \in SelectionLengths : \E i \in CellsAt(cells, v, f, n) : Usable(cells[i])

Largest == CHOOSE n \in SelectionLengths : \A m \in SelectionLengths : m <= n

Speed(cells, v, f) == cells[CHOOSE i \in CellsAt(cells, v, f, Largest) : TRUE].speed

Rank(seq, x) == CHOOSE i \in DOMAIN seq : seq[i] = x

\* min() over (-speed, flag rank, variant rank)
Precedes(cells, p, q) ==
  LET s == Speed(cells, p[1], p[2])  t == Speed(cells, q[1], q[2])
      f == Rank(Flags, p[2])         g == Rank(Flags, q[2])
  IN \/ s > t
     \/ s = t /\ f < g
     \/ s = t /\ f = g /\ Rank(Variants, p[1]) <= Rank(Variants, q[1])

Qualifying(cells) == {p \in Range(Variants) \X Range(Flags) : Qualifies(cells, p[1], p[2])}

\* select_attention_path()
Selected(cells) ==
  IF Qualifying(cells) = {} THEN NoSelection
  ELSE CHOOSE p \in Qualifying(cells) : \A q \in Qualifying(cells) : Precedes(cells, p, q)

\* validate_benchmark() on one cell.
CellAcceptable(c) ==
  IF c.status \in {"ok", "mismatch"}
    THEN /\ c.speed > 0
         /\ c.variant \notin Oracles =>
              /\ c.diff = "none" /\ c.status = "ok" => c.detail = "reference unavailable"
              /\ c.diff # "none" => (c.status = "ok" <=> Equivalent(c))
    ELSE c.detail # "" /\ c.speed = 0

\* The grid is measured: no cell missing, outside the grid or there twice.
GridComplete(cells) ==
  /\ \A v \in Range(Variants), f \in Range(Flags), n \in Range(Lengths) :
       Cardinality(CellsAt(cells, v, f, n)) = 1
  /\ Len(cells) = Len(Variants) * Len(Flags) * Len(Lengths)

\* A message the ledger takes, or one with an absolute path, the local user or host
\* name, or what the secret scanner flags.
Messages == {"message", "forbidden"}

\* validate_benchmark(): does a record of these cells with this selection pass?  plain
\* says whether the record's texts outside the cells (device, os, notes) do.
Accepted(cells, selection, plain) ==
  /\ \A i \in DOMAIN cells : CellAcceptable(cells[i])
  /\ GridComplete(cells)
  /\ Selected(cells) # NoSelection /\ selection = Selected(cells)
  /\ plain /\ \A i \in DOMAIN cells : cells[i].detail # "forbidden"
=============================================================================
