----------------------------- MODULE ResumeVerdict -----------------------------
(***************************************************************************)
(* The verdicts of a resume test: how resume_harness.py words a comparison *)
(* and how ledger.py judges the words.                                     *)
(*                                                                         *)
(* What one category of the two runs amounts to is a relation: equal, a    *)
(* deviation in units of 10^-8, NaN in a number, tensors of integers that  *)
(* differ, or different in structure or value.  RESUME_GPU_MAX_ABS_DEV is  *)
(* 10^-4.                                                                  *)
(***************************************************************************)
EXTENDS Integers, FiniteSets

CONSTANTS
  Categories,   \* RESUME_CATEGORIES
  Counted,      \* those compare_runs() only compares with ==
  Measured,     \* those that may deviate on a GPU
  Deviations    \* the deviations considered

ASSUME VerdictAssumption ==
  /\ Counted \subseteq Categories /\ Measured \subseteq Categories
  /\ Deviations \subseteq Nat \ {0}

Tolerance == 10000

Same == [kind |-> "same", by |-> 0]
Off(d) == [kind |-> "off", by |-> d]
Different == [kind |-> "different", by |-> 0]

\* Some deviations are NaN, and the greatest of the others is d.
NotANumber(d) == [kind |-> "nan", by |-> d]

\* Tensors of integers differ, as those of the RNG states do, or the first deviation of
\* a series is NaN.
Unbounded == [kind |-> "unbounded", by |-> 0]

\* Every category but the counters and batch indices goes through _compare_values() or
\* _compare_series(), whether it may deviate or not.
Relations(c) ==
  {Same, Different} \cup
    (IF c \in Counted THEN {}
     ELSE {Unbounded} \cup {Off(d) : d \in Deviations}
          \cup {NotANumber(d) : d \in {0} \cup Deviations})

\* "max_abs_dev={:.3e}" shows four significant digits: five-digit numbers of units
\* are rounded to a multiple of ten.
Shown(d) == IF d < Tolerance THEN d ELSE 10 * ((d + 5) \div 10)

\* max(max_dev, nan) keeps max_dev, which _compare_values() starts at 0.  "not_finite" is
\* max_abs_dev=inf or max_abs_dev=nan.
Verdict(r) ==
  CASE r.kind = "same" -> [word |-> "exact", dev |-> 0]
    [] r.kind \in {"off", "nan"} -> [word |-> "max_abs_dev", dev |-> Shown(r.by)]
    [] r.kind = "unbounded" -> [word |-> "not_finite", dev |-> 0]
    [] OTHER -> [word |-> "differs", dev |-> 0]

KnownDevices == {"cpu", "cuda"}

\* Mutant: on a GPU every category may deviate.
ExactRequiredOnCpu(device) == IF device = "cuda" THEN {} ELSE Categories

\* RESUME_EXACT_REQUIRED.get(device, RESUME_CATEGORIES)
ExactRequired(device) == IF device = "cuda" THEN Categories \ Measured ELSE Categories

\* Mutant: only the deviation counts.
VerdictOkByDeviation(c, v, device) == v.dev <= Tolerance

\* resume_verdict_ok()
VerdictOk(c, v, device) ==
  \/ v.word = "exact"
  \/ c \notin ExactRequired(device) /\ v.word = "max_abs_dev" /\ v.dev <= Tolerance

\* _resume_comparison_problems() = []: may a record state this comparison with this
\* checkpoint_resume_test?
ComparisonAccepted(comparison, status, device) ==
  LET present == DOMAIN comparison
      missing == Categories \ present
      unknown == present \ Categories
      notExact == {c \in ExactRequired(device) \cap present : comparison[c].word # "exact"}
      beyond == {c \in (present \cap Categories) \ ExactRequired(device) :
                   ~ VerdictOk(c, comparison[c], device)}
  IN /\ device \in KnownDevices
     /\ missing = {} /\ unknown = {}
     /\ status = "passed" => notExact = {} /\ beyond = {}
     /\ status = "failed" => notExact # {} \/ beyond # {}
=============================================================================
