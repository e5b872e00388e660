-------------------------- MODULE EvaluationWindows --------------------------
(***************************************************************************)
(* kittylm/data/windows.py: the loop of evaluation_windows() that cuts a   *)
(* stream of n_tokens into windows.                                        *)
(*                                                                         *)
(* A window is [start, end) with the first target it scores.  Positions    *)
(* are 0-based as in the code; target t is token t predicted from what the *)
(* window holds before it.                                                 *)
(***************************************************************************)
EXTENDS ContextPolicy, Sequences

CONSTANTS
  MaxTokens,    \* streams considered: 2 .. MaxTokens tokens
  MaxContext    \* context lengths considered: 1 .. MaxContext

ASSUME BoundsAssumption == {MaxTokens, MaxContext} \subseteq Nat

VARIABLES
  nTokens,        \* n_tokens
  contextLength,  \* context_length
  stride,         \* the resolved stride
  start,          \* loop variable
  scoreFrom,      \* loop variable score_from
  windows,        \* the list built so far
  done            \* has the list been returned?

vars == <<nTokens, contextLength, stride, start, scoreFrom, windows, done>>

\* window_examples(): the targets of window w left unmasked.  Row index j stands
\* for position start + 1 + j; the first score_offset of them are masked.
ScoreOffset(w) == w.scoreFrom - (w.start + 1)
KeptTargets(w) == {w.start + 1 + j : j \in ScoreOffset(w) .. w.end - w.start - 2}

Init ==
  /\ nTokens \in 2 .. MaxTokens
  /\ contextLength \in 1 .. MaxContext
  /\ stride \in Strides(contextLength)
  /\ start = 0
  /\ scoreFrom = 1
  /\ windows = <<>>
  /\ done = FALSE

End == Minimum(start + contextLength + 1, nTokens)

AddWindow ==
  windows' = Append(windows, [start |-> start, end |-> End, scoreFrom |-> scoreFrom])

\* The window that reaches the end of the stream is the last.
LastWindow ==
  /\ ~ done
  /\ AddWindow
  /\ End = nTokens
  /\ done' = TRUE
  /\ UNCHANGED <<nTokens, contextLength, stride, start, scoreFrom>>

\* Mutant: the token at the border is not scored.
NextWindowSkipsBorder ==
  /\ ~ done
  /\ AddWindow
  /\ End # nTokens
  /\ scoreFrom' = End + 1
  /\ start' = start + stride
  /\ UNCHANGED <<nTokens, contextLength, stride, done>>

NextWindow ==
  /\ ~ done
  /\ AddWindow
  /\ End # nTokens
  /\ scoreFrom' = End
  /\ start' = start + stride
  /\ UNCHANGED <<nTokens, contextLength, stride, done>>

Finished == done /\ UNCHANGED vars

Next == LastWindow \/ NextWindow \/ Finished

Spec == Init /\ [][Next]_vars

-----------------------------------------------------------------------------
(* Properties                                                              *)

Window == [start : Nat, end : Nat, scoreFrom : Nat]

TypeOK ==
  /\ nTokens \in Nat /\ contextLength \in Nat \ {0} /\ stride \in 1 .. contextLength
  /\ start \in Nat /\ scoreFrom \in Nat
  /\ windows \in Seq(Window)
  /\ done \in BOOLEAN

\* Every target is scored exactly once and in order (windows.py 36-38): a window
\* keeps a non-empty run of targets that starts where the previous one ended, and
\* the finished list reaches the end of the stream.
ScoredOnceInOrder ==
  /\ \A i \in DOMAIN windows :
       /\ KeptTargets(windows[i]) = windows[i].scoreFrom .. windows[i].end - 1
       /\ windows[i].scoreFrom = IF i = 1 THEN 1 ELSE windows[i - 1].end
       /\ windows[i].scoreFrom < windows[i].end
  /\ done => windows # <<>> /\ windows[Len(windows)].end = nTokens

\* The window that scores a target is the context generation would use for it
\* (windows.py 40-42), and it holds at most context_length tokens before the target.
SameContextAsGeneration ==
  \A i \in DOMAIN windows : \A t \in KeptTargets(windows[i]) :
    /\ ContextStart(t, contextLength, stride) = windows[i].start
    /\ t - windows[i].start \in 1 .. contextLength

\* No target is predicted from less context than the stride leaves, unless the
\* stream itself has no more tokens before it.
EnoughContext ==
  \A i \in DOMAIN windows : \A t \in KeptTargets(windows[i]) :
    t - windows[i].start >= Minimum(t, contextLength - stride + 1)
=============================================================================
