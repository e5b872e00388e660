---------------------------- MODULE ContextPolicy ----------------------------
(***************************************************************************)
(* kittylm/data/windows.py: the policy that gives a position its context   *)
(* from the context length and the stride alone.                           *)
(***************************************************************************)
EXTENDS Integers

Minimum(a, b) == IF a <= b THEN a ELSE b

DefaultStride(c) == IF c \div 2 >= 1 THEN c \div 2 ELSE 1

\* _resolve_stride: the default, or a stride given in 1 .. context_length.
Strides(c) == {DefaultStride(c)} \cup 1 .. c

\* Mutant: the quotient rounded down.
FloorDiv(a, b) == a \div b

\* -(-a // b): the quotient rounded up.
CeilDiv(a, b) == -((-a) \div b)

ContextStart(position, c, s) ==
  LET overflow == position - c
  IN IF overflow <= 0 THEN 0 ELSE s * CeilDiv(overflow, s)
=============================================================================
