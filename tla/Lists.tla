-------------------------------- MODULE Lists --------------------------------
(***************************************************************************)
(* Lists and loops of the C code, in a form that can be reasoned about:    *)
(* the library's SelectSeq and FoldLeft, without an operator that is       *)
(* defined by recursion on anything but an index.                          *)
(***************************************************************************)
EXTENDS Integers, Sequences, FiniteSets

\* The function f with v for x.
Put(f, x, v) == [y \in DOMAIN f \cup {x} |-> IF y = x THEN v ELSE f[y]]

\* A finite set of numbers as a sequence, in ascending order.
InOrder(S) == [i \in 1..Cardinality(S) |->
                 CHOOSE a \in S : Cardinality({b \in S : b < a}) = i - 1]

\* The elements of s at the positions in S, in their order.
Those(s, S) == [i \in DOMAIN InOrder(S) |-> s[InOrder(S)[i]]]

\* A loop over s that passes d on.
Each(Op(_, _), d, s) ==
  LET f[i \in 0..Len(s)] == IF i = 0 THEN d ELSE Op(f[i - 1], s[i])
  IN  f[Len(s)]
==============================================================================
