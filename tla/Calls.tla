-------------------------------- MODULE Calls --------------------------------
(***************************************************************************)
(* The calls of its database that a node.js program has under way: a bag,  *)
(* since every listener of an event makes the same ones.  The database     *)
(* executes them in any order; a call of a process that has ended, live no *)
(* more, has no callback.                                                  *)
(***************************************************************************)
EXTENDS Integers, Sequences, FiniteSets, BagsExt, SequencesExt

\* how often a call is under way: CopiesIn of Bags, which the prover's library does not have
Copies(c, calls) == IF BagIn(c, calls) THEN calls[c] ELSE 0

\* a call, once; what n listeners make, each a set of calls
Once(c) == SetToBag({c})
ByEach(n, made) == [c \in made |-> n]

\* the process ends: its calls are still under way
Orphan(c) == [c EXCEPT !.live = FALSE]
Orphaned(calls) ==
  [c \in {Orphan(x) : x \in BagToSet(calls)} |-> Copies(c, calls) + Copies([c EXCEPT !.live = TRUE], calls)]
==============================================================================
