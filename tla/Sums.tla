--------------------------------- MODULE Sums ---------------------------------
(***************************************************************************)
(* Sums of natural numbers, as the number of units that are added up: a    *)
(* term of value n at index i stands for the n pairs <<i, 1>> .. <<i, n>>. *)
(* The theorems on finite sets say what a set with one pair more holds.    *)
(***************************************************************************)
EXTENDS Integers, FiniteSets

Units(sizes) == UNION {{i} \X (1 .. sizes[i]) : i \in DOMAIN sizes}

SumOf(sizes) == Cardinality(Units(sizes))

\* The sum of the first n terms of a sequence.
SumOfFirst(sizes, n) == SumOf([i \in 1 .. n |-> sizes[i]])
================================================================================
