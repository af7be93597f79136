-------------------------------- MODULE Sums --------------------------------
(***************************************************************************)
(* The sum of a function of natural numbers over a finite set, as the      *)
(* number of units that make it up: a sum that can be reasoned about with  *)
(* the cardinalities of finite sets.                                       *)
(***************************************************************************)
EXTENDS Integers, FiniteSets

\* The units of the elements of S: f[x] of them for x.
UnitsOf(f, S) == UNION {{x} \X (1..f[x]) : x \in S}
SumOver(f, S) == Cardinality(UnitsOf(f, S))
=============================================================================
