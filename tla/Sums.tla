--------------------------------- MODULE Sums --------------------------------
(***************************************************************************)
(* Sums of natural numbers, as the number of their units: a set of values  *)
(* has as many members as the values have units.  Defined like this, and   *)
(* not by a fold, a sum can be reasoned about with the library's theorems  *)
(* on cardinalities, for sets of every size.                                *)
(***************************************************************************)
EXTENDS Naturals, FiniteSets

Units(f, S) == UNION {{x} \X (1..f[x]) : x \in S}

\* The sum of f[x] over the members x of S.
SumOver(f, S) == Cardinality(Units(f, S))

=============================================================================
