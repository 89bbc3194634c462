---------------------------- MODULE NaturalSums ----------------------------
(***************************************************************************)
(* Sums of a function with natural values over a finite set, as the number *)
(* of elements of a disjoint union: one unit per <<element, index>> pair.  *)
(* Defined without recursion, a sum has the properties of cardinalities    *)
(* and can be reasoned about with the library's theorems on them.          *)
(***************************************************************************)
EXTENDS Integers, FiniteSets

Units(f, S) == UNION {{x} \X (1..f[x]) : x \in S}

SumOver(f, S) == Cardinality(Units(f, S))

=============================================================================
