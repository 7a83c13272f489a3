------------------------------ MODULE Collections ------------------------------
(* Lists and functions, without an operator for an argument, so that they can be *)
(* proved about.                                                                  *)
EXTENDS Integers, FiniteSets

\* The elements of a list at some positions, in their order
Selected(list, positions) ==
  [k \in 1..Cardinality(positions) |->
     list[CHOOSE i \in positions : Cardinality({j \in positions : j <= i}) = k]]

\* Two functions as one
Joined(f, g) == [x \in DOMAIN f \cup DOMAIN g |-> IF x \in DOMAIN f THEN f[x] ELSE g[x]]
=============================================================================
