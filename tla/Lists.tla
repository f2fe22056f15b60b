-------------------------------- MODULE Lists -------------------------------
(***************************************************************************)
(* Vectors as sequences: what is left of one when some elements go.        *)
(***************************************************************************)
EXTENDS Naturals, FiniteSets, Sequences

\* Place(keep, i): how many of the indices kept come no later than i.
Place(keep, i) == Cardinality({j \in keep : j <= i})

\* Vec::retain and Iterator::filter: the elements at these indices, in the order
\* they had.
Retain(s, keep) ==
  [n \in 1..Cardinality(keep) |-> s[CHOOSE i \in keep : Place(keep, i) = n]]
=============================================================================
