--------------------------- MODULE MCOmnipresent ----------------------------
(* Small instances of Omnipresent.                                         *)
EXTENDS Omnipresent, TLC

SessionSymmetry == Permutations(Session)
Symmetry == Permutations(Session) \cup Permutations(Machine)
=============================================================================
