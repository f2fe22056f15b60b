-------------------------- MODULE MCSessionManager --------------------------
(* Two peers, two session ids, a listener up to three events behind.       *)
EXTENDS SessionManager, TLC

Symmetry == Permutations(Session) \cup Permutations(Machine \ {Self})
=============================================================================
