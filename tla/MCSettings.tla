----------------------------- MODULE MCSettings -----------------------------
(* Small instances of Settings.                                            *)
EXTENDS Settings, TLC

Symmetry == Permutations(Client) \cup Permutations(Setting)
=============================================================================
