------------------------------ MODULE MCWindow -------------------------------
(* One peer that asks, and one command of the window under way at a time.   *)
EXTENDS Window
=============================================================================
