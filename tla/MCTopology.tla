----------------------------- MODULE MCTopology -----------------------------
(* Screens that differ in both directions, down to a single pixel.         *)
EXTENDS Topology

Screens == {[width |-> 3, height |-> 2], [width |-> 5, height |-> 4],
            [width |-> 1, height |-> 5], [width |-> 2, height |-> 1]}
=============================================================================
