----------------------------- MODULE InputOwner ------------------------------
(***************************************************************************)
(* What a person at one of several machines may rely on, without sessions, *)
(* messages, layouts or cursors: where the input of a machine goes.        *)
(*                                                                         *)
(* It goes to the machine itself or to one it is linked to.  It is kept    *)
(* from the machine's own desktop exactly while it goes to another.  A new *)
(* link does not move it, a lost one brings it home if it went there and   *)
(* leaves it alone otherwise, and a machine that starts over has it.       *)
(***************************************************************************)
CONSTANT Machine

VARIABLES
  target,    \* where the input of each machine goes
  linked,    \* the machines it is linked to
  withheld   \* whether its own desktop does not get it

vars == <<target, linked, withheld>>

Init ==
  /\ target = [m \in Machine |-> m]
  /\ linked = [m \in Machine |-> {}]
  /\ withheld = [m \in Machine |-> FALSE]

\* One machine changes, and what is withheld with it.
Becomes(m, to, peers) ==
  /\ target' = [target EXCEPT ![m] = to]
  /\ linked' = [linked EXCEPT ![m] = peers]
  /\ withheld' = [withheld EXCEPT ![m] = (to # m)]

LinkUp(m, p) ==
  /\ p \notin linked[m] \cup {m}
  /\ Becomes(m, target[m], linked[m] \cup {p})

LinkDown(m, p) ==
  /\ p \in linked[m]
  /\ Becomes(m, IF target[m] = p THEN m ELSE target[m], linked[m] \ {p})

\* The person crosses an edge, or a peer says that the cursor is there.
Redirect(m, to) ==
  /\ to \in linked[m] \cup {m}
  /\ Becomes(m, to, linked[m])

Restart(m) == Becomes(m, m, {})

Next ==
  \E m \in Machine :
    \/ \E p \in Machine : LinkUp(m, p) \/ LinkDown(m, p) \/ Redirect(m, p)
    \/ Restart(m)

Spec == Init /\ [][Next]_vars
=============================================================================
