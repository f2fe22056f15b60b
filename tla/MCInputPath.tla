----------------------------- MODULE MCInputPath ------------------------------
(* The keys, and the scenes: each system captures and each injects, keys, a  *)
(* wheel, and movements with clicks.                                         *)
EXTENDS InputPath

Meta(side) == [side |-> side, name |-> "Meta"]
A == Plain("A")

Scene(from, to, doing, keys, swapped, acts, bad, time, queued) ==
  [from |-> from, to |-> to, doing |-> doing, keys |-> keys, swap |-> swapped,
   strokes |-> acts, mishaps |-> bad, seconds |-> time, queue |-> queued]

KeyScenes ==
  {Scene("Linux",   "Windows", "keyboard", {Meta("left"), A}, "None", 4, 1, 0, 1),
   Scene("Windows", "Mac", "keyboard", {Meta("left"), KeypadEnter},
         "MetaAndControl", 4, 1, 0, 2),
   Scene("Mac",     "Linux",   "keyboard", {Meta("left"), A, CapsLock}, "None", 4, 1, 0, 1),
   Scene("Mac",     "Windows", "keyboard", {Meta("left"), A, CapsLock}, "None", 4, 1, 0, 1),
   Scene("Linux",   "Linux",   "keyboard", {Meta("left"), Meta("right")}, "None", 4, 0, 0, 1),
   Scene("Windows", "Mac",     "keyboard", {A}, "None", 5, 0, 0, 2),
   Scene("Windows", "Linux",   "wheel",    {}, "None", 6, 0, 1, 1),
   Scene("Mac",     "Windows", "wheel",    {}, "None", 4, 1, 1, 2),
   Scene("Linux",   "Mac",     "wheel",    {}, "None", 3, 1, 1, 2)}

ClickScenes ==
  {Scene("Windows", "Mac",     "pointer",  {}, "None", 5, 0, 0, 3),
   Scene("Linux",   "Mac",     "pointer",  {}, "None", 4, 0, 0, 3),
   Scene("Mac",     "Linux",   "pointer",  {}, "None", 6, 0, 0, 2)}

MCScenes == KeyScenes \cup ClickScenes

MCTurns == {-60, 119}
ASSUME MCTurnsFit == WheelFits(119000)
===============================================================================
