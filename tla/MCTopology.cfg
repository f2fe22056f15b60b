CONSTANTS
  Machine = {home, p, q}
  Home = home
  Screen <- Screens
  Hubs = {home}
  Linkable = {"Right", "Top"}
  MaxDelta = 3
  IntHalf = 128
SPECIFICATION Spec
CHECK_DEADLOCK FALSE
INVARIANTS
  CursorOnScreen
  ThereAndBack
  MovementNeverLost
