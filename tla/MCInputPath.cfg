CONSTANTS
  Scenes <- MCScenes
  WheelTurns <- MCTurns
  Notch = 120
  LinesPerNotch = {3}
  PerLine = 1000
  Limit = 2147483647
  Width = 1
  Rate = 1
  Burst = 4
  MaxCaptured = 2
SPECIFICATION Spec
CHECK_DEADLOCK FALSE
INVARIANTS
  TypedAsMeant
  KeysBalance
  ActsOnce
  WithinRate
  WheelExact
  ClickLands
  ClickPairs
