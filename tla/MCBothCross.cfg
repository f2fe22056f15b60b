CONSTANTS
  Machine = {a, b}
  Session = {c1}
  MaxQueue = 2
  MaxCrash = 0
  Movers = {a, b}
  Dialers = {a}
  Fresh = {}
  Hangups = {}
  Forgetters = {}
  Lossy = {}
  Placeable = {}
  OneUser = FALSE
SPECIFICATION Spec
SYMMETRY SessionSymmetry
CHECK_DEADLOCK FALSE
INVARIANTS
  InputFollowsCursor
