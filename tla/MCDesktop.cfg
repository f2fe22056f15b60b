CONSTANTS
  Machine = {a, b, d}
  Session = {c1, c2}
  MaxQueue = 1
  MaxCrash = 0
  Movers = {a}
  Dialers = {a}
  Fresh = {}
  Hangups = {a}
  Forgetters = {}
  Lossy = {}
  Placeable = {"Top"}
  OneUser = TRUE
SPECIFICATION Spec
SYMMETRY SessionSymmetry
CHECK_DEADLOCK FALSE
INVARIANTS
  DesktopAgrees
  InputNeverStranded
PROPERTIES
  ImplementsInputOwner
