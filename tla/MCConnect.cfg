CONSTANTS
  Machine = {a, b}
  Session = {c1, c2}
  MaxQueue = 1
  MaxCrash = 1
  Movers = {}
  Dialers = {a, b}
  Fresh = {a, b}
  Hangups = {}
  Forgetters = {b}
  Lossy = {a, b}
  Placeable = {}
  OneUser = FALSE
SPECIFICATION Spec
SYMMETRY SessionSymmetry
CHECK_DEADLOCK FALSE
INVARIANTS
  TypeOK
  SessionsAgree
  TasksOwnLinks
  PendingHasWaiter
