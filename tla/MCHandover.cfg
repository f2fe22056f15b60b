CONSTANTS
  Machine = {a, b}
  Session = {c1, c2}
  MaxQueue = 1
  MaxCrash = 1
  Movers = {a, b}
  Dialers = {a}
  Fresh = {}
  Hangups = {a}
  Forgetters = {}
  Lossy = {b}
  Placeable = {}
  OneUser = TRUE
SPECIFICATION FairSpec
CHECK_DEADLOCK FALSE
INVARIANTS
  InputFollowsCursor
PROPERTIES
  HalfOpenEnds
  DisconnectEnds
