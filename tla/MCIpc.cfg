CONSTANTS
  Watchers = {w, v}
  Stoppers = {s}
  Idlers = {i}
  Stuck = {v}
  MaxChange = 2
SPECIFICATION FairSpec
CHECK_DEADLOCK FALSE
PROPERTIES
  DaemonExits
  PushedInTheEnd
