SPECIFICATION Spec
CONSTANTS
  Peer = {p1}
  Call = {c1}
  MaxEvents = 3
  MaxInbox = 1
CHECK_DEADLOCK FALSE
PROPERTIES
  StopFreesPort
