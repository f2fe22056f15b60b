CONSTANTS
  a = a
  b = b
  x = x
  y = y
  z = z
  Machine = {a, b}
  Payload = {x, y, z}
  Owner <- Copier
  TooBig = {z}
  Nothing = nothing
  Client = {k}
  Toggles = 2
  Startup = {a, b}
  Busy = {b}
SPECIFICATION Spec
CHECK_DEADLOCK FALSE
INVARIANTS
  OnlyValidTravels
  NoCopySwallowed
