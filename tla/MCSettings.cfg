CONSTANTS
  Setting = {edge, clip}
  Value = {off, on}
  Default = off
  Client = {k}
  MaxChange = 4
  MaxCrash = 2
  DiskFails = TRUE
SPECIFICATION Spec
SYMMETRY Symmetry
CHECK_DEADLOCK FALSE
INVARIANTS
  KeptOnceConfirmed
