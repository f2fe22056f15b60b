CONSTANTS
  f1 = f1
  f2 = f2
  h1 = h1
  h2 = h2
  Certificate = {f1, f2}
  Host = {h1, h2}
  TypedPrefix = {{f1}, {f1, f2}}
  Legacy <- Files
  Torn = torn
  MaxOpen = 1
  DiskFails = TRUE
SPECIFICATION Spec
CHECK_DEADLOCK FALSE
INVARIANTS
  OnePinPerHost
  NewestPinCounts
  ForgottenStaysForgotten
  NoUninvitedSession
