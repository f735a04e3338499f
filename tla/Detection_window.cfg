SPECIFICATION Spec
CONSTANTS
  admin = admin
  Admin = Admin
  ip1 = ip1
  Null = Null
  Blank = Blank
  Kinds <- FiveKinds
  Folded <- IgnoringCase
  Window = 1
  Threshold = 3
  MaxTime = 3
  MaxEvents = 3
INVARIANTS
  WithinTenMinutes
CHECK_DEADLOCK FALSE
