SPECIFICATION LimiterSpec
CONSTANTS
  IPs = {ip1}
  Callers = {c1, c2, c3}
  MaxAttempts = 2
  Window = 2
  MaxClock = 5
  MaxAllowed = 5
SYMMETRY MCSymmetry
INVARIANTS
  LimiterTypeOK
  WindowBound
PROPERTIES
  RefusedForReason
CHECK_DEADLOCK FALSE
