SPECIFICATION Spec
CONSTANTS
  Procs = {p1, p2}
  Ops = {"generate", "verify"}
  MaxTries = 2
  MaxHourly = 3
  Expiring = {"code", "cooldown"}
  MaxDeaths = 0
  MaxCodes = 2
SYMMETRY Symmetry
INVARIANTS
  TypeOK
  ReuseNeedsOverlap
PROPERTIES
  NoEarlyInvalidation
CHECK_DEADLOCK FALSE
