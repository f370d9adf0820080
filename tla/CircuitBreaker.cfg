SPECIFICATION FairSpec
CONSTANTS
  Procs = {p1, p2, p3}
  Threshold = 3
  Cooldown = 1
  MaxAttempts = 3
INVARIANTS
  TypeOK
  StatusMatchesCount
PROPERTIES
  Recovers
