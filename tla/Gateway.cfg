SPECIFICATION GatewaySpec
CONSTANTS
  Procs = {p1, p2}
  Threshold = 1
  Cooldown = 0
  MaxAttempts = 2
  AccessTTL = 1
  Mixes <- Workloads
  MaxJobs = 2
  MaxTokens = 3
SYMMETRY Symmetry
INVARIANTS
  GatewayTypeOK
  ReplayHasCause
PROPERTIES
  AccessEnds
