SPECIFICATION Spec
CONSTANTS
  Users = {u1, u2}
  NoUser = NoUser
  Procs = {p1, p2}
  Ops = {"signIn", "logout", "changePassword", "revokeOne", "logoutAll"}
  MaxActive = 1
  TTL = 0
  MaxTime = 0
  MaxSessions = 3
  MaxTokens = 3
SYMMETRY Symmetry
INVARIANTS
  RevocationComplete
PROPERTIES
  OvershootNeedsOverlap
CHECK_DEADLOCK FALSE
