SPECIFICATION Spec
CONSTANTS
  Users = {u1}
  NoUser = NoUser
  Procs = {p1, p2}
  Ops = {"signIn", "restore", "refresh", "logout", "logoutAll", "deleteAccount"}
  MaxActive = 1
  TTL = 0
  MaxTime = 1
  MaxSessions = 3
  MaxTokens = 3
SYMMETRY Symmetry
INVARIANTS
  TypeOK
  Lineage
  EndedMintsNothing
PROPERTIES
  ImplementsLedger
CHECK_DEADLOCK FALSE
