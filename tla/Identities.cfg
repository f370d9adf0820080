SPECIFICATION Spec
CONSTANTS
  Procs = {p1, p2}
  Mixes <- Workloads
  Emails = {a, b}
  NoEmail = NoEmail
  a = a
  b = b
  n = n
  Identities <- People
  Mocks <- Coded
  Prefix <- Short
  Names = {n}
  Discloses <- Accounts
  MaxUsers = 2
  MaxFlows = 2
  MaxDeaths = 1
SYMMETRY Symmetry
INVARIANTS
  TypeOK
  StateServesOnce
  LinksAgree
PROPERTIES
  UnlinkLeavesAWayIn
CHECK_DEADLOCK FALSE
