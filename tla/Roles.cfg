SPECIFICATION FairSpec
CONSTANTS
  Req = {r1, r2}
  Svc = {s1, s2}
  User = {u1}
  NRoles = 2
  NPerms = 2
  Matrix <- MCMatrix
  MaxChanges = 2
  MaxFailures = 1
  Null = Null
INVARIANTS
  TypeOK
  CacheCoherent
  SeedComplete
PROPERTIES
  CacheSettles
