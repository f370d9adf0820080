SPECIFICATION FairSpec
CONSTANTS
  Procs = {p1, p2}
  Mixes = {{"login", "guess", "verifyEmail", "reset"},
           {"login", "guess", "verifyEmail", "delete"},
           {"login", "verifyEmail", "delete", "restore"},
           {"login", "mfa", "verifyEmail", "delete", "reset"}}
  First = 2
  Second = 3
  ShortLock = 1
  LongLock = 2
  Grace = 0
INVARIANTS
  TypeOK
  NoOrphanLock
  NoSessionAfterDelete
PROPERTIES
  VerificationKept
  NoBlindUnlock
  PurgeOnlyExpired
  LockoutEnds
