SPECIFICATION Spec
CONSTANTS
  Procs = {p1}
  Mixes = {{"login", "guess", "verifyEmail", "reset"}}
  First = 2
  Second = 3
  ShortLock = 1
  LongLock = 2
  Grace = 0
INVARIANTS
  UnverifiedKeptOut
