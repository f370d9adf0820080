SPECIFICATION Spec
CONSTANTS
  Procs = {p1, p2}
  Passwords = {a, b, c, weak}
  Weak = weak
  None = None
  Profile <- Profiles
  Mixes <- Workloads
  HistoryLimit = 2
  MaxDaily = 1
  MaxTokens = 4
  MaxDeaths = 1
SYMMETRY Symmetry
INVARIANTS
  TypeOK
  EndedTokenSetsNothing
  MailsBounded
PROPERTIES
  NoRecentReuse
CHECK_DEADLOCK FALSE
