SPECIFICATION Spec
CONSTANTS
  Procs = {p1, p2}
  Mixes = {{"login", "verify", "setup", "enableTotp", "rotate"},
           {"login", "verify", "setup", "enableTotp", "disable"},
           {"setup", "enableTotp", "enableEmail", "disable", "mail"},
           {"setup", "enableTotp", "rotate", "disable"}}
  MaxSecrets = 1
  MaxBatches = 2
  MaxTemps = 1
  MaxDeaths = 1
SYMMETRY Symmetry
INVARIANTS
  TypeOK
  SpentGrantsNothing
  EnabledHasCodes
PROPERTIES
  SettingsKept
CHECK_DEADLOCK FALSE
