SPECIFICATION FairSpec
CONSTANTS
  Procs = {p1, p2}
  Ops = {"generate"}
  MaxTries = 1
  MaxHourly = 1
  Expiring = {"code", "attempts", "cooldown", "hourly", "suspend", "row"}
  MaxDeaths = 1
  MaxCodes = 3
INVARIANTS
  HourlyOvershoot
PROPERTIES
  SuspensionEnds
CHECK_DEADLOCK FALSE
