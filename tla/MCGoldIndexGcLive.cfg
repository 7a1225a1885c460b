SPECIFICATION LiveSpec
CONSTANTS
  old = old
  active = active
  shadow = shadow
  promote = promote
  rollback = rollback
  gc = gc
  cleanup = cleanup
  drill = drill
  compact = compact
  Index = {old, active, shadow}
  First = old
  Promoter = {promote}
  Target <- OneTarget
  Expected <- OneExpected
  Old = old
  Active = active
  Archiver = {gc, cleanup}
  Reusing = {cleanup}
  Targets <- MCTargets
  Drill = {}
  Compactor = {compact}
  CloneIsSafe = {TRUE, FALSE}
  MaxMade = 9
  MaxDeaths = 2
  SnapshotEnd = {"SUCCESS"}
  LaunchRace = FALSE
  QuietDelete = TRUE
PROPERTIES CompactionCompletes
