SPECIFICATION Spec
CONSTANTS
  old = old
  active = active
  shadow = shadow
  promote = promote
  rollback = rollback
  gc = gc
  cleanup = cleanup
  drill = drill
  compact = compact
  Index = {old, active, shadow}
  First = old
  Promoter = {promote, rollback}
  Target <- MCTarget
  Expected <- MCExpected
  Old = old
  Active = active
  Archiver = {gc, cleanup}
  Reusing = {cleanup}
  Targets <- MCTargets
  Drill = {drill}
  Compactor = {compact}
  CloneIsSafe = {TRUE, FALSE}
  MaxMade = 3
  MaxDeaths = 1
  SnapshotEnd = {"SUCCESS", "FAILED"}
  LaunchRace = FALSE
  QuietDelete = TRUE
INVARIANTS  ArchiveHolds
PROPERTIES FallbackCleansUp
