SPECIFICATION MCSpec
CONSTANTS
  NoRun = NoRun
  Writers = {"a", "b", "c"}
  Runs = {"r1", "r2"}
  RunOf <- MCRunOf
  Mode <- MCMode
  Keys <- MCKeys
  TableOrder <- MCTableOrder
  IdentityTables = {}
  RunScoped = {"record"}
  RunTable = "run"
  StaleAppend = {"lands", "raises"}
  Contents <- SilverContents
  Jobs = {1, 2}
  Plans <- SilverPlans
  Upgrades <- SilverUpgrades
  GroupSize = 2
  Workers = 2
INVARIANTS OneMarkerPerRun MarkerPinsExactRows CommittedIsRecordSet CheckpointsAreWhole
PROPERTIES RefinesAtomicRuns ResumedRunCommits
CHECK_DEADLOCK FALSE
