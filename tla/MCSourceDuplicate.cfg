SPECIFICATION DuplicateSpec
CONSTANTS
  NoRun = NoRun
  Writers = {"a", "b"}
  Runs = {"r1", "r2"}
  RunOf <- MCRunOf
  Mode <- MCMode
  Keys <- MCKeys
  TableOrder <- MCTableOrder
  IdentityTables = {}
  RunScoped = {"record"}
  RunTable = "run"
  StaleAppend = {"lands"}
  Contents <- SilverContents
  Jobs = {1, 2}
  Plans <- SilverPlans
  Upgrades <- SilverUpgrades
  GroupSize = 2
  Workers = 2
INVARIANT OneMarkerPerRun
CHECK_DEADLOCK FALSE
