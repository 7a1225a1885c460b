SPECIFICATION DecisionsSpec
CONSTANTS
  NoRun = NoRun
  Writers = {"f", "i", "i2", "c", "s", "s2"}
  Runs = {"full", "inc", "cur", "src", "src2"}
  RunOf <- MCRunOf
  Mode <- MCMode
  Keys <- MCKeys
  TableOrder <- MCTableOrder
  IdentityTables = {"ledger", "member"}
  RunScoped = {}
  RunTable = "run"
  StaleAppend = {"lands", "raises"}
  Operators = {"o1", "o2"}
  MaxRefs = 1
PROPERTY ActiveIsKept
CHECK_DEADLOCK FALSE
