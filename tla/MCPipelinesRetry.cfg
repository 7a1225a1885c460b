SPECIFICATION MCSpec
CONSTANTS
  Kinds <- MCKinds
  Ids = 2
  ChangedPage = 1
  MaxPagesRead = 2
  MaxChangedIds = 1
  MaxShards = 3
  MaxRequests = 2
  DayAttempts = 2
  MaxMoves = 1
  Stage = 2
  Reusable = {1}
  MaxAttempts = 2
  Sources = 2
  Budgets = {1, 2}
  Bounds = {1, 2}
  Attempts = 2
  Fires = 2
  MaxObservations = 2
  MaxTries = 2
  MaxRuns = 2
PROPERTY RetryRunsAgain
