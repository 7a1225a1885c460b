SPECIFICATION MCSpec
CONSTANTS
  Syncs = {"a", "b"}
  Editions = 2
  Ranges = 2
  RangeAttempts = 2
  WeakValidator = TRUE
  LastCapture = 2
  Partitions = 2
  Shards = 2
  Workers = 2
  LastSet = 2
  Pages = 3
  Listings <- MCListings
  MaxPages = 2
  MaxRecords = 3
  ShardRecords = 2
  Revisions = 2
  Assertions <- MCAssertions
  ShardOf <- MCShardOf
  PageSize = 1
  Late = {3}
  Lookups = {"l1", "l2"}
  Research = "l1"
  BatchSize = 2
  MaxIds = 3
  MaxBatches = 2
  Attempts = 2
  Shows = 3
  ShowsOnPage = 1
  MaxUpdates = 1
  MaxIndexPages = 3
  ApiAttempts = 2
  MaxShowChanges = 1
  Commands = 3
  Dumps <- MCDumps
  Seeds <- MCSeeds
  Runs = 2
  Images = {"i", "j"}
  MaxClosure = 3
  TargetBytes = 2
  MaxBytes = 5
  ShardsPerPartition = 2
  PartitionsPerEpoch = 1
  MaxEpochs = 2
INVARIANTS
  PublishedIsOfficial ResultsAgree SyncsCleanUp
  RecordSetIsWhole
  ChainHasNoGap PagesCommittedOnce
PROPERTIES CommandsEnd
\* Every command returns in the end, or dies.
CHECK_DEADLOCK FALSE
