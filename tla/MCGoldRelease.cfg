SPECIFICATION MCSpec
CONSTANTS
  NoRun = NoRun
  Builders = {"a", "b", "c"}
  Plans = {"p1", "p2"}
  PlanOf <- MCPlanOf
  Keys <- MCKeys
  TableOrder <- MCTableOrder
  Admitted = {"a", "b", "c"}
  StaleAppend = {"lands", "raises"}
  Sources = {"s1", "s2", "s3", "s4"}
  Generations = {"g1", "g2"}
  Uris = {"u0", "u1", "u2", "as", "ae", "bs", "be"}
  Actors = {"a", "b"}
  Builds = {"a", "b"}
  SnapshotUri <- MCSnapshotUri
  EpochUri <- MCEpochUri
  Tmdb = {"s3"}
  Approved <- MCApproved
  KnownSources <- MCKnownSources
  MaxCommands = 2
INVARIANTS CommitPinsExactRows ManifestsAreWhole ReleaseIsResolved
PROPERTIES ReleasesAreAtomic MixedAttemptsStayHidden
CHECK_DEADLOCK FALSE
