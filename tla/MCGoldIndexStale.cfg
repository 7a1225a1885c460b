SPECIFICATION MCSpec
CONSTANTS
  Runs = {1, 2, 3}
  Keys = {"k1", "k2", "k3"}
  BaseKeys = {"k1", "k2"}
  PartOf <- MCPartOf
  ResultUri <- MCResultUri
  Affected <- MCAffected
  LaunchAttempts = 2
  ValidateAttempts = 2
  LaunchRace = FALSE
  StaleReceipts = TRUE
  Flaws = {"projection", "plan", "release", "image", "memory", "endpoint", "uri", "deadline", "capacity"}
INVARIANT ResultIsRelease
CHECK_DEADLOCK FALSE
