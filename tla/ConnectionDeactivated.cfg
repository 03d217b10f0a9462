SPECIFICATION Spec
CONSTANTS
  Parts = {"connections"}
  Tenants = {t1, t2}
  Providers = {p1}
  Checks = {k1, k2}
  Events = {e1}
  Templates <- MCTemplates
  ChannelLists <- MCChannelLists
  MaxAttempts = 2
  MaxWorkers = 2
  MaxEventCalls = 3
  MaxJobs = 3
  MaxRetries = 1
  MaxArtifacts = 1
  MaxImports = 2
  MaxCrashes = 1
  MaxByHand = 1
CHECK_DEADLOCK FALSE
INVARIANTS
  DeactivationHolds
