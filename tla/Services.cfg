SPECIFICATION ServicesSpec
CONSTANTS
  Callers = {c1, c2, c3}
  Caveats = {0, 1, 2}
  TTL = 1
  MaxClock = 3
  Attempts = {a1, a2, a3, a4}
  Cents = {2}
  Limits <- MCVelocityLimits
  MaxTime = 3
  TaskCalls = {t1, t2}
  TaskTools = {read, pay}
  BindConfig <- MCBindConfig
  MaxClears = 1
  Pollers = {p1, p2}
  MaxIssued = 3
  MaxPollerStops = 1
  Shared = shared
  Decisions <- MCDecisions
  Reports = {e1, e2}
  RollupInterval = 1
  HardCap = 1
  MaxFedTime = 3
  Keepers = {k1, k2}
  CredTools = {"pay", "read"}
  Secrets = {"", "x"}
  Seed <- MCSeed
  Edits = {d1, d2}
  MaxKeeperStops = 1
  Fold <- MCFold
  Inside <- MCInside
  MarkerRank <- MCMarkerRank
  FileSets <- MCFileSets
  Exports <- MCExports
  Touches <- MCTouches
  MaxSyncs = 3
  Grants <- MCGrants
  GrantRequests <- MCGrantRequests
  MaxPublished = 3
  MaxBreaks = 1
  MaxGrantTime = 2
  IGCalls = {i1, i2}
  Configs <- MCConfigs
  MaxBoots = 3
INVARIANTS BudgetPerWindow OvershootOnlyByRacing StopReachesSwitch NoWindowGap ReloadSettles LastGoodSetTrips PermitsWithinPublished OutcomesTellTheTruth TaskKeptUnlessRaced EnabledMeansEnforced AcknowledgedStopsSurvive ServesAgain
CHECK_DEADLOCK FALSE
