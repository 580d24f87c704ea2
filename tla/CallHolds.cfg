SPECIFICATION HoldsSpec
CONSTANTS
  Tools = {tool1}
  Calls = {c1, c2, c3}
  MaxConcurrentPerTool = 2
  FailureThreshold = 2
  Cooldown = 1
  Replies = {"ok", "5xx"}
  Replicas = {r1}
  Ids = {i1, i2}
  Faults = TRUE
  MaxCrashes = 1
  HeldIds = {h1}
  Agents = {a1, a2}
  HeldTools = {t1}
  MaxRuns = 2
INVARIANTS HalfOpenAttended AckedVerdictStands RunsWhatWasApproved
PROPERTIES ImplementsSemaphore HalfOpenResolves ImplementsQueue DecidedCallEnds
CHECK_DEADLOCK FALSE
