SPECIFICATION Spec
CONSTANTS
  a = a
  b = b
  c1 = c1
  c2 = c2
  c3 = c3
  Replicas <- MCReplicas
  Admins <- MCAdmins
  Drafts = {d1, d2}
  None = None
  Calls <- MCCalls
  Scenarios <- MCApproving
INVARIANT OnlyActivatedDraftsRun
CHECK_DEADLOCK FALSE
