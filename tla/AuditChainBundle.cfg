SPECIFICATION Spec
CONSTANTS
  Workers = {w1}
  Events = {e1, e2}
  EventTenants = {"acme"}
  Times = {1}
  Bundles = {"", "b1"}
INVARIANT UntouchedLogVerifies
CHECK_DEADLOCK FALSE
