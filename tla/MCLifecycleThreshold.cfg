CONSTANTS
  Incident = {i1}
  Content = {v1}
  Absent = Absent
  ClearAfterMisses = 5
  MaxPolls = 7
  MaxFaults = 0
SPECIFICATION Spec
CHECK_DEADLOCK FALSE
INVARIANT
  ClearedAtThreshold
