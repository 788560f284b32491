CONSTANTS
  Incident = {i1}
  Content = {v1}
  Absent = Absent
  ClearAfterMisses = 2
  MaxPolls = 5
  MaxFaults = 1
SPECIFICATION Spec
CHECK_DEADLOCK FALSE
INVARIANT
  ClearsAreLogged
