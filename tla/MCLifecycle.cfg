CONSTANTS
  Incident = {i1, i2}
  Content = {v1}
  Absent = Absent
  ClearAfterMisses = 2
  MaxPolls = 5
  MaxFaults = 1
SPECIFICATION Spec
SYMMETRY Symmetry
CHECK_DEADLOCK FALSE
INVARIANTS
  ClearedAfterMisses
  ClearedInTime
  PublishedPollApplied
  TimelineOrdered
  TimelineMatchesRow
PROPERTIES
  PublishedClearsAreLogged
  ImplementsPromise
