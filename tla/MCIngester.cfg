CONSTANTS
  i1 = i1
  i2 = i2
  v1 = v1
  v2 = v2
  busy = busy
  collapsed = collapsed
  empty = empty
  Incident = {i1, i2}
  Content = {v1, v2}
  Absent = Absent
  ClearAfterMisses = 2
  MaxPolls = 4
  MaxFaults = 1
  Payload <- MCPayload
  NoPayload = NoPayload
  FeatureCount <- MCFeatureCount
  Incidents <- MCIncidents
  FrozenRepeatCount = 3
  SuddenCollapsePercent = 80
  MaxResults = 4
  MaxRestarts = 1
SPECIFICATION IngesterSpec
CHECK_DEADLOCK FALSE
INVARIANTS
  ClientTypeOK
  MemoryIsTheRun
  FrozenFromThresholdOn
  CollapseIsConfirmed
  FrozenBeforePublished
  RowsComeFromSnapshots
PROPERTIES
  FrozenFeedClearsNothing
