CONSTANTS
  Incident = {i1}
  Content = {v1}
  Wanted = {v1}
  SdrIncident = {s1}
  Absent = Absent
  ClearAfterMisses = 2
  MaxPolls = 5
  MaxFaults = 1
SPECIFICATION FeedSpec
CHECK_DEADLOCK FALSE
INVARIANTS
  FeedTypeOK
  ListedUnlessOutlived
  ConfirmedForCause
  NotFoundWasNeverPublished
  DetailEventsCoverRow
