CONSTANTS
  e1 = e1
  m2 = m2
  enRoute = enRoute
  onScene = onScene
  UnitName = {e1, m2}
  UnitStatus = {enRoute, onScene}
  UnitLists <- Listings
  MaxUpserts = 5
  MaxBackfills = 1
SPECIFICATION UnitSpec
CHECK_DEADLOCK FALSE
INVARIANTS
  UnitTypeOK
  HistoryIsRuns
  DeltasReplay
  LatestIntervalIsCurrent
