CONSTANTS
  Transcript = {1, 2}
  Address = {"street"}
  GatePasses = {1, 2}
  AddressOf <- MCAddressOf
  w1 = w1
  w2 = w2
  Worker = {w1, w2}
  MaxAge = 1
  MaxAttempts = 2
  FailedTTL = 1
  ActiveWindow = 1
  MaxClock = 2
  MaxFaults = 1
  GroupGap = 4
  Reach = 3
SPECIFICATION FairDispatchSpec
CHECK_DEADLOCK FALSE
INVARIANTS
  DispatchTypeOK
  PromotedOnce
  LostForCause
  RefusalIsFresh
PROPERTIES
  ClearedStaysCleared
  EventuallyParsed
