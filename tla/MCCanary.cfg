CONSTANTS
  Response <- MCResponse
  Baselines = {0, 1}
  Threshold = 3
  None = None
  MaxChecks = 4
SPECIFICATION CanarySpec
INVARIANTS
  CanaryTypeOK
  ZeroStreakFails
