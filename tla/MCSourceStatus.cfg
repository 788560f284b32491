CONSTANTS
  PollInterval = 2
  PollJitter = 1
  PollTimeout = 1
  ApplyTime = 1
  FailureStep = 1
  RefusedStep = 2
  BackoffCap = 2
  FrozenRepeatCount = 3
  DegradedAfter = 8
  DownAfter = 9
  DownFailures = 2
  FrozenDownAfter = 9
  Horizon = 20
SPECIFICATION StatusSpec
INVARIANTS
  StatusTypeOK
  LiveReportedOk
  FrozenReportedDown
