CONSTANTS
  File = {1, 2, 3}
  u1 = u1
  u2 = u2
  Uploader = {u1, u2}
  WavOf <- MCWavOf
  Refused = {2}
  BatchSize = 2
  MaxFaults = 1
SPECIFICATION FairUploadSpec
INVARIANTS
  UploadTypeOK
  RecordedIsStored
  GivenUpForCause
PROPERTY
  EventuallyDelivered
