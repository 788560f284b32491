CONSTANTS
  GroupGap = 4
  Reach = 3
  MaxBefore = 1
  MaxSaid <- MCMaxSaid
SPECIFICATION SpeechSpec
CHECK_DEADLOCK FALSE
INVARIANT FirstDispatchExtracted
PROPERTY LaterSpeechIgnored
