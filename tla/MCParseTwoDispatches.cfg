CONSTANTS
  GroupGap = 4
  Reach = 3
  MaxBefore = 0
  MaxSaid <- MCMaxSaid
SPECIFICATION SpeechSpec
CHECK_DEADLOCK FALSE
INVARIANT NeverCombined
