SPECIFICATION WindowsSpec
CONSTANTS
  WindowLength = 3
  RestGap = 1
  AlertWork = 3
  ZeroMax = 1
  HalfMax = 2
  RestZeroBelow = 1
  RestHalfMax = 2
  DayLength = 2
  RestDates = {0}
  MaxNow = 4
  MaxSessions = 2
  MaxEdits = 3
  MayOverlap = TRUE
PROPERTIES
  PostedIsEarned
  StrandedOnlyByOverlap
  DifferenceInLine
  EarnedIsRequested
CHECK_DEADLOCK FALSE
