SPECIFICATION Spec
CONSTANTS
  r1 = r1
  r2 = r2
  c1 = c1
  c2 = c2
  Requests = {r1, r2}
  Credits = {c1, c2}
  Start <- StartDays
  End <- EndDays
  Asked <- AskedDays
  Rules <- Funding
  Steps <- OneStep
  WorkDates <- RecordDays
  Amounts <- HalfDays
  Validity = 1
  LastDay = 2
  MaxRows = 3
  MaxRuns = 2
  InTime = TRUE
INVARIANTS TypeOK RowsBacked AvailableIsBalance
PROPERTIES OverdrawnOnlyBySweep SweepIsExact UnusedLapses
CHECK_DEADLOCK FALSE
