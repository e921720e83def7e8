SPECIFICATION Spec
CONSTANTS
    Countries = {"AE", "SA", "PL"}
    Hire <- MidOctober
    Days <- MCDays
    Exits = {24}
    Versions <- MCVersions
    Openings = {4}
    Taken = {8}
    Corrections = {3}
    MaxBalance = 30
    MinService <- MCService
    MaxRows = 3
    MaxOpen = 2
INVARIANTS LeaveSound
PROPERTIES OvergrantOnlyByOverlap TrueUpExact GrantedInTime
CHECK_DEADLOCK FALSE
