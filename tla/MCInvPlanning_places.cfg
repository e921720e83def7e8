SPECIFICATION PlanningSpec
CONSTANTS
    d1 = d1
    d2 = d2
    p1 = p1
    p2 = p2
    r1 = r1
    r2 = r2
    l1 = l1
    l2 = l2
    l3 = l3
    Person = person
    Depots = {d1, d2}
    Projects = {p1, p2}
    Requests = {r1, r2}
    RequestSites <- ProjectAndPerson
    LineOrder <- OneLineEach
    LineOf <- LinesToRequests
    Asked <- TwoThenOne
    Stock <- TwoInFirst
    Windows <- EarlyAndLate
    FirstWindow <- BothEarly
    MaxTime = 3
    MaxMove = 2
    MaxCalls = 4
INVARIANTS PlanningTypeOK RowsAgree StatusTrue
PROPERTIES ReservationsFit NothingDisplaced
CHECK_DEADLOCK FALSE
