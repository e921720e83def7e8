CONSTANTS
    i1 = i1
    i2 = i2
    p1 = p1
    p2 = p2
    e1 = e1
    Sessions = {1, 2}
    Keys <- MCKeys
    Items <- MCItems
    Requests <- MCRequests
    Calls <- MCCalls
    ItemOf <- MCItemOf
    EmployeeRequest <- MCEmployee
    ProjectOf <- MCProjectOf
    Asked <- MCAsked
    Stock <- MCStock
    Rank <- MCRank
    MaxStarts = 4
SPECIFICATION FairSpec
INVARIANTS
    TypeOK
    PromisesOnShelf
    StatusFollowsGoods
PROPERTIES
    OnlyLiveRequestsServed
    MovesOnce
    RetryIsAnswered
    EveryCallEnds
CHECK_DEADLOCK FALSE
