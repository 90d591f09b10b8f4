CONSTANTS
    Requests <- MCRequests
    FollowUps <- MCFollowUps
    MaxRequests = 2
    Statuses = {0, 3}
    ULLONG_MAX = 21
SPECIFICATION Spec
INVARIANTS
    HeadExact
    BodyExact
    RestExact
PROPERTIES
    GoodIsServed
CHECK_DEADLOCK FALSE
