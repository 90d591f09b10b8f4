CONSTANTS
    Requests <- MCFollowUps
    FollowUps <- MCFollowUps
    MaxRequests = 1
    Statuses = {0, 3}
    ULLONG_MAX = 21
SPECIFICATION Spec
INVARIANTS
    UrlExact
CHECK_DEADLOCK FALSE
