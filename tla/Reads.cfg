SPECIFICATION MCSpec
CONSTANTS
    s1 = s1  s2 = s2  u1 = u1  u2 = u2  x1 = x1
    Spots = {s1, s2}
    Owner <- MCOwner
    Starts <- MCStarts
    Ends <- MCEnds
    Users = {u1, u2}
    UserLimit = 1
    Trans = {x1}
    SpotOf <- MCSpotOf
    Capacity = 1
    Tasks = {t1}
    Background = bg
    Overlap = FALSE
    MaxTime = 2
    MaxNames = 1
    NumSpots = 2
    MaxPerRun = 1
    RetryAfter = 1
    LastTime = 3
INVARIANTS SerialReadsAgree IndexHolds AnnouncedOnce
PROPERTY CursorIsExact
CHECK_DEADLOCK FALSE
