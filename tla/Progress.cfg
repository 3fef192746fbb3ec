SPECIFICATION ProgressSpec
CONSTANTS
    c1 = c1  c2 = c2  c3 = c3  a1 = a1  r1 = r1  r2 = r2  w1 = w1
    u1 = u1  u2 = u2  o = o  s1 = s1  k1 = k1  NoCode = NoCode  deposit = deposit
PROPERTIES PayoutsFinish RecordsCleanedUp AttemptsDecided ActiveTakenUp
CHECK_DEADLOCK FALSE
