SPECIFICATION MCSpec
CONSTANTS
    u1 = u1  u2 = u2  u3 = u3  o = o  x1 = x1  x2 = x2  xo = xo
    coded = coded  timed = timed  quick = quick  k1 = k1  k2 = k2
    r1 = r1  r2 = r2  r3 = r3
    Users = {u1, u2, u3, o}
    WalletOf <- MCWalletOf
    Spots = {coded, timed, quick}
    OwnerOf <- MCOwnerOf
    Capacity <- MCCapacity
    PerUser <- MCPerUser
    Duration <- MCDuration
    CodesOf <- MCCodesOf
    NoCode = NoCode
    Hour = 2
    HourlyLimit = 2
    StaleAfter = 1
    Score = 2
    MaxClaims = 3
    MaxTime = 3
    LastClaimAt = 2
    TravelSpots <- MCSpots
    StartSpots <- MCSpots
    Timed = {"a"}
    Journey <- MCJourney
    SoftTime <- MCSoftTime
    HardTime <- MCHardTime
    Recent = 2
    Forging = FALSE
    Glitches = 1
    AwayHeartbeats = FALSE
    TravelTime = 7
    MaxVisits = 2
    Creators = {u1, u2}
    Requests = {r1, r2, r3}
    MaxDrafts = 1
    UserLimit = 2
    GlobalLimit = 2
    Window = 2
    Stale = 1
    DerivationSlots = 1
    MaxValue = 1
    MaxClock = 2
SYMMETRY MCSymmetry
INVARIANTS CodeSpentBySuccess ClaimRulesKept HonestNeverBanned
           KeysNeverReused DraftBudgetsKept
PROPERTY JourneysArePlausible
CHECK_DEADLOCK FALSE
