SPECIFICATION MCSpec
CONSTANTS
    a1 = a1  a2 = a2  r1 = r1  r2 = r2  r3 = r3
    d1 = d1  d2 = d2  x1 = x1  x2 = x2  x3 = x3  v1 = v1  v2 = v2
    Auths = {a1, a2}
    Requests = {r1, r2, r3}
    Suspicious = {r1, r2}
    TTL = 1
    Grace = 1
    Window = 1
    BurstMin = 2
    Hold = 2
    Recorder = "primary"
    RecordFails = TRUE
    Operator = TRUE
    Challenges = {a1, a2}
    Devices = {d1, d2}
    Wallets = {r1, r2}
    Verifiers = {v1, v2}
    Span = 2
    ChallengeTTL = 1
    ChallengeLimit = 1
    SourceLimit = 2
    VerifyLimit = 1
    VerifySourceLimit = 1
    UserLimit = 1
    Keys <- MCKeys
    Buckets = {1, 2}
    Limit = 2
    Lookups = {v1, v2}
    Ips = {d1, d2}
    Points = {x1, a1, a2}
    Blatant = {a1, a2}
    Histories = {0, 1, 2}
    TrustAge = 3
    NegativeCache = 2
    FailureRetry = 1
    Cooldown = 1
    SecondCooldown = 2
    UnknownRetry = 1
    LookupTime = 4
    Places = {x1, x2, x3}
    Networks = {d1, d2}
    Readings = {v1, v2}
    Flight <- MCFlight
    BadReadings = 2
    AnchorRefresh = 2
    Restriction = 2
    GpsTime = 4
    SwitchInOrder = TRUE
    Signers = {a1, a2, r3}
    Sources = {d1, d2}
    Observers = {v1, v2}
    Fundings = {1, 2}
    MinClaimants = 2
    MemberLimit = 2
    TightWindow = 0
    CacheTime = 1
    FailureTime = 1
    ObserveTime = 2
SYMMETRY MCSymmetry
INVARIANTS PayoutsAreScreened SessionsAreProven
           AdmissionBucketsHold OneBadReadingForgiven ClustersAreGrounded
PROPERTIES AuthorizationUsedOnce VerdictsStand
CHECK_DEADLOCK FALSE
