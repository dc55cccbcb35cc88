CONSTANTS
    Callers = {c1, c2}
    MaxVersion = 1
    MaxGen = 2
    NoData = nodata
    Keys = {k1, k2, k3}
    Vals = {v1, v2}
    None = none
    Max = 1
    Requests = {r1, r2}
    Shapes <- MCShapes
    Buckets <- MCBuckets
    HealthTtl = 1
    SnapCap = 2
    Nobody = nobody
    Fetchers = {f1, f2, f3}
    TokenLife = 2
    Redeemers = {1, 2, 3}
    Endpoint <- MCEndpoint
    Lifetime = 3
    Leeway = 1
SPECIFICATION MCSpec
INVARIANTS MCFresh MCSingleFlight RefusedOnce HealthOfOwnWorld RedeemedOnce
PROPERTIES InUseSurvives ImplementsLossyMap MCAnswered
