CONSTANTS
    Parts = {"guard", "fleet", "limiter", "budget", "keys"}
    Threshold = 2
    HalfOpenAfter = 1
    FailureCap = 3
    Callers = {c1, c2}
    Limit <- Scarce
    Instances = {i1, i2, i3}
    FleetThreshold = 2
    Cooldown = 2
    FailsCap = 2
    Window = 4
    Rpm = 3
    Period = 3
    Slack = 1
    Skew = 1
    Allowance = 1
    Gateways = {g1, g2}
    TimeCap = 6
    Keys = {k1, k2}
    NoKid = nokid
    Verifiers = {v1, v2}
    JwksTtl = 3
    Holdoff = 2
    FetchMax = 1
SPECIFICATION MCSpec
INVARIANTS BreakerSound SlotHasHolder BilledInOrder OneProbe LimitsHold WithdrawnStops
PROPERTIES MCRecovers FetchesSpaced
