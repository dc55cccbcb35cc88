CONSTANTS
    Objs = {1, 2, 3}
    Sess = {s1, s2}
    Reqs = {r1, r2}
    Shared = shared
    ClientKeys = {c}
    RequestTimeout = 2
    IdleTimeout = 0
    None = none
    Ids <- MCIds
    Cfgs = {1, 2}
    Bases <- MCBases
    Docs <- MCDocs
    Malformed = malformed
    Down = down
    N = 3
    MaxCandidates = 2
    Callers = {c1, c2}
SPECIFICATION MCSpec
INVARIANTS ServesMerged Accounted
PROPERTIES SparesCalls Converges MCLiveEndpointReached
