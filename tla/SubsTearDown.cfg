CONSTANTS
    Sessions = {s1, s2}
    Uris = {u1}
    MaxSubs = 1
    Sweeper = sweeper
    NoUri = none
SPECIFICATION SubsSpec
PROPERTY NoTearDown
