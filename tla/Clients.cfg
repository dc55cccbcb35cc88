CONSTANTS
    SessionIds = {i1}
    Pollers = {h1, h2}
    MaxSessions = 1
    Sessions = {1, 2}
    Uris = {1, 2, 3}
    MaxSubs = 2
    Sweeper = sweeper
    NoUri = nouri
SPECIFICATION MCSpec
INVARIANTS ProcessesSound ShutdownReaps CountInStep WantedIsHeld
PROPERTIES HealthAnswers GoneAreReaped
CHECK_DEADLOCK FALSE
