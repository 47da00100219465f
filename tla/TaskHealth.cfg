\* One ledger row under the sweep, which is retried and loses a night, while doers, staff,
\* modes and the world change.
SPECIFICATION HealthFairSpec
CONSTANTS
    Rows = {r1}
    GreenStreak = 2
    Threshold = 1
    MaxRefs = 2
    MaxTries = 2
    MaxFailures = 2
INVARIANT HealthInv
PROPERTY PageIsTried
CHECK_DEADLOCK FALSE
