\* A request interrupted by the deadline fails afterwards with a typed error.
CONSTANTS
    c1 = c1
    Cases = {c1}
    Stubborn = {c1}
    MaxConcurrency = 1
    ExpectedSteps = 1
    MaxAttempts = 1
    HasLimiter = FALSE
    HasQuality = FALSE
    OwnsAdapter = TRUE
    RetrySafe = FALSE
SPECIFICATION Spec
PROPERTIES
    InterruptedAttemptStands
CHECK_DEADLOCK FALSE
