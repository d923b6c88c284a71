\* Two cases of which one cooperates with cancellation and one does not.
CONSTANTS
    c1 = c1
    c2 = c2
    Cases = {c1, c2}
    Stubborn = {c1}
    MaxConcurrency = 1
    ExpectedSteps = 1
    MaxAttempts = 1
    HasLimiter = TRUE
    HasQuality = TRUE
    OwnsAdapter = TRUE
    RetrySafe = FALSE
SPECIFICATION FairSpec
PROPERTIES
    EveryCaseFinishes
CHECK_DEADLOCK FALSE
