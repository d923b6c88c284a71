\* Two cases that compete for one permit, both with callbacks that may ignore
\* cancellation.  One step and two attempts per case.
CONSTANTS
    c1 = c1
    c2 = c2
    Cases = {c1, c2}
    Stubborn = {c1, c2}
    MaxConcurrency = 1
    ExpectedSteps = 1
    MaxAttempts = 2
    HasLimiter = FALSE
    HasQuality = FALSE
    OwnsAdapter = TRUE
    RetrySafe = TRUE
SPECIFICATION Spec
SYMMETRY Symmetry
INVARIANTS
    TypeOK
    PermitAccounting
    BoundedWork
    LeakIsReported
    OutstandingIsUnknown
PROPERTIES
    CancelWins
    ImplementsVerdict
CHECK_DEADLOCK FALSE
