\* One trace of two possible owners, a person of one of the applications and
\* the machine token of both; the clock outlives the retention twice.
\* Beside them, three processes that open the database.
CONSTANTS
    a = a
    b = b
    clerk = clerk
    machine = machine
    s1 = s1
    t1 = t1
    f1 = f1
    r1 = r1
    r2 = r2
    v1 = v1
    None = None
    Traces = {t1}
    Feedbacks = {f1}
    Runs = {r1, r2}
    Validations = {v1}
    Scenarios = {s1}
    Apps = {a, b}
    Sessions = {clerk, machine}
    AppsOf <- MCAppsOf
    Reports <- MCReports
    Scoped = TRUE
    p1 = p1
    p2 = p2
    old = old
    Starts = {p1, p2, old}
    Versions = {1, 2}
    CodeVersion <- MCCodeVersion
    Rerunnable = {1}
    NoOne = NoOne
    Retention = 1
    MaxTime = 2
SPECIFICATION DatabaseSpec
SYMMETRY Symmetry
INVARIANTS
    TypeOK
    ChainIntegrity
    WithinScope
    ValidationsStand
    Covered
    ReadyIsMigrated
    AloneUpgradable
PROPERTIES
    PromotionsStand
    AloneAppliedOnce
CHECK_DEADLOCK FALSE
