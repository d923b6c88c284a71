\* One trace, one report of feedback in flight, retention and a second owner.
CONSTANTS
    a = a
    b = b
    clerk = clerk
    machine = machine
    s1 = s1
    t1 = t1
    f1 = f1
    None = None
    Traces = {t1}
    Feedbacks = {f1}
    Runs = {}
    Validations = {}
    Scenarios = {s1}
    Apps = {a, b}
    Sessions = {clerk, machine}
    AppsOf <- MCAppsOf
    Reports <- MCReports
    Scoped = TRUE
    p1 = p1
    p2 = p2
    old = old
    Starts = {p1, p2, old}
    Versions = {1, 2}
    CodeVersion <- MCCodeVersion
    Rerunnable = {1}
    NoOne = NoOne
    Retention = 1
    MaxTime = 2
SPECIFICATION DatabaseSpec
INVARIANT FeedbackWithinScope
CHECK_DEADLOCK FALSE
