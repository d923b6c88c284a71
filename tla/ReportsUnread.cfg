\* The gate runs a scenario that declares the shape of a tool's result only.
CONSTANTS
    c1 = c1
    i1 = i1
    i2 = i2
    i3 = i3
    Cases = {}
    Stubborn = {}
    MaxConcurrency = 1
    ExpectedSteps = 2
    MaxAttempts = 1
    HasLimiter = FALSE
    HasQuality = TRUE
    OwnsAdapter = TRUE
    RetrySafe = FALSE
    Scale = 2
    Compare <- CompareJson
    Batch <- MCReceiptOnly
    Responses <- MCResponses
    Answers <- MCAnswers
    ErrorTexts <- MCErrorTexts
    HasEvaluator = TRUE
    Items <- MCItems
    TraceOf <- MCTraceOf
    StoredRuns <- MCStoredRuns
    Linkable <- MCLinkable
    Comparisons <- MCComparisons
    MaxWrites = 0
    CaseScenario <- MCCaseScenario
    CaseResponse <- MCCaseResponse
    CasePolicy <- MCCasePolicy
SPECIFICATION ReportsSpec
INVARIANTS
    PassedIsReported
CHECK_DEADLOCK FALSE
