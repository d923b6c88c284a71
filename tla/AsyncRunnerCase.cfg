CONSTANTS
    c1 = c1
    i1 = i1
    i2 = i2
    i3 = i3
    Cases = {c1}
    Stubborn = {c1}
    MaxConcurrency = 1
    ExpectedSteps = 2
    MaxAttempts = 2
    HasLimiter = TRUE
    HasQuality = TRUE
    OwnsAdapter = TRUE
    RetrySafe = TRUE
    Scale = 2
    Compare <- CompareJson
    Batch <- MCBatch
    Responses <- MCResponses
    Answers <- MCAnswers
    ErrorTexts <- MCErrorTexts
    HasEvaluator = TRUE
    Items <- MCItems
    TraceOf <- MCTraceOf
    StoredRuns <- MCStoredRuns
    Linkable <- MCLinkable
    Comparisons <- MCComparisons
    MaxWrites = 2
    CaseScenario <- MCCaseScenario
    CaseResponse <- MCCaseResponse
    CasePolicy <- MCCasePolicy
SYMMETRY SameTrace
SPECIFICATION ReportsSpec
INVARIANTS
    EvidenceAccepted
    CompleteMeansSettled
    ReportExact
    ReleaseSound
    RegressionBlocks
PROPERTIES
    EvidenceFrozen
CHECK_DEADLOCK FALSE
