------------------------------ MODULE CaseReport ------------------------------
(* From an asynchronous case to its row of the report.  AsyncRunner keeps of  *)
(* a step whether it passed and of the evaluation how it ended; here both are *)
(* given back the content the report shows: the response with its checks, the *)
(* final checks of an answered or an interrupted dialogue, the quality checks *)
(* and the execution evidence.                                                *)
EXTENDS AsyncRunner, RunReport

CONSTANTS CaseScenario,   \* the scenario every case runs
          CaseResponse,   \* step status -> a response that leads to it
          CasePolicy      \* the execution policy of the controlled manifest

ASSUME CaseAssumption ==
    /\ Len(CaseScenario.conversation) = ExpectedSteps
    /\ HasQuality = (DOMAIN CaseScenario.metrics # {})
    /\ ValidScenario(CaseScenario)
    /\ \A verdict \in {"passed", "failed"} :
           /\ ValidResponse(CaseResponse[verdict]) /\ HasContext(CaseResponse[verdict])
           /\ \A i \in 1..ExpectedSteps :
                  AllPassed(StepResults(CaseScenario.conversation[i], CaseResponse[verdict]))
                      = (verdict = "passed")

\* result.steps; the turn of an interrupted case is named once its first
\* request has been dispatched.
CaseStep(c, i) ==
    LET turn == CaseScenario.conversation[i] IN
    IF steps[c][i] # "error" THEN AnsweredStep(turn, i - 1, CaseResponse[steps[c][i]])
    ELSE ErrorStep(i - 1, IF i = 1 /\ attempts[c] = <<>> THEN "" ELSE turn.user, status[c])

CaseSteps(c) == [i \in DOMAIN steps[c] |-> CaseStep(c, i)]

\* result.final_assertions: those of _work, or those of _abort where a turn was
\* left unanswered.
CaseFinal(c) ==
    LET ended == Last(CaseSteps(c)) IN
    IF ended.status # "error"
    THEN CheckExpectation(CaseScenario.expect, ended.response, CallsOf(CaseSteps(c)), "")
    ELSE <<ExecutionFailed(0)>>
         \o (IF ended.user = "" THEN <<>>
             ELSE CheckExpectation(CaseScenario.expect, <<>>, CallsOf(CaseSteps(c)), ended.error))

\* result.quality_checks: what the evaluator concluded, or why nothing was
\* evaluated.
CaseChecks(c) ==
    LET pending == Pending(CaseScenario.metrics, "not_executed", "execution_incomplete")
        best    == [part |-> 1, whole |-> 1]
        worst   == [part |-> 0, whole |-> 1]
        score(m) == IF (quality[c] = "passed") = (m # "hallucination") THEN best ELSE worst
    IN  CASE quality[c] = "pending" -> pending
          [] quality[c] = "error"   -> Pending(CaseScenario.metrics, "error", "evaluator_error")
          [] OTHER -> [m \in DOMAIN pending |-> Scored(pending[m], score(m))]

\* result.execution
CaseExecution(c) ==
    [policy |-> CasePolicy, status |-> status[c], unknown |-> unknown[c],
     cleanup |-> cleanup[c], attempts |-> attempts[c]]

\* result.as_dict()
CaseRow(c) ==
    LET complete == ResultComplete(CaseSteps(c), ExpectedSteps, CaseChecks(c),
                                   ExecutionComplete(status[c], unknown[c], cleanup[c]))
    IN  [id |-> CaseScenario.id, steps |-> CaseSteps(c), final |-> CaseFinal(c),
         checks |-> CaseChecks(c), execution |-> <<CaseExecution(c)>>, complete |-> complete,
         passed |-> complete /\ ResultPassed(CaseSteps(c), CaseFinal(c), CaseChecks(c))]

CaseManifest == Frozen(<<CaseScenario>>, <<CasePolicy>>)
==============================================================================
