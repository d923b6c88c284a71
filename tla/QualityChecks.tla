----------------------------- MODULE QualityChecks -----------------------------
(* The quality metrics of a scenario: what an evaluator's answer is turned    *)
(* into, and which answers are believed.  Pure operators.                     *)
(*                                                                            *)
(* A scenario declares metrics, each with its threshold; a threshold is a     *)
(* fraction of Scale.  A score is a fraction [part, whole]; an optional       *)
(* number is a sequence of length at most one.  Messages and the labels of    *)
(* provider, model and version are left out.                                  *)
EXTENDS Integers, Sequences, FiniteSets

CONSTANT Scale   \* the denominator of the thresholds

ASSUME ScaleAssumption == Scale \in Nat \ {0}

\* QUALITY_THRESHOLDS: hallucination declares the largest rate allowed, the
\* others the smallest score.
Metrics == {"accuracy", "relevance", "faithfulness", "helpfulness", "hallucination"}

\* The metrics that are judged against the sources of the response.
Grounded == {"faithfulness", "hallucination"}

\* validate_quality_metrics, on a declaration metric -> threshold.
ValidDeclaration(metrics) ==
    DOMAIN metrics \subseteq Metrics /\ \A m \in DOMAIN metrics : metrics[m] \in 0..Scale

CheckStatus == {"passed", "failed", "inconclusive", "error", "not_executed"}
Concluded   == {"passed", "failed"}

InUnit(score) == score.whole > 0 /\ score.part \in 0..score.whole

Meets(metric, score, threshold) ==
    IF metric = "hallucination"
    THEN score.part * Scale <= threshold * score.whole
    ELSE score.part * Scale >= threshold * score.whole

\* pending_quality: one check per declared metric, under its name.
Pending(metrics, verdict, reason) ==
    [m \in DOMAIN metrics |->
        [metric |-> m, required |-> TRUE, expectation |-> metrics[m],
         threshold |-> <<metrics[m]>>, status |-> verdict, score |-> <<>>, reason |-> reason]]

\* QualityCheckResult.evaluated
Evaluated(check) ==
    /\ check.status \in Concluded
    /\ check.required
    /\ check.score # <<>> /\ InUnit(check.score[1])

------------------------------------------------------------------------------
(* What a callback answers is bound to what was declared.                     *)

\* A score goes with a conclusion, and the conclusion with the score.
ScoreAgrees(check, threshold) ==
    IF check.status \in Concluded
    THEN /\ check.score # <<>> /\ InUnit(check.score[1])
         /\ (check.status = "passed") = Meets(check.metric, check.score[1], threshold)
    ELSE check.score = <<>>

\* validate_callback_results accepts the list `values`.
CallbackAccepted(metrics, values) ==
    /\ \A i, j \in DOMAIN values : values[i].metric = values[j].metric => i = j
    /\ {values[i].metric : i \in DOMAIN values} = DOMAIN metrics
    /\ \A i \in DOMAIN values :
           LET check == values[i] IN
           /\ check.required
           /\ check.expectation = metrics[check.metric]
           /\ check.threshold \in {<<>>, <<metrics[check.metric]>>}
           /\ check.status \in CheckStatus
           /\ ScoreAgrees(check, metrics[check.metric])

BoundResults(metrics, values) ==
    [m \in DOMAIN metrics |->
        LET check == CHOOSE c \in {values[i] : i \in DOMAIN values} : c.metric = m
        IN  [check EXCEPT !.threshold = <<metrics[m]>>,
                          !.reason = IF @ = "" THEN "evaluator" ELSE @]]

Restriction(metrics, names) == [m \in DOMAIN metrics \cap names |-> metrics[m]]

\* run_quality_callback: without a source that says anything the grounded
\* metrics are inconclusive and the evaluator is not asked about them; what it
\* answers on the others (`answer.values`, unless it raises) counts only as a
\* whole.
CallbackQuality(metrics, hasContext, answer) ==
    LET eligible  == IF hasContext THEN metrics ELSE Restriction(metrics, Metrics \ Grounded)
        evaluated == IF answer.raises THEN Pending(eligible, "error", "evaluator_error")
                     ELSE IF CallbackAccepted(eligible, answer.values)
                          THEN BoundResults(eligible, answer.values)
                          ELSE Pending(eligible, "error", "invalid_evaluator_result")
        checks    == Pending(metrics, "inconclusive", "missing_grounding_context")
    IN  [m \in DOMAIN metrics |->
            IF m \in DOMAIN eligible THEN evaluated[m] ELSE checks[m]]

------------------------------------------------------------------------------
(* The evaluator the platform brings along: each metric is measured by a call *)
(* of the given client, the judge for rubrics, the extraction and             *)
(* verification of claims for hallucination.                                  *)

\* JudgeSpec.scale, the best score of a rubric; the worst is 1.
JudgeScale == 100

Verdict3 == {"SUPPORTED", "NOT_SUPPORTED", "CONTRADICTED"}

\* _ExplicitClient.judge and parse_judge: any other score is an error.
ValidJudgement(reply) == reply.max = JudgeScale /\ reply.score \in 1..reply.max

\* parse_verdict accepts nothing but the three verdicts.
ValidClaims(verdicts) == \A i \in DOMAIN verdicts : verdicts[i] \in Verdict3

\* HallucinationReport.hallucination_rate
HallucinationRate(verdicts) ==
    [part |-> Cardinality({i \in DOMAIN verdicts : verdicts[i] # "SUPPORTED"}),
     whole |-> Len(verdicts)]

Scored(check, score) ==
    LET met == Meets(check.metric, score, check.expectation)
    IN  [check EXCEPT !.score = <<score>>,
                      !.status = IF met THEN "passed" ELSE "failed",
                      !.reason = IF met THEN "threshold_met" ELSE "threshold_not_met"]

Unscored(check, verdict, reason) ==
    [check EXCEPT !.status = verdict, !.score = <<>>, !.reason = reason]

\* One turn of evaluate_scenario_quality's loop; `reply` is what the client
\* answers on this metric.
MeasuredCheck(check, hasContext, reply) ==
    IF check.metric \in Grounded /\ ~hasContext
    THEN Unscored(check, "inconclusive", "missing_grounding_context")
    ELSE IF reply.raises THEN Unscored(check, "error", "evaluation_error")
    ELSE IF check.metric = "hallucination"
         THEN IF ~ValidClaims(reply.verdicts) THEN Unscored(check, "error", "evaluation_error")
              ELSE IF reply.verdicts = <<>>
              THEN Unscored(check, "inconclusive", "no_factual_claims")
              ELSE Scored(check, HallucinationRate(reply.verdicts))
         ELSE IF ~ValidJudgement(reply) THEN Unscored(check, "error", "evaluation_error")
              ELSE Scored(check, [part |-> reply.score, whole |-> reply.max])

\* evaluate_scenario_quality with a client; without one every check is pending.
EvaluateScenarioQuality(metrics, hasContext, replies) ==
    LET checks == Pending(metrics, "not_executed", "evaluator_not_configured")
    IN  [m \in DOMAIN metrics |-> MeasuredCheck(checks[m], hasContext, replies[m])]
==============================================================================
