------------------------------- MODULE MCReports -------------------------------
(* Instances for TLC of EvidenceChain: scenarios and the responses to them,   *)
(* the answers of evaluators, and imported runs.                              *)
EXTENDS EvidenceChain, JsonCompare, TLC

CONSTANTS i1, i2, i3

------------------------------------------------------------------------------
(* Scenarios, responses and answers.                                          *)

Tool(name, arguments) ==
    [name |-> name, arguments |-> arguments, argumentsSchema |-> <<>>,
     resultSchema |-> <<>>, status |-> "succeeded"]

Call(name, arguments, ended) ==
    [name |-> name, arguments |-> arguments, status |-> ended, result |-> JsonValue(1)]

Name(n)  == [kind |-> "name", name |-> n]
Index(i) == [kind |-> "index", index |-> i]

Order(extra) == JsonObject([id |-> JsonText({"A1"}),
                            items |-> JsonList(<<JsonValue(1), JsonValue(2)>>)] @@ extra)
NoArguments  == JsonObject(<<>>)

Lookup1 == Call("lookup", Order([note |-> JsonText({"x"})]), "succeeded")
Swapped == Call("lookup", JsonObject([id |-> JsonText({"A1"}),
                    items |-> JsonList(<<JsonValue(2), JsonValue(1)>>)]), "failed")
Create1 == Call("create", NoArguments, "succeeded")

Reply(answer, sources, calls, state) ==
    [answer |-> answer, sources |-> sources, calls |-> calls,
     metadata |-> JsonObject([ticket |-> JsonText({state})])]

PossibleResponses ==
    {Reply({"found", "done"}, "text", <<Lookup1>>, "open"),
     Reply({"found", "done"}, "text", <<Create1>>, "open"),
     Reply({"done"}, "blank", <<Create1>>, "open"),
     Reply({"done", "secret"}, "none", <<Swapped>>, "closed"),
     Reply({}, "text", <<>>, "open")}

MCResponses == PossibleResponses

FirstTurn ==
    [NoExpectation EXCEPT
        !.contains = <<"found">>,
        !.tools = <<[Tool("lookup", Order(<<>>)) EXCEPT !.argumentsSchema = <<{Lookup1.arguments}>>,
                                                       !.resultSchema = <<{JsonValue(1)}>>]>>,
        !.state = <<[path |-> <<Name("metadata"), Name("ticket")>>,
                     operator |-> "equals", value |-> JsonText({"open"})]>>]

Whole ==
    [NoExpectation EXCEPT
        !.contains = <<"done">>, !.excludes = <<"secret">>, !.sources = <<TRUE>>,
        !.tools = <<Tool("lookup", Order(<<>>)), Tool("create", NoArguments)>>,
        !.order = <<"lookup", "create">>,
        !.state = <<[path |-> <<Name("tool_calls"), Index(1), Name("name")>>,
                     operator |-> "contains", value |-> JsonText({"create"})],
                    [path |-> <<Name("metadata"), Name("missing")>>,
                     operator |-> "not_equals", value |-> JsonValue(0)]>>]

Dialogue ==
    [id |-> "dialogue", expect |-> [Whole EXCEPT !.state = <<Whole.state[1]>>],
     conversation |-> <<[user |-> "ask", expect |-> <<FirstTurn>>],
                        [user |-> "confirm", expect |-> <<>>]>>,
     metrics |-> [faithfulness |-> 1, relevance |-> 1]]

Question ==
    [id |-> "question", expect |-> [NoExpectation EXCEPT !.order = <<"create">>, !.strict = FALSE],
     conversation |-> <<[user |-> "ask", expect |-> <<>>]>>,
     metrics |-> [hallucination |-> 1]]

\* The tool answers in a given shape, whatever its arguments.
Receipt ==
    [Question EXCEPT !.id = "receipt",
        !.conversation = <<[user |-> "ask", expect |-> <<[NoExpectation EXCEPT
            !.tools = <<[Tool("create", NoArguments) EXCEPT
                            !.resultSchema = <<{JsonValue(1)}>>]>>]>>]>>]

\* TLC evaluates a definition it finds behind a constant again at every use,
\* and one behind a definition once.
Desk    == Selected(<<Dialogue, Question, Receipt>>, <<{"dialogue", "receipt"}>>)
MCBatch == Desk

Counter       == <<[Receipt EXCEPT !.metrics = <<>>]>>
MCReceiptOnly == Counter

Values(checks) == SetToSeq({checks[m] : m \in DOMAIN checks})

\* The platform's own evaluator, asked about some of the metrics.
Judged(names, score) ==
    LET declared == Restriction(Dialogue.metrics, names)
    IN  [raises |-> FALSE,
         values |-> Values(EvaluateScenarioQuality(declared, TRUE,
             [m \in DOMAIN declared |-> [raises |-> FALSE, score |-> score, max |-> JudgeScale]]))]

Claimed(verdicts) ==
    [raises |-> FALSE,
     values |-> Values(EvaluateScenarioQuality(Question.metrics, TRUE,
         [hallucination |-> [raises |-> FALSE, verdicts |-> verdicts]]))]

\* A callback of the user's own that changes the policy.
Lenient == [raises |-> FALSE,
            values |-> Values([m \in DOMAIN Dialogue.metrics |->
                [Scored(Pending(Dialogue.metrics, "", "")[m], [part |-> 1, whole |-> 4])
                     EXCEPT !.expectation = 0, !.status = "passed"]])]

PossibleAnswers ==
    {[raises |-> TRUE, values |-> <<>>], Lenient,
     Judged({"faithfulness", "relevance"}, 100), Judged({"faithfulness", "relevance"}, 49),
     Judged({"relevance"}, 50), Judged({"faithfulness", "relevance"}, 101),
     Claimed(<<"SUPPORTED", "NOT_SUPPORTED">>), Claimed(<<"CONTRADICTED">>), Claimed(<<>>),
     Claimed(<<"SUPPORTED", "UNSURE">>)}

MCAnswers == PossibleAnswers

MCErrorTexts == {"", "broken"}

------------------------------------------------------------------------------
(* The asynchronous case.                                                     *)

TwoTurns ==
    [id |-> "case",
     expect |-> [NoExpectation EXCEPT !.contains = <<"done">>,
                     !.state = <<[path |-> <<Name("metadata"), Name("ticket")>>,
                                  operator |-> "exists", value |-> JsonValue(0)]>>],
     conversation |-> [i \in 1..ExpectedSteps |->
         [user |-> "ask", expect |-> <<[NoExpectation EXCEPT !.contains = <<"found">>]>>]],
     metrics |-> [faithfulness |-> 1, hallucination |-> 1]]

MCCaseScenario == TwoTurns

TurnResponse ==
    [verdict \in {"passed", "failed"} |->
        Reply(IF verdict = "passed" THEN {"found", "done"} ELSE {"done"}, "text", <<Lookup1>>, "open")]

MCCaseResponse == TurnResponse

MCCasePolicy == "policy"

------------------------------------------------------------------------------
(* The runs the gate compares: reports of the batch as it may end, imported   *)
(* with and without a trusted manifest, or as a legacy summary.               *)

Good1 == CHOOSE r \in MCResponses : r.answer = {"found", "done"} /\ r.calls = <<Lookup1>>
Good2 == CHOOSE r \in MCResponses : r.answer = {"found", "done"} /\ r.calls = <<Create1>>

Played(scenario, responses, answer) ==
    LET turns == [i \in DOMAIN responses |->
                     AnsweredStep(scenario.conversation[i], i - 1, responses[i])]
        final == CheckExpectation(scenario.expect, <<Last(responses)>>, CallsOf(turns), "")
    IN  ResultOf(scenario, turns, final,
                 FinalChecks(scenario.metrics, <<Last(responses)>>, "", answer))

ReleasePlan == Frozen(<<Dialogue, Question>>, <<>>)

Rows(answer, last) ==
    <<Played(Dialogue, <<Good1, Good2>>, answer),
      Played(Question, <<last>>, Claimed(<<"SUPPORTED">>))>>

Imported(rows, manifest, trusted) ==
    [application |-> "desk", release |-> "v1", environment |-> "offline",
     run |-> OfflineRun(Assembled(rows, manifest), trusted)]

Sure == Judged({"faithfulness", "relevance"}, 100)
Fail == [raises |-> TRUE, values |-> <<>>]

ImportedRuns ==
    [good       |-> Imported(Rows(Sure, Good2), <<ReleasePlan>>, <<ReleasePlan>>),
     weaker     |-> Imported(Rows(Sure, Good1), <<ReleasePlan>>, <<ReleasePlan>>),
     incomplete |-> Imported(Rows(Fail, Good2), <<ReleasePlan>>, <<ReleasePlan>>),
     unverified |-> Imported(Rows(Sure, Good2), <<ReleasePlan>>, <<>>),
     legacy     |-> Imported(Rows(Sure, Good2), <<>>, <<>>)]

MCStoredRuns == ImportedRuns

LinkedRuns == {"good", "weaker"}
MCLinkable == LinkedRuns

Strict == [application |-> "desk", release |-> "", requireComplete |-> TRUE,
           failureRate |-> 0, passDrop |-> 0, lowIncrease |-> 0]

\* Half of the scenarios may fail, and half of the feedback be worse.
Tolerant == [application |-> "", release |-> "v1", requireComplete |-> FALSE,
             failureRate |-> 1, passDrop |-> 1, lowIncrease |-> 1]

Compared(b, k, policy) == [baseline |-> b, candidate |-> k, policy |-> policy]

PossibleCalls ==
    {Compared("weaker", "good", Strict), Compared("good", "weaker", Tolerant),
     Compared("good", "good", Tolerant)}
    \cup {Compared(b, k, Tolerant) : b \in {"good"}, k \in {"incomplete", "unverified", "legacy"}}
    \cup {Compared(b, k, Tolerant) : b \in {"incomplete", "unverified", "legacy"}, k \in {"good"}}

MCComparisons == PossibleCalls

\* Two of the items are about one trace, and may be exchanged.
Feedback  == {i1, i2, i3}
About     == [i \in Feedback |-> IF i = i3 THEN "t2" ELSE "t1"]
SameTrace == Permutations({i1, i2})

MCItems   == Feedback
MCTraceOf == About
================================================================================
