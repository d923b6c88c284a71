---------------------------- MODULE ScenarioRunner ----------------------------
(* The synchronous ScenarioRunner: it creates an adapter for a scenario,      *)
(* sends the user's turns one after the other, checks every response as it    *)
(* arrives and the whole dialogue at the end, and asks for the quality        *)
(* metrics when every turn was answered.  A batch runs one scenario after     *)
(* another; each leaves a result.                                             *)
(*                                                                            *)
(* The adapter factory, adapter.send and the quality evaluator are callbacks  *)
(* of the user: what they answer is open.                                     *)
EXTENDS Contracts, QualityChecks

CONSTANTS Batch,        \* the scenarios, in the order they are run
          Responses,    \* what adapter.send may return
          Answers,      \* what the evaluator may answer, per set of metrics
          ErrorTexts,   \* texts of the exceptions of the adapter, "" included
          HasEvaluator  \* whether a quality evaluator is configured

VARIABLES trial,    \* the scenario that is being run
          results   \* the results of those that have been

runnerVars == <<trial, results>>

\* ExpectationSpec with nothing in it.
NoExpectation ==
    [contains |-> <<>>, excludes |-> <<>>, sources |-> <<>>, tools |-> <<>>,
     order |-> <<>>, strict |-> TRUE, state |-> <<>>]

\* A list, of whatever items.
IsSequence(list) ==
    Len(list) \in Nat /\ list = [i \in 1..Len(list) |-> list[i]]

\* What SCENARIO_SCHEMA demands of the file of a scenario.
ValidExpectation(expect) ==
    \A part \in {"contains", "excludes", "sources", "tools", "order", "state"} :
        IsSequence(expect[part])

ValidScenario(scenario) ==
    /\ ValidDeclaration(scenario.metrics)
    /\ ValidExpectation(scenario.expect)
    /\ IsSequence(scenario.conversation) /\ scenario.conversation # <<>>
    /\ \A i \in DOMAIN scenario.conversation :
           LET turn == scenario.conversation[i] IN
           /\ turn.user # ""
           /\ Declared(turn.expect) => ValidExpectation(Content(turn.expect))

\* ResponseEnvelope as far as the checks look at it: sources are "none", "blank"
\* (a list of blanks, present but without content) or "text".
SourcesPresent(response) == response.sources # "none"
HasContext(response)     == response.sources = "text"

\* response.as_dict(), what the paths of business state start from.
AsJson(response) ==
    JsonObject([answer |-> JsonText(response.answer),
                tool_calls |-> JsonList([i \in DOMAIN response.calls |->
                    JsonObject([name |-> JsonText({response.calls[i].name}),
                                status |-> JsonText({response.calls[i].status}),
                                result |-> response.calls[i].result])]),
                metadata |-> response.metadata])

\* A response lists its calls; an evaluator hands out a list of
\* QualityCheckResult, of which only the shape is known.
ValidResponse(response) == IsSequence(response.calls)

CheckFields == {"metric", "required", "expectation", "threshold", "status", "score", "reason"}

ASSUME ScenarioAssumption ==
    /\ IsSequence(Batch)
    /\ \A i \in DOMAIN Batch : ValidScenario(Batch[i])
    /\ \A response \in Responses : ValidResponse(response)
    /\ \A answer \in Answers : \A i \in DOMAIN answer.values : DOMAIN answer.values[i] = CheckFields

------------------------------------------------------------------------------
(* _check_expectation.  `response` is optional; without one the checks of it  *)
(* fail if there is the text of an error, and are left out if there is none.  *)

ResponseResults(expect, response, error) ==
    LET judged == Declared(response)
        Answer == Content(response).answer
        Check(type, phrase, holds) == Result(type, 0, phrase, judged /\ holds)
        contains == [i \in DOMAIN expect.contains |->
                        Check("response_contains", expect.contains[i],
                              judged => expect.contains[i] \in Answer)]
        excludes == [i \in DOMAIN expect.excludes |->
                        Check("response_not_contains", expect.excludes[i],
                              judged => expect.excludes[i] \notin Answer)]
        sources  == [i \in DOMAIN expect.sources |->
                        Check("sources_present", "",
                              judged => SourcesPresent(Content(response)) = expect.sources[i])]
    IN  IF judged \/ error # "" THEN contains \o excludes \o sources ELSE <<>>

\* The expected tools are compared with the calls position by position.
ToolResults(entry, calls, position) ==
    IF position > Len(calls) THEN <<Result("tool_name", position, entry.name, FALSE)>>
    ELSE LET call == calls[position] IN
         (IF call.name # entry.name
          THEN <<Result("tool_name", position, entry.name, FALSE)>> ELSE <<>>)
         \o <<ToolArgumentsResult(call, entry.arguments, position),
              ToolStatusResult(call, entry.status, position)>>
         \o (IF Declared(entry.argumentsSchema) \/ Declared(entry.resultSchema)
             THEN ToolContractResults(call, entry.name, entry.argumentsSchema,
                                      entry.resultSchema, position)
             ELSE <<>>)

StateResults(expect, response, error) ==
    IF Declared(response)
    THEN [i \in DOMAIN expect.state |->
             BusinessStateResult(AsJson(Content(response)), expect.state[i], i)]
    ELSE IF error # "" THEN [i \in DOMAIN expect.state |-> Result("business_state", i, "", FALSE)]
    ELSE <<>>

CheckExpectation(expect, response, calls, error) ==
    ResponseResults(expect, response, error)
    \o FlattenSeq([i \in DOMAIN expect.tools |-> ToolResults(expect.tools[i], calls, i)])
    \o (IF expect.order # <<>> THEN <<ToolOrderResult(calls, expect.order, expect.strict)>>
        ELSE <<>>)
    \o StateResults(expect, response, error)

\* The checks of one turn: a step may come without an expectation.
StepResults(turn, response) ==
    IF Declared(turn.expect)
    THEN CheckExpectation(Content(turn.expect), <<response>>, response.calls, "")
    ELSE <<>>

------------------------------------------------------------------------------
(* StepResult and ScenarioRunResult.                                          *)

AnsweredStep(turn, index, response) ==
    LET assertions == StepResults(turn, response)
    IN  [index |-> index, user |-> turn.user, response |-> <<response>>,
         assertions |-> assertions, error |-> "",
         status |-> IF AllPassed(assertions) THEN "passed" ELSE "failed"]

ErrorStep(index, user, error) ==
    [index |-> index, user |-> user, response |-> <<>>, assertions |-> <<>>,
     error |-> error, status |-> "error"]

ExecutionFailed(position) == Result("execution", position, "", FALSE)

StepsDone(turns, expected) ==
    Len(turns) = expected /\ \A i \in DOMAIN turns : turns[i].status # "error"

\* ScenarioRunResult.complete; `settled` is execution_complete of the evidence
\* an asynchronous run leaves, TRUE where there is none.
ResultComplete(turns, expected, checks, settled) ==
    /\ StepsDone(turns, expected)
    /\ \A m \in DOMAIN checks : Evaluated(checks[m])
    /\ settled

\* ScenarioRunResult.passed
ResultPassed(turns, final, checks) ==
    /\ turns # <<>>
    /\ \A i \in DOMAIN turns : turns[i].status = "passed"
    /\ AllPassed(final)
    /\ \A m \in DOMAIN checks : Evaluated(checks[m]) /\ checks[m].status = "passed"

\* as_dict of a result without execution evidence.
ResultOf(scenario, turns, final, checks) ==
    LET complete == ResultComplete(turns, Len(scenario.conversation), checks, TRUE)
    IN  [id |-> scenario.id, steps |-> turns, final |-> final, checks |-> checks,
         execution |-> <<>>, complete |-> complete,
         passed |-> complete /\ ResultPassed(turns, final, checks)]

\* What the model keeps of a scenario on its way.
Prepared(scenario) ==
    [at |-> "setup", scenario |-> scenario, steps |-> <<>>, calls |-> <<>>,
     final |-> <<>>, error |-> ""]

Idle == [at |-> "idle"]

\* The next scenario of the batch, if there is one.
Upcoming(finished) ==
    IF Len(finished) < Len(Batch) THEN Prepared(Batch[Len(finished) + 1]) ELSE Idle

RunnerInit == results = <<>> /\ trial = Upcoming(<<>>)

Return(result) == /\ results' = Append(results, result)
                  /\ trial' = Upcoming(Append(results, result))

\* A scenario whose adapter cannot be made has one step without a user.
FactoryFails(error) ==
    /\ trial.at = "setup"
    /\ Return(ResultOf(trial.scenario, <<ErrorStep(0, "", error)>>, <<ExecutionFailed(0)>>,
                       Pending(trial.scenario.metrics, "not_executed", "execution_incomplete")))

FactoryReturns ==
    /\ trial.at = "setup"
    /\ trial' = [trial EXCEPT !.at = "dialogue"]
    /\ UNCHANGED results

Turn == trial.scenario.conversation[Len(trial.steps) + 1]
Turns == Len(trial.scenario.conversation)

SendRaises(error) ==
    /\ trial.at = "dialogue"
    /\ Len(trial.steps) < Turns
    /\ trial' = [trial EXCEPT !.at = "ending",
                              !.steps = Append(@, ErrorStep(Len(@), Turn.user, error)),
                              !.final = <<ExecutionFailed(Len(trial.steps) + 1)>>,
                              !.error = error]
    /\ UNCHANGED results

\* Mutant: the calls of the last response stand for those of the dialogue.
CallsOfLastTurn(calls, response) == response.calls

CallsSoFar(calls, response) == calls \o response.calls

SendReturns(response) ==
    /\ trial.at = "dialogue"
    /\ Len(trial.steps) < Turns
    /\ trial' = [trial EXCEPT !.at = IF Len(trial.steps) + 1 = Turns THEN "ending" ELSE @,
                              !.steps = Append(@, AnsweredStep(Turn, Len(@), response)),
                              !.calls = CallsSoFar(@, response)]
    /\ UNCHANGED results

\* The quality of the dialogue: pending when a turn was not answered, and when
\* there is nobody to ask.
FinalChecks(metrics, response, error, answer) ==
    IF error # "" \/ ~Declared(response)
    THEN Pending(metrics, "not_executed", "execution_incomplete")
    ELSE IF DOMAIN metrics = {} \/ ~HasEvaluator
    THEN Pending(metrics, "not_executed", "evaluator_not_configured")
    ELSE CallbackQuality(metrics, HasContext(Content(response)), answer)

\* The end of run(): the checks of the whole dialogue look at the last
\* response, if it was answered, and at the calls of all.
Conclude(answer) ==
    /\ trial.at = "ending"
    /\ LET response == Last(trial.steps).response
           final == trial.final \o CheckExpectation(trial.scenario.expect, response,
                                                    trial.calls, trial.error)
       IN  Return(ResultOf(trial.scenario, trial.steps, final,
                           FinalChecks(trial.scenario.metrics, response, trial.error, answer)))

RunnerNext ==
    \/ \E error \in ErrorTexts : FactoryFails(error) \/ SendRaises(error)
    \/ FactoryReturns
    \/ \E response \in Responses : SendReturns(response)
    \/ trial.at = "ending" /\ \E answer \in Answers : Conclude(answer)

BatchDone == trial.at = "idle"
==============================================================================
