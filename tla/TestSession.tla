------------------------------ MODULE TestSession ------------------------------
(* A pytest session with the llmtest plugin: every run of a test gets a       *)
(* record, the model clients, evaluations and assertions write into the       *)
(* record that is active in their context, and the end of the session sums    *)
(* the records up.  A run is of three phases, each of which may raise; a test *)
(* may be run again; a task a test started keeps the context it was started   *)
(* in and may outlive the test; and code outside of every test calls the same *)
(* functions.  A thread without a context has no active record: what it does  *)
(* is nowhere, and it is left out here.                                       *)
EXTENDS Integers, Sequences, FiniteSets, FiniteSetsExt

CONSTANTS Tests,     \* node identifiers
          MaxRuns,   \* bound on the runs of tests
          MaxCalls,  \* bound on the evaluations they make
          MaxRaises  \* bound on the exceptions of their own

ASSUME SessionAssumption == {MaxRuns, MaxCalls, MaxRaises} \subseteq Nat

VARIABLES records,    \* _Tracker.records
          byNode,     \* _Tracker._by_nodeid
          active,     \* _Tracker._active in the context of the tests: 0 is none
          copied,     \* run -> its task's copy of `active`, and what it did with it
          item,       \* the test at work: its phase and the exception under way
          embedding,  \* LLMClient._embed_available: "" is not probed
          policy,     \* Config.embedding_policy
          done        \* for the properties: what each run did, saw raised and caught

sessionVars == <<records, byNode, active, copied, item, embedding, policy, done>>

------------------------------------------------------------------------------
(* Calls to a provider.  A reply is an answer, "garbled" when no JSON can be  *)
(* found in it, "refused" when the JSON is not what was asked for, or an      *)
(* error: transient, fatal, or that embeddings are not supported.             *)

Retries     == 2
JsonRetries == 1

\* _retry_call: up to the first reply that is no transient error.
RetryCall(replies) ==
    LET stop == Min({i \in DOMAIN replies : replies[i] # "transient"} \cup {Retries + 1})
    IN  [reply |-> replies[stop], rest |-> SubSeq(replies, stop + 1, Len(replies))]

\* _llm_json: asks again only when the answer could not be parsed.
LlmJson(replies) ==
    LET first == RetryCall(replies)
    IN  IF first.reply = "garbled" THEN RetryCall(first.rest) ELSE first

Answers == {"good", "poor"}
Errors  == {"transient", "fatal", "refused", "garbled", "unsupported"}

\* What a provider may reply to the most requests that one evaluation may send,
\* and what the evaluation is left with.
MostRequests == (JsonRetries + 1) * (Retries + 1)
Streams      == [1..MostRequests -> Answers \cup (Errors \ {"unsupported"})]
JsonReplies  == {LlmJson(s).reply : s \in Streams}

\* An evaluation never runs out of the replies it is bounded by, does not ask
\* again after an answer or a fatal error, and gives up on transient errors
\* only after three in a row.
ASSUME RetriesBounded ==
    \A s \in Streams :
        LET used  == MostRequests - Len(LlmJson(s).rest)
            ended == LlmJson(s).reply
        IN  /\ used \in 1..MostRequests
            /\ \A i \in 1..(used - 1) : s[i] \in {"garbled", "transient"}
            /\ ended = "transient" =>
                   used > Retries /\ \A i \in (used - Retries)..used : s[i] = "transient"

------------------------------------------------------------------------------
(* What a function does to the record: the entries it adds and what it raises.*)

Entries == {"app", "framework",                                \* latencies
            "judged", "concluded", "inconclusive", "not_applicable", "error",
            "held", "broken",                                  \* assertions
            "uncovered", "gold"}

Does(entries, raises) ==
    [entries |-> entries, raises |-> raises, embedding |-> embedding, declared |-> FALSE]

\* _timed: the latency is recorded whatever comes of the call.
Timed(source, reply) == Does(<<source>>, IF reply \in Errors THEN "Error" ELSE "none")

\* complete and ask of the application under test.
AskApplication(reply) == Timed("app", reply)

\* The end of every assertion: it is recorded before it raises.
Asserted(result, holds) ==
    IF result.raises # "none" THEN result
    ELSE Does(Append(result.entries, IF holds THEN "held" ELSE "broken"),
              IF holds THEN "none" ELSE "Error")

\* A judge that could not be asked leaves no result.
LlmJudge(reply) ==
    LET asked == Timed("framework", reply)
    IN  IF asked.raises # "none" THEN asked ELSE Does(Append(asked.entries, "judged"), "none")

AssertJudge(reply)    == Asserted(LlmJudge(reply), reply = "good")
AssertSemantic(reply) == Asserted(Timed("framework", reply), reply = "good")

\* detect_hallucination of an answer with at most one claim in it.
Detection(claims, extracted, verified, noClaims) ==
    IF extracted \in Errors THEN Does(<<"framework", "error">>, "Error")
    ELSE IF claims = 0 THEN Does(<<"framework", noClaims>>, "none")
    ELSE IF verified \in Errors THEN Does(<<"framework", "framework", "error">>, "Error")
    ELSE Does(<<"framework", "framework", "concluded">>, "none")

\* assert_hallucination_rate: without claims there is nothing to conclude from.
AssertHallucination(claims, extracted, verified) ==
    Asserted(Detection(claims, extracted, verified, "inconclusive"),
             claims > 0 /\ verified = "good")

\* embedding_available: only an answer and a declared lack are remembered.
AvailableAfter(reply) ==
    IF embedding # "" THEN embedding
    ELSE IF reply \in Answers THEN "yes"
    ELSE IF reply = "unsupported" THEN "no"
    ELSE ""

\* assert_similarity: probe, then both texts; a declared lack may skip the test.
AssertSimilarity(probe, texts, required) ==
    LET capable  == AvailableAfter(probe)
        probed   == IF embedding = "" THEN <<"framework">> ELSE <<>>
        sent     == IF capable = "yes" THEN Min({i \in {1} : texts[i] \in Errors} \cup {2}) ELSE 0
        refused  == sent > 0 /\ texts[sent] \in Errors
        lacking  == capable = "no" \/ (refused /\ texts[sent] = "unsupported")
        measured == probed \o [i \in 1..sent |-> "framework"]
        must     == required \/ policy = "required"
        outcome  ==
            IF lacking
            THEN Does(Append(measured, "uncovered"), IF must THEN "Error" ELSE "Skipped")
            ELSE IF capable = "" \/ refused THEN Does(measured, "Error")
            ELSE Does(Append(measured, IF texts[2] = "good" THEN "held" ELSE "broken"),
                      IF texts[2] = "good" THEN "none" ELSE "Error")
    IN  [outcome EXCEPT
            !.embedding = IF lacking THEN "no" ELSE capable,
            !.declared = \/ embedding = "" /\ probe = "unsupported"
                         \/ refused /\ texts[sent] = "unsupported"]

\* The functions a test may call, with the replies they may get.
Evaluations ==
    {AskApplication("good"), AskApplication("transient"), Does(<<"gold">>, "none"),
     Detection(0, "good", "good", "not_applicable")}
    \cup {AssertJudge(reply) : reply \in JsonReplies}
    \cup {AssertSemantic(reply) : reply \in JsonReplies}
    \cup {AssertHallucination(claims, "good", verified) :
              claims \in {0, 1}, verified \in JsonReplies}
    \cup {AssertSimilarity(probe, texts, required) :
              probe \in {"good", "unsupported", "transient"}, required \in BOOLEAN,
              texts \in {<<"good", "good">>, <<"good", "unsupported">>, <<"transient", "good">>}}

------------------------------------------------------------------------------
(* The tracker.                                                               *)

NoEntries == [e \in Entries |-> 0]

Plus(counts, entries) ==
    [e \in Entries |-> counts[e] + Cardinality({i \in DOMAIN entries : entries[i] = e})]

NewRecord(test) == [test |-> test, outcome |-> "pending", entries |-> NoEntries]

\* record_latency, add_judge, add_hallucination, add_assertion, record_metric and
\* add_gold_result: without an active record the entry is dropped.
Record(list, at, entries) ==
    IF at = 0 THEN list ELSE [list EXCEPT ![at].entries = Plus(@, entries)]

\* _record_failure
OutcomeOf(when, raised) ==
    IF raised = "Skipped" THEN "skipped" ELSE IF when = "setup" THEN "error" ELSE "failed"

\* pytest_runtest_makereport for one phase, and tracker.finish after the last.
MadeReport(outcome, when, raised) ==
    IF raised # "none" THEN OutcomeOf(when, raised)
    ELSE IF when = "call" \/ (when = "teardown" /\ outcome = "pending") THEN "passed"
    ELSE outcome

\* Mutant: finish leaves the record active.
ActiveAfterUnfinished(when) == active

ActiveAfter(when) == IF when = "teardown" THEN 0 ELSE active

\* summarize
CountOf(outcome) == Cardinality({i \in DOMAIN records : records[i].outcome = outcome})
TotalOf(kinds) ==
    MapThenSumSet(LAMBDA i : MapThenSumSet(LAMBDA e : records[i].entries[e], kinds), DOMAIN records)

Summarize ==
    [total |-> Len(records), passed |-> CountOf("passed"), failed |-> CountOf("failed"),
     skipped |-> CountOf("skipped"), error |-> CountOf("error"),
     evaluated |-> TotalOf({"judged", "concluded"}), inconclusive |-> TotalOf({"inconclusive"}),
     notApplicable |-> TotalOf({"not_applicable"}), errors |-> TotalOf({"error"}),
     gold |-> TotalOf({"gold"})]

------------------------------------------------------------------------------
(* The session.  It may end, or be interrupted, in every state: the summary is *)
(* taken of the records as they are then.                                     *)

CurrentRun == Len(records)

SessionInit ==
    /\ records = <<>>
    /\ byNode = [t \in Tests |-> 0]
    /\ active = 0
    /\ copied = <<>>
    /\ item = [at |-> "between", test |-> "", raising |-> "none"]
    /\ embedding = ""
    /\ policy \in {"required", "optional"}
    /\ done = <<>>

\* pytest_runtest_setup, also of a test that is run again.  A test that a mark
\* skips does not come here: pytest's own hook raises before the plugin's.
Begin(t) ==
    /\ item.at = "between" /\ Len(records) < MaxRuns
    /\ records' = Append(records, NewRecord(t))
    /\ byNode' = [byNode EXCEPT ![t] = Len(records) + 1]
    /\ active' = Len(records) + 1
    /\ copied' = Append(copied, [at |-> 0, state |-> "none"])
    /\ item' = [at |-> "setup", test |-> t, raising |-> "none"]
    /\ done' = Append(done, [test |-> t, calls |-> 0, entries |-> NoEntries, raised |-> <<>>,
                             declared |-> FALSE, caught |-> FALSE, ended |-> FALSE])
    /\ UNCHANGED <<embedding, policy>>

\* A phase ends, with the exception under way or one of the test's own.
EndPhase(raised) ==
    /\ item.at \in {"setup", "call", "teardown"}
    /\ item.raising \in {"none", raised}
    /\ raised # "none" /\ item.raising = "none" =>
           MapThenSumSet(LAMBDA r : Len(done[r].raised), DOMAIN done) < MaxRaises
    /\ records' = [records EXCEPT ![byNode[item.test]].outcome = MadeReport(@, item.at, raised)]
    /\ active' = ActiveAfter(item.at)
    /\ item' = [item EXCEPT !.raising = "none",
                            !.at = CASE item.at = "teardown" -> "between"
                                     [] item.at = "setup" /\ raised = "none" -> "call"
                                     [] OTHER -> "teardown"]
    /\ done' = [done EXCEPT ![CurrentRun].ended = (item.at = "teardown"),
                            ![CurrentRun].raised = IF raised = "none" THEN @
                                                ELSE Append(@, <<item.at, raised>>)]
    /\ UNCHANGED <<byNode, copied, embedding, policy>>

\* The body of a test, or a fixture of it, calls one of the functions.
MayCall ==
    /\ item.at \in {"setup", "call"} /\ item.raising = "none"
    /\ MapThenSumSet(LAMBDA r : done[r].calls, DOMAIN done) < MaxCalls

Evaluate(result) ==
    /\ MayCall
    /\ records' = Record(records, active, result.entries)
    /\ embedding' = result.embedding
    /\ item' = [item EXCEPT !.raising = result.raises]
    /\ done' = [done EXCEPT ![CurrentRun].calls = @ + 1,
                            ![CurrentRun].entries = Plus(@, result.entries),
                            ![CurrentRun].declared = @ \/ result.declared]
    /\ UNCHANGED <<byNode, active, copied, policy>>

\* The test catches what an assertion raised.
Catch ==
    /\ item.raising # "none"
    /\ item' = [item EXCEPT !.raising = "none"]
    /\ done' = [done EXCEPT ![CurrentRun].caught = TRUE]
    /\ UNCHANGED <<records, byNode, active, copied, embedding, policy>>

\* A task is started in the test's context (bound: one in a session) ...
StartTask ==
    /\ item.at = "call" /\ item.raising = "none"
    /\ \A r \in DOMAIN copied : copied[r].state = "none"
    /\ copied' = [copied EXCEPT ![CurrentRun] = [at |-> active, state |-> "runs"]]
    /\ UNCHANGED <<records, byNode, active, item, embedding, policy, done>>

\* ... and asks the application something, perhaps after the test has ended.
TaskCompletes(r) ==
    /\ copied[r].state = "runs"
    /\ copied' = [copied EXCEPT ![r].state = "ended"]
    /\ records' = Record(records, copied[r].at, AskApplication("good").entries)
    /\ done' = [done EXCEPT ![r].entries = Plus(@, AskApplication("good").entries)]
    /\ UNCHANGED <<byNode, active, item, embedding, policy>>

\* Code between the tests, a conftest or another plugin, uses the client.
Outside ==
    /\ item.at = "between"
    /\ records' = Record(records, active, AskApplication("good").entries)
    /\ UNCHANGED <<byNode, active, copied, item, embedding, policy, done>>

SessionNext ==
    \/ \E t \in Tests : Begin(t)
    \/ \E raised \in {"none", "Skipped", "Error"} : EndPhase(raised)
    \/ MayCall /\ \E result \in Evaluations : Evaluate(result)
    \/ Catch \/ StartTask \/ Outside
    \/ \E r \in DOMAIN copied : TaskCompletes(r)

SessionSpec == SessionInit /\ [][SessionNext]_sessionVars

------------------------------------------------------------------------------
(* The property.                                                              *)

\* What a run amounts to: the last of its phases that raised decides.
VerdictOf(run) ==
    IF run.raised = <<>> THEN "passed"
    ELSE OutcomeOf(run.raised[Len(run.raised)][1], run.raised[Len(run.raised)][2])

\* The records tell what happened: each holds what its own run and that run's
\* task did, nothing of another run and nothing from outside, whatever raised,
\* was run again or ended late; its outcome is that of its run; it passes only
\* when every assertion held and every evaluation succeeded, unless the test
\* caught the failure itself; embeddings count as unsupported only when the
\* provider said so; and the summary accounts for every run.
RecordsFaithful ==
    LET sums == Summarize IN
    /\ \A r \in DOMAIN records :
           /\ records[r].test = done[r].test
           /\ records[r].entries = done[r].entries
           /\ done[r].ended => records[r].outcome = VerdictOf(done[r])
           /\ done[r].ended /\ records[r].outcome = "passed" /\ ~done[r].caught =>
                  \A e \in {"broken", "error", "uncovered"} : records[r].entries[e] = 0
    /\ (embedding = "no" \/ \E r \in DOMAIN records : records[r].entries["uncovered"] > 0) =>
           \E r \in DOMAIN done : done[r].declared
    /\ sums.total = sums.passed + sums.failed + sums.skipped + sums.error + CountOf("pending")
    /\ CountOf("pending") <= (IF item.at = "between" THEN 0 ELSE 1)
==============================================================================
