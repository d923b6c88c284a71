----------------------------- MODULE EvidenceChain -----------------------------
(* What becomes of evidence, put together: one asynchronous case and its row  *)
(* (half "async"), a batch of the synchronous runner and its report (half     *)
(* "sync"), and the release gate over imported runs (half "gate").  The       *)
(* halves share definitions, not variables: a behaviour is of one of them.    *)
EXTENDS CaseReport, EntryGates, ReleaseGate

\* A batch is run after its manifest was frozen.
ASSUME FrozenAssumption == Freezable(Batch)

VARIABLE half

\* The manifest of the batch.
Manifest == Content(V1Manifest(Batch, <<>>))

------------------------------------------------------------------------------
ReportsInit ==
    /\ half \in {"async", "sync", "gate"}
    /\ Init
    /\ half # "async" => ~cancelEvent
    /\ IF half = "sync" THEN RunnerInit ELSE trial = Idle /\ results = <<>>
    /\ ReleaseInit

ReportsNext ==
    /\ UNCHANGED half
    /\ \/ half = "async" /\ Next /\ UNCHANGED <<runnerVars, releaseVars>>
       \/ half = "sync" /\ RunnerNext /\ UNCHANGED <<vars, releaseVars>>
       \/ half = "gate" /\ ReleaseNext /\ UNCHANGED <<vars, runnerVars>>

ReportsSpec == ReportsInit /\ [][ReportsNext]_<<half, vars, runnerVars, releaseVars>>

------------------------------------------------------------------------------
(* What a report must mean, without recourse to its assertions.               *)

Satisfies(expect, response, calls) ==
    /\ \A i \in DOMAIN expect.contains : expect.contains[i] \in response.answer
    /\ \A i \in DOMAIN expect.excludes : expect.excludes[i] \notin response.answer
    /\ \A i \in DOMAIN expect.sources : (response.sources # "none") = expect.sources[i]
    /\ \A i \in DOMAIN expect.tools :
           LET tool == expect.tools[i] IN
           /\ i <= Len(calls)
           /\ calls[i].name = tool.name /\ calls[i].status = tool.status
           /\ Compare(tool.arguments, calls[i].arguments, TRUE)
           /\ Declared(tool.argumentsSchema) => calls[i].arguments \in Content(tool.argumentsSchema)
           /\ Declared(tool.resultSchema) /\ calls[i].status = "succeeded" =>
                  calls[i].result \in Content(tool.resultSchema)
    /\ expect.order # <<>> =>
           LET names == [i \in DOMAIN calls |-> calls[i].name] IN
           IF expect.strict THEN names = expect.order
           ELSE \E at \in [DOMAIN expect.order -> DOMAIN names] :
                    /\ \A i \in DOMAIN at : names[at[i]] = expect.order[i]
                    /\ \A i, j \in DOMAIN at : i < j => at[i] < at[j]
    /\ \A i \in DOMAIN expect.state :
           StateHolds(expect.state[i].operator, Lookup(AsJson(response), expect.state[i].path),
                      expect.state[i].value)

\* Every turn was answered as expected, the dialogue as a whole is as expected,
\* every metric was scored on the right side of its threshold, and nothing of
\* the execution is unsettled nor its adapter left open.
Earned(row, plan) ==
    LET Answer(i) == Content(row.steps[i].response) IN
    /\ Len(row.steps) = Len(plan.conversation)
    /\ \A i \in DOMAIN row.steps : Declared(row.steps[i].response)
    /\ \A i \in DOMAIN row.steps :
           LET turn == plan.conversation[i] IN
           Declared(turn.expect) => Satisfies(Content(turn.expect), Answer(i), Answer(i).calls)
    /\ Satisfies(plan.expect, Answer(Len(row.steps)), CallsOf(row.steps))
    /\ \A m \in DOMAIN plan.metrics :
           /\ row.checks[m].score # <<>>
           /\ Meets(m, Content(row.checks[m].score), plan.metrics[m])
           /\ m \in Grounded => HasContext(Answer(Len(row.steps)))
    /\ row.execution # <<>> => /\ Content(row.execution).status = "completed"
                               /\ ~Content(row.execution).unknown
                               /\ Content(row.execution).cleanup \in {"closed", "borrowed"}

\* Rows that differ from `row` in one member of the evidence.
AlteredSteps(list) ==
    UNION {{[list EXCEPT ![i].status = verdict] : verdict \in StepStatus}
           \cup {[list EXCEPT ![i].response = <<r>>] : r \in Responses}
           \cup {[list EXCEPT ![i].assertions = <<>>],
                 [list EXCEPT ![i].assertions = [j \in DOMAIN @ |-> [@[j] EXCEPT !.passed = TRUE]]]}
           : i \in DOMAIN list}

AlteredChecks(checks) ==
    UNION {{[checks EXCEPT ![m].status = verdict] : verdict \in CheckStatus}
           \cup {[checks EXCEPT ![m].score = s] : s \in {<<>>, <<One>>, <<Zero>>}}
           \cup {[checks EXCEPT ![m].expectation = 0], [checks EXCEPT ![m].threshold = <<0>>],
                 Restriction(checks, DOMAIN checks \ {m})}
           : m \in DOMAIN checks}

AlteredExecution(evidence) ==
    IF evidence = <<>> THEN {<<[policy |-> CasePolicy, status |-> "completed", unknown |-> FALSE,
                                cleanup |-> "closed", attempts |-> <<>>]>>}
    ELSE {<<>>, <<[evidence[1] EXCEPT !.status = "completed"]>>, <<[evidence[1] EXCEPT !.unknown = FALSE]>>,
          <<[evidence[1] EXCEPT !.cleanup = "closed"]>>, <<[evidence[1] EXCEPT !.attempts = <<>>]>>}

Altered(row) ==
    {row}
    \cup {[row EXCEPT !.steps = s] : s \in AlteredSteps(row.steps)}
    \cup {[row EXCEPT !.checks = k] : k \in AlteredChecks(row.checks)}
    \cup {[row EXCEPT !.execution = e] : e \in AlteredExecution(row.execution)}
    \cup {[row EXCEPT !.final = [j \in DOMAIN @ |-> [@[j] EXCEPT !.passed = TRUE]]]}
    \cup (IF row.final = <<>> THEN {} ELSE {[row EXCEPT !.final = Tail(@)]})

\* Whatever is claimed of an altered row: accepted is only what was earned.
ClaimsEarned(row, plan, policy) ==
    \A other \in Altered(row) :
        LET claim == [other EXCEPT !.complete = TRUE, !.passed = TRUE]
        IN  RowAccepted(claim, plan, policy) => Earned(claim, plan)

\* A scenario passes exactly if what the service did earns it.  The report of
\* the results is built if, and only if, its reader can rebuild the expectations
\* it comes to; it is then imported and found good when it is read again, says
\* of each what the runner said, and the gate that ran them says the same.
Faithful(rows, manifest) ==
    LET report == Assembled(rows, <<manifest>>)
        stored == OfflineRun(report, <<manifest>>)
        read   == \A i \in DOMAIN rows : Rebuilt(rows[i], Plan(manifest, rows[i].id))
        good   == \A i \in DOMAIN rows : rows[i].passed
    IN  /\ \A i \in DOMAIN rows : rows[i].passed <=> Earned(rows[i], Plan(manifest, rows[i].id))
        /\ ReportBuilt(rows, <<manifest>>) <=> read
        /\ read =>
               /\ Parsable(report, <<manifest>>)
               /\ ValidRun(stored)
               /\ \A i \in DOMAIN rows :
                      Content(stored.evidence)[rows[i].id].passed = rows[i].passed
               /\ ReleaseEligible(stored) = \A i \in DOMAIN rows : rows[i].complete
               /\ V1Exit(rows, <<manifest>>) = <<IF good THEN 0 ELSE 1>>

\* The Dify gate tells a service that answers wrongly (3) from one that could
\* not be judged (1), and its redacted steps still show why.
DifyFaithful(rows) ==
    /\ DifyExit(rows) = IF \A i \in DOMAIN rows : rows[i].passed THEN 0
                        ELSE IF \A i \in DOMAIN rows : rows[i].complete THEN 3 ELSE 1
    /\ \A i \in DOMAIN rows :
           LET shown == DifyReport(rows).rows[i] IN
           \A j \in DOMAIN shown.steps :
               (shown.steps[j].status = "passed") =
                   (Declared(shown.steps[j].response) /\ AllPassed(shown.steps[j].assertions))

\* The reader and the writers of a report agree.  A scenario passes exactly if
\* what the service did earns it.  Whatever a run ends in, its report and that
\* of each scenario alone is accepted, by the strict reader and by the recheck
\* of what was stored, with the conclusions of the runner, and is refused for
\* one reason only: an expectation the reader comes to asks for the shape of a
\* tool's result and not of its arguments.  And no change of a single piece of
\* evidence, with whatever conclusions claimed, gets a pass accepted that is
\* not earned.
ReportExact ==
    /\ half = "sync" /\ BatchDone =>
           /\ Faithful(results, Manifest)
           /\ DifyFaithful(results)
           /\ \A i \in DOMAIN results :
                  /\ Faithful(<<results[i]>>, Frozen(<<Batch[i]>>, <<>>))
                  /\ ClaimsEarned(results[i], Plan(Manifest, results[i].id), <<>>)
    /\ half = "async" =>
           \A c \in Cases : Returned(c) =>
               /\ Faithful(<<CaseRow(c)>>, CaseManifest)
               /\ ClaimsEarned(CaseRow(c), CaseScenario, <<CasePolicy>>)

\* The guide on releases says that the native gate freezes the plan before the
\* execution and writes a qe-run-v2 report: a batch in which every scenario
\* passed has one, and the gate ends with 0.
PassedIsReported ==
    half = "sync" /\ BatchDone /\ (\A i \in DOMAIN results : results[i].passed)
        => V1Exit(results, <<Manifest>>) = <<0>>
==============================================================================
