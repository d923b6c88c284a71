------------------------------- MODULE RunReport -------------------------------
(* The report of a run and those who read it back: the manifest that is       *)
(* frozen before the run, the report assembled from the results, the strict   *)
(* reader that recomputes every conclusion from the evidence, and the         *)
(* projection that is stored.  Pure operators.                                *)
(*                                                                            *)
(* The strict reader checks with the runner's own _check_expectation, which   *)
(* is why this module extends ScenarioRunner.  A digest is injective: it is   *)
(* the value it is computed from.  Types of JSON members, usage, cost,        *)
(* latencies, labels and the wording of the HTML page are left out, and so is *)
(* a null inside the JSON values of a scenario under a name that              *)
(* RunManifest.from_dict strips (session_id, expect, ...).                    *)
EXTENDS ScenarioRunner, StoredRun

------------------------------------------------------------------------------
(* The manifest: the controlled part of every scenario, and the policy of an  *)
(* asynchronous execution if one is controlled.                               *)

\* freeze_run_manifest accepts the scenarios; it would also sort them.
Freezable(scenarios) ==
    /\ scenarios # <<>>
    /\ \A i, j \in DOMAIN scenarios : scenarios[i].id = scenarios[j].id => i = j
    /\ \A i \in DOMAIN scenarios : scenarios[i].conversation # <<>>

Frozen(scenarios, policy) ==
    [plans |-> {scenarios[i] : i \in DOMAIN scenarios}, policy |-> policy]

PlanIds(manifest) == {plan.id : plan \in manifest.plans}

Plan(manifest, id) == CHOOSE plan \in manifest.plans : plan.id = id

------------------------------------------------------------------------------
(* The report.  A row is what a result's as_dict leaves, see ResultOf.        *)

PassedRows(rows) == {i \in DOMAIN rows : rows[i].passed}

\* RunReport with its computed members.
Assembled(rows, manifest) ==
    LET complete == rows # <<>> /\ \A i \in DOMAIN rows : rows[i].complete
        passed   == Cardinality(PassedRows(rows))
    IN  [manifest |-> manifest, rows |-> rows, total |-> Len(rows), passed |-> passed,
         failed |-> Len(rows) - passed, complete |-> complete,
         gate |-> complete /\ passed = Len(rows)]

------------------------------------------------------------------------------
(* validate_v2_report.                                                        *)

\* Only a case that ended before its first turn may leave out the user.
UserAccepted(step, turn, alone) ==
    step.user = turn.user \/ (alone /\ step.status = "error" /\ step.user = "")

\* _expect, on the controls of the manifest.  A schema that is not declared is a
\* null there, which the contract of a tool with a result schema does not take
\* for the schema of its arguments; otherwise what was declared comes back.
Rebuildable(expect) ==
    \A i \in DOMAIN expect.tools :
        Declared(expect.tools[i].resultSchema) => Declared(expect.tools[i].argumentsSchema)

\* What a step says, computed again with the expectation of its turn.
StepAgrees(step, turn, index, turns) ==
    /\ step.index = index - 1
    /\ step.status \in StepStatus
    /\ UserAccepted(step, turn, Len(turns) = 1)
    /\ IF step.status = "error"
       THEN index = Len(turns) /\ step.response = <<>> /\ step.assertions = <<>>
       ELSE /\ step.error = "" /\ Declared(step.response)
            /\ step.assertions = StepResults(turn, Content(step.response))
            /\ (step.status = "passed") = AllPassed(step.assertions)

\* The calls of the answered steps, in the order of the dialogue.
CallsOf(turns) ==
    FlattenSeq([i \in DOMAIN turns |->
        IF Declared(turns[i].response) THEN Content(turns[i].response).calls ELSE <<>>])

AdapterFailed(turns) == Len(turns) = 1 /\ turns[1].status = "error" /\ turns[1].user = ""

\* The checks of the whole dialogue, computed again.
FinalResults(plan, turns) ==
    IF AdapterFailed(turns) THEN <<>>
    ELSE CheckExpectation(plan.expect, Last(turns).response, CallsOf(turns), Last(turns).error)

\* The reader can rebuild every expectation it comes to: that of each turn that
\* was answered, and that of the dialogue unless there was no adapter to talk to.
Rebuilt(row, plan) ==
    /\ \A i \in DOMAIN row.steps :
           LET turn == plan.conversation[i] IN
           row.steps[i].status # "error" /\ Declared(turn.expect)
               => Rebuildable(Content(turn.expect))
    /\ AdapterFailed(row.steps) \/ Rebuildable(plan.expect)

\* The checks a row reports, without the record of an interruption.
ReportedFinal(row) ==
    IF Last(row.steps).status = "error" THEN Tail(row.final) ELSE row.final

\* A dialogue is executed to its end or its interruption is on record.
EndAccepted(row, plan) ==
    LET executed == StepsDone(row.steps, Len(plan.conversation))
    IN  IF Last(row.steps).status = "error"
        THEN row.final # <<>> /\ row.final[1].type = "execution" /\ ~row.final[1].passed
        ELSE executed

\* What was not executed, or has no source to be judged against, is not judged.
JudgedAccepted(row, plan) ==
    IF StepsDone(row.steps, Len(plan.conversation))
    THEN HasContext(Content(Last(row.steps).response)) \/
         \A m \in DOMAIN row.checks \cap Grounded : row.checks[m].status \notin Concluded
    ELSE \A m \in DOMAIN row.checks : row.checks[m].status = "not_executed"

RowComplete(row, plan) ==
    /\ StepsDone(row.steps, Len(plan.conversation))
    /\ ChecksComplete(row.checks)
    /\ ExecutionSettled(row.execution)

RowPassed(row, plan) ==
    /\ RowComplete(row, plan)
    /\ \A i \in DOMAIN row.steps : row.steps[i].status = "passed"
    /\ AllPassed(ReportedFinal(row))
    /\ ChecksPassed(row.checks)

\* Every conclusion of the row, computed again from its evidence.
RowAgrees(row, plan, policy) ==
    /\ Len(row.steps) \in 1..Len(plan.conversation)
    /\ \A i \in DOMAIN row.steps : StepAgrees(row.steps[i], plan.conversation[i], i, row.steps)
    /\ ExecutionAccepted(row.execution, policy, row.steps)
    /\ EndAccepted(row, plan)
    /\ ReportedFinal(row) = FinalResults(plan, row.steps)
    /\ ChecksAccepted(row.checks, plan.metrics)
    /\ JudgedAccepted(row, plan)
    /\ row.complete = RowComplete(row, plan)
    /\ row.passed = RowPassed(row, plan)

RowAccepted(row, plan, policy) == RowAgrees(row, plan, policy) /\ Rebuilt(row, plan)

\* The counts and the gate of a report follow from its rows.
TotalsAccepted(report) ==
    LET recomputed == Assembled(report.rows, report.manifest) IN
    /\ report.total = recomputed.total
    /\ report.passed = recomputed.passed
    /\ report.failed = recomputed.failed
    /\ report.complete = recomputed.complete
    /\ report.gate = recomputed.gate

\* validate_v2_report: `trusted` is the manifest selected independently, if any.
V2Accepted(report, trusted) ==
    LET manifest == Content(report.manifest) IN
    /\ Declared(trusted) => trusted = report.manifest
    /\ \A i, j \in DOMAIN report.rows : report.rows[i].id = report.rows[j].id => i = j
    /\ {report.rows[i].id : i \in DOMAIN report.rows} = PlanIds(manifest)
    /\ \A i \in DOMAIN report.rows :
           RowAccepted(report.rows[i], Plan(manifest, report.rows[i].id), manifest.policy)
    /\ TotalsAccepted(report)

\* build_run_report hands out no report its own reader refuses.
ReportBuilt(rows, manifest) ==
    /\ \A i, j \in DOMAIN rows : rows[i].id = rows[j].id => i = j
    /\ Declared(manifest) => V2Accepted(Assembled(rows, manifest), manifest)

------------------------------------------------------------------------------
(* Import: the projection that is kept of a report.                           *)

\* The evidence kept of a row: conclusions and coverage, no responses.
StoredRow(row, plan) ==
    [expected |-> Len(plan.conversation),
     steps |-> [i \in DOMAIN row.steps |->
        [index |-> row.steps[i].index, status |-> row.steps[i].status,
         assertionsPassed |-> AllPassed(row.steps[i].assertions)]],
     finalPassed |-> AllPassed(ReportedFinal(row)),
     checks |-> row.checks, policies |-> plan.metrics, execution |-> row.execution,
     complete |-> row.complete, passed |-> row.passed]

RowOfId(rows, id) == CHOOSE row \in {rows[i] : i \in DOMAIN rows} : row.id = id

\* OfflineRun as parse_run_report makes it of an accepted report; what a legacy
\* report says of its completeness is not taken over.
OfflineRun(report, trusted) ==
    [verification |-> IF ~Declared(report.manifest) THEN "legacy_unverified"
                      ELSE IF Declared(trusted) THEN "verified_v2" ELSE "unverified_manifest",
     total |-> report.total, passed |-> report.passed, failed |-> report.failed,
     gate |-> report.gate, complete |-> Declared(report.manifest) /\ report.complete,
     ids |-> {report.rows[i].id : i \in DOMAIN report.rows},
     assets |-> report.manifest,
     evidence |-> IF ~Declared(report.manifest) THEN <<>>
                  ELSE <<[id \in PlanIds(Content(report.manifest)) |->
                             StoredRow(RowOfId(report.rows, id),
                                       Plan(Content(report.manifest), id))]>>]

\* What a summary must not claim, whatever its version.
SummaryAccepted(row) ==
    /\ (\/ \E i \in DOMAIN row.steps : row.steps[i].status = "error"
        \/ \E m \in DOMAIN row.checks : row.checks[m].status \notin Concluded)
       => ~row.complete /\ ~row.passed
    /\ row.passed => /\ row.complete
                     /\ \A i \in DOMAIN row.steps : row.steps[i].status # "failed"
                     /\ \A m \in DOMAIN row.checks : row.checks[m].status # "failed"

\* parse_run_report accepts the report.  A legacy report has no manifest and
\* can be taken for nothing else.
Parsable(report, trusted) ==
    /\ IF Declared(report.manifest) THEN V2Accepted(report, trusted) ELSE trusted = <<>>
    /\ report.rows # <<>>
    /\ \A i, j \in DOMAIN report.rows : report.rows[i].id = report.rows[j].id => i = j
    /\ \A i \in DOMAIN report.rows : SummaryAccepted(report.rows[i])
    /\ report.total = Len(report.rows)
    /\ report.passed = Cardinality(PassedRows(report.rows))
    /\ report.failed = report.total - report.passed
    /\ report.gate = (report.failed = 0 /\ \A i \in DOMAIN report.rows : report.rows[i].complete)
==============================================================================
