------------------------------- MODULE StoredRun -------------------------------
(* What is kept of the report of a run, and the recheck it must pass whenever *)
(* it is read: its conclusions follow from the evidence kept of each scenario *)
(* (see StoredRow of RunReport).  The checks of metrics and of execution      *)
(* evidence are those of the strict reader.  Pure operators.                  *)
EXTENDS Optional, QualityChecks, ExecutionEvidence

\* _quality: the declared metrics and no others, under the declared policy,
\* each with a score exactly where it has a conclusion.
ChecksAccepted(checks, policies) ==
    /\ DOMAIN checks = DOMAIN policies
    /\ \A m \in DOMAIN checks :
           /\ checks[m].metric = m
           /\ checks[m].required
           /\ checks[m].expectation = policies[m]
           /\ checks[m].threshold = <<policies[m]>>
           /\ checks[m].status \in CheckStatus
           /\ ScoreAgrees(checks[m], policies[m])

ChecksComplete(checks) == \A m \in DOMAIN checks : checks[m].status \in Concluded
ChecksPassed(checks)   == \A m \in DOMAIN checks : checks[m].status = "passed"

\* validate_execution: evidence exactly where the manifest has a policy, and
\* under that policy.
ExecutionAccepted(evidence, policy, turns) ==
    IF evidence = <<>> THEN policy = <<>>
    ELSE /\ policy = <<Content(evidence).policy>>
         /\ LET execution == Content(evidence) IN
            ValidExecution(execution.status, execution.unknown, execution.cleanup,
                           execution.attempts, [i \in DOMAIN turns |-> turns[i].status])

\* execution_complete
ExecutionSettled(evidence) ==
    evidence = <<>> \/ LET execution == Content(evidence)
                       IN  ExecutionComplete(execution.status, execution.unknown, execution.cleanup)

------------------------------------------------------------------------------
(* The projection that is kept.                                               *)

\* One row of validate_stored_evidence: the policy is the evidence's own.
StoredRowAccepted(row) ==
    LET policy   == IF row.execution = <<>> THEN <<>> ELSE <<Content(row.execution).policy>>
        complete == /\ Len(row.steps) = row.expected
                    /\ \A i \in DOMAIN row.steps : row.steps[i].status # "error"
                    /\ ChecksComplete(row.checks)
                    /\ ExecutionSettled(row.execution)
    IN  /\ ChecksAccepted(row.checks, row.policies)
        /\ row.steps # <<>>
        /\ \A i \in DOMAIN row.steps : /\ row.steps[i].index = i - 1
                                       /\ row.steps[i].status \in StepStatus
        /\ ExecutionAccepted(row.execution, policy, row.steps)
        /\ row.complete = complete
        /\ row.passed = /\ complete
                        /\ \A i \in DOMAIN row.steps : /\ row.steps[i].status = "passed"
                                                       /\ row.steps[i].assertionsPassed
                        /\ row.finalPassed
                        /\ ChecksPassed(row.checks)

\* validate_stored_evidence, which every OfflineRun passes when it is made and
\* whenever it is read.
StoredAccepted(stored) ==
    IF stored.verification = "legacy_unverified" THEN stored.evidence = <<>>
    ELSE LET rows == Content(stored.evidence) IN
         /\ DOMAIN rows # {} /\ DOMAIN rows = stored.ids
         /\ \A id \in DOMAIN rows : StoredRowAccepted(rows[id])
         /\ stored.complete = \A id \in DOMAIN rows : rows[id].complete
         /\ stored.passed = Cardinality({id \in DOMAIN rows : rows[id].passed})
         /\ stored.total = Cardinality(DOMAIN rows)
         /\ stored.gate = (stored.complete /\ stored.passed = stored.total)

\* OfflineRun.__post_init__; the scenario ids are a tuple.
ValidRun(stored) ==
    /\ stored.passed \in Nat /\ stored.failed \in Nat
    /\ stored.total = stored.passed + stored.failed
    /\ IsFiniteSet(stored.ids) /\ stored.ids # {}
    /\ StoredAccepted(stored)

\* OfflineRun.release_eligible
ReleaseEligible(stored) == stored.verification = "verified_v2" /\ stored.complete
================================================================================
