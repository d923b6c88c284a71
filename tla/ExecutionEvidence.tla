-------------------------- MODULE ExecutionEvidence --------------------------
(* The reader's side of one asynchronous case: which execution evidence       *)
(* validate_execution accepts, and when a case counts as complete.  Pure      *)
(* operators, shared by the runner that produces the evidence and by anything *)
(* that reads it back.                                                        *)
(*                                                                            *)
(* Steps are numbered from 1.  The operation key of an attempt is a hash of   *)
(* the session and of the step index, hence a function of the step: it is     *)
(* represented by the step itself.  Stage timings and the policy record are   *)
(* data no property distinguishes and are left out.                           *)
EXTENDS Integers, Sequences, FiniteSets

CONSTANTS ExpectedSteps,  \* the number of steps the controlled manifest plans
          MaxAttempts     \* ExecutionBudget.max_attempts

ASSUME EvidenceAssumption ==
    /\ ExpectedSteps \in Nat \ {0}
    /\ MaxAttempts \in Nat \ {0}

FinalStatus    == {"completed", "deadline", "cancelled", "error"}
CleanupStatus  == {"closed", "borrowed", "not_created", "timeout", "unresponsive", "error"}
StepStatus     == {"passed", "failed", "error"}

Attempt == [step : Nat \ {0}, number : Nat \ {0},
            status : {"started"} \cup FinalStatus, unknown : BOOLEAN]

\* The attempts made on step s, as positions in the list.
AttemptsOn(tries, s) == {i \in DOMAIN tries : tries[i].step = s}

\* The last of them closes the step (the code's terminal[index]).
Terminal(tries, s) ==
    tries[CHOOSE i \in AttemptsOn(tries, s) :
             \A j \in AttemptsOn(tries, s) : j <= i]

\* The order the reader demands of two neighbouring attempts: a retry of the
\* same step only after a failure whose effect is known, the next step only
\* after a completed one.
Follows(previous, next) ==
    \/ /\ next.step = previous.step
       /\ previous.status = "error"
       /\ ~previous.unknown
    \/ /\ next.step = previous.step + 1
       /\ previous.status = "completed"

ValidAttempt(tries, verdicts, i) ==
    LET attempt == tries[i] IN
    /\ attempt.step <= ExpectedSteps
    /\ attempt.step <= Len(verdicts)
    /\ IF i = 1 THEN attempt.step = 1 ELSE Follows(tries[i - 1], attempt)
    /\ attempt.number = Cardinality({j \in AttemptsOn(tries, attempt.step) : j <= i})
    /\ attempt.number <= MaxAttempts
    /\ attempt.status \in FinalStatus
    /\ attempt.status = "completed" => ~attempt.unknown

\* validate_execution returns the evidence instead of raising ValueError.
ValidExecution(ended, doubt, closing, tries, verdicts) ==
    /\ ended \in FinalStatus
    /\ closing \in CleanupStatus
    /\ verdicts # <<>>
    /\ Len(verdicts) <= ExpectedSteps
    /\ \A i \in DOMAIN tries : ValidAttempt(tries, verdicts, i)
    /\ \A s \in DOMAIN verdicts : verdicts[s] # "error" =>
           /\ AttemptsOn(tries, s) # {}
           /\ Terminal(tries, s).status = "completed"
    /\ ended = "completed" => /\ Len(verdicts) = ExpectedSteps
                              /\ \A s \in DOMAIN verdicts : verdicts[s] # "error"
    /\ (\E i \in DOMAIN tries : tries[i].unknown) => doubt

\* execution_complete: the execution may count towards a release.
ExecutionComplete(ended, doubt, closing) ==
    /\ ended = "completed"
    /\ ~doubt
    /\ closing \in {"closed", "borrowed"}
==============================================================================
