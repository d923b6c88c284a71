------------------------------ MODULE ReleaseGate ------------------------------
(* validate_release: a candidate run is compared with a baseline run, by what *)
(* their reports say and by the feedback on the production traces linked to   *)
(* them.  The links of the candidate, the online rows, the links of the       *)
(* baseline, the online rows again and, at last, the number of links are read *)
(* under a lock of their own each; between two of these reads feedback comes  *)
(* in, is reviewed, promoted and linked, and expired traces are purged.       *)
(*                                                                            *)
(* An item is a feedback with its review and its promotion: "open" until its  *)
(* review confirms it as low quality.  The call has one `now` for all its     *)
(* reads, so a trace leaves the rows only by being purged.  Which caller may  *)
(* see which application belongs to QualityLoop; here the call is unscoped.   *)
EXTENDS StoredRun

CONSTANTS Items,       \* feedback that may be given
          TraceOf,     \* the trace each is about
          StoredRuns,  \* run id -> the stored offline run and its labels
          Linkable,    \* bound: the runs that links are made to
          Comparisons, \* the calls made: a baseline, a candidate, a ReleaseGatePolicy
          MaxWrites    \* bound on the writes of others during the call

ASSUME GateAssumption ==
    IsFiniteSet(Items) /\ MaxWrites \in Nat /\ Linkable \subseteq DOMAIN StoredRuns

\* A run is read back through OfflineRun, and the limits of a policy are rates.
ASSUME ComparedAssumption ==
    /\ \A id \in DOMAIN StoredRuns : ValidRun(StoredRuns[id].run)
    /\ \A c \in Comparisons :
           /\ {c.baseline, c.candidate} \subseteq DOMAIN StoredRuns
           /\ {c.policy.failureRate, c.policy.passDrop, c.policy.lowIncrease} \subseteq 0..Scale

VARIABLES item,      \* the state of each item
          promoted,  \* items whose review has been promoted
          linked,    \* quality_links: pairs of an item and a run
          gate,      \* the call of validate_release
          seen       \* what its moments had in common, see Observe

releaseVars == <<item, promoted, linked, gate, seen>>

ItemState == {"none", "open", "low", "purged"}

Rate(part, whole) == [part |-> part, whole |-> whole]

Zero == Rate(0, 1)
One  == Rate(1, 1)

AtMost(x, y) == x.part * y.whole <= y.part * x.whole

\* x - y <= limit, for a limit in parts of Scale.
WithinIncrease(x, y, limit) ==
    (x.part * y.whole - y.part * x.whole) * Scale <= limit * x.whole * y.whole

------------------------------------------------------------------------------
(* What the reads return.                                                     *)

\* list_links of a run.
LinksOf(id) == {i \in promoted : <<i, id>> \in linked}

\* _linked_low_quality_rate: online_rows counts the feedback of each trace, and
\* the sum over the links counts a trace as often as it is linked.
LinkedRate(links) ==
    LET counted(states) == {pair \in links \X Items : /\ TraceOf[pair[1]] = TraceOf[pair[2]]
                                                      /\ item[pair[2]] \in states}
        feedback == counted({"open", "low"})
    IN  IF feedback = {} THEN Zero
        ELSE Rate(Cardinality(counted({"low"})), Cardinality(feedback))

------------------------------------------------------------------------------
(* The decision.                                                              *)

\* Mutant: a run that is complete is taken to be verified.
AdmittedIfComplete(baseline, candidate) ==
    /\ baseline.application = candidate.application
    /\ baseline.environment = candidate.environment
    /\ baseline.run.complete /\ candidate.run.complete
    /\ baseline.run.assets = candidate.run.assets

\* The runs validate_release compares; it refuses all others.
Admitted(baseline, candidate) ==
    /\ baseline.application = candidate.application
    /\ baseline.environment = candidate.environment
    /\ ReleaseEligible(baseline.run) /\ ReleaseEligible(candidate.run)
    /\ baseline.run.assets = candidate.run.assets

PassRate(report)    == IF report.total = 0 THEN Zero ELSE Rate(report.passed, report.total)
FailureRate(report) == IF report.total = 0 THEN One ELSE Rate(report.failed, report.total)

\* Mutant: the increase is measured from the candidate to the baseline.
RateIncreaseReversed(candidate, baseline, limit) == WithinIncrease(baseline, candidate, limit)

RateIncrease(candidate, baseline, limit) == WithinIncrease(candidate, baseline, limit)

\* The seven checks, by name.
ReleaseChecks(baseline, candidate, policy, candidateRate, baselineRate) ==
    [candidate_application |-> policy.application \in {"", candidate.application},
     candidate_release_id  |-> policy.release \in {"", candidate.release},
     candidate_complete    |-> policy.requireComplete => candidate.run.gate,
     scenario_set          |-> candidate.run.ids = baseline.run.ids,
     candidate_failure_rate |->
         WithinIncrease(FailureRate(candidate.run), Zero, policy.failureRate),
     pass_rate_drop |->
         WithinIncrease(PassRate(baseline.run), PassRate(candidate.run), policy.passDrop),
     low_quality_rate_increase |->
         RateIncrease(candidateRate, baselineRate, policy.lowIncrease)]

\* The validation that is saved.
Decision(linkedCount) ==
    LET checks == ReleaseChecks(StoredRuns[gate.baseline], StoredRuns[gate.candidate], gate.policy,
                                gate.candidateRate, gate.baselineRate)
    IN  [gate EXCEPT !.at = "saved", !.linkedCount = linkedCount,
                     !.passed = \A name \in DOMAIN checks : checks[name]]

------------------------------------------------------------------------------
(* The call, one read at a time.                                              *)

Reading == gate.at \in {"candidate links", "candidate rows", "baseline links",
                        "baseline rows", "recount"}

\* What is remembered of the moments since the call began, for the properties
\* only: the least rate of the candidate, the greatest of the baseline, how
\* many writes of others fell in between, and of which kind.
Observe(writes, relinks, purges) ==
    LET candidate == LinkedRate(LinksOf(gate.candidate))'
        baseline  == LinkedRate(LinksOf(gate.baseline))'
    IN  seen' = [least |-> IF AtMost(seen.least, candidate) THEN seen.least ELSE candidate,
                 most |-> IF AtMost(baseline, seen.most) THEN seen.most ELSE baseline,
                 writes |-> seen.writes + writes,
                 relinked |-> seen.relinked \/ relinks, purged |-> seen.purged \/ purges]

ReleaseInit ==
    /\ item = [i \in Items |-> "none"]
    /\ promoted = {}
    /\ linked = {}
    /\ gate = [at |-> "idle"]
    /\ seen = [least |-> One, most |-> Zero, writes |-> 0, relinked |-> FALSE, purged |-> FALSE]

\* Both runs are read and compared before anything else is looked at.
Validate(b, k, policy) ==
    /\ gate.at = "idle"
    /\ IF b # k /\ Admitted(StoredRuns[b], StoredRuns[k])
       THEN /\ gate' = [at |-> "candidate links", baseline |-> b, candidate |-> k,
                        policy |-> policy, links |-> {}, candidateRate |-> Zero,
                        baselineRate |-> Zero, linkedCount |-> 0, passed |-> FALSE]
            /\ seen' = [seen EXCEPT !.least = LinkedRate(LinksOf(k)),
                                    !.most = LinkedRate(LinksOf(b))]
       ELSE gate' = [at |-> "refused"] /\ UNCHANGED seen
    /\ UNCHANGED <<item, promoted, linked>>

ReadStep(next) ==
    /\ gate' = next
    /\ UNCHANGED <<item, promoted, linked, seen>>

\* Without links the rate is 0 and the rows are not read.
ReadCandidateLinks ==
    /\ gate.at = "candidate links"
    /\ LET links == LinksOf(gate.candidate) IN
       ReadStep([gate EXCEPT !.links = links,
                             !.at = IF links = {} THEN "baseline links" ELSE "candidate rows"])

ReadCandidateRows ==
    /\ gate.at = "candidate rows"
    /\ ReadStep([gate EXCEPT !.at = "baseline links", !.links = {},
                             !.candidateRate = LinkedRate(gate.links)])

ReadBaselineLinks ==
    /\ gate.at = "baseline links"
    /\ LET links == LinksOf(gate.baseline) IN
       ReadStep([gate EXCEPT !.links = links,
                             !.at = IF links = {} THEN "recount" ELSE "baseline rows"])

ReadBaselineRows ==
    /\ gate.at = "baseline rows"
    /\ ReadStep([gate EXCEPT !.at = "recount", !.links = {},
                             !.baselineRate = LinkedRate(gate.links)])

RecountAndSave ==
    /\ gate.at = "recount"
    /\ ReadStep(Decision(Cardinality(LinksOf(gate.candidate))))

------------------------------------------------------------------------------
(* The others: before the call without bound, during it MaxWrites times.      *)

Other(relinks, purges) ==
    \/ gate.at = "idle" /\ UNCHANGED <<gate, seen>>
    \/ /\ Reading /\ seen.writes < MaxWrites
       /\ UNCHANGED gate
       /\ Observe(1, relinks, purges)

Give(i) ==
    /\ item[i] = "none"
    /\ item' = [item EXCEPT ![i] = "open"]
    /\ UNCHANGED <<promoted, linked>>
    /\ Other(FALSE, FALSE)

\* upsert_review replaces the verdict, in either direction.
Judge(i) ==
    /\ item[i] \in {"open", "low"}
    /\ item' = [item EXCEPT ![i] = IF @ = "open" THEN "low" ELSE "open"]
    /\ UNCHANGED <<promoted, linked>>
    /\ Other(FALSE, FALSE)

Promote(i) ==
    /\ item[i] = "low"
    /\ i \notin promoted
    /\ promoted' = promoted \cup {i}
    /\ UNCHANGED <<item, linked>>
    /\ Other(FALSE, FALSE)

Link(i, id) ==
    /\ i \in promoted
    /\ <<i, id>> \notin linked
    /\ linked' = linked \cup {<<i, id>>}
    /\ UNCHANGED <<item, promoted>>
    /\ Other(TRUE, FALSE)

\* An expired trace goes with its feedback, its promotions and their links.
Purge(t) ==
    LET gone == {i \in Items : TraceOf[i] = t} IN
    /\ \E i \in gone : item[i] # "purged"
    /\ item' = [i \in Items |-> IF i \in gone THEN "purged" ELSE item[i]]
    /\ promoted' = promoted \ gone
    /\ linked' = {pair \in linked : pair[1] \notin gone}
    /\ Other(FALSE, TRUE)

ReleaseNext ==
    \/ \E c \in Comparisons : Validate(c.baseline, c.candidate, c.policy)
    \/ ReadCandidateLinks \/ ReadCandidateRows
    \/ ReadBaselineLinks \/ ReadBaselineRows
    \/ RecountAndSave
    \/ \E i \in Items : Give(i) \/ Judge(i) \/ Promote(i)
    \/ \E i \in Items, id \in Linkable : Link(i, id)
    \/ \E i \in Items : Purge(TraceOf[i])

ReleaseSpec == ReleaseInit /\ [][ReleaseNext]_releaseVars

------------------------------------------------------------------------------
(* The properties.                                                            *)

Released == gate.at = "saved" /\ gate.passed

\* A release is passed only on two runs whose evidence was checked against an
\* independently selected manifest, the same for both, and in which every
\* scenario ran to its end, was judged on every metric and, as far as the
\* policy has no tolerance, met every expectation.
Warranted(baseline, candidate, policy) ==
    /\ \A report \in {baseline, candidate} :
           /\ report.verification = "verified_v2"
           /\ \A id \in report.ids : Content(report.evidence)[id].complete
    /\ baseline.assets = candidate.assets
    /\ policy.requireComplete \/ policy.failureRate = 0 =>
           \A id \in candidate.ids : Content(candidate.evidence)[id].passed

ReleaseSound ==
    Released => Warranted(StoredRuns[gate.baseline].run, StoredRuns[gate.candidate].run,
                          gate.policy)

\* The verdict on the production feedback is right at some moment of the call:
\* when nothing was purged or linked meanwhile, no candidate passes that was
\* worse than the policy allows at every moment compared with every other; and
\* links made meanwhile do not save one whose linked feedback was low quality
\* throughout while none of the baseline's was.
RegressionBlocks ==
    Released /\ ~seen.purged /\ (~seen.relinked \/ (seen.least = One /\ seen.most = Zero)) =>
        WithinIncrease(seen.least, seen.most, gate.policy.lowIncrease)
==============================================================================
