----------------------------- MODULE GateSuite ------------------------------
(* The gate suite, qe_platform/loadtest/gate_runner.py: for each scenario a load    *)
(* run with a fault asked for, then one without, judged by expectations and       *)
(* thresholds (gates.py); the command line turns the verdict into an exit code.    *)
(* The target's side of a fault is reference_agent/faults.py.                     *)
(*                                                                            *)
(* A suite is a raw configuration as the YAML file has it: defaults, thresholds   *)
(* and scenarios whose fields may be absent (an optional value is a set).          *)
(* Thresholds and expectations are functions on the fields that are given.         *)
EXTENDS LoadTest

CONSTANTS Suites,        \* the configurations to run
          LoadReplies,   \* what a request may meet, see Reply
          FaultSettings  \* the target's fault settings: [enabled, token]

\* A configuration lists its scenarios, and their faults have the fields of FaultSpec.
\* A reply without headers has no end of a body either.
ASSUME GateConstants ==
    /\ \A s \in Suites :
           /\ s.scenarios \in Seq({s.scenarios[i] : i \in DOMAIN s.scenarios})
           /\ \A i \in DOMAIN s.scenarios :
                  s.scenarios[i].fault \in [type : STRING, target : STRING,
                                           status_code : SUBSET Nat, delay_seconds : Nat]
    /\ LoadReplies \subseteq Reply
    /\ \A reply \in LoadReplies : reply.status = 0 => reply.end # "eof"

VARIABLES suite,     \* the configuration
          tokens,    \* the runner's fault token ("" if its variable is not set), the target's settings
          gate       \* where GateSuiteRunner.run is

gateVars == <<load, service, suite, tokens, gate>>

RateNames   == {"max_error_rate", "max_429_rate", "max_stream_interruption_rate"}
FloorNames  == {"min_throughput_rps", "min_goodput_rps"}
CostNames   == {"max_cost_total", "max_cost_per_success"}
ContentNames == {"max_ttft_p95_ms", "max_content_first_event_p95_ms"}
ThresholdNames == RateNames \cup FloorNames \cup CostNames \cup ContentNames
                    \cup {"max_latency_p95_ms"}
DirectNames == {"success", "status_code", "error_type"}
ObservedNames == {"fallback_reason", "knowledge_status", "ticket_status", "approval_status",
                  "source_count"}
ExpectationNames == DirectNames \cup ObservedNames \cup {"min_failed_tools", "min_duration_ms"}

\* GateThresholds: rates are in percent.
ValidThresholds(t) ==
    /\ DOMAIN t \subseteq ThresholdNames
    /\ \A name \in DOMAIN t : t[name] \in Nat /\ (name \in RateNames => t[name] <= 100)

ValidExpectation(e) ==
    /\ DOMAIN e \subseteq ExpectationNames
    /\ "status_code" \in DOMAIN e => e.status_code \in 100..599
    /\ \A name \in DOMAIN e \cap {"source_count", "min_failed_tools", "min_duration_ms"} :
           e[name] >= 0

------------------------------------------------------------------------------
(* Faults: as configured, as sent, as the target takes them.                     *)

SimpleFaults == {"model_timeout", "model_429", "knowledge_unavailable", "sse_interruption",
                 "database_error"}
ToolTargets == {"user", "asset", "ticket", "approval"}

\* A configured fault; the delay is in tenths of a second.
Fault(type, target, status, delay) ==
    [type |-> type, target |-> target, status_code |-> status, delay_seconds |-> delay]

\* FaultSpec.__post_init__, without the status it fills in.
ValidFault(f) ==
    /\ f.type \in SimpleFaults \cup {"downstream_5xx", "tool_slow_response"}
    /\ IF f.type \in SimpleFaults THEN f.target = "" ELSE f.target \in ToolTargets
    /\ \A code \in f.status_code : f.type = "downstream_5xx" /\ code \in 500..599
    /\ IF f.type = "tool_slow_response" THEN f.delay_seconds \in 1..50 ELSE f.delay_seconds = 0

WithStatus(f) ==
    IF f.type = "downstream_5xx" /\ f.status_code = {}
    THEN [f EXCEPT !.status_code = {503}] ELSE f

\* FaultSpec.as_dict: the fields the header carries.
FaultHeader(f) ==
    [type |-> f.type,
     target |-> IF f.target = "" THEN {} ELSE {f.target},
     status_code |-> f.status_code,
     delay_seconds |-> IF f.delay_seconds = 0 THEN {} ELSE {f.delay_seconds}]

AllowedFields(type) ==
    {"type"} \cup (CASE type = "downstream_5xx" -> {"target", "status_code"}
                     [] type = "tool_slow_response" -> {"target", "delay_seconds"}
                     [] OTHER -> {})

\* FaultProfile.from_json: {} for a refusal with 400.
FromJson(header) ==
    LET given  == {"type"} \cup {name \in {"target", "status_code", "delay_seconds"} :
                                    header[name] # {}}
        simple == header.type \in SimpleFaults
        target == \E t \in header.target : t \in ToolTargets
    IN  IF /\ header.type \in SimpleFaults \cup {"downstream_5xx", "tool_slow_response"}
           /\ given \subseteq AllowedFields(header.type)
           /\ simple \/ target
           /\ \A code \in header.status_code : code \in 500..599
           /\ header.type = "tool_slow_response" => \E d \in header.delay_seconds : d \in 1..50
        THEN {IF simple THEN Fault(header.type, "", {}, 0)
              ELSE IF header.type = "downstream_5xx"
              THEN Fault(header.type, The(header.target),
                         IF header.status_code = {} THEN {503} ELSE header.status_code, 0)
              ELSE Fault(header.type, The(header.target), {}, The(header.delay_seconds))}
        ELSE {}

\* FaultControlSettings.resolve: the fault a request meets, {} if it is refused.
Resolve(token, header) ==
    IF tokens.target.enabled /\ token # "" /\ token = tokens.target.token
    THEN FromJson(header) ELSE {}

------------------------------------------------------------------------------
(* The configuration, gate_config.py.                                            *)

Given(fields, name) == IF name \in DOMAIN fields THEN {fields[name]} ELSE {}
Either(first, second) == IF first # {} THEN first ELSE second

\* The fields a scenario runs with: its own, then the defaults, then those of
\* LoadTestConfig.  A duration given without a number of requests beside it, in
\* the scenario or in the defaults, takes the number away.
LoadOf(s) ==
    LET Field(name, otherwise) ==
            The(Either(Given(s, name), Either(Given(suite.defaults, name), {otherwise})))
        timed(fields) == "duration" \in DOMAIN fields /\ "requests" \notin DOMAIN fields
    IN  [protocol    |-> Field("protocol", "http"),
         requests    |-> IF timed(s) \/ timed(suite.defaults) THEN {} ELSE {Field("requests", 1)},
         duration    |-> Either(Given(s, "duration"), Given(suite.defaults, "duration")),
         concurrency |-> Field("concurrency", 1),
         warmup      |-> Field("warmup", 0)]

Thresholds(s) ==
    [name \in DOMAIN suite.thresholds \cup DOMAIN s.thresholds |->
        IF name \in DOMAIN s.thresholds THEN s.thresholds[name] ELSE suite.thresholds[name]]

\* load_gate_config raises ValueError otherwise.
ValidSuite ==
    /\ suite.scenarios # <<>>
    /\ \A i, j \in DOMAIN suite.scenarios : suite.scenarios[i].id = suite.scenarios[j].id => i = j
    /\ ValidThresholds(suite.thresholds)
    /\ \A i \in DOMAIN suite.scenarios :
           LET s == suite.scenarios[i] IN
           /\ ValidLoad(LoadOf(s))
           /\ ValidThresholds(s.thresholds)
           /\ ValidFault(s.fault)
           /\ ValidExpectation(s.expect) /\ ValidExpectation(s.recovery_expect)
           /\ s.fault.type = "sse_interruption" => LoadOf(s).protocol = "sse"

------------------------------------------------------------------------------
(* Judging, gates.py.  A check is identified by its stage and its name.           *)

Check(stage, name, passed) == [stage |-> stage, name |-> name, passed |-> passed]

SampleMeets(sample, name, wanted) ==
    CASE name \in DirectNames -> sample[name] = wanted
      [] name = "min_duration_ms" -> sample.duration >= wanted
      [] name = "min_failed_tools" -> "failed_tool_count" \in DOMAIN sample.observations
                                        /\ sample.observations.failed_tool_count >= wanted
      [] OTHER -> name \in DOMAIN sample.observations /\ sample.observations[name] = wanted

\* evaluate_samples: without a sample nothing is met.
EvaluateSamples(samples, expectation, stage) ==
    {Check(stage, name, /\ samples # {}
                        /\ \A s \in samples : SampleMeets(s, name, expectation[name])) :
        name \in DOMAIN expectation}

\* The value of a metric as a set with its fraction, {} if it is not available.
Metric(summary, name) ==
    CASE name = "max_error_rate" -> {summary.error_rate}
      [] name = "max_429_rate" -> {summary.rate_429}
      [] name = "max_stream_interruption_rate" -> summary.stream_interruption_rate
      [] name = "max_latency_p95_ms" -> summary.latency_p95
      [] name = "max_ttft_p95_ms" -> summary.ttft_p95
      [] name = "max_content_first_event_p95_ms" -> summary.content_p95
      [] name = "min_throughput_rps" -> {summary.throughput_rps}
      [] name = "min_goodput_rps" -> {summary.goodput_rps}
      [] name = "max_cost_total" -> {<<c, 1>> : c \in summary.cost_total}
      [] name = "max_cost_per_success" ->
             IF summary.succeeded = 0 THEN {}
             ELSE {<<c, summary.succeeded>> : c \in summary.cost_total}

\* A metric over part of the samples is no metric.
Covered(summary, name) ==
    LET observed == IF name = "max_ttft_p95_ms" THEN summary.ttft_observed_count
                    ELSE summary.content_observed_count
    IN  /\ name \in ContentNames => /\ summary.stream_established_count > 0
                                    /\ observed = summary.stream_established_count
        /\ name \in CostNames => summary.cost_complete

Meets(name, fraction, limit) ==
    IF name \in FloorNames THEN fraction[1] >= limit * fraction[2]
    ELSE fraction[1] <= limit * fraction[2]

EvaluateThresholds(summary, thresholds, stage) ==
    {Check(stage, name, /\ Covered(summary, name)
                        /\ \E m \in Metric(summary, name) : Meets(name, m, thresholds[name])) :
        name \in DOMAIN thresholds}

\* Mutant: recovery is complete when every conversation that was named is found.
DatabaseCheckOfNamed(samples, found) ==
    LET named == UNION {s.conversation : s \in samples} IN
    Check("recovery", "database_recovery_session_count",
          Cardinality(found \cap named) = Cardinality(named))

\* _verify_database_recovery: the sessions found among those the samples named,
\* compared with the number of samples.
DatabaseCheck(samples, found) ==
    LET named == UNION {s.conversation : s \in samples} IN
    Check("recovery", "database_recovery_session_count",
          Cardinality(found \cap named) = Cardinality(samples))

------------------------------------------------------------------------------
(* The runner.                                                                *)

Scenario == suite.scenarios[gate.index]

\* Exit codes of gate_cli: not yet, and what main returns.
Exits == {"running", "passed", "execution", "config", "failed"}

GateInit ==
    /\ suite \in Suites
    /\ tokens \in [runner : {"", "token"}, target : FaultSettings]
    /\ load = Idle
    /\ service = Untouched
    /\ gate = [at |-> "start", index |-> 0, fault |-> {}, checks |-> {}, errors |-> {},
               results |-> <<>>, exit |-> "running"]

\* load_gate_config and the look for the token come before anything is sent.
GateStarts ==
    /\ gate.at = "start"
    /\ gate' = IF ValidSuite /\ tokens.runner # ""
               THEN [gate EXCEPT !.at = "scenario", !.index = 1]
               ELSE [gate EXCEPT !.at = "done", !.exit = "config"]
    /\ UNCHANGED <<load, service, suite, tokens>>

\* The fault goes with every request of the phase, warm-up included.
FaultPhaseBegins ==
    /\ gate.at = "scenario"
    /\ gate' = [gate EXCEPT !.at = "fault", !.checks = {}, !.errors = {},
                            !.fault = Resolve(tokens.runner, FaultHeader(WithStatus(Scenario.fault)))]
    /\ LoadBegins(LoadOf(Scenario))
    /\ UNCHANGED <<suite, tokens>>

\* A request whose fault is refused is answered 403 or 400, and changes nothing.
Refused == gate.at = "fault" /\ gate.fault = {}

Replies == IF Refused THEN {r \in LoadReplies : r.status \in {0, 400, 403}} ELSE LoadReplies
Persistence ==
    IF Refused THEN {FALSE} ELSE IF Scenario.fault.type = "database_error" THEN BOOLEAN ELSE {TRUE}

LoadGoesOn ==
    /\ gate.at \in {"fault", "recovery"} /\ Runs
    /\ LoadStep(Replies, Persistence)
    /\ UNCHANGED <<suite, tokens, gate>>

\* _run_phase: an exception of the run becomes one failed sample and an error.
PhaseSamples == IF load.stage = "raised" THEN {ExecutionErrorSample} ELSE load.samples
PhaseErrors == IF load.stage = "raised" THEN {gate.at} ELSE {}
PhaseEnds(place) == gate.at = place /\ load.stage \in {"returned", "raised"}

\* What a scenario leaves: GateScenarioResult, and beside it what the target did in
\* the recovery phase.
ScenarioResult(checks, errors) ==
    [gate_passed   |-> errors = {} /\ checks # {} /\ \A c \in checks : c.passed,
     failed_checks |-> Cardinality({c \in checks : ~c.passed}),
     errors        |-> Cardinality(errors),
     fault         |-> gate.fault,
     target        |-> IF gate.at = "fault" THEN {}
                       ELSE {[service EXCEPT !.persisted = Cardinality(@)]}]

NextScenario(checks, errors) ==
    /\ gate' = [gate EXCEPT !.results = Append(@, ScenarioResult(checks, errors)),
                            !.checks = {}, !.errors = {}, !.fault = {},
                            !.index = @ + 1,
                            !.at = IF gate.index < Len(suite.scenarios) THEN "scenario" ELSE "report"]
    /\ load' = Idle
    /\ service' = Untouched

FaultPhaseEnds ==
    /\ PhaseEnds("fault")
    /\ LET checks == EvaluateSamples(PhaseSamples, Scenario.expect, "fault") IN
       IF Scenario.recovery
       THEN /\ gate' = [gate EXCEPT !.at = "recovery", !.checks = checks, !.errors = PhaseErrors]
            /\ LoadBegins(LoadOf(Scenario))
       ELSE NextScenario(checks, PhaseErrors)
    /\ UNCHANGED <<suite, tokens>>

\* The thresholds judge the recovery phase only.  After an injected database error
\* the sessions of the samples are read back: a session that cannot be read as
\* JSON is not found, any other exception is an execution error.
RecoveryPhaseEnds(wall) ==
    /\ PhaseEnds("recovery")
    /\ LET summary == Summary(PhaseSamples, IF load.stage = "raised" THEN 0 ELSE wall)
           checks  == gate.checks
                        \cup EvaluateSamples(PhaseSamples, Scenario.recovery_expect, "recovery")
                        \cup EvaluateThresholds(summary, Thresholds(Scenario), "recovery")
           errors  == gate.errors \cup PhaseErrors
       IN  IF Scenario.fault.type = "database_error" /\ load.stage = "returned"
           THEN \/ \E unreadable \in SUBSET service.persisted :
                       NextScenario(checks \cup {DatabaseCheck(PhaseSamples,
                                                               service.persisted \ unreadable)}, errors)
                \/ NextScenario(checks, errors \cup {"recovery_verification"})
           ELSE NextScenario(checks, errors)
    /\ UNCHANGED <<suite, tokens>>

\* GateSuiteResult and main(): reports that cannot be written, then errors, then
\* the verdict.
Verdict(written) ==
    CASE ~written \/ \E i \in DOMAIN gate.results : gate.results[i].errors > 0 -> "execution"
      [] \E i \in DOMAIN gate.results : ~gate.results[i].gate_passed -> "failed"
      [] OTHER -> "passed"

GateReports(written) ==
    /\ gate.at = "report"
    /\ gate' = [gate EXCEPT !.at = "done", !.exit = Verdict(written)]
    /\ UNCHANGED <<load, service, suite, tokens>>

GateNext ==
    \/ GateStarts \/ FaultPhaseBegins \/ LoadGoesOn \/ FaultPhaseEnds
    \/ \E wall \in 0..1 : RecoveryPhaseEnds(wall)
    \/ \E written \in BOOLEAN : GateReports(written)

GateSpec == GateInit /\ [][GateNext]_gateVars

------------------------------------------------------------------------------
(* What a passed gate stands for.                                               *)

GateTypeOK ==
    /\ suite \in Suites
    /\ gate.at \in {"start", "scenario", "fault", "recovery", "report", "done"}
    /\ gate.exit \in Exits
    /\ load.stage \in {"idle", "warmup", "measure", "returned", "raised"}
    /\ Cardinality(load.flying) <= (IF Runs THEN Workers ELSE 0)

\* What a recovery that counts must have shown, in terms of the target and not of
\* the samples: the requests asked for were made, all of them were answered if
\* success is expected, at least as many sessions were left behind (those of the
\* warm-up among them) if the fault was in the database, and what they cost, in one
\* currency, is within the limit.
Recovered(s, target) ==
    /\ "duration" \notin DOMAIN s \cup DOMAIN suite.defaults =>
           target.served = The(LoadOf(s).requests)
    /\ "success" \in DOMAIN s.recovery_expect /\ s.recovery_expect.success =>
           target.served > 0 /\ target.answered = target.served
    /\ s.fault.type = "database_error" => target.persisted >= target.served
    /\ "max_cost_total" \in DOMAIN Thresholds(s) =>
           /\ target.billed <= Thresholds(s)["max_cost_total"]
           /\ Cardinality(target.currencies) <= 1

\* A suite passes only if every scenario ran, its fault reached the target as it was
\* configured or was refused, and the target recovered from it: lost, duplicated and
\* unpriced samples fail the gate instead of dropping out of it.
PassMeansRecovered ==
    gate.exit = "passed" =>
        /\ Len(gate.results) = Len(suite.scenarios)
        /\ \A i \in DOMAIN gate.results :
               LET s == suite.scenarios[i] IN
               /\ gate.results[i].fault \subseteq {WithStatus(s.fault)}
               /\ \A target \in gate.results[i].target : Recovered(s, target)
               /\ s.recovery => gate.results[i].target # {}
==============================================================================
