# llm-test-framework: models, checks and proofs

The repository is a quality platform for applications built on language models:
a scenario runner that drives an application under test, a database of what
production reported about it, a loop that turns confirmed complaints into
regression scenarios and release decisions, the authentication in front of that,
the operations around it (migrations, backups, load tests), and a reference
application, a service desk, to test against.  `llmtest/` is the older pytest
plugin the platform grew from.

This directory models the parts of it whose behaviour depends on order (on
threads, tasks, transactions, retries, crashes and clocks) and the chain of
evidence between them: from a response and its checks to a report, the readers
of the report and the release decided on it.  Paths below are those of the
repository.

- [1 The system](#1-the-system)
- [2 The modules](#2-the-modules)
- [3 What the runs check](#3-what-the-runs-check)
- [4 What is proved](#4-what-is-proved)
- [5 Disagreements found](#5-disagreements-found)
- [6 Not modelled, and the plan](#6-not-modelled-and-the-plan)
- [7 Running it](#7-running-it)

## 1 The system

### Components, their state and their operations

| Component | State | Operations | What is hard |
|---|---|---|---|
| Asynchronous scenario runner, `qe_platform/workflow_runner/{async_runner,budget,execution,models}.py` | per batch: a semaphore, a cancel event; per case: a worker task, attempts, steps, status, cleanup status, adapter | `run_many`, `run`, `_work`, cleanup, `validate_execution` | deadline against cancellation against completion; callbacks that swallow cancellation; permits that never come back; results that arrive after the verdict |
| Telemetry store, `qe_platform/storage/telemetry.py`, `telemetry/api.py`, `feedback/` | SQLite tables of traces, feedback, reviews, promotions | ingest, feedback, review, promote, expire, delete | HTTP requests look up and authorise, await a body, then write; retention deletes underneath; identifiers are reused |
| Quality loop, `qe_platform/quality_loop/` | tables of offline runs, links, validations | import, link, validate, decide, list | a chain of six tables, only partly held by foreign keys; a command line that bypasses the API |
| Schema migrations, `qe_platform/storage/migrations.py` | `schema_meta`, the schema | open, apply | several processes open one database; a kill between statements and record; releases of different ages |
| Service desk, `reference_agent/` | SQLite tables of sessions, drafts, tickets, approvals | chat: claim, load, plan, act, save; confirmations; faults | two requests of one session; a retry after a fault; hints by a model that decides nothing |
| Authentication, `qe_platform/auth/` | tables of attempts and sessions, cookies, an in-memory cache of the provider's keys | login, callback, protected request, logout, verify a token | overlapping logins; a repeated callback; sessions that end between two reads; an unlocked cache shared by threads; rotating keys |
| Backup and restore, `qe_platform/ops/{backup,restore}.py`, `deploy/` | a database file, its manifest, a pending marker, temporary files | back up, restore | a crash between two renames; two backups of one target; a restore in the middle |
| Load test and gate suite, `qe_platform/loadtest/` | shared counter, samples; a sequence of phases | run, fault phase, recovery phase, database check, judge | workers that share a counter or a deadline; replies that break off; phases that fail half way; samples that drop out of a rate |
| Synchronous runner and evaluation, `workflow_runner/{runner,quality}.py`, `contracts/`, `scenarios/models.py` | the dialogue so far | run, check a response, check the dialogue, evaluate | callbacks that raise anywhere; an evaluator's answer that must not be believed |
| Reports, `qe_platform/reporting/`, `quality_loop/models.py`, `v1_gate.py`, `dify_gate.py` | none: values derived from evidence | freeze, assemble, validate, project, recheck, exit code | every conclusion is derived again by each reader |
| Release gate, `quality_loop/engine.py` | the stored runs and links | `validate_release` | five reads under locks of their own while feedback goes on; zero denominators |
| Adapters, `qe_platform/adapters/` | table of conversations per user and session | send, aclose | read and write of the table under two holds of its lock; cancellation; answers that are lost |
| Judge calibration, `scripts/calibration_*.py` | reserved requests, tokens and money | send | reservations of calls that fail, nest or exceed their bound |
| `llmtest/`: plugin, tracker, clients, evaluations, assertions | records of the session, the active one of each context, what is known of embeddings | begin, record, report a phase, finish, summarise; ask, judge, detect, probe | tests that run again, tasks that outlive their test, exceptions in every phase, retries |
| Production settings, browser pages, checks, examples | none | | |

### How they interact

The runner calls an adapter, which calls the service desk (or Dify, or
another application) over HTTP.  The desk's chat handler emits a trace on a
thread of its own; the telemetry API stores it, provided the request comes from
a session or token the authentication accepts and for an application within its
scope.  A user's feedback names a stored trace.  A reviewer confirms it, someone
promotes it to a scenario, the runner executes that scenario, its report is
imported as an offline run, and a link closes the loop: promotion, trace and run
are now one chain.  A release validation compares two imported runs.  Retention
deletes traces, and with them everything derived from them.  All stores are
SQLite databases that every process migrates when it opens them.  Within a
process handlers run on threads; between processes only the database is shared.

### What makes each component correct

- **Runner.** At most `max_concurrency` cases work at once, counting workers
  that outlived their case; permits are neither lost nor made up; a verdict never
  says "complete" when something is left behind or unknown; evidence that was
  returned is never rewritten into evidence the reader would refuse; every case ends.
- **Telemetry and quality loop.** No row outlives what it was derived from; what
  was authorised is what is written; what a validation compared stays comparable.
- **Migrations.** The recorded version can be believed; a service that started
  is fully migrated; a failed start does not block the next.
- **Service desk.** A user's draft is seen by nobody else; an effect is one the
  user is entitled to; a repeated request has one effect; a session keeps its owner.
- **Authentication.** A session is made once, from a login of the browser that
  holds it; an ended session stays ended; a withdrawn key is soon distrusted and a
  published one accepted.
- **Backup and restore.** A published pair of database and manifest matches, or
  is marked as pending; a restore installs only what it verified.
- **Load test.** Exactly the requests asked for; no gate passes on missing evidence.
- **Reports.** What a runner ends in, every reader accepts, with the runner's own
  conclusions (with the one exception of section 5); what was altered is accepted only with conclusions it earns.
- **Release gate.** Passed only on complete, independently verified evidence, and
  never over a regression that was there throughout.
- **Adapters.** A message continues only its own user's and session's conversation.
- **Calibration.** What is charged covers what was used and what is reserved.
- **pytest session.** A record tells what its own run of its own test did.

The hazards, each at its line and with the properties that cover it, are listed
in `PROJECT.json`.

## 2 The modules

| Module | Models | State variables and what they stand for |
|---|---|---|
| `ExecutionEvidence` | `execution.py`, `models.py` | none: the reader's predicate `ValidExecution` and the completeness rule, as operators |
| `AsyncRunner` | `async_runner.py`, `budget.py` | `run`, `worker`, `cleanup`: the places of a case's three tasks; `permits`, `acquired`: the semaphore; `attempts`, `steps`, `quality`, `status`, `unknown`: the evidence; `adapter`; the clock as flags that the deadline or the allowance has passed; `external`, the cancel event |
| `CaseVerdict` | what `run_many` promises its caller | `verdict`, `inFlight`: the abstract specification `AsyncRunner` implements |
| `QualityLoop` | `telemetry.py`, `api.py`, `feedback/`, `quality_loop/` | one function per table; `request`: what each admitted request holds; the clock; the identifiers issued |
| `Migrations` | `migrations.py`, `sqlite_runtime.py` | `version`, `applied`, `writer`: the database; `pc`, `current`: each start |
| `ReferenceAgent` | `reference_agent/` | `owner`, `draft`, `tickets`, `approvals`: the tables; `request`: each thread's local variables; `draftBy`: history |
| `AuthClock`, `BrowserLogin` | `session.py`, `dependencies.py` | `attempt`, `session`: the tables; `codes`: the provider; `jar`: cookies; `work`: requests and answers under way; `startedBy`, `madeFrom`: history |
| `AuthClock`, `KeyCache` | `oidc.py` | `jwks`, `expiry`: the two attributes of the cache; `published`, `withdrawn`: the provider; `verifying`: each thread |
| `BackupRestore` | `ops/backup.py`, `ops/restore.py` | `target`, `manifest`, `pending`: the published files; `database`: the service's; `backup`, `restore`: the local variables of each call; `last`: history |
| `Optional` | | none: an optional value as a sequence of at most one |
| `Contracts` | `contracts/` | none: comparisons of tool calls, order and business state over abstract JSON; how nested JSON is compared is a parameter, `Compare` |
| `JsonCompare` | `_compare` in `contracts/tool_assertions.py` | none: the recursive comparison the runs give to `Compare`, apart so that theorems may reach all the rest |
| `QualityChecks` | `workflow_runner/quality.py`, `llmtest/specs.py`, `evaluation.py` | none: metrics, thresholds, which evaluations are believed |
| `ScenarioRunner` | `workflow_runner/runner.py` | `trial`: the scenario at work; `results`: those that have ended |
| `StoredRun` | `quality_loop/models.py`, `reporting/integrity.py` | none: what is kept of a run and the recheck it must pass whenever it is read |
| `RunReport`, `CaseReport` | `reporting/`, what `async_runner.py` puts into a result | none: manifest, report, strict reader, stored projection; the row of an asynchronous case |
| `EntryGates` | `v1_gate.py`, `dify_gate.py` | none: selection, manifest, redacted report, exit code |
| `EvidenceChain` | the runners, their reports, the entry points and the release gate, put together | `half`: which of them a behaviour is about |
| `ReleaseGate` | `quality_loop/engine.py`, the reads and writes it meets in the stores | `item`, `promoted`, `linked`: feedback and links; `gate`: the call and what it has read; `seen`: history |
| `LoadTest` | `loadtest/{runner,metrics,models}.py` | `load`: counter, requests in flight, samples; `service`: what the target did, as history |
| `GateSuite` | `loadtest/gate*.py`, the fault profiles of `reference_agent/faults.py` | `suite`, `tokens`: the configuration and both sides' fault settings; `gate`: the phase, the checks, the results |
| `BudgetLedger` | `scripts/calibration_budget.py` | `ledger`: what is charged; `calls`: the stack of open calls; `consumed`: history |
| `Adapters` | `adapters/` | `known`: the conversations; `exchange`, `names`, `request`: each message and its request; `beside`: history |
| `TestSession` | `llmtest/`: `plugin.py`, `metrics/tracker.py`, `clients/base.py`, the evaluations and assertions | `records`, `byNode`, `active`: the tracker; `copied`: a task's context; `item`: the test at work; `embedding`: what is known of the provider; `done`: history |
| `MC*` | | values for the constants, symmetry, and the compositions `MCAuth` of its two halves, `MCQualityLoop` (with the migrations of its database), `MCOperations` and `MCReferenceAgent` of parts that share no state |
| `*Proofs` | | theorems about the module they are named after; `AuthProofs` about `BrowserLogin`, `KeyCache` and their composition `MCAuth`; `OperationsProofs` about `BackupRestore`, `BudgetLedger`, `Adapters`, `LoadTest` and `GateSuite`, and their composition `MCOperations`; `AsyncRunnerProofs` also about `CaseVerdict`, which it implements; `ReferenceAgentProofs` also about `TestSession`; `EvidenceChainProofs` about the contracts, both runners and the reports |

### Conventions

One action is what the code does between two points at which something else may
run: between two awaits in the runner, one transaction or store call in the
services, one read or write of a shared attribute in the key cache, one SQL
transaction in the migrations.  Whatever a handler does after that point without
such a gap belongs to the same action.  Conditions of the code are conjuncts;
alternatives are disjuncts or actions of their own.  Free text, random
identifiers and hashes are members of small sets; an identifier drawn at random
is one not used before.  Definitions commented `Mutant` are slight changes of
the definition below them, the bugs a property is there to find; nothing uses them.

### Asynchronous runner

Within an action only the clock moves: where the code reads the clock more than
once without an await, the deadline may pass between the reads.  The order in
which waiters obtain the semaphore is left open.  A callback that cooperates
ends when it is cancelled; one of a case in `Stubborn` may swallow it and answer
late, with a value or an error, or never.  The hash that identifies an operation
is a function of the step, and is represented by the step.  A close that times
out leaves the adapter open.  Left out: an expectation that raises instead of
failing, and the errors of using one runner from two event loops.

The verdict `run_many` gives is refined from the runner's tasks:
`Verdict == INSTANCE CaseVerdict WITH ...` maps a case's status to what the
caller is told, and the semaphore's holders to the cases in flight.

### Quality loop

An API request is admitted when its object has been found and its application
compared with the caller's; it then awaits its body and writes in another step.
The commands `telemetry-prune` and `quality-loop`, which have no scope, run in
between, and so do other requests and the clock.  A review is unique per feedback
and a promotion per review, so one identifier names all three.  Whether a release
gate passes is left open: the module is about which validations may be stored.
Left out: roles, trends and lists, which change nothing.

### Migrations

`Rerunnable` separates migrations that may meet their own effect (`CREATE TABLE
IF NOT EXISTS`, `UPDATE`) from those that fail on it (`ALTER TABLE ... ADD
COLUMN`).  `alone` records whether the operator lets one process at a time open
the database, as the runbook asks ("Run migration with writers stopped").  A
process may be killed anywhere; SQLite then rolls its transaction back.

### Service desk

A chat request arrives and claims its session (`Arrive`, where an injected
database fault refuses it), stores the session (`StoreSession`), reads its draft
(`ReadDraft`), lets the graph act (`AskForMore`, `CreateApproval`, `CreateTicket`
or `AnswerOnly`) and saves or deletes the draft; other threads may run between
any two of these, and a failing store call or the end of the process may end the
request after each (`Fail`).  Hints
are arbitrary: the code checks their shape only.  `runtime_hints` is not a key of
the graph's state schema, so the library may drop it before the node reads it;
the model allows both.  `production` is chosen at the start, since the claim of
a session is only checked there.  Left out: the text of answers and its
streaming, the knowledge search, and the switching of model profiles.

### Authentication

In `BrowserLogin` a request and its answer are separate steps and either may be
lost, so a browser may repeat a callback the server has already handled.  The
identity provider issues codes bound to an attempt (the nonce and the PKCE
challenge do that) and may be unreachable.  `delete_expired` is included although
only a caller of the package would use it.  Left out: roles, redirect targets,
development mode, the contents of bearer tokens, the discovery document.

In `KeyCache` every read and write of the two attributes is a step, since the
verifier is shared by threads and takes no lock.  A key stands for its `kid`.

The two share a clock and the threads and nothing else, so `MCAuth` explores one
while the other rests instead of multiplying them.

### Backup and restore

Every operation on a published file is a step: the test for the marker, each
copy, each rename, each read of a restore.  A rename may fail, so may the
recovery after it, and a call may be killed anywhere.  A checksum stands for the
contents it was taken of.  A damaged file fails the integrity check, which is
what SQLite's check is trusted for; a sound file put in the place of another is
what only the checksum could tell, and another backup does exactly that.
Whether the restored database's sidecar files are found, and whether its owner
can be set, is left open.  `alone` says whether calls take turns.  Without turns
two backups may leave a database and a manifest that do not belong together and
no marker, and a restore may install a backup published after it had compared
the checksum; both are in the model, and what still holds then is checked.

### Evidence: contracts, runners, reports, release gate

A response is its phrases, its sources (none, blank, or text) and its tool calls;
a JSON schema is the set of values it accepts; a score is a fraction; a digest is
injective, so it is the value it is taken of.  `ScenarioRunner` has one action per
callback, in the runner's order: the factory, each `send`, the evaluator, each of
which may answer or raise.  `RunReport` states what is written and read with it:
the manifest frozen before the run, the report, the strict reader that derives
every conclusion again, the projection stored with an offline run and the recheck
of what was stored.  The strict reader does not have the scenario's expectations but
those it rebuilds from the manifest with the scenario loader's `_expect`; `Rebuildable`
says of which it can.  Where it cannot it raises, and so does `build_run_report`, which
reads what it has built (`Rebuilt`, part of `RowAccepted`; the rest is `RowAgrees`).
`CaseReport` gives an ended case of `AsyncRunner` the content
of its row, so that both runners meet the same readers.  `EntryGates` adds what the
commands make of it.

`EvidenceChain` composes these and states what none of them says of itself: `Earned`
is the meaning of a pass, written against the responses without the assertions,
and `ReportExact` demands that a scenario passes exactly if that is earned; that the
report of the batch, and that of each scenario alone, is built exactly if the reader can
rebuild the expectations it comes to, and is then accepted by every reader with the
runner's conclusions; and that of all rows which differ from an honest one in one piece of evidence, with whatever conclusions
claimed, only those are accepted as passed that are earned.  An `AsyncRunner` whose evidence the reader would refuse, a
reader that misses a turn, and a gate that exits with 0 all violate it.

`ReleaseGate` reads the candidate's links, the online rows, the baseline's links,
the rows again and the number of links, each a step; in between, feedback is given,
reviewed, promoted, linked and purged.  The code takes no common snapshot: the two
rates may never have been true together.  What does hold is stated with `seen`,
which keeps the least and the most of each rate over the call: without a purge or a
new link no candidate passes that was worse at every moment; new links do not save
one whose feedback was bad throughout while none of the baseline's was.  A purge
removes evidence and may only lower a rate.  The call is unscoped, as the command
line makes it; which application sees what is `QualityLoop`'s.

### Load test and gate suite

Workers are tasks of one event loop, so the test of the counter and its increment
are one step.  A reply is a status, the events of its body and how the body ends:
complete, timed out, broken, or with an exception that no handler of a sample
expects, which ends the run.  A run that raises becomes one sample that stands for
the phase and an error of the suite.  `service` records what the target did, so that
`PassMeansRecovered` can be stated about the target instead of the samples.
Configurations are raw, as the YAML has them, and are merged and validated by the
module.  One consequence of the merge (`gate_config.py:144-147`): a default
`duration_seconds` makes the suite drop a scenario's own `requests`.

### Adapters and calibration

The server is external: it takes a message or refuses it, may take it after the
caller has given up, and opens a conversation for one that names none.  A status of
429 is taken to mean that the message was not taken.  The blocking Dify client
shared by threads may open two conversations for one session; the native one, which
holds a lock over the exchange, does so only when the answer naming the first was
lost.  In `BudgetLedger` a transport may itself make a call: the lock may be taken
again by its holder, and the open calls are a stack.

### pytest session

Every run of a test has a record; the functions a test calls write into the record
active in their context.  A test has three phases, each of which may raise; an
assertion records its result before it raises, and a test may catch what it raised.
A task started by a test copies the context and may complete after the test has
ended.  Retries are operators on the stream of a provider's replies: `RetriesBounded`,
which TLC evaluates for all streams of the length one evaluation may need, says how
many requests are sent and when one gives up.  The session may end in every state.
A failing teardown overwrites the outcome of the call, as the code has it.  Left out:
threads without a context (what they do is recorded nowhere), tests skipped by a mark
(pytest's own hook raises before the plugin's), durations, and the page.

## 3 What the runs check

| Run | Instance | Distinct states | Shows |
|---|---|---|---|
| `AsyncRunnerBatch` | 2 cases, both stubborn, 1 permit, 1 step, 2 attempts | 514,215 | permits and bounded work, leaks are reported, unknown outcomes, cancel wins, refinement of `CaseVerdict` |
| `AsyncRunnerCase` | half "async": 1 case, 2 steps, 2 attempts, limiter, quality metrics; half "sync": a batch of two scenarios, one with a tool whose result alone has a schema, 5 responses, 10 evaluators' answers; half "gate": 5 stored runs, 9 comparisons, 3 items on 2 traces, 2 writes of others | 316,131 | returned evidence is accepted and frozen, complete means settled; reports are exact, or refused for an expectation that cannot be rebuilt; the release gate is sound and blocks regressions |
| `AsyncRunnerLive` | 2 cases, one stubborn, limiter, quality metrics; `FairSpec` | 505,661 | every case finishes |
| `QualityLoop` | part "loop": 1 trace identifier, 1 feedback identifier, 2 runs, 2 applications, scoped requests; part "start": 2 starts of the current release and 1 of the older, 2 migrations | 562,178 | the chain, the scope, validations and promotions; version believed, ready means migrated; alone: once each and never stuck |
| `ReferenceAgent` | half "desk": 3 users, one unknown to the directory, 1 session, 2 threads; half "session": 2 tests, 2 runs, 2 evaluations, 1 exception of a test's own, 1 task | 699,831 | drafts, effects, retries, ownership; records of a pytest session |
| `Auth` | 2 browsers, 2 threads, 2 attempts, 2 sessions, clock 0 to 3; 2 keys, lifetime 2 | 741,751 | login bound to browser and attempt, ended sessions; the cache when verifications take turns |
| `BackupRestore` | part "backup": 2 backups of one target, 1 restore, 2 snapshots, one of a newer schema; part "gates": 5 suites, 10 kinds of reply, 1 or 2 scenarios; part "ledger": caps 3, 6 and 9, nesting 2; part "adapters": 3 messages of 2 users, 4 adapters | 1,356,500 | in turn, nothing unmarked is half a backup; a restore installs only what is sound and known; a passed suite has recovered; the budget is a cap; conversations stay with their session |
| `AsyncRunnerLateError`, `ReportsUnread`, `QualityLoopScope`, `MigrationsTogether`, `AuthKeyTrust` | small | stop at the violation | section 5 |

### Why these bounds are enough to be interesting

- Two cases and one permit make a case wait for a permit that a stubborn worker
  may hold for ever; two attempts are one retry; two steps are the least that
  shows an attempt of one step confused with another's, and they need only one case.
- Retention of one tick and a clock of two let a trace expire, be removed and its
  identifier be used again while a request that saw the old one is still open.
  With two feedback identifiers the run is also clean (3.35 million states); it
  is kept smaller.
- Two starts of one release and one of another are every pairing a race needs; a
  rerunnable and a non-rerunnable migration are both kinds.
- A session is the only thing two requests of the desk contend for; sessions
  share nothing else but the order of identifiers.  The three users are the
  owner, another, and one outside the directory.
- A login consumes an attempt and makes a session: two of each let logins overlap
  and callbacks repeat.  Lifetimes shorter than the clock let them expire.  One
  subject suffices: it is data copied from the code to the session.
- Two keys are the rotation; a cache lifetime of two within a clock of three
  leaves a tick before and after.
- Two backups are the least that can interleave; a restore beside them meets
  every state of the files they leave.  Two snapshots are the old and the new
  backup; one is too new for the restoring code, so that installing the wrong
  one shows.

- A dialogue of two turns and a single question differ in every way the runner
  distinguishes, and one has a report when it is alone and the other, whose tool has a
  schema of its result only, has none unless it broke off before an answer; the responses keep, break and half keep each kind of expectation,
  and the evaluators' answers include a raised error, a threshold met and missed by
  one, a score out of range, and a callback that changes the policy it was given.
- Three items on two traces let a trace count twice and the two rates move apart;
  two writes of others fall into every pair of gaps between the five reads.
- The five suites have a duration and a count, a protocol with streams, a fault of
  the database and of a tool, limits on cost and latency, and nothing at all.
- Nested calls of depth two with bounds 0 to 3 reach each cap exactly and by one
  too many.  Three messages are two of one session and one of another user's
  session of the same name.
- Two runs are a test run again or two tests; one task shows a record written after
  the next test began.  An evaluation that fails and one that follows it need two.

Several runs hold parts that share no state.  Their initial states choose the part,
and a behaviour stays in it, so nothing is lost against separate runs and no product
is explored.  The type invariants of `Migrations` and of the parts of `EvidenceChain` are
not among the runs' properties: the first is proved, the others are operators on
values whose shape `ReportExact` compares.

Symmetry is used only over identifiers that no property orders, and never in the
liveness run.

`CHECK_DEADLOCK FALSE` stands where the model really stops: all cases of a batch
finish, a release is decided; the quality loop's and the authentication's clock ends,
and their identifiers run out.  `ReferenceAgent` and `BackupRestore` are
checked for deadlock (a suite that has reported and exchanges that have all ended
stutter explicitly).

### Fairness

Only `AsyncRunnerLive` assumes any.  The event loop runs a task that is ready,
the clock advances, and a cancellation that was requested is delivered to a
callback that awaits.  These are what asyncio and time provide.  Nothing is
assumed of the callbacks (those of the stubborn case may never answer) nor of
the caller.  Without the last of the three a cooperative callback could hold its
cleanup for ever, which no asyncio loop does.

## 4 What is proved

For every number of cases, permits, steps, users, starts, runs and so on, from the
assumptions the modules state about their constants:

| Module | Theorems | Inductive invariant |
|---|---|---|
| `AsyncRunnerProofs` | `TypeCorrect`, `PermitsAccounted`, `PermitsSafe`, `WorkBounded`, `LeaksReported` | `TypeOK /\ PermitInv` |
| | `Implements`, `CancelAlwaysWins`, `OutstandingAlwaysUnknown`, `CompleteAlwaysSettled`, `InterruptedStaysOver` | `TypeOK /\ PermitInv /\ EvidenceInv` |
| | `EvidenceAlwaysAccepted` | the same with `TrailInv` |
| `QualityLoopProofs` | `TypeCorrect`, `ChainHolds`, `ScopeHolds`, `ValidationsAlwaysStand`, `PromotionsAlwaysStand` | `TypeOK`, what admitted requests have read, the chain with the identifiers issued, the scope |
| `MigrationsProofs` | `TypeCorrect`, `VersionCovered`, `ReadyAlwaysMigrated`, `AloneAlwaysUpgradable`, `AloneAppliesOnce` | `MigrationsTypeOK`, the lock, each start's local version, what `alone` adds, `Covered`, `ReadyIsMigrated` |
| `ReferenceAgentProofs` | `TypeCorrect`, `OwnersStand`, `DraftsPrivate`, `EffectsAlwaysAuthorised`, `EffectsOnce` | `TypeOK`, `ClaimHolds`, `DraftOwned` and the two effect invariants |
| | `RecordsAlwaysFaithful` | `SessionInv`: `SessionTypeOK`, `AtWork`, `RunKept`, `LackDeclared` |
| `EvidenceChainProofs` | `AcceptedIsEarned` | none: it is about every row, whoever wrote it |
| | `ReportAlwaysExact` | `ReportInv`: `CasesInv` (`AsyncRunnerProofs`' with `ShownInv`) and `RunnerInv` |
| `ReleaseGateProofs` | `ReleaseAlwaysSound`, `RegressionAlwaysBlocks` | `ReleaseInv` |
| `OperationsProofs` | `TypeCorrect`, `PublishedWhole`, `RestoresSound` | `TypeOK`, what each call's passed checks established, and, when calls take turns, what the one under way knows of the files |
| | `BudgetIsHeld` | `LedgerTypeOK`, `Stacked`, `BudgetHolds` |
| | `AdaptersTypeCorrect`, `ConversationAlwaysKept` | `AdaptersInv` |
| | `GateTypeCorrect`, `PassAlwaysRecovered` | `GateInv`: `LoadInv`, `AtScenario`, `InPhase`, `ResultsSound`, `Concluding` |
| | `OperationsTypeCorrect` | those of the four parts |
| `AuthProofs` | `TypeCorrect`, `SessionsBound`, `EndedAlwaysEnded` | `LoginTypeOK`, `CodesStarted`, `AttemptsOnce`, `WorkBound`, `JarsBound`, `SessionsMade` |
| | `KeyTypeCorrect`, `AloneTrustAlwaysEnds`, `AloneRotationAlwaysFollowed` | `KeyInv`: `KeyTypeOK`, `TakeTurns`, `ProviderSound`, `CacheDated`, `Timely`, `Informed` |
| | `BothTypeCorrect` | those of the two halves |

**Runner.** The cardinality equation `PermitAccounting` is not inductive: to know
that a release finds a permit taken, the place of the worker must imply who holds
one.  `PermitInv` says it does: a worker past the queue holds the permit of its
case, one before it does not, cleanup reaches the adapter only after the worker
has gone.  `WorkBounded` then compares the set of workers with that of holders,
and `LeaksReported` reads off what a finished case that holds one must have gone
through.

**Runner, verdicts and evidence.** The refinement `Implements` rests on the same
invariant: taking a permit is the abstract `Admit`, the end of cleanup and a case
abandoned before its first step are `Settle`, and all other steps stutter.  The
step that needs thought is that of a worker which outlived its case: it still
writes to the evidence the verdict is computed from, but holds its permit, so its
case is an error, which nothing it writes makes complete.  The evidence theorems
need `EvidenceInv`, one conjunction per case: an attempt still open is the active
one and belongs to a worker inside `adapter.send`; a case past its wait has a
verdict and either no open attempt or an unknown effect; a worker that ended well
left none; and the adapter is closed only where it is owned and the worker gone.

**Runner, the evidence a reader accepts.** `EvidenceAccepted` says that the reader's
rule `ValidExecution` holds of whatever has been returned.  It follows from `TrailInv`:
at every moment the attempts of a case are numbered within their step as the reader
counts them, follow each other in the order of the steps, and only the last of them
is ever marked again; a step is recorded only when its last attempt was answered; and
the marks an abort leaves are those the reader allows of a case that was cut off.
The late worker is again the case to consider: what it writes is a mark on the last
attempt, from one the reader allows to another.

**Reports.** Part of `ReportExact` is a matter of the reader alone.  `AcceptedIsEarned`
says that of the rows the strict reader accepts, whoever wrote them, exactly those are
passed that are earned: no pass the evidence does not carry, and no service that did
everything right is reported as failed.  It holds of every row of the shape a report
has, not only of the altered ones the invariant enumerates.  The reader counts the
turns and asks every declared check to be there, in order; the lemmas before it show
that a check has passed exactly if what it is about holds: phrases, sources, tool
calls, their order (the runner's fold finds an increasing row of calls with the
expected names, and never passes by one that is there: `OrderFound`, `OrderFindable`),
the business state, the metrics.  That honest rows are accepted needs to know what the
runners write.  `HonestRow` says that a row is what the strict reader takes for a
result of its scenario, as far as the evidence goes (`RowAgrees`); a batch of such rows
(`HonestBatch`) is built into a report exactly if the reader can rebuild every expectation
it comes to, and is then parsed, stored, rechecked and concluded alike, whatever its size
(`HonestFaithful`, `HonestDify`).  One honest row is a batch of its own (`LoneRow`), which
gives the reports of single scenarios and of asynchronous cases.  `AcceptedIsEarned` needs
the agreement only (`AgreedIsEarned`): what is earned does not depend on whether the
report could be read.

For the synchronous runner `RunnerInv` says that all results are honest and what is
known of the trial at work: its turns were answered and checked in the order of the
scenario (`Going`), or it broke at its last one, which then carries the error and the
one failed check that stands for it (`Broken`); without that the final row could not
be compared with the scenario.  For the asynchronous runner the row is derived
(`CaseReport`) from a case that `TrailInv` has shown acceptable to `ValidExecution`;
what is added is `ShownInv`: once a case has a verdict, at most its last turn is an
error, and unless all turns were answered nothing was evaluated.

The assumptions are about values only.  `ScenarioAssumption`: scenarios have what
`SCENARIO_SCHEMA` demands of their files, responses and check results the fields of
their types.  `CaseAssumption`: the response that stands for a passed or a failed turn
does pass or fail the checks of that turn, and has context, since the model of the
asynchronous evaluation scores all metrics or none.  `FrozenAssumption`: the batch was
frozen into a manifest, without which no run starts.  Of `Compare` nothing is assumed:
the theorem holds for every comparison of JSON, hence for `CompareJson`.  Where a proof
about lists would go by induction, it takes a smallest counterexample instead.

**Quality loop.** The chain holds because a row is stored in the same transaction
that finds its parent, and a parent is removed in the same one as its children;
what makes it inductive is that an admitted request remembers identifiers, which
may meanwhile be gone, and possibly be somebody else's: `Issued` excludes the
second for the identifiers drawn at random, and `ReadRuns` keeps what was read of
runs, which nothing changes.  Two step lemmas (runs are kept; feedback is kept or
goes with its trace) serve all actions.  `ScopeHolds` follows since a trace's
application is fixed as long as the trace stands under the same feedback.

**Migrations.** `Covered` survives races because a start records a version only
after all smaller ones were recorded by it or believed by it when it read the
version; so each start's local version is covered too, and effects are never
undone.  That one process is alone adds that its local version is the recorded
one, which is what once-only application needs.

**Service desk.** `ClaimHolds` says that in production a request beyond its claim
is for the session's owner; since the owner is never changed, a draft loaded later
is the owner's own (`DraftOwned`), and so is what the graph does with it.  That
repeated requests have one effect is the uniqueness of the key under which an
effect is stored, kept by a lookup in the transaction that inserts.

**Test session.** While a test is at work its run is the last of its node's and its
record the active one; between tests none is active (`AtWork`).  So only the last run
of a test can still change its verdict, and a task that outlives its test writes into
the record of the run that started it, the one it copied.  A fault without an exception
under way was caught by the test itself, and that the provider has no embeddings was
declared to some run (`LackDeclared`).  The totals of the summary add up since the
outcomes of the records are disjoint sets that cover them.

**Release gate.** A rate is a fraction, compared by cross-multiplication, so the order
on rates is shown to be total and transitive first.  `ReleaseInv` relates what the call
has read to `seen`: the least and the most of each rate bound the present one
(`PresentSeen`); the links that were read are those of the moment unless some were
added or purged since (`LinksStand`); and if some were added, what was read still tells
of the case in which all of the candidate's feedback was bad throughout and none of the
baseline's was (`Telling`, `RatesRead`).  That the
runs on both sides of the comparison pass their own recheck, and that the limits of a
policy are rates, is `ComparedAssumption`: it is what `OfflineRun.__post_init__`, at
every read, and the policy's own checks demand.  `StoredRun` holds that recheck on its
own, so that the gate does not depend on how a run is written.

**Browser login.** What makes the binding of a session to its login inductive is
that an attempt which is stored, or whose code is being exchanged, has made no
session yet, and that no two threads exchange for one attempt: both follow from
the removal of the attempt in the transaction that reads it (`AttemptsOnce`).
Cookies and callbacks belong to the browser that drew the state (`WorkBound`,
`JarsBound`).  A request sent too late is for a session that stays over.

**Key cache.** The clock a verification has read lies between its beginning and
the present, however long it then waits for the provider (`Timely`).  With one
verification at a time, and but for the moment between its two writes, no key in
the cache was withdrawn before the time its expiry counts from (`CacheDated`); so
an unexpired key was withdrawn less than a lifetime before the verification began.
What a verification alone has fetched stays the provider's answer until it is
stored and searched (`Informed`), which is what interleaved ones cannot say.

**Backup and restore.** That a restore installs something sound needs only its
own last two checks, on the private copy.  That it installs the last backup needs,
at every place of the one call under way, what the two files hold: between the
marker and its removal the pair is on its way from the old to the new or back,
and what was kept, if anything, is the old pair.

**Both halves of the authentication.** A step of the login leaves the key cache as it
is, except that the clock they share may tick, and the other way round; so a behaviour
of the composition is one of each half, and `BothTypeCorrect` takes both type
invariants from the halves.

**Adapters.** `AdaptersInv` says what a message knew when its request was placed: the
conversation known of its user and session at that moment, or none (`RequestsPlaced`);
that the conversations named on the way belong to the key of the message
(`NamesSound`, `AnswersKnown`); that under the native client, which holds its lock over
the exchange, one request of a session is out at a time (`OneAtATime`); and which
conversations were opened beside the known one (`BesideKnown`).

**Budget ledger.** When the innermost call returns, what is open falls by exactly its
reservation only if each call remembers what the calls around it have reserved:
that is `Stacked`.  What stays within both bounds costs no more than the reservation,
since prices are not negative (`PriceMonotone`).

**Load test and gate suite.** `PassMeansRecovered` speaks of the target, the verdict is
made from samples; `LoadInv` ties the two together while a run is under way.  Every
measured request is either under way or has a sample with its own number, so the
samples are as many as the requests served (`Accounted`).  While all samples are
successes the target answered all requests, and while all have a price they add up to
what it billed, in the currencies it billed: one failed or unpriced sample ends the
equation, and the checks `success` and `max_cost_total` demand that there is none.
`ResultsSound` keeps what a finished scenario has shown.  `GateConstants` says that
the YAML lists its scenarios, that a fault has the fields of `FaultSpec`, and that a
reply without headers has no end of a body either.

The sum of the costs is a fold over a finite set, which is defined by recursion.  It is
the number of units the costs have, each tagged with its sample (`CostIsUnits`): both
satisfy one equation, and if they differed on some subset there would be a smallest one,
by the well-foundedness of inclusion on finite sets.  The argument needs no induction
theorem with an operator parameter, which the provers cannot instantiate.

Beyond the prover and so only model-checked is `EveryCaseFinishes`, since it is a
liveness property under fairness, and what `CompareJson` computes, since it is
recursive.  All invariants and action properties that the passing runs check are
theorems.

## 5 Disagreements found

| Run | The code | What is said of it |
|---|---|---|
| `AsyncRunnerLateError` | a request interrupted at the deadline of its case that then fails with a typed error overwrites the attempt recorded as interrupted | a test's name: interrupted evidence is not rewritten by a request that returns afterwards |
| `ReportsUnread` | a tool with a `result_schema` and no `arguments_schema` is frozen into the manifest with a null, which the strict reader passes on as a schema and refuses; a run that passed has no report, and the gate raises | a test runs such a scenario and asserts that it passed; the guide on releases: the native gate freezes the plan and writes a `qe-run-v2` report |
| `QualityLoopScope` | feedback is admitted against the trace found first; if the trace expires, is pruned, and its identifier is used again by another application before the body arrives, the feedback is stored there | the application guide: a trace of another application is not found |
| `MigrationsTogether` | the version is read outside any transaction and not again inside, so two processes apply a migration twice; the version goes back, and a migration that adds columns then fails on later starts | a test's name: each version is applied once, in order |
| `AuthKeyTrust` | a thread's key set may be stored with another's expiry, and trusted past its lifetime | the hardening design: a cached key's trust is not extended |

The same two-step write of the key cache can also make a forced refresh be
overwritten by an older set, so that a published key is refused once.  With one
verification, or one process, at a time the promises hold and are checked
(`AloneTrustEnds`, `AloneRotationFollowed`, `AloneAppliedOnce`, `AloneUpgradable`).

## 6 Not modelled, and the plan

`PROJECT.json` lists every component with the reason.  Left aside for good: what
has no state of its own (command lines, page objects, settings), what computes
with text (redaction, reports in HTML, the parsing of scenario files and of JSON) or
with real numbers (embeddings, calibration statistics, trends), examples, deployment
scripts around the modelled calls, and generated or vendored files.  The trace sink
promises nothing of a trace that is lost; the roles are set operations without state.
Of the conversion of scenarios to a manifest and back, `Rebuildable` models what `_expect`
does to a schema that was not declared.  Not modelled is `RunManifest.from_dict`, which
strips nulls under five names (`expect`, `sources_present`, `arguments_schema`,
`result_schema`, `session_id`) wherever they occur: a scenario with such a null inside its
own JSON values (a tool's arguments, an expected state) is outside the model.

What would come next:

1. **Backup and start together**: a restored snapshot is migrated by the next start,
   so `BackupRestore` composed with `Migrations`.  An abstract store alone would add
   nothing to `RestoreSound`: since the service may write anything, every restore of
   something sound also looks like a write.
2. **One behaviour from complaint to release**: `QualityLoop` with the verdict of
   `ReleaseGate` in place of the open one; today both model the links and each leaves
   the other's part open.

## 7 Running it

    tlc -workers 2 -config QualityLoop.cfg MCQualityLoop.tla
    tlapm QualityLoopProofs.tla

Each run's module and configuration are in `PROJECT.json`; the passing runs take
from seconds to about a minute and a half each with two workers, the proof modules a few
minutes each, `EvidenceChainProofs` about eight.
