----------------------------- MODULE QualityLoop -----------------------------
(* The database behind the online/offline quality loop: a production trace    *)
(* collects feedback, feedback is reviewed, a confirmed review is promoted to *)
(* a regression scenario, the promotion is linked to an offline run that      *)
(* executed the scenario, and a release is validated against a baseline run.  *)
(*                                                                            *)
(* Every transaction is one action.  A request of the HTTP API is admitted    *)
(* (its object is looked up and its application compared with the caller's)   *)
(* before its body is awaited, and writes only afterwards: between the two    *)
(* the other requests, the telemetry-prune and quality-loop commands and the  *)
(* clock may do anything.  Roles and sessions belong to the authentication    *)
(* modules; here a session is only the set of applications it may touch.      *)
(*                                                                            *)
(* A review is stored under its feedback (UNIQUE feedback_id), a promotion    *)
(* under its review (UNIQUE review_id), so one identifier names all three.    *)
EXTENDS Integers

CONSTANTS Traces, Feedbacks, Runs, Validations, Scenarios, Apps,
          Sessions,     \* requests that may be in flight at the same time
          AppsOf,       \* the applications each of them is allowed
          Reports,      \* the run reports that can be imported
          Scoped,       \* production: requests carry an application scope
          Retention,    \* retention_days
          MaxTime,      \* bound on the clock
          None          \* no row

TraceRow     == [app : Apps, stamp : 0..MaxTime]
FeedbackRow  == [trace : Traces, low : BOOLEAN, by : Sessions]
ReviewRow    == [status : {"pending", "confirmed", "rejected"}, by : Sessions]
PromotionRow == [trace : Traces, scenario : Scenarios]
LinkRow      == [feedback : Feedbacks, trace : Traces, scenario : Scenarios, run : Runs]
Report       == [app : Apps, environment : {"prod", "staging"}, started : 0..MaxTime,
                 scenarios : SUBSET Scenarios, assets : {"v1", "v2"}, eligible : BOOLEAN]
ValidationRow == [baseline : Runs, candidate : Runs, passed : BOOLEAN]

Request ==
    [op : {"feedback"}, trace : Traces]
    \cup [op : {"review", "promote"}, feedback : Feedbacks]
    \cup [op : {"promotable"}, feedback : Feedbacks, scenario : Scenarios]
    \cup [op : {"link"}, feedback : Feedbacks, run : Runs, report : Reports, checked : BOOLEAN]
    \cup [op : {"validate"}, baseline : Runs, candidate : Runs]

ASSUME LoopAssumption ==
    /\ AppsOf \in [Sessions -> SUBSET Apps]
    /\ Reports \subseteq Report
    /\ Scoped \in BOOLEAN
    /\ Retention \in Nat \ {0}
    /\ MaxTime \in Nat
    /\ None \notin TraceRow \cup FeedbackRow \cup ReviewRow \cup PromotionRow
    /\ None \notin Reports \cup ValidationRow \cup Request

VARIABLES
    now,         \* the repositories' clock
    traces,      \* telemetry_traces
    feedback,    \* telemetry_feedback
    reviews,     \* telemetry_reviews
    promotions,  \* telemetry_promotions
    runs,        \* quality_offline_runs
    links,       \* quality_links
    validations, \* quality_release_validations
    issued,      \* feedback identifiers ever drawn: uuid4 repeats none
    request      \* what each session's request has been admitted to

chain    == <<traces, feedback, reviews, promotions, links, issued>>
evidence == <<runs, validations>>
vars     == <<now, chain, evidence, request>>

\* The types of the tables; a row is None when it is absent.
TypeOK ==
    /\ now \in 0..MaxTime
    /\ traces \in [Traces -> TraceRow \cup {None}]
    /\ feedback \in [Feedbacks -> FeedbackRow \cup {None}]
    /\ reviews \in [Feedbacks -> ReviewRow \cup {None}]
    /\ promotions \in [Feedbacks -> PromotionRow \cup {None}]
    /\ runs \in [Runs -> Reports \cup {None}]
    /\ links \subseteq LinkRow
    /\ validations \in [Validations -> ValidationRow \cup {None}]
    /\ issued \subseteq Feedbacks
    /\ request \in [Sessions -> Request \cup {None}]

Init ==
    /\ now = 0
    /\ traces = [t \in Traces |-> None]
    /\ feedback = [f \in Feedbacks |-> None]
    /\ reviews = [f \in Feedbacks |-> None]
    /\ promotions = [f \in Feedbacks |-> None]
    /\ runs = [r \in Runs |-> None]
    /\ links = {}
    /\ validations = [v \in Validations |-> None]
    /\ issued = {}
    /\ request = [s \in Sessions |-> None]

------------------------------------------------------------------------------
(* Retention: a row is visible while timestamp > now - retention_days.        *)

Unexpired(stamp) == stamp > now - Retention

LiveTrace(t)     == traces[t] # None /\ Unexpired(traces[t].stamp)
LiveFeedback(f)  == feedback[f] # None /\ LiveTrace(feedback[f].trace)
LiveReview(f)    == reviews[f] # None /\ LiveFeedback(f)
LivePromotion(f) == promotions[f] # None /\ LiveTrace(promotions[f].trace)
LiveRun(r)       == runs[r] # None /\ Unexpired(runs[r].started)

\* scoped_record: in production the object must belong to an application of
\* the caller; the application of feedback, reviews and promotions is their
\* trace's.
MayTouch(s, t) == Scoped => LiveTrace(t) /\ traces[t].app \in AppsOf[s]

Tick ==
    /\ now < MaxTime
    /\ now' = now + 1
    /\ UNCHANGED <<chain, evidence, request>>

\* Mutant: links are left to the reader, as if promotion_id had no cascade.
PruneWithoutLinks ==
    LET gone(t)  == traces[t] # None /\ ~Unexpired(traces[t].stamp)
        doomed(f) == feedback[f] # None /\ gone(feedback[f].trace)
    IN  /\ \E t \in Traces : gone(t)
        /\ traces' = [t \in Traces |-> IF gone(t) THEN None ELSE traces[t]]
        /\ feedback' = [f \in Feedbacks |-> IF doomed(f) THEN None ELSE feedback[f]]
        /\ reviews' = [f \in Feedbacks |-> IF doomed(f) THEN None ELSE reviews[f]]
        /\ promotions' = [f \in Feedbacks |-> IF doomed(f) THEN None ELSE promotions[f]]
        /\ UNCHANGED <<now, issued, links, evidence, request>>

\* prune_expired deletes the expired traces; the foreign keys delete their
\* feedback, the reviews of it, the promotions of those and their links.
PruneExpired ==
    LET gone(t)  == traces[t] # None /\ ~Unexpired(traces[t].stamp)
        doomed(f) == feedback[f] # None /\ gone(feedback[f].trace)
    IN  /\ \E t \in Traces : gone(t)
        /\ traces' = [t \in Traces |-> IF gone(t) THEN None ELSE traces[t]]
        /\ feedback' = [f \in Feedbacks |-> IF doomed(f) THEN None ELSE feedback[f]]
        /\ reviews' = [f \in Feedbacks |-> IF doomed(f) THEN None ELSE reviews[f]]
        /\ promotions' = [f \in Feedbacks |-> IF doomed(f) THEN None ELSE promotions[f]]
        /\ links' = {l \in links : ~doomed(l.feedback)}
        /\ UNCHANGED <<now, issued, evidence, request>>

------------------------------------------------------------------------------
(* Traces arrive from the applications with the machine token.                *)

\* Mutant: an expired row counts as free.
OverwritesExpired(t, app) == LiveTrace(t) => (Scoped => traces[t].app = app)

\* upsert_trace: in production the row's application stays what it is, even
\* when the row is expired; only the timestamp and the payload are replaced.
Overwrites(t, app) == traces[t] # None => (Scoped => traces[t].app = app)

IngestTrace(t, app, stamp) ==
    /\ Overwrites(t, app)
    /\ traces' = [traces EXCEPT ![t] = [app |-> app, stamp |-> stamp]]
    /\ UNCHANGED <<now, feedback, reviews, promotions, links, issued, evidence, request>>

------------------------------------------------------------------------------
(* Requests: admission, then the transaction.  A request may end without its  *)
(* write at any point: a malformed body, a refusal, a disconnected client.    *)

Admit(s, what) ==
    /\ request[s] = None
    /\ request' = [request EXCEPT ![s] = what]
    /\ UNCHANGED <<now, chain, evidence>>

Done(s) == request' = [request EXCEPT ![s] = None]

EndRequest(s) ==
    /\ request[s] # None
    /\ Done(s)
    /\ UNCHANGED <<now, chain, evidence>>

Pending(s, op) == request[s] # None /\ request[s].op = op

AdmitFeedback(s, t) ==
    /\ MayTouch(s, t)
    /\ Admit(s, [op |-> "feedback", trace |-> t])

\* add_feedback looks for the trace's row again, expired or not.
AddFeedback(s, f, low) ==
    /\ Pending(s, "feedback")
    /\ f \notin issued
    /\ traces[request[s].trace] # None
    /\ feedback' = [feedback EXCEPT ![f] = [trace |-> request[s].trace, low |-> low, by |-> s]]
    /\ issued' = issued \cup {f}
    /\ Done(s)
    /\ UNCHANGED <<now, traces, reviews, promotions, links, evidence>>

AdmitReview(s, f) ==
    /\ Scoped => LiveFeedback(f) /\ MayTouch(s, feedback[f].trace)
    /\ Admit(s, [op |-> "review", feedback |-> f])

\* upsert_review replaces the verdict and keeps the row.
UpsertReview(s, status) ==
    /\ Pending(s, "review")
    /\ LET f == request[s].feedback IN
       /\ LiveFeedback(f)
       /\ reviews' = [reviews EXCEPT ![f] = [status |-> status, by |-> s]]
    /\ Done(s)
    /\ UNCHANGED <<now, traces, feedback, promotions, links, issued, evidence>>

AdmitPromotion(s, f) ==
    /\ Scoped => LiveReview(f) /\ MayTouch(s, feedback[f].trace)
    /\ Admit(s, [op |-> "promote", feedback |-> f])

Promotable(f) == reviews[f].status = "confirmed" /\ feedback[f].low

\* promote_review turns the review and the scenario of the body into a record.
PreparePromotion(s, scenario) ==
    /\ Pending(s, "promote")
    /\ LET f == request[s].feedback IN
       /\ LiveReview(f)
       /\ Promotable(f)
       /\ request' = [request EXCEPT ![s] =
              [op |-> "promotable", feedback |-> f, scenario |-> scenario]]
    /\ UNCHANGED <<now, chain, evidence>>

\* Mutant: the transaction trusts what promote_review has checked.
CreatePromotionAsPrepared(s) ==
    /\ Pending(s, "promotable")
    /\ LET f == request[s].feedback IN
       /\ LiveReview(f)
       /\ promotions' = IF promotions[f] # None THEN promotions
                        ELSE [promotions EXCEPT ![f] =
                            [trace |-> feedback[f].trace, scenario |-> request[s].scenario]]
    /\ Done(s)
    /\ UNCHANGED <<now, traces, feedback, reviews, links, issued, evidence>>

\* create_promotion decides again inside its transaction: a second promotion
\* of a review gets the first one back, whatever became of the review.
CreatePromotion(s) ==
    /\ Pending(s, "promotable")
    /\ LET f == request[s].feedback IN
       /\ LiveReview(f)
       /\ promotions[f] = None => Promotable(f)
       /\ promotions' = IF promotions[f] # None THEN promotions
                        ELSE [promotions EXCEPT ![f] =
                            [trace |-> feedback[f].trace, scenario |-> request[s].scenario]]
    /\ Done(s)
    /\ UNCHANGED <<now, traces, feedback, reviews, links, issued, evidence>>

------------------------------------------------------------------------------
(* Offline runs and their links.                                              *)

\* Mutant: the last import of an identifier wins.
ReplaceRun(r, report) ==
    /\ Unexpired(report.started)
    /\ runs' = [runs EXCEPT ![r] = report]
    /\ UNCHANGED <<now, chain, validations, request>>

\* Mutant: a legacy summary is stored as verified evidence.
ImportAsVerified(r, report) ==
    /\ Unexpired(report.started)
    /\ runs[r] = None
    /\ runs' = [runs EXCEPT ![r] = [report EXCEPT !.eligible = TRUE]]
    /\ UNCHANGED <<now, chain, validations, request>>

\* import_run: the identifier of a stored run keeps its first report; a second
\* import changes nothing, whether it is accepted as identical or refused.
ImportRun(r, report) ==
    /\ Unexpired(report.started)
    /\ runs[r] = None
    /\ runs' = [runs EXCEPT ![r] = report]
    /\ UNCHANGED <<now, chain, validations, request>>

\* create_quality_link compares the trace's application with the run's, then
\* create_link reads the run; the reads that nothing can come between without
\* the transaction noticing are one step.  The quality-loop command, trusted
\* and unscoped, starts with the read of the run (checked = FALSE).
AdmitLink(s, f, r, checked) ==
    /\ LiveRun(r)
    /\ Scoped /\ checked => /\ LivePromotion(f)
                            /\ MayTouch(s, promotions[f].trace)
                            /\ runs[r].app \in AppsOf[s]
                            /\ traces[promotions[f].trace].app = runs[r].app
    /\ Admit(s, [op |-> "link", feedback |-> f, run |-> r, report |-> runs[r], checked |-> checked])

\* create_link's transaction: the promotion must still be there, its scenario
\* is looked for in the run read before; an existing link is returned.
CreateLink(s) ==
    /\ Pending(s, "link")
    /\ LET f == request[s].feedback IN
       /\ LivePromotion(f)
       /\ promotions[f].scenario \in request[s].report.scenarios
       /\ links' = links \cup {[feedback |-> f, trace |-> promotions[f].trace,
                                scenario |-> promotions[f].scenario, run |-> request[s].run]}
    /\ Done(s)
    /\ UNCHANGED <<now, traces, feedback, reviews, promotions, issued, evidence>>

------------------------------------------------------------------------------
(* Release validations.                                                       *)

\* The runs validate_release agrees to compare.
SameKind(x, y) ==
    /\ x # None /\ y # None
    /\ x.app = y.app
    /\ x.environment = y.environment
    /\ x.eligible /\ y.eligible
    /\ x.assets = y.assets

Comparable(b, k) == b # k /\ SameKind(runs[b], runs[k])

\* Between this and the save the gate reads the links and the online rows of
\* both runs; its verdict on the rates is left open here.
AdmitValidation(s, b, k, checked) ==
    /\ LiveRun(b) /\ LiveRun(k)
    /\ Scoped /\ checked => {runs[b].app, runs[k].app} \subseteq AppsOf[s]
    /\ Comparable(b, k)
    /\ Admit(s, [op |-> "validate", baseline |-> b, candidate |-> k])

\* save_validation: the identifier is the caller's, a stored result stays.
SaveValidation(s, v, passed) ==
    /\ Pending(s, "validate")
    /\ validations[v] = None
    /\ validations' = [validations EXCEPT ![v] =
           [baseline |-> request[s].baseline, candidate |-> request[s].candidate, passed |-> passed]]
    /\ Done(s)
    /\ UNCHANGED <<now, chain, runs>>

------------------------------------------------------------------------------
Telemetry ==
    \/ Tick
    \/ PruneExpired
    \/ \E t \in Traces, app \in Apps, stamp \in 0..MaxTime : IngestTrace(t, app, stamp)

Review(s) ==
    \/ \E t \in Traces : AdmitFeedback(s, t)
    \/ \E f \in Feedbacks, low \in BOOLEAN : AddFeedback(s, f, low)
    \/ \E f \in Feedbacks : AdmitReview(s, f) \/ AdmitPromotion(s, f)
    \/ \E status \in {"pending", "confirmed", "rejected"} : UpsertReview(s, status)
    \/ \E scenario \in Scenarios : PreparePromotion(s, scenario)
    \/ CreatePromotion(s)

Release(s) ==
    \/ \E f \in Feedbacks, r \in Runs, checked \in BOOLEAN : AdmitLink(s, f, r, checked)
    \/ CreateLink(s)
    \/ \E b, k \in Runs, checked \in BOOLEAN : AdmitValidation(s, b, k, checked)
    \/ \E v \in Validations, passed \in BOOLEAN : SaveValidation(s, v, passed)

Next ==
    \/ Telemetry
    \/ \E r \in Runs, report \in Reports : ImportRun(r, report)
    \/ \E s \in Sessions : Review(s) \/ Release(s) \/ EndRequest(s)

Spec == Init /\ [][Next]_vars

------------------------------------------------------------------------------
(* Properties.                                                                *)

\* No row outlives what it was derived from: not across retention, not when a
\* trace identifier is used again, and a link still names the trace and the
\* scenario of its promotion and a run that executed it, although nothing but
\* the promotion's and the run's foreign keys holds quality_links together.
ChainIntegrity ==
    /\ \A f \in Feedbacks :
          /\ feedback[f] # None => traces[feedback[f].trace] # None
          /\ reviews[f] # None => feedback[f] # None
          /\ promotions[f] # None => reviews[f] # None /\ promotions[f].trace = feedback[f].trace
    /\ \A l \in links :
          /\ promotions[l.feedback] = [trace |-> l.trace, scenario |-> l.scenario]
          /\ runs[l.run] # None /\ l.scenario \in runs[l.run].scenarios

TraceApp(f) == traces[feedback[f].trace].app

\* What was admitted within the caller's scope is still within it when it is
\* written: the object it names is the one that was checked or is gone, and
\* an API link joins a trace and a run of one application.
WithinScope ==
    Scoped =>
    /\ \A f \in Feedbacks : reviews[f] # None => TraceApp(f) \in AppsOf[reviews[f].by]
    /\ \A s \in Sessions :
          /\ \A op \in {"review", "promote", "promotable"} :
                Pending(s, op) /\ feedback[request[s].feedback] # None =>
                    TraceApp(request[s].feedback) \in AppsOf[s]
          /\ Pending(s, "link") /\ request[s].checked /\ promotions[request[s].feedback] # None =>
                /\ request[s].report.app \in AppsOf[s]
                /\ TraceApp(request[s].feedback) = request[s].report.app

\* Every stored validation still compares two distinct runs of one application,
\* environment and set of assets, both with complete verified evidence:
\* nothing imported later changes what was judged.
ValidationsStand ==
    \A v \in Validations :
        validations[v] # None => Comparable(validations[v].baseline, validations[v].candidate)

\* A promotion appears only on a review that is confirmed, low-quality and
\* unexpired when it is written, whatever the request had read before; it is
\* never replaced by a later request's and leaves only with its trace.
PromotionsStand ==
    [][\A f \in Feedbacks :
        /\ promotions[f] = None /\ promotions'[f] # None => LiveReview(f) /\ Promotable(f)
        /\ promotions[f] # None /\ promotions'[f] # promotions[f] =>
               promotions'[f] = None /\ traces'[promotions[f].trace] = None]_vars

\* The application guide promises a caller 404 for a trace of an application
\* that is not theirs: no stored feedback is on a trace outside the scope of
\* the one who reported it.
FeedbackWithinScope ==
    Scoped => \A f \in Feedbacks :
        feedback[f] # None => TraceApp(f) \in AppsOf[feedback[f].by]
==============================================================================
