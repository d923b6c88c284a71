-------------------------- MODULE QualityLoopProofs --------------------------
(* Theorems about QualityLoop, for any sets of rows, requests and reports,    *)
(* any retention and both modes of operation.                                 *)
EXTENDS QualityLoop, TLAPS

USE LoopAssumption

------------------------------------------------------------------------------
(* What a pending request of each operation consists of.                      *)

LEMMA RequestShape ==
    ASSUME NEW q \in Request
    PROVE  /\ q.op \in {"feedback", "review", "promote", "promotable", "link", "validate"}
           /\ q.op = "feedback" => q.trace \in Traces
           /\ q.op \in {"review", "promote", "promotable", "link"} => q.feedback \in Feedbacks
           /\ q.op = "promotable" => q.scenario \in Scenarios
           /\ q.op = "link" => q.run \in Runs /\ q.report \in Reports /\ q.checked \in BOOLEAN
           /\ q.op = "validate" => q.baseline \in Runs /\ q.candidate \in Runs
BY DEF Request

------------------------------------------------------------------------------
(* Type correctness.                                                          *)

LEMMA TypeOfTelemetry == ASSUME TypeOK, Telemetry PROVE TypeOK'
<1>1. CASE Tick
  BY <1>1 DEF TypeOK, Tick, chain, evidence
<1>2. CASE PruneExpired
  BY <1>2 DEF TypeOK, PruneExpired, evidence
<1>3. ASSUME NEW t \in Traces, NEW app \in Apps, NEW stamp \in 0..MaxTime, IngestTrace(t, app, stamp)
      PROVE  TypeOK'
  <2>1. [app |-> app, stamp |-> stamp] \in TraceRow
    BY DEF TraceRow
  <2> QED BY <1>3, <2>1 DEF TypeOK, IngestTrace, evidence
<1> QED BY <1>1, <1>2, <1>3 DEF Telemetry

LEMMA TypeOfAdmission ==
    ASSUME TypeOK, NEW s \in Sessions, NEW what \in Request, Admit(s, what)
    PROVE  TypeOK'
BY DEF TypeOK, Admit, chain, evidence

LEMMA TypeOfReview == ASSUME TypeOK, NEW s \in Sessions, Review(s) PROVE TypeOK'
<1>0. request[s] \in Request \cup {None}
  BY DEF TypeOK
<1>1. ASSUME NEW t \in Traces, AdmitFeedback(s, t) PROVE TypeOK'
  <2>1. [op |-> "feedback", trace |-> t] \in Request
    BY DEF Request
  <2> QED BY <1>1, <2>1, TypeOfAdmission DEF AdmitFeedback
<1>2. ASSUME NEW f \in Feedbacks, NEW low \in BOOLEAN, AddFeedback(s, f, low) PROVE TypeOK'
  <2>1. request[s].trace \in Traces
    BY <1>0, <1>2, RequestShape DEF AddFeedback, Pending
  <2>2. [trace |-> request[s].trace, low |-> low, by |-> s] \in FeedbackRow
    BY <2>1 DEF FeedbackRow
  <2> QED BY <1>2, <2>2 DEF TypeOK, AddFeedback, Done, evidence
<1>3. ASSUME NEW f \in Feedbacks, AdmitReview(s, f) PROVE TypeOK'
  <2>1. [op |-> "review", feedback |-> f] \in Request
    BY DEF Request
  <2> QED BY <1>3, <2>1, TypeOfAdmission DEF AdmitReview
<1>4. ASSUME NEW f \in Feedbacks, AdmitPromotion(s, f) PROVE TypeOK'
  <2>1. [op |-> "promote", feedback |-> f] \in Request
    BY DEF Request
  <2> QED BY <1>4, <2>1, TypeOfAdmission DEF AdmitPromotion
<1>5. ASSUME NEW status \in {"pending", "confirmed", "rejected"}, UpsertReview(s, status) PROVE TypeOK'
  <2>1. request[s].feedback \in Feedbacks
    BY <1>0, <1>5, RequestShape DEF UpsertReview, Pending
  <2>2. [status |-> status, by |-> s] \in ReviewRow
    BY DEF ReviewRow
  <2> QED BY <1>5, <2>1, <2>2 DEF TypeOK, UpsertReview, Done, evidence
<1>6. ASSUME NEW scenario \in Scenarios, PreparePromotion(s, scenario) PROVE TypeOK'
  <2>1. request[s].feedback \in Feedbacks
    BY <1>0, <1>6, RequestShape DEF PreparePromotion, Pending
  <2>2. [op |-> "promotable", feedback |-> request[s].feedback, scenario |-> scenario] \in Request
    BY <2>1 DEF Request
  <2> QED BY <1>6, <2>2 DEF TypeOK, PreparePromotion, chain, evidence
<1>7. CASE CreatePromotion(s)
  <2> DEFINE f == request[s].feedback
             row == [trace |-> feedback[f].trace, scenario |-> request[s].scenario]
  <2>1. f \in Feedbacks /\ request[s].scenario \in Scenarios
    BY <1>0, <1>7, RequestShape DEF CreatePromotion, Pending
  <2>2. feedback[f] \in FeedbackRow
    BY <1>7, <2>1 DEF CreatePromotion, LiveReview, LiveFeedback, TypeOK
  <2>3. row \in PromotionRow
    BY <2>1, <2>2 DEF PromotionRow, FeedbackRow
  <2>4. promotions' \in [Feedbacks -> PromotionRow \cup {None}]
    <3>1. promotions' = promotions \/ promotions' = [promotions EXCEPT ![f] = row]
      BY <1>7 DEF CreatePromotion
    <3> HIDE DEF row, f
    <3> QED BY <3>1, <2>3 DEF TypeOK
  <2> QED BY <1>7, <2>4 DEF TypeOK, CreatePromotion, Done, evidence
<1> QED BY <1>1, <1>2, <1>3, <1>4, <1>5, <1>6, <1>7 DEF Review

LEMMA TypeOfRelease == ASSUME TypeOK, NEW s \in Sessions, Release(s) PROVE TypeOK'
<1>0. request[s] \in Request \cup {None}
  BY DEF TypeOK
<1>1. ASSUME NEW f \in Feedbacks, NEW r \in Runs, NEW checked \in BOOLEAN, AdmitLink(s, f, r, checked)
      PROVE  TypeOK'
  <2>1. runs[r] \in Reports
    BY <1>1 DEF AdmitLink, LiveRun, TypeOK
  <2>2. [op |-> "link", feedback |-> f, run |-> r, report |-> runs[r], checked |-> checked] \in Request
    BY <2>1 DEF Request
  <2> QED BY <1>1, <2>2, TypeOfAdmission DEF AdmitLink
<1>2. CASE CreateLink(s)
  <2> DEFINE f == request[s].feedback
             row == [feedback |-> f, trace |-> promotions[f].trace,
                     scenario |-> promotions[f].scenario, run |-> request[s].run]
  <2>1. f \in Feedbacks /\ request[s].run \in Runs
    BY <1>0, <1>2, RequestShape DEF CreateLink, Pending
  <2>2. promotions[f] \in PromotionRow
    BY <1>2, <2>1 DEF CreateLink, LivePromotion, TypeOK
  <2>3. row \in LinkRow
    BY <2>1, <2>2 DEF PromotionRow, LinkRow
  <2>4. links' = links \cup {row}
    BY <1>2 DEF CreateLink
  <2> HIDE DEF row
  <2> QED BY <1>2, <2>3, <2>4 DEF TypeOK, CreateLink, Done, evidence
<1>3. ASSUME NEW b \in Runs, NEW k \in Runs, NEW checked \in BOOLEAN, AdmitValidation(s, b, k, checked)
      PROVE  TypeOK'
  <2>1. [op |-> "validate", baseline |-> b, candidate |-> k] \in Request
    BY DEF Request
  <2> QED BY <1>3, <2>1, TypeOfAdmission DEF AdmitValidation
<1>4. ASSUME NEW v \in Validations, NEW passed \in BOOLEAN, SaveValidation(s, v, passed)
      PROVE  TypeOK'
  <2> DEFINE row == [baseline |-> request[s].baseline, candidate |-> request[s].candidate, passed |-> passed]
  <2>1. request[s].baseline \in Runs /\ request[s].candidate \in Runs
    BY <1>0, <1>4, RequestShape DEF SaveValidation, Pending
  <2>2. row \in ValidationRow
    BY <2>1 DEF ValidationRow
  <2> QED BY <1>4, <2>2 DEF TypeOK, SaveValidation, Done, chain
<1> QED BY <1>1, <1>2, <1>3, <1>4 DEF Release

LEMMA TypeOfStep == ASSUME TypeOK, [Next]_vars PROVE TypeOK'
<1>1. ASSUME NEW r \in Runs, NEW report \in Reports, ImportRun(r, report) PROVE TypeOK'
  BY <1>1 DEF TypeOK, ImportRun, chain
<1>2. ASSUME NEW s \in Sessions, EndRequest(s) PROVE TypeOK'
  BY <1>2 DEF TypeOK, EndRequest, Done, chain, evidence
<1>3. CASE UNCHANGED vars
  BY <1>3 DEF TypeOK, vars, chain, evidence
<1> QED BY <1>1, <1>2, <1>3, TypeOfTelemetry, TypeOfReview, TypeOfRelease DEF Next

LEMMA TypeInitially == ASSUME Init PROVE TypeOK
BY DEF Init, TypeOK

\* Every table keeps its type, and every request in flight names rows of the
\* tables it was admitted for.
THEOREM TypeCorrect == Spec => []TypeOK
<1>1. Init => TypeOK
  BY TypeInitially
<1>2. TypeOK /\ [Next]_vars => TypeOK'
  BY TypeOfStep
<1> QED BY <1>1, <1>2, PTL DEF Spec

------------------------------------------------------------------------------
(* A stored run stays, so what a request has read of it stays true.           *)

RunsKept == \A r \in Runs : runs[r] # None => runs'[r] = runs[r]

LEMMA RunsAreKept == ASSUME TypeOK, [Next]_vars PROVE RunsKept
<1>1. ASSUME NEW r \in Runs, NEW report \in Reports, ImportRun(r, report) PROVE RunsKept
  BY <1>1 DEF ImportRun, RunsKept, TypeOK
<1>2. CASE Telemetry
  BY <1>2 DEF Telemetry, Tick, PruneExpired, IngestTrace, evidence, RunsKept
<1>3. ASSUME NEW s \in Sessions, Review(s) \/ EndRequest(s) PROVE RunsKept
  BY <1>3 DEF Review, AdmitFeedback, AddFeedback, AdmitReview, AdmitPromotion, UpsertReview, Admit,
              PreparePromotion, CreatePromotion, EndRequest, evidence, RunsKept
<1>4. ASSUME NEW s \in Sessions, Release(s) PROVE RunsKept
  BY <1>4 DEF Release, AdmitLink, CreateLink, AdmitValidation, SaveValidation, Admit, evidence, RunsKept
<1>5. CASE UNCHANGED vars
  BY <1>5 DEF vars, evidence, RunsKept
<1> QED BY <1>1, <1>2, <1>3, <1>4, <1>5 DEF Next

\* Comparable, in the table of runs before or after a step.
Judged(table, b, k) == b # k /\ SameKind(table[b], table[k])

\* What the requests in flight have read of the runs.
ReadRuns ==
    \A s \in Sessions :
        /\ Pending(s, "link") => runs[request[s].run] = request[s].report
        /\ Pending(s, "validate") => Judged(runs, request[s].baseline, request[s].candidate)

LEMMA ReadRunsKept ==
    ASSUME TypeOK, RunsKept, ReadRuns, NEW s \in Sessions, request'[s] = request[s]
    PROVE  /\ Pending(s, "link")' => runs'[request'[s].run] = request'[s].report
           /\ Pending(s, "validate")' =>
                  Judged(runs', request'[s].baseline, request'[s].candidate)
<1>1. ASSUME Pending(s, "link") PROVE runs'[request[s].run] = request[s].report
  <2>1. request[s] \in Request
    BY <1>1 DEF Pending, TypeOK
  <2>2. request[s].run \in Runs /\ request[s].report \in Reports
    BY <1>1, <2>1, RequestShape DEF Pending
  <2>3. runs[request[s].run] = request[s].report
    BY <1>1 DEF ReadRuns
  <2> QED BY <2>2, <2>3 DEF RunsKept
<1>2. ASSUME Pending(s, "validate") PROVE Judged(runs', request[s].baseline, request[s].candidate)
  <2>1. request[s] \in Request
    BY <1>2 DEF Pending, TypeOK
  <2>2. request[s].baseline \in Runs /\ request[s].candidate \in Runs
    BY <1>2, <2>1, RequestShape DEF Pending
  <2>3. Judged(runs, request[s].baseline, request[s].candidate)
    BY <1>2 DEF ReadRuns
  <2> QED BY <2>2, <2>3 DEF RunsKept, Judged, SameKind
<1> QED BY <1>1, <1>2 DEF Pending

LEMMA OtherRequestsStay ==
    ASSUME TypeOK, NEW s \in Sessions, NEW q, request' = [request EXCEPT ![s] = q]
    PROVE  /\ request'[s] = q
           /\ \A z \in Sessions \ {s} : request'[z] = request[z]
BY DEF TypeOK

LEMMA ReadRunsStep == ASSUME TypeOK, ReadRuns, [Next]_vars PROVE ReadRuns'
<1>0. RunsKept
  BY RunsAreKept
<1> DEFINE Good(z) == /\ Pending(z, "link")' => runs'[request'[z].run] = request'[z].report
                      /\ Pending(z, "validate")' =>
                             Judged(runs', request'[z].baseline, request'[z].candidate)
<1>1. \A z \in Sessions : request'[z] = request[z] => Good(z)
  BY <1>0, ReadRunsKept
<1>2. ASSUME request' = request PROVE ReadRuns'
  BY <1>1, <1>2 DEF ReadRuns
<1>3. ASSUME NEW s \in Sessions, NEW q, request' = [request EXCEPT ![s] = q], Good(s)
      PROVE  ReadRuns'
  <2>1. \A z \in Sessions \ {s} : request'[z] = request[z]
    BY <1>3, OtherRequestsStay
  <2>2. \A z \in Sessions : Good(z)
    BY <1>1, <1>3, <2>1
  <2> QED BY <2>2 DEF ReadRuns
<1>4. ASSUME NEW s \in Sessions, NEW q, request' = [request EXCEPT ![s] = q],
             q = None \/ q.op \notin {"link", "validate"}
      PROVE  ReadRuns'
  <2>1. request'[s] = q
    BY <1>4, OtherRequestsStay
  <2>2. Good(s)
    BY <1>4, <2>1 DEF Pending
  <2> QED BY <1>3, <1>4, <2>2
<1>5. CASE Telemetry
  BY <1>2, <1>5 DEF Telemetry, Tick, PruneExpired, IngestTrace
<1>6. ASSUME NEW r \in Runs, NEW report \in Reports, ImportRun(r, report) PROVE ReadRuns'
  BY <1>2, <1>6 DEF ImportRun
<1>7. ASSUME NEW s \in Sessions, Review(s) \/ EndRequest(s) PROVE ReadRuns'
  BY <1>4, <1>7 DEF Review, AdmitFeedback, AddFeedback, AdmitReview, AdmitPromotion, UpsertReview,
                    Admit, PreparePromotion, CreatePromotion, EndRequest, Done
<1>8. ASSUME NEW s \in Sessions, Release(s) PROVE ReadRuns'
  <2>1. ASSUME NEW f \in Feedbacks, NEW r \in Runs, NEW checked \in BOOLEAN, AdmitLink(s, f, r, checked)
        PROVE  ReadRuns'
    <3> DEFINE q == [op |-> "link", feedback |-> f, run |-> r, report |-> runs[r], checked |-> checked]
    <3>1. request' = [request EXCEPT ![s] = q] /\ runs' = runs
      BY <2>1 DEF AdmitLink, Admit, evidence
    <3>2. request'[s] = q
      BY <3>1, OtherRequestsStay
    <3>3. Good(s)
      BY <3>1, <3>2 DEF Pending
    <3> QED BY <1>3, <3>1, <3>3
  <2>2. ASSUME NEW b \in Runs, NEW k \in Runs, NEW checked \in BOOLEAN, AdmitValidation(s, b, k, checked)
        PROVE  ReadRuns'
    <3> DEFINE q == [op |-> "validate", baseline |-> b, candidate |-> k]
    <3>1. request' = [request EXCEPT ![s] = q] /\ runs' = runs
      BY <2>2 DEF AdmitValidation, Admit, evidence
    <3>2. request'[s] = q
      BY <3>1, OtherRequestsStay
    <3>3. Judged(runs', b, k)
      BY <2>2, <3>1 DEF AdmitValidation, Comparable, Judged
    <3>4. Good(s)
      BY <3>2, <3>3 DEF Pending
    <3> QED BY <1>3, <3>1, <3>4
  <2>3. CASE CreateLink(s) \/ \E v \in Validations, passed \in BOOLEAN : SaveValidation(s, v, passed)
    BY <1>4, <2>3 DEF CreateLink, SaveValidation, Done
  <2> QED BY <1>8, <2>1, <2>2, <2>3 DEF Release
<1>9. CASE UNCHANGED vars
  BY <1>2, <1>9 DEF vars
<1> QED BY <1>5, <1>6, <1>7, <1>8, <1>9 DEF Next

LEMMA ValidationsStep ==
    ASSUME TypeOK, ReadRuns, ValidationsStand, [Next]_vars
    PROVE  ValidationsStand'
<1>0. RunsKept
  BY RunsAreKept
<1> DEFINE Stands(row) == row # None => Judged(runs', row.baseline, row.candidate)
<1>1. \A v \in Validations : Stands(validations[v])
  <2> SUFFICES ASSUME NEW v \in Validations, validations[v] # None
               PROVE  Judged(runs', validations[v].baseline, validations[v].candidate)
    OBVIOUS
  <2>1. validations[v].baseline \in Runs /\ validations[v].candidate \in Runs
    BY DEF TypeOK, ValidationRow
  <2>2. Judged(runs, validations[v].baseline, validations[v].candidate)
    BY DEF ValidationsStand, Comparable, Judged
  <2> QED BY <1>0, <2>1, <2>2 DEF RunsKept, Judged, SameKind
<1>2. ASSUME \A v \in Validations : Stands(validations'[v]) PROVE ValidationsStand'
  BY <1>2 DEF ValidationsStand, Comparable, Judged
<1> HIDE DEF Stands
<1>3. ASSUME NEW s \in Sessions, NEW w \in Validations, NEW passed \in BOOLEAN, SaveValidation(s, w, passed)
      PROVE  ValidationsStand'
  <2> DEFINE row == [baseline |-> request[s].baseline, candidate |-> request[s].candidate, passed |-> passed]
  <2>1. validations' = [validations EXCEPT ![w] = row] /\ runs' = runs
    BY <1>3 DEF SaveValidation
  <2>2. Judged(runs', request[s].baseline, request[s].candidate)
    BY <1>3, <2>1 DEF SaveValidation, ReadRuns
  <2>3. Stands(row)
    BY <2>2 DEF Stands
  <2> HIDE DEF row
  <2>4. \A v \in Validations : validations'[v] \in {row, validations[v]}
    BY <2>1 DEF TypeOK
  <2> QED BY <1>1, <1>2, <2>3, <2>4
<1>4. ASSUME NEW s \in Sessions, Review(s) \/ EndRequest(s) PROVE ValidationsStand'
  BY <1>1, <1>2, <1>4 DEF Review, AdmitFeedback, AddFeedback, AdmitReview, AdmitPromotion, UpsertReview,
                    Admit, PreparePromotion, CreatePromotion, EndRequest, evidence
<1>5. ASSUME NEW s \in Sessions, Release(s) PROVE ValidationsStand'
  BY <1>1, <1>2, <1>3, <1>5 DEF Release, AdmitLink, CreateLink, AdmitValidation, Admit, evidence
<1>6. CASE Telemetry \/ (\E r \in Runs, report \in Reports : ImportRun(r, report)) \/ UNCHANGED vars
  BY <1>1, <1>2, <1>6 DEF Telemetry, Tick, PruneExpired, IngestTrace, ImportRun, evidence, vars
<1> QED BY <1>3, <1>4, <1>5, <1>6 DEF Next

\* What a stored validation judged is never rewritten: its two runs are still
\* there, of one application, one environment and one set of assets.
THEOREM ValidationsAlwaysStand == Spec => []ValidationsStand
<1> DEFINE Inv == TypeOK /\ ReadRuns /\ ValidationsStand
<1>1. Init => Inv
  BY TypeInitially DEF Init, ReadRuns, ValidationsStand, Pending
<1>2. Inv /\ [Next]_vars => Inv'
  BY TypeOfStep, ReadRunsStep, ValidationsStep
<1> QED BY <1>1, <1>2, PTL DEF Spec

------------------------------------------------------------------------------
(* The chain of rows.  Feedback identifiers are drawn once, so a row found    *)
(* under an identifier that was already drawn is the row that was there.      *)

Issued == \A f \in Feedbacks : feedback[f] # None => f \in issued

FeedbackLink(f) ==
    /\ feedback[f] # None => traces[feedback[f].trace] # None
    /\ reviews[f] # None => feedback[f] # None
    /\ promotions[f] # None => reviews[f] # None /\ promotions[f].trace = feedback[f].trace

QualityLink(l) ==
    /\ promotions[l.feedback] = [trace |-> l.trace, scenario |-> l.scenario]
    /\ runs[l.run] # None /\ l.scenario \in runs[l.run].scenarios

ChainInv == ChainIntegrity /\ Issued

LEMMA ChainParts ==
    ASSUME TypeOK
    PROVE  ChainIntegrity <=> /\ \A f \in Feedbacks : FeedbackLink(f)
                              /\ \A l \in links : QualityLink(l)
BY DEF ChainIntegrity, FeedbackLink, QualityLink

LEMMA ChainOfPrune == ASSUME TypeOK, ChainInv, PruneExpired PROVE ChainInv'
<1> DEFINE gone(t)  == traces[t] # None /\ ~Unexpired(traces[t].stamp)
           doomed(f) == feedback[f] # None /\ gone(feedback[f].trace)
<1>1. /\ \A t \in Traces : traces'[t] = IF gone(t) THEN None ELSE traces[t]
      /\ \A f \in Feedbacks :
            /\ feedback'[f] = IF doomed(f) THEN None ELSE feedback[f]
            /\ reviews'[f] = IF doomed(f) THEN None ELSE reviews[f]
            /\ promotions'[f] = IF doomed(f) THEN None ELSE promotions[f]
      /\ links' = {l \in links : ~doomed(l.feedback)}
      /\ runs' = runs /\ issued' = issued
  BY DEF PruneExpired, evidence
<1>2. ASSUME NEW f \in Feedbacks PROVE FeedbackLink(f)' /\ (feedback'[f] # None => f \in issued')
  <2>1. FeedbackLink(f) /\ (feedback[f] # None => f \in issued)
    BY ChainParts DEF ChainInv, Issued
  <2>2. feedback[f] # None => feedback[f].trace \in Traces
    BY DEF TypeOK, FeedbackRow
  <2>3. CASE doomed(f)
    <3>1. feedback'[f] = None /\ reviews'[f] = None /\ promotions'[f] = None
      BY <1>1, <2>3
    <3> QED BY <3>1 DEF FeedbackLink
  <2>4. CASE ~doomed(f)
    <3>1. feedback'[f] = feedback[f] /\ reviews'[f] = reviews[f] /\ promotions'[f] = promotions[f]
      BY <1>1, <2>4
    <3>2. feedback[f] # None => traces'[feedback[f].trace] # None
      BY <1>1, <2>1, <2>2, <2>4 DEF FeedbackLink
    <3> QED BY <1>1, <2>1, <3>1, <3>2 DEF FeedbackLink
  <2> QED BY <2>3, <2>4
<1>3. ASSUME NEW l \in links' PROVE QualityLink(l)'
  <2>1. l \in links /\ ~doomed(l.feedback) /\ l.feedback \in Feedbacks
    BY <1>1, <1>3 DEF TypeOK, LinkRow
  <2>2. QualityLink(l)
    BY <2>1, ChainParts DEF ChainInv
  <2>3. promotions'[l.feedback] = promotions[l.feedback]
    BY <1>1, <2>1
  <2> QED BY <1>1, <2>2, <2>3 DEF QualityLink
<1>4. ChainIntegrity'
  BY <1>2, <1>3, ChainParts, TypeOfStep DEF Next, Telemetry, ChainIntegrity, FeedbackLink, QualityLink
<1> QED BY <1>2, <1>4 DEF ChainInv, Issued

\* Steps that only add rows, or touch no row of the chain at all.
LEMMA ChainGrows ==
    ASSUME TypeOK, ChainInv, RunsKept, issued' = issued, feedback' = feedback,
           \A t \in Traces : traces[t] # None => traces'[t] # None,
           \A f \in Feedbacks : /\ reviews[f] # None => reviews'[f] # None
                                /\ reviews'[f] # None => feedback[f] # None,
           \A f \in Feedbacks :
               promotions'[f] # promotions[f] =>
                   /\ promotions[f] = None /\ reviews[f] # None
                   /\ promotions'[f].trace = feedback[f].trace,
           links' = links
    PROVE  ChainInv'
<1>1. ASSUME NEW f \in Feedbacks PROVE FeedbackLink(f)'
  <2>1. FeedbackLink(f)
    BY ChainParts DEF ChainInv
  <2>2. feedback[f] # None => feedback[f].trace \in Traces
    BY DEF TypeOK, FeedbackRow
  <2> QED BY <2>1, <2>2 DEF FeedbackLink
<1>2. ASSUME NEW l \in links' PROVE QualityLink(l)'
  <2>1. l \in links /\ l.feedback \in Feedbacks /\ l.run \in Runs
    BY <1>2 DEF TypeOK, LinkRow
  <2>2. QualityLink(l)
    BY <2>1, ChainParts DEF ChainInv
  <2>3. promotions[l.feedback] # None
    <3>1. [trace |-> l.trace, scenario |-> l.scenario] \in PromotionRow
      BY <2>1 DEF TypeOK, LinkRow, PromotionRow
    <3> QED BY <2>2, <3>1 DEF QualityLink
  <2>4. promotions'[l.feedback] = promotions[l.feedback]
    BY <2>1, <2>3
  <2>5. runs'[l.run] = runs[l.run]
    BY <2>1, <2>2 DEF QualityLink, RunsKept
  <2> QED BY <2>2, <2>4, <2>5 DEF QualityLink
<1> QED BY <1>1, <1>2 DEF ChainInv, ChainIntegrity, FeedbackLink, QualityLink, Issued

LEMMA ChainOfReview ==
    ASSUME TypeOK, ChainInv, NEW s \in Sessions, Review(s)
    PROVE  ChainInv'
<1>0. RunsKept
  BY RunsAreKept DEF Next
<1>1. request[s] \in Request \cup {None}
  BY DEF TypeOK
<1>2. ASSUME NEW f \in Feedbacks, NEW low \in BOOLEAN, AddFeedback(s, f, low) PROVE ChainInv'
  <2> DEFINE row == [trace |-> request[s].trace, low |-> low, by |-> s]
  <2>1. feedback' = [feedback EXCEPT ![f] = row] /\ issued' = issued \cup {f}
    BY <1>2 DEF AddFeedback
  <2>2. traces[row.trace] # None /\ row.trace = request[s].trace
    BY <1>2 DEF AddFeedback
  <2>3. UNCHANGED <<traces, reviews, promotions, links, runs>>
    BY <1>2 DEF AddFeedback, evidence
  <2>4. feedback[f] = None /\ reviews[f] = None /\ promotions[f] = None
    <3>1. f \notin issued
      BY <1>2 DEF AddFeedback
    <3>2. FeedbackLink(f)
      BY ChainParts DEF ChainInv
    <3> QED BY <3>1, <3>2 DEF ChainInv, Issued, FeedbackLink
  <2>5. ASSUME NEW g \in Feedbacks PROVE FeedbackLink(g)'
    <3>1. FeedbackLink(g)
      BY ChainParts DEF ChainInv
    <3>2. CASE g = f
      <4>1. feedback'[g] = row
        BY <2>1, <3>2 DEF TypeOK
      <4> QED BY <2>2, <2>3, <2>4, <3>2, <4>1 DEF FeedbackLink
    <3>3. CASE g # f
      <4>1. feedback'[g] = feedback[g]
        BY <2>1, <3>3 DEF TypeOK
      <4> QED BY <2>3, <3>1, <4>1 DEF FeedbackLink
    <3> QED BY <3>2, <3>3
  <2>6. \A l \in links' : QualityLink(l)'
    BY <2>3, ChainParts DEF ChainInv, QualityLink
  <2>7. Issued'
    BY <2>1 DEF ChainInv, Issued, TypeOK
  <2> QED BY <2>5, <2>6, <2>7 DEF ChainInv, ChainIntegrity, FeedbackLink, QualityLink
<1>3. ASSUME NEW status \in {"pending", "confirmed", "rejected"}, UpsertReview(s, status) PROVE ChainInv'
  <2> DEFINE f == request[s].feedback
             row == [status |-> status, by |-> s]
  <2>1. f \in Feedbacks
    BY <1>1, <1>3, RequestShape DEF UpsertReview, Pending
  <2>2. reviews' = [reviews EXCEPT ![f] = row] /\ feedback[f] # None
    BY <1>3 DEF UpsertReview, LiveFeedback
  <2>3. row \in ReviewRow
    BY DEF ReviewRow
  <2>4. UNCHANGED <<traces, feedback, promotions, links, issued, runs>>
    BY <1>3 DEF UpsertReview, evidence
  <2>5. \A g \in Feedbacks : FeedbackLink(g)
    BY ChainParts DEF ChainInv
  <2> HIDE DEF f, row
  <2>6. \A g \in Feedbacks : /\ reviews[g] # None => reviews'[g] # None
                             /\ reviews'[g] # None => feedback[g] # None
    BY <2>1, <2>2, <2>3, <2>5 DEF TypeOK, FeedbackLink
  <2> QED BY <1>0, <2>4, <2>6, ChainGrows
<1>4. CASE CreatePromotion(s)
  <2> DEFINE f == request[s].feedback
             row == [trace |-> feedback[f].trace, scenario |-> request[s].scenario]
  <2>1. f \in Feedbacks
    BY <1>1, <1>4, RequestShape DEF CreatePromotion, Pending
  <2>2. /\ promotions' = IF promotions[f] # None THEN promotions ELSE [promotions EXCEPT ![f] = row]
        /\ reviews[f] # None
    BY <1>4, Zenon DEF CreatePromotion, LiveReview
  <2>3. row.trace = feedback[f].trace
    OBVIOUS
  <2>4. UNCHANGED <<traces, feedback, reviews, links, issued, runs>>
    BY <1>4 DEF CreatePromotion, evidence
  <2>5. \A g \in Feedbacks : FeedbackLink(g)
    BY ChainParts DEF ChainInv
  <2> HIDE DEF f, row
  <2>6. \A g \in Feedbacks : promotions'[g] # promotions[g] =>
           promotions[g] = None /\ reviews[g] # None /\ promotions'[g].trace = feedback[g].trace
    BY <2>1, <2>2, <2>3 DEF TypeOK
  <2> QED BY <1>0, <2>4, <2>5, <2>6, ChainGrows DEF FeedbackLink
<1>5. ASSUME UNCHANGED <<now, chain, evidence>> PROVE ChainInv'
  BY <1>5 DEF chain, evidence, ChainInv, ChainIntegrity, Issued
<1> QED
  BY <1>2, <1>3, <1>4, <1>5
  DEF Review, AdmitFeedback, AdmitReview, AdmitPromotion, Admit, PreparePromotion

LEMMA ChainOfLink ==
    ASSUME TypeOK, ChainInv, ReadRuns, NEW s \in Sessions, CreateLink(s)
    PROVE  ChainInv'
<1> DEFINE f == request[s].feedback
           row == [feedback |-> f, trace |-> promotions[f].trace,
                   scenario |-> promotions[f].scenario, run |-> request[s].run]
<1>1. request[s] \in Request /\ request[s].op = "link"
  BY DEF CreateLink, Pending, TypeOK
<1>2. f \in Feedbacks /\ request[s].run \in Runs /\ request[s].report \in Reports
  BY <1>1, RequestShape
<1>3. runs[request[s].run] = request[s].report
  BY DEF CreateLink, ReadRuns
<1>4. promotions[f] \in PromotionRow
  BY <1>2 DEF CreateLink, LivePromotion, TypeOK
<1>5. promotions[f].scenario \in request[s].report.scenarios
  BY DEF CreateLink
<1>6. links' = links \cup {row} /\ UNCHANGED <<traces, feedback, reviews, promotions, issued, runs>>
  BY DEF CreateLink, evidence
<1>7. promotions[f] = [trace |-> promotions[f].trace, scenario |-> promotions[f].scenario]
  BY <1>4 DEF PromotionRow
<1>8. QualityLink(row)
  BY <1>2, <1>3, <1>5, <1>7 DEF QualityLink
<1> HIDE DEF row
<1>9. \A l \in links' : QualityLink(l)
  BY <1>6, <1>8, ChainParts DEF ChainInv
<1>10. (\A l \in links' : QualityLink(l)') /\ (\A g \in Feedbacks : FeedbackLink(g)')
  BY <1>6, <1>9, ChainParts DEF QualityLink, ChainInv, FeedbackLink
<1> QED BY <1>6, <1>10 DEF ChainInv, ChainIntegrity, QualityLink, FeedbackLink, Issued

LEMMA ChainStep == ASSUME TypeOK, ReadRuns, ChainInv, [Next]_vars PROVE ChainInv'
<1>0. RunsKept
  BY RunsAreKept
<1>1. CASE PruneExpired
  BY <1>1, ChainOfPrune
<1>2. ASSUME NEW t \in Traces, NEW app \in Apps, NEW stamp \in 0..MaxTime, IngestTrace(t, app, stamp)
      PROVE  ChainInv'
  <2>1. [app |-> app, stamp |-> stamp] \in TraceRow
    BY DEF TraceRow
  <2>2. \A u \in Traces : traces[u] # None => traces'[u] # None
    BY <1>2, <2>1 DEF IngestTrace, TypeOK
  <2>3. \A f \in Feedbacks : FeedbackLink(f)
    BY ChainParts DEF ChainInv
  <2> QED BY <1>0, <1>2, <2>2, <2>3, ChainGrows DEF IngestTrace, evidence, FeedbackLink
<1>3. ASSUME UNCHANGED chain PROVE ChainInv'
  <2>1. \A f \in Feedbacks : FeedbackLink(f)
    BY ChainParts DEF ChainInv
  <2> QED BY <1>0, <1>3, <2>1, ChainGrows DEF chain, FeedbackLink
<1>4. ASSUME NEW s \in Sessions, Release(s) PROVE ChainInv'
  BY <1>3, <1>4, ChainOfLink DEF Release, AdmitLink, AdmitValidation, Admit, SaveValidation
<1>5. ASSUME NEW s \in Sessions, Review(s) PROVE ChainInv'
  BY <1>5, ChainOfReview
<1> QED
  BY <1>1, <1>2, <1>3, <1>4, <1>5 DEF Next, Telemetry, Tick, ImportRun, EndRequest, vars

\* No row of the loop outlives what it was derived from, and every link names
\* a promotion that is still there and a run that executed its scenario.
THEOREM ChainHolds == Spec => []ChainIntegrity
<1> DEFINE Inv == TypeOK /\ ReadRuns /\ ChainInv
<1>1. Init => Inv
  BY TypeInitially DEF Init, ReadRuns, ChainInv, ChainIntegrity, Issued, Pending
<1>2. Inv /\ [Next]_vars => Inv'
  BY TypeOfStep, ReadRunsStep, ChainStep
<1>3. Inv => ChainIntegrity
  BY DEF ChainInv
<1> QED BY <1>1, <1>2, <1>3, PTL DEF Spec

------------------------------------------------------------------------------
(* Scope.  In production a row of feedback keeps its trace and its trace keeps*)
(* its application, so a request admitted for a row that was already there    *)
(* stays within its caller's scope.                                           *)

\* Feedback found under an identifier that was drawn before the step is the
\* feedback that was there, on a trace of the same application.
FeedbackKept ==
    \A f \in issued : feedback'[f] # None =>
        /\ feedback[f] # None
        /\ feedback'[f] = feedback[f]
        /\ TraceApp(f)' = TraceApp(f)

LEMMA FeedbackIsKept ==
    ASSUME TypeOK, ChainInv, Scoped, [Next]_vars
    PROVE  FeedbackKept /\ issued \subseteq issued'
<1>0. \A f \in Feedbacks : FeedbackLink(f)
  BY ChainParts DEF ChainInv
<1>1. ASSUME feedback' = feedback, traces' = traces, issued' = issued
      PROVE  FeedbackKept /\ issued \subseteq issued'
  BY <1>1 DEF FeedbackKept, TraceApp
<1>2. ASSUME NEW t \in Traces, NEW app \in Apps, NEW stamp \in 0..MaxTime, IngestTrace(t, app, stamp)
      PROVE  FeedbackKept /\ issued \subseteq issued'
  <2> DEFINE row == [app |-> app, stamp |-> stamp]
  <2>1. traces' = [traces EXCEPT ![t] = row] /\ feedback' = feedback /\ issued' = issued
    BY <1>2 DEF IngestTrace
  <2>2. row.app = app /\ (traces[t] # None => traces[t].app = app)
    BY <1>2 DEF IngestTrace, Overwrites
  <2> HIDE DEF row
  <2>3. ASSUME NEW f \in issued, feedback[f] # None PROVE TraceApp(f)' = TraceApp(f)
    <3>1. feedback[f].trace \in Traces /\ traces[feedback[f].trace] # None
      BY <1>0, <2>3 DEF TypeOK, FeedbackRow, FeedbackLink
    <3> QED BY <2>1, <2>2, <3>1 DEF TraceApp, TypeOK
  <2> QED BY <2>1, <2>3 DEF FeedbackKept
<1>3. CASE PruneExpired
  <2> DEFINE gone(t)  == traces[t] # None /\ ~Unexpired(traces[t].stamp)
             doomed(f) == feedback[f] # None /\ gone(feedback[f].trace)
  <2>1. /\ \A t \in Traces : traces'[t] = IF gone(t) THEN None ELSE traces[t]
        /\ \A f \in Feedbacks : feedback'[f] = IF doomed(f) THEN None ELSE feedback[f]
        /\ issued' = issued
    BY <1>3 DEF PruneExpired
  <2>2. ASSUME NEW f \in issued, feedback'[f] # None
        PROVE  feedback[f] # None /\ feedback'[f] = feedback[f] /\ TraceApp(f)' = TraceApp(f)
    <3>1. feedback'[f] = feedback[f] /\ ~doomed(f)
      BY <2>1, <2>2 DEF TypeOK
    <3>2. feedback[f].trace \in Traces /\ traces[feedback[f].trace] # None
      BY <1>0, <2>2, <3>1 DEF TypeOK, FeedbackRow, FeedbackLink
    <3>3. traces'[feedback[f].trace] = traces[feedback[f].trace]
      BY <2>1, <2>2, <3>1, <3>2
    <3> QED BY <2>2, <3>1, <3>3 DEF TraceApp
  <2> QED BY <2>1, <2>2 DEF FeedbackKept
<1>4. ASSUME NEW s \in Sessions, NEW f \in Feedbacks, NEW low \in BOOLEAN, AddFeedback(s, f, low)
      PROVE  FeedbackKept /\ issued \subseteq issued'
  <2> DEFINE row == [trace |-> request[s].trace, low |-> low, by |-> s]
  <2>1. feedback' = [feedback EXCEPT ![f] = row] /\ issued' = issued \cup {f}
    BY <1>4 DEF AddFeedback
  <2>2. f \notin issued /\ traces' = traces
    BY <1>4 DEF AddFeedback
  <2> HIDE DEF row
  <2>3. \A g \in issued : feedback'[g] = feedback[g]
    BY <2>1, <2>2 DEF TypeOK
  <2> QED BY <2>1, <2>2, <2>3 DEF FeedbackKept, TraceApp
<1>5. CASE Tick \/ (\E r \in Runs, report \in Reports : ImportRun(r, report)) \/ UNCHANGED vars
  BY <1>1, <1>5 DEF Tick, ImportRun, chain, vars
<1>6. ASSUME NEW s \in Sessions, Review(s) PROVE FeedbackKept /\ issued \subseteq issued'
  BY <1>1, <1>4, <1>6
  DEF Review, AdmitFeedback, AdmitReview, AdmitPromotion, Admit, UpsertReview, PreparePromotion,
      CreatePromotion, chain
<1>7. ASSUME NEW s \in Sessions, Release(s) \/ EndRequest(s) PROVE FeedbackKept /\ issued \subseteq issued'
  BY <1>1, <1>7
  DEF Release, AdmitLink, CreateLink, AdmitValidation, Admit, SaveValidation, EndRequest, chain
<1> QED BY <1>2, <1>3, <1>5, <1>6, <1>7 DEF Next, Telemetry

\* Feedback f, as far as it is still there, is within the applications apps;
\* the tables are parameters, to speak of them before and after a step.
Within(tr, fb, drawn, f, apps) ==
    f \in drawn /\ (fb[f] # None => tr[fb[f].trace].app \in apps)

InScope(tr, fb, drawn, s, q) ==
    /\ q # None /\ q.op \in {"review", "promote", "promotable"} =>
           Within(tr, fb, drawn, q.feedback, AppsOf[s])
    /\ q # None /\ q.op = "link" /\ q.checked =>
           q.report.app \in AppsOf[s] /\ Within(tr, fb, drawn, q.feedback, {q.report.app})

ReviewersInScope ==
    \A f \in Feedbacks : reviews[f] # None => TraceApp(f) \in AppsOf[reviews[f].by]

ScopeInv ==
    Scoped => /\ ReviewersInScope
              /\ \A s \in Sessions : InScope(traces, feedback, issued, s, request[s])

LEMMA ScopeIsKept ==
    ASSUME FeedbackKept, issued \subseteq issued'
    PROVE  \A s \in Sessions, q \in Request \cup {None} :
               InScope(traces, feedback, issued, s, q) => InScope(traces', feedback', issued', s, q)
<1>1. \A f, apps : Within(traces, feedback, issued, f, apps) => Within(traces', feedback', issued', f, apps)
  BY DEF Within, FeedbackKept, TraceApp
<1> QED BY <1>1 DEF InScope

\* A step that admits or moves on one request, as InScope demands.
LEMMA RequestsInScope ==
    ASSUME TypeOK, Scoped, ScopeInv, FeedbackKept, issued \subseteq issued',
           NEW s \in Sessions, NEW q, request' = [request EXCEPT ![s] = q],
           InScope(traces', feedback', issued', s, q)
    PROVE  \A z \in Sessions : InScope(traces', feedback', issued', z, request'[z])
<1>1. request'[s] = q /\ \A z \in Sessions \ {s} : request'[z] = request[z]
  BY OtherRequestsStay
<1>2. \A z \in Sessions : request[z] \in Request \cup {None}
  BY DEF TypeOK
<1>3. \A z \in Sessions : InScope(traces, feedback, issued, z, request[z])
  BY DEF ScopeInv
<1> QED BY <1>1, <1>2, <1>3, ScopeIsKept

LEMMA ReviewersStep ==
    ASSUME TypeOK, Scoped, ScopeInv, ChainInv, FeedbackKept, [Next]_vars
    PROVE  ReviewersInScope'
<1>0. \A f \in Feedbacks : FeedbackLink(f)
  BY ChainParts DEF ChainInv
<1>1. ASSUME \A f \in Feedbacks : reviews'[f] # None => reviews'[f] = reviews[f] /\ feedback'[f] # None
      PROVE  ReviewersInScope'
  <2> SUFFICES ASSUME NEW f \in Feedbacks, reviews'[f] # None
               PROVE  TraceApp(f)' \in AppsOf[reviews'[f].by]
    BY DEF ReviewersInScope
  <2>1. reviews'[f] = reviews[f] /\ feedback'[f] # None
    BY <1>1
  <2>2. f \in issued
    BY <1>0, <2>1 DEF FeedbackLink, ChainInv, Issued
  <2>3. TraceApp(f)' = TraceApp(f)
    BY <2>1, <2>2 DEF FeedbackKept
  <2> QED BY <2>1, <2>3 DEF ScopeInv, ReviewersInScope
<1>2. CASE PruneExpired
  <2> DEFINE gone(t)  == traces[t] # None /\ ~Unexpired(traces[t].stamp)
             doomed(f) == feedback[f] # None /\ gone(feedback[f].trace)
  <2>1. \A f \in Feedbacks : /\ feedback'[f] = IF doomed(f) THEN None ELSE feedback[f]
                             /\ reviews'[f] = IF doomed(f) THEN None ELSE reviews[f]
    BY <1>2 DEF PruneExpired
  <2> HIDE DEF doomed
  <2> QED BY <1>0, <1>1, <2>1 DEF FeedbackLink
<1>3. ASSUME NEW s \in Sessions, NEW f \in Feedbacks, NEW low \in BOOLEAN, AddFeedback(s, f, low)
      PROVE  ReviewersInScope'
  <2> DEFINE row == [trace |-> request[s].trace, low |-> low, by |-> s]
  <2>1. feedback' = [feedback EXCEPT ![f] = row] /\ reviews' = reviews /\ f \notin issued
    BY <1>3 DEF AddFeedback
  <2> HIDE DEF row
  <2>2. \A g \in Feedbacks : reviews[g] # None => g # f /\ feedback'[g] = feedback[g]
    BY <1>0, <2>1 DEF FeedbackLink, ChainInv, Issued, TypeOK
  <2> QED BY <1>0, <1>1, <2>1, <2>2 DEF FeedbackLink
<1>4. ASSUME NEW s \in Sessions, NEW status \in {"pending", "confirmed", "rejected"}, UpsertReview(s, status)
      PROVE  ReviewersInScope'
  <2> DEFINE f == request[s].feedback
             row == [status |-> status, by |-> s]
  <2>1. request[s] \in Request /\ request[s].op = "review"
    BY <1>4 DEF UpsertReview, Pending, TypeOK
  <2>2. f \in Feedbacks /\ feedback[f] # None
    BY <1>4, <2>1, RequestShape DEF UpsertReview, LiveFeedback
  <2>3. TraceApp(f) \in AppsOf[s]
    <3>1. InScope(traces, feedback, issued, s, request[s])
      BY DEF ScopeInv
    <3>2. request[s] # None
      BY <1>4 DEF UpsertReview, Pending
    <3> QED BY <2>1, <2>2, <3>1, <3>2 DEF InScope, Within, TraceApp
  <2>4. reviews' = [reviews EXCEPT ![f] = row] /\ UNCHANGED <<traces, feedback>>
    BY <1>4 DEF UpsertReview
  <2>5. row.by = s
    OBVIOUS
  <2> HIDE DEF f, row
  <2>6. ASSUME NEW g \in Feedbacks, reviews'[g] # None
        PROVE  traces'[feedback'[g].trace].app \in AppsOf[reviews'[g].by]
    <3>1. CASE g = f
      BY <2>2, <2>3, <2>4, <2>5, <3>1 DEF TypeOK, TraceApp
    <3>2. CASE g # f
      BY <2>2, <2>4, <2>6, <3>2 DEF TypeOK, TraceApp, ScopeInv, ReviewersInScope
    <3> QED BY <3>1, <3>2
  <2> QED BY <2>6 DEF ReviewersInScope, TraceApp
<1>5. ASSUME UNCHANGED <<feedback, reviews>> PROVE ReviewersInScope'
  BY <1>0, <1>1, <1>5 DEF FeedbackLink
<1> QED
  BY <1>2, <1>3, <1>4, <1>5
  DEF Next, Telemetry, Tick, IngestTrace, ImportRun, Review, AdmitFeedback, AdmitReview, AdmitPromotion,
      Admit, PreparePromotion, CreatePromotion, Release, AdmitLink, CreateLink, AdmitValidation,
      SaveValidation, EndRequest, chain, vars

LEMMA ScopeStep == ASSUME TypeOK, ChainInv, ScopeInv, [Next]_vars PROVE ScopeInv'
<1> SUFFICES ASSUME Scoped
             PROVE  /\ ReviewersInScope'
                    /\ \A z \in Sessions : InScope(traces', feedback', issued', z, request'[z])
  BY DEF ScopeInv
<1>0. FeedbackKept /\ issued \subseteq issued'
  BY FeedbackIsKept
<1>1. ReviewersInScope'
  BY <1>0, ReviewersStep
<1> DEFINE Goal == \A z \in Sessions : InScope(traces', feedback', issued', z, request'[z])
<1>2. ASSUME request' = request PROVE Goal
  <2>1. \A z \in Sessions : request[z] \in Request \cup {None}
    BY DEF TypeOK
  <2>2. \A z \in Sessions : InScope(traces, feedback, issued, z, request[z])
    BY DEF ScopeInv
  <2> QED BY <1>0, <1>2, <2>1, <2>2, ScopeIsKept
<1>3. ASSUME NEW s \in Sessions, NEW q, request' = [request EXCEPT ![s] = q],
             InScope(traces', feedback', issued', s, q)
      PROVE  Goal
  BY <1>0, <1>3, RequestsInScope
<1> HIDE DEF Goal
<1>4. ASSUME NEW s \in Sessions, NEW q, request' = [request EXCEPT ![s] = q],
             q = None \/ q.op \in {"feedback", "validate"}
      PROVE  Goal
  BY <1>3, <1>4 DEF InScope
<1>5. ASSUME NEW s \in Sessions, NEW f \in Feedbacks, AdmitReview(s, f) \/ AdmitPromotion(s, f)
      PROVE  Goal
  <2>1. PICK op \in {"review", "promote"} :
             request' = [request EXCEPT ![s] = [op |-> op, feedback |-> f]]
    BY <1>5 DEF AdmitReview, AdmitPromotion, Admit
  <2>2. UNCHANGED <<traces, feedback, issued>>
    BY <1>5 DEF AdmitReview, AdmitPromotion, Admit, chain
  <2>3. feedback[f] # None /\ TraceApp(f) \in AppsOf[s]
    BY <1>5 DEF AdmitReview, AdmitPromotion, LiveReview, LiveFeedback, MayTouch, TraceApp
  <2>4. Within(traces', feedback', issued', f, AppsOf[s])
    BY <2>2, <2>3 DEF Within, TraceApp, ChainInv, Issued
  <2>5. InScope(traces', feedback', issued', s, [op |-> op, feedback |-> f])
    BY <2>4 DEF InScope
  <2> QED BY <1>3, <2>1, <2>5
<1>6. ASSUME NEW s \in Sessions, NEW scenario \in Scenarios, PreparePromotion(s, scenario)
      PROVE  Goal
  <2> DEFINE f == request[s].feedback
             q == [op |-> "promotable", feedback |-> f, scenario |-> scenario]
  <2>1. request' = [request EXCEPT ![s] = q] /\ UNCHANGED <<traces, feedback, issued>>
    BY <1>6 DEF PreparePromotion, chain
  <2>2. request[s] # None /\ request[s].op = "promote"
    BY <1>6 DEF PreparePromotion, Pending
  <2>3. Within(traces, feedback, issued, f, AppsOf[s])
    BY <2>2 DEF ScopeInv, InScope
  <2>4. InScope(traces', feedback', issued', s, q)
    BY <2>1, <2>3 DEF InScope
  <2> HIDE DEF q
  <2> QED BY <1>3, <2>1, <2>4
<1>7. ASSUME NEW s \in Sessions, NEW f \in Feedbacks, NEW r \in Runs, NEW checked \in BOOLEAN,
             AdmitLink(s, f, r, checked)
      PROVE  Goal
  <2> DEFINE q == [op |-> "link", feedback |-> f, run |-> r, report |-> runs[r], checked |-> checked]
  <2>1. request' = [request EXCEPT ![s] = q] /\ UNCHANGED <<traces, feedback, issued>>
    BY <1>7 DEF AdmitLink, Admit, chain
  <2>2. ASSUME checked PROVE runs[r].app \in AppsOf[s] /\ Within(traces, feedback, issued, f, {runs[r].app})
    <3>1. runs[r].app \in AppsOf[s] /\ promotions[f] # None /\ traces[promotions[f].trace].app = runs[r].app
      BY <1>7, <2>2 DEF AdmitLink, LivePromotion
    <3>2. FeedbackLink(f)
      BY ChainParts DEF ChainInv
    <3>3. feedback[f] # None /\ promotions[f].trace = feedback[f].trace
      BY <3>1, <3>2 DEF FeedbackLink
    <3> QED BY <3>1, <3>3 DEF Within, ChainInv, Issued
  <2>3. InScope(traces', feedback', issued', s, q)
    BY <2>1, <2>2 DEF InScope
  <2> HIDE DEF q
  <2> QED BY <1>3, <2>1, <2>3
<1>8. ASSUME NEW s \in Sessions, Review(s) \/ EndRequest(s) PROVE Goal
  BY <1>4, <1>5, <1>6, <1>8
  DEF Review, AdmitFeedback, Admit, AddFeedback, UpsertReview, CreatePromotion, EndRequest, Done
<1>9. ASSUME NEW s \in Sessions, Release(s) PROVE Goal
  BY <1>4, <1>7, <1>9 DEF Release, CreateLink, AdmitValidation, Admit, SaveValidation, Done
<1>10. CASE Telemetry \/ (\E r \in Runs, report \in Reports : ImportRun(r, report)) \/ UNCHANGED vars
  <2>1. request' = request
    BY <1>10 DEF Telemetry, Tick, PruneExpired, IngestTrace, ImportRun, vars
  <2> QED BY <1>1, <1>2, <2>1 DEF Goal
<1> QED BY <1>1, <1>8, <1>9, <1>10 DEF Next, Goal

LEMMA ScopeImplies == ASSUME TypeOK, ChainInv, ScopeInv PROVE WithinScope
<1> SUFFICES ASSUME Scoped PROVE WithinScope
  BY DEF WithinScope
<1>1. \A f \in Feedbacks : reviews[f] # None => TraceApp(f) \in AppsOf[reviews[f].by]
  BY DEF ScopeInv, ReviewersInScope
<1>2. ASSUME NEW s \in Sessions, NEW op \in {"review", "promote", "promotable"}, Pending(s, op),
             feedback[request[s].feedback] # None
      PROVE  TraceApp(request[s].feedback) \in AppsOf[s]
  BY <1>2 DEF ScopeInv, InScope, Within, Pending, TraceApp
<1>3. ASSUME NEW s \in Sessions, Pending(s, "link"), request[s].checked,
             promotions[request[s].feedback] # None
      PROVE  /\ request[s].report.app \in AppsOf[s]
             /\ TraceApp(request[s].feedback) = request[s].report.app
  <2>1. request[s].feedback \in Feedbacks
    BY <1>3, RequestShape DEF Pending, TypeOK
  <2>2. FeedbackLink(request[s].feedback)
    BY <2>1, ChainParts DEF ChainInv
  <2>3. feedback[request[s].feedback] # None
    BY <1>3, <2>2 DEF FeedbackLink
  <2> QED BY <1>3, <2>3 DEF ScopeInv, InScope, Within, Pending, TraceApp
<1> QED BY <1>1, <1>2, <1>3 DEF WithinScope

\* In production what a request was admitted for is still within its caller's
\* scope when it is written, for reviews, promotions and links.
THEOREM ScopeHolds == Spec => []WithinScope
<1> DEFINE Inv == TypeOK /\ ReadRuns /\ ChainInv /\ ScopeInv
<1>1. Init => Inv
  <2> SUFFICES ASSUME Init PROVE Inv
    OBVIOUS
  <2>1. ReadRuns /\ ChainInv
    BY DEF Init, ReadRuns, ChainInv, ChainIntegrity, Issued, Pending
  <2>2. ScopeInv
    BY DEF Init, ScopeInv, ReviewersInScope, InScope
  <2> QED BY <2>1, <2>2, TypeInitially
<1>2. Inv /\ [Next]_vars => Inv'
  BY TypeOfStep, ReadRunsStep, ChainStep, ScopeStep
<1>3. Inv => WithinScope
  BY ScopeImplies
<1> QED BY <1>1, <1>2, <1>3, PTL DEF Spec

------------------------------------------------------------------------------
(* Promotions.                                                                *)

PromotionStep(f) ==
    /\ promotions[f] = None /\ promotions'[f] # None => LiveReview(f) /\ Promotable(f)
    /\ promotions[f] # None /\ promotions'[f] # promotions[f] =>
           promotions'[f] = None /\ traces'[promotions[f].trace] = None

LEMMA PromotionsStep ==
    ASSUME TypeOK, ChainInv, [Next]_vars, NEW g \in Feedbacks
    PROVE  PromotionStep(g)
<1>1. ASSUME promotions' = promotions PROVE PromotionStep(g)
  BY <1>1 DEF PromotionStep
<1>2. CASE PruneExpired
  <2> DEFINE gone(t)  == traces[t] # None /\ ~Unexpired(traces[t].stamp)
             doomed(f) == feedback[f] # None /\ gone(feedback[f].trace)
  <2>1. /\ \A t \in Traces : traces'[t] = IF gone(t) THEN None ELSE traces[t]
        /\ promotions'[g] = IF doomed(g) THEN None ELSE promotions[g]
    BY <1>2 DEF PruneExpired
  <2>2. ASSUME promotions[g] # None, promotions'[g] # promotions[g]
        PROVE  promotions'[g] = None /\ traces'[promotions[g].trace] = None
    <3>1. doomed(g) /\ promotions'[g] = None
      BY <2>1, <2>2
    <3>2. FeedbackLink(g)
      BY ChainParts DEF ChainInv
    <3>3. promotions[g].trace = feedback[g].trace /\ feedback[g].trace \in Traces
      BY <2>2, <3>2 DEF FeedbackLink, TypeOK, FeedbackRow
    <3> QED BY <2>1, <3>1, <3>3
  <2>3. promotions[g] = None => promotions'[g] = None
    BY <2>1
  <2> QED BY <2>2, <2>3 DEF PromotionStep
<1>3. ASSUME NEW s \in Sessions, CreatePromotion(s) PROVE PromotionStep(g)
  <2> DEFINE f == request[s].feedback
             row == [trace |-> feedback[f].trace, scenario |-> request[s].scenario]
  <2>1. /\ promotions' = IF promotions[f] # None THEN promotions ELSE [promotions EXCEPT ![f] = row]
        /\ LiveReview(f) /\ (promotions[f] = None => Promotable(f))
    BY <1>3, Zenon DEF CreatePromotion
  <2> HIDE DEF row, f
  <2> QED BY <2>1 DEF PromotionStep, TypeOK
<1>4. ASSUME NEW s \in Sessions, Review(s) PROVE PromotionStep(g)
  BY <1>1, <1>3, <1>4
  DEF Review, AdmitFeedback, AdmitReview, AdmitPromotion, Admit, AddFeedback, UpsertReview,
      PreparePromotion, chain
<1>5. ASSUME NEW s \in Sessions, Release(s) \/ EndRequest(s) PROVE PromotionStep(g)
  BY <1>1, <1>5
  DEF Release, AdmitLink, CreateLink, AdmitValidation, Admit, SaveValidation, EndRequest, chain
<1> QED
  BY <1>1, <1>2, <1>4, <1>5 DEF Next, Telemetry, Tick, IngestTrace, ImportRun, chain, vars

\* A promotion is earned by the review as it is when the promotion is written,
\* is never replaced and leaves only with its trace.
THEOREM PromotionsAlwaysStand == Spec => PromotionsStand
<1> DEFINE Inv  == TypeOK /\ ReadRuns /\ ChainInv
           Step == \A f \in Feedbacks :
                       /\ promotions[f] = None /\ promotions'[f] # None => LiveReview(f) /\ Promotable(f)
                       /\ promotions[f] # None /\ promotions'[f] # promotions[f] =>
                              promotions'[f] = None /\ traces'[promotions[f].trace] = None
<1>1. Init => Inv
  BY TypeInitially DEF Init, ReadRuns, ChainInv, ChainIntegrity, Issued, Pending
<1>2. Inv /\ [Next]_vars => Inv'
  BY TypeOfStep, ReadRunsStep, ChainStep
<1>3. Inv /\ [Next]_vars => [Step]_vars
  BY PromotionsStep DEF PromotionStep
<1> QED BY <1>1, <1>2, <1>3, PTL DEF Spec, PromotionsStand
==============================================================================
