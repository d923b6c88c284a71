------------------------------ MODULE EntryGates ------------------------------
(* The commands that run a batch and end with an exit code: the v1 gate of    *)
(* the reference agent, with the synchronous or the asynchronous runner, and  *)
(* the compatibility gate of a Dify chat.  Pure operators on what a batch     *)
(* returned.  A report that build_run_report refuses, or that cannot be       *)
(* written, is an exception: it ends the v1 gate without an exit code of its  *)
(* own and the Dify gate with 1.                                              *)
EXTENDS RunReport

\* The scenarios asked for by their ids, if any are asked for.
Selected(scenarios, ids) ==
    IF Declared(ids) THEN SelectSeq(scenarios, LAMBDA s : s.id \in Content(ids)) ELSE scenarios

\* The manifest is frozen from the scenarios before one of them is run, with
\* the execution policy if the runner is the asynchronous one.
V1Manifest(scenarios, policy) ==
    IF scenarios = <<>> THEN <<>> ELSE <<Frozen(scenarios, policy)>>

\* run_gate and run_gate_async, on the rows of the batch: the exit code, if
\* build_run_report does not raise.
V1Exit(rows, manifest) ==
    IF ~ReportBuilt(rows, manifest) THEN <<>>
    ELSE <<IF Assembled(rows, manifest).gate THEN 0 ELSE 1>>

------------------------------------------------------------------------------
(* The Dify report shows conclusions, no content.                             *)

\* An assertion without its phrase.
RedactedResults(list) == [i \in DOMAIN list |-> [list[i] EXCEPT !.about = "[REDACTED]"]]

RedactedResponse(response) ==
    [response EXCEPT !.answer = {"[REDACTED]"}, !.calls = <<>>]

RedactedStep(step) ==
    [step EXCEPT !.user = "[REDACTED]",
                 !.error = IF @ = "" THEN @ ELSE "[REDACTED]",
                 !.response = IF Declared(@) THEN <<RedactedResponse(Content(@))>> ELSE @,
                 !.assertions = RedactedResults(@)]

Redacted(row) ==
    [row EXCEPT !.steps = [i \in DOMAIN @ |-> RedactedStep(@[i])],
                !.final = RedactedResults(@)]

\* build_dify_report: a report without a manifest, its rows redacted.
DifyReport(rows) ==
    [Assembled(rows, <<>>) EXCEPT !.rows = [i \in DOMAIN @ |-> Redacted(@[i])]]

\* dify_gate.run_gate
DifyExit(rows) ==
    IF ~ReportBuilt(rows, <<>>) THEN 1
    ELSE IF DifyReport(rows).gate THEN 0
    ELSE IF \E i \in DOMAIN rows : ~DifyReport(rows).rows[i].complete THEN 1
    ELSE 3
===============================================================================
