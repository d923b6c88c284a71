----------------------------- MODULE MCOperations -----------------------------
(* Instances for TLC of four parts that share no state, one per behaviour: two *)
(* backups of one target and a restore beside them ("backup"), a suite of load *)
(* and fault gates ("gates"), the ledger of a calibration ("ledger"), and the  *)
(* exchanges of an adapter ("adapters").                                       *)
EXTENDS BackupRestore, GateSuite, BudgetLedger, Adapters, TLC

VARIABLE part

------------------------------------------------------------------------------
(* One of the snapshots is of the schema the restoring code knows, the other   *)
(* of a newer one.                                                             *)

CONSTANTS b1, b2, r1, old, newer

MCSchemaVersion == (old :> 1) @@ (newer :> 2)

------------------------------------------------------------------------------
(* Suites of one or two scenarios, and what the service answers.               *)

Says(kind) == [kind |-> kind, simulated |-> FALSE]
Answer == [status |-> 200, stream |-> FALSE, events |-> <<Says("complete")>>, end |-> "eof", first |-> 1, total |-> 1,
           conversation |-> "own", cost |-> {2}, currency |-> "CNY", tools |-> 0, sources |-> 1]
Stream == [Answer EXCEPT !.tools = 1, !.stream = TRUE, !.events = <<Says("chunk"), Says("complete")>>]
MCLoadReplies ==
  {Answer, Stream,
   [Answer EXCEPT !.conversation = "first", !.cost = {}],
   [Answer EXCEPT !.conversation = "none", !.currency = "USD", !.total = 2],
   [Answer EXCEPT !.status = 503, !.events = <<>>, !.cost = {}],
   [Answer EXCEPT !.status = 403, !.events = <<>>, !.cost = {}],
   [Answer EXCEPT !.status = 0, !.events = <<>>, !.end = "timeout"],
   [Answer EXCEPT !.status = 0, !.events = <<>>, !.end = "crash"],
   [Stream EXCEPT !.events = <<Says("blankChunk")>>, !.end = "eof"],
   [Stream EXCEPT !.events = <<[kind |-> "chunk", simulated |-> TRUE], Says("badChunk")>>, !.end = "broken", !.cost={}]}
NoFields == <<>>
Plain(id, f) == [id |-> id, fault |-> f, expect |-> NoFields, recovery |-> TRUE,
   recovery_expect |-> [success |-> TRUE, status_code |-> 200], thresholds |-> NoFields]
Db == Fault("database_error","",{},0)
Tool == Fault("downstream_5xx","user",{},0)
S(d, t, sc) == [defaults |-> d, thresholds |-> t, scenarios |-> sc]
EmptySuite == S(NoFields, NoFields, <<>>)

MCSuites ==
 { S([requests |-> 2, concurrency |-> 2], [max_error_rate |-> 0], <<Plain("db", Db)>>),
   S([requests |-> 2], [max_cost_total |-> 4, max_latency_p95_ms |-> 1],
     <<[Plain("tool", Tool) EXCEPT !.expect = [success |-> FALSE]] @@ [concurrency |-> 3],
       [Plain("db", Db) EXCEPT !.recovery = FALSE, !.expect = [min_failed_tools |-> 1]] @@ [warmup |-> 1]>>),
   S([protocol |-> "sse"], [max_ttft_p95_ms |-> 1, min_goodput_rps |-> 1],
     <<[Plain("sse", Fault("sse_interruption","",{},0)) EXCEPT !.expect = [error_type |-> "stream_interrupted"]] @@ [requests |-> 2]>>),
   S([duration |-> 1, concurrency |-> 2], [max_cost_per_success |-> 2],
     <<[Plain("slow", Fault("tool_slow_response","asset",{},5)) EXCEPT !.recovery_expect = [source_count |-> 1]] @@ [requests |-> 1]>>),
   EmptySuite }
MCFaultSettings == {[enabled |-> TRUE, token |-> "token"], [enabled |-> FALSE, token |-> "token"]}

------------------------------------------------------------------------------
(* Two messages of one user, and one of another in a session of that name.     *)

CONSTANTS x1, x2, x3

MCKeyOf == [x \in {x1, x2} |-> <<"user", "session">>] @@ (x3 :> <<"other", "session">>)

Symmetry == Permutations(Backups)

------------------------------------------------------------------------------
\* Each part starts in all its ways while the others start in one.
OperationsInit ==
    /\ part \in {"backup", "gates", "ledger", "adapters"}
    /\ Init
    /\ GateInit
    /\ LedgerInit
    /\ AdaptersInit
    /\ part # "backup" => database = old /\ target = Nothing /\ alone
    /\ part # "gates" => suite = EmptySuite /\ tokens.runner = "" /\ tokens.target.enabled
    /\ part # "adapters" => adapter = "dify"

OperationsNext ==
    /\ UNCHANGED part
    /\ \/ /\ part = "backup" /\ Next
          /\ UNCHANGED <<gateVars, ledgerVars, adapterVars>>
       \/ /\ part = "gates" /\ (GateNext \/ (gate.at = "done" /\ UNCHANGED gateVars))
          /\ UNCHANGED <<vars, ledgerVars, adapterVars>>
       \/ /\ part = "ledger" /\ LedgerNext
          /\ UNCHANGED <<vars, gateVars, adapterVars>>
       \/ /\ part = "adapters" /\ (AdaptersNext \/ (AdaptersDone /\ UNCHANGED adapterVars))
          /\ UNCHANGED <<vars, gateVars, ledgerVars>>

OperationsSpec ==
    OperationsInit
    /\ [][OperationsNext]_<<part, vars, gateVars, ledgerVars, adapterVars>>

\* The types of the part at work; the service's database is sound.
OperationsTypeOK ==
    CASE part = "backup"   -> TypeOK
      [] part = "gates"    -> GateTypeOK
      [] part = "ledger"   -> LedgerTypeOK
      [] part = "adapters" -> AdaptersTypeOK
===============================================================================
