---------------------------- MODULE MCQualityLoop ----------------------------
(* Instances for TLC of two parts of the loop's database, one per behaviour:   *)
(* the processes that open and migrate it ("start"), and the work on it once   *)
(* they have ("loop").  They share no state.                                  *)
EXTENDS QualityLoop, MCMigrations

CONSTANTS a, b, clerk, machine, s1

VARIABLE part

\* A person of one application, and the machine token, which writes for both.
MCAppsOf == (clerk :> {a}) @@ (machine :> {a, b})

Run(app, started, scenarios, eligible) ==
    [app |-> app, environment |-> "prod", started |-> started,
     scenarios |-> scenarios, assets |-> "v1", eligible |-> eligible]

\* Two comparable runs of one application, one of another application and a
\* legacy report that is no evidence.
MCReports == {Run(a, 1, {s1}, TRUE), Run(b, 1, {s1}, TRUE), Run(a, 1, {}, FALSE)}

Symmetry == Permutations(Runs)

------------------------------------------------------------------------------
DatabaseInit ==
    /\ part \in {"start", "loop"}
    /\ Init /\ MigrationsInit
    /\ part = "loop" => version = 0 /\ alone

DatabaseNext ==
    /\ UNCHANGED part
    /\ \/ part = "start" /\ MigrationsNext /\ UNCHANGED vars
       \/ part = "loop" /\ Next /\ UNCHANGED migrationsVars

DatabaseSpec == DatabaseInit /\ [][DatabaseNext]_<<part, vars, migrationsVars>>
==============================================================================
