-------------------------- MODULE MCMigrations --------------------------
(* Two starts of the current release and one of the release before it, on the *)
(* migrations of quality_loop: version 1 may be applied again, version 2 adds  *)
(* columns and may not.                                                        *)
EXTENDS Migrations, TLC

CONSTANTS p1, p2, old

MCCodeVersion == (old :> 1) @@ [s \in {p1, p2} |-> 2]
=============================================================================
