------------------------- MODULE MCMigrationRunner -------------------------
(* A bounded instance of MigrationRunner for TLC: the last process is of the *)
(* release before.                                                           *)
EXTENDS MigrationRunner, TLC

CONSTANTS app, server, old

OneIsOlder == app :> 2 @@ server :> 2 @@ old :> 1
=============================================================================
