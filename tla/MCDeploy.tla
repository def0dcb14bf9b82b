------------------------------ MODULE MCDeploy ------------------------------
(* Releases 3, 4 and 5, the ones that split the games table, over one stat *)
(* line: what a line keeps through the revisions is checked in MCMigrations. *)
EXTENDS Deploy

MCLines == Games \X {"player"} \X {1}
=============================================================================
