----------------------------- MODULE MCMigrations -----------------------------
(***************************************************************************)
(* The deployments of the schema on a small instance.                      *)
(***************************************************************************)
EXTENDS Migrations
=============================================================================
