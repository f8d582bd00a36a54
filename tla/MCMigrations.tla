---------------------------- MODULE MCMigrations ----------------------------
(***************************************************************************)
(* Instances of Migrations.                                                *)
(***************************************************************************)
EXTENDS Migrations
=============================================================================
