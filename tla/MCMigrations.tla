---------------------------- MODULE MCMigrations ----------------------------
(***************************************************************************)
(* The whole chain from an empty database; the bounds are in the .cfg.     *)
(***************************************************************************)
EXTENDS Migrations
=============================================================================
