----------------------------- MODULE MCMigrations -----------------------------
(* Migrations for TLC: the databases of every release, with up to MaxRows claims *)
(* of two CIDs that may share their timestamps.                                  *)
EXTENDS Migrations

CONSTANTS c1, c2

TwoCids == {c1, c2}
=============================================================================
