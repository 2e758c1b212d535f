---------------------------- MODULE MCSchedules ----------------------------
(* Small instances of Schedules for TLC. *)
EXTENDS Schedules
=============================================================================
