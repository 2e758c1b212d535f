----------------------------- MODULE MCRescore -----------------------------
(* Small instances of Rescore for TLC. *)
EXTENDS Rescore
=============================================================================
