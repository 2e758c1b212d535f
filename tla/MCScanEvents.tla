---------------------------- MODULE MCScanEvents ----------------------------
(* Small instances of ScanEvents for TLC. *)
EXTENDS ScanEvents
=============================================================================
