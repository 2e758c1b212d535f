-------------------------- MODULE MCScanLifecycle --------------------------
(* Small instances of ScanLifecycle for TLC. *)
EXTENDS ScanLifecycle
=============================================================================
