----------------------------- MODULE MCLogFiles -----------------------------
(* Small instances of the log files for TLC. *)
EXTENDS LogFiles, TLC

=============================================================================
