------------------------------ MODULE MCDlist ------------------------------
(* Small instances of the list for TLC. *)
EXTENDS Dlist, TLC

=============================================================================
