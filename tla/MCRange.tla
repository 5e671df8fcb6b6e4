------------------------------ MODULE MCRange ------------------------------
(* Small instances of the range table for TLC.                              *)
EXTENDS Range, TLC

=============================================================================
