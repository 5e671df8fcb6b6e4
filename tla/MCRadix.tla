------------------------------ MODULE MCRadix ------------------------------
(* Small instances of the trie for TLC. *)
EXTENDS Radix, TLC

=============================================================================
