----------------------------- MODULE MCGeoCidr -----------------------------
(* Small instances of the CIDR lines for TLC. *)
EXTENDS GeoCidr, TLC

Symmetry == Permutations(Value \ {NoValue})
=============================================================================
