----------------------------- MODULE MCStartup -----------------------------
(* Small sets of geo files and of port numbers for TLC.                     *)
EXTENDS Startup, TLC

\* All texts of at most two lines.
ShortTexts == UNION {[1..n -> Line] : n \in 0..2}

\* An unprivileged port, 0, and one that is the default port in 16 bits.
SomePorts == {0, 5353, 65536 + 53}
=============================================================================
