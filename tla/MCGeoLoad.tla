----------------------------- MODULE MCGeoLoad -----------------------------
(* Small sets of geo files for TLC.                                         *)
EXTENDS GeoLoad, TLC

\* All texts of at most two lines.
ShortTexts == UNION {[1..n -> Line] : n \in 0..2}
=============================================================================
