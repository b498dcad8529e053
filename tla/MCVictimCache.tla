--------------------------- MODULE MCVictimCache ---------------------------
(* Model values and bounds for VictimCache. *)
EXTENDS VictimCache

CONSTANTS a0, a1, a2, zero

MCLines == {a0, a1, a2}
MCData  == {zero}
=============================================================================
