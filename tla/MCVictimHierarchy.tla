------------------------- MODULE MCVictimHierarchy -------------------------
(* Model values and bounds for VictimHierarchy. *)
EXTENDS VictimHierarchy

CONSTANTS a0, a1

MCTwoLines == {a0, a1}
MCData  == 0 .. MaxVersion
=============================================================================
