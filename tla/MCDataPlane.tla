---------------------------- MODULE MCDataPlane ----------------------------
(* Instances of DataPlane for TLC. *)
EXTENDS DataPlane

CONSTANTS s1, s2

TwoSlots == {s1, s2}

=============================================================================
