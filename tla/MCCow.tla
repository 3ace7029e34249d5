-------------------------------- MODULE MCCow --------------------------------
(* Cow for TLC. *)
EXTENDS Cow, TLC

CONSTANTS v1, v2, v3

TwoAndOnes == v1 :> {1, 2} @@ v2 :> {1} @@ v3 :> {1}

Symmetry == Permutations(Frames)
=============================================================================
