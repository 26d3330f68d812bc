--------------------------- MODULE MCContainment ----------------------------
(***************************************************************************)
(* Three beliefs about one fact: a root, and two more that                 *)
(* may be derived from it and from each other.                             *)
(***************************************************************************)
EXTENDS Containment, TLC

MCTime       == {1}
MCConfidence == {1}

BeliefSymmetry == Permutations(Belief)

ContainmentSafety == ContainmentInit /\ [][ContainmentNext]_allVars
=============================================================================
