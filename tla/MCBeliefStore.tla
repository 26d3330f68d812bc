--------------------------- MODULE MCBeliefStore ----------------------------
(***************************************************************************)
(* Small instances of BeliefStore.  One confidence is enough: the store    *)
(* only looks at which claim wins, and tier and recency decide both ways;  *)
(* Contest varies the confidences.                                         *)
(***************************************************************************)
EXTENDS BeliefStore, TLC

MCTime       == 1..2
MCConfidence == {1}

BeliefSymmetry == Permutations(Belief)
=============================================================================
