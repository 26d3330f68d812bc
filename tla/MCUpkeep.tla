------------------------------ MODULE MCUpkeep ------------------------------
(***************************************************************************)
(* A small instance of Consolidation and Reconstruction.                   *)
(***************************************************************************)
EXTENDS Reconstruction, TLC

CONSTANTS b1, b2, b3, b4, b5

MCBelief     == {b1, b2, b3, b4, b5}
MCOld        == <<b1, b2, b3, b4>>
MCTime       == {1}
MCConfidence == {1}

TextSymmetry == Permutations(Text)
=============================================================================
