------------------------------ MODULE MCIntake ------------------------------
(***************************************************************************)
(* A small instance of Intake.                                             *)
(***************************************************************************)
EXTENDS Intake, TLC

CONSTANTS w1, w2

MCWriter     == {w1, w2}
MCMaxBeliefs == w1 :> 2 @@ w2 :> 1
MCTime       == {1}
MCConfidence == {1}
=============================================================================
