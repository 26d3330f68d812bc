---------------------------- MODULE MCScreening -----------------------------
(***************************************************************************)
(* Screening on beliefs about a multi_valued fact: what matters here is    *)
(* when a row is written, not whom it contradicts.                         *)
(***************************************************************************)
EXTENDS Screening

MCTime       == {1}
MCConfidence == {1}
=============================================================================
