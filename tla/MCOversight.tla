---------------------------- MODULE MCOversight -----------------------------
(***************************************************************************)
(* A small instance of Oversight.                                          *)
(***************************************************************************)
EXTENDS Oversight, TLC

CONSTANTS t1, t2

MCTenants == <<t1, t2>>
=============================================================================
