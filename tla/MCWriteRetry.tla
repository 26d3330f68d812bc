---------------------------- MODULE MCWriteRetry ----------------------------
(***************************************************************************)
(* A small instance of WriteRetry: an ingest call with two candidates next *)
(* to a correction of the same fact.                                       *)
(***************************************************************************)
EXTENDS WriteRetry

CONSTANTS b1, b2, b3, ingest, correction

MCBatch == [w \in Writer |-> CASE w = ingest     -> <<b1, b2>>
                               [] w = correction -> <<b3>>]

MCTime       == {1}
MCConfidence == {1}
=============================================================================
