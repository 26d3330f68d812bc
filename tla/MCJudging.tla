------------------------------ MODULE MCJudging ------------------------------
(***************************************************************************)
(* A small instance: each signal on readings at the edges of its rules;    *)
(* and confidences that reach past the tolerance, so that claims within it *)
(* and beyond it both occur.                                               *)
(***************************************************************************)
EXTENDS Judging

MCTime       == 1..2
MCConfidence == {1, 2, 4}

Found(s) == [p \in {1} |-> s]

MCOutcomes(i) ==
    CASE i = 1 -> {S1(TRUE, 4, 80), S1(TRUE, 5, 20), S1(TRUE, 5, 80)}
      [] i = 2 -> {S2("corroborated"), S2("no row"), S2("untrusted")}
      [] i = 3 -> {S3(FALSE, "none"), S3(TRUE, "INSTRUCTION"), S3(TRUE, "error")}
      [] i = 4 -> {S4(20, 100), S4(21, 21)}
      [] i = 5 -> {S5(0), S5(2), S5(6)}
      [] i = 6 -> {S6(1), S6(5)}
      [] i = 7 -> {S7(<<>>, Found("none")), S7(<<1>>, Found("quarantined"))}
      [] i = 8 -> {S8(365, Forever, -20000), S8(366, Forever, -20000)}

\* Poison that is caught, caught by a margin of one signal, and missed; the
\* first meets the threshold exactly, where the sum of the code is below it.
MCVectors ==
    {<<S1(TRUE, 5, 80), S2("unverified"), Neutral, S4(1, 101), S5(0), S6(2),
       S7(<<1>>, Found("pending")), S8(366, Forever, -20000)>>,
     <<S1(TRUE, 5, 80), S2("untrusted"), S3(FALSE, "none"), S4(21, 21), S5(0),
       S6(5), S7(<<>>, Found("none")), S8(0, Forever, -20000)>>,
     <<S1(TRUE, 5, 80), S2("untrusted"), S3(TRUE, "INSTRUCTION"), S4(21, 21),
       S5(6), S6(1), S7(<<1>>, Found("quarantined")), S8(366, 0, -20000)>>,
     <<S1(TRUE, 0, 0), S2("authoritative"), S3(FALSE, "none"), S4(1, 1), S5(0),
       S6(1), S7(<<1>>, Found("trusted")), S8(0, 80000, -20000)>>}
=============================================================================
