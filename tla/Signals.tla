------------------------------- MODULE Signals -------------------------------
(***************************************************************************)
(* The eight integrity signals (integrity/signals/).  Each operator maps   *)
(* what the signal reads of the tables, or what its classifier answers, to *)
(* a score and to whether the signal fired.  Scores are in percent:        *)
(* 0 is clearly benign, 100 clearly malicious.                             *)
(***************************************************************************)
EXTENDS Integers, Sequences, FiniteSets

Score(s, f) == [score |-> s, fired |-> f]

\* What the gate puts in place of a signal that raised.
Neutral == Score(50, FALSE)

MinCorpus == 5

\* No signal below 20 % of cosine distance, all of it from 80 %, and linear
\* in between.
Ramp(distance) ==
    IF distance <= 20 THEN 0
    ELSE IF distance >= 80 THEN 100
    ELSE ((distance - 20) * 100) \div 60

\* S1: distance from the mean of the predicate's beliefs that are not pending.
S1(embedded, corpus, distance) ==
    IF ~embedded \/ corpus < MinCorpus
    THEN Neutral
    ELSE Score(Ramp(distance), Ramp(distance) > 50)

TierScore == [authoritative |-> 0, corroborated |-> 30, unverified |-> 70,
              untrusted |-> 100]

\* S2: the tier of the source; without provenance, as if unverified.
S2(tier) ==
    LET s == IF tier \in DOMAIN TierScore THEN TierScore[tier] ELSE 70
    IN  Score(s, s >= 70)

\* S3: only a text with a trigger phrase is sent to the classifier, which may
\* answer one of two words or anything else, or fail.
S3(triggered, answer) ==
    IF ~triggered \/ answer = "ASSERTION" THEN Score(0, FALSE)
    ELSE IF answer = "INSTRUCTION" THEN Score(85, TRUE)
    ELSE Neutral

\* S4: the beliefs of the author in the last hour and the last day.
S4(hour, day) ==
    IF hour > 20 THEN Score(100, TRUE)
    ELSE IF day > 100 THEN Score(70, TRUE)
    ELSE Score(10, FALSE)

\* S5: the contradictions of the predicate in the last five minutes.
S5(n) ==
    LET s == IF n = 0 THEN 0 ELSE IF n <= 2 THEN 20 ELSE IF n <= 5 THEN 50 ELSE 90
    IN  Score(s, s > 30)

\* S6: the distinct sources of the same fact, its own included.
S6(n) ==
    LET s == IF n < 2 THEN 70 ELSE IF n <= 4 THEN 30 ELSE 0
    IN  Score(s, s >= 70)

(***************************************************************************)
(* S7: parents is the derived_from list, found the status of each parent   *)
(* that has a row.  A parent named twice counts as one that is missing,    *)
(* because the list is compared in length with the rows.                   *)
(***************************************************************************)
S7(parents, found) ==
    LET statuses == {found[p] : p \in DOMAIN found}
    IN  IF parents = <<>> THEN Score(0, FALSE)
        ELSE IF "quarantined" \in statuses THEN Score(100, TRUE)
        ELSE IF Cardinality(DOMAIN found) = Len(parents) /\ statuses = {"trusted"}
             THEN Score(0, FALSE)
        ELSE Score(50, TRUE)

\* S8: the validity in days, relative to now; to is Forever if it has no end,
\* and epoch is the first of January 1970.
Forever == 10 ^ 8

S8(from, to, epoch) ==
    IF from > 365 \/ to < from THEN Score(100, TRUE)
    ELSE IF from < epoch THEN Score(80, TRUE)
    ELSE IF to # Forever /\ to - from > 200 * 365 THEN Score(50, TRUE)
    ELSE Score(0, FALSE)
=============================================================================
