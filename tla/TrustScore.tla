------------------------------ MODULE TrustScore ------------------------------
(***************************************************************************)
(* How the gate judges one belief (ScreeningGate.screen): the loop over    *)
(* the signals, the composition of their scores, the verdict, the reason.  *)
(*                                                                         *)
(* Weights, scores and thresholds are integers (percent), so that the      *)
(* composed score is in ten-thousandths.  Sums of floats may fall on       *)
(* either side of a threshold they meet exactly, so both verdicts are      *)
(* possible there.                                                         *)
(***************************************************************************)
EXTENDS Signals

CONSTANTS Outcomes(_),   \* what each signal may come to, given what it reads
          Transactional \* whether the connection is not in autocommit mode

ASSUME TransactionalAssumption == Transactional \in BOOLEAN

Signal == 1..8

\* The highest score of each signal that has not fired.
Quiet == <<50, 30, 50, 10, 20, 30, 0, 0>>

ASSUME OutcomesAssumption ==
    \A i \in Signal : \A o \in Outcomes(i) :
        /\ o \in [score : 0..100, fired : BOOLEAN]
        /\ o.fired \/ o.score <= Quiet[i]

\* The sum of these is 100, and so is the total weight of any full list.
Weight == <<32, 25, 14, 14, 7, 4, 3, 1>>

TrustThreshold == 4000

\* Variant of QuarantineThreshold, set too low.
MutantLowThreshold == 5000

QuarantineThreshold == 7000

\* Variant of Composed in which all signals weigh the same.
MutantUnweighted(s) ==
    12 * (s[1].score + s[2].score + s[3].score + s[4].score
            + s[5].score + s[6].score + s[7].score + s[8].score)

Composed(s) ==
      32 * s[1].score + 25 * s[2].score + 14 * s[3].score + 14 * s[4].score
    +  7 * s[5].score +  4 * s[6].score +  3 * s[7].score +      s[8].score

\* The verdicts that a composed score may get.
Classify(t) ==
       (IF t <= TrustThreshold THEN {"trusted"} ELSE {})
        \union (IF t >= QuarantineThreshold THEN {"quarantined"} ELSE {})
        \union (IF TrustThreshold <= t /\ t <= QuarantineThreshold
                THEN {"inconclusive"} ELSE {})

Share(s, i) == Weight[i] * s[i].score

Fired(s) == {i \in Signal : s[i].fired}

\* max() keeps the first of equals.
Dominant(s, i) ==
    /\ i \in Fired(s)
    /\ \A j \in Fired(s) :
          Share(s, j) < Share(s, i) \/ (Share(s, j) = Share(s, i) /\ i <= j)

NoReason == 0

\* triggering_rule of the verdict, and with it the reason of the quarantine.
Reason(s, verdict) ==
    IF verdict = "trusted" \/ Fired(s) = {} THEN {NoReason}
    ELSE {i \in Signal : Dominant(s, i)}

-----------------------------------------------------------------------------
VARIABLES
    done,      \* the signals whose score is in the list
    scores,    \* the list, Neutral where there is no score yet
    intended,  \* what each signal would have said if nothing had failed
    failed,    \* the signals that raised
    tx,        \* "open", or "aborted" by an SQL error
    outcome    \* "screening", "raised", or the verdict with its reason

gateVars == <<done, scores, intended, failed, tx, outcome>>

Screening == [verdict |-> "screening", reason |-> NoReason]
Raised    == [verdict |-> "raised", reason |-> NoReason]
Verdicts  == {"trusted", "quarantined", "inconclusive"}

GateTypeOK ==
    /\ done \in 0..8
    /\ scores \in [Signal -> [score : 0..100, fired : BOOLEAN]]
    /\ intended \in [Signal -> [score : 0..100, fired : BOOLEAN]]
    /\ failed \in SUBSET (1..done)
    /\ tx \in {"open", "aborted"}
    /\ outcome \in [verdict : Verdicts \union {"screening", "raised"},
                    reason : Signal \union {NoReason}]

GateInit ==
    /\ done = 0
    /\ scores = [i \in Signal |-> Neutral]
    /\ intended = [i \in Signal |-> Neutral]
    /\ failed = {}
    /\ tx = "open"
    /\ outcome = Screening

Turn(i) == outcome = Screening /\ i \in Signal /\ i = done + 1

Append1(i, o, got) ==
    /\ done' = i
    /\ intended' = [intended EXCEPT ![i] = o]
    /\ scores' = [scores EXCEPT ![i] = got]
    /\ UNCHANGED outcome

\* S3 and S8 do not query the database and still work in an aborted
\* transaction.
Queries == Signal \ {3, 8}

Compute(i) ==
    /\ Turn(i)
    /\ i \in Queries => tx = "open"
    /\ \E o \in Outcomes(i) : Append1(i, o, o)
    /\ UNCHANGED <<failed, tx>>

\* A signal that raises counts as benign in the variant.
MutantFailOpen(i, o) == Append1(i, o, Score(0, FALSE))

FallBack(i, o) == Append1(i, o, Neutral)

\* An error of the database aborts the transaction of the connection.
AbortedBy(i) ==
    tx' \in IF Transactional /\ i \in Queries THEN {tx, "aborted"} ELSE {tx}

Fail(i) ==
    /\ Turn(i)
    /\ failed' = failed \union {i}
    /\ \E o \in Outcomes(i) : FallBack(i, o)
    /\ tx = "aborted" => i \in Queries
    /\ AbortedBy(i)

Judge ==
    /\ outcome = Screening /\ done = 8
    /\ tx = "open"
    /\ \E v \in Classify(Composed(scores)) : \E r \in Reason(scores, v) :
          outcome' = [verdict |-> v, reason |-> r]
    /\ UNCHANGED <<done, scores, intended, failed, tx>>

\* The INSERT of the verdict fails in an aborted transaction; screen raises.
Raise ==
    /\ outcome = Screening /\ done = 8
    /\ tx = "aborted"
    /\ outcome' = Raised
    /\ UNCHANGED <<done, scores, intended, failed, tx>>

GateNext == (\E i \in Signal : Compute(i) \/ Fail(i)) \/ Judge \/ Raise

GateSpec == GateInit /\ [][GateNext]_gateVars

-----------------------------------------------------------------------------
Judged == outcome.verdict \in Verdicts

(***************************************************************************)
(* A signal that raises counts as neutral, and with up to two of them the  *)
(* judgement is still never turned upside down: what would have been       *)
(* quarantined is not trusted, nor the other way round.                    *)
(***************************************************************************)
FailuresStayApart ==
    Judged /\ Cardinality(failed) <= 2 =>
        /\ ~(outcome.verdict = "trusted"
               /\ Composed(intended) >= QuarantineThreshold)
        /\ ~(outcome.verdict = "quarantined"
               /\ Composed(intended) <= TrustThreshold)

(***************************************************************************)
(* gate.py:52: an anomalous embedding, an untrusted source and a burst of  *)
(* writes are enough for quarantine, whatever the other signals say.       *)
(***************************************************************************)
StructuralPoison ==
    Judged /\ (\A i \in {1, 2, 4} : scores[i].score = 100) =>
        outcome.verdict = "quarantined"

(***************************************************************************)
(* Every quarantine has the reason that explains it: a signal that fired,  *)
(* though not which (the code has a default for a quarantine without one). *)
(***************************************************************************)
QuarantineExplained ==
    outcome.verdict = "quarantined" =>
        outcome.reason \in Fired(scores) /\ outcome.reason \notin failed

(***************************************************************************)
(* No belief is quarantined because of one signal: at least two fire, and  *)
(* three when none of the signals failed.                                  *)
(***************************************************************************)
QuarantineCorroborated ==
    outcome.verdict = "quarantined" =>
        Cardinality(Fired(scores)) >= (IF failed = {} THEN 3 ELSE 2)

(***************************************************************************)
(* An outage of the database that every querying signal runs into cannot   *)
(* get a belief trusted, although each failure by itself is neutral.       *)
(***************************************************************************)
OutageNeverTrusts ==
    Queries \subseteq failed => outcome.verdict # "trusted"

(***************************************************************************)
(* The corpus can start to grow: with too few beliefs to compare with      *)
(* (signal 1 neutral), an assertion of an unverified but quiet author,     *)
(* derived from nothing and at most twice in contradiction, is trusted.    *)
(***************************************************************************)
Unremarkable ==
    /\ scores[1] = Neutral /\ scores[2].score <= 70 /\ scores[3].score = 0
    /\ scores[4].score = 10 /\ scores[5].score <= 20 /\ scores[6].score <= 70
    /\ scores[7].score = 0 /\ scores[8].score = 0

FirstBeliefsAdmitted == Judged /\ Unremarkable => outcome.verdict = "trusted"

(***************************************************************************)
(* FailuresContained: failing signals do not turn a judgement upside down, *)
(* up to two of them whatever they are, and an outage of the database not  *)
(* even when it takes six.                                                 *)
(***************************************************************************)
FailuresContained == FailuresStayApart /\ OutageNeverTrusts

(***************************************************************************)
(* QuarantineGrounded: what is quarantined is so on the word of several    *)
(* signals, and for the reason that is recorded.                           *)
(***************************************************************************)
QuarantineGrounded == QuarantineCorroborated /\ QuarantineExplained

(***************************************************************************)
(* ThresholdsFit: weights and thresholds fit together: the three           *)
(* structural signals suffice for quarantine, and the first beliefs about  *)
(* a predicate get in although signal 1 has nothing to compare them with.  *)
(***************************************************************************)
ThresholdsFit == StructuralPoison /\ FirstBeliefsAdmitted
=============================================================================
