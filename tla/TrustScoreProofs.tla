-------------------------- MODULE TrustScoreProofs --------------------------
(***************************************************************************)
(* Proofs about the gate's judgement of one belief, for everything that    *)
(* the signals may come to (OutcomesAssumption: scores are percentages,    *)
(* and a signal that has not fired says at most what Quiet allows it), for *)
(* every signal that may fail, and for both kinds of connection.           *)
(***************************************************************************)
EXTENDS RedTeam, FiniteSetTheorems, TLAPS

Outcome == [score : 0..100, fired : BOOLEAN]

(***************************************************************************)
(* A score in the list is the one intended, or neutral if its signal       *)
(* failed; a judgement is that of the scores of all eight signals.         *)
(***************************************************************************)
Listed ==
    \A i \in 1..done :
        /\ i \in failed => scores[i] = Neutral
        /\ i \notin failed =>
              /\ scores[i] = intended[i]
              /\ scores[i].fired \/ scores[i].score <= Quiet[i]

JudgedByScores ==
    Judged => /\ done = 8
              /\ outcome.verdict \in Classify(Composed(scores))
              /\ outcome.reason \in Reason(scores, outcome.verdict)

GateInv == GateTypeOK /\ Listed /\ JudgedByScores

LEMMA NeutralOutcome ==
    Neutral \in Outcome /\ Neutral.score = 50 /\ Neutral.fired = FALSE
BY DEF Neutral, Score, Outcome

LEMMA GateStarts == GateInit => GateInv
BY NeutralOutcome DEF GateInit, GateInv, GateTypeOK, Listed, JudgedByScores, Judged,
   Screening, Verdicts, Outcome

\* A score is appended to the list.
LEMMA AppendKeeps ==
    ASSUME GateInv, NEW i \in Signal, Turn(i), NEW o \in Outcome, NEW got \in Outcome,
           Append1(i, o, got), tx' \in {"open", "aborted"},
           \/ failed' = failed /\ got = o /\ (o.fired \/ o.score <= Quiet[i])
           \/ failed' = failed \union {i} /\ got = Neutral
    PROVE  GateInv'
<1>1. /\ done' = done + 1 /\ done \in 0..7 /\ i = done + 1 /\ outcome = Screening
      /\ outcome' = outcome
      /\ intended' = [intended EXCEPT ![i] = o]
      /\ scores' = [scores EXCEPT ![i] = got]
  BY DEF Turn, Append1, Signal, GateInv, GateTypeOK
<1>2. failed' \subseteq 1..done'
  <2>1. failed \subseteq 1..done /\ failed' \subseteq failed \union {i}
    BY DEF GateInv, GateTypeOK
  <2>2. 1..done \subseteq 1..done' /\ i \in 1..done'
    BY <1>1
  <2> QED
    BY <2>1, <2>2
<1>3. GateTypeOK'
  BY <1>1, <1>2 DEF GateInv, GateTypeOK, Outcome
<1>4. i \notin failed
  BY <1>1 DEF GateInv, GateTypeOK
<1>5. ASSUME NEW k \in 1..done'
      PROVE  /\ k \in failed' => scores'[k] = Neutral
             /\ k \notin failed' =>
                   /\ scores'[k] = intended'[k]
                   /\ scores'[k].fired \/ scores'[k].score <= Quiet[k]
  <2>1. CASE k = i
    BY <1>1, <1>4, <2>1 DEF GateInv, GateTypeOK
  <2>2. CASE k # i
    <3>1. k \in 1..done /\ scores'[k] = scores[k] /\ intended'[k] = intended[k]
      BY <1>1, <2>2 DEF GateInv, GateTypeOK, Signal
    <3> QED
      BY <2>2, <3>1 DEF GateInv, Listed
  <2> QED
    BY <2>1, <2>2
<1>6. ~Judged'
  BY <1>1 DEF Judged, Screening, Verdicts
<1> QED
  BY <1>3, <1>5, <1>6 DEF GateInv, Listed, JudgedByScores

LEMMA GateStep == GateInv /\ [GateNext]_gateVars => GateInv'
<1> SUFFICES ASSUME GateInv, [GateNext]_gateVars PROVE GateInv'
  OBVIOUS
<1>o. \A i \in Signal : \A o \in Outcomes(i) :
         o \in Outcome /\ (o.fired \/ o.score <= Quiet[i])
  BY OutcomesAssumption DEF Outcome
<1>1. ASSUME NEW i \in Signal, Compute(i) PROVE GateInv'
  BY <1>1, <1>o, AppendKeeps DEF Compute, GateInv, GateTypeOK
<1>2. ASSUME NEW i \in Signal, Fail(i) PROVE GateInv'
  <2>1. tx' \in {"open", "aborted"}
    BY <1>2 DEF Fail, AbortedBy, GateInv, GateTypeOK
  <2> QED
    BY <1>2, <1>o, <2>1, AppendKeeps, NeutralOutcome DEF Fail, FallBack
<1>3. CASE Judge
  <2>1. /\ done = 8 /\ UNCHANGED <<done, scores, intended, failed, tx>>
    BY <1>3 DEF Judge
  <2>2. PICK v \in Classify(Composed(scores)) :
          \E r \in Reason(scores, v) : outcome' = [verdict |-> v, reason |-> r]
    BY <1>3 DEF Judge
  <2>r. PICK r \in Reason(scores, v) : outcome' = [verdict |-> v, reason |-> r]
    BY <2>2
  <2>3. v \in Verdicts /\ r \in Signal \union {NoReason}
    BY DEF Classify, Verdicts, Reason
  <2> QED
    BY <2>1, <2>r, <2>3 DEF GateInv, GateTypeOK, Listed, JudgedByScores
<1>4. CASE Raise
  BY <1>4 DEF Raise, Raised, GateInv, GateTypeOK, Listed, JudgedByScores, Judged, Verdicts,
     NoReason
<1>5. CASE UNCHANGED gateVars
  BY <1>5 DEF gateVars, GateInv, GateTypeOK, Listed, JudgedByScores, Judged
<1> QED
  BY <1>1, <1>2, <1>3, <1>4, <1>5 DEF GateNext

-----------------------------------------------------------------------------
(***************************************************************************)
(* What the theorems assume of the signals (OutcomesAssumption) is true of *)
(* each of the eight, whatever it reads (integrity/signals/).              *)
(***************************************************************************)
Fits(i, o) == o \in Outcome /\ (o.fired \/ o.score <= Quiet[i])

LEMMA RampPercent ==
    ASSUME NEW distance \in Nat
    PROVE  Ramp(distance) \in 0..100
<1>1. CASE distance <= 20 \/ distance >= 80
  BY <1>1 DEF Ramp
<1>2. CASE distance > 20 /\ distance < 80
  <2>1. ((distance - 20) * 100) \div 60 \in 0..100
    BY <1>2
  <2> QED
    BY <1>2, <2>1 DEF Ramp
<1> QED
  BY <1>1, <1>2

THEOREM SignalsFit ==
    /\ \A embedded \in BOOLEAN, corpus \in Nat, distance \in Nat :
          Fits(1, S1(embedded, corpus, distance))
    /\ \A tier : Fits(2, S2(tier))
    /\ \A triggered \in BOOLEAN : \A answer : Fits(3, S3(triggered, answer))
    /\ \A hour \in Nat, day \in Nat : Fits(4, S4(hour, day))
    /\ \A n \in Nat : Fits(5, S5(n)) /\ Fits(6, S6(n))
    /\ \A parents, found : Fits(7, S7(parents, found))
    /\ \A from \in Int, to \in Int, epoch \in Int : Fits(8, S8(from, to, epoch))
<1>1. ASSUME NEW embedded \in BOOLEAN, NEW corpus \in Nat, NEW distance \in Nat
      PROVE  Fits(1, S1(embedded, corpus, distance))
  BY RampPercent DEF Fits, S1, Score, Neutral, Outcome, Quiet
<1>2. ASSUME NEW tier PROVE Fits(2, S2(tier))
  <2>1. ASSUME NEW s \in {0, 30, 70, 100} PROVE Fits(2, Score(s, s >= 70))
    <3>1. s \in 0..100 /\ (s >= 70) \in BOOLEAN /\ ((s >= 70) \/ s <= 30)
      BY <2>1
    <3>2. Score(s, s >= 70) \in Outcome
      BY <3>1 DEF Score, Outcome
    <3> QED
      BY <3>1, <3>2 DEF Fits, Score, Quiet
  <2>2. (IF tier \in DOMAIN TierScore THEN TierScore[tier] ELSE 70) \in {0, 30, 70, 100}
    BY DEF TierScore
  <2> QED
    BY <2>1, <2>2 DEF S2
<1>3. ASSUME NEW triggered \in BOOLEAN, NEW answer PROVE Fits(3, S3(triggered, answer))
  BY DEF Fits, S3, Score, Neutral, Outcome, Quiet
<1>4. ASSUME NEW hour \in Nat, NEW day \in Nat PROVE Fits(4, S4(hour, day))
  BY DEF Fits, S4, Score, Outcome, Quiet
<1>5. ASSUME NEW n \in Nat PROVE Fits(5, S5(n)) /\ Fits(6, S6(n))
  <2>1. ASSUME NEW s \in {0, 20, 50, 90} PROVE Fits(5, Score(s, s > 30))
    <3>1. s \in 0..100 /\ (s > 30) \in BOOLEAN /\ ((s > 30) \/ s <= 20)
      BY <2>1
    <3>2. Score(s, s > 30) \in Outcome
      BY <3>1 DEF Score, Outcome
    <3> QED
      BY <3>1, <3>2 DEF Fits, Score, Quiet
  <2>2. ASSUME NEW s \in {0, 30, 70} PROVE Fits(6, Score(s, s >= 70))
    <3>1. s \in 0..100 /\ (s >= 70) \in BOOLEAN /\ ((s >= 70) \/ s <= 30)
      BY <2>2
    <3>2. Score(s, s >= 70) \in Outcome
      BY <3>1 DEF Score, Outcome
    <3> QED
      BY <3>1, <3>2 DEF Fits, Score, Quiet
  <2> QED
    BY <2>1, <2>2 DEF S5, S6
<1>7. ASSUME NEW parents, NEW found PROVE Fits(7, S7(parents, found))
  BY DEF Fits, S7, Score, Outcome, Quiet
<1>8. ASSUME NEW from \in Int, NEW to \in Int, NEW epoch \in Int
      PROVE  Fits(8, S8(from, to, epoch))
  BY DEF Fits, S8, Score, Outcome, Quiet
<1> QED
  BY <1>1, <1>2, <1>3, <1>4, <1>5, <1>7, <1>8

-----------------------------------------------------------------------------
(***************************************************************************)
(* Sums of scores.  At most two elements of a set fit in a pair.           *)
(***************************************************************************)
LEMMA SignalSets ==
    ASSUME NEW S \in SUBSET Signal
    PROVE  IsFiniteSet(S) /\ Cardinality(S) \in Nat
<1>1. IsFiniteSet(Signal)
  <2>1. IsFiniteSet(1..8)
    BY FS_Interval, 1 \in Int, 8 \in Int, Zenon
  <2> QED
    BY <2>1 DEF Signal
<1>2. IsFiniteSet(S)
  BY <1>1, FS_Subset
<1> QED
  BY <1>2, FS_CardinalityType

LEMMA AtMostTwo ==
    ASSUME NEW S \in SUBSET Signal, Cardinality(S) <= 2
    PROVE  \E i, j \in Signal : S \subseteq {i, j}
<1>f. IsFiniteSet(S) /\ Cardinality(S) \in Nat
  BY SignalSets
<1>1. CASE S = {}
  BY <1>1 DEF Signal
<1>2. CASE S # {}
  <2>1. PICK i \in S : TRUE
    BY <1>2
  <2>2. /\ IsFiniteSet(S \ {i}) /\ Cardinality(S \ {i}) = Cardinality(S) - 1
    BY <1>f, <2>1, FS_RemoveElement
  <2>3. CASE S \ {i} = {}
    BY <2>1, <2>3
  <2>4. CASE S \ {i} # {}
    <3>1. PICK j \in S \ {i} : TRUE
      BY <2>4
    <3>2. /\ IsFiniteSet((S \ {i}) \ {j})
          /\ Cardinality((S \ {i}) \ {j}) = Cardinality(S \ {i}) - 1
      BY <2>2, <3>1, FS_RemoveElement
    <3>3. Cardinality((S \ {i}) \ {j}) \in Nat
      BY <3>2, FS_CardinalityType
    <3>4. Cardinality((S \ {i}) \ {j}) = 0
      BY <1>f, <2>2, <3>2, <3>3
    <3>5. (S \ {i}) \ {j} = {}
      BY <3>2, <3>4, FS_EmptySet
    <3> QED
      BY <2>1, <3>1, <3>5
  <2> QED
    BY <2>3, <2>4
<1> QED
  BY <1>1, <1>2

LEMMA AtMostOne ==
    ASSUME NEW S \in SUBSET Signal, Cardinality(S) <= 1
    PROVE  \E i \in Signal : S \subseteq {i}
<1>f. IsFiniteSet(S) /\ Cardinality(S) \in Nat
  BY SignalSets
<1>1. CASE Cardinality(S) = 0
  BY <1>1, <1>f, FS_EmptySet DEF Signal
<1>2. CASE Cardinality(S) = 1
  BY <1>2, <1>f, FS_Singleton
<1> QED
  BY <1>f, <1>1, <1>2

\* Weighted sums of eight numbers.
Sum8(a, b, c, d, e, f, g, h) ==
    32 * a + 25 * b + 14 * c + 14 * d + 7 * e + 4 * f + 3 * g + h

\* What a list of eight scores composes to, when all of them are percentages.
Percents == [Signal -> Outcome]

LEMMA ComposedSum ==
    ASSUME NEW s \in Percents
    PROVE  /\ \A i \in Signal : s[i].score \in 0..100 /\ s[i].fired \in BOOLEAN
           /\ Composed(s) = Sum8(s[1].score, s[2].score, s[3].score, s[4].score,
                                 s[5].score, s[6].score, s[7].score, s[8].score)
           /\ Composed(s) \in Nat
<1>1. \A i \in Signal : s[i].score \in 0..100 /\ s[i].fired \in BOOLEAN
  BY DEF Percents, Outcome
<1>2. /\ 1 \in Signal /\ 2 \in Signal /\ 3 \in Signal /\ 4 \in Signal
      /\ 5 \in Signal /\ 6 \in Signal /\ 7 \in Signal /\ 8 \in Signal
  BY DEF Signal
<1>3. ASSUME NEW a \in 0..100, NEW b \in 0..100, NEW c \in 0..100, NEW d \in 0..100,
             NEW e \in 0..100, NEW f \in 0..100, NEW g \in 0..100, NEW h \in 0..100
      PROVE  Sum8(a, b, c, d, e, f, g, h) \in Nat
  BY SMT DEF Sum8
<1>4. Composed(s) = Sum8(s[1].score, s[2].score, s[3].score, s[4].score,
                         s[5].score, s[6].score, s[7].score, s[8].score)
  BY DEF Composed, Sum8
<1>5. /\ s[1].score \in 0..100 /\ s[2].score \in 0..100 /\ s[3].score \in 0..100
      /\ s[4].score \in 0..100 /\ s[5].score \in 0..100 /\ s[6].score \in 0..100
      /\ s[7].score \in 0..100 /\ s[8].score \in 0..100
  BY <1>1, <1>2
<1>6. Sum8(s[1].score, s[2].score, s[3].score, s[4].score,
           s[5].score, s[6].score, s[7].score, s[8].score) \in Nat
  BY <1>3, <1>5
<1> QED
  BY <1>1, <1>4, <1>6

\* Two lists that differ in two scores, neutral in one of the lists, do not
\* compose to much else.
LEMMA TwoApart ==
    ASSUME NEW s \in Percents, NEW t \in Percents, NEW i \in Signal, NEW j \in Signal,
           \A k \in Signal : s[k].score = t[k].score \/ (k \in {i, j} /\ s[k].score = 50)
    PROVE  Composed(t) - Composed(s) \in -2850..2850
<1>1. \A k \in Signal : s[k].score \in 0..100 /\ t[k].score \in 0..100
  BY ComposedSum
<1>2. \A k \in Signal : /\ t[k].score - s[k].score \in -50..50
                        /\ i = k \/ j = k \/ t[k].score - s[k].score = 0
                        /\ s[k].score \in Int /\ t[k].score \in Int
  BY <1>1
<1>3. /\ 1 \in Signal /\ 2 \in Signal /\ 3 \in Signal /\ 4 \in Signal
      /\ 5 \in Signal /\ 6 \in Signal /\ 7 \in Signal /\ 8 \in Signal
  BY DEF Signal
<1>4. PICK a, b, c, d, e, f, g, h :
          /\ a = t[1].score - s[1].score
          /\ b = t[2].score - s[2].score
          /\ c = t[3].score - s[3].score
          /\ d = t[4].score - s[4].score
          /\ e = t[5].score - s[5].score
          /\ f = t[6].score - s[6].score
          /\ g = t[7].score - s[7].score
          /\ h = t[8].score - s[8].score
  OBVIOUS
<1>5. /\ a \in -50..50 /\ b \in -50..50 /\ c \in -50..50 /\ d \in -50..50
      /\ e \in -50..50 /\ f \in -50..50 /\ g \in -50..50 /\ h \in -50..50
  BY <1>2, <1>3, <1>4
<1>6. /\ i = 1 \/ j = 1 \/ a = 0
      /\ i = 2 \/ j = 2 \/ b = 0
      /\ i = 3 \/ j = 3 \/ c = 0
      /\ i = 4 \/ j = 4 \/ d = 0
      /\ i = 5 \/ j = 5 \/ e = 0
      /\ i = 6 \/ j = 6 \/ f = 0
      /\ i = 7 \/ j = 7 \/ g = 0
      /\ i = 8 \/ j = 8 \/ h = 0
  BY <1>2, <1>3, <1>4
<1>7. Sum8(a, b, c, d, e, f, g, h) \in -2850..2850
  BY <1>5, <1>6, SMT DEF Sum8, Signal
<1>8. Sum8(a, b, c, d, e, f, g, h) = Composed(t) - Composed(s)
  <2>1. /\ s[1].score \in Int /\ s[2].score \in Int /\ s[3].score \in Int
        /\ s[4].score \in Int /\ s[5].score \in Int /\ s[6].score \in Int
        /\ s[7].score \in Int /\ s[8].score \in Int
    BY <1>2, <1>3
  <2>2. /\ t[1].score \in Int /\ t[2].score \in Int /\ t[3].score \in Int
        /\ t[4].score \in Int /\ t[5].score \in Int /\ t[6].score \in Int
        /\ t[7].score \in Int /\ t[8].score \in Int
    BY <1>2, <1>3
  <2> QED
    BY <1>4, <2>1, <2>2 DEF Sum8, Composed
<1> QED
  BY <1>7, <1>8

\* Two signals that fire are not enough for quarantine.
LEMMA TwoAreTooFew ==
    ASSUME NEW s \in Percents, NEW i \in Signal, NEW j \in Signal,
           \A k \in Signal : k = i \/ k = j \/ s[k].score <= Quiet[k]
    PROVE  Composed(s) < QuarantineThreshold
<1> DEFINE s1 == s[1].score  s2 == s[2].score  s3 == s[3].score  s4 == s[4].score
           s5 == s[5].score  s6 == s[6].score  s7 == s[7].score  s8 == s[8].score
<1>1. /\ s1 \in 0..100 /\ s2 \in 0..100 /\ s3 \in 0..100 /\ s4 \in 0..100
      /\ s5 \in 0..100 /\ s6 \in 0..100 /\ s7 \in 0..100 /\ s8 \in 0..100
  BY ComposedSum DEF Signal
<1>2. /\ i = 1 \/ j = 1 \/ s1 <= 50
      /\ i = 2 \/ j = 2 \/ s2 <= 30
      /\ i = 3 \/ j = 3 \/ s3 <= 50
      /\ i = 4 \/ j = 4 \/ s4 <= 10
      /\ i = 5 \/ j = 5 \/ s5 <= 20
      /\ i = 6 \/ j = 6 \/ s6 <= 30
      /\ i = 7 \/ j = 7 \/ s7 <= 0
      /\ i = 8 \/ j = 8 \/ s8 <= 0
  BY DEF Signal, Quiet
<1>3. Composed(s) = Sum8(s1, s2, s3, s4, s5, s6, s7, s8)
  BY ComposedSum
<1> HIDE DEF s1, s2, s3, s4, s5, s6, s7, s8
<1>4. Sum8(s1, s2, s3, s4, s5, s6, s7, s8) < 7000
  BY <1>1, <1>2, SMT DEF Sum8, Signal
<1> QED
  BY <1>3, <1>4 DEF QuarantineThreshold

\* Nor is one, with any of the others neutral.
LEMMA OneIsTooFew ==
    ASSUME NEW s \in Percents, NEW i \in Signal,
           \A k \in Signal : k = i \/ s[k].score <= 50
    PROVE  Composed(s) < QuarantineThreshold
<1> DEFINE s1 == s[1].score  s2 == s[2].score  s3 == s[3].score  s4 == s[4].score
           s5 == s[5].score  s6 == s[6].score  s7 == s[7].score  s8 == s[8].score
<1>1. /\ s1 \in 0..100 /\ s2 \in 0..100 /\ s3 \in 0..100 /\ s4 \in 0..100
      /\ s5 \in 0..100 /\ s6 \in 0..100 /\ s7 \in 0..100 /\ s8 \in 0..100
  BY ComposedSum DEF Signal
<1>2. /\ i = 1 \/ s1 <= 50
      /\ i = 2 \/ s2 <= 50
      /\ i = 3 \/ s3 <= 50
      /\ i = 4 \/ s4 <= 50
      /\ i = 5 \/ s5 <= 50
      /\ i = 6 \/ s6 <= 50
      /\ i = 7 \/ s7 <= 50
      /\ i = 8 \/ s8 <= 50
  BY DEF Signal
<1>3. Composed(s) = Sum8(s1, s2, s3, s4, s5, s6, s7, s8)
  BY ComposedSum
<1> HIDE DEF s1, s2, s3, s4, s5, s6, s7, s8
<1>4. Sum8(s1, s2, s3, s4, s5, s6, s7, s8) < 7000
  BY <1>1, <1>2, SMT DEF Sum8, Signal
<1> QED
  BY <1>3, <1>4 DEF QuarantineThreshold

\* A signal above neutral that is made neutral composes to less.
LEMMA AblatedLess ==
    ASSUME NEW s \in Percents, NEW i \in Signal
    PROVE  /\ s[i].score > 50 => Composed(Ablated(s, i)) < Composed(s)
           /\ s[i].score < 50 => Composed(Ablated(s, i)) > Composed(s)
<1> DEFINE t == Ablated(s, i)
           s1 == s[1].score  s2 == s[2].score  s3 == s[3].score  s4 == s[4].score
           s5 == s[5].score  s6 == s[6].score  s7 == s[7].score  s8 == s[8].score
           t1 == t[1].score  t2 == t[2].score  t3 == t[3].score  t4 == t[4].score
           t5 == t[5].score  t6 == t[6].score  t7 == t[7].score  t8 == t[8].score
<1>1. /\ s1 \in 0..100 /\ s2 \in 0..100 /\ s3 \in 0..100 /\ s4 \in 0..100
      /\ s5 \in 0..100 /\ s6 \in 0..100 /\ s7 \in 0..100 /\ s8 \in 0..100
  BY ComposedSum DEF Signal
<1>2. t \in Percents
  BY NeutralOutcome DEF Ablated, Percents
<1>3. \A k \in Signal : t[k].score = IF k = i THEN 50 ELSE s[k].score
  BY NeutralOutcome DEF Ablated, Percents
<1>4. /\ t1 = s1 \/ (i = 1 /\ t1 = 50)
      /\ t2 = s2 \/ (i = 2 /\ t2 = 50)
      /\ t3 = s3 \/ (i = 3 /\ t3 = 50)
      /\ t4 = s4 \/ (i = 4 /\ t4 = 50)
      /\ t5 = s5 \/ (i = 5 /\ t5 = 50)
      /\ t6 = s6 \/ (i = 6 /\ t6 = 50)
      /\ t7 = s7 \/ (i = 7 /\ t7 = 50)
      /\ t8 = s8 \/ (i = 8 /\ t8 = 50)
  BY <1>3 DEF Signal
<1>5. /\ Composed(s) = Sum8(s1, s2, s3, s4, s5, s6, s7, s8)
      /\ Composed(t) = Sum8(t1, t2, t3, t4, t5, t6, t7, t8)
  BY <1>2, ComposedSum
<1>6. /\ i = 1 => s[i].score = s1 /\ t1 = 50
      /\ i = 2 => s[i].score = s2 /\ t2 = 50
      /\ i = 3 => s[i].score = s3 /\ t3 = 50
      /\ i = 4 => s[i].score = s4 /\ t4 = 50
      /\ i = 5 => s[i].score = s5 /\ t5 = 50
      /\ i = 6 => s[i].score = s6 /\ t6 = 50
      /\ i = 7 => s[i].score = s7 /\ t7 = 50
      /\ i = 8 => s[i].score = s8 /\ t8 = 50
  BY <1>3 DEF Signal
<1>7. i \in 1..8
  BY DEF Signal
<1> HIDE DEF t, s1, s2, s3, s4, s5, s6, s7, s8, t1, t2, t3, t4, t5, t6, t7, t8
<1>8. /\ s[i].score > 50 => Composed(t) < Composed(s)
      /\ s[i].score < 50 => Composed(t) > Composed(s)
  <2>1. CASE i = 1
    BY <1>1, <1>4, <1>5, <1>6, <2>1, SMT DEF Sum8
  <2>2. CASE i = 2
    BY <1>1, <1>4, <1>5, <1>6, <2>2, SMT DEF Sum8
  <2>3. CASE i = 3
    BY <1>1, <1>4, <1>5, <1>6, <2>3, SMT DEF Sum8
  <2>4. CASE i = 4
    BY <1>1, <1>4, <1>5, <1>6, <2>4, SMT DEF Sum8
  <2>5. CASE i = 5
    BY <1>1, <1>4, <1>5, <1>6, <2>5, SMT DEF Sum8
  <2>6. CASE i = 6
    BY <1>1, <1>4, <1>5, <1>6, <2>6, SMT DEF Sum8
  <2>7. CASE i = 7
    BY <1>1, <1>4, <1>5, <1>6, <2>7, SMT DEF Sum8
  <2>8. CASE i = 8
    BY <1>1, <1>4, <1>5, <1>6, <2>8, SMT DEF Sum8
  <2> QED
    BY <1>7, <2>1, <2>2, <2>3, <2>4, <2>5, <2>6, <2>7, <2>8
<1> QED
  BY <1>8 DEF t

-----------------------------------------------------------------------------
(***************************************************************************)
(* What a judgement is worth.                                              *)
(***************************************************************************)
\* At a judgement the list is full, and every score in it is accounted for.
LEMMA FullList ==
    ASSUME GateInv, Judged
    PROVE  /\ scores \in Percents /\ intended \in Percents /\ failed \in SUBSET Signal
           /\ outcome.verdict \in Classify(Composed(scores))
           /\ outcome.reason \in Reason(scores, outcome.verdict)
           /\ Composed(scores) \in Nat /\ Composed(intended) \in Nat
           /\ \A k \in Signal :
                 /\ k \in failed => scores[k] = Neutral
                 /\ k \notin failed =>
                       /\ scores[k] = intended[k]
                       /\ scores[k].fired \/ scores[k].score <= Quiet[k]
<1>1. done = 8
  BY DEF GateInv, JudgedByScores
<1>2. scores \in Percents /\ intended \in Percents /\ failed \in SUBSET Signal
  BY <1>1 DEF GateInv, GateTypeOK, Percents, Outcome, Signal
<1> QED
  BY <1>1, <1>2, ComposedSum DEF GateInv, JudgedByScores, Listed, Signal

LEMMA ApartHolds == GateInv => FailuresStayApart
<1> SUFFICES ASSUME GateInv, Judged, Cardinality(failed) <= 2
             PROVE  /\ ~(outcome.verdict = "trusted"
                           /\ Composed(intended) >= QuarantineThreshold)
                    /\ ~(outcome.verdict = "quarantined"
                           /\ Composed(intended) <= TrustThreshold)
  BY DEF FailuresStayApart
<1>1. PICK i, j \in Signal : failed \subseteq {i, j}
  BY FullList, AtMostTwo
<1>2. \A k \in Signal : scores[k].score = intended[k].score
                           \/ (k \in {i, j} /\ scores[k].score = 50)
  BY <1>1, FullList, NeutralOutcome
<1>3. Composed(intended) - Composed(scores) \in -2850..2850
  BY <1>2, FullList, TwoApart
<1>4. /\ outcome.verdict = "trusted" => Composed(scores) <= 4000
      /\ outcome.verdict = "quarantined" => Composed(scores) >= 7000
  BY FullList DEF Classify, TrustThreshold, QuarantineThreshold
<1> QED
  <2>1. Composed(scores) \in Nat /\ Composed(intended) \in Nat
    BY FullList
  <2> QED
    <3>1. PICK c \in Nat, t \in Nat : c = Composed(scores) /\ t = Composed(intended)
      BY <2>1
    <3>2. t - c \in -2850..2850
      BY <1>3, <3>1
    <3>3. c <= 4000 => ~(t >= 7000)
      BY <3>2
    <3>4. c >= 7000 => ~(t <= 4000)
      BY <3>2
    <3> QED
      BY <1>4, <3>1, <3>3, <3>4 DEF TrustThreshold, QuarantineThreshold

LEMMA OutageHolds == GateInv => OutageNeverTrusts
<1> SUFFICES ASSUME GateInv, Queries \subseteq failed, outcome.verdict = "trusted"
             PROVE  FALSE
  BY DEF OutageNeverTrusts
<1>1. Judged
  BY DEF Judged, Verdicts
<1>2. /\ scores[1].score = 50 /\ scores[2].score = 50 /\ scores[4].score = 50
      /\ scores[5].score = 50 /\ scores[6].score = 50 /\ scores[7].score = 50
      /\ scores[3].score \in Nat /\ scores[8].score \in Nat
  <2>1. \A k \in Queries : k \in Signal /\ k \in failed
    BY DEF Queries
  <2>2. \A k \in Queries : scores[k].score = 50
    BY <1>1, <2>1, FullList, NeutralOutcome
  <2>3. \A k \in {1, 2, 4, 5, 6, 7} : k \in Queries
    BY DEF Queries, Signal
  <2>4. 3 \in Signal /\ 8 \in Signal
    BY DEF Signal
  <2>5. \A k \in Signal : scores[k].score \in Nat
    BY <1>1, FullList, ComposedSum
  <2> QED
    BY <2>2, <2>3, <2>4, <2>5
<1>3. Composed(scores) > 4000
  BY <1>2 DEF Composed
<1>4. Composed(scores) <= 4000
  BY <1>1, FullList DEF Classify, TrustThreshold, QuarantineThreshold
<1> QED
  BY <1>1, <1>3, <1>4, FullList

LEMMA CorroboratedHolds == GateInv => QuarantineCorroborated
<1> SUFFICES ASSUME GateInv, outcome.verdict = "quarantined"
             PROVE  Cardinality(Fired(scores)) >= (IF failed = {} THEN 3 ELSE 2)
  BY DEF QuarantineCorroborated
<1>1. Judged
  BY DEF Judged, Verdicts
<1>2. Composed(scores) >= QuarantineThreshold
  BY <1>1, FullList DEF Classify, TrustThreshold, QuarantineThreshold
<1>3. Fired(scores) \in SUBSET Signal /\ Cardinality(Fired(scores)) \in Nat
  BY SignalSets DEF Fired
<1>n. Composed(scores) \in Nat /\ QuarantineThreshold \in Nat
  BY <1>1, FullList DEF QuarantineThreshold
<1>4. CASE failed = {}
  <2>1. ASSUME Cardinality(Fired(scores)) <= 2 PROVE FALSE
    <3>1. PICK i, j \in Signal : Fired(scores) \subseteq {i, j}
      BY <1>3, <2>1, AtMostTwo
    <3>2. \A k \in Signal : k = i \/ k = j \/ scores[k].score <= Quiet[k]
      BY <1>1, <1>4, <3>1, FullList DEF Fired
    <3>3. Composed(scores) < QuarantineThreshold
      BY <1>1, <3>2, FullList, TwoAreTooFew
    <3> QED
      BY <1>2, <1>n, <3>3
  <2> QED
    BY <1>3, <1>4, <2>1
<1>5. CASE failed # {}
  <2>1. ASSUME Cardinality(Fired(scores)) <= 1 PROVE FALSE
    <3>1. PICK i \in Signal : Fired(scores) \subseteq {i}
      BY <1>3, <2>1, AtMostOne
    <3>2. \A k \in Signal : Quiet[k] <= 50 /\ Quiet[k] \in Nat
      BY DEF Signal, Quiet
    <3>3. ASSUME NEW k \in Signal, k # i PROVE scores[k].score <= 50
      <4>1. CASE k \in failed
        BY <1>1, <4>1, FullList, NeutralOutcome
      <4>2. CASE k \notin failed
        <5>1. scores[k].score <= Quiet[k] /\ scores[k].score \in 0..100
          BY <1>1, <3>1, <3>3, <4>2, FullList, ComposedSum DEF Fired
        <5> QED
          BY <3>2, <5>1
      <4> QED
        BY <4>1, <4>2
    <3>4. Composed(scores) < QuarantineThreshold
      BY <1>1, <3>3, FullList, OneIsTooFew
    <3> QED
      BY <1>2, <1>n, <3>4
  <2> QED
    BY <1>3, <1>5, <2>1
<1> QED
  BY <1>4, <1>5

LEMMA ExplainedHolds == GateInv => QuarantineExplained
<1> SUFFICES ASSUME GateInv, outcome.verdict = "quarantined"
             PROVE  outcome.reason \in Fired(scores) /\ outcome.reason \notin failed
  BY DEF QuarantineExplained
<1>1. Judged
  BY DEF Judged, Verdicts
<1>2. Fired(scores) # {}
  <2>1. Cardinality(Fired(scores)) >= (IF failed = {} THEN 3 ELSE 2)
    BY CorroboratedHolds DEF QuarantineCorroborated
  <2>2. Cardinality({}) = 0
    BY FS_EmptySet
  <2> QED
    BY <2>1, <2>2
<1>3. outcome.reason \in Fired(scores)
  BY <1>1, <1>2, FullList DEF Reason, Dominant
<1>4. \A k \in failed : k \in Signal /\ scores[k].fired = FALSE
  BY <1>1, FullList, NeutralOutcome
<1> QED
  BY <1>3, <1>4 DEF Fired

LEMMA ThresholdsHold == GateInv => ThresholdsFit
<1> SUFFICES ASSUME GateInv, Judged
             PROVE  /\ (\A i \in {1, 2, 4} : scores[i].score = 100) =>
                          outcome.verdict = "quarantined"
                    /\ Unremarkable => outcome.verdict = "trusted"
  BY DEF ThresholdsFit, StructuralPoison, FirstBeliefsAdmitted
<1> DEFINE s1 == scores[1].score  s2 == scores[2].score  s3 == scores[3].score
           s4 == scores[4].score  s5 == scores[5].score  s6 == scores[6].score
           s7 == scores[7].score  s8 == scores[8].score
<1>1. /\ s1 \in 0..100 /\ s2 \in 0..100 /\ s3 \in 0..100 /\ s4 \in 0..100
      /\ s5 \in 0..100 /\ s6 \in 0..100 /\ s7 \in 0..100 /\ s8 \in 0..100
  BY FullList, ComposedSum DEF Signal
<1>2. Composed(scores) = Sum8(s1, s2, s3, s4, s5, s6, s7, s8)
  BY FullList, ComposedSum
<1>3. ASSUME \A i \in {1, 2, 4} : scores[i].score = 100
      PROVE  Composed(scores) > 7000
  <2>1. s1 = 100 /\ s2 = 100 /\ s4 = 100
    BY <1>3
  <2> HIDE DEF s1, s2, s3, s4, s5, s6, s7, s8
  <2> QED
    BY <1>1, <1>2, <2>1, SMT DEF Sum8
<1>4. ASSUME Unremarkable PROVE Composed(scores) < 4000
  <2>1. /\ s1 = 50 /\ s2 <= 70 /\ s3 = 0 /\ s4 = 10
        /\ s5 <= 20 /\ s6 <= 70 /\ s7 = 0 /\ s8 = 0
    BY <1>4, NeutralOutcome DEF Unremarkable
  <2> HIDE DEF s1, s2, s3, s4, s5, s6, s7, s8
  <2> QED
    BY <1>1, <1>2, <2>1, SMT DEF Sum8
<1>5. outcome.verdict \in Classify(Composed(scores)) /\ Composed(scores) \in Nat
  BY FullList
<1> QED
  BY <1>3, <1>4, <1>5 DEF Classify, TrustThreshold, QuarantineThreshold

-----------------------------------------------------------------------------
(***************************************************************************)
(* An evaluation.  No entry is screened that was not inserted, nor more    *)
(* than one after the other; only what was screened is caught.             *)
(***************************************************************************)
EvalInv ==
    /\ RedTeamTypeOK /\ EvaluationSound
    /\ inserted \in Screened..(Screened + 1)
    /\ stage \in {"screening", "reported"} => \A p \in Predicate : seeds[p] = Seeds
    /\ \A l \in Label : caught[l] <= results[l]
    /\ \A i \in Signal : without[i] <= results["poison"]

LEMMA ScreenedNat ==
    ASSUME RedTeamTypeOK
    PROVE  /\ results["benign"] \in Nat /\ results["poison"] \in Nat
           /\ results["evasion"] \in Nat /\ Screened \in Nat
           /\ inserted \in Nat /\ caught["poison"] \in Nat
           /\ \A i \in Signal : without[i] \in Nat
BY EvaluationAssumption DEF RedTeamTypeOK, Label, Screened

LEMMA EvalStarts == RedTeamInit => EvalInv
BY EvaluationAssumption DEF RedTeamInit, EvalInv, RedTeamTypeOK, EvaluationSound, MarginalSign,
   ReportComplete, Screened, None, Label

\* An entry is judged: the sign of what a signal contributes is kept.
LEMMA SignKept ==
    ASSUME EvalInv, NEW l \in Label, NEW s \in Vectors, ScreenEntry(l, s)
    PROVE  MarginalSign'
<1>1. PICK verdict \in Classify(Composed(s)) :
        /\ Count(l, verdict)
        /\ IF Measured(l) THEN Marginal(s, verdict)
           ELSE UNCHANGED <<without, low, high>>
  BY DEF ScreenEntry
<1>2. s \in Percents /\ Composed(s) \in Nat
  BY EvaluationAssumption, ComposedSum DEF Percents, Outcome
<1>3. MarginalSign /\ RedTeamTypeOK
  BY DEF EvalInv, EvaluationSound
<1>4. CASE l # "poison"
  <2>1. caught'["poison"] = caught["poison"] /\ UNCHANGED <<without, low, high>>
    BY <1>1, <1>3, <1>4 DEF Count, Measured, RedTeamTypeOK
  <2> QED
    BY <1>3, <2>1 DEF MarginalSign
<1>5. CASE l = "poison"
  <2>1. caught'["poison"] = caught["poison"] + AsNumber(verdict = "quarantined")
    BY <1>1, <1>3, <1>5 DEF Count, RedTeamTypeOK, Label
  <2>2. PICK kept \in [Signal -> BOOLEAN] :
          /\ \A i \in Signal : kept[i] \in CaughtWithout(s, i, verdict)
          /\ without' = [i \in Signal |-> without[i] + AsNumber(kept[i])]
    BY <1>1, <1>5 DEF Measured, Marginal
  <2>3. /\ low' = low \union {i \in Signal : s[i].score < 50}
        /\ high' = high \union {i \in Signal : s[i].score > 50}
    BY <1>1, <1>5 DEF Measured, Marginal
  <2>4. ASSUME NEW i \in Signal
        PROVE  /\ s[i].score >= 50 /\ kept[i] => verdict = "quarantined"
               /\ s[i].score <= 50 /\ verdict = "quarantined" => kept[i]
    <3>1. s[i].score \in 0..100
      BY <1>2, ComposedSum
    <3>2. CASE s[i].score = 50
      BY <2>2, <3>2 DEF CaughtWithout
    <3>3. ASSUME s[i].score # 50
          PROVE  \E v \in Classify(Composed(Ablated(s, i))) : kept[i] = (v = "quarantined")
      BY <2>2, <3>3 DEF CaughtWithout
    <3>4. Ablated(s, i) \in Percents
      BY <1>2, NeutralOutcome DEF Ablated, Percents
    <3>5. Composed(Ablated(s, i)) \in Nat
      BY <3>4, ComposedSum
    <3>6. CASE s[i].score > 50
      <4>1. Composed(Ablated(s, i)) < Composed(s)
        BY <1>2, <3>6, AblatedLess
      <4>2. kept[i] => Composed(Ablated(s, i)) >= 7000
        <5>1. PICK v \in Classify(Composed(Ablated(s, i))) : kept[i] = (v = "quarantined")
          BY <3>1, <3>3, <3>6
        <5>2. v = "quarantined" => Composed(Ablated(s, i)) >= 7000
          BY <5>1 DEF Classify, TrustThreshold, QuarantineThreshold
        <5> QED
          BY <5>1, <5>2
      <4>3. Composed(s) > 7000 => verdict = "quarantined"
        BY <1>1, <1>2 DEF Classify, TrustThreshold, QuarantineThreshold
      <4> QED
        BY <1>2, <3>1, <3>5, <3>6, <4>1, <4>2, <4>3
    <3>7. CASE s[i].score < 50
      <4>1. Composed(Ablated(s, i)) > Composed(s)
        BY <1>2, <3>7, AblatedLess
      <4>2. verdict = "quarantined" => Composed(s) >= 7000
        BY <1>1 DEF Classify, TrustThreshold, QuarantineThreshold
      <4>3. Composed(Ablated(s, i)) > 7000 => kept[i]
        BY <3>3, <3>5, <3>7 DEF Classify, TrustThreshold, QuarantineThreshold
      <4> QED
        BY <1>2, <3>1, <3>5, <3>7, <4>1, <4>2, <4>3
    <3> QED
      BY <3>1, <3>2, <3>6, <3>7
  <2>5. ASSUME NEW i \in Signal
        PROVE  /\ i \notin low' => without'[i] <= caught'["poison"]
               /\ i \notin high' => without'[i] >= caught'["poison"]
    <3>1. without'[i] = without[i] + AsNumber(kept[i])
      BY <2>2
    <3>2. /\ i \notin low' => i \notin low /\ s[i].score >= 50
          /\ i \notin high' => i \notin high /\ s[i].score <= 50
      <4>1. s[i].score \in 0..100
        BY <1>2, ComposedSum
      <4> QED
        BY <2>3, <4>1
    <3>3. without[i] \in Nat /\ caught["poison"] \in Nat
      BY <1>3, ScreenedNat
    <3>4. kept[i] \in BOOLEAN
      BY <2>2
    <3> QED
      BY <1>3, <2>1, <2>4, <3>1, <3>2, <3>3, <3>4 DEF MarginalSign, AsNumber
  <2> QED
    BY <2>5 DEF MarginalSign
<1> QED
  BY <1>4, <1>5

LEMMA EvalStep == EvalInv /\ [RedTeamNext]_evalVars => EvalInv'
<1> SUFFICES ASSUME EvalInv, [RedTeamNext]_evalVars PROVE EvalInv'
  OBVIOUS
<1>n. RedTeamTypeOK /\ MarginalSign /\ ReportComplete
  BY DEF EvalInv, EvaluationSound
<1>1. CASE Evaluate
  BY <1>1, EvaluationAssumption DEF Evaluate, EvalInv, RedTeamTypeOK, EvaluationSound,
     MarginalSign, ReportComplete, Screened, None, Label
<1>2. ASSUME NEW p \in Predicate, Seed(p) PROVE EvalInv'
  BY <1>2, EvaluationAssumption DEF Seed, EvalInv, RedTeamTypeOK, EvaluationSound,
     MarginalSign, ReportComplete, Screened
<1>3. CASE Seeded
  <2>1. \A p \in Predicate : seeds[p] = Seeds
    BY <1>3, <1>n, EvaluationAssumption DEF Seeded, RedTeamTypeOK
  <2> QED
    BY <1>3, <2>1 DEF Seeded, EvalInv, RedTeamTypeOK, EvaluationSound,
       MarginalSign, ReportComplete, Screened
<1>4. CASE Insert
  BY <1>4, <1>n, ScreenedNat, EvaluationAssumption DEF Insert, EvalInv, RedTeamTypeOK,
     EvaluationSound, MarginalSign, ReportComplete, Screened
<1>5. ASSUME NEW l \in Label, NEW s \in Vectors, ScreenEntry(l, s) PROVE EvalInv'
  <2>1. /\ stage = "screening" /\ inserted = Screened + 1 /\ UNCHANGED <<stage, seeds, inserted>>
        /\ results' = [results EXCEPT ![l] = @ + 1]
    BY <1>5 DEF ScreenEntry, Count
  <2>2. PICK verdict \in Classify(Composed(s)) :
          /\ Count(l, verdict)
          /\ IF Measured(l) THEN Marginal(s, verdict)
             ELSE UNCHANGED <<without, low, high>>
    BY <1>5 DEF ScreenEntry
  <2>3. Screened' = Screened + 1
    BY <1>n, <2>1, ScreenedNat DEF Screened, Label, RedTeamTypeOK
  <2>4. MarginalSign'
    BY <1>5, SignKept
  <2>5. Screened < Corpus
    BY <1>n, <2>1, ScreenedNat, EvaluationAssumption DEF RedTeamTypeOK
  <2>6. results[l] \in 0..Screened /\ results'[l] = results[l] + 1
    BY <1>n, <2>1, ScreenedNat DEF RedTeamTypeOK, Label, Screened
  <2>7. results' \in [Label -> 0..Corpus] /\ \A m \in Label : results'[m] >= results[m]
    <3>1. \A m \in Label : results'[m] = IF m = l THEN results[l] + 1 ELSE results[m]
      BY <1>n, <2>1 DEF RedTeamTypeOK
    <3>2. results[l] + 1 \in 0..Corpus
      BY <1>n, <2>5, <2>6, ScreenedNat, EvaluationAssumption
    <3>3. \A m \in Label : results[m] \in Nat
      BY <1>n DEF RedTeamTypeOK
    <3>4. results' \in [Label -> 0..Corpus]
      BY <1>n, <2>1, <3>2 DEF RedTeamTypeOK
    <3> QED
      BY <3>1, <3>3, <3>4
  <2>8. /\ caught' = [caught EXCEPT ![l] = @ + AsNumber(verdict = "quarantined")]
        /\ AsNumber(verdict = "quarantined") \in 0..1
    BY <2>2 DEF Count, AsNumber
  <2>9. /\ caught' \in [Label -> 0..Corpus]
        /\ \A m \in Label : caught'[m] <= results'[m]
    <3>1. \A m \in Label : /\ caught[m] \in Nat /\ results[m] \in Nat
                           /\ caught[m] <= results[m]
      BY <1>n DEF EvalInv, RedTeamTypeOK
    <3>2. \A m \in Label : /\ results'[m] = IF m = l THEN results[m] + 1 ELSE results[m]
                           /\ results'[m] \in 0..Corpus
      BY <1>n, <2>1, <2>7 DEF RedTeamTypeOK
    <3>3. \A m \in Label : caught'[m] = IF m = l THEN caught[m] + AsNumber(verdict = "quarantined")
                                        ELSE caught[m]
      BY <1>n, <2>8 DEF RedTeamTypeOK
    <3>4. \A m \in Label : caught'[m] \in Nat /\ caught'[m] <= results'[m]
      BY <2>8, <3>1, <3>2, <3>3
    <3>5. \A m \in Label : caught'[m] \in 0..Corpus
      BY <3>2, <3>4, EvaluationAssumption
    <3>6. DOMAIN caught' = Label /\ caught' = [m \in Label |-> caught'[m]]
      BY <1>n, <2>8 DEF RedTeamTypeOK
    <3> QED
      BY <3>4, <3>5, <3>6
  <2>10. /\ without' \in [Signal -> 0..Corpus]
         /\ \A i \in Signal : without'[i] <= results'["poison"]
         /\ low' \subseteq Signal /\ high' \subseteq Signal
    <3>p. "poison" \in Label
      BY DEF Label
    <3>t. \A i \in Signal : without[i] \in Nat /\ without[i] <= results["poison"]
      BY <1>n DEF EvalInv, RedTeamTypeOK
    <3>r. results["poison"] \in Nat /\ results'["poison"] \in 0..Corpus
             /\ results'["poison"] >= results["poison"]
      BY <1>n, <2>7, <3>p DEF RedTeamTypeOK
    <3>1. CASE Measured(l)
      <4>1. PICK kept \in [Signal -> BOOLEAN] :
               without' = [i \in Signal |-> without[i] + AsNumber(kept[i])]
        BY <2>2, <3>1 DEF Marginal
      <4>2. results'["poison"] = results["poison"] + 1
        BY <2>6, <3>1 DEF Measured
      <4>3. \A i \in Signal : AsNumber(kept[i]) \in 0..1
        BY DEF AsNumber
      <4>4. \A i \in Signal : without'[i] \in Nat /\ without'[i] <= results'["poison"]
        BY <3>t, <3>r, <4>1, <4>2, <4>3
      <4>5. \A i \in Signal : without'[i] \in 0..Corpus
        BY <3>r, <4>4, EvaluationAssumption
      <4>6. low' \subseteq Signal /\ high' \subseteq Signal
        BY <1>n, <2>2, <3>1 DEF Marginal, RedTeamTypeOK
      <4> QED
        BY <4>1, <4>4, <4>5, <4>6
    <3>2. CASE ~Measured(l)
      BY <1>n, <2>2, <3>2, <3>t, <3>r DEF RedTeamTypeOK
    <3> QED
      BY <3>1, <3>2
  <2>11. RedTeamTypeOK'
    BY <1>n, <2>1, <2>7, <2>9, <2>10 DEF RedTeamTypeOK
  <2>12. ReportComplete'
    BY <2>1 DEF ReportComplete
  <2>13. inserted' \in Screened'..(Screened' + 1)
    BY <1>n, <2>1, <2>3, ScreenedNat
  <2>14. \A p \in Predicate : seeds'[p] = Seeds
    BY <2>1 DEF EvalInv
  <2> QED
    BY <2>4, <2>9, <2>10, <2>11, <2>12, <2>13, <2>14 DEF EvalInv, EvaluationSound
<1>6. CASE Report
  BY <1>6, <1>n, ScreenedNat, EvaluationAssumption DEF Report, EvalInv, RedTeamTypeOK,
     EvaluationSound, MarginalSign, ReportComplete, Screened
<1>7. CASE Break
  BY <1>7 DEF Break, EvalInv, RedTeamTypeOK, EvaluationSound, MarginalSign,
     ReportComplete, Screened
<1>8. CASE UNCHANGED evalVars
  BY <1>8 DEF evalVars, EvalInv, RedTeamTypeOK, EvaluationSound, MarginalSign,
     ReportComplete, Screened
<1> QED
  BY <1>1, <1>2, <1>3, <1>4, <1>5, <1>6, <1>7, <1>8 DEF RedTeamNext

-----------------------------------------------------------------------------
(***************************************************************************)
(* The gate and the evaluation share no variable.                          *)
(***************************************************************************)
THEOREM ScoringInvariant == ScoringSpec => [](GateInv /\ EvalInv)
<1>1. ScoringInit => GateInv /\ EvalInv
  BY GateStarts, EvalStarts DEF ScoringInit
<1>2. [ScoringNext]_<<gateVars, evalVars>> => [GateNext]_gateVars /\ [RedTeamNext]_evalVars
  BY DEF ScoringNext
<1>3. GateInv /\ EvalInv /\ [ScoringNext]_<<gateVars, evalVars>> => (GateInv /\ EvalInv)'
  BY <1>2, GateStep, EvalStep
<1> QED
  BY <1>1, <1>3, PTL DEF ScoringSpec

(***************************************************************************)
(* The variables of the gate and of the evaluation keep their types.       *)
(***************************************************************************)
THEOREM ScoringTypes == ScoringSpec => [](GateTypeOK /\ RedTeamTypeOK)
<1>1. GateInv /\ EvalInv => GateTypeOK /\ RedTeamTypeOK
  BY DEF GateInv, EvalInv
<1> QED
  BY <1>1, ScoringInvariant, PTL

(***************************************************************************)
(* Up to two failing signals do not turn a judgement upside down, and an   *)
(* outage of the database gets nothing trusted (gate.py: a signal that     *)
(* raises counts as neutral).                                              *)
(***************************************************************************)
THEOREM FailuresAreContained == ScoringSpec => []FailuresContained
<1>1. GateInv => FailuresContained
  BY ApartHolds, OutageHolds DEF FailuresContained
<1> QED
  BY <1>1, ScoringInvariant, PTL

(***************************************************************************)
(* No belief is quarantined on the word of one signal, and the reason that *)
(* is recorded is a signal that fired and did not fail.                    *)
(***************************************************************************)
THEOREM QuarantineIsGrounded == ScoringSpec => []QuarantineGrounded
<1>1. GateInv => QuarantineGrounded
  BY CorroboratedHolds, ExplainedHolds DEF QuarantineGrounded
<1> QED
  BY <1>1, ScoringInvariant, PTL

(***************************************************************************)
(* The three structural signals are enough for quarantine, and the first   *)
(* unremarkable beliefs about a predicate are trusted.                     *)
(***************************************************************************)
THEOREM ThresholdsAreFit == ScoringSpec => []ThresholdsFit
<1>1. GateInv => ThresholdsFit
  BY ThresholdsHold
<1> QED
  BY <1>1, ScoringInvariant, PTL

(***************************************************************************)
(* A report stands for the whole corpus, and the sign of a marginal        *)
(* contribution is what it seems to be, for every corpus.                  *)
(***************************************************************************)
THEOREM EvaluationIsSound == ScoringSpec => []EvaluationSound
<1>1. EvalInv => EvaluationSound
  BY DEF EvalInv
<1> QED
  BY <1>1, ScoringInvariant, PTL
=============================================================================
