------------------------------- MODULE RedTeam -------------------------------
(***************************************************************************)
(* A15, the evaluation of the gate (agents/integrity/a15_redteam.py): it   *)
(* seeds trusted beliefs for every predicate, writes the entries of a      *)
(* corpus one by one, has the gate judge each, and computes from the       *)
(* verdicts and stored scores how much each signal contributes.            *)
(***************************************************************************)
EXTENDS TrustScore

CONSTANTS Predicate,   \* the predicates of the corpus
          Seeds,       \* the beliefs to be seeded for each
          Corpus,      \* the number of entries
          Vectors      \* lists of scores that an entry may get

ASSUME EvaluationAssumption ==
    /\ Seeds \in Nat \ {0} /\ Corpus \in Nat \ {0}
    /\ Vectors \subseteq [Signal -> [score : 0..100, fired : BOOLEAN]]

Label == {"benign", "poison", "evasion"}

VARIABLES
    stage,      \* "idle", "seeding", "screening", "reported", "broken"
    seeds,      \* the seeded beliefs of each predicate
    inserted,   \* entries written to the table
    results,    \* entries with a result, by label
    caught,     \* how many of them were quarantined, by label
    without,    \* quarantined poison if a signal were neutral
    low, high   \* the signals that scored below and above neutral for poison

evalVars == <<stage, seeds, inserted, results, caught, without, low, high>>

RedTeamTypeOK ==
    /\ stage \in {"idle", "seeding", "screening", "reported", "broken"}
    /\ seeds \in [Predicate -> 0..Seeds]
    /\ inserted \in 0..Corpus
    /\ results \in [Label -> 0..Corpus]
    /\ caught \in [Label -> 0..Corpus]
    /\ without \in [Signal -> 0..Corpus]
    /\ low \subseteq Signal /\ high \subseteq Signal

None == [l \in Label |-> 0]

RedTeamInit ==
    /\ stage = "idle"
    /\ seeds = [p \in Predicate |-> 0]
    /\ inserted = 0 /\ results = None /\ caught = None
    /\ without = [i \in Signal |-> 0] /\ low = {} /\ high = {}

\* run_evaluation, again after one that broke.
Evaluate ==
    /\ stage \in {"idle", "broken", "reported"}
    /\ stage' = "seeding"
    /\ inserted' = 0 /\ results' = None /\ caught' = None
    /\ without' = [i \in Signal |-> 0] /\ low' = {} /\ high' = {}
    /\ UNCHANGED seeds

\* The seeds of one predicate that are missing, in one transaction.
Seed(p) ==
    /\ stage = "seeding"
    /\ seeds[p] < Seeds
    /\ seeds' = [seeds EXCEPT ![p] = Seeds]
    /\ UNCHANGED <<stage, inserted, results, caught, without, low, high>>

Seeded ==
    /\ stage = "seeding"
    /\ \A p \in Predicate : seeds[p] >= Seeds
    /\ stage' = "screening"
    /\ UNCHANGED <<seeds, inserted, results, caught, without, low, high>>

Screened == results["benign"] + results["poison"] + results["evasion"]

\* The entry of the corpus is committed before it is screened.
Insert ==
    /\ stage = "screening"
    /\ inserted = Screened /\ inserted < Corpus
    /\ inserted' = inserted + 1
    /\ UNCHANGED <<stage, seeds, results, caught, without, low, high>>

\* Variant that removes the signal instead of making it neutral.
MutantRemoved(s, i) == [s EXCEPT ![i] = Score(0, FALSE)]

Ablated(s, i) == [s EXCEPT ![i] = Neutral]

\* The score of a list in which nothing is replaced is the same sum again,
\* and falls on the same side of a threshold.
CaughtWithout(s, i, verdict) ==
    IF s[i].score = 50 THEN {verdict = "quarantined"}
    ELSE {v = "quarantined" : v \in Classify(Composed(Ablated(s, i)))}

AsNumber(b) == IF b THEN 1 ELSE 0

Count(l, verdict) ==
    /\ results' = [results EXCEPT ![l] = @ + 1]
    /\ caught' = [caught EXCEPT ![l] = @ + AsNumber(verdict = "quarantined")]

Measured(l) == l = "poison"

Marginal(s, verdict) ==
    /\ \E kept \in [Signal -> BOOLEAN] :
          /\ \A i \in Signal : kept[i] \in CaughtWithout(s, i, verdict)
          /\ without' = [i \in Signal |-> without[i] + AsNumber(kept[i])]
    /\ low' = low \union {i \in Signal : s[i].score < 50}
    /\ high' = high \union {i \in Signal : s[i].score > 50}

\* The gate judges the entry, and the result goes into the metrics.
ScreenEntry(l, s) ==
    /\ stage = "screening" /\ inserted = Screened + 1
    /\ \E verdict \in Classify(Composed(s)) :
          /\ Count(l, verdict)
          /\ IF Measured(l) THEN Marginal(s, verdict)
             ELSE UNCHANGED <<without, low, high>>
    /\ UNCHANGED <<stage, seeds, inserted>>

Report ==
    /\ stage = "screening" /\ Screened = Corpus
    /\ stage' = "reported"
    /\ UNCHANGED <<seeds, inserted, results, caught, without, low, high>>

\* An error other than a serialization failure, or too many of these, ends
\* the evaluation; what was committed stays.
Break ==
    /\ stage \in {"seeding", "screening"}
    /\ stage' = "broken"
    /\ UNCHANGED <<seeds, inserted, results, caught, without, low, high>>

RedTeamNext ==
    \/ Evaluate \/ Seeded \/ Insert \/ Report \/ Break
    \/ \E p \in Predicate : Seed(p)
    \/ \E l \in Label, s \in Vectors : ScreenEntry(l, s)

(***************************************************************************)
(* The gate at work on one belief, or an evaluation in the course of       *)
(* which it judges whole entries.                                          *)
(***************************************************************************)
ScoringInit == GateInit /\ RedTeamInit

ScoringNext ==
    \/ stage = "idle" /\ GateNext /\ UNCHANGED evalVars
    \/ done = 0 /\ RedTeamNext /\ UNCHANGED gateVars

ScoringSpec == ScoringInit /\ [][ScoringNext]_<<gateVars, evalVars>>

-----------------------------------------------------------------------------
(***************************************************************************)
(* The sign of a marginal contribution means what it seems to mean: a      *)
(* signal that never scored below neutral for poison contributes           *)
(* nothing negative, and one that never scored above it nothing positive.  *)
(***************************************************************************)
MarginalSign ==
    \A i \in Signal :
        /\ i \notin low => without[i] <= caught["poison"]
        /\ i \notin high => without[i] >= caught["poison"]

(***************************************************************************)
(* A report stands for the whole corpus, screened against a full set of    *)
(* seeds, also after evaluations that broke halfway.                       *)
(***************************************************************************)
ReportComplete ==
    stage = "reported" =>
        /\ Screened = Corpus /\ inserted = Corpus
        /\ \A p \in Predicate : seeds[p] = Seeds

(***************************************************************************)
(* EvaluationSound: what an evaluation reports stands for the corpus, and  *)
(* the sign of each marginal contribution means what it seems to mean.     *)
(***************************************************************************)
EvaluationSound == MarginalSign /\ ReportComplete
=============================================================================
