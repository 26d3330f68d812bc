----------------------------- MODULE Inference ------------------------------
(***************************************************************************)
(* A2: beliefs that a language model derives from trusted ones             *)
(* (agents/integrity/a2_inference.py).  The parents are checked and the    *)
(* beliefs written in one transaction, which the caller commits; neither   *)
(* A13 nor A7 is asked.  A statement that fails is logged, and leaves a    *)
(* transaction that can only be rolled back; the caller is told of the     *)
(* beliefs that were written before it.                                    *)
(***************************************************************************)
EXTENDS BeliefStore, FiniteSetsExt

CONSTANTS MaxDerived,      \* beliefs per call
          MaxInferences    \* calls

ASSUME InferenceAssumption == MaxDerived \in Nat /\ MaxInferences \in Nat

VARIABLES
    derivedFrom,   \* provenance.derived_from of each belief
    derived,       \* the belief_ids that the last call returned
    inferences     \* number of calls

inferenceVars == <<derivedFrom, derived, inferences>>

InferenceTypeOK ==
    /\ derivedFrom \in [Belief -> SUBSET Belief]
    /\ derived \subseteq Belief
    /\ inferences \in 0..MaxInferences

InferenceInit ==
    derivedFrom = [b \in Belief |-> {}] /\ derived = {} /\ inferences = 0

-----------------------------------------------------------------------------
MayDerive(parents) ==
    parents # {} /\ \A p \in parents : status[p] = "trusted"

\* Belief_ids are random: any that are not taken will do.
Unused == {b \in Belief : status[b] = "absent"}

Fresh(n) == CHOOSE new \in kSubset(n, Unused) : TRUE

Call(parents, new) ==
    /\ inferences < MaxInferences
    /\ MayDerive(parents)
    /\ derived' = new
    /\ inferences' = inferences + 1

\* The beliefs are pending, whatever is trusted about the same facts.
WriteDerived(parents, new) ==
    /\ clock' = clock + 1
    /\ status' = [b \in Belief |-> IF b \in new THEN "pending" ELSE status[b]]
    /\ derivedFrom' = [b \in Belief |-> IF b \in new THEN parents ELSE derivedFrom[b]]
    /\ \E k \in [new -> Key], c \in [new -> Claim] :
          /\ \A b \in new : c[b].tier = "unverified"
          /\ fact' = [b \in Belief |->
                        IF b \in new
                        THEN [key |-> k[b], claim |-> c[b], txFrom |-> clock + 1]
                        ELSE fact[b]]
    /\ UNCHANGED <<txTo, supersededBy, scored, screened, verdicts, quarantine,
                   contradictions>>

Sizes == {n \in 1..MaxDerived : kSubset(n, Unused) # {}}

Infer ==
    \E parents \in SUBSET Belief, n \in Sizes :
        Call(parents, Fresh(n)) /\ WriteDerived(parents, Fresh(n))

\* A statement fails after some have not: nothing of the transaction stays.
InferLost ==
    /\ \E parents \in SUBSET Belief, n \in Sizes \union {0} : Call(parents, Fresh(n))
    /\ UNCHANGED <<vars, derivedFrom>>

(***************************************************************************)
(* DerivedFromAdmitted: what agents derive, they derive from beliefs that  *)
(* the gate or a reviewer had admitted, and nobody has rejected.           *)
(***************************************************************************)
DerivedFromAdmitted ==
    \A b \in Belief : \A p \in derivedFrom[b] : Admitted(p) /\ ~Refused(p)
=============================================================================
