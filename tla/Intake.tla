------------------------------- MODULE Intake -------------------------------
(***************************************************************************)
(* How beliefs come in, and go out, in three settings:                     *)
(*                                                                         *)
(*   calls   one agent's calls of ingest behind A13, screened by a poller  *)
(*   feed    writers and A2, screened through the change feed              *)
(*   recall  writers, A2, gate and reviewers, with a consumer that reads   *)
(*                                                                         *)
(* A behaviour stays in the setting it begins in.                          *)
(***************************************************************************)
EXTENDS Admission, ChangeFeed, Recall

CONSTANT Old    \* a belief that is there from the start in the feed setting

ASSUME OldAssumption == Old \in Belief

VARIABLE setting

intakeVars == <<vars, callVars, feedVars, inferenceVars, recallVars,
                setting>>

\* A store in which one belief has been written and found trustworthy.
UsedStore ==
    /\ clock = 1
    /\ fact \in [Belief -> [key : Key, claim : Claim, txFrom : {1}] \union {NoFact}]
    /\ fact[Old] # NoFact /\ fact[Old].claim.tier = "unverified"
    /\ \A b \in Belief \ {Old} : fact[b] = NoFact
    /\ status = [b \in Belief |-> IF b = Old THEN "trusted" ELSE "absent"]
    /\ verdicts = [b \in Belief |-> IF b = Old THEN <<"trusted">> ELSE <<>>]
    /\ scored = [b \in Belief |-> b = Old] /\ screened = scored
    /\ txTo = [b \in Belief |-> 0]
    /\ supersededBy = [b \in Belief |-> NoBelief]
    /\ quarantine = [b \in Belief |-> <<>>]
    /\ contradictions = {}

IntakeInit ==
    /\ setting \in {"calls", "feed", "recall"}
    /\ setting = "calls" => Init
    /\ setting # "calls" => UsedStore
    /\ AdmissionInit /\ FeedInit /\ InferenceInit /\ RecallInit

-----------------------------------------------------------------------------
NewId == IF Unused # {} THEN Fresh(1) ELSE {}

Polled(b) == \E v \in Verdict : Screen(b, v) /\ UNCHANGED callVars

CallsNext ==
    \/ (\E w \in Writer : CallStep(w)) /\ UNCHANGED vars
    \/ \E w \in Writer : \E b \in NewId : Write(w, b)
    \/ HourPasses /\ UNCHANGED vars
    \/ \E b \in Belief : Polled(b)

Calls ==
    /\ setting = "calls" /\ CallsNext
    /\ UNCHANGED <<feedVars, inferenceVars, recallVars, setting>>

FeedNext ==
    \/ (\E b \in NewId : Ingest(b)) /\ Emit /\ UNCHANGED inferenceVars
    \/ (\E b \in Belief : Review(b)) /\ Emit /\ UNCHANGED inferenceVars
    \/ (Infer \/ InferLost) /\ Emit
    \/ (\E b \in feed : Deliver(b)) /\ UNCHANGED inferenceVars

Feed == setting = "feed" /\ FeedNext /\ UNCHANGED <<callVars, recallVars, setting>>

Consume ==
    /\ setting = "recall"
    /\ \/ RecallNext
       \/ (Infer \/ InferLost) /\ UNCHANGED recallVars
       \/ /\ \/ \E b \in NewId : Ingest(b)
             \/ \E b \in Belief : Review(b) \/ \E v \in Verdict : Screen(b, v)
          /\ UNCHANGED <<inferenceVars, recallVars>>
    /\ UNCHANGED <<callVars, feedVars, setting>>

IntakeNext == Calls \/ Feed \/ Consume

IntakeSpec == IntakeInit /\ [][IntakeNext]_intakeVars

IntakeTypeOK ==
    TypeOK /\ AdmissionTypeOK /\ FeedTypeOK /\ InferenceTypeOK /\ RecallTypeOK

-----------------------------------------------------------------------------
(***************************************************************************)
(* DepthOvershoot: where the calls of ingest are the only ones that write, *)
(* fewer beliefs are pending than the throttle and one call of each        *)
(* process together; although the check calls a depth that it could not    *)
(* measure 0, because the failure that hid the depth has also aborted the  *)
(* transaction, and the call ends with its next query.                     *)
(***************************************************************************)
DepthOvershoot ==
    setting = "calls" => Cardinality(Pending) < Throttle + Allowance

(***************************************************************************)
(* NoSilentLoss: a belief without a verdict is still to be delivered, or   *)
(* an answer of the Lambda has named it among its errors, even though the  *)
(* answer that names it ends its delivery like any other.                  *)
(***************************************************************************)
NoSilentLoss == setting = "feed" => NothingLost

(***************************************************************************)
(* ThrottledForGood: once the beliefs that the gate could not decide are   *)
(* as many as the throttle, there is no way back: whoever writes, screens, *)
(* reviews or derives, they stay pending.  A call then gets past A13 only  *)
(* with a depth that its connection saw earlier, or could not see; and in  *)
(* the latter case it can not write.                                       *)
(***************************************************************************)
Undecided == {b \in Belief : status[b] = "pending" /\ verdicts[b] # <<>>}

Clogged == Cardinality(Undecided) >= Throttle

SawRoom(w) == transaction[w] = "open" /\ seen[w].pending < Throttle

ThrottledForGood ==
    [][Clogged => /\ Clogged'
                  /\ \A w \in Writer : at[w] = "idle" /\ at'[w] = "admitted" =>
                        SawRoom(w) \/ transaction'[w] = "aborted"]_intakeVars

(***************************************************************************)
(* Overshoot: neither limit of A13 is kept exactly, but calls that run     *)
(* into each other, or into a failing query, overshoot it by one call of   *)
(* each process at most.                                                   *)
(***************************************************************************)
Overshoot == QuotaOvershoot /\ DepthOvershoot

(***************************************************************************)
(* InfluenceVetted: what a consumer is given, and what agents derive       *)
(* beliefs from, the gate or a reviewer has admitted and nobody rejected.  *)
(***************************************************************************)
InfluenceVetted == InfluencersAdmitted /\ DerivedFromAdmitted
=============================================================================
