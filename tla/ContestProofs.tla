--------------------------- MODULE ContestProofs ----------------------------
(***************************************************************************)
(* What the resolution precedence guarantees for all tiers, times,         *)
(* confidences and tolerances, and for every stream of challengers.        *)
(***************************************************************************)
EXTENDS Contest, TLAPS

(***************************************************************************)
(* The tiers are linearly ordered by numbers.                              *)
(***************************************************************************)
LEMMA TierOrderType == \A t \in Tier : TrustTierOrder(t) \in Int
  BY DEF Tier, TrustTierOrder

(***************************************************************************)
(* Winning on the merits unfolds to the three criteria: a claim wins iff   *)
(* it is better in the first criterion that separates the two.  The code   *)
(* reaches the same answer by a cascade of early returns.                  *)
(***************************************************************************)
LEMMA WinsUnfolded ==
  ASSUME NEW a \in Claim, NEW b \in Claim
  PROVE  /\ Wins(a, b) <=> HigherTier(a, b) \/ MoreRecent(a, b) \/ MoreConfident(a, b)
         /\ ResolvePrecedence(a, b, FALSE).resolution = "incumbent_retained"
              <=> HigherTier(b, a) \/ MoreRecent(b, a) \/ MoreConfident(b, a)
  <1> DEFINE ta == TrustTierOrder(a.tier)
             tb == TrustTierOrder(b.tier)
  <1>1. /\ ta \in Int /\ tb \in Int
        /\ a.validFrom \in Int /\ b.validFrom \in Int
        /\ a.confidence \in Int /\ b.confidence \in Int
        /\ Epsilon \in Nat
    BY TierOrderType, TimeAssumption, ConfidenceAssumption, EpsilonAssumption
       DEF Claim
  <1>2. QED
    BY <1>1 DEF Wins, ResolvePrecedence, Outcome, HigherTier, MoreRecent,
                MoreConfident, SameTier, SameRecency

(***************************************************************************)
(* Exchanging the two claims exchanges the verdict: of two contradicting   *)
(* claims the same one stands whichever was written first.                 *)
(***************************************************************************)
THEOREM PrecedenceIsSymmetric ==
  ASSUME NEW a \in Claim, NEW b \in Claim
  PROVE  Wins(a, b)
           <=> ResolvePrecedence(b, a, FALSE).resolution = "incumbent_retained"
  BY WinsUnfolded

(***************************************************************************)
(* No two claims can supersede each other, and none supersedes itself.     *)
(***************************************************************************)
THEOREM PrecedenceIsAsymmetric ==
  ASSUME NEW a \in Claim, NEW b \in Claim, Wins(a, b)
  PROVE  ~ Wins(b, a)
  <1>1. /\ TrustTierOrder(a.tier) \in Int /\ TrustTierOrder(b.tier) \in Int
        /\ a.validFrom \in Int /\ b.validFrom \in Int
        /\ a.confidence \in Int /\ b.confidence \in Int
        /\ Epsilon \in Nat
    BY TierOrderType, TimeAssumption, ConfidenceAssumption, EpsilonAssumption
       DEF Claim
  <1>2. HigherTier(a, b) \/ MoreRecent(a, b) \/ MoreConfident(a, b)
    BY WinsUnfolded
  <1>3. ~ (HigherTier(b, a) \/ MoreRecent(b, a) \/ MoreConfident(b, a))
    BY <1>1, <1>2
       DEF HigherTier, MoreRecent, MoreConfident, SameTier, SameRecency
  <1>4. QED
    BY <1>3, WinsUnfolded

(***************************************************************************)
(* Winning is transitive: the winner of a chain of supersessions also      *)
(* beats its first claim.  Equality of confidences up to the tolerance is  *)
(* not transitive, so this is not obvious from the code.                   *)
(***************************************************************************)
THEOREM PrecedenceIsTransitive ==
  ASSUME NEW a \in Claim, NEW b \in Claim, NEW c \in Claim,
         Wins(a, b), Wins(b, c)
  PROVE  Wins(a, c)
  <1>1. /\ TrustTierOrder(a.tier) \in Int /\ TrustTierOrder(b.tier) \in Int
        /\ TrustTierOrder(c.tier) \in Int
        /\ a.validFrom \in Int /\ b.validFrom \in Int /\ c.validFrom \in Int
        /\ a.confidence \in Int /\ b.confidence \in Int /\ c.confidence \in Int
        /\ Epsilon \in Nat
    BY TierOrderType, TimeAssumption, ConfidenceAssumption, EpsilonAssumption
       DEF Claim
  <1>2. HigherTier(a, b) \/ MoreRecent(a, b) \/ MoreConfident(a, b)
    BY WinsUnfolded
  <1>3. HigherTier(b, c) \/ MoreRecent(b, c) \/ MoreConfident(b, c)
    BY WinsUnfolded
  <1>4. HigherTier(a, c) \/ MoreRecent(a, c) \/ MoreConfident(a, c)
    BY <1>1, <1>2, <1>3
       DEF HigherTier, MoreRecent, MoreConfident, SameTier, SameRecency
  <1>5. QED
    BY <1>4, WinsUnfolded

-----------------------------------------------------------------------------
(***************************************************************************)
(* The inductive form of NoComeback: the champion beats every claim it     *)
(* replaced.                                                               *)
(***************************************************************************)
ContestInv ==
    /\ TypeOK
    /\ \A d \in defeated : Wins(champion, d)

(***************************************************************************)
(* A claim that was replaced never comes back without a correction,        *)
(* however long the chain of winners in between.                           *)
(***************************************************************************)
THEOREM ContestSafety == Spec => []NoComeback
  <1>1. Init => ContestInv
    BY DEF Init, ContestInv, TypeOK
  <1>2. ContestInv /\ [Next]_vars => ContestInv'
    <2> SUFFICES ASSUME ContestInv, [Next]_vars
                 PROVE  ContestInv'
      OBVIOUS
    <2> USE DEF ContestInv, TypeOK
    <2>1. ASSUME NEW c \in Claim, Ingested(c)
          PROVE  ContestInv'
      <3>1. Wins(c, champion)
        BY <2>1 DEF Ingested, Wins
      <3>2. \A d \in defeated : Wins(c, d)
        BY <3>1, PrecedenceIsTransitive, <2>1
      <3>3. CASE defeated' = defeated
        BY <2>1, <3>2, <3>3 DEF Ingested
      <3>4. CASE defeated' = {champion}
        BY <2>1, <3>1, <3>4 DEF Ingested
      <3>5. QED
        BY <2>1, <3>3, <3>4 DEF Ingested
    <2>2. ASSUME NEW c \in Claim, Corrected(c)
          PROVE  ContestInv'
      BY <2>2 DEF Corrected
    <2>3. CASE UNCHANGED vars
      BY <2>3 DEF vars
    <2>4. QED
      BY <2>1, <2>2, <2>3 DEF Next
  <1>3. ContestInv => NoComeback
    BY PrecedenceIsSymmetric DEF ContestInv, TypeOK, NoComeback
  <1>4. QED
    BY <1>1, <1>2, <1>3, PTL DEF Spec
=============================================================================
