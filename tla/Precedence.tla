----------------------------- MODULE Precedence -----------------------------
(***************************************************************************)
(* The resolution precedence of agent A7 (agents/semantics/resolve.py):    *)
(* which of two contradicting claims about one fact wins, and on what      *)
(* basis.  A claim is what the rule looks at: the trust tier of its        *)
(* source, the world time it is valid from and its confidence.             *)
(*                                                                         *)
(* Confidences are floats compared with a tolerance of 1e-9 in the code.   *)
(* Here they are integers in a unit of which Epsilon is the tolerance.     *)
(***************************************************************************)
EXTENDS Integers

CONSTANTS Time,         \* the values of valid_from
          Confidence,   \* the values of confidence
          Epsilon       \* the tolerance of the comparison of confidences

ASSUME TimeAssumption       == Time \subseteq Int
ASSUME ConfidenceAssumption == Confidence \subseteq Int
ASSUME EpsilonAssumption    == Epsilon \in Nat

Tier == {"untrusted", "unverified", "corroborated", "authoritative"}

TrustTierOrder(t) ==
    CASE t = "authoritative" -> 3
      [] t = "corroborated"  -> 2
      [] t = "unverified"    -> 1
      [] t = "untrusted"     -> 0

Claim == [tier : Tier, validFrom : Time, confidence : Confidence]

Outcome(resolution, basis) == [resolution |-> resolution, basis |-> basis]

(***************************************************************************)
(* The three criteria, each consulted only when the ones before it do not  *)
(* separate the claims.                                                    *)
(***************************************************************************)
SameTier(a, b)    == TrustTierOrder(a.tier) = TrustTierOrder(b.tier)
SameRecency(a, b) == SameTier(a, b) /\ a.validFrom = b.validFrom

HigherTier(a, b) == TrustTierOrder(a.tier) > TrustTierOrder(b.tier)
MoreRecent(a, b) == SameTier(a, b) /\ a.validFrom > b.validFrom

\* Variant of MoreConfident with the tolerance on the wrong side.
MutantLooseConfidence(a, b) ==
    SameRecency(a, b) /\ a.confidence + Epsilon > b.confidence

MoreConfident(a, b) ==
    SameRecency(a, b) /\ a.confidence > b.confidence + Epsilon

ResolvePrecedence(challenger, incumbent, override) ==
    CASE override
           -> Outcome("challenger_supersedes", "explicit_invalidation")
      [] ~override /\ HigherTier(challenger, incumbent)
           -> Outcome("challenger_supersedes", "source_tier")
      [] ~override /\ HigherTier(incumbent, challenger)
           -> Outcome("incumbent_retained", "source_tier")
      [] ~override /\ MoreRecent(challenger, incumbent)
           -> Outcome("challenger_supersedes", "recency")
      [] ~override /\ MoreRecent(incumbent, challenger)
           -> Outcome("incumbent_retained", "recency")
      [] ~override /\ MoreConfident(challenger, incumbent)
           -> Outcome("challenger_supersedes", "confidence")
      [] ~override /\ MoreConfident(incumbent, challenger)
           -> Outcome("incumbent_retained", "confidence")
      [] OTHER -> Outcome("deferred", "policy")

Wins(challenger, incumbent) ==
    ResolvePrecedence(challenger, incumbent, FALSE).resolution
        = "challenger_supersedes"
=============================================================================
