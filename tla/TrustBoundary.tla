--------------------------- MODULE TrustBoundary ----------------------------
(***************************************************************************)
(* What the store promises to those who read it, whatever its tables and   *)
(* agents look like: each belief crosses the boundary to the consumers at  *)
(* most once, after the gate or a reviewer has admitted it, and one that   *)
(* has left is never retrieved again.                                      *)
(***************************************************************************)
CONSTANT Belief

VARIABLE stage

Stage == {"unseen", "waiting", "retrievable", "withheld", "retired"}

TypeOK == stage \in [Belief -> Stage]

Init == stage = [b \in Belief |-> "unseen"]

Moves(b, from, to) ==
    /\ stage[b] = from
    /\ stage' = [stage EXCEPT ![b] = to]

Arrive(b)   == Moves(b, "unseen", "waiting")
Admit(b)    == Moves(b, "waiting", "retrievable")
Withhold(b) == Moves(b, "waiting", "withheld")
Restore(b)  == Moves(b, "withheld", "retrievable")
Discard(b)  == Moves(b, "withheld", "retired")

\* A belief that arrives may take the place of one that is retrievable.
Replace(b, i) ==
    /\ stage[b] = "unseen"
    /\ stage[i] = "retrievable"
    /\ stage' = [stage EXCEPT ![b] = "waiting", ![i] = "retired"]

Next ==
    \E b \in Belief :
        \/ Arrive(b) \/ Admit(b) \/ Withhold(b) \/ Restore(b) \/ Discard(b)
        \/ \E i \in Belief : Replace(b, i)

Spec == Init /\ [][Next]_stage
=============================================================================
