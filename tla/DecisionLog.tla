---------------------------- MODULE DecisionLog -----------------------------
(***************************************************************************)
(* What the audit of reviews promises: a decision is on record before it   *)
(* takes effect, and the first one to take effect is final.  Decisions may *)
(* be on record that never took effect.                                    *)
(***************************************************************************)
CONSTANT Row   \* the rows of the quarantine table

VARIABLES log, disposition

Decision == {"released", "rejected"}

Init == log = {} /\ disposition = [q \in Row |-> "held"]

Put(q, d) ==
    /\ log' = log \union {<<q, d>>}
    /\ UNCHANGED disposition

Apply(q, d) ==
    /\ disposition[q] = "held" /\ <<q, d>> \in log
    /\ disposition' = [disposition EXCEPT ![q] = d]
    /\ UNCHANGED log

Next == \E q \in Row, d \in Decision : Put(q, d) \/ Apply(q, d)

Spec == Init /\ [][Next]_<<log, disposition>>
=============================================================================
