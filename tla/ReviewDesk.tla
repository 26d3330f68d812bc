----------------------------- MODULE ReviewDesk -----------------------------
(***************************************************************************)
(* A14 in detail (agents/integrity/a14_review.py): the decisions of        *)
(* several reviewers, each in a transaction of its own.  The row is read   *)
(* and must be held, the row and its belief are updated, the decision is   *)
(* written to the audit sink, and the caller commits.  What the            *)
(* transaction has updated takes effect with the commit alone.             *)
(*                                                                         *)
(* BeliefStore has all this as one action, and there the belief follows    *)
(* its row (ReviewQueueExact); here it is left out.                        *)
(***************************************************************************)
EXTENDS AuditSink, FiniteSets

CONSTANTS Reviewer, Row

VARIABLES
    disposition,  \* of the rows of the quarantine table
    log,          \* the decisions in the audit sink
    desk,         \* the transaction of each reviewer
    lost          \* history: the decisions of transactions that failed

deskVars == <<disposition, log, desk, lost>>

Decision == {"released", "rejected"}
Idle     == [at |-> "idle"]
Desk     == {Idle} \union [at : {"updated", "audited"}, row : Row, decision : Decision,
                           read : Decision \union {"held"}]

DeskTypeOK ==
    /\ disposition \in [Row -> Decision \union {"held"}]
    /\ log \subseteq Row \X Decision /\ lost \subseteq Row \X Decision
    /\ desk \in [Reviewer -> Desk]

DeskInit ==
    /\ disposition = [q \in Row |-> "held"]
    /\ log = {} /\ lost = {}
    /\ desk = [r \in Reviewer |-> Idle]

-----------------------------------------------------------------------------
\* Variant of MayDecide that does not look at the disposition.
MutantUnchecked(q) == TRUE

MayDecide(q) == disposition[q] = "held"

\* Fetch the row and update it and its belief.
Decide(r, q, d) ==
    /\ desk[r] = Idle /\ MayDecide(q)
    /\ desk' = [desk EXCEPT ![r] = [at |-> "updated", row |-> q, decision |-> d,
                                    read |-> disposition[q]]]
    /\ UNCHANGED <<disposition, log, lost>>

Decided(r) == <<desk[r].row, desk[r].decision>>

\* emit_or_block: the transaction of a decision that may not be on record is
\* rolled back.
Audit(r) ==
    /\ desk[r].at = "updated"
    /\ \E emission \in Emission :
          /\ log' = IF Stored(emission) THEN log \union {Decided(r)} ELSE log
          /\ IF Returns(emission)
             THEN desk' = [desk EXCEPT ![r].at = "audited"] /\ UNCHANGED lost
             ELSE /\ desk' = [desk EXCEPT ![r] = Idle]
                  /\ lost' = lost \union {Decided(r)}
    /\ UNCHANGED disposition

\* Variant of Serializable: what was read may have changed since.
MutantReadCommitted(r) == TRUE

Serializable(r) == disposition[desk[r].row] = desk[r].read

Commit(r) ==
    /\ desk[r].at = "audited" /\ Serializable(r)
    /\ disposition' = [disposition EXCEPT ![desk[r].row] = desk[r].decision]
    /\ desk' = [desk EXCEPT ![r] = Idle]
    /\ UNCHANGED <<log, lost>>

\* The commit is refused, the connection is lost, or the process ends.
Abandon(r) ==
    /\ desk[r] # Idle
    /\ lost' = lost \union {Decided(r)}
    /\ desk' = [desk EXCEPT ![r] = Idle]
    /\ UNCHANGED <<disposition, log>>

DeskNext ==
    \E r \in Reviewer :
        \/ \E q \in Row, d \in Decision : Decide(r, q, d)
        \/ Audit(r) \/ Commit(r) \/ Abandon(r)

-----------------------------------------------------------------------------
(***************************************************************************)
(* No decision takes effect that is not on record, and none takes effect   *)
(* on a row where another one did, whatever the reviewers do at the same   *)
(* time, whatever fails, and wherever a process ends.                      *)
(***************************************************************************)
Log == INSTANCE DecisionLog

ImplementsLog == Log!Spec

(***************************************************************************)
(* LogAccounted: a decision on record took effect, is about to, or belongs *)
(* to a transaction that failed.  (So the record alone does not tell: the  *)
(* code emits first and commits afterwards, and nothing is written when    *)
(* the commit fails.)                                                      *)
(***************************************************************************)
LogAccounted ==
    \A q \in Row, d \in Decision : <<q, d>> \in log =>
        \/ disposition[q] = d
        \/ <<q, d>> \in lost
        \/ \E r \in Reviewer : desk[r].at = "audited" /\ Decided(r) = <<q, d>>
=============================================================================
