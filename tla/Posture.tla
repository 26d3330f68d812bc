------------------------------ MODULE Posture -------------------------------
(***************************************************************************)
(* A18 (agents/integrity/a18_posture.py): the controls of the schema are   *)
(* read from the live database and compared with a baseline that was read  *)
(* the same way, and the result is written to the audit sink.              *)
(***************************************************************************)
EXTENDS AuditSink, FiniteSets

CONSTANTS Role, Fixture, Index, TTL   \* controls: Fixture the constraints and views

Control == Role \union Fixture \union Index \union TTL

VARIABLES
    live,       \* the controls that are there
    baseline,   \* the file, {"none"} before it is written
    required,   \* history: the controls that every baseline has had
    record,     \* what the cycle that has just run wrote to the audit sink
    raised      \* and what it raised

postureVars == <<live, baseline, required, record, raised>>

PostureTypeOK ==
    /\ live \subseteq Control
    /\ baseline = {"none"} \/ baseline \subseteq Control
    /\ required \subseteq Control
    /\ record \in {"none", "attested", "drift"}
    /\ raised \in {"nothing", "drift", "sink_error", "no_baseline"}

PostureInit ==
    /\ live = Control
    /\ baseline = {"none"} /\ required = Control
    /\ record = "none" /\ raised = "nothing"

Rest == record' = "none" /\ raised' = "nothing"

-----------------------------------------------------------------------------
\* Someone with the right to change the schema changes it.
Alter(c) ==
    /\ live' = IF c \in live THEN live \ {c} ELSE live \union {c}
    /\ Rest
    /\ UNCHANGED <<baseline, required>>

\* What a capture sees.  The TTL query may fail, which looks like no TTL.
Captures == {live, live \ TTL}

\* capture_and_save_baseline: what is there now becomes what is expected.
Capture ==
    /\ \E seen \in Captures : baseline' = seen /\ required' = required \intersect seen
    /\ Rest
    /\ UNCHANGED live

\* Missing controls, unexpected roles, and the vector index if none is left.
Drift(seen, expected) ==
    ((expected \ seen) \ (IF seen \intersect Index # {} THEN Index ELSE {}))
        \union ((seen \ expected) \intersect Role)

RecordOf(findings) == IF findings = {} THEN "attested" ELSE "drift"

\* run_verification_cycle: the record is written before anything is raised.
Verify ==
    /\ \/ /\ baseline = {"none"}
          /\ record' = "none" /\ raised' = "no_baseline"
       \/ /\ baseline # {"none"}
          /\ \E seen \in Captures, emission \in Emission :
                LET findings == Drift(seen, baseline)
                IN  /\ record' = IF Stored(emission) THEN RecordOf(findings) ELSE "none"
                    /\ raised' = CASE ~Returns(emission) -> "sink_error"
                                   [] Returns(emission) /\ findings = {} -> "nothing"
                                   [] Returns(emission) /\ findings # {} -> "drift"
    /\ UNCHANGED <<live, baseline, required>>

PostureNext == Capture \/ Verify \/ \E c \in Control : Alter(c)

-----------------------------------------------------------------------------
(***************************************************************************)
(* AttestedHolds: when the posture is attested, every control that all     *)
(* baselines have had is there, or a vector index next to the one that is  *)
(* missing.  (A baseline captured over a drifted schema, or while the TTL  *)
(* query fails, excuses the drift from then on.)  And a drift that is      *)
(* raised is on record.                                                    *)
(***************************************************************************)
AttestedHolds ==
    /\ record = "attested" =>
          \A c \in required \ live : c \in Index /\ live \intersect Index # {}
    /\ raised = "drift" => record = "drift"
=============================================================================
