----------------------------- MODULE DriftWatch -----------------------------
(***************************************************************************)
(* A5 and its scheduler (agents/integrity/a5_drift.py and                  *)
(* agents/integrity/drift_scheduler.py): detectors over the population of  *)
(* beliefs of each tenant, in rounds over all tenants that share one       *)
(* connection.                                                             *)
(***************************************************************************)
EXTENDS AuditSink, Integers, Sequences, FiniteSets, SequencesExt

CONSTANTS Tenants,       \* the sequence of tenant_ids
          Amount,        \* how many rows a detector may find
          Window, Baseline,   \* hours of D2
          BurstSize,     \* D2 and D4: writes that are few
          MinContradictions, MinCluster   \* thresholds of D1 and D3

ASSUME DriftAssumption ==
    /\ Len(Tenants) \in Nat \ {0}
    /\ Amount \subseteq Nat /\ IsFiniteSet(Amount)
    /\ Window \in Nat \ {0} /\ Baseline \in Nat \ {0} /\ BurstSize \in Nat
    /\ MinContradictions \in Nat /\ MinCluster \in Nat

VARIABLES
    loop,        \* "scan", "emit", "sleep" or "stopped"
    connection,  \* "usable" or "aborted"
    turn,        \* the position in Tenants of the next scan
    alerts,      \* what the scan has found and not yet emitted
    count,       \* how many it has found
    results,     \* of the round: alert counts, -1 for a failed scan
    evidence,    \* history: the alerts of the last scan in the audit sink
    stop         \* the stop event

driftVars == <<loop, connection, turn, alerts, count, results, evidence, stop>>

-----------------------------------------------------------------------------
(***************************************************************************)
(* The detectors.  An agent's writes by age: in the last two hours, in the *)
(* rest of the last day, in the rest of the week, and before.              *)
(***************************************************************************)
History == [burst : Amount, day : Amount, week : Amount, older : Amount]

Alert == [detector : {"D1", "D2", "D3", "D4"}, severity : {"medium", "high"}]

Graded(detector, n, threshold, high) ==
    IF n < threshold THEN {}
    ELSE {[detector |-> detector, severity |-> IF n >= high THEN "high" ELSE "medium"]}

ContradictionBurst(n) == Graded("D1", n, MinContradictions, 2 * MinContradictions)
OriginCluster(n)      == Graded("D3", n, MinCluster, 3 * MinCluster)

InBaseline(h) == h.burst + h.day + h.week

\* Rates are compared as products, which is what the quotients amount to.
WriteShift(h) ==
    LET recent == h.burst + h.day
        before == InBaseline(h)
    IN  IF /\ before > 0 /\ recent >= BurstSize
           /\ recent * Baseline > 3 * before * Window
        THEN {[detector |-> "D2",
               severity |-> IF recent * Baseline >= 10 * before * Window
                            THEN "high" ELSE "medium"]}
        ELSE {}

\* The last write before the dormant days, which is all the query looks at, is
\* always before them.
Sleeper(h) ==
    IF h.burst >= BurstSize THEN {[detector |-> "D4", severity |-> "high"]} ELSE {}

Findings ==
    {ContradictionBurst(n) \union OriginCluster(m) \union WriteShift(h) \union Sleeper(h) :
        n \in Amount, m \in Amount, h \in History}

-----------------------------------------------------------------------------
Turns == 1..Len(Tenants)

DriftTypeOK ==
    /\ loop \in {"scan", "emit", "sleep", "stopped"}
    /\ connection \in {"usable", "aborted"}
    /\ turn \in 1..(Len(Tenants) + 1)
    /\ alerts \subseteq Alert /\ count \in Nat
    /\ results \in [Turns -> Int]
    /\ evidence \subseteq Alert
    /\ stop \in BOOLEAN

DriftInit ==
    /\ loop = "scan" /\ connection = "usable" /\ turn = 1
    /\ alerts = {} /\ count = 0
    /\ results = [t \in Turns |-> 0]
    /\ evidence = {}
    /\ stop = FALSE

NextTurn ==
    /\ turn' = turn + 1
    /\ loop' = IF turn = Len(Tenants) THEN "sleep" ELSE "scan"
    /\ alerts' = {} /\ count' = 0

\* Variant of Failed that tries the tenant again.
MutantAgain ==
    /\ loop' = "scan" /\ alerts' = {} /\ count' = 0
    /\ UNCHANGED <<turn, results>>

\* The sentinel for an error; the round goes on.
Failed == NextTurn /\ results' = [results EXCEPT ![turn] = -1]

\* The detectors run before anything is emitted.  Nobody ends the transaction, so
\* later scans may read an old state of the tables: what they find is left open.
Scan ==
    /\ loop = "scan" /\ connection = "usable"
    /\ \E found \in Findings :
          IF found = {}
          THEN NextTurn /\ results' = [results EXCEPT ![turn] = 0]
          ELSE /\ loop' = "emit" /\ alerts' = found /\ count' = Cardinality(found)
               /\ UNCHANGED <<turn, results>>
    /\ evidence' = {}
    /\ UNCHANGED <<connection, stop>>

\* A query fails, and so does every one after it, because nobody rolls back;
\* any other error leaves the connection as it is.
ScanFails ==
    /\ loop = "scan" /\ Failed
    /\ connection' \in {connection, "aborted"}
    /\ evidence' = {}
    /\ UNCHANGED stop

\* Variant of Blocked: the alert is logged and the scan goes on.
MutantSkip(a) ==
    /\ alerts' = alerts \ {a}
    /\ IF alerts = {a}
       THEN /\ turn' = turn + 1 /\ count' = 0
            /\ loop' = IF turn = Len(Tenants) THEN "sleep" ELSE "scan"
            /\ results' = [results EXCEPT ![turn] = count]
       ELSE UNCHANGED <<turn, loop, count, results>>

\* AuditSinkError ends the scan, whatever it has emitted.
Blocked(a) == Failed

Emitted1(a) ==
    IF alerts = {a}
    THEN NextTurn /\ results' = [results EXCEPT ![turn] = count]
    ELSE alerts' = alerts \ {a} /\ UNCHANGED <<turn, loop, count, results>>

Emit1(a) ==
    /\ loop = "emit" /\ a \in alerts
    /\ \E emission \in Emission :
          /\ evidence' = IF Stored(emission) THEN evidence \union {a} ELSE evidence
          /\ IF Returns(emission) THEN Emitted1(a) ELSE Blocked(a)
    /\ UNCHANGED <<connection, stop>>

\* The interval passes.
Sleep ==
    /\ loop = "sleep" /\ ~stop
    /\ loop' = "scan" /\ turn' = 1
    /\ UNCHANGED <<connection, alerts, count, results, evidence, stop>>

RequestStop ==
    /\ ~stop /\ stop' = TRUE
    /\ UNCHANGED <<loop, connection, turn, alerts, count, results, evidence>>

\* The event is looked at before each round and while the loop sleeps.
Stop ==
    /\ stop /\ \/ loop = "sleep"
               \/ loop = "scan" /\ turn = 1
    /\ loop' = "stopped"
    /\ UNCHANGED <<connection, turn, alerts, count, results, evidence, stop>>

Round == Scan \/ ScanFails \/ (\E a \in Alert : Emit1(a)) \/ Stop

DriftNext == Round \/ Sleep \/ RequestStop

-----------------------------------------------------------------------------
(***************************************************************************)
(* CountedIsEvident: a scan that reports how many alerts it has found has  *)
(* each of them in the audit sink.                                         *)
(***************************************************************************)
CountedIsEvident ==
    loop # "emit" /\ turn > 1 /\ results[turn - 1] >= 0 =>
        Cardinality(evidence) = results[turn - 1]

(***************************************************************************)
(* NoFalseCalm: after a query of one tenant has failed, the tenants that   *)
(* share the connection are not scanned any more, in this round or in any  *)
(* later one; but each of them is reported as failed, never as calm.       *)
(***************************************************************************)
NoFalseCalm ==
    connection = "aborted" =>
        loop # "emit" /\ (turn > 1 => results[turn - 1] = -1)

(***************************************************************************)
(* ShiftNeverHigh: a shift of an agent's writes is never of high severity, *)
(* which starts at ten times the usual rate: the window is a part of the   *)
(* baseline, so its rate is at most Baseline \div Window times that, seven *)
(* times in the code.                                                      *)
(***************************************************************************)
ShiftNeverHigh == \A a \in alerts : a.detector = "D2" => a.severity = "medium"
=============================================================================
