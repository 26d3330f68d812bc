--------------------------- MODULE Reconstruction ---------------------------
(***************************************************************************)
(* A10: the questions an auditor asks about the past of the store          *)
(* (audit/engine.py).  Mechanism 1 reads tx_from and tx_to of the rows     *)
(* that are there now; mechanism 2 reads the rows as they were.  The       *)
(* history variable past keeps the latter: the store at the end of each    *)
(* transaction of resolve, oldest first.                                   *)
(***************************************************************************)
EXTENDS Consolidation

CONSTANTS Window,    \* how long the database keeps old versions of rows
          Day,       \* the age below which mechanism 2 is tried first
          Raised    \* the answer of a query that raises

ASSUME WindowAssumption == Window \in Nat /\ Day \in Nat

VARIABLE past

auditVars == <<upkeepVars, past>>

Rows == {b \in Belief : status[b] # "absent"}

\* What mechanism 2 can see of the rows as they are now.
Version == [rows |-> Rows, open |-> {b \in Rows : txTo[b] = 0}]

AuditInit ==
    /\ UpkeepInit
    /\ past = [t \in 1..clock |-> LET rows == {Old[n] : n \in 1..t}
                                  IN  [rows |-> rows, open |-> rows]]

Remember == past' = IF clock' = clock THEN past ELSE Append(past, Version')

AuditNext == UpkeepNext /\ Remember

AuditSpec == AuditInit /\ [][AuditNext]_auditVars

-----------------------------------------------------------------------------
\* Variant that keeps a row one tick after it was closed.
MutantInclusive(t) ==
    {b \in Rows : fact[b].txFrom <= t /\ (txTo[b] = 0 \/ txTo[b] >= t)}

Bitemporal(t) ==
    {b \in Rows : fact[b].txFrom <= t /\ (txTo[b] = 0 \/ txTo[b] > t)}

\* AS OF SYSTEM TIME: every row of that time, open or closed, unless the
\* database has collected the versions.
MVCC(t) == IF clock - t <= Window THEN past[t].rows ELSE Raised

\* The mechanism is chosen by the age of t.  When mechanism 2 has failed,
\* mechanism 1 is tried on the same connection, whose transaction the failure
\* has aborted unless it is in autocommit mode.
Automatic(t, autocommit) ==
    CASE clock - t >= Day                            -> Bitemporal(t)
      [] clock - t < Day /\ MVCC(t) # Raised        -> MVCC(t)
      [] clock - t < Day /\ MVCC(t) = Raised        ->
            IF autocommit THEN Bitemporal(t) ELSE Raised

Added(t1, t2)   == Bitemporal(t2) \ Bitemporal(t1)
Removed(t1, t2) == Bitemporal(t1) \ Bitemporal(t2)

-----------------------------------------------------------------------------
(***************************************************************************)
(* PastReconstructed: for every time, mechanism 1 finds in today's rows    *)
(* exactly those that were open then, whatever has been contradicted,      *)
(* merged, screened or decided since.                                      *)
(***************************************************************************)
PastReconstructed ==
    \A t \in 1..clock : Bitemporal(t) = past[t].open

(***************************************************************************)
(* DiffBalances: between two times a fact loses no more rows than it gains *)
(* and only because the transaction that opened a gained row, or one since *)
(* closed in its turn, closed it.  Merges close nothing, so no diff ever   *)
(* shows what A8 has done.                                                 *)
(***************************************************************************)
DiffBalances ==
    \A t1, t2 \in 0..clock : t1 < t2 =>
        LET added   == Added(t1, t2)
            removed == Removed(t1, t2)
        IN  /\ \A k \in Key : Cardinality({b \in removed : fact[b].key = k})
                                <= Cardinality({b \in added : fact[b].key = k})
            /\ \A l \in removed : /\ fact[supersededBy[l]].txFrom \in (t1 + 1)..t2
                                  /\ ~Merged(l)

(***************************************************************************)
(* AutomaticCovers: whichever mechanism the age of the question selects,   *)
(* an answer has every row that was open at that time, and no row that was *)
(* not there; a query that cannot have them raises.  (Mechanism 2 answers  *)
(* with the rows that were closed by then as well, mechanism 1 does not.)  *)
(***************************************************************************)
AutomaticCovers ==
    \A t \in 1..clock, autocommit \in BOOLEAN :
        LET answer == Automatic(t, autocommit)
        IN  \/ answer = Raised /\ ~autocommit
            \/ past[t].open \subseteq answer /\ answer \subseteq past[t].rows

(***************************************************************************)
(* AnswersTrue: neither a diff nor an automatic choice of mechanism ever   *)
(* misses a row that was open or shows one that was not there.             *)
(***************************************************************************)
AnswersTrue == DiffBalances /\ AutomaticCovers
=============================================================================
