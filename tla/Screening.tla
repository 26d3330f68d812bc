------------------------------ MODULE Screening ------------------------------
(***************************************************************************)
(* How a pending belief gets to the gate: the loop of BeliefPoller         *)
(* (integrity/poller.py), any number of them at once.                      *)
(*                                                                         *)
(* A poller keeps one connection, and psycopg opens a transaction on it    *)
(* with the first SELECT.  Only screening or failing to screen a row ends  *)
(* that transaction, so a poll that finds nothing leaves it open; being    *)
(* SERIALIZABLE, it goes on seeing the database of that moment.            *)
(***************************************************************************)
EXTENDS BeliefStore, FiniteSets

CONSTANTS Poller,      \* the polling processes
          BatchSize,   \* the LIMIT of their query
          Stuck,       \* the beliefs whose screening raises, whoever tries
          Unreliable,  \* whether connections may be lost
          NoView       \* a connection that is not in a transaction

ASSUME BatchSizeAssumption == BatchSize \in Nat \ {0}
ASSUME StuckAssumption     == Stuck \subseteq Belief
ASSUME UnreliableAssumption == Unreliable \in BOOLEAN

VARIABLES
    view,         \* what each poller's open transaction sees as unscreened
    batch,        \* the rows it has fetched and not yet tried
    connection    \* "open" or "lost"

pollVars      == <<view, batch, connection>>
screeningVars == <<vars, pollVars>>

ScreeningTypeOK ==
    /\ view \in [Poller -> (SUBSET Belief) \union {NoView}]
    /\ batch \in [Poller -> SUBSET Belief]
    /\ \A p \in Poller : Cardinality(batch[p]) <= BatchSize
    /\ connection \in [Poller -> {"open", "lost"}]

ScreeningInit ==
    /\ Init
    /\ view = [p \in Poller |-> NoView]
    /\ batch = [p \in Poller |-> {}]
    /\ connection = [p \in Poller |-> "open"]

-----------------------------------------------------------------------------
\* The gate as its callers use it: a stored verdict is returned as it is.
\* The variant screens again.
MutantSubmitAgain(b, v) ==
    /\ verdicts' = [verdicts EXCEPT ![b] = <<v>>]
    /\ UNCHANGED <<clock, status, fact, txTo, supersededBy, scored, screened,
                   quarantine, contradictions>>

Submit(b, v) ==
    \/ Screen(b, v)
    \/ verdicts[b] # <<>> /\ UNCHANGED vars

Unscreened == {b \in Belief : status[b] = "pending" /\ ~screened[b]}

\* Variant of Oldest that sorts the other way round.
MutantNewest(rows) ==
    {b \in rows :
        Cardinality({x \in rows : fact[x].txFrom > fact[b].txFrom}) < BatchSize}

\* ORDER BY tx_from LIMIT BatchSize.
Oldest(rows) ==
    {b \in rows :
        Cardinality({x \in rows : fact[x].txFrom < fact[b].txFrom}) < BatchSize}

\* The query of poll_once, on the database as the poller's transaction sees it.
Fetch(p) ==
    /\ connection[p] = "open" /\ batch[p] = {}
    /\ LET rows == IF view[p] = NoView THEN Unscreened ELSE view[p]
       IN  /\ view' = [view EXCEPT ![p] = rows]
           /\ batch' = [batch EXCEPT ![p] = Oldest(rows)]
    /\ UNCHANGED <<vars, connection>>

NextRow(p, b) ==
    /\ b \in batch[p]
    /\ \A x \in batch[p] : fact[b].txFrom <= fact[x].txFrom

\* Commit and rollback both end the transaction.
RowDone(p, b) ==
    /\ view' = [view EXCEPT ![p] = NoView]
    /\ batch' = [batch EXCEPT ![p] = @ \ {b}]
    /\ UNCHANGED connection

ScreenRow(p, b) ==
    /\ NextRow(p, b) /\ b \notin Stuck
    /\ \E v \in Verdict : Submit(b, v)
    /\ RowDone(p, b)

\* Variant of SkipRow that gives up the rest of the batch.
MutantBreak(p, b) ==
    /\ NextRow(p, b)
    /\ view' = [view EXCEPT ![p] = NoView]
    /\ batch' = [batch EXCEPT ![p] = {}]
    /\ UNCHANGED <<vars, connection>>

\* Any error rolls back, is logged, and the loop goes on with the next row.
SkipRow(p, b) ==
    /\ NextRow(p, b)
    /\ UNCHANGED vars
    /\ RowDone(p, b)

\* The rollback fails too, which ends the batch; run() never reconnects.
LoseConnection(p) ==
    /\ Unreliable
    /\ connection[p] = "open"
    /\ connection' = [connection EXCEPT ![p] = "lost"]
    /\ view' = [view EXCEPT ![p] = NoView]
    /\ batch' = [batch EXCEPT ![p] = {}]
    /\ UNCHANGED vars

-----------------------------------------------------------------------------
\* Writers and reviewers.  A correction is one more pending belief here, so
\* Ingest stands for both.
Others ==
    /\ \E b \in Belief : Ingest(b) \/ Review(b)
    /\ UNCHANGED pollVars

Row(p) == \E b \in Belief : ScreenRow(p, b) \/ SkipRow(p, b)

ScreeningNext ==
    \/ Others
    \/ \E p \in Poller : Fetch(p) \/ Row(p) \/ LoseConnection(p)

ScreeningSafety == ScreeningInit /\ [][ScreeningNext]_screeningVars

(***************************************************************************)
(* A poller's thread keeps polling and works through its batch; a row that *)
(* is tried again and again is not refused every time, unless it is stuck. *)
(***************************************************************************)
ScreeningSpec ==
    /\ ScreeningSafety
    /\ \A p \in Poller :
          /\ WF_screeningVars(Fetch(p)) /\ WF_screeningVars(Row(p))
          /\ \A b \in Belief : SF_screeningVars(ScreenRow(p, b))

-----------------------------------------------------------------------------
(***************************************************************************)
(* However many pollers fetch the same rows, and however late they submit  *)
(* them, the store sees one screening of each belief.                      *)
(***************************************************************************)
ImplementsStore == Spec

(***************************************************************************)
(* poll_once "selects the oldest unscreened pending beliefs": those of the *)
(* database as it is, although the query reads the snapshot of a           *)
(* transaction that may be old.  A poller that fetches a row holds all the *)
(* rows older than it that wait at that moment, so nobody is overtaken.    *)
(***************************************************************************)
Older(x, b) == fact[x].txFrom < fact[b].txFrom

OldestFirst ==
    [][\A p \in Poller : \A b \in batch'[p] \ batch[p], x \in Unscreened :
           Older(x, b) => x \in batch'[p]]_screeningVars

(***************************************************************************)
(* One failure does not block the rest of the batch: a row that a poller   *)
(* has fetched is screened in the end, whichever rows before it fail each  *)
(* time they are tried.                                                    *)
(***************************************************************************)
FetchedIsScreened ==
    \A p \in Poller : \A b \in Belief \ Stuck :
        b \in batch[p] ~> verdicts[b] # <<>> \/ connection[p] = "lost"

-----------------------------------------------------------------------------
(***************************************************************************)
(* integrity/poller.py:3: the poller "guarantees screening within the poll *)
(* interval".  Refuted by the idle poll whose transaction stays open: what *)
(* is written after it is never seen.                                      *)
(***************************************************************************)
PollerScreens ==
    \A b \in Belief : status[b] = "pending" ~> verdicts[b] # <<>>
=============================================================================
