------------------------------- MODULE Recall -------------------------------
(***************************************************************************)
(* A9: what a consumer retrieves (recall/engine.py, agents/consumer/       *)
(* a9_recall.py), and the log of it.  The Nearest rows of the vector index *)
(* are taken first, whatever their status; the view of the trusted current *)
(* beliefs, the filters of the request and its limit are applied to these. *)
(***************************************************************************)
EXTENDS Inference

CONSTANTS Limit,        \* request.limit
          Nearest,      \* ten times that in the code
          MaxRecalls

ASSUME RecallAssumption ==
    Limit \in Nat /\ Nearest \in Nat /\ Limit <= Nearest /\ MaxRecalls \in Nat

VARIABLES
    recalls,     \* number of recalls so far
    session,     \* the consumer's connection: "usable" or "aborted"
    answer,      \* what the last recall returned
    crowd,       \* history: how many rows it considered that cannot be answers
    missed,      \* history: whether there are answers in the index that it did not return
    unlogged,    \* history: answers of the connection that are not in the log
    refused      \* history: its commits that were refused

recallVars == <<recalls, session, answer, crowd, missed, unlogged, refused>>

RecallTypeOK ==
    /\ recalls \in 0..MaxRecalls /\ session \in {"usable", "aborted"}
    /\ answer \subseteq Belief /\ crowd \in Nat /\ missed \in BOOLEAN
    /\ unlogged \in Nat /\ refused \in Nat

RecallInit ==
    /\ recalls = 0 /\ session = "usable"
    /\ answer = {} /\ crowd = 0 /\ missed = FALSE /\ unlogged = 0 /\ refused = 0

-----------------------------------------------------------------------------
\* Variant that takes the rows from the table itself.
MutantNoView(rows, wanted) == rows \intersect wanted

\* What the WHERE clause leaves of rows: those of the view that pass the filters
\* on valid_from, tx_from and trust_score.
Visible(rows, wanted) == rows \intersect TrustedCurrent \intersect wanted

\* The ordering by distance is open, so any rows may be the nearest ones.
UpTo(rows, n) == IF Cardinality(rows) <= n THEN {rows} ELSE kSubset(n, rows)

Written == {b \in Belief : status[b] # "absent"}

\* The index that phase 1 is forced through has the rows with an embedding.  A7
\* inserts one with every row; A2 inserts none, and nobody adds it later.
Indexed == {b \in Written : derivedFrom[b] = {}}

\* Variant of Considered without the oversampling.
MutantConsidered == UpTo(Indexed, Limit)

Considered == UpTo(Indexed, Nearest)

\* The rows that the filters of a request let through: what is known and valid
\* at some time and of at least some score may be any of them.
Filters == SUBSET Written

\* An aborted transaction refuses the SELECT, and the call raises.
Search ==
    /\ session = "usable" /\ recalls < MaxRecalls
    /\ recalls' = recalls + 1
    /\ \E considered \in Considered, wanted \in Filters :
          /\ answer' \in UpTo(Visible(considered, wanted), Limit)
          /\ crowd' = Cardinality(considered \ Visible(considered, wanted))
          /\ missed' = (Visible(Indexed, wanted) \ answer' # {})

\* Any other error of the SELECT raises as well, and aborts the transaction.
SearchFails ==
    /\ session = "usable" /\ session' = "aborted"
    /\ UNCHANGED <<recalls, answer, crowd, missed, unlogged, refused>>

\* The provenance of the rows is selected for nothing, the log row inserted and
\* committed.
Logged == session' = "usable" /\ UNCHANGED <<unlogged, refused>>

\* A serialization failure of the COMMIT ends the transaction; the caller has
\* its answer, and the connection can be used again.
CommitRefused ==
    session' = "usable" /\ unlogged' = unlogged + 1 /\ refused' = refused + 1

\* Variant of NotLogged that rolls back and lets the connection be used again.
MutantRollback ==
    session' = "usable" /\ unlogged' = unlogged + 1 /\ UNCHANGED refused

\* One of the two statements fails: nothing is logged and nobody rolls back.
NotLogged ==
    session' = "aborted" /\ unlogged' = unlogged + 1 /\ UNCHANGED refused

Recall == Search /\ (Logged \/ CommitRefused \/ NotLogged)

\* The caller closes the connection and takes another one.
Reconnect ==
    /\ session = "aborted"
    /\ session' = "usable" /\ unlogged' = 0 /\ refused' = 0
    /\ UNCHANGED <<recalls, answer, crowd, missed>>

RecallNext ==
    (Recall \/ SearchFails \/ Reconnect) /\ UNCHANGED <<vars, inferenceVars>>

-----------------------------------------------------------------------------
(***************************************************************************)
(* InfluencersAdmitted: whatever a consumer is given has passed the gate   *)
(* or a reviewer, although what is considered first is of any status.      *)
(***************************************************************************)
InfluencersAdmitted == \A b \in answer : Admitted(b) /\ ~Refused(b)

(***************************************************************************)
(* CrowdedOut: a trusted belief that a request asks for and a short answer *)
(* misses was derived by A2, and then no request ever returns it, since it *)
(* is not in the index; or it was crowded out: more than Nearest - Limit   *)
(* rows of the index that can not be answers, not trusted or filtered out, *)
(* were nearer.                                                            *)
(***************************************************************************)
CrowdedOut ==
    [][recalls' # recalls =>
          /\ \A b \in answer' : derivedFrom[b] = {}
          /\ Cardinality(answer') < Limit /\ missed' => crowd' > Nearest - Limit
      ]_<<vars, inferenceVars, recallVars>>

(***************************************************************************)
(* OneUnlogged: apart from refused commits, a connection gives at most one *)
(* answer that is not in the retrieval log, and its last: the failure that *)
(* loses the row leaves a transaction in which the next search fails.      *)
(***************************************************************************)
OneUnlogged ==
    unlogged <= refused + (IF session = "aborted" THEN 1 ELSE 0)
=============================================================================
