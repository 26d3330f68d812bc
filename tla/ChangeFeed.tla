----------------------------- MODULE ChangeFeed -----------------------------
(***************************************************************************)
(* The change feed of the belief table and the Lambda that screens what it *)
(* delivers (infra/lambda/handler.py, contracts/cdc.py).  The feed has an  *)
(* entry for every version of a row and delivers it until an answer of     *)
(* the 2xx kind comes back: late, out of order, and more than once.  The   *)
(* entries that the handler skips whenever they come change nothing and    *)
(* are left out: what is left are the rows as they were inserted.          *)
(***************************************************************************)
EXTENDS BeliefStore

VARIABLES
    feed,      \* the beliefs whose entry has not been acknowledged
    reported   \* the beliefs that an answer has named among its errors

feedVars == <<feed, reported>>

FeedTypeOK == feed \subseteq Belief /\ reported \subseteq Belief

FeedInit == feed = {} /\ reported = {}

-----------------------------------------------------------------------------
\* The handler's filter, of the row that an entry carries.
Skips(s, hasScore) == s # "pending" \/ hasScore

\* The rows that this transaction inserts.
Emitted ==
    {b \in Belief : status[b] = "absent" /\ status'[b] # "absent"
                       /\ ~Skips(status'[b], scored'[b])}

\* A transaction of another component.
Emit == feed' = feed \union Emitted /\ UNCHANGED reported

\* The answer, 200 or 207, is an acknowledgement, if it arrives.
Answer(b) == feed' = feed \ {b} \/ feed' = feed

\* The gate screens, on a connection that commits when it is closed; a belief
\* that has a verdict keeps it.
ScreenEntry(b) ==
    /\ \/ \E v \in Verdict : Screen(b, v)
       \/ verdicts[b] # <<>> /\ UNCHANGED vars
    /\ Answer(b)
    /\ UNCHANGED reported

\* Variant of Fail that leaves the belief out of the answer.
MutantUnreported(b) == UNCHANGED <<vars, reported>> /\ Answer(b)

\* Whatever goes wrong with an entry, its transaction is rolled back and the
\* answer 207 names it.
Fail(b) ==
    /\ reported' = reported \union {b}
    /\ UNCHANGED vars
    /\ Answer(b)

Deliver(b) == b \in feed /\ (ScreenEntry(b) \/ Fail(b))

-----------------------------------------------------------------------------
\* A belief without a verdict is to be delivered, or has been reported.
NothingLost ==
    \A b \in Belief : status[b] # "absent" /\ verdicts[b] = <<>> =>
        b \in feed \union reported
=============================================================================
