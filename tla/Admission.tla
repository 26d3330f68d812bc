----------------------------- MODULE Admission ------------------------------
(***************************************************************************)
(* A13 in front of A1: the calls of ingest that one agent makes from       *)
(* several processes, each on a connection of its own                      *)
(* (agents/producer/a13_admission.py, agents/producer/ingest.py).          *)
(*                                                                         *)
(* The connections are transactional: the first query of a call opens a    *)
(* SERIALIZABLE transaction, in which every later query sees the same      *)
(* rows and the same NOW(), until something commits or rolls back.  A call *)
(* is admitted once and then writes up to max_beliefs beliefs; a write     *)
(* that is tried again does not ask again.                                 *)
(***************************************************************************)
EXTENDS BeliefStore, FiniteSetsExt

CONSTANTS Writer,      \* the processes of the agent
          MaxBeliefs,  \* max_beliefs of their calls
          Quota,       \* beliefs per agent and hour
          Throttle     \* pending beliefs of the tenant

ASSUME AdmissionAssumption ==
    /\ IsFiniteSet(Writer) /\ MaxBeliefs \in [Writer -> Nat]
    /\ Quota \in Nat \ {0} /\ Throttle \in Nat \ {0}

VARIABLES
    recent,       \* the rows of the agent whose tx_from is within the hour
    at,           \* where each call is
    transaction,  \* of each connection: "none", "open" or "aborted"
    seen,         \* the counts its open transaction sees
    left          \* candidates that the call has still to write

callVars == <<recent, at, transaction, seen, left>>

Counts == [writes : Nat, pending : Nat]

Pending == {b \in Belief : status[b] = "pending"}

Now == [writes |-> Cardinality(recent), pending |-> Cardinality(Pending)]

Unseen == [writes |-> 0, pending |-> 0]

AdmissionInit ==
    /\ recent = {}
    /\ at = [w \in Writer |-> "idle"]
    /\ transaction = [w \in Writer |-> "none"]
    /\ seen = [w \in Writer |-> Unseen]
    /\ left = [w \in Writer |-> 0]

-----------------------------------------------------------------------------
\* reject takes priority over throttle.
Decide(writes, pending) ==
    CASE writes >= Quota                       -> "reject"
      [] writes < Quota /\ pending >= Throttle -> "throttle"
      [] writes < Quota /\ pending < Throttle  -> "admit"

\* What a query of connection w sees.
View(w) == IF transaction[w] = "open" THEN seen[w] ELSE Now

\* Where the transaction of connection w stands after a step.
Leaves(w, state) ==
    /\ transaction' = [transaction EXCEPT ![w] = state]
    /\ seen' = [seen EXCEPT ![w] = IF state = "open" THEN View(w) ELSE Unseen]

Decided(w, decision) ==
    /\ at' = [at EXCEPT ![w] = IF decision = "admit" THEN "admitted" ELSE "idle"]
    /\ UNCHANGED <<recent, left>>

\* Both counts are there.
Measure(w) ==
    /\ transaction[w] # "aborted"
    /\ Leaves(w, "open")
    /\ Decided(w, Decide(View(w).writes, View(w).pending))

\* The first query fails, always so in an aborted transaction: throttle.
QuotaUnknown(w) == Leaves(w, "aborted") /\ Decided(w, "throttle")

\* Variant of DepthUnknown on a connection in autocommit mode.
MutantAutocommit(w) ==
    /\ transaction[w] # "aborted"
    /\ Leaves(w, "open")
    /\ Decided(w, Decide(View(w).writes, 0))

\* The second query fails: the depth counts as 0, but the transaction is lost.
DepthUnknown(w) ==
    /\ transaction[w] # "aborted"
    /\ Leaves(w, "aborted")
    /\ Decided(w, Decide(View(w).writes, 0))

\* A call that is not admitted raises, and leaves its transaction as it is.
Enforce(w) == at[w] = "idle" /\ (Measure(w) \/ QuotaUnknown(w) \/ DepthUnknown(w))

\* The agent is looked up, on the same connection: the lookup may fail, and the
\* agent may not be active.
Dismiss(w) ==
    /\ at[w] = "admitted"
    /\ at' = [at EXCEPT ![w] = "idle"]
    /\ Leaves(w, "aborted") \/ (transaction[w] = "open" /\ Leaves(w, "open"))
    /\ UNCHANGED <<recent, left>>

\* What the language model finds in the text; an answer that cannot be had or
\* read is none.
Candidates(w) == 0..MaxBeliefs[w]

\* If there are no candidates the call returns and its transaction stays open.
Extract(w) ==
    /\ at[w] = "admitted" /\ transaction[w] = "open"
    /\ \E n \in Candidates(w) :
          /\ left' = [left EXCEPT ![w] = n]
          /\ at' = [at EXCEPT ![w] = IF n = 0 THEN "idle" ELSE "writing"]
    /\ UNCHANGED <<recent, transaction, seen>>

NextCandidate(w) ==
    /\ at[w] = "writing"
    /\ left' = [left EXCEPT ![w] = @ - 1]
    /\ at' = [at EXCEPT ![w] = IF left[w] = 1 THEN "idle" ELSE "writing"]

\* A candidate is written, in the transaction that is open or, after a retry and
\* for every further candidate, in one of its own.
Write(w, b) ==
    /\ NextCandidate(w) /\ transaction[w] # "aborted"
    /\ Ingest(b)
    /\ recent' = recent \union {b}
    /\ Leaves(w, "none")

\* A candidate fails: in canonicalize, whose error leaves the transaction
\* aborted; in embed, which leaves it open; or in the last retry.
WriteFails(w) ==
    /\ NextCandidate(w)
    /\ Leaves(w, "aborted") \/ (transaction[w] # "aborted"
                                 /\ (Leaves(w, "open") \/ Leaves(w, "none")))
    /\ UNCHANGED recent

\* The process that called rolls back, or takes another connection.
Rollback(w) ==
    /\ at[w] = "idle" /\ transaction[w] # "none"
    /\ Leaves(w, "none")
    /\ UNCHANGED <<recent, at, left>>

\* The oldest row leaves the window.
HourPasses ==
    /\ \E b \in recent :
          /\ \A c \in recent : fact[b].txFrom <= fact[c].txFrom
          /\ recent' = recent \ {b}
    /\ UNCHANGED <<at, transaction, seen, left>>

\* The steps of the calls that leave the store alone, and those that do not.
CallStep(w) == Enforce(w) \/ Dismiss(w) \/ Extract(w) \/ WriteFails(w) \/ Rollback(w)

AdmissionTypeOK ==
    /\ recent \subseteq Belief
    /\ at \in [Writer -> {"idle", "admitted", "writing"}]
    /\ transaction \in [Writer -> {"none", "open", "aborted"}]
    /\ seen \in [Writer -> Counts]
    /\ left \in [Writer -> Nat]
    /\ \A w \in Writer : left[w] \in 0..MaxBeliefs[w] /\ (left[w] > 0 <=> at[w] = "writing")

-----------------------------------------------------------------------------
\* The writes that one call of each process makes at most, and their number.
Slots == UNION {{w} \X (1..MaxBeliefs[w]) : w \in Writer}

Allowance == Cardinality(Slots)

(***************************************************************************)
(* QuotaOvershoot: however its calls interleave, and however old the       *)
(* counts they are admitted on, an agent has written fewer beliefs in the  *)
(* last hour than its quota and one call of each process together.  (The   *)
(* quota itself is not kept: it is checked once per call, in another       *)
(* transaction than most of the writes.)                                   *)
(***************************************************************************)
QuotaOvershoot == Cardinality(recent) < Quota + Allowance
=============================================================================
