----------------------------- MODULE WriteRetry ------------------------------
(***************************************************************************)
(* The write path as it runs: calls of ingest and correct, each with its   *)
(* own connection, that read the incumbent, decide, and commit, while the  *)
(* database refuses transactions whose reads have gone stale and the retry *)
(* wrapper (substrate/retry.py) starts them again from the read.  The gate *)
(* and the reviewers work on the same tables in between.                   *)
(*                                                                         *)
(* BeliefStore has the same transactions as atomic steps.  That they may   *)
(* be seen so is what this module shows: ImplementsStore.                  *)
(***************************************************************************)
EXTENDS BeliefStore

CONSTANTS Writer,       \* the calls under way
          Corrector,    \* those of them that are calls of correct
          Batch,        \* Batch[w]: the belief_ids w is to write, in order
          MaxAttempts   \* max_attempts of with_serializable_retry

ASSUME CorrectorAssumption   == Corrector \subseteq Writer
ASSUME MaxAttemptsAssumption == MaxAttempts \in Nat \ {0}

\* belief_ids are fresh (uuid4), and a correction writes one belief.
ASSUME BatchAssumption ==
    /\ Batch \in [Writer -> Seq(Belief)]
    /\ \A v, w \in Writer : \A m \in 1..Len(Batch[v]), n \in 1..Len(Batch[w]) :
          Batch[v][m] = Batch[w][n] => v = w /\ m = n
    /\ \A w \in Corrector : Len(Batch[w]) = 1

VARIABLES
    phase,        \* where each call is in its loop
    request,      \* the candidate it is writing: key and claim
    attempt,      \* the attempts at it that have failed
    seen,         \* the incumbents that the current attempt has read
    answers,      \* what became of its candidates so far
    connection    \* "open", or "unusable": lost, or left in a failed transaction

callVars  == <<phase, request, attempt, seen, answers, connection>>
retryVars == <<vars, callVars>>

Answer == [result : {"written"}, retries : Nat]
             \union [result : {"exhausted", "failed"}]

RetryTypeOK ==
    /\ phase \in [Writer -> {"prepare", "begin", "decided"}]
    /\ request \in [Writer -> [key : Key, claim : Claim] \union {NoFact}]
    /\ attempt \in [Writer -> 0..MaxAttempts-1]
    /\ seen \in [Writer -> SUBSET Belief]
    /\ answers \in [Writer -> Seq(Answer)]
    /\ connection \in [Writer -> {"open", "unusable"}]

RetryInit ==
    /\ Init
    /\ phase = [w \in Writer |-> "prepare"]
    /\ request = [w \in Writer |-> NoFact]
    /\ attempt = [w \in Writer |-> 0]
    /\ seen = [w \in Writer |-> {}]
    /\ answers = [w \in Writer |-> <<>>]
    /\ connection = [w \in Writer |-> "open"]

Unanswered(w) == Len(answers[w]) < Len(Batch[w])
Current(w)    == Batch[w][Len(answers[w]) + 1]

\* What a call forgets with an attempt; its transaction is rolled back.
EndAttempt(w) == seen' = [seen EXCEPT ![w] = {}]

\* The answer for the current candidate, and on to the next one.
Answered(w, answer) ==
    /\ answers' = [answers EXCEPT ![w] = Append(@, answer)]
    /\ phase' = [phase EXCEPT ![w] = "prepare"]
    /\ request' = [request EXCEPT ![w] = NoFact]
    /\ attempt' = [attempt EXCEPT ![w] = 0]
    /\ EndAttempt(w)

-----------------------------------------------------------------------------
\* canonicalize and embed, outside the retried transaction.
Prepare(w) ==
    /\ phase[w] = "prepare" /\ Unanswered(w) /\ connection[w] = "open"
    /\ \E k \in Key, c \in Claim :
          /\ c.tier = IF w \in Corrector THEN "authoritative" ELSE "unverified"
          /\ request' = [request EXCEPT ![w] = [key |-> k, claim |-> c]]
    /\ phase' = [phase EXCEPT ![w] = "begin"]
    /\ UNCHANGED <<vars, attempt, seen, answers, connection>>

\* The embedding model fails, or the query of canonicalize does.  Nothing is
\* retried, and nothing rolls the connection back after a failed query: it
\* then refuses the rest of the batch too.
PrepareFails(w) ==
    /\ phase[w] = "prepare" /\ Unanswered(w)
    /\ Answered(w, [result |-> "failed"])
    /\ connection' \in {connection, [connection EXCEPT ![w] = "unusable"]}
    /\ UNCHANGED vars

\* Each attempt begins a transaction and reads the incumbents again.
Begin(w) ==
    /\ phase[w] = "begin"
    /\ seen' = [seen EXCEPT ![w] = Incumbents(request[w].key)]
    /\ phase' = [phase EXCEPT ![w] = "decided"]
    /\ UNCHANGED <<vars, request, attempt, answers, connection>>

\* What the transaction writes, decided on the rows it has read.
Write(w) ==
    LET k == request[w].key
        c == request[w].claim
    IN  \/ /\ k \in MultiValued \/ seen[w] = {}
           /\ Uncontested(Current(w), k, c)
        \/ /\ k \notin MultiValued
           /\ \E i \in seen[w] :
                 /\ MostRecent(seen[w], i)
                 /\ Contradict(Current(w), k, c, w \in Corrector, i)

\* Variant: the isolation is lowered for the last attempt.
MutantLowerIsolation(w) ==
    attempt[w] = MaxAttempts - 1 \/ seen[w] = Incumbents(request[w].key)

\* SERIALIZABLE: the rows that were read are still what a read would find.
Serializable(w) == seen[w] = Incumbents(request[w].key)

Commit(w) ==
    /\ phase[w] = "decided" /\ Serializable(w)
    /\ Write(w)
    /\ Answered(w, [result |-> "written", retries |-> attempt[w]])
    /\ UNCHANGED connection

\* Variant of Retry: failed attempts are not counted.
MutantRetryForever(w) ==
    /\ phase' = [phase EXCEPT ![w] = "begin"]
    /\ EndAttempt(w)
    /\ UNCHANGED <<request, attempt, answers>>

Retry(w) ==
    /\ attempt[w] + 1 < MaxAttempts
    /\ attempt' = [attempt EXCEPT ![w] = @ + 1]
    /\ phase' = [phase EXCEPT ![w] = "begin"]
    /\ EndAttempt(w)
    /\ UNCHANGED <<request, answers>>

\* Variant of Exhausted: the loop ends and the last result is returned.
MutantExhaustedReturns(w) ==
    /\ attempt[w] + 1 = MaxAttempts
    /\ Answered(w, [result |-> "written", retries |-> attempt[w]])

Exhausted(w) ==
    /\ attempt[w] + 1 = MaxAttempts
    /\ Answered(w, [result |-> "exhausted"])

\* The database may refuse at any time, conflict or not (SQLSTATE 40001).
SerializationFailure(w) ==
    /\ phase[w] = "decided"
    /\ Retry(w) \/ Exhausted(w)
    /\ UNCHANGED <<vars, connection>>

\* Any other error ends the candidate without a retry.  When the connection
\* is lost at the commit, the commit may or may not have happened.
Disconnect(w) ==
    /\ phase[w] \in {"begin", "decided"}
    /\ \/ UNCHANGED vars
       \/ phase[w] = "decided" /\ Serializable(w) /\ Write(w)
    /\ connection' = [connection EXCEPT ![w] = "unusable"]
    /\ Answered(w, [result |-> "failed"])

-----------------------------------------------------------------------------
Call(w) ==
    \/ Prepare(w) \/ PrepareFails(w) \/ Begin(w) \/ Commit(w)
    \/ SerializationFailure(w) \/ Disconnect(w)

Others ==
    /\ \E b \in Belief : (\E v \in Verdict : Screen(b, v)) \/ Review(b)
    /\ UNCHANGED callVars

RetryNext == Others \/ \E w \in Writer : Call(w)

\* Each call has a thread that runs, and each of its statements returns.
RetrySpec ==
    /\ RetryInit
    /\ [][RetryNext]_retryVars
    /\ \A w \in Writer : WF_retryVars(Call(w))

-----------------------------------------------------------------------------
(***************************************************************************)
(* Security Invariants 3 and 4: whatever the interleaving, the conflicts   *)
(* and the retries, the tables only change as if each resolve had run on   *)
(* its own.                                                                *)
(***************************************************************************)
ImplementsStore == Spec

(***************************************************************************)
(* What a call reports is what happened: a candidate reported as written   *)
(* is in the store, one whose attempts were exhausted has left nothing     *)
(* behind, and no other belief of the batch is there yet.  (Of a failed    *)
(* one nothing can be said: the commit may have preceded the failure.)     *)
(***************************************************************************)
AnswersHonest ==
    \A w \in Writer : \A n \in 1..Len(Batch[w]) :
        IF n > Len(answers[w])
        THEN status[Batch[w][n]] = "absent"
        ELSE CASE answers[w][n].result = "written" ->
                     status[Batch[w][n]] # "absent"
               [] answers[w][n].result = "exhausted" ->
                     status[Batch[w][n]] = "absent"
               [] OTHER -> TRUE

(***************************************************************************)
(* No call retries for ever, whatever the others do: each of its           *)
(* candidates is answered in the end.                                      *)
(***************************************************************************)
EveryCallAnswers ==
    \A w \in Writer : <>(Len(answers[w]) = Len(Batch[w]))
=============================================================================
