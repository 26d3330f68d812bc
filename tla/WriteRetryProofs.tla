-------------------------- MODULE WriteRetryProofs --------------------------
(***************************************************************************)
(* Proofs about WriteRetry for any number of calls, candidates and         *)
(* attempts: the concurrent write path implements the atomic one, so what  *)
(* BeliefStoreProofs proves of the store holds under every interleaving,   *)
(* and the answers of the calls agree with the store.                      *)
(***************************************************************************)
EXTENDS WriteRetry, BeliefStoreProofs

(***************************************************************************)
(* A call that is past Prepare has a candidate in hand, of the tier of its *)
(* kind, that is still to be answered.                                     *)
(***************************************************************************)
InHand(w) ==
    /\ request[w] \in [key : Key, claim : Claim]
    /\ request[w].claim.tier =
          IF w \in Corrector THEN "authoritative" ELSE "unverified"
    /\ Unanswered(w)

RetryInv ==
    /\ RetryTypeOK
    /\ \A w \in Writer : phase[w] # "prepare" => InHand(w)

(***************************************************************************)
(* The candidate in hand is a belief of the batch.                         *)
(***************************************************************************)
LEMMA CurrentIsBelief ==
  ASSUME RetryTypeOK, NEW w \in Writer, Unanswered(w)
  PROVE  /\ Len(answers[w]) + 1 \in 1..Len(Batch[w])
         /\ Current(w) \in Belief
  BY BatchAssumption DEF RetryTypeOK, Unanswered, Current

(***************************************************************************)
(* Answering a candidate keeps the invariant.                              *)
(***************************************************************************)
LEMMA AnsweredPreserves ==
  ASSUME RetryInv, NEW w \in Writer, NEW a \in Answer, Answered(w, a),
         connection' \in [Writer -> {"open", "unusable"}]
  PROVE  RetryInv'
  <1>1. answers' \in [Writer -> Seq(Answer)]
    BY DEF RetryInv, RetryTypeOK, Answered
  <1>2. attempt' \in [Writer -> 0..MaxAttempts-1]
    BY MaxAttemptsAssumption DEF RetryInv, RetryTypeOK, Answered
  <1>3. RetryTypeOK'
    BY <1>1, <1>2 DEF RetryInv, RetryTypeOK, Answered, EndAttempt
  <1>4. ASSUME NEW v \in Writer, phase'[v] # "prepare"
        PROVE  InHand(v)'
    BY <1>4 DEF RetryInv, RetryTypeOK, InHand, Unanswered, Answered
  <1>5. QED
    BY <1>3, <1>4 DEF RetryInv

(***************************************************************************)
(* Every step of a call keeps the invariant.                               *)
(***************************************************************************)
LEMMA CallPreserves ==
  ASSUME RetryInv, NEW w \in Writer, Call(w)
  PROVE  RetryInv'
  <1>1. CASE Prepare(w)
    <2>1. PICK k \in Key, c \in Claim :
            /\ c.tier = IF w \in Corrector THEN "authoritative" ELSE "unverified"
            /\ request' = [request EXCEPT ![w] = [key |-> k, claim |-> c]]
      BY <1>1 DEF Prepare
    <2>2. RetryTypeOK'
      BY <1>1, <2>1 DEF RetryInv, RetryTypeOK, Prepare
    <2>3. ASSUME NEW v \in Writer, phase'[v] # "prepare"
          PROVE  InHand(v)'
      <3>1. CASE v = w
        BY <1>1, <2>1, <3>1
           DEF RetryInv, RetryTypeOK, InHand, Unanswered, Prepare
      <3>2. CASE v # w
        BY <1>1, <2>1, <2>3, <3>2
           DEF RetryInv, RetryTypeOK, InHand, Unanswered, Prepare
      <3>3. QED
        BY <3>1, <3>2
    <2>4. QED
      BY <2>2, <2>3 DEF RetryInv
  <1>2. CASE PrepareFails(w)
    <2>1. [result |-> "failed"] \in Answer
      BY DEF Answer
    <2>2. connection' \in [Writer -> {"open", "unusable"}]
      BY <1>2 DEF PrepareFails, RetryInv, RetryTypeOK
    <2>3. QED
      BY <1>2, <2>1, <2>2, AnsweredPreserves DEF PrepareFails
  <1>3. CASE Begin(w)
    <2>1. RetryTypeOK'
      BY <1>3 DEF RetryInv, RetryTypeOK, Begin, Incumbents, TrustedCurrent
    <2>2. ASSUME NEW v \in Writer, phase'[v] # "prepare"
          PROVE  InHand(v)'
      BY <1>3, <2>2 DEF RetryInv, RetryTypeOK, InHand, Unanswered, Begin
    <2>3. QED
      BY <2>1, <2>2 DEF RetryInv
  <1>4. CASE Commit(w)
    <2>1. [result |-> "written", retries |-> attempt[w]] \in Answer
      BY MaxAttemptsAssumption DEF Answer, RetryInv, RetryTypeOK
    <2>2. connection' \in [Writer -> {"open", "unusable"}]
      BY <1>4 DEF Commit, RetryInv, RetryTypeOK
    <2>3. QED
      BY <1>4, <2>1, <2>2, AnsweredPreserves DEF Commit
  <1>5. CASE SerializationFailure(w)
    <2>1. CASE Retry(w)
      <3>1. attempt' \in [Writer -> 0..MaxAttempts-1]
        BY <2>1, MaxAttemptsAssumption DEF RetryInv, RetryTypeOK, Retry
      <3>2. RetryTypeOK'
        BY <1>5, <2>1, <3>1
           DEF RetryInv, RetryTypeOK, Retry, EndAttempt, SerializationFailure
      <3>3. ASSUME NEW v \in Writer, phase'[v] # "prepare"
            PROVE  InHand(v)'
        BY <1>5, <2>1, <3>3
           DEF RetryInv, RetryTypeOK, InHand, Unanswered, Retry,
               SerializationFailure
      <3>4. QED
        BY <3>2, <3>3 DEF RetryInv
    <2>2. CASE Exhausted(w)
      <3>1. [result |-> "exhausted"] \in Answer
        BY DEF Answer
      <3>2. connection' \in [Writer -> {"open", "unusable"}]
        BY <1>5 DEF SerializationFailure, RetryInv, RetryTypeOK
      <3>3. QED
        BY <2>2, <3>1, <3>2, AnsweredPreserves DEF Exhausted
    <2>3. QED
      BY <1>5, <2>1, <2>2 DEF SerializationFailure
  <1>6. CASE Disconnect(w)
    <2>1. [result |-> "failed"] \in Answer
      BY DEF Answer
    <2>2. connection' \in [Writer -> {"open", "unusable"}]
      BY <1>6 DEF Disconnect, RetryInv, RetryTypeOK
    <2>3. QED
      BY <1>6, <2>1, <2>2, AnsweredPreserves DEF Disconnect
  <1>7. QED
    BY <1>1, <1>2, <1>3, <1>4, <1>5, <1>6 DEF Call

(***************************************************************************)
(* The invariant of the calls: each has a candidate in hand from Prepare   *)
(* until it is answered.                                                   *)
(***************************************************************************)
THEOREM RetryInvariant == RetrySpec => []RetryInv
  <1>1. RetryInit => RetryInv
    <2> SUFFICES ASSUME RetryInit PROVE RetryInv
      OBVIOUS
    <2>1. RetryTypeOK
      BY MaxAttemptsAssumption DEF RetryInit, RetryTypeOK
    <2>2. QED
      BY <2>1 DEF RetryInv, RetryInit
  <1>2. RetryInv /\ [RetryNext]_retryVars => RetryInv'
    <2> SUFFICES ASSUME RetryInv, [RetryNext]_retryVars
                 PROVE  RetryInv'
      OBVIOUS
    <2>1. CASE UNCHANGED callVars
      BY <2>1 DEF RetryInv, RetryTypeOK, InHand, Unanswered, callVars
    <2>2. CASE \E w \in Writer : Call(w)
      BY <2>2, CallPreserves
    <2>3. QED
      BY <2>1, <2>2 DEF RetryNext, Others, retryVars
  <1>3. QED
    BY <1>1, <1>2, PTL DEF RetrySpec

(***************************************************************************)
(* RetryTypeOK: attempts stay below MaxAttempts, whatever is refused.      *)
(***************************************************************************)
THEOREM RetryTypes == RetrySpec => []RetryTypeOK
  <1>1. RetryInv => RetryTypeOK
    BY DEF RetryInv
  <1>2. QED
    BY <1>1, RetryInvariant, PTL

(***************************************************************************)
(* A transaction that commits on reads that are still good is one whole    *)
(* resolve of the store.                                                   *)
(***************************************************************************)
LEMMA WriteIsResolve ==
  ASSUME RetryInv, NEW w \in Writer, phase[w] = "decided",
         Serializable(w), Write(w)
  PROVE  Next
  <1> DEFINE b == Current(w)
             k == request[w].key
             c == request[w].claim
  <1>1. InHand(w)
    BY DEF RetryInv
  <1>2. b \in Belief
    BY <1>1, CurrentIsBelief DEF RetryInv, InHand
  <1>3. k \in Key /\ c \in Claim
    BY <1>1 DEF InHand
  <1>4. seen[w] = Incumbents(k)
    BY DEF Serializable
  <1>5. ASSUME NEW override \in BOOLEAN, (w \in Corrector) = override
        PROVE  Resolve(b, k, c, override)
    <2>1. CASE (k \in MultiValued \/ seen[w] = {}) /\ Uncontested(b, k, c)
      BY <1>4, <2>1 DEF Resolve, ResolveUncontested
    <2>2. CASE /\ k \notin MultiValued
               /\ \E i \in seen[w] :
                     MostRecent(seen[w], i) /\ Contradict(b, k, c, override, i)
      <3>1. PICK i \in seen[w] :
               MostRecent(seen[w], i) /\ Contradict(b, k, c, override, i)
        BY <2>2
      <3>2. i \in Belief /\ Incumbent(k, i)
        BY <1>4, <3>1 DEF Incumbents, TrustedCurrent, Incumbent
      <3>3. QED
        BY <2>2, <3>1, <3>2 DEF Resolve, ResolveContradiction
    <2>3. QED
      BY <1>5, <2>1, <2>2 DEF Write
  <1>6. CASE w \in Corrector
    <2>1. c.tier = "authoritative"
      BY <1>1, <1>6 DEF InHand
    <2>2. Resolve(b, k, c, TRUE)
      BY <1>5, <1>6
    <2>3. Correct(b)
      BY <1>3, <2>1, <2>2 DEF Correct
    <2>4. QED
      BY <1>2, <2>3 DEF Next
  <1>7. CASE w \notin Corrector
    <2>1. c.tier = "unverified"
      BY <1>1, <1>7 DEF InHand
    <2>2. (w \in Corrector) = FALSE
      BY <1>7
    <2>3. Resolve(b, k, c, FALSE)
      BY <1>5, <2>2, Zenon
    <2>4. Ingest(b)
      BY <1>3, <2>1, <2>3 DEF Ingest
    <2>5. QED
      BY <1>2, <2>4 DEF Next
  <1>8. QED
    BY <1>6, <1>7

(***************************************************************************)
(* ImplementsStore (Security Invariants 3 and 4): whatever the             *)
(* interleaving, the conflicts and the retries, the tables only change as  *)
(* if each resolve had run on its own.                                     *)
(***************************************************************************)
THEOREM RetryImplementsStore == RetrySpec => ImplementsStore
  <1>1. RetryInit => Init
    BY DEF RetryInit
  <1>2. RetryInv /\ [RetryNext]_retryVars => [Next]_vars
    <2> SUFFICES ASSUME RetryInv, [RetryNext]_retryVars
                 PROVE  [Next]_vars
      OBVIOUS
    <2>1. CASE Others
      BY <2>1 DEF Others, Next
    <2>2. ASSUME NEW w \in Writer, Call(w)
          PROVE  [Next]_vars
      <3>1. CASE Commit(w)
        BY <3>1, WriteIsResolve DEF Commit
      <3>2. CASE Disconnect(w)
        BY <3>2, WriteIsResolve DEF Disconnect
      <3>3. CASE Prepare(w) \/ PrepareFails(w) \/ Begin(w)
                   \/ SerializationFailure(w)
        BY <3>3 DEF Prepare, PrepareFails, Begin, SerializationFailure
      <3>4. QED
        BY <2>2, <3>1, <3>2, <3>3 DEF Call
    <2>3. CASE UNCHANGED retryVars
      BY <2>3 DEF retryVars
    <2>4. QED
      BY <2>1, <2>2, <2>3 DEF RetryNext
  <1>3. QED
    BY <1>1, <1>2, RetryInvariant, PTL DEF RetrySpec, ImplementsStore, Spec

(***************************************************************************)
(* Hence the concurrent system never shows consumers a belief that nobody  *)
(* admitted, and its supersessions stay explained: what BeliefStoreProofs  *)
(* proves of every behaviour of the store.                                 *)
(***************************************************************************)
THEOREM RetryKeepsStoreInv == RetrySpec => []StoreInv
  BY RetryImplementsStore, StoreInvariant, PTL DEF ImplementsStore

THEOREM RetryVetted == RetrySpec => []Vetted
  BY RetryImplementsStore, StoreVetted, PTL DEF ImplementsStore

(***************************************************************************)
(* And no conflict, retry, lost connection or correction in between takes  *)
(* a belief back, rewrites what was recorded of one or moves one across    *)
(* the trust boundary but by its moves.                                    *)
(***************************************************************************)
THEOREM RetryMovesForward ==
  RetrySpec => ImplementsBoundary /\ RecordsKept /\ [][NeverBack]_vars
  BY RetryImplementsStore, StoreImplementsBoundary, StoreRecordsKept,
     StoreNeverBack, PTL DEF ImplementsStore

(***************************************************************************)
(* What a commit does to the presence of beliefs in the store: it adds the *)
(* current candidate, which was not there, and touches no other.           *)
(***************************************************************************)
LEMMA WriteAddsCurrent ==
  ASSUME StoreInv, RetryInv, NEW w \in Writer, phase[w] = "decided",
         Serializable(w), Write(w)
  PROVE  /\ status'[Current(w)] # "absent"
         /\ \A b \in Belief \ {Current(w)} :
               status'[b] = "absent" <=> status[b] = "absent"
  <1> DEFINE k == request[w].key
             c == request[w].claim
  <1>1. Current(w) \in Belief
    BY CurrentIsBelief DEF RetryInv, InHand
  <1>2. status \in [Belief -> Status]
    BY DEF StoreInv, TypeOK
  <1>3. CASE Uncontested(Current(w), k, c)
    BY <1>1, <1>2, <1>3 DEF Uncontested
  <1>4. CASE \E i \in seen[w] : /\ MostRecent(seen[w], i)
                               /\ Contradict(Current(w), k, c, w \in Corrector, i)
    <2>1. PICK i \in seen[w] : Contradict(Current(w), k, c, w \in Corrector, i)
      BY <1>4
    <2>2. i \in Belief /\ status[i] = "trusted"
      BY <2>1 DEF Serializable, Incumbents, TrustedCurrent
    <2>3. status[Current(w)] = "absent"
      BY <2>1 DEF Contradict, WriteBelief
    <2>4. CASE status' = [status EXCEPT ![Current(w)] = "pending",
                                        ![i] = "superseded"]
      BY <1>1, <1>2, <2>2, <2>3, <2>4
    <2>5. CASE status' = [status EXCEPT ![Current(w)] = "pending"]
      BY <1>1, <1>2, <2>5
    <2>6. QED
      BY <2>1, <2>4, <2>5 DEF Contradict
  <1>5. QED
    BY <1>3, <1>4 DEF Write

(***************************************************************************)
(* The gate and the reviewers neither add nor remove a belief.             *)
(***************************************************************************)
LEMMA OthersAddNothing ==
  ASSUME StoreInv, Others
  PROVE  \A b \in Belief : status'[b] = "absent" <=> status[b] = "absent"
  <1>1. status \in [Belief -> Status]
    BY DEF StoreInv, TypeOK
  <1>2. ASSUME NEW b \in Belief, NEW v \in Verdict, Screen(b, v)
        PROVE  \A d \in Belief : status'[d] = "absent" <=> status[d] = "absent"
    BY <1>1, <1>2 DEF Screen, ScreenedStatus, Verdict
  <1>3. ASSUME NEW b \in Belief, NEW n \in 1..Len(quarantine[b]),
               Release(b, n) \/ Reject(b, n)
        PROVE  \A d \in Belief : status'[d] = "absent" <=> status[d] = "absent"
    BY <1>1, <1>3 DEF Release, Reject
  <1>4. QED
    BY <1>2, <1>3 DEF Others, Review

(***************************************************************************)
(* AnswersHonest, one candidate at a time.                                 *)
(***************************************************************************)
Honest(w, n) ==
    IF n > Len(answers[w])
    THEN status[Batch[w][n]] = "absent"
    ELSE /\ answers[w][n].result = "written"
               => status[Batch[w][n]] # "absent"
         /\ answers[w][n].result = "exhausted"
               => status[Batch[w][n]] = "absent"

LEMMA HonestPerCandidate ==
  AnswersHonest <=> \A w \in Writer : \A n \in 1..Len(Batch[w]) : Honest(w, n)
  BY DEF AnswersHonest, Honest

(***************************************************************************)
(* What an answer does to the answers: it is appended for its own call,    *)
(* and no other call's answers change.                                     *)
(***************************************************************************)
LEMMA AnswerIsAppended ==
  ASSUME RetryTypeOK, NEW w \in Writer, NEW a \in Answer, Answered(w, a)
  PROVE  /\ Len(answers'[w]) = Len(answers[w]) + 1
         /\ Len(answers[w]) \in Nat
         /\ answers'[w][Len(answers[w]) + 1] = a
         /\ \A n \in 1..Len(answers[w]) : answers'[w][n] = answers[w][n]
         /\ \A v \in Writer \ {w} : answers'[v] = answers[v]
  <1>1. answers[w] \in Seq(Answer) /\ answers'[w] = Append(answers[w], a)
    BY DEF RetryTypeOK, Answered
  <1>2. \A v \in Writer \ {w} : answers'[v] = answers[v]
    BY DEF RetryTypeOK, Answered
  <1>3. QED
    BY <1>1, <1>2

(***************************************************************************)
(* Answering a candidate keeps the answers honest, if this one is.         *)
(***************************************************************************)
LEMMA AnsweredHonestly ==
  ASSUME RetryTypeOK, AnswersHonest,
         NEW w \in Writer, NEW a \in Answer, Unanswered(w), Answered(w, a),
         a.result = "written" => status'[Current(w)] # "absent",
         a.result = "exhausted" => status'[Current(w)] = "absent",
         \A b \in Belief \ {Current(w)} :
            status'[b] = "absent" <=> status[b] = "absent"
  PROVE  AnswersHonest'
  <1>1. ASSUME NEW v \in Writer, NEW n \in 1..Len(Batch[v])
        PROVE  Honest(v, n)'
    <2>1. Batch[v][n] \in Belief
      BY BatchAssumption
    <2>2. Honest(v, n)
      BY HonestPerCandidate
    <2>3. CASE v = w /\ n = Len(answers[w]) + 1
      <3>1. Batch[v][n] = Current(w)
        BY <2>3 DEF Current
      <3>2. answers'[v][n] = a /\ ~(n > Len(answers'[v]))
        BY <2>3, AnswerIsAppended
      <3>3. QED
        BY <3>1, <3>2 DEF Honest
    <2>4. CASE ~(v = w /\ n = Len(answers[w]) + 1)
      <3>1. Batch[v][n] # Current(w)
        BY <2>4, BatchAssumption, CurrentIsBelief DEF Current
      <3>2. status'[Batch[v][n]] = "absent" <=> status[Batch[v][n]] = "absent"
        BY <2>1, <3>1
      <3>3. CASE v = w
        <4>1. n > Len(answers'[v]) <=> n > Len(answers[v])
          BY <2>4, <3>3, AnswerIsAppended
        <4>2. ~(n > Len(answers[v])) => answers'[v][n] = answers[v][n]
          BY <3>3, AnswerIsAppended
        <4>3. QED
          BY <2>2, <3>2, <4>1, <4>2 DEF Honest
      <3>4. CASE v # w
        <4>1. answers'[v] = answers[v]
          BY <3>4, AnswerIsAppended
        <4>2. QED
          BY <2>2, <3>2, <4>1 DEF Honest
      <3>5. QED
        BY <3>3, <3>4
    <2>5. QED
      BY <2>3, <2>4
  <1>2. QED
    BY <1>1 DEF AnswersHonest, Honest

(***************************************************************************)
(* A step that adds no belief and answers nothing keeps them honest.       *)
(***************************************************************************)
LEMMA QuietStepHonest ==
  ASSUME AnswersHonest, UNCHANGED answers,
         \A b \in Belief : status'[b] = "absent" <=> status[b] = "absent"
  PROVE  AnswersHonest'
  <1>1. ASSUME NEW v \in Writer, NEW n \in 1..Len(Batch[v])
        PROVE  Honest(v, n)'
    <2>1. Batch[v][n] \in Belief
      BY BatchAssumption
    <2>2. Honest(v, n)
      BY HonestPerCandidate
    <2>3. QED
      BY <2>1, <2>2 DEF Honest
  <1>2. QED
    BY <1>1 DEF AnswersHonest, Honest

(***************************************************************************)
(* Every step of a call keeps its answers honest.                          *)
(***************************************************************************)
LEMMA CallHonest ==
  ASSUME StoreInv, RetryInv, AnswersHonest, NEW w \in Writer, Call(w)
  PROVE  AnswersHonest'
  <1>1. RetryTypeOK
    BY DEF RetryInv
  <1>2. phase[w] # "prepare" => Unanswered(w)
    BY DEF RetryInv, InHand
  <1>3. CASE Prepare(w) \/ Begin(w)
    BY <1>3, QuietStepHonest DEF Prepare, Begin, vars
  <1>4. CASE PrepareFails(w)
    <2>1. [result |-> "failed"] \in Answer
      BY DEF Answer
    <2>2. UNCHANGED status /\ Unanswered(w) /\ Answered(w, [result |-> "failed"])
      BY <1>4 DEF PrepareFails, vars
    <2>3. QED
      BY <1>1, <2>1, <2>2, AnsweredHonestly
  <1>5. CASE Commit(w)
    <2> DEFINE a == [result |-> "written", retries |-> attempt[w]]
    <2>1. a \in Answer
      BY <1>1, MaxAttemptsAssumption DEF Answer, RetryTypeOK
    <2>2. Unanswered(w) /\ Answered(w, a)
      BY <1>2, <1>5 DEF Commit
    <2>3. /\ status'[Current(w)] # "absent"
          /\ \A b \in Belief \ {Current(w)} :
                status'[b] = "absent" <=> status[b] = "absent"
      BY <1>5, WriteAddsCurrent DEF Commit
    <2>4. a.result = "written"
      OBVIOUS
    <2> HIDE DEF a
    <2>5. QED
      BY <1>1, <2>1, <2>2, <2>3, <2>4, AnsweredHonestly
  <1>6. CASE SerializationFailure(w)
    <2>1. UNCHANGED status /\ Unanswered(w)
      BY <1>2, <1>6 DEF SerializationFailure, vars
    <2>2. CASE Retry(w)
      BY <2>1, <2>2, QuietStepHonest DEF Retry
    <2>3. CASE Exhausted(w)
      <3>1. [result |-> "exhausted"] \in Answer
        BY DEF Answer
      <3>2. status[Current(w)] = "absent"
        <4>1. Honest(w, Len(answers[w]) + 1)
          BY <1>1, <2>1, CurrentIsBelief, HonestPerCandidate
        <4>2. Len(answers[w]) \in Nat
          BY <1>1 DEF RetryTypeOK
        <4>3. QED
          BY <4>1, <4>2 DEF Honest, Current
      <3>3. QED
        BY <1>1, <2>1, <2>3, <3>1, <3>2, AnsweredHonestly DEF Exhausted
    <2>4. QED
      BY <1>6, <2>2, <2>3 DEF SerializationFailure
  <1>7. CASE Disconnect(w)
    <2>1. [result |-> "failed"] \in Answer
      BY DEF Answer
    <2>2. Unanswered(w) /\ Answered(w, [result |-> "failed"])
      BY <1>2, <1>7 DEF Disconnect
    <2>3. \A b \in Belief \ {Current(w)} :
             status'[b] = "absent" <=> status[b] = "absent"
      BY <1>7, WriteAddsCurrent DEF Disconnect, vars
    <2>4. QED
      BY <1>1, <2>1, <2>2, <2>3, AnsweredHonestly
  <1>8. QED
    BY <1>3, <1>4, <1>5, <1>6, <1>7 DEF Call

(***************************************************************************)
(* AnswersHonest: what a call reports as written is in the store, what it  *)
(* reports as exhausted has left nothing behind, and what it has not come  *)
(* to is not there yet.                                                    *)
(***************************************************************************)
THEOREM RetryAnswersHonest == RetrySpec => []AnswersHonest
  <1>1. RetryInit => AnswersHonest
    <2> SUFFICES ASSUME RetryInit,
                        NEW w \in Writer, NEW n \in 1..Len(Batch[w])
                 PROVE  Honest(w, n)
      BY HonestPerCandidate
    <2>1. Batch[w][n] \in Belief
      BY BatchAssumption
    <2>2. QED
      BY <2>1 DEF RetryInit, Init, Honest
  <1>2. StoreInv /\ RetryInv /\ AnswersHonest /\ [RetryNext]_retryVars
          => AnswersHonest'
    <2> SUFFICES ASSUME StoreInv, RetryInv, AnswersHonest,
                        [RetryNext]_retryVars
                 PROVE  AnswersHonest'
      OBVIOUS
    <2>1. CASE Others
      BY <2>1, OthersAddNothing, QuietStepHonest DEF Others, callVars
    <2>2. CASE \E w \in Writer : Call(w)
      BY <2>2, CallHonest
    <2>3. CASE UNCHANGED retryVars
      BY <2>3, QuietStepHonest DEF retryVars, vars, callVars
    <2>4. QED
      BY <2>1, <2>2, <2>3 DEF RetryNext
  <1>3. QED
    BY <1>1, <1>2, RetryInvariant, RetryKeepsStoreInv, PTL DEF RetrySpec

-----------------------------------------------------------------------------
(***************************************************************************)
(* How far a call has come: three steps to an attempt, MaxAttempts         *)
(* attempts to a candidate.                                                *)
(***************************************************************************)
Step(w) == CASE phase[w] = "prepare" -> 0
             [] phase[w] = "begin"   -> 1
             [] phase[w] = "decided" -> 2

Progress(w) == 3 * (MaxAttempts * Len(answers[w]) + attempt[w]) + Step(w)

Work(w) == 3 * (MaxAttempts * Len(Batch[w]))

(***************************************************************************)
(* A call has no failed attempts in hand where it has no candidate, and no *)
(* more answers than candidates.                                           *)
(***************************************************************************)
BatchInv ==
    \A w \in Writer : /\ phase[w] = "prepare" => attempt[w] = 0
                      /\ Len(answers[w]) <= Len(Batch[w])

LEMMA BatchLength ==
  ASSUME NEW w \in Writer
  PROVE  Len(Batch[w]) \in Nat
  BY BatchAssumption

LEMMA CallKeepsBatch ==
  ASSUME RetryInv, BatchInv, NEW w \in Writer, Call(w)
  PROVE  BatchInv'
  <1>0. RetryTypeOK /\ Len(answers[w]) \in Nat /\ Len(Batch[w]) \in Nat
        /\ (phase[w] # "prepare" => Unanswered(w))
    BY BatchLength DEF RetryInv, RetryTypeOK, InHand
  <1>1. ASSUME NEW a \in Answer, Answered(w, a), Unanswered(w)
        PROVE  BatchInv'
    <2>1. /\ Len(answers'[w]) <= Len(Batch[w])
          /\ \A v \in Writer \ {w} : answers'[v] = answers[v]
      BY <1>0, <1>1, AnswerIsAppended DEF Unanswered
    <2>2. /\ attempt'[w] = 0
          /\ \A v \in Writer \ {w} : attempt'[v] = attempt[v] /\ phase'[v] = phase[v]
      BY <1>0, <1>1 DEF Answered, RetryTypeOK
    <2>3. QED
      BY <2>1, <2>2 DEF BatchInv
  <1>2. CASE Prepare(w) \/ Begin(w) \/ Retry(w)
    <2>1. answers' = answers /\ phase'[w] # "prepare"
          /\ \A v \in Writer \ {w} : attempt'[v] = attempt[v] /\ phase'[v] = phase[v]
      BY <1>0, <1>2 DEF Prepare, Begin, Retry, RetryTypeOK
    <2>2. QED
      BY <2>1 DEF BatchInv
  <1>3. CASE \E a \in Answer : Answered(w, a) /\ Unanswered(w)
    BY <1>1, <1>3
  <1>4. [result |-> "failed"] \in Answer /\ [result |-> "exhausted"] \in Answer
        /\ [result |-> "written", retries |-> attempt[w]] \in Answer
    BY <1>0, MaxAttemptsAssumption DEF Answer, RetryTypeOK
  <1>5. CASE PrepareFails(w) \/ Disconnect(w)
    BY <1>0, <1>1, <1>4, <1>5 DEF PrepareFails, Disconnect
  <1>6. CASE Commit(w)
    BY <1>0, <1>1, <1>4, <1>6 DEF Commit
  <1>7. CASE SerializationFailure(w)
    BY <1>0, <1>1, <1>2, <1>4, <1>7 DEF SerializationFailure, Exhausted
  <1>8. QED
    BY <1>2, <1>5, <1>6, <1>7 DEF Call

THEOREM BatchInvariant == RetrySpec => []BatchInv
  <1>1. RetryInit => BatchInv
    BY BatchLength DEF RetryInit, BatchInv
  <1>2. RetryInv /\ BatchInv /\ [RetryNext]_retryVars => BatchInv'
    <2> SUFFICES ASSUME RetryInv, BatchInv, [RetryNext]_retryVars
                 PROVE  BatchInv'
      OBVIOUS
    <2>1. CASE UNCHANGED callVars
      BY <2>1 DEF callVars, BatchInv
    <2>2. CASE \E w \in Writer : Call(w)
      BY <2>2, CallKeepsBatch
    <2>3. QED
      BY <2>1, <2>2 DEF RetryNext, Others, retryVars
  <1>3. QED
    BY <1>1, <1>2, RetryInvariant, PTL DEF RetrySpec

(***************************************************************************)
(* Arithmetic: an answer is worth all attempts at its candidate.           *)
(***************************************************************************)
LEMMA AnswerOutweighs ==
  ASSUME NEW m \in Nat \ {0}, NEW n \in Nat, NEW a \in 0..m-1, NEW s \in 0..2
  PROVE  /\ 3 * (m * n + a) + s < 3 * (m * (n + 1))
         /\ 3 * (m * n + a) + s \in Nat
  <1>1. m * (n + 1) = m * n + m /\ m * n \in Nat
    OBVIOUS
  <1>2. \A p \in Nat : /\ 3 * (p + a) + s < 3 * (p + m)
                       /\ 3 * (p + a) + s \in Nat
    OBVIOUS
  <1>3. QED
    BY <1>1, <1>2

LEMMA WorkGrows ==
  ASSUME NEW m \in Nat, NEW n \in Nat, NEW k \in Nat, n <= k
  PROVE  3 * (m * n) <= 3 * (m * k)
  <1>1. PICK d \in Nat : k = n + d
    <2>1. k - n \in Nat /\ k = n + (k - n)
      OBVIOUS
    <2>2. QED
      BY <2>1
  <1>2. m * k = m * n + m * d /\ m * n \in Nat /\ m * d \in Nat
    BY <1>1
  <1>3. QED
    BY <1>2

LEMMA StepRange ==
  ASSUME RetryTypeOK, NEW w \in Writer
  PROVE  /\ Step(w) \in 0..2 /\ attempt[w] \in 0..MaxAttempts-1
         /\ Len(answers[w]) \in Nat /\ MaxAttempts \in Nat \ {0}
  BY MaxAttemptsAssumption DEF RetryTypeOK, Step

LEMMA ProgressIsBounded ==
  ASSUME RetryInv, BatchInv, NEW w \in Writer
  PROVE  Progress(w) \in 0..Work(w)
  <1>1. /\ Step(w) \in 0..2 /\ attempt[w] \in 0..MaxAttempts-1
        /\ Len(answers[w]) \in Nat /\ MaxAttempts \in Nat \ {0}
        /\ Len(Batch[w]) \in Nat /\ Len(answers[w]) <= Len(Batch[w])
    BY StepRange, BatchLength DEF RetryInv, BatchInv
  <1>2. Work(w) \in Nat /\ Progress(w) \in Nat
    <2>1. Work(w) \in Nat
      BY <1>1 DEF Work
    <2>2. Progress(w) \in Nat
      BY <1>1, AnswerOutweighs DEF Progress
    <2>3. QED
      BY <2>1, <2>2
  <1>3. CASE phase[w] = "prepare"
    <2>1. Progress(w) = 3 * (MaxAttempts * Len(answers[w]))
      BY <1>1, <1>3 DEF Progress, Step, BatchInv
    <2>2. QED
      BY <1>1, <1>2, <2>1, WorkGrows DEF Work
  <1>4. CASE phase[w] # "prepare"
    <2>1. Len(answers[w]) + 1 <= Len(Batch[w]) /\ Len(answers[w]) + 1 \in Nat
      BY <1>1, <1>4 DEF RetryInv, InHand, Unanswered
    <2>2. Progress(w) < 3 * (MaxAttempts * (Len(answers[w]) + 1))
      BY <1>1, AnswerOutweighs DEF Progress
    <2>3. 3 * (MaxAttempts * (Len(answers[w]) + 1)) <= Work(w)
      BY <1>1, <2>1, WorkGrows DEF Work
    <2>4. 3 * (MaxAttempts * (Len(answers[w]) + 1)) \in Nat
      BY <1>1
    <2>5. QED
      BY <1>2, <2>2, <2>3, <2>4
  <1>5. QED
    BY <1>3, <1>4

(***************************************************************************)
(* Every step of a call takes it further, and nobody else takes it back.   *)
(***************************************************************************)
Advances(w) == Progress(w)' > Progress(w)

LEMMA CallAdvances ==
  ASSUME RetryInv, RetryInv', NEW w \in Writer, Call(w)
  PROVE  /\ Advances(w)
         /\ \A v \in Writer \ {w} : Progress(v)' = Progress(v)
  <1>0. RetryTypeOK /\ RetryTypeOK' /\ Step(w) \in 0..2
        /\ attempt[w] \in 0..MaxAttempts-1
        /\ Len(answers[w]) \in Nat /\ MaxAttempts \in Nat \ {0}
    BY StepRange DEF RetryInv
  <1>1. ASSUME NEW a \in Answer, Answered(w, a)
        PROVE  /\ Advances(w)
               /\ \A v \in Writer \ {w} : Progress(v)' = Progress(v)
    <2>1. /\ Len(answers'[w]) = Len(answers[w]) + 1
          /\ \A v \in Writer \ {w} : answers'[v] = answers[v]
      BY <1>0, <1>1, AnswerIsAppended
    <2>2. /\ attempt'[w] = 0 /\ phase'[w] = "prepare"
          /\ \A v \in Writer \ {w} : attempt'[v] = attempt[v] /\ phase'[v] = phase[v]
      BY <1>0, <1>1 DEF Answered, RetryTypeOK
    <2>3. Progress(w)' = 3 * (MaxAttempts * (Len(answers[w]) + 1))
      BY <1>0, <2>1, <2>2 DEF Progress, Step
    <2>4. Progress(w) < 3 * (MaxAttempts * (Len(answers[w]) + 1))
      BY <1>0, AnswerOutweighs DEF Progress
    <2>5. \A v \in Writer \ {w} : Progress(v)' = Progress(v)
      BY <2>1, <2>2 DEF Progress, Step
    <2>6. Progress(w) \in Nat /\ 3 * (MaxAttempts * (Len(answers[w]) + 1)) \in Nat
      BY <1>0, AnswerOutweighs DEF Progress
    <2>7. QED
      BY <2>3, <2>4, <2>5, <2>6 DEF Advances
  <1>2. ASSUME answers' = answers,
               \A v \in Writer \ {w} : attempt'[v] = attempt[v] /\ phase'[v] = phase[v],
               \/ attempt'[w] = attempt[w] /\ Step(w)' > Step(w)
               \/ attempt'[w] = attempt[w] + 1
        PROVE  /\ Advances(w)
               /\ \A v \in Writer \ {w} : Progress(v)' = Progress(v)
    <2>1. \A v \in Writer \ {w} : Progress(v)' = Progress(v)
      BY <1>2 DEF Progress, Step
    <2>2. Step(w)' \in 0..2
      BY <1>0, StepRange DEF Step, RetryTypeOK
    <2>3. \A p \in Nat : 3 * (p + attempt'[w]) + Step(w)'
                            > 3 * (p + attempt[w]) + Step(w)
      BY <1>0, <1>2, <2>2
    <2>4. MaxAttempts * Len(answers[w]) \in Nat
      BY <1>0
    <2>5. Advances(w)
      BY <1>2, <2>3, <2>4 DEF Advances, Progress
    <2>6. QED
      BY <2>1, <2>5
  <1>3. [result |-> "failed"] \in Answer /\ [result |-> "exhausted"] \in Answer
        /\ [result |-> "written", retries |-> attempt[w]] \in Answer
    BY <1>0 DEF Answer
  <1>4. CASE Prepare(w)
    BY <1>0, <1>2, <1>4 DEF Prepare, Step, RetryTypeOK
  <1>5. CASE Begin(w)
    BY <1>0, <1>2, <1>5 DEF Begin, Step, RetryTypeOK
  <1>6. CASE SerializationFailure(w)
    <2>1. CASE Retry(w)
      BY <1>0, <1>2, <1>6, <2>1 DEF SerializationFailure, Retry, RetryTypeOK
    <2>2. CASE Exhausted(w)
      BY <1>1, <1>3, <2>2 DEF Exhausted
    <2>3. QED
      BY <1>6, <2>1, <2>2 DEF SerializationFailure
  <1>7. CASE PrepareFails(w) \/ Commit(w) \/ Disconnect(w)
    BY <1>1, <1>3, <1>7 DEF PrepareFails, Commit, Disconnect
  <1>8. QED
    BY <1>4, <1>5, <1>6, <1>7 DEF Call

LEMMA StepAdvances ==
  ASSUME RetryInv, RetryInv', [RetryNext]_retryVars, NEW w \in Writer
  PROVE  /\ Call(w) => Advances(w)
         /\ Advances(w) \/ Progress(w)' = Progress(w)
  <1>1. CASE \E v \in Writer : Call(v)
    BY <1>1, CallAdvances
  <1>2. CASE UNCHANGED callVars
    BY <1>2, CallAdvances DEF callVars, Progress, Step
  <1>3. QED
    BY <1>1, <1>2 DEF RetryNext, Others, retryVars

(***************************************************************************)
(* No call of write_belief retries for ever: each of its steps, whatever   *)
(* the others do in between, takes it further on a scale that ends, so it  *)
(* takes at most three steps for each of its attempts and MaxAttempts      *)
(* attempts for each candidate.                                            *)
(***************************************************************************)
THEOREM CallsAreBounded ==
    RetrySpec => /\ [](\A w \in Writer : Progress(w) \in 0..Work(w))
                 /\ [][\A w \in Writer :
                          /\ Call(w) => Advances(w)
                          /\ Advances(w) \/ Progress(w)' = Progress(w)]_retryVars
  <1>1. RetryInv /\ BatchInv => \A w \in Writer : Progress(w) \in 0..Work(w)
    BY ProgressIsBounded
  <1>2. RetryInv /\ RetryInv' /\ [RetryNext]_retryVars
          => [\A w \in Writer : /\ Call(w) => Advances(w)
                                /\ Advances(w) \/ Progress(w)' = Progress(w)]_retryVars
    BY StepAdvances
  <1>3. QED
    BY <1>1, <1>2, RetryInvariant, BatchInvariant, PTL DEF RetrySpec
=============================================================================
