----------------------------- MODULE IntakeProofs ----------------------------
(***************************************************************************)
(* Proofs about Intake, for every set of beliefs, processes and limits:    *)
(* what comes in is not lost, what goes out has been admitted, and what an *)
(* answer may miss.                                                        *)
(***************************************************************************)
EXTENDS Intake, BeliefStoreProofs, FiniteSetTheorems

(***************************************************************************)
(* What a belief of a sound store looks like when it has been admitted,    *)
(* and when no verdict has been given.                                     *)
(***************************************************************************)
Fit(b) == Admitted(b) /\ ~Refused(b)

LEMMA FitTables ==
  ASSUME StoreInv, NEW b \in Belief
  PROVE  Fit(b) <=> verdicts[b] = <<"trusted">> \/ quarantine[b] = <<"released">>
  <1>1. Story(b)
    BY DEF StoreInv, Lifecycle
  <1>2. CASE verdicts[b] = <<>> /\ quarantine[b] = <<>>
    BY <1>2 DEF Fit, Admitted, Refused
  <1>3. CASE verdicts[b] = <<"inconclusive">> /\ quarantine[b] = <<>>
    BY <1>3 DEF Fit, Admitted, Refused
  <1>4. CASE verdicts[b] = <<"trusted">> /\ quarantine[b] = <<>>
    <2>1. 1 \in 1..Len(verdicts[b]) /\ verdicts[b][1] = "trusted"
      BY <1>4
    <2>2. QED
      BY <1>4, <2>1 DEF Fit, Admitted, Refused
  <1>5. ASSUME NEW d \in Disposition, verdicts[b] = <<"quarantined">>,
               quarantine[b] = <<d>>
        PROVE  Fit(b) <=> d = "released"
    <2>1. /\ 1..Len(verdicts[b]) = {1} /\ verdicts[b][1] = "quarantined"
          /\ 1..Len(quarantine[b]) = {1} /\ quarantine[b][1] = d
      BY <1>5
    <2>2. QED
      BY <2>1 DEF Fit, Admitted, Refused, Disposition
  <1>6. QED
    BY <1>1, <1>2, <1>3, <1>4, <1>5 DEF Story, Tables, Disposition

(***************************************************************************)
(* A step of the tables between sound stores that keeps the records keeps  *)
(* what has been admitted admitted, and every verdict.                     *)
(***************************************************************************)
LEMMA FitStays ==
  ASSUME StoreInv, StoreInv', KeepsRecords, NEW b \in Belief, Fit(b)
  PROVE  Fit(b)'
  <1>1. KeepsRecord(b) /\ Story(b)'
    BY DEF KeepsRecords, StoreInv, Lifecycle
  <1>2. verdicts[b] = <<"trusted">> \/ quarantine[b] = <<"released">>
    BY FitTables
  <1>3. CASE verdicts[b] = <<"trusted">>
    <2>1. 1 <= Len(verdicts'[b]) /\ verdicts'[b][1] = "trusted"
      BY <1>1, <1>3 DEF KeepsRecord
    <2>2. verdicts'[b] = <<"trusted">> /\ quarantine'[b] = <<>>
      BY <1>1, <2>1 DEF Story, Tables
    <2>3. 1 \in 1..Len(verdicts'[b])
      BY <2>2
    <2>4. QED
      BY <2>1, <2>2, <2>3 DEF Fit, Admitted, Refused
  <1>4. CASE quarantine[b] = <<"released">>
    <2>1. 1 <= Len(quarantine'[b]) /\ quarantine'[b][1] = "released"
      BY <1>1, <1>4 DEF KeepsRecord
    <2>2. quarantine'[b] = <<"released">>
      BY <1>1, <2>1 DEF Story, Tables
    <2>3. 1..Len(quarantine'[b]) = {1}
      BY <2>2
    <2>4. QED
      BY <2>1, <2>3 DEF Fit, Admitted, Refused
  <1>5. QED
    BY <1>2, <1>3, <1>4

LEMMA VerdictsStay ==
  ASSUME KeepsRecords, NEW b \in Belief, verdicts'[b] = <<>>,
         verdicts[b] \in Seq(Verdict)
  PROVE  verdicts[b] = <<>>
  <1>1. KeepsRecord(b)
    BY DEF KeepsRecords
  <1>2. CASE Len(verdicts[b]) > 0
    <2>1. 1 \in 1..Len(verdicts[b])
      BY <1>2
    <2>2. 1 <= Len(verdicts'[b])
      BY <1>1, <2>1 DEF KeepsRecord
    <2>3. QED
      BY <2>2
  <1>3. QED
    BY <1>2

LEMMA RetrievableFit ==
  ASSUME StoreInv, NEW b \in TrustedCurrent
  PROVE  b \in Belief /\ Fit(b)
  <1>1. b \in Belief /\ status[b] = "trusted" /\ Story(b)
    BY DEF TrustedCurrent, StoreInv, Lifecycle
  <1>2. QED
    BY <1>1, FitTables DEF Story, Tables

LEMMA TrustedFit ==
  ASSUME StoreInv, NEW b \in Belief, status[b] = "trusted"
  PROVE  Fit(b)
  <1>1. Story(b)
    BY DEF StoreInv, Lifecycle
  <1>2. QED
    BY <1>1, FitTables DEF Story, Tables

-----------------------------------------------------------------------------
(***************************************************************************)
(* The store of the settings that begin with a belief.                     *)
(***************************************************************************)
LEMMA UsedStoreSound == UsedStore => StoreInv
  <1> SUFFICES ASSUME UsedStore PROVE StoreInv
    OBVIOUS
  <1>0. Old \in Belief /\ NoBelief \notin Belief
    BY OldAssumption, NoBeliefAssumption
  <1>1. /\ fact[Old] \in [key : Key, claim : Claim, txFrom : {1}]
        /\ fact \in [Belief -> Fact \union {NoFact}]
    BY <1>0 DEF UsedStore, Fact
  <1>2. fact[Old] \in Fact /\ fact[Old].txFrom = 1
    BY <1>1 DEF Fact
  <1>3. TypeOK
    <2>1. <<"trusted">> \in Seq(Verdict) /\ <<>> \in Seq(Verdict)
          /\ <<>> \in Seq(Disposition)
      BY DEF Verdict
    <2>2. verdicts \in [Belief -> Seq(Verdict)]
          /\ quarantine \in [Belief -> Seq(Disposition)]
      BY <2>1 DEF UsedStore
    <2>3. /\ status \in [Belief -> Status] /\ scored \in [Belief -> BOOLEAN]
          /\ screened \in [Belief -> BOOLEAN] /\ txTo \in [Belief -> Nat]
          /\ supersededBy \in [Belief -> Belief \union {NoBelief}]
      BY DEF UsedStore, Status
    <2>4. QED
      BY <1>1, <2>2, <2>3 DEF UsedStore, TypeOK
  <1>4. Lifecycle
    <2> SUFFICES ASSUME NEW b \in Belief PROVE Story(b)
      BY DEF Lifecycle
    <2>1. CASE b = Old
      <3>1. /\ verdicts[b] = <<"trusted">> /\ quarantine[b] = <<>>
            /\ status[b] = "trusted" /\ scored[b] = TRUE /\ screened[b] = TRUE
        BY <2>1, <1>0 DEF UsedStore
      <3>2. verdicts[b] # <<>>
        BY <3>1
      <3>3. QED
        BY <3>1, <3>2 DEF Story, Tables
    <2>2. CASE b # Old
      <3>1. /\ verdicts[b] = <<>> /\ quarantine[b] = <<>>
            /\ status[b] = "absent" /\ scored[b] = FALSE /\ screened[b] = FALSE
        BY <2>2 DEF UsedStore
      <3>2. QED
        BY <3>1 DEF Story, Tables
    <2>3. QED
      BY <2>1, <2>2
  <1>5. Unwritten
    BY <1>0 DEF UsedStore, Unwritten
  <1>6. Dated
    BY <1>0, <1>2 DEF UsedStore, Dated
  <1>7. Closed
    BY <1>0 DEF UsedStore, Closed
  <1>8. SupersessionExplained
    BY <1>0 DEF UsedStore, SupersessionExplained, Supersedes
  <1>9. QED
    BY <1>3, <1>4, <1>5, <1>6, <1>7, <1>8 DEF StoreInv

LEMMA FreshUnused ==
  ASSUME NEW n, kSubset(n, Unused) # {}
  PROVE  Fresh(n) \subseteq Unused
  <1>1. Fresh(n) \in kSubset(n, Unused)
    BY DEF Fresh
  <1>2. QED
    BY <1>1 DEF kSubset

LEMMA NewIdUnused == NewId \subseteq Belief
  <1>1. CASE Unused # {}
    <2>1. PICK b \in Unused : TRUE
      BY <1>1
    <2>2. Cardinality({b}) = 1
      BY FS_Singleton
    <2>3. {b} \in kSubset(1, Unused)
      BY <2>1, <2>2 DEF kSubset
    <2>4. QED
      BY <1>1, <2>3, FreshUnused DEF NewId, Unused
  <1>2. QED
    BY <1>1 DEF NewId

(***************************************************************************)
(* A2 writes several pending beliefs at once, and nothing else of the      *)
(* tables.                                                                 *)
(***************************************************************************)
LEMMA DerivingKeeps ==
  ASSUME StoreInv, NEW parents \in SUBSET Belief, NEW new \in SUBSET Unused,
         WriteDerived(parents, new)
  PROVE  StoreInv' /\ KeepsRecords
  <1>1. /\ \A b \in new : b \in Belief /\ status[b] = "absent"
        /\ \A b \in Belief : status'[b] = IF b \in new THEN "pending" ELSE status[b]
        /\ status' \in [Belief -> Status]
    BY DEF Unused, WriteDerived, StoreInv, TypeOK, Status
  <1>2. PICK k \in [new -> Key], c \in [new -> Claim] :
            fact' = [b \in Belief |->
                        IF b \in new
                        THEN [key |-> k[b], claim |-> c[b], txFrom |-> clock + 1]
                        ELSE fact[b]]
    BY DEF WriteDerived
  <1>3. \A b \in new : [key |-> k[b], claim |-> c[b], txFrom |-> clock + 1] \in Fact
    BY DEF StoreInv, TypeOK, Fact
  <1>4. /\ fact' \in [Belief -> Fact \union {NoFact}]
        /\ \A b \in new : fact'[b] \in Fact /\ fact'[b].txFrom = clock + 1
        /\ \A b \in Belief \ new : fact'[b] = fact[b]
    BY <1>1, <1>2, <1>3 DEF StoreInv, TypeOK
  <1>5. TypeOK'
    BY <1>1, <1>4 DEF StoreInv, TypeOK, WriteDerived
  <1>6. Lifecycle'
    <2> SUFFICES ASSUME NEW b \in Belief PROVE Story(b)'
      BY DEF Lifecycle
    <2>1. Story(b)
      BY DEF StoreInv, Lifecycle
    <2>2. QED
      BY <1>1, <2>1 DEF Story, Tables, WriteDerived
  <1>7. Unwritten'
    BY <1>1 DEF StoreInv, Unwritten, WriteDerived
  <1>8. Dated'
    <2> SUFFICES ASSUME NEW b \in Belief, status'[b] # "absent"
                 PROVE  fact'[b] \in Fact /\ fact'[b].txFrom <= clock'
      BY DEF Dated
    <2>1. clock' = clock + 1 /\ clock \in Nat
      BY DEF WriteDerived, StoreInv, TypeOK
    <2>2. CASE b \in new
      BY <1>4, <2>1, <2>2
    <2>3. CASE b \notin new
      <3>1. fact'[b] = fact[b] /\ fact[b] \in Fact /\ fact[b].txFrom <= clock
        BY <1>1, <1>4, <2>3 DEF StoreInv, Dated
      <3>2. QED
        BY <2>1, <3>1 DEF Fact
    <2>4. QED
      BY <2>2, <2>3
  <1>9. Closed'
    BY DEF StoreInv, Closed, WriteDerived
  <1>10. SupersessionExplained'
    <2> SUFFICES ASSUME NEW l \in Belief
                 PROVE  /\ status'[l] = "superseded" <=> supersededBy'[l] # NoBelief
                        /\ \A w \in Belief : Supersedes(w, l)' =>
                              /\ status'[w] # "absent" /\ Explained(w, l)'
                              /\ \A m \in Belief : Supersedes(w, m)' => m = l
      BY DEF SupersessionExplained
    <2>1. supersededBy' = supersededBy /\ txTo' = txTo
          /\ contradictions' = contradictions
      BY DEF WriteDerived
    <2>2. status'[l] = "superseded" <=> supersededBy'[l] # NoBelief
      BY <1>1, <2>1 DEF StoreInv, SupersessionExplained
    <2>3. ASSUME NEW w \in Belief, supersededBy[l] = w
          PROVE  /\ status'[w] # "absent" /\ Explained(w, l)'
                 /\ \A m \in Belief : Supersedes(w, m)' => m = l
      <3>1. /\ status[w] # "absent" /\ Explained(w, l)
            /\ \A m \in Belief : Supersedes(w, m) => m = l
        BY <2>3 DEF StoreInv, SupersessionExplained, Supersedes
      <3>2. status[l] = "superseded"
        BY <2>3, NoBeliefAssumption DEF StoreInv, SupersessionExplained
      <3>3. w \notin new /\ l \notin new
        BY <1>1, <3>1, <3>2
      <3>4. fact'[w] = fact[w] /\ fact'[l] = fact[l]
        BY <1>4, <3>3
      <3>5. QED
        BY <1>1, <2>1, <3>1, <3>3, <3>4 DEF Explained, Supersedes
    <2>4. QED
      BY <2>1, <2>2, <2>3 DEF Supersedes
  <1>11. KeepsRecords
    <2> SUFFICES ASSUME NEW b \in Belief PROVE KeepsRecord(b)
      BY DEF KeepsRecords, WriteDerived
    <2>1. verdicts' = verdicts /\ quarantine' = quarantine
      BY DEF WriteDerived
    <2>2. \A n \in 1..Len(verdicts[b]) : n <= Len(verdicts[b])
          /\ \A m \in 1..Len(quarantine[b]) : m <= Len(quarantine[b])
      BY DEF StoreInv, TypeOK
    <2>3. \A m \in 1..Len(quarantine[b]) : m <= Len(quarantine[b])
      BY DEF StoreInv, TypeOK
    <2>4. QED
      BY <1>1, <1>4, <2>1, <2>2, <2>3 DEF KeepsRecord, WriteDerived
  <1>12. QED
    BY <1>5, <1>6, <1>7, <1>8, <1>9, <1>10, <1>11 DEF StoreInv

-----------------------------------------------------------------------------
(***************************************************************************)
(* What each step does to the tables: nothing, a step of the store, or the *)
(* writing of derived beliefs.                                             *)
(***************************************************************************)
LEMMA TablesStep ==
  ASSUME StoreInv, [Next]_vars
  PROVE  StoreInv' /\ KeepsRecords
  <1>1. StoreInv'
    BY StepPreservesStoreInv
  <1>2. CASE UNCHANGED vars
    <2>1. \A b \in Belief : KeepsRecord(b)
      BY <1>2 DEF vars, KeepsRecord, StoreInv, TypeOK
    <2>2. QED
      BY <1>1, <1>2, <2>1 DEF vars, KeepsRecords
  <1>3. QED
    BY <1>1, <1>2, StoreTables, StepKeepsRecords

LEMMA InferSound ==
  ASSUME StoreInv, Infer \/ InferLost
  PROVE  StoreInv' /\ KeepsRecords
  <1>1. CASE Infer
    <2>1. PICK parents \in SUBSET Belief, n \in Sizes :
              WriteDerived(parents, Fresh(n))
      BY <1>1 DEF Infer
    <2>2. Fresh(n) \subseteq Unused
      BY FreshUnused DEF Sizes
    <2>3. QED
      BY <2>1, <2>2, DerivingKeeps
  <1>2. CASE InferLost
    BY <1>2, TablesStep DEF InferLost
  <1>3. QED
    BY <1>1, <1>2

LEMMA IntakeTables ==
  ASSUME StoreInv, feed \subseteq Belief, [IntakeNext]_intakeVars
  PROVE  StoreInv' /\ KeepsRecords
  <1>1. ASSUME NEW b \in Belief, \/ Ingest(b) \/ Review(b)
                                 \/ \E v \in Verdict : Screen(b, v)
        PROVE  StoreInv' /\ KeepsRecords
    BY <1>1, TablesStep DEF Next
  <1>2. CASE UNCHANGED vars
    BY <1>2, TablesStep
  <1>3. CASE Calls
    <2>1. CallsNext
      BY <1>3 DEF Calls
    <2>2. ASSUME NEW w \in Writer, NEW b \in NewId, Write(w, b)
          PROVE  StoreInv' /\ KeepsRecords
      BY <1>1, <2>2, NewIdUnused DEF Write
    <2>3. QED
      BY <1>1, <1>2, <2>1, <2>2 DEF CallsNext, Polled
  <1>4. CASE Feed
    <2>1. FeedNext
      BY <1>4 DEF Feed
    <2>2. ASSUME NEW b \in feed, Deliver(b)
          PROVE  UNCHANGED vars \/ \E v \in Verdict : Screen(b, v)
      BY <2>2 DEF Deliver, ScreenEntry, Fail
    <2>3. QED
      BY <1>1, <1>2, <2>1, <2>2, NewIdUnused, InferSound DEF FeedNext
  <1>5. CASE Consume
    BY <1>1, <1>2, <1>5, NewIdUnused, InferSound DEF Consume, RecallNext
  <1>6. CASE UNCHANGED intakeVars
    BY <1>2, <1>6 DEF intakeVars
  <1>7. QED
    BY <1>3, <1>4, <1>5, <1>6 DEF IntakeNext

-----------------------------------------------------------------------------
(***************************************************************************)
(* The change feed.  Whatever a step does to the tables, the beliefs it    *)
(* adds are emitted, and only a screening or a report ends a delivery.     *)
(***************************************************************************)
Undelivered(b) ==
    status[b] # "absent" /\ verdicts[b] = <<>> => b \in feed \union reported

LEMMA EmitLosesNothing ==
  ASSUME StoreInv, StoreInv', KeepsRecords, Emit,
         feed \subseteq Belief, NothingLost
  PROVE  feed' \subseteq Belief /\ NothingLost'
  <1>1. feed' \subseteq Belief
    BY DEF Emit, Emitted
  <1>2. ASSUME NEW b \in Belief, status'[b] # "absent", verdicts'[b] = <<>>
        PROVE  b \in feed' \union reported'
    <2>1. verdicts[b] = <<>>
      BY <1>2, VerdictsStay DEF StoreInv, TypeOK
    <2>2. CASE status[b] = "absent"
      <3>1. Story(b)'
        BY DEF StoreInv, Lifecycle
      <3>2. status'[b] = "pending"
        BY <1>2, <3>1 DEF Story, Tables
      <3>3. ~scored'[b]
        BY <1>2, <3>1 DEF Story
      <3>4. QED
        BY <2>2, <3>2, <3>3 DEF Emit, Emitted, Skips
    <2>3. CASE status[b] # "absent"
      BY <2>1, <2>3 DEF NothingLost, Emit
    <2>4. QED
      BY <2>2, <2>3
  <1>3. QED
    BY <1>1, <1>2 DEF NothingLost

LEMMA DeliverLosesNothing ==
  ASSUME StoreInv, NEW b \in Belief, Deliver(b),
         feed \subseteq Belief, NothingLost
  PROVE  feed' \subseteq Belief /\ NothingLost'
  <1>1. feed' \subseteq Belief /\ feed \subseteq feed' \union {b}
    BY DEF Deliver, ScreenEntry, Fail, Answer
  <1>2. CASE Fail(b)
    BY <1>1, <1>2 DEF Fail, NothingLost, vars
  <1>3. CASE ScreenEntry(b)
    <2>1. CASE verdicts[b] # <<>> /\ UNCHANGED vars
      BY <1>1, <1>3, <2>1 DEF ScreenEntry, NothingLost, vars
    <2>2. ASSUME NEW v \in Verdict, Screen(b, v)
          PROVE  NothingLost'
      <3>1. /\ verdicts'[b] # <<>>
            /\ \A x \in Belief \ {b} : verdicts'[x] = verdicts[x]
            /\ \A x \in Belief : status[x] = "absent" => status'[x] = "absent"
        BY <2>2 DEF Screen, StoreInv, TypeOK
      <3>2. \A x \in Belief \ {b} : status'[x] = status[x]
        BY <2>2 DEF Screen, StoreInv, TypeOK
      <3>3. QED
        BY <1>1, <1>3, <3>1, <3>2 DEF ScreenEntry, NothingLost
    <2>3. QED
      BY <1>1, <1>3, <2>1, <2>2 DEF ScreenEntry
  <1>4. QED
    BY <1>1, <1>2, <1>3 DEF Deliver

-----------------------------------------------------------------------------
(***************************************************************************)
(* The inductive invariant: the tables are sound, the feed has what no     *)
(* answer has named, and what consumers and A2 have in hand is admitted.   *)
(***************************************************************************)
FeedInv == feed \subseteq Belief /\ NoSilentLoss

InfluenceInv ==
    /\ derivedFrom \in [Belief -> SUBSET Belief] /\ DerivedFromAdmitted
    /\ answer \subseteq Belief /\ InfluencersAdmitted

LogInv ==
    /\ session \in {"usable", "aborted"}
    /\ unlogged \in Nat /\ refused \in Nat
    /\ OneUnlogged

IntakeInv == StoreInv /\ FeedInv /\ InfluenceInv /\ LogInv

LEMMA IntakeBegins == IntakeInit => IntakeInv
  <1> SUFFICES ASSUME IntakeInit PROVE IntakeInv
    OBVIOUS
  <1>1. StoreInv
    BY InitEstablishesStoreInv, UsedStoreSound DEF IntakeInit
  <1>2. FeedInv
    <2>1. feed \subseteq Belief
      BY DEF IntakeInit, FeedInit
    <2>2. ASSUME UsedStore PROVE NothingLost
      <3>1. \A b \in Belief : status[b] # "absent" => verdicts[b] = <<"trusted">>
        BY <2>2 DEF UsedStore
      <3>2. QED
        BY <3>1 DEF NothingLost
    <2>3. QED
      BY <2>1, <2>2 DEF IntakeInit, FeedInv, NoSilentLoss
  <1>3. InfluenceInv
    BY DEF IntakeInit, InferenceInit, RecallInit, InfluenceInv,
           DerivedFromAdmitted, InfluencersAdmitted
  <1>4. LogInv
    BY DEF IntakeInit, RecallInit, LogInv, OneUnlogged
  <1>5. QED
    BY <1>1, <1>2, <1>3, <1>4 DEF IntakeInv

LEMMA FeedStep ==
  ASSUME IntakeInv, [IntakeNext]_intakeVars
  PROVE  FeedInv'
  <1>1. StoreInv /\ StoreInv' /\ KeepsRecords /\ feed \subseteq Belief
    BY IntakeTables DEF IntakeInv, FeedInv
  <1>2. CASE Calls
    BY <1>2 DEF Calls, feedVars, IntakeInv, FeedInv, NoSilentLoss
  <1>3. CASE Feed
    <2>1. setting = "feed" /\ setting' = "feed" /\ NothingLost /\ FeedNext
      BY <1>3 DEF Feed, IntakeInv, FeedInv, NoSilentLoss
    <2>2. CASE Emit
      BY <1>1, <2>1, <2>2, EmitLosesNothing DEF FeedInv, NoSilentLoss
    <2>3. ASSUME NEW b \in feed, Deliver(b)
          PROVE  FeedInv'
      BY <1>1, <2>1, <2>3, DeliverLosesNothing DEF FeedInv, NoSilentLoss
    <2>4. QED
      BY <2>1, <2>2, <2>3 DEF FeedNext
  <1>4. CASE Consume
    BY <1>4 DEF Consume, feedVars, IntakeInv, FeedInv, NoSilentLoss
  <1>5. CASE UNCHANGED intakeVars
    BY <1>5 DEF intakeVars, vars, feedVars, IntakeInv, FeedInv, NoSilentLoss,
                NothingLost
  <1>6. QED
    BY <1>2, <1>3, <1>4, <1>5 DEF IntakeNext

(***************************************************************************)
(* What is derived in a step is derived from trusted beliefs, and what is  *)
(* answered is retrievable.                                                *)
(***************************************************************************)
LEMMA NewParents ==
  ASSUME IntakeInv, [IntakeNext]_intakeVars
  PROVE  /\ derivedFrom' \in [Belief -> SUBSET Belief]
         /\ \A b \in Belief : \/ derivedFrom'[b] = derivedFrom[b]
                              \/ \A p \in derivedFrom'[b] : status[p] = "trusted"
  <1>1. derivedFrom \in [Belief -> SUBSET Belief]
    BY DEF IntakeInv, InfluenceInv
  <1>2. CASE UNCHANGED derivedFrom
    BY <1>1, <1>2
  <1>3. CASE Infer
    <2>1. PICK parents \in SUBSET Belief, n \in Sizes :
              Call(parents, Fresh(n)) /\ WriteDerived(parents, Fresh(n))
      BY <1>3 DEF Infer
    <2>2. \A p \in parents : status[p] = "trusted"
      BY <2>1 DEF Call, MayDerive
    <2>3. derivedFrom' = [b \in Belief |-> IF b \in Fresh(n) THEN parents
                                                             ELSE derivedFrom[b]]
      BY <2>1 DEF WriteDerived
    <2>4. QED
      BY <1>1, <2>2, <2>3
  <1>4. Infer \/ UNCHANGED derivedFrom
    BY DEF IntakeNext, Calls, Feed, FeedNext, Consume, RecallNext, InferLost,
           intakeVars, inferenceVars
  <1>5. QED
    BY <1>2, <1>3, <1>4

LEMMA UpToSubset ==
  ASSUME NEW rows, NEW n, NEW taken \in UpTo(rows, n)
  PROVE  taken \subseteq rows
  BY DEF UpTo, kSubset

LEMMA NewAnswers ==
  ASSUME IntakeInv, [IntakeNext]_intakeVars
  PROVE  answer' = answer \/ answer' \subseteq TrustedCurrent
  <1>1. CASE Search
    <2>1. PICK considered \in Considered, wanted \in Filters :
              answer' \in UpTo(Visible(considered, wanted), Limit)
      BY <1>1 DEF Search
    <2>2. QED
      BY <2>1, UpToSubset DEF Visible
  <1>2. Search \/ UNCHANGED answer
    BY DEF IntakeNext, Calls, Feed, Consume, RecallNext, Recall, SearchFails,
           Reconnect, intakeVars, recallVars
  <1>3. QED
    BY <1>1, <1>2

LEMMA InfluenceStep ==
  ASSUME IntakeInv, [IntakeNext]_intakeVars
  PROVE  InfluenceInv'
  <1>1. StoreInv /\ StoreInv' /\ KeepsRecords
    BY IntakeTables DEF IntakeInv, FeedInv
  <1>2. \A b \in Belief : Fit(b) => Fit(b)'
    BY <1>1, FitStays
  <1>3. \A b \in Belief : \A p \in derivedFrom'[b] : Fit(p)'
    <2> SUFFICES ASSUME NEW b \in Belief, NEW p \in derivedFrom'[b] PROVE Fit(p)'
      OBVIOUS
    <2>1. p \in Belief
      BY NewParents
    <2>2. CASE derivedFrom'[b] = derivedFrom[b]
      <3>1. Fit(p)
        BY <2>2 DEF IntakeInv, InfluenceInv, DerivedFromAdmitted, Fit
      <3>2. QED
        BY <1>2, <2>1, <3>1
    <2>3. CASE status[p] = "trusted"
      <3>1. Fit(p)
        BY <1>1, <2>1, <2>3, TrustedFit
      <3>2. QED
        BY <1>2, <2>1, <3>1
    <2>4. QED
      BY <2>2, <2>3, NewParents
  <1>4. answer' \subseteq Belief /\ \A b \in answer' : Fit(b)'
    <2>1. ASSUME NEW b \in answer' PROVE b \in Belief /\ Fit(b)
      <3>1. CASE answer' = answer
        BY <2>1, <3>1 DEF IntakeInv, InfluenceInv, InfluencersAdmitted, Fit
      <3>2. CASE answer' \subseteq TrustedCurrent
        BY <1>1, <2>1, <3>2, RetrievableFit
      <3>3. QED
        BY <3>1, <3>2, NewAnswers
    <2>2. QED
      BY <1>2, <2>1
  <1>5. QED
    BY <1>3, <1>4, NewParents
       DEF InfluenceInv, DerivedFromAdmitted, InfluencersAdmitted, Fit

LEMMA LogStep ==
  ASSUME LogInv, [IntakeNext]_intakeVars
  PROVE  LogInv'
  <1> USE DEF LogInv, OneUnlogged
  <1>1. CASE UNCHANGED recallVars
    BY <1>1 DEF recallVars
  <1>2. CASE Recall
    BY <1>2 DEF Recall, Search, Logged, CommitRefused, NotLogged
  <1>3. CASE SearchFails \/ Reconnect
    BY <1>3 DEF SearchFails, Reconnect
  <1>4. UNCHANGED recallVars \/ Recall \/ SearchFails \/ Reconnect
    BY DEF IntakeNext, Calls, Feed, Consume, RecallNext, intakeVars
  <1>5. QED
    BY <1>1, <1>2, <1>3, <1>4

THEOREM IntakeInvariant == IntakeSpec => []IntakeInv
  <1>1. IntakeInv /\ [IntakeNext]_intakeVars => IntakeInv'
    BY IntakeTables, FeedStep, InfluenceStep, LogStep DEF IntakeInv, FeedInv
  <1>2. QED
    BY IntakeBegins, <1>1, PTL DEF IntakeSpec

-----------------------------------------------------------------------------
(***************************************************************************)
(* Beliefs come in by A1 and A2, are screened by the gate and decided by   *)
(* reviewers, in any order, and the tables stay sound; A2, which asks      *)
(* neither A13 nor A7, is no exception.                                    *)
(***************************************************************************)
THEOREM IntakeLifecycle == IntakeSpec => [](TypeOK /\ Lifecycle)
  <1>1. IntakeInv => TypeOK /\ Lifecycle
    BY DEF IntakeInv, StoreInv
  <1>2. QED
    BY <1>1, IntakeInvariant, PTL

(***************************************************************************)
(* A2 writes several beliefs in one transaction and without a7_resolve, so *)
(* this is not an implementation of the store; yet whoever writes and      *)
(* screens, what consumers retrieve has been admitted, every held belief   *)
(* waits for one decision, supersessions stay explained, no record is      *)
(* rewritten and no belief goes back.                                      *)
(***************************************************************************)
THEOREM IntakeKeepsStoreSound ==
  IntakeSpec => /\ [](Vetted /\ ReviewQueueExact /\ SupersessionExplained)
                /\ RecordsKept
                /\ [][NeverBack]_vars
  <1>1. IntakeInv => Vetted /\ ReviewQueueExact /\ SupersessionExplained
    BY LifecycleVets, LifecycleQueues DEF IntakeInv, StoreInv
  <1>2. IntakeInv /\ [IntakeNext]_intakeVars => [KeepsRecords]_vars
    BY IntakeTables DEF IntakeInv, FeedInv
  <1>3. IntakeInv /\ [IntakeNext]_intakeVars => [NeverBack]_vars
    BY IntakeTables, StoreGoesForward DEF IntakeInv, FeedInv
  <1>4. QED
    BY <1>1, <1>2, <1>3, IntakeInvariant, PTL DEF IntakeSpec, RecordsKept

(***************************************************************************)
(* NoSilentLoss: however late, often or out of order the change feed       *)
(* delivers, a belief without a verdict is still to be delivered, or an    *)
(* answer of handler.py has named it among its errors.                     *)
(***************************************************************************)
THEOREM NothingSilentlyLost == IntakeSpec => []NoSilentLoss
  <1>1. IntakeInv => NoSilentLoss
    BY DEF IntakeInv, FeedInv
  <1>2. QED
    BY <1>1, IntakeInvariant, PTL

(***************************************************************************)
(* InfluenceVetted: what recall/engine.py answers, and what                *)
(* a2_inference.py derives beliefs from, the gate or a reviewer has        *)
(* admitted and nobody has rejected.                                       *)
(***************************************************************************)
THEOREM InfluenceIsVetted == IntakeSpec => []InfluenceVetted
  <1>1. IntakeInv => InfluenceVetted
    BY DEF IntakeInv, InfluenceInv, InfluenceVetted
  <1>2. QED
    BY <1>1, IntakeInvariant, PTL

(***************************************************************************)
(* OneUnlogged: apart from refused commits, a connection of                *)
(* recall/engine.py gives at most one answer that is not in the log.       *)
(***************************************************************************)
THEOREM AtMostOneUnlogged == IntakeSpec => []OneUnlogged
  <1>1. IntakeInv => OneUnlogged
    BY DEF IntakeInv, LogInv
  <1>2. QED
    BY <1>1, IntakeInvariant, PTL

(***************************************************************************)
(* CrowdedOut: what a short answer misses of the rows that engine.py:96    *)
(* searches, those with an embedding, has been crowded out; and the others *)
(* are in no answer: for every finite set of beliefs, every limit and any  *)
(* oversampling.                                                           *)
(***************************************************************************)
LEMMA ShortAnswers ==
  ASSUME IsFiniteSet(Belief), Search,
         Cardinality(answer') < Limit, missed'
  PROVE  crowd' > Nearest - Limit
  <1>1. PICK considered \in Considered, wanted \in Filters :
            /\ answer' \in UpTo(Visible(considered, wanted), Limit)
            /\ crowd' = Cardinality(considered \ Visible(considered, wanted))
            /\ Visible(Indexed, wanted) \ answer' # {}
    BY DEF Search
  <1>2. considered \subseteq Indexed /\ Indexed \subseteq Belief
        /\ considered \in UpTo(Indexed, Nearest)
    BY <1>1, UpToSubset DEF Considered, Indexed, Written
  <1>3. IsFiniteSet(considered)
    BY <1>2, FS_Subset
  <1>4. answer' = Visible(considered, wanted)
    <2>1. CASE Cardinality(Visible(considered, wanted)) <= Limit
      BY <1>1, <2>1 DEF UpTo
    <2>2. CASE ~(Cardinality(Visible(considered, wanted)) <= Limit)
      <3>1. Cardinality(answer') = Limit
        BY <1>1, <2>2 DEF UpTo, kSubset
      <3>2. QED
        BY <3>1, RecallAssumption
    <2>3. QED
      BY <2>1, <2>2
  <1>5. Cardinality(considered) = Nearest
    <2>1. considered # Indexed
      BY <1>1, <1>4
    <2>2. QED
      BY <1>2, <2>1 DEF UpTo, kSubset
  <1>6. Cardinality(considered \ Visible(considered, wanted))
          = Cardinality(considered) - Cardinality(Visible(considered, wanted))
    <2>1. considered \intersect Visible(considered, wanted) = Visible(considered, wanted)
      BY DEF Visible
    <2>2. QED
      BY <1>3, <2>1, FS_Difference
  <1>7. Cardinality(Visible(considered, wanted)) \in Nat
    <2>1. IsFiniteSet(Visible(considered, wanted))
      BY <1>3, FS_Subset DEF Visible
    <2>2. QED
      BY <2>1, FS_CardinalityType
  <1>8. QED
    BY <1>1, <1>4, <1>5, <1>6, <1>7, RecallAssumption

LEMMA AnswersIndexed ==
  ASSUME Search
  PROVE  answer' \subseteq Indexed
  <1>1. PICK considered \in Considered, wanted \in Filters :
            answer' \in UpTo(Visible(considered, wanted), Limit)
    BY DEF Search
  <1>2. considered \subseteq Indexed
    BY UpToSubset DEF Considered
  <1>3. QED
    BY <1>1, <1>2, UpToSubset DEF Visible

THEOREM CrowdingExplained ==
  ASSUME IsFiniteSet(Belief)
  PROVE  IntakeSpec => CrowdedOut
  <1>1. [IntakeNext]_intakeVars =>
            [recalls' # recalls =>
                /\ \A b \in answer' : derivedFrom[b] = {}
                /\ Cardinality(answer') < Limit /\ missed' => crowd' > Nearest - Limit
            ]_<<vars, inferenceVars, recallVars>>
    <2> SUFFICES ASSUME [IntakeNext]_intakeVars, recalls' # recalls
                 PROVE  /\ \A b \in answer' : derivedFrom[b] = {}
                        /\ Cardinality(answer') < Limit /\ missed' => crowd' > Nearest - Limit
      OBVIOUS
    <2>1. Search
      BY DEF IntakeNext, Calls, Feed, Consume, RecallNext, Recall, SearchFails,
             Reconnect, intakeVars, recallVars
    <2>2. QED
      BY <2>1, ShortAnswers, AnswersIndexed DEF Indexed
  <1>2. QED
    BY <1>1, PTL DEF IntakeSpec, CrowdedOut

-----------------------------------------------------------------------------
(***************************************************************************)
(* The calls behind A13.  A slot is owed if its call has that many writes  *)
(* to go, or if its connection is trusted: what its open transaction has   *)
(* counted is below the limit, so that the next call on it is admitted     *)
(* whatever has been written since.  The rows that count for a limit and   *)
(* the slots owed together stay below the limit and all slots: a count     *)
(* that is taken afresh leaves any number of slots, and a write gives up   *)
(* the slot that it fills.                                                 *)
(***************************************************************************)
QuotaTrusted == {w \in Writer : transaction[w] = "open" /\ seen[w].writes < Quota}

DepthTrusted == {w \in Writer : transaction[w] = "open" /\ seen[w].pending < Throttle}

Owed(trusted) == {s \in Slots : s[2] <= left[s[1]] \/ s[1] \in trusted}

Within(rows, slots, limit) ==
    /\ IsFiniteSet(rows)
    /\ Cardinality(rows) + Cardinality(slots) < limit + Allowance

AdmittedOnCounts ==
    \A w \in Writer : at[w] = "admitted" /\ transaction[w] = "open" =>
        w \in QuotaTrusted \intersect DepthTrusted

CallsInv ==
    /\ AdmissionTypeOK /\ AdmittedOnCounts
    /\ Within(recent, Owed(QuotaTrusted), Quota)
    /\ setting = "calls" => Within(Pending, Owed(DepthTrusted), Throttle)

LEMMA SlotsFinite ==
  /\ IsFiniteSet(Slots) /\ Allowance \in Nat
  /\ \A slots \in SUBSET Slots :
        /\ IsFiniteSet(slots) /\ Cardinality(slots) \in Nat
        /\ Cardinality(slots) <= Allowance
  <1> DEFINE Part(w) == {w} \X (1..MaxBeliefs[w])
             Parts == {Part(w) : w \in Writer}
             part == [w \in Writer |-> Part(w)]
  <1>1. part \in Surjection(Writer, Parts)
    BY DEF Surjection
  <1>2. IsFiniteSet(Parts)
    BY <1>1, FS_Surjection, AdmissionAssumption
  <1>3. ASSUME NEW w \in Writer PROVE IsFiniteSet(Part(w))
    <2>1. IsFiniteSet({w})
      BY FS_Singleton
    <2>2. MaxBeliefs[w] \in Int
      BY AdmissionAssumption
    <2>3. IsFiniteSet(1..MaxBeliefs[w])
      BY <2>2, FS_Interval
    <2>4. QED
      BY <2>1, <2>3, FS_Product
  <1>4. IsFiniteSet(Slots)
    <2>1. \A T \in Parts : IsFiniteSet(T)
      BY <1>3
    <2>2. Slots = UNION Parts
      BY DEF Slots
    <2>3. QED
      BY <1>2, <2>1, <2>2, FS_UNION
  <1>5. ASSUME NEW slots \in SUBSET Slots
        PROVE  /\ IsFiniteSet(slots) /\ Cardinality(slots) \in Nat
               /\ Cardinality(slots) <= Allowance
    BY <1>4, FS_Subset, FS_CardinalityType DEF Allowance
  <1>6. QED
    BY <1>4, <1>5, FS_CardinalityType DEF Allowance

(***************************************************************************)
(* What a step may do to the rows and the slots owed: give up some of      *)
(* each, take the count afresh, or fill a slot with a row.                 *)
(***************************************************************************)
LEMMA GivingUpKeeps ==
  ASSUME NEW limit \in Nat, NEW rows, NEW slots \in SUBSET Slots,
         NEW rows2 \in SUBSET rows, NEW slots2 \in SUBSET slots,
         Within(rows, slots, limit)
  PROVE  Within(rows2, slots2, limit)
  <1>1. IsFiniteSet(rows2) /\ Cardinality(rows2) <= Cardinality(rows)
        /\ Cardinality(rows2) \in Nat /\ Cardinality(rows) \in Nat
    BY FS_Subset, FS_CardinalityType DEF Within
  <1>2. Cardinality(slots2) <= Cardinality(slots)
        /\ Cardinality(slots2) \in Nat /\ Cardinality(slots) \in Nat
    BY SlotsFinite, FS_Subset
  <1>3. Cardinality(rows) + Cardinality(slots) < limit + Allowance
    BY DEF Within
  <1>4. QED
    BY <1>1, <1>2, <1>3, SlotsFinite DEF Within

LEMMA CountingKeeps ==
  ASSUME NEW limit \in Nat, NEW rows, NEW slots \in SUBSET Slots,
         IsFiniteSet(rows), Cardinality(rows) < limit
  PROVE  Within(rows, slots, limit)
  <1>1. Cardinality(rows) \in Nat
    BY FS_CardinalityType
  <1>2. Cardinality(slots) <= Allowance /\ Cardinality(slots) \in Nat
        /\ Allowance \in Nat
    BY SlotsFinite
  <1>3. QED
    BY <1>1, <1>2 DEF Within

LEMMA FillingKeeps ==
  ASSUME NEW limit \in Nat, NEW rows, NEW slots \in SUBSET Slots,
         NEW b, NEW rows2 \in SUBSET (rows \union {b}),
         NEW s \in slots, NEW slots2 \in SUBSET (slots \ {s}),
         Within(rows, slots, limit)
  PROVE  Within(rows2, slots2, limit)
  <1>1. IsFiniteSet(rows) /\ Cardinality(rows) \in Nat
    BY FS_CardinalityType DEF Within
  <1>2. IsFiniteSet(rows \union {b})
        /\ Cardinality(rows \union {b}) <= Cardinality(rows) + 1
    <2>1. /\ IsFiniteSet(rows \union {b})
          /\ Cardinality(rows \union {b})
                = IF b \in rows THEN Cardinality(rows) ELSE Cardinality(rows) + 1
      BY <1>1, FS_AddElement
    <2>2. QED
      BY <1>1, <2>1
  <1>3. IsFiniteSet(rows2) /\ Cardinality(rows2) \in Nat
        /\ Cardinality(rows2) <= Cardinality(rows \union {b})
        /\ Cardinality(rows \union {b}) \in Nat
    BY <1>2, FS_Subset, FS_CardinalityType
  <1>4. IsFiniteSet(slots) /\ Cardinality(slots) \in Nat
    BY SlotsFinite
  <1>5. IsFiniteSet(slots \ {s})
        /\ Cardinality(slots \ {s}) = Cardinality(slots) - 1
    BY <1>4, FS_RemoveElement
  <1>6. Cardinality(slots2) <= Cardinality(slots) - 1
        /\ Cardinality(slots2) \in Nat
    BY <1>5, FS_Subset, FS_CardinalityType
  <1>7. Cardinality(rows) + Cardinality(slots) < limit + Allowance
    BY DEF Within
  <1>8. QED
    BY <1>1, <1>2, <1>3, <1>4, <1>6, <1>7, SlotsFinite DEF Within

(***************************************************************************)
(* What the parts of a step do: the trust in a connection, the slots of a  *)
(* call, and the types.                                                    *)
(***************************************************************************)
LEMMA CountsTyped ==
  ASSUME CallsInv, setting = "calls"
  PROVE  /\ IsFiniteSet(recent) /\ IsFiniteSet(Pending)
         /\ Now \in Counts /\ Unseen \in Counts
         /\ \A w \in Writer : View(w) \in Counts
  <1>1. IsFiniteSet(recent) /\ IsFiniteSet(Pending)
    BY DEF CallsInv, Within
  <1>2. Now \in Counts /\ Unseen \in Counts
    BY <1>1, FS_CardinalityType DEF Now, Unseen, Counts
  <1>3. QED
    BY <1>1, <1>2 DEF View, CallsInv, AdmissionTypeOK

LEMMA LeavesTyped ==
  ASSUME CallsInv, setting = "calls", NEW w \in Writer,
         NEW state \in {"none", "open", "aborted"}, Leaves(w, state)
  PROVE  /\ transaction' \in [Writer -> {"none", "open", "aborted"}]
         /\ seen' \in [Writer -> Counts]
         /\ transaction'[w] = state
         /\ seen'[w] = IF state = "open" THEN View(w) ELSE Unseen
         /\ \A v \in Writer \ {w} :
               transaction'[v] = transaction[v] /\ seen'[v] = seen[v]
  BY CountsTyped DEF Leaves, CallsInv, AdmissionTypeOK

LEMMA TrustKept ==
  ASSUME CallsInv, setting = "calls", NEW w \in Writer,
         NEW state \in {"none", "open", "aborted"}, Leaves(w, state)
  PROVE  /\ QuotaTrusted' \subseteq QuotaTrusted \/ Cardinality(recent) < Quota
         /\ DepthTrusted' \subseteq DepthTrusted \/ Cardinality(Pending) < Throttle
         /\ state # "open" => /\ QuotaTrusted' \subseteq QuotaTrusted \ {w}
                              /\ DepthTrusted' \subseteq DepthTrusted \ {w}
  <1>1. CASE state = "open"
    BY <1>1, LeavesTyped DEF QuotaTrusted, DepthTrusted, View, Now
  <1>2. CASE state # "open"
    BY <1>2, LeavesTyped DEF QuotaTrusted, DepthTrusted
  <1>3. QED
    BY <1>1, <1>2

LEMMA OwedSlots ==
  ASSUME NEW trusted
  PROVE  Owed(trusted) \subseteq Slots /\ Owed(trusted)' \subseteq Slots
  BY DEF Owed, Slots

LEMMA SlotWriter ==
  ASSUME NEW s \in Slots
  PROVE  /\ s[1] \in Writer /\ s[2] \in 1..MaxBeliefs[s[1]]
         /\ s = <<s[1], s[2]>>
  BY DEF Slots

LEMMA OwedLess ==
  ASSUME AdmissionTypeOK, NEW trusted, NEW trusted2 \in SUBSET trusted,
         \A v \in Writer : v \in trusted \/ left'[v] <= left[v],
         left' \in [Writer -> Nat]
  PROVE  {s \in Slots : s[2] <= left'[s[1]] \/ s[1] \in trusted2}
            \subseteq Owed(trusted)
  <1> SUFFICES ASSUME NEW s \in Slots, s[2] <= left'[s[1]] \/ s[1] \in trusted2
               PROVE  s \in Owed(trusted)
    OBVIOUS
  <1>1. s[1] \in Writer /\ s[2] \in Nat
    BY SlotWriter, AdmissionAssumption
  <1>2. CASE s[1] \in trusted
    BY <1>2 DEF Owed
  <1>3. CASE s[1] \notin trusted
    <2>1. left'[s[1]] <= left[s[1]] /\ s[2] <= left'[s[1]]
      BY <1>1, <1>3
    <2>2. left'[s[1]] \in Nat /\ left[s[1]] \in Nat
      BY <1>1 DEF AdmissionTypeOK
    <2>3. s[2] <= left[s[1]]
      BY <1>1, <2>1, <2>2
    <2>4. QED
      BY <2>3 DEF Owed
  <1>4. QED
    BY <1>2, <1>3

LEMMA CandidateTyped ==
  ASSUME AdmissionTypeOK, NEW w \in Writer, NextCandidate(w)
  PROVE  /\ left' \in [Writer -> Nat]
         /\ at' \in [Writer -> {"idle", "admitted", "writing"}]
         /\ left[w] \in 1..MaxBeliefs[w]
         /\ left'[w] = left[w] - 1
         /\ at'[w] \in {"idle", "writing"} /\ (left'[w] > 0 <=> at'[w] = "writing")
         /\ \A v \in Writer \ {w} : left'[v] = left[v] /\ at'[v] = at[v]
  <1>1. left[w] \in Nat /\ left[w] > 0 /\ left[w] \in 0..MaxBeliefs[w]
        /\ MaxBeliefs[w] \in Nat
    BY AdmissionAssumption DEF NextCandidate, AdmissionTypeOK
  <1>2. left[w] - 1 \in Nat /\ left' = [left EXCEPT ![w] = left[w] - 1]
    BY <1>1 DEF NextCandidate, AdmissionTypeOK
  <1>3. left' \in [Writer -> Nat] /\ left'[w] = left[w] - 1
        /\ \A v \in Writer \ {w} : left'[v] = left[v]
    BY <1>2 DEF AdmissionTypeOK
  <1>4. /\ at' \in [Writer -> {"idle", "admitted", "writing"}]
        /\ at'[w] = IF left[w] = 1 THEN "idle" ELSE "writing"
        /\ \A v \in Writer \ {w} : at'[v] = at[v]
    BY DEF NextCandidate, AdmissionTypeOK
  <1>5. QED
    BY <1>1, <1>3, <1>4

LEMMA DecidedTyped ==
  ASSUME AdmissionTypeOK, NEW w \in Writer, NEW decision, Decided(w, decision),
         at[w] = "idle"
  PROVE  /\ left' = left /\ recent' = recent
         /\ at' \in [Writer -> {"idle", "admitted", "writing"}]
         /\ at'[w] = IF decision = "admit" THEN "admitted" ELSE "idle"
         /\ \A v \in Writer \ {w} : at'[v] = at[v]
  BY DEF Decided, AdmissionTypeOK

LEMMA Admits ==
  ASSUME NEW writes \in Nat, NEW pending \in Nat, Decide(writes, pending) = "admit"
  PROVE  writes < Quota /\ pending < Throttle
  <1>1. /\ writes >= Quota <=> ~(writes < Quota)
        /\ pending >= Throttle <=> ~(pending < Throttle)
    BY AdmissionAssumption
  <1>2. QED
    BY <1>1 DEF Decide

(***************************************************************************)
(* A step of a call either leaves its connection in a state and has no     *)
(* more writes to go, or takes the candidates of an admitted call.         *)
(***************************************************************************)
Settles(w) ==
    /\ \E state \in {"none", "open", "aborted"} : Leaves(w, state)
    /\ \A v \in Writer : left'[v] <= left[v]

Starts(w) ==
    /\ w \in QuotaTrusted \intersect DepthTrusted
    /\ UNCHANGED <<transaction, seen>>
    /\ \A v \in Writer \ {w} : left'[v] = left[v]

LEMMA CallStepSound ==
  ASSUME CallsInv, setting = "calls", NEW w \in Writer, CallStep(w)
  PROVE  /\ AdmissionTypeOK' /\ AdmittedOnCounts'
         /\ recent' = recent /\ (Settles(w) \/ Starts(w))
  <1> USE DEF AdmissionTypeOK
  <1>0. /\ AdmissionTypeOK /\ AdmittedOnCounts
        /\ \A v \in Writer : left[v] \in Nat /\ left[v] <= left[v]
    BY DEF CallsInv
  <1>1. ASSUME NEW decision, NEW state \in {"open", "aborted"},
               Decided(w, decision), Leaves(w, state), at[w] = "idle",
               state = "open" => decision = Decide(View(w).writes, View(w).pending)
        PROVE  AdmissionTypeOK' /\ AdmittedOnCounts' /\ recent' = recent /\ Settles(w)
    <2>2. /\ recent' = recent /\ left' = left
          /\ at' \in [Writer -> {"idle", "admitted", "writing"}]
          /\ at'[w] = IF decision = "admit" THEN "admitted" ELSE "idle"
          /\ \A v \in Writer \ {w} : at'[v] = at[v]
      BY <1>0, <1>1, DecidedTyped DEF Decided
    <2>3. AdmissionTypeOK'
      BY <1>0, <1>1, <2>2, LeavesTyped
    <2>4. AdmittedOnCounts'
      <3> SUFFICES ASSUME NEW v \in Writer, at'[v] = "admitted",
                          transaction'[v] = "open"
                   PROVE  v \in QuotaTrusted' \intersect DepthTrusted'
        BY DEF AdmittedOnCounts
      <3>1. CASE v = w
        <4>1. state = "open" /\ decision = "admit" /\ seen'[w] = View(w)
          BY <1>1, <2>2, <3>1, LeavesTyped
        <4>2. View(w).writes \in Nat /\ View(w).pending \in Nat
          BY CountsTyped DEF Counts
        <4>3. View(w).writes < Quota /\ View(w).pending < Throttle
          BY <1>1, <4>1, <4>2, Admits
        <4>4. QED
          BY <3>1, <4>1, <4>3 DEF QuotaTrusted, DepthTrusted
      <3>2. CASE v # w
        <4>1. transaction'[v] = transaction[v] /\ seen'[v] = seen[v]
          BY <1>1, <3>2, LeavesTyped
        <4>2. QED
          BY <1>0, <2>2, <3>2, <4>1 DEF AdmittedOnCounts, QuotaTrusted, DepthTrusted
      <3>3. QED
        BY <3>1, <3>2
    <2>5. QED
      BY <1>0, <1>1, <2>2, <2>3, <2>4 DEF Settles
  <1>2. CASE Dismiss(w) \/ WriteFails(w) \/ Rollback(w)
    <2>1. PICK state \in {"none", "open", "aborted"} : Leaves(w, state)
      BY <1>2 DEF Dismiss, WriteFails, Rollback
    <2>2. /\ recent' = recent
          /\ left' \in [Writer -> Nat]
          /\ at' \in [Writer -> {"idle", "admitted", "writing"}]
          /\ at'[w] # "admitted" /\ left'[w] <= left[w]
          /\ left'[w] > 0 <=> at'[w] = "writing"
          /\ \A v \in Writer \ {w} : left'[v] = left[v] /\ at'[v] = at[v]
      <3>1. CASE WriteFails(w)
        <4>1. recent' = recent /\ NextCandidate(w)
          BY <3>1 DEF WriteFails
        <4>2. left[w] \in Nat /\ left'[w] = left[w] - 1
          BY <1>0, <4>1, CandidateTyped
        <4>3. QED
          BY <1>0, <4>1, <4>2, CandidateTyped
      <3>2. CASE Dismiss(w)
        BY <1>0, <3>2 DEF Dismiss
      <3>3. CASE Rollback(w)
        BY <1>0, <3>3 DEF Rollback
      <3>4. QED
        BY <1>2, <3>1, <3>2, <3>3
    <2>3. AdmissionTypeOK'
      <3>1. \A v \in Writer : left'[v] \in 0..MaxBeliefs[v]
        BY <1>0, <2>2, AdmissionAssumption
      <3>2. QED
        BY <1>0, <2>1, <2>2, <3>1, LeavesTyped
    <2>4. AdmittedOnCounts'
      BY <1>0, <2>1, <2>2, LeavesTyped
         DEF AdmittedOnCounts, QuotaTrusted, DepthTrusted
    <2>5. QED
      BY <1>0, <2>1, <2>2, <2>3, <2>4 DEF Settles
  <1>3. CASE Extract(w)
    <2>1. PICK n \in Candidates(w) :
              /\ left' = [left EXCEPT ![w] = n]
              /\ at' = [at EXCEPT ![w] = IF n = 0 THEN "idle" ELSE "writing"]
      BY <1>3 DEF Extract
    <2>2. n \in Nat /\ n \in 0..MaxBeliefs[w] /\ (n > 0 <=> n # 0)
      BY AdmissionAssumption DEF Candidates
    <2>3. recent' = recent /\ transaction' = transaction /\ seen' = seen
          /\ w \in QuotaTrusted \intersect DepthTrusted
      BY <1>0, <1>3 DEF Extract, AdmittedOnCounts
    <2>4. AdmissionTypeOK'
      BY <1>0, <2>1, <2>2, <2>3
    <2>5. AdmittedOnCounts'
      BY <1>0, <2>1, <2>3 DEF AdmittedOnCounts, QuotaTrusted, DepthTrusted
    <2>6. QED
      BY <1>0, <2>1, <2>3, <2>4, <2>5 DEF Starts
  <1>4. CASE Enforce(w)
    BY <1>1, <1>4 DEF Enforce, Measure, QuotaUnknown, DepthUnknown
  <1>5. QED
    BY <1>2, <1>3, <1>4 DEF CallStep

(***************************************************************************)
(* The steps of the calls keep what is within the limits there.            *)
(***************************************************************************)
LEMMA CallStepWithin ==
  ASSUME CallsInv, setting = "calls", NEW w \in Writer, CallStep(w),
         Pending' = Pending
  PROVE  /\ Within(recent', Owed(QuotaTrusted)', Quota)
         /\ Within(Pending', Owed(DepthTrusted)', Throttle)
  <1>0. AdmissionTypeOK /\ AdmissionTypeOK' /\ left' \in [Writer -> Nat]
        /\ recent' = recent /\ Quota \in Nat /\ Throttle \in Nat
        /\ (Settles(w) \/ Starts(w))
    BY CallStepSound, AdmissionAssumption DEF CallsInv, AdmissionTypeOK
  <1>1. Within(recent, Owed(QuotaTrusted), Quota)
        /\ Within(Pending, Owed(DepthTrusted), Throttle)
    BY DEF CallsInv
  <1>2. /\ Owed(QuotaTrusted)'
            = {s \in Slots : s[2] <= left'[s[1]] \/ s[1] \in QuotaTrusted'}
        /\ Owed(DepthTrusted)'
            = {s \in Slots : s[2] <= left'[s[1]] \/ s[1] \in DepthTrusted'}
    BY DEF Owed
  <1>3. /\ QuotaTrusted' \subseteq QuotaTrusted \/ Cardinality(recent) < Quota
        /\ DepthTrusted' \subseteq DepthTrusted \/ Cardinality(Pending) < Throttle
    BY <1>0, TrustKept DEF Settles, Starts, QuotaTrusted, DepthTrusted
  <1>4. /\ \A v \in Writer : v \in QuotaTrusted \/ left'[v] <= left[v]
        /\ \A v \in Writer : v \in DepthTrusted \/ left'[v] <= left[v]
    BY <1>0 DEF Settles, Starts, AdmissionTypeOK
  <1>5. Within(recent', Owed(QuotaTrusted)', Quota)
    <2>1. CASE QuotaTrusted' \subseteq QuotaTrusted
      <3>1. Owed(QuotaTrusted)' \subseteq Owed(QuotaTrusted)
        BY <1>0, <1>2, <1>4, <2>1, OwedLess
      <3>2. QED
        BY <1>0, <1>1, <3>1, OwedSlots, GivingUpKeeps
    <2>2. CASE Cardinality(recent) < Quota
      BY <1>0, <1>2, <2>2, CountsTyped, CountingKeeps
    <2>3. QED
      BY <1>3, <2>1, <2>2
  <1>6. Within(Pending', Owed(DepthTrusted)', Throttle)
    <2>1. CASE DepthTrusted' \subseteq DepthTrusted
      <3>1. Owed(DepthTrusted)' \subseteq Owed(DepthTrusted)
        BY <1>0, <1>2, <1>4, <2>1, OwedLess
      <3>2. QED
        BY <1>0, <1>1, <3>1, OwedSlots, GivingUpKeeps
    <2>2. CASE Cardinality(Pending) < Throttle
      BY <1>0, <1>2, <2>2, CountsTyped, CountingKeeps
    <2>3. QED
      BY <1>3, <2>1, <2>2
  <1>7. QED
    BY <1>5, <1>6

LEMMA IngestPending ==
  ASSUME StoreInv, NEW b \in Belief, Ingest(b)
  PROVE  Pending' \subseteq Pending \union {b}
  <1>1. status \in [Belief -> Status]
    BY DEF StoreInv, TypeOK
  <1>2. PICK k \in Key, c \in Claim : Resolve(b, k, c, FALSE)
    BY DEF Ingest
  <1>3. CASE ResolveUncontested(b, k, c)
    BY <1>1, <1>3 DEF ResolveUncontested, Uncontested, Pending
  <1>4. CASE ResolveContradiction(b, k, c, FALSE)
    <2>1. PICK i \in Belief : Contradict(b, k, c, FALSE, i)
      BY <1>4 DEF ResolveContradiction
    <2>2. \/ status' = [status EXCEPT ![b] = "pending", ![i] = "superseded"]
          \/ status' = [status EXCEPT ![b] = "pending"]
      BY <2>1 DEF Contradict
    <2>3. QED
      BY <1>1, <2>2 DEF Pending
  <1>5. QED
    BY <1>2, <1>3, <1>4 DEF Resolve

LEMMA PolledPending ==
  ASSUME StoreInv, NEW b \in Belief, NEW v \in Verdict, Screen(b, v)
  PROVE  Pending' \subseteq Pending
  <1>1. status \in [Belief -> Status]
    BY DEF StoreInv, TypeOK
  <1>2. QED
    BY <1>1 DEF Screen, Pending

LEMMA WriteWithin ==
  ASSUME CallsInv, setting = "calls", StoreInv,
         NEW w \in Writer, NEW b \in Belief, Write(w, b)
  PROVE  /\ AdmissionTypeOK' /\ AdmittedOnCounts'
         /\ Within(recent', Owed(QuotaTrusted)', Quota)
         /\ Within(Pending', Owed(DepthTrusted)', Throttle)
  <1>0. AdmissionTypeOK /\ NextCandidate(w) /\ Leaves(w, "none") /\ Ingest(b)
        /\ recent' = recent \union {b} /\ Quota \in Nat /\ Throttle \in Nat
    BY AdmissionAssumption DEF CallsInv, Write
  <1>1. /\ left' \in [Writer -> Nat]
        /\ at' \in [Writer -> {"idle", "admitted", "writing"}]
        /\ left[w] \in 1..MaxBeliefs[w]
        /\ left'[w] = left[w] - 1
        /\ at'[w] \in {"idle", "writing"} /\ (left'[w] > 0 <=> at'[w] = "writing")
        /\ \A v \in Writer \ {w} : left'[v] = left[v] /\ at'[v] = at[v]
    BY <1>0, CandidateTyped
  <1>2. AdmissionTypeOK'
    <2>1. recent' \subseteq Belief
      BY <1>0 DEF AdmissionTypeOK
    <2>2. \A v \in Writer : left'[v] \in 0..MaxBeliefs[v]
      BY <1>0, <1>1, AdmissionAssumption DEF AdmissionTypeOK
    <2>3. QED
      BY <1>0, <1>1, <2>1, <2>2, LeavesTyped DEF AdmissionTypeOK
  <1>3. AdmittedOnCounts'
    BY <1>0, <1>1, LeavesTyped
       DEF CallsInv, AdmittedOnCounts, QuotaTrusted, DepthTrusted
  <1>4. DEFINE slot == <<w, left[w]>>
  <1>5. slot \in Slots /\ slot[1] = w /\ slot[2] = left[w]
        /\ slot \in Owed(QuotaTrusted) /\ slot \in Owed(DepthTrusted)
    <2>1. slot \in {w} \X (1..MaxBeliefs[w])
      BY <1>1
    <2>2. slot \in Slots
      BY <2>1 DEF Slots
    <2>3. left[w] <= left[w]
      BY <1>1, AdmissionAssumption
    <2>4. QED
      BY <2>2, <2>3 DEF Owed
  <1>6. /\ QuotaTrusted' \subseteq QuotaTrusted \ {w}
        /\ DepthTrusted' \subseteq DepthTrusted \ {w}
    BY <1>0, TrustKept
  <1>7. \A v \in Writer : left'[v] <= left[v]
    BY <1>0, <1>1 DEF AdmissionTypeOK
  <1>8. ~(slot[2] <= left'[slot[1]])
    BY <1>1, <1>5, AdmissionAssumption
  <1>9. /\ Owed(QuotaTrusted)' \subseteq Owed(QuotaTrusted) \ {slot}
        /\ Owed(DepthTrusted)' \subseteq Owed(DepthTrusted) \ {slot}
    <2>1. /\ Owed(QuotaTrusted)'
              = {s \in Slots : s[2] <= left'[s[1]] \/ s[1] \in QuotaTrusted'}
          /\ Owed(DepthTrusted)'
              = {s \in Slots : s[2] <= left'[s[1]] \/ s[1] \in DepthTrusted'}
      BY DEF Owed
    <2>2. slot \notin Owed(QuotaTrusted)' /\ slot \notin Owed(DepthTrusted)'
      BY <1>5, <1>6, <1>8, <2>1
    <2>3. QED
      BY <1>0, <1>1, <1>6, <1>7, <2>1, <2>2, OwedLess
  <1>10. Pending' \subseteq Pending \union {b}
    BY <1>0, IngestPending
  <1>11. Within(recent', Owed(QuotaTrusted)', Quota)
    <2>1. Within(recent, Owed(QuotaTrusted), Quota)
      BY DEF CallsInv
    <2>2. QED
      BY <1>0, <1>5, <1>9, <2>1, OwedSlots, FillingKeeps
  <1>12. Within(Pending', Owed(DepthTrusted)', Throttle)
    <2>1. Within(Pending, Owed(DepthTrusted), Throttle)
      BY DEF CallsInv
    <2>2. QED
      BY <1>0, <1>5, <1>9, <1>10, <2>1, OwedSlots, FillingKeeps
  <1>13. QED
    BY <1>2, <1>3, <1>11, <1>12

LEMMA CallsBegin == IntakeInit => CallsInv
  <1> SUFFICES ASSUME IntakeInit PROVE CallsInv
    OBVIOUS
  <1>1. AdmissionTypeOK
    BY AdmissionAssumption
       DEF IntakeInit, AdmissionInit, AdmissionTypeOK, Unseen, Counts
  <1>2. AdmittedOnCounts
    BY DEF IntakeInit, AdmissionInit, AdmittedOnCounts
  <1>3. Owed(QuotaTrusted) = {} /\ Owed(DepthTrusted) = {}
    <2>1. QuotaTrusted = {} /\ DepthTrusted = {}
      BY DEF IntakeInit, AdmissionInit, QuotaTrusted, DepthTrusted
    <2>2. ASSUME NEW s \in Slots PROVE ~(s[2] <= left[s[1]])
      <3>1. left[s[1]] = 0 /\ s[2] \in Nat \ {0}
        BY SlotWriter, AdmissionAssumption DEF IntakeInit, AdmissionInit
      <3>2. QED
        BY <3>1
    <2>3. QED
      BY <2>1, <2>2 DEF Owed
  <1>4. \A limit \in Nat \ {0} : Within({}, {}, limit)
    BY FS_EmptySet, SlotsFinite DEF Within
  <1>5. recent = {} /\ (setting = "calls" => Pending = {})
    BY DEF IntakeInit, AdmissionInit, Init, Pending
  <1>6. QED
    BY <1>1, <1>2, <1>3, <1>4, <1>5, AdmissionAssumption DEF CallsInv

LEMMA CallsStep ==
  ASSUME IntakeInv, CallsInv, [IntakeNext]_intakeVars
  PROVE  CallsInv'
  <1>0. StoreInv /\ AdmissionTypeOK /\ AdmittedOnCounts
        /\ Quota \in Nat /\ Throttle \in Nat
        /\ Within(recent, Owed(QuotaTrusted), Quota)
    BY AdmissionAssumption DEF IntakeInv, CallsInv
  <1>1. ASSUME UNCHANGED callVars
        PROVE  /\ AdmissionTypeOK' /\ AdmittedOnCounts'
               /\ Within(recent', Owed(QuotaTrusted)', Quota)
               /\ Owed(DepthTrusted)' = Owed(DepthTrusted)
    BY <1>0, <1>1
       DEF callVars, AdmissionTypeOK, AdmittedOnCounts, QuotaTrusted, DepthTrusted,
           Owed, Within
  <1>2. CASE Calls
    <2>0. setting = "calls" /\ setting' = "calls" /\ CallsNext
          /\ Within(Pending, Owed(DepthTrusted), Throttle)
      BY <1>2 DEF Calls, CallsInv
    <2>1. ASSUME NEW w \in Writer, CallStep(w), UNCHANGED vars
          PROVE  CallsInv'
      <3>1. Pending' = Pending
        BY <2>1 DEF vars, Pending
      <3>2. QED
        BY <2>0, <2>1, <3>1, CallStepSound, CallStepWithin DEF CallsInv
    <2>2. ASSUME NEW w \in Writer, NEW b \in NewId, Write(w, b)
          PROVE  CallsInv'
      BY <1>0, <2>0, <2>2, NewIdUnused, WriteWithin DEF CallsInv
    <2>3. CASE HourPasses /\ UNCHANGED vars
      <3>1. recent' \subseteq recent /\ Pending' = Pending
            /\ UNCHANGED <<at, transaction, seen, left>>
        BY <2>3 DEF HourPasses, vars, Pending
      <3>2. AdmissionTypeOK' /\ AdmittedOnCounts'
        BY <1>0, <3>1
           DEF AdmissionTypeOK, AdmittedOnCounts, QuotaTrusted, DepthTrusted
      <3>3. /\ Owed(QuotaTrusted)' = Owed(QuotaTrusted)
            /\ Owed(DepthTrusted)' = Owed(DepthTrusted)
        BY <3>1 DEF QuotaTrusted, DepthTrusted, Owed
      <3>4. Within(recent', Owed(QuotaTrusted)', Quota)
        BY <1>0, <3>1, <3>3, OwedSlots, GivingUpKeeps
      <3>5. QED
        BY <2>0, <3>1, <3>2, <3>3, <3>4 DEF CallsInv
    <2>4. ASSUME NEW b \in Belief, Polled(b)
          PROVE  CallsInv'
      <3>1. PICK v \in Verdict : Screen(b, v) /\ UNCHANGED callVars
        BY <2>4 DEF Polled
      <3>2. Pending' \subseteq Pending
        BY <1>0, <3>1, PolledPending
      <3>3. Within(Pending', Owed(DepthTrusted)', Throttle)
        BY <1>0, <1>1, <2>0, <3>1, <3>2, OwedSlots, GivingUpKeeps
      <3>4. QED
        BY <1>1, <3>1, <3>3 DEF CallsInv
    <2>5. QED
      BY <2>0, <2>1, <2>2, <2>3, <2>4 DEF CallsNext
  <1>3. CASE Feed \/ Consume
    <2>1. setting' # "calls" /\ UNCHANGED callVars
      BY <1>3 DEF Feed, Consume
    <2>2. QED
      BY <1>1, <2>1 DEF CallsInv
  <1>4. CASE UNCHANGED intakeVars
    <2>1. setting' = setting /\ UNCHANGED callVars /\ Pending' = Pending
      BY <1>4 DEF intakeVars, vars, Pending
    <2>2. QED
      BY <1>1, <2>1 DEF CallsInv
  <1>5. QED
    BY <1>2, <1>3, <1>4 DEF IntakeNext

(***************************************************************************)
(* Overshoot: for any number of processes and any max_beliefs, quota and   *)
(* throttle, however the calls of a13_admission.py and ingest.py           *)
(* interleave and whichever of their queries fail, the agent overshoots    *)
(* either limit by less than one call of each process together.            *)
(***************************************************************************)
THEOREM OvershootIsBounded == IntakeSpec => []Overshoot
  <1>1. CallsInv => Overshoot
    <2> SUFFICES ASSUME NEW rows, NEW slots \in SUBSET Slots, NEW limit \in Nat,
                        Within(rows, slots, limit)
                 PROVE  Cardinality(rows) < limit + Allowance
      BY OwedSlots, AdmissionAssumption
         DEF CallsInv, Overshoot, QuotaOvershoot, DepthOvershoot
    <2>1. Cardinality(rows) \in Nat
      BY FS_CardinalityType DEF Within
    <2>2. Cardinality(slots) \in Nat /\ Allowance \in Nat
      BY SlotsFinite
    <2>3. QED
      BY <2>1, <2>2 DEF Within
  <1>2. IntakeInv /\ CallsInv /\ [IntakeNext]_intakeVars => CallsInv'
    BY CallsStep
  <1>3. QED
    BY CallsBegin, <1>1, <1>2, IntakeInvariant, PTL DEF IntakeSpec

-----------------------------------------------------------------------------
(***************************************************************************)
(* What the gate could not decide stays undecided: no component writes a   *)
(* second verdict, and a reviewer has nothing to decide.                   *)
(***************************************************************************)
LEMMA UndecidedStays ==
  ASSUME StoreInv, StoreInv', KeepsRecords
  PROVE  Undecided \subseteq Undecided'
  <1> SUFFICES ASSUME NEW b \in Undecided PROVE b \in Undecided'
    OBVIOUS
  <1>1. b \in Belief /\ status[b] = "pending" /\ verdicts[b] # <<>>
    BY DEF Undecided
  <1>2. Story(b) /\ Story(b)' /\ KeepsRecord(b)
    BY <1>1 DEF StoreInv, Lifecycle, KeepsRecords
  <1>3. verdicts[b] = <<"inconclusive">>
    BY <1>1, <1>2 DEF Story, Tables
  <1>4. 1 <= Len(verdicts'[b]) /\ verdicts'[b][1] = "inconclusive"
    BY <1>2, <1>3 DEF KeepsRecord
  <1>5. verdicts'[b] = <<"inconclusive">> /\ status'[b] = "pending"
    BY <1>2, <1>4 DEF Story, Tables
  <1>6. QED
    BY <1>1, <1>5 DEF Undecided

\* While they fill the throttle, only a call that saw the depth earlier, or could
\* not see it, gets past A13.
LEMMA CloggedCalls ==
  ASSUME CallsInv, setting = "calls", IsFiniteSet(Belief), Clogged,
         NEW w \in Writer, Enforce(w), at'[w] = "admitted"
  PROVE  SawRoom(w) \/ transaction'[w] = "aborted"
  <1>1. ~(Cardinality(Pending) < Throttle)
    <2>1. Undecided \subseteq Pending /\ IsFiniteSet(Pending)
      BY FS_Subset DEF Undecided, Pending
    <2>2. Cardinality(Undecided) \in Nat /\ Cardinality(Pending) \in Nat
          /\ Cardinality(Undecided) <= Cardinality(Pending)
      BY <2>1, FS_Subset, FS_CardinalityType
    <2>3. QED
      BY <2>2, AdmissionAssumption DEF Clogged
  <1>2. AdmissionTypeOK /\ at[w] = "idle"
    BY DEF CallsInv, Enforce
  <1>3. CASE QuotaUnknown(w) \/ DepthUnknown(w)
    BY <1>3, LeavesTyped DEF QuotaUnknown, DepthUnknown
  <1>4. CASE Measure(w)
    <2>1. Decide(View(w).writes, View(w).pending) = "admit"
      BY <1>2, <1>4, DecidedTyped DEF Measure
    <2>2. View(w).writes \in Nat /\ View(w).pending \in Nat
      BY CountsTyped DEF Counts
    <2>3. View(w).pending < Throttle
      BY <2>1, <2>2, Admits
    <2>4. QED
      BY <1>1, <2>3 DEF View, Now, SawRoom
  <1>5. QED
    BY <1>3, <1>4 DEF Enforce

\* No other step admits a call.
LEMMA AdmittedBy ==
  ASSUME CallsInv, [IntakeNext]_intakeVars, NEW w \in Writer,
         at[w] = "idle", at'[w] = "admitted"
  PROVE  setting = "calls" /\ Enforce(w)
  <1>1. AdmissionTypeOK
    BY DEF CallsInv
  <1>2. at' # at
    OBVIOUS
  <1>3. setting = "calls" /\ CallsNext
    BY <1>2 DEF IntakeNext, Calls, Feed, Consume, intakeVars, callVars
  <1>4. PICK v \in Writer : CallStep(v) \/ \E b \in NewId : Write(v, b)
    BY <1>2, <1>3 DEF CallsNext, HourPasses, Polled, callVars
  <1>5. CASE \E b \in NewId : Write(v, b)
    BY <1>1, <1>5, CandidateTyped DEF Write
  <1>6. CASE WriteFails(v)
    BY <1>1, <1>6, CandidateTyped DEF WriteFails
  <1>7. CASE Dismiss(v) \/ Extract(v) \/ Rollback(v)
    BY <1>1, <1>7 DEF Dismiss, Extract, Rollback, AdmissionTypeOK
  <1>8. CASE Enforce(v)
    <2>1. PICK decision : Decided(v, decision)
      BY <1>8 DEF Enforce, Measure, QuotaUnknown, DepthUnknown
    <2>2. at[v] = "idle"
      BY <1>8 DEF Enforce
    <2>3. v = w
      BY <1>1, <2>1, <2>2, DecidedTyped
    <2>4. QED
      BY <1>3, <1>8, <2>3
  <1>9. QED
    BY <1>4, <1>5, <1>6, <1>7, <1>8 DEF CallStep

(***************************************************************************)
(* ThrottledForGood: once the beliefs that the gate could not decide are   *)
(* as many as the throttle of a13_admission.py, that is so for good, and a *)
(* call gets past A13 only on an earlier count, or on none.                *)
(***************************************************************************)
THEOREM ThrottleStays ==
  ASSUME IsFiniteSet(Belief)
  PROVE  IntakeSpec => ThrottledForGood
  <1>1. IntakeInv /\ CallsInv /\ [IntakeNext]_intakeVars => CallsInv'
    BY CallsStep
  <1>2. IntakeInv /\ CallsInv /\ [IntakeNext]_intakeVars =>
            [Clogged => /\ Clogged'
                        /\ \A w \in Writer : at[w] = "idle" /\ at'[w] = "admitted" =>
                              SawRoom(w) \/ transaction'[w] = "aborted"]_intakeVars
    <2> SUFFICES ASSUME IntakeInv, CallsInv, [IntakeNext]_intakeVars, Clogged
                 PROVE  /\ Clogged'
                        /\ \A w \in Writer : at[w] = "idle" /\ at'[w] = "admitted" =>
                              SawRoom(w) \/ transaction'[w] = "aborted"
      OBVIOUS
    <2>1. Undecided \subseteq Undecided'
      BY IntakeTables, UndecidedStays DEF IntakeInv, FeedInv
    <2>2. IsFiniteSet(Undecided') /\ IsFiniteSet(Undecided)
      BY FS_Subset DEF Undecided
    <2>3. /\ Cardinality(Undecided) \in Nat /\ Cardinality(Undecided') \in Nat
          /\ Cardinality(Undecided) <= Cardinality(Undecided')
      BY <2>1, <2>2, FS_Subset, FS_CardinalityType
    <2>4. Clogged'
      BY <2>3, AdmissionAssumption DEF Clogged
    <2>5. QED
      BY <2>4, AdmittedBy, CloggedCalls
  <1>3. QED
    BY CallsBegin, <1>1, <1>2, IntakeInvariant, PTL DEF IntakeSpec, ThrottledForGood
=============================================================================
