---------------------------- MODULE UpkeepProofs ----------------------------
(***************************************************************************)
(* Proofs about the components that work through the store on their own:   *)
(* the pollers of Screening, for any number of pollers and beliefs and any *)
(* batch size, and the passes of Consolidation with the questions of       *)
(* Reconstruction, for any beliefs, facts, texts and number of passes.     *)
(***************************************************************************)
EXTENDS Screening, Reconstruction, BeliefStoreProofs, FiniteSetTheorems,
        WellFoundedInduction

(***************************************************************************)
(* A submission screens a belief that has no verdict, or does nothing.     *)
(***************************************************************************)
LEMMA RowIsScreening ==
  ASSUME NEW p \in Poller, Row(p)
  PROVE  [Next]_vars
  <1>1. PICK b \in Belief : ScreenRow(p, b) \/ SkipRow(p, b)
    BY DEF Row
  <1>2. CASE ScreenRow(p, b)
    BY <1>2 DEF ScreenRow, Submit, Next
  <1>3. CASE SkipRow(p, b)
    BY <1>3 DEF SkipRow
  <1>4. QED
    BY <1>1, <1>2, <1>3

(***************************************************************************)
(* ImplementsStore: however many pollers fetch the same rows, and however  *)
(* late they submit them, the store sees one screening of each belief.     *)
(***************************************************************************)
THEOREM PollersImplementStore == ScreeningSafety => ImplementsStore
  <1>1. ScreeningInit => Init
    BY DEF ScreeningInit
  <1>2. [ScreeningNext]_screeningVars => [Next]_vars
    <2> SUFFICES ASSUME [ScreeningNext]_screeningVars
                 PROVE  [Next]_vars
      OBVIOUS
    <2>1. CASE Others
      BY <2>1 DEF Others, Next
    <2>2. ASSUME NEW p \in Poller, Fetch(p) \/ LoseConnection(p)
          PROVE  [Next]_vars
      BY <2>2 DEF Fetch, LoseConnection
    <2>3. ASSUME NEW p \in Poller, Row(p)
          PROVE  [Next]_vars
      BY <2>3, RowIsScreening
    <2>4. CASE UNCHANGED screeningVars
      BY <2>4 DEF screeningVars
    <2>5. QED
      BY <2>1, <2>2, <2>3, <2>4 DEF ScreeningNext
  <1>3. QED
    BY <1>1, <1>2, PTL DEF ScreeningSafety, ImplementsStore, Spec

(***************************************************************************)
(* ReviewQueueExact: hence no race of pollers opens a second quarantine    *)
(* row, or leaves a quarantined belief without one.                        *)
(***************************************************************************)
THEOREM PollersKeepReviewQueue == ScreeningSafety => []ReviewQueueExact
  BY PollersImplementStore, StoreReviewQueue, PTL DEF ImplementsStore

(***************************************************************************)
(* Nor does a verdict that comes late, of a row that another poller has    *)
(* screened and a reviewer decided since, take the belief back, or past    *)
(* the moves of the trust boundary.                                        *)
(***************************************************************************)
THEOREM PollersMoveForward ==
  ScreeningSafety => ImplementsBoundary /\ RecordsKept /\ [][NeverBack]_vars
  BY PollersImplementStore, StoreImplementsBoundary, StoreRecordsKept,
     StoreNeverBack, PTL DEF ImplementsStore

-----------------------------------------------------------------------------
(***************************************************************************)
(* ORDER BY tx_from LIMIT n fetches n rows at most, because no two rows    *)
(* have the same date.  The youngest row fetched has all the others before *)
(* it, and there are fewer than n of those.                                *)
(***************************************************************************)
LEMMA LeastNumber ==
  ASSUME NEW S \in SUBSET Nat, S # {}
  PROVE  \E n \in S : \A m \in S : n <= m
  <1> DEFINE R == OpToRel(<, Nat)
  <1>1. IsWellFoundedOn(R, Nat)
    BY NatLessThanWellFounded, Zenon
  <1>2. \A x, y \in Nat : x < y => <<x, y>> \in R
    <2> TAKE x \in Nat, y \in Nat
    <2> HAVE x < y
    <2>1. <<x, y>>[1] < <<x, y>>[2]
      OBVIOUS
    <2>2. <<x, y>> \in Nat \X Nat
      OBVIOUS
    <2>3. QED
      BY <2>1, <2>2, Zenon DEF OpToRel
  <1> HIDE DEF R
  <1>3. PICK n \in S : \A m \in S : ~(<<m, n>> \in R)
    BY <1>1, WFMin
  <1>4. \A m \in S : ~(m < n)
    BY <1>2, <1>3
  <1>5. QED
    BY <1>4

Written == {b \in Belief : status[b] # "absent"}

LEMMA WrittenRows ==
  ASSUME TableInv, DatesApart
  PROVE  /\ clock \in Nat
         /\ \A b \in Written : fact[b].txFrom \in 1..clock
         /\ IsFiniteSet(Written)
  <1>1. clock \in Nat
    BY DEF TableInv, TypeOK
  <1>2. \A b \in Written : fact[b].txFrom \in 1..clock
    <2> SUFFICES ASSUME NEW b \in Written PROVE fact[b].txFrom \in 1..clock
      OBVIOUS
    <2>1. fact[b] \in Fact /\ fact[b].txFrom <= clock
      BY DEF Written, TableInv, Dated
    <2>2. QED
      BY <1>1, <2>1 DEF Fact
  <1> DEFINE f == [b \in Written |-> fact[b].txFrom]
  <1>3. f \in Injection(Written, 1..clock)
    <2>1. f \in [Written -> 1..clock]
      BY <1>2
    <2>2. \A x, y \in Written : f[x] = f[y] => x = y
      BY DEF DatesApart, Written
    <2>3. QED
      BY <2>1, <2>2 DEF Injection, IsInjective
  <1>4. IsFiniteSet(1..clock)
    BY <1>1, FS_Interval
  <1>5. IsFiniteSet(Written)
    BY <1>3, <1>4, FS_Injection
  <1>6. QED
    BY <1>1, <1>2, <1>5

LEMMA YoungestRow ==
  ASSUME TableInv, DatesApart, NEW rows \in SUBSET Written, rows # {}
  PROVE  \E m \in rows : \A b \in rows : fact[b].txFrom <= fact[m].txFrom
  <1> DEFINE Bounds == {n \in Nat : \A b \in rows : fact[b].txFrom <= n}
  <1>1. clock \in Nat /\ \A b \in rows : fact[b].txFrom \in 1..clock
    BY WrittenRows
  <1>2. clock \in Bounds
    BY <1>1
  <1>3. PICK n \in Bounds : \A k \in Bounds : n <= k
    BY <1>2, LeastNumber
  <1>4. PICK x \in rows : TRUE
    OBVIOUS
  <1>5. n \in Nat /\ n - 1 \in Nat
    <2>1. fact[x].txFrom <= n /\ fact[x].txFrom >= 1 /\ fact[x].txFrom \in Nat
      BY <1>1
    <2>2. QED
      BY <2>1
  <1>6. n - 1 \notin Bounds
    BY <1>3, <1>5
  <1>7. PICK m \in rows : ~(fact[m].txFrom <= n - 1)
    BY <1>5, <1>6
  <1>8. fact[m].txFrom <= n /\ fact[m].txFrom \in Nat
    BY <1>1
  <1>9. fact[m].txFrom = n
    BY <1>5, <1>7, <1>8
  <1>10. QED
    BY <1>9

LEMMA OldestFew ==
  ASSUME TableInv, DatesApart, NEW rows \in SUBSET Written
  PROVE  /\ Oldest(rows) \subseteq rows
         /\ IsFiniteSet(Oldest(rows))
         /\ Cardinality(Oldest(rows)) <= BatchSize
  <1>1. Oldest(rows) \subseteq rows
    BY DEF Oldest
  <1>2. IsFiniteSet(rows)
    BY WrittenRows, FS_Subset
  <1>3. IsFiniteSet(Oldest(rows))
    BY <1>1, <1>2, FS_Subset
  <1>4. CASE Oldest(rows) = {}
    BY <1>1, <1>3, <1>4, FS_EmptySet, BatchSizeAssumption
  <1>5. CASE Oldest(rows) # {}
    <2>1. PICK m \in Oldest(rows) : \A b \in Oldest(rows) : fact[b].txFrom <= fact[m].txFrom
      BY <1>1, <1>5, YoungestRow
    <2> DEFINE before == {x \in rows : fact[x].txFrom < fact[m].txFrom}
    <2>2. Cardinality(before) < BatchSize
      BY <2>1 DEF Oldest
    <2>3. Oldest(rows) \ {m} \subseteq before
      <3> SUFFICES ASSUME NEW x \in Oldest(rows), x # m
                   PROVE  x \in rows /\ fact[x].txFrom < fact[m].txFrom
        OBVIOUS
      <3>1. x \in Written /\ m \in Written
        BY <1>1, <2>1
      <3>2. fact[x].txFrom # fact[m].txFrom
        BY <3>1 DEF DatesApart, Written
      <3>3. fact[x].txFrom \in 1..clock /\ fact[m].txFrom \in 1..clock /\ clock \in Nat
        BY <3>1, WrittenRows
      <3>4. fact[x].txFrom <= fact[m].txFrom
        BY <2>1
      <3>5. QED
        BY <1>1, <3>2, <3>3, <3>4
    <2>4. IsFiniteSet(before) /\ Cardinality(before) \in Nat
      BY <1>2, FS_Subset, FS_CardinalityType
    <2>5. Cardinality(Oldest(rows) \ {m}) <= Cardinality(before)
      BY <2>3, <2>4, FS_Subset
    <2>6. Cardinality(Oldest(rows) \ {m}) = Cardinality(Oldest(rows)) - 1
      BY <1>3, <2>1, FS_RemoveElement
    <2>7. Cardinality(Oldest(rows)) \in Nat
      BY <1>3, FS_CardinalityType
    <2>8. QED
      BY <1>1, <1>3, <2>2, <2>4, <2>5, <2>6, <2>7, BatchSizeAssumption
  <1>6. QED
    BY <1>4, <1>5

(***************************************************************************)
(* The pollers.  What a transaction sees, and a batch holds, was written   *)
(* when it was fetched and so still is.                                    *)
(***************************************************************************)
PollInv ==
    /\ ScreeningTypeOK
    /\ \A p \in Poller : /\ view[p] # NoView => view[p] \subseteq Written
                        /\ batch[p] \subseteq Written
                        /\ IsFiniteSet(batch[p])

LEMMA PollStep ==
  ASSUME PollInv, StoreInv, DatesApart, [ScreeningNext]_screeningVars
  PROVE  PollInv'
  <1>1. TableInv /\ [Next]_vars
    BY StoreTables, RowIsScreening
       DEF ScreeningNext, Others, Fetch, LoseConnection, Next, screeningVars
  <1>2. Written \subseteq Written'
    <2>1. CASE Next
      BY <1>1, <2>1, StepKeepsRecords DEF KeepsRecords, KeepsRecord, Written
    <2>2. CASE UNCHANGED vars
      BY <2>2 DEF vars, Written
    <2>3. QED
      BY <1>1, <2>1, <2>2
  <1>3. CASE UNCHANGED pollVars
    BY <1>2, <1>3 DEF pollVars, PollInv, ScreeningTypeOK
  <1>4. ASSUME NEW p \in Poller, Fetch(p)
        PROVE  PollInv'
    <2> DEFINE rows == IF view[p] = NoView THEN Unscreened ELSE view[p]
    <2>1. rows \in SUBSET Written
      BY DEF PollInv, Unscreened, Written
    <2>2. /\ Oldest(rows) \subseteq Written /\ IsFiniteSet(Oldest(rows))
          /\ Cardinality(Oldest(rows)) <= BatchSize
      BY <1>1, <2>1, OldestFew
    <2>3. /\ view' = [view EXCEPT ![p] = rows]
          /\ batch' = [batch EXCEPT ![p] = Oldest(rows)]
          /\ connection' = connection /\ Written' = Written
      BY <1>4 DEF Fetch, vars, Written
    <2> HIDE DEF rows
    <2>4. Written \subseteq Belief
      BY DEF Written
    <2>5. ScreeningTypeOK'
      BY <2>1, <2>2, <2>3, <2>4 DEF PollInv, ScreeningTypeOK
    <2>6. QED
      BY <2>1, <2>2, <2>3, <2>5 DEF PollInv, ScreeningTypeOK
  <1>5. ASSUME NEW p \in Poller, NEW rest \in SUBSET batch[p],
               view' = [view EXCEPT ![p] = NoView],
               batch' = [batch EXCEPT ![p] = rest],
               connection' \in [Poller -> {"open", "lost"}]
        PROVE  PollInv'
    <2>1. IsFiniteSet(batch[p]) /\ Cardinality(batch[p]) <= BatchSize
            /\ batch[p] \subseteq Belief
      BY DEF PollInv, ScreeningTypeOK
    <2>2. IsFiniteSet(rest) /\ Cardinality(rest) <= Cardinality(batch[p])
      BY <2>1, FS_Subset
    <2>3. Cardinality(rest) \in Nat /\ Cardinality(batch[p]) \in Nat
      BY <2>1, <2>2, FS_CardinalityType
    <2>4. Cardinality(rest) <= BatchSize
      BY <2>1, <2>2, <2>3, BatchSizeAssumption
    <2> DEFINE Views == (SUBSET Belief) \union {NoView}
    <2>5. /\ view \in [Poller -> Views] /\ NoView \in Views
          /\ batch \in [Poller -> SUBSET Belief]
          /\ \A q \in Poller : Cardinality(batch[q]) <= BatchSize
      BY DEF PollInv, ScreeningTypeOK
    <2> HIDE DEF Views
    <2>6. \A q \in Poller : /\ view'[q] = IF q = p THEN NoView ELSE view[q]
                            /\ batch'[q] = IF q = p THEN rest ELSE batch[q]
      BY <1>5, <2>5
    <2>7. ScreeningTypeOK'
      <3>1. view' \in [Poller -> Views]
        BY <1>5, <2>5
      <3>2. batch' \in [Poller -> SUBSET Belief]
        BY <1>5, <2>1, <2>5
      <3>3. \A q \in Poller : Cardinality(batch'[q]) <= BatchSize
        BY <2>4, <2>5, <2>6
      <3>4. QED
        BY <1>5, <3>1, <3>2, <3>3 DEF ScreeningTypeOK, Views
    <2>8. QED
      BY <1>2, <2>2, <2>6, <2>7 DEF PollInv
  <1>6. ASSUME NEW p \in Poller, Row(p)
        PROVE  PollInv'
    <2>1. PICK b \in Belief : RowDone(p, b)
      BY <1>6 DEF Row, ScreenRow, SkipRow
    <2>2. batch' = [batch EXCEPT ![p] = batch[p] \ {b}]
      BY <2>1 DEF RowDone
    <2>3. QED
      BY <1>5, <2>1, <2>2 DEF RowDone, PollInv, ScreeningTypeOK
  <1>7. ASSUME NEW p \in Poller, LoseConnection(p)
        PROVE  PollInv'
    <2>1. connection' \in [Poller -> {"open", "lost"}]
      BY <1>7 DEF LoseConnection, PollInv, ScreeningTypeOK
    <2>2. QED
      BY <1>5, <1>7, <2>1 DEF LoseConnection
  <1>8. QED
    BY <1>3, <1>4, <1>6, <1>7 DEF ScreeningNext, Others, screeningVars

LEMMA PollInit == ScreeningInit => PollInv
  <1> SUFFICES ASSUME ScreeningInit PROVE PollInv
    OBVIOUS
  <1>1. IsFiniteSet({}) /\ Cardinality({}) = 0
    BY FS_EmptySet
  <1>2. /\ view = [p \in Poller |-> NoView] /\ batch = [p \in Poller |-> {}]
        /\ connection = [p \in Poller |-> "open"]
    BY DEF ScreeningInit
  <1>3. \A p \in Poller : /\ view[p] = NoView /\ batch[p] = {}
                          /\ IsFiniteSet(batch[p])
                          /\ Cardinality(batch[p]) <= BatchSize
    BY <1>1, <1>2, BatchSizeAssumption
  <1> DEFINE Views == (SUBSET Belief) \union {NoView}
  <1>4. NoView \in Views
    OBVIOUS
  <1> HIDE DEF Views
  <1>5. view \in [Poller -> Views] /\ batch \in [Poller -> SUBSET Belief]
          /\ connection \in [Poller -> {"open", "lost"}]
    BY <1>2, <1>4
  <1>6. ScreeningTypeOK
    BY <1>3, <1>5 DEF ScreeningTypeOK, Views
  <1>7. QED
    BY <1>3, <1>6 DEF PollInv

(***************************************************************************)
(* The columns and batches keep their types; in particular no poll of any  *)
(* poller ever takes more rows than the LIMIT of its query.                *)
(***************************************************************************)
THEOREM PollersKeepTypes == ScreeningSafety => []ScreeningTypeOK
  <1>1. ScreeningInit => PollInv
    BY PollInit
  <1>2. ScreeningSafety => [](StoreInv /\ DatesApart)
    BY PollersImplementStore, StoreInvariant, StoreDatesApart, PTL
       DEF ImplementsStore
  <1>3. PollInv /\ (StoreInv /\ DatesApart) /\ [ScreeningNext]_screeningVars => PollInv'
    BY PollStep
  <1>4. PollInv => ScreeningTypeOK
    BY DEF PollInv
  <1>5. QED
    BY <1>1, <1>2, <1>3, <1>4, PTL DEF ScreeningSafety

-----------------------------------------------------------------------------
(***************************************************************************)
(* What a transaction of BeliefStore leaves alone, and what it says of the *)
(* belief it supersedes, if any.  This is all that the rest needs to know  *)
(* of writers, the gate and reviewers.                                     *)
(***************************************************************************)
InUse(b) == status[b] \in {"trusted", "superseded"}

Replaced(l) ==
    \E w \in Belief :
        /\ status[w] = "absent" /\ status'[w] = "pending"
        /\ supersededBy'[w] = NoBelief
        /\ supersededBy'[l] = w /\ status'[l] = "superseded"
        /\ fact'[w].txFrom = clock + 1 /\ txTo'[l] = clock + 1
        /\ Explained(w, l)'

RowKept(x) ==
    /\ status[x] # "absent" => status'[x] # "absent" /\ fact'[x] = fact[x]
    /\ InUse(x) => status'[x] \in {"trusted", "superseded"}
                   /\ verdicts'[x] = verdicts[x] /\ quarantine'[x] = quarantine[x]
    /\ status[x] = "superseded" => status'[x] = "superseded"
    /\ \/ supersededBy'[x] = supersededBy[x] /\ txTo'[x] = txTo[x]
       \/ supersededBy[x] = NoBelief /\ InUse(x) /\ Replaced(x)
    /\ status[x] # "trusted" /\ status'[x] = "trusted" =>
          verdicts'[x] # verdicts[x] \/ quarantine'[x] # quarantine[x]

StepKeeps ==
    /\ contradictions \subseteq contradictions'
    /\ \A x \in Belief : RowKept(x)

\* Of the clock: one row is written at each tick.
Ticks ==
    /\ clock' = clock + 1
    /\ \E b \in Belief :
          /\ status[b] = "absent" /\ status'[b] = "pending"
          /\ fact'[b].txFrom = clock + 1 /\ txTo'[b] = 0
          /\ \A x \in Belief : x # b => (status'[x] = "absent" <=> status[x] = "absent")
          /\ \/ txTo' = txTo
             \/ \E i \in Belief : /\ status[i] = "trusted" /\ txTo[i] = 0 /\ i # b
                                  /\ fact[i].key = fact'[b].key
                                  /\ txTo' = [txTo EXCEPT ![i] = clock + 1]

Rests ==
    /\ UNCHANGED <<clock, fact, txTo>>
    /\ \A x \in Belief : status'[x] = "absent" <=> status[x] = "absent"

LEMMA UncontestedKeeps ==
  ASSUME TableInv, NEW b \in Belief, NEW k \in Key, NEW c \in Claim,
         ResolveUncontested(b, k, c)
  PROVE  TableInv' /\ StepKeeps /\ Ticks
  <1>1. RowWritten(b, k, c) /\ TableInv'
    BY UncontestedFrame
  <1>2. /\ status' = [status EXCEPT ![b] = "pending"]
        /\ UNCHANGED <<txTo, supersededBy, contradictions>>
    BY DEF ResolveUncontested, Uncontested
  <1>3. ASSUME NEW x \in Belief
        PROVE  RowKept(x)
    BY <1>1, <1>2 DEF RowKept, InUse, RowWritten, TableInv, TypeOK
  <1>4. Ticks
    BY <1>1, <1>2 DEF Ticks, RowWritten, TableInv, TypeOK
  <1>5. QED
    BY <1>1, <1>2, <1>3, <1>4 DEF StepKeeps

(***************************************************************************)
(* A contradiction closes the row of the incumbent, if at all.             *)
(***************************************************************************)
LEMMA ContradictionKeeps ==
  ASSUME TableInv, NEW b \in Belief, NEW k \in Key, NEW c \in Claim,
         NEW override \in BOOLEAN, ResolveContradiction(b, k, c, override)
  PROVE  TableInv' /\ StepKeeps /\ Ticks
  <1>1. TableInv'
    BY ContradictionFrame
  <1>2. RowWritten(b, k, c) /\ k \in Key \ MultiValued
    BY ContradictionEnds
  <1> PICK i \in Belief : Incumbent(k, i) /\ Outcomes(b, c, i)
    BY ContradictionEnds
  <1>3. PICK r :
          /\ Incumbent(k, i) /\ Recorded(b, i, r)
          /\ \/ /\ Superseding(b, i)
                /\ r.resolution = "challenger_supersedes"
                /\ r.basis = "explicit_invalidation" \/ Wins(c, fact[i].claim)
             \/ Retaining(b)
    BY DEF Outcomes
  <1>4. /\ i # b /\ status[i] = "trusted" /\ txTo[i] = 0
        /\ supersededBy[i] = NoBelief
        /\ fact[i] \in Fact /\ fact[i].key = k /\ fact[i].txFrom <= clock
        /\ fact'[i] = fact[i]
    BY <1>2, <1>3, IncumbentFacts
  <1>5. contradictions \subseteq contradictions'
    BY <1>3 DEF Recorded
  <1>6. CASE Retaining(b)
    <2>1. ASSUME NEW x \in Belief
          PROVE  RowKept(x)
      BY <1>2, <1>6 DEF RowKept, InUse, RowWritten, Retaining, TableInv, TypeOK
    <2>2. Ticks
      BY <1>2, <1>6 DEF Ticks, RowWritten, Retaining, TableInv, TypeOK
    <2>3. QED
      BY <1>1, <1>5, <2>1, <2>2 DEF StepKeeps
  <1>7. CASE Superseding(b, i) /\ r.resolution = "challenger_supersedes"
             /\ (r.basis = "explicit_invalidation" \/ Wins(c, fact[i].claim))
    <2>1. /\ status'[i] = "superseded" /\ status'[b] = "pending"
          /\ supersededBy'[i] = b /\ txTo'[i] = clock + 1
          /\ supersededBy'[b] = NoBelief /\ txTo'[b] = 0
      BY <1>2, <1>4, <1>7 DEF Superseding, RowWritten, TableInv, TypeOK
    <2>2. \A x \in Belief : x # i /\ x # b =>
             /\ status'[x] = status[x]
             /\ supersededBy'[x] = supersededBy[x] /\ txTo'[x] = txTo[x]
      BY <1>7 DEF Superseding, TableInv, TypeOK
    <2>3. Explained(b, i)'
      <3>1. fact'[b].key = k /\ fact'[b].claim = c /\ fact'[b].txFrom = clock + 1
        BY <1>2 DEF RowWritten
      <3>2. fact'[i].txFrom < txTo'[i]
        BY <1>2, <1>4, <2>1 DEF Fact, RowWritten
      <3>3. [incumbent |-> i, challenger |-> b,
             resolution |-> r.resolution, basis |-> r.basis] \in contradictions'
        BY <1>3 DEF Recorded
      <3>4. QED
        BY <1>2, <1>4, <1>7, <2>1, <3>1, <3>2, <3>3 DEF Explained
    <2>4. Replaced(i)
      BY <1>2, <2>1, <2>3 DEF Replaced, RowWritten
    <2>5. RowKept(i)
      BY <1>2, <1>4, <2>1, <2>4 DEF RowKept, InUse, RowWritten
    <2>6. RowKept(b)
      BY <1>2, <2>1 DEF RowKept, InUse, RowWritten
    <2>7. ASSUME NEW x \in Belief, x # i, x # b
          PROVE  RowKept(x)
      BY <1>2, <2>2, <2>7 DEF RowKept, InUse, RowWritten
    <2>8. Ticks
      <3>1. \A x \in Belief : x # b => (status'[x] = "absent" <=> status[x] = "absent")
        BY <1>4, <2>1, <2>2
      <3>2. txTo' = [txTo EXCEPT ![i] = clock + 1]
        BY <1>7 DEF Superseding
      <3>3. fact[i].key = fact'[b].key
        BY <1>2, <1>4 DEF RowWritten
      <3>4. clock' = clock + 1 /\ status[b] = "absent" /\ fact'[b].txFrom = clock + 1
        BY <1>2 DEF RowWritten
      <3>5. QED
        BY <1>4, <2>1, <3>1, <3>2, <3>3, <3>4 DEF Ticks
    <2>9. QED
      BY <1>1, <1>5, <2>5, <2>6, <2>7, <2>8 DEF StepKeeps
  <1>8. QED
    BY <1>3, <1>6, <1>7

(***************************************************************************)
(* The gate and reviewers work on beliefs that are not in use yet.         *)
(***************************************************************************)
LEMMA ScreenKeeps ==
  ASSUME TableInv, NEW b \in Belief, NEW v \in Verdict, Screen(b, v)
  PROVE  TableInv' /\ StepKeeps /\ Rests
  <1>1. TableInv' /\ StatusFits
    BY ScreenFrame
  <1>2. status[b] = "pending" /\ quarantine[b] = <<>> /\ verdicts[b] = <<>>
    BY DEF TableInv, Lifecycle, Story, Tables, Screen
  <1>3. verdicts'[b] # verdicts[b]
    BY <1>2 DEF Screen, TableInv, TypeOK
  <1>4. \A x \in Belief : x # b =>
           /\ status'[x] = status[x] /\ verdicts'[x] = verdicts[x]
           /\ quarantine'[x] = quarantine[x]
    BY DEF Screen, TableInv, TypeOK
  <1>5. ASSUME NEW x \in Belief
        PROVE  RowKept(x)
    BY <1>1, <1>2, <1>3, <1>4 DEF RowKept, InUse, StatusFits
  <1>6. QED
    BY <1>1, <1>5 DEF StepKeeps, Rests, StatusFits

LEMMA ReviewKeeps ==
  ASSUME TableInv, NEW b \in Belief, Review(b)
  PROVE  TableInv' /\ StepKeeps /\ Rests
  <1>1. TableInv' /\ StatusFits
    BY ReviewFrame
  <1>2. PICK d \in Disposition, s \in Status :
          /\ <<d, s>> \in {<<"released", "trusted">>, <<"rejected", "rejected">>}
          /\ Reviewed(b, d, s)
    BY ReviewDecides DEF Disposition, Status
  <1>3. status[b] = "quarantined" /\ quarantine[b] = <<"held">>
    BY ReviewDecides DEF TableInv, Lifecycle, Story, Tables
  <1>4. quarantine'[b] # quarantine[b]
    <2>1. quarantine'[b] = <<d>>
      BY <1>2 DEF Reviewed, TableInv, TypeOK
    <2>2. d # "held"
      BY <1>2
    <2>3. QED
      BY <1>3, <2>1, <2>2
  <1>5. \A x \in Belief : x # b =>
           /\ status'[x] = status[x] /\ verdicts'[x] = verdicts[x]
           /\ quarantine'[x] = quarantine[x]
    BY <1>2 DEF Reviewed, TableInv, TypeOK
  <1>6. ASSUME NEW x \in Belief
        PROVE  RowKept(x)
    BY <1>1, <1>3, <1>4, <1>5 DEF RowKept, InUse, StatusFits
  <1>7. QED
    BY <1>1, <1>6 DEF StepKeeps, Rests, StatusFits

LEMMA MeanwhileKeeps ==
  ASSUME TableInv, Meanwhile
  PROVE  TableInv' /\ StepKeeps /\ (Ticks \/ Rests)
  <1>1. ASSUME NEW b \in Belief, Ingest(b) \/ Correct(b)
        PROVE  TableInv' /\ StepKeeps /\ Ticks
    <2>1. PICK k \in Key, c \in Claim, override \in BOOLEAN :
            Resolve(b, k, c, override)
      BY <1>1 DEF Ingest, Correct
    <2>2. QED
      BY <2>1, UncontestedKeeps, ContradictionKeeps DEF Resolve
  <1>2. QED
    BY <1>1, ScreenKeeps, ReviewKeeps DEF Meanwhile, Write

-----------------------------------------------------------------------------
(***************************************************************************)
(* The invariant of the passes.  StoreInv does not hold here, because a    *)
(* merge closes no row; TableInv does.  The groups in hand say the same    *)
(* and are in use since they were read, at some time of the clock; what    *)
(* was written later is superseded by what was written later, so a winner  *)
(* that has been contradicted since does not lead back to its group.       *)
(***************************************************************************)
TextInv ==
    /\ object \in [Belief -> Text \union {NoBelief}]
    /\ supersedes \in [Belief -> Belief \union {NoBelief}]

GroupFits(g) ==
    /\ g.members \subseteq Belief /\ g.winner \in g.members
    /\ \A m \in g.members : InUse(m) /\ SaysTheSame(g.winner, m)

GroupsInv ==
    /\ \A g \in groups : GroupFits(g)
    /\ \A g, h \in groups : g # h => g.members \intersect h.members = {}

Later(t, b)   == status[b] # "absent" /\ fact[b].txFrom > t
LaterOn(t, b) == status'[b] # "absent" /\ fact'[b].txFrom > t

ReadAt(t) ==
    /\ t <= clock
    /\ \A g \in groups : \A m \in g.members : ~Later(t, m)
    /\ \A g \in groups : supersededBy[g.winner] # NoBelief =>
          Later(t, supersededBy[g.winner])
    /\ \A b \in Belief : Later(t, b) /\ supersededBy[b] # NoBelief =>
          Later(t, supersededBy[b])

PassInv == GroupsInv /\ \E t \in Nat : ReadAt(t)

UpkeepInv ==
    /\ TableInv
    /\ TextInv
    /\ SupersessionJustified
    /\ QuarantineBoundary
    /\ PassInv

(***************************************************************************)
(* The other components: texts and explanations stand, because what they   *)
(* are about has been written.                                             *)
(***************************************************************************)
LEMMA MeanwhileTexts ==
  ASSUME TextInv, Meanwhile
  PROVE  /\ TextInv'
         /\ \A x \in Belief : status[x] # "absent" => object'[x] = object[x]
         /\ UNCHANGED <<supersedes, phase, groups, report, flags, passes>>
  <1>1. UNCHANGED <<supersedes, phase, groups, report, flags, passes>>
    BY DEF Meanwhile, passVars
  <1>2. CASE object' = object
    BY <1>1, <1>2 DEF TextInv
  <1>3. ASSUME NEW b \in Belief, Write(b)
        PROVE  /\ status[b] = "absent"
               /\ \E o \in Text : object' = [object EXCEPT ![b] = o]
    BY <1>3 DEF Write, Ingest, Correct, Resolve, ResolveUncontested, Uncontested,
                ResolveContradiction, Contradict, WriteBelief
  <1>4. ASSUME NEW b \in Belief, Write(b)
        PROVE  /\ TextInv'
               /\ \A x \in Belief : status[x] # "absent" => object'[x] = object[x]
    BY <1>1, <1>3, <1>4 DEF TextInv
  <1>5. QED
    BY <1>1, <1>2, <1>4 DEF Meanwhile

LEMMA MeanwhileJustified ==
  ASSUME UpkeepInv, Meanwhile
  PROVE  Justified'
  <1>1. TableInv /\ TextInv /\ Justified
    BY DEF UpkeepInv, SupersessionJustified
  <1>2. TableInv' /\ StepKeeps
    BY <1>1, MeanwhileKeeps
  <1>3. /\ \A x \in Belief : status[x] # "absent" => object'[x] = object[x]
        /\ supersedes' = supersedes
    BY <1>1, MeanwhileTexts
  <1>4. \A l \in Belief : status'[l] = "superseded" <=> supersededBy'[l] # NoBelief
    BY <1>2 DEF TableInv, Linked
  <1>5. ASSUME NEW l \in Belief, NEW w \in Belief, Supersedes(w, l)'
        PROVE  IF txTo'[l] # 0 THEN Explained(w, l)'
               ELSE SaysTheSame(w, l)' /\ status'[w] \in {"trusted", "superseded"}
    <2>1. CASE supersededBy'[l] = supersededBy[l] /\ txTo'[l] = txTo[l]
      <3>1. Supersedes(w, l) /\ status[l] = "superseded" /\ status[w] # "absent"
        BY <1>1, <1>5, <2>1, NoBeliefAssumption
           DEF Supersedes, TableInv, Linked, Unwritten
      <3>2. /\ fact'[l] = fact[l] /\ fact'[w] = fact[w]
            /\ object'[l] = object[l] /\ object'[w] = object[w]
        BY <1>2, <1>3, <3>1 DEF StepKeeps, RowKept
      <3>3. CASE txTo[l] # 0
        BY <1>1, <1>2, <2>1, <3>1, <3>2, <3>3
           DEF Justified, Explained, StepKeeps
      <3>4. CASE txTo[l] = 0
        <4>1. SaysTheSame(w, l) /\ InUse(w)
          BY <1>1, <3>1, <3>4 DEF Justified, InUse
        <4>2. SaysTheSame(w, l)'
          BY <3>2, <4>1 DEF SaysTheSame, Before
        <4>3. status'[w] \in {"trusted", "superseded"}
          BY <1>2, <4>1 DEF StepKeeps, RowKept
        <4>4. QED
          BY <2>1, <3>4, <4>2, <4>3
      <3>5. QED
        BY <3>3, <3>4
    <2>2. CASE Replaced(l)
      <3>1. txTo'[l] = clock + 1 /\ Explained(w, l)'
        BY <1>5, <2>2 DEF Replaced, Supersedes
      <3>2. clock \in Nat
        BY <1>1 DEF TableInv, TypeOK
      <3>3. QED
        BY <3>1, <3>2
    <2>3. QED
      BY <1>2, <2>1, <2>2 DEF StepKeeps, RowKept
  <1>6. ASSUME NEW l \in Belief, supersedes'[l] # NoBelief
        PROVE  status'[supersedes'[l]] = "superseded"
    <2>1. supersedes[l] \in Belief /\ status[supersedes[l]] = "superseded"
      BY <1>1, <1>3, <1>6 DEF TextInv, Justified
    <2>2. QED
      BY <1>2, <1>3, <2>1 DEF StepKeeps, RowKept
  <1>7. QED
    BY <1>4, <1>5, <1>6 DEF Justified

(***************************************************************************)
(* A contradiction adds a link to a new belief, at which the chain ends.   *)
(***************************************************************************)
LEMMA MeanwhileChains ==
  ASSUME UpkeepInv, Meanwhile
  PROVE  ChainsEnd'
  <1>1. TableInv /\ ChainsEnd
    BY DEF UpkeepInv, SupersessionJustified
  <1>2. StepKeeps
    BY <1>1, MeanwhileKeeps
  <1>3. SUFFICES ASSUME NEW S \in SUBSET Belief, S # {},
                        \A b \in S : supersededBy'[b] \in S
                 PROVE  FALSE
    BY DEF ChainsEnd
  <1>4. PICK b \in S : supersededBy[b] \notin S
    BY <1>1, <1>3 DEF ChainsEnd
  <1>5. Replaced(b)
    BY <1>2, <1>3, <1>4 DEF StepKeeps, RowKept
  <1>6. PICK w \in Belief : supersededBy'[w] = NoBelief /\ supersededBy'[b] = w
    BY <1>5 DEF Replaced
  <1>7. QED
    BY <1>3, <1>4, <1>6, NoBeliefAssumption

(***************************************************************************)
(* Whoever took part in a merge is in use, and no decision is due on it.   *)
(***************************************************************************)
LEMMA MeanwhileBoundary ==
  ASSUME UpkeepInv, Meanwhile
  PROVE  QuarantineBoundary'
  <1>1. TableInv /\ Justified /\ QuarantineBoundary
    BY DEF UpkeepInv, SupersessionJustified
  <1>2. TableInv' /\ StepKeeps
    BY <1>1, MeanwhileKeeps
  <1>3. SUFFICES ASSUME NEW l \in Belief, Merged(l)'
                 PROVE  quarantine'[l] = <<>> /\ quarantine'[supersededBy'[l]] = <<>>
    BY DEF QuarantineBoundary
  <1>4. supersededBy'[l] = supersededBy[l] /\ txTo'[l] = txTo[l]
    <2>1. clock \in Nat /\ txTo'[l] = 0
      BY <1>1, <1>3 DEF TableInv, TypeOK, Merged
    <2>2. ~Replaced(l)
      BY <2>1 DEF Replaced
    <2>3. QED
      BY <1>2, <2>2 DEF StepKeeps, RowKept
  <1>5. supersededBy[l] # NoBelief /\ status[l] = "superseded"
    BY <1>1, <1>2, <1>3, <1>4 DEF TableInv, Linked, Merged
  <1>6. supersededBy[l] \in Belief /\ Merged(l)
    BY <1>1, <1>3, <1>4, <1>5 DEF TableInv, TypeOK, Merged
  <1>7. InUse(l) /\ InUse(supersededBy[l])
    BY <1>1, <1>5, <1>6 DEF Justified, Supersedes, InUse, Merged
  <1>8. quarantine[l] = <<>> /\ quarantine[supersededBy[l]] = <<>>
    BY <1>1, <1>6 DEF QuarantineBoundary
  <1>9. QED
    BY <1>2, <1>4, <1>6, <1>7, <1>8 DEF StepKeeps, RowKept

LEMMA MeanwhilePass ==
  ASSUME UpkeepInv, Meanwhile
  PROVE  PassInv'
  <1>1. TableInv /\ TextInv /\ GroupsInv
    BY DEF UpkeepInv, PassInv
  <1>2. TableInv' /\ StepKeeps /\ clock \in Nat /\ (clock' = clock \/ clock' = clock + 1)
    BY <1>1, MeanwhileKeeps DEF Ticks, Rests, TableInv, TypeOK
  <1>3. /\ \A x \in Belief : status[x] # "absent" => object'[x] = object[x]
        /\ groups' = groups
    BY <1>1, MeanwhileTexts
  <1>4. GroupsInv'
    <2>1. ASSUME NEW g \in groups
          PROVE  GroupFits(g)'
      <3>1. GroupFits(g)
        BY <1>1 DEF GroupsInv
      <3>2. \A m \in g.members :
               /\ m \in Belief /\ InUse(m)' /\ SaysTheSame(g.winner, m)
               /\ fact'[m] = fact[m] /\ object'[m] = object[m]
        BY <1>2, <1>3, <3>1 DEF GroupFits, StepKeeps, RowKept, InUse
      <3>3. \A m \in g.members : SaysTheSame(g.winner, m)'
        BY <3>1, <3>2 DEF GroupFits, SaysTheSame, Before
      <3>4. QED
        BY <3>1, <3>2, <3>3 DEF GroupFits
    <2>2. QED
      BY <1>1, <1>3, <2>1 DEF GroupsInv
  <1>5. PICK t \in Nat : ReadAt(t)
    BY DEF UpkeepInv, PassInv
  <1>6. \A x \in Belief : status[x] # "absent" => (LaterOn(t, x) <=> Later(t, x))
    BY <1>2 DEF StepKeeps, RowKept, Later, LaterOn
  <1>7. ASSUME NEW l \in Belief, supersededBy'[l] # NoBelief,
               supersededBy[l] # NoBelief => Later(t, supersededBy[l])
        PROVE  LaterOn(t, supersededBy'[l])
    <2>1. CASE supersededBy'[l] = supersededBy[l]
      <3>1. supersededBy[l] \in Belief /\ Later(t, supersededBy[l])
        BY <1>1, <1>7, <2>1 DEF TableInv, TypeOK
      <3>2. QED
        BY <1>6, <2>1, <3>1 DEF Later
    <2>2. CASE Replaced(l)
      <3>1. PICK w \in Belief : /\ status'[w] = "pending" /\ supersededBy'[l] = w
                                /\ fact'[w].txFrom = clock + 1
        BY <2>2 DEF Replaced
      <3>2. clock + 1 > t
        BY <1>2, <1>5 DEF ReadAt
      <3>3. QED
        BY <3>1, <3>2 DEF LaterOn
    <2>3. QED
      BY <1>2, <2>1, <2>2 DEF StepKeeps, RowKept
  <1>8. ReadAt(t)'
    <2>1. t <= clock'
      BY <1>2, <1>5 DEF ReadAt
    <2>2. \A g \in groups : \A m \in g.members : ~LaterOn(t, m)
      BY <1>1, <1>5, <1>6 DEF ReadAt, GroupsInv, GroupFits, InUse
    <2>3. \A g \in groups : supersededBy'[g.winner] # NoBelief =>
             LaterOn(t, supersededBy'[g.winner])
      BY <1>1, <1>5, <1>7 DEF ReadAt, GroupsInv, GroupFits
    <2>4. ASSUME NEW b \in Belief, LaterOn(t, b), supersededBy'[b] # NoBelief
          PROVE  LaterOn(t, supersededBy'[b])
      <3>1. CASE status[b] = "absent"
        <4>1. supersededBy[b] = NoBelief /\ ~InUse(b)
          BY <1>1, <3>1 DEF TableInv, Linked, InUse
        <4>2. QED
          BY <1>2, <2>4, <4>1 DEF StepKeeps, RowKept
      <3>2. CASE status[b] # "absent"
        <4>1. supersededBy[b] # NoBelief => Later(t, supersededBy[b])
          BY <1>5, <1>6, <2>4, <3>2 DEF ReadAt
        <4>2. QED
          BY <1>7, <2>4, <4>1
      <3>3. QED
        BY <3>1, <3>2
    <2>5. QED
      BY <1>3, <2>1, <2>2, <2>3, <2>4 DEF ReadAt, Later, LaterOn
  <1>9. QED
    BY <1>4, <1>8 DEF PassInv

LEMMA MeanwhilePreserves ==
  ASSUME UpkeepInv, Meanwhile
  PROVE  UpkeepInv'
  <1>1. TableInv' /\ TextInv'
    BY MeanwhileKeeps, MeanwhileTexts DEF UpkeepInv
  <1>2. QED
    BY <1>1, MeanwhileJustified, MeanwhileChains, MeanwhileBoundary, MeanwhilePass
       DEF UpkeepInv, SupersessionJustified

-----------------------------------------------------------------------------
(***************************************************************************)
(* A merge, row by row: the losers that are still trusted are linked to    *)
(* the winner, and nothing else changes.                                   *)
(***************************************************************************)
MergedRows(g) ==
    /\ g.members \subseteq Belief /\ g.winner \in Belief /\ InUse(g.winner)
    /\ \A l \in Superseded(g) :
          /\ l \in g.members /\ l # g.winner /\ status[l] = "trusted"
          /\ txTo[l] = 0 /\ supersededBy[l] = NoBelief
          /\ status'[l] = "superseded" /\ supersededBy'[l] = g.winner
    /\ \A x \in Belief \ Superseded(g) :
          status'[x] = status[x] /\ supersededBy'[x] = supersededBy[x]
    /\ UNCHANGED <<clock, fact, txTo, scored, screened, verdicts, quarantine,
                   contradictions, object>>

LEMMA MergeRows ==
  ASSUME TableInv, PassInv, NEW g \in groups, Merge(g)
  PROVE  MergedRows(g) /\ TableInv'
  <1>1. GroupFits(g)
    BY DEF PassInv, GroupsInv
  <1>2. /\ status' = [b \in Belief |-> IF b \in Superseded(g) THEN "superseded"
                                       ELSE status[b]]
        /\ supersededBy' = [b \in Belief |-> IF b \in Superseded(g) THEN g.winner
                                             ELSE supersededBy[b]]
        /\ UNCHANGED <<clock, fact, txTo, scored, screened, verdicts, quarantine,
                       contradictions, object>>
    BY DEF Merge, StatusAfter, TxToAfter
  <1>3. MergedRows(g)
    <2>1. \A l \in Superseded(g) : l \in g.members /\ l # g.winner
                                     /\ status[l] = "trusted"
      BY DEF Superseded
    <2>2. \A l \in Superseded(g) : txTo[l] = 0 /\ supersededBy[l] = NoBelief
      BY <1>1, <2>1 DEF GroupFits, TableInv, TypeOK, Linked
    <2>3. QED
      BY <1>1, <1>2, <2>1, <2>2 DEF MergedRows, GroupFits
  <1>4. TypeOK'
    <2>1. status' \in [Belief -> Status]
      BY <1>2 DEF TableInv, TypeOK, Status
    <2>2. supersededBy' \in [Belief -> Belief \union {NoBelief}]
      BY <1>2, <1>3 DEF TableInv, TypeOK, MergedRows
    <2>3. QED
      BY <1>2, <2>1, <2>2 DEF TableInv, TypeOK
  <1>5. Lifecycle'
    <2> SUFFICES ASSUME NEW x \in Belief
                 PROVE  Story(x)'
      BY DEF Lifecycle
    <2>1. Story(x)
      BY DEF TableInv, Lifecycle
    <2>2. \/ status'[x] = status[x]
          \/ status[x] = "trusted" /\ status'[x] = "superseded"
      BY <1>3 DEF MergedRows
    <2>3. UNCHANGED <<scored, screened, verdicts, quarantine>>
      BY <1>2
    <2>4. QED
      BY <2>1, <2>2, <2>3 DEF Story, Tables
  <1>6. \A x \in Belief : status'[x] = "absent" <=> status[x] = "absent"
    BY <1>3 DEF MergedRows
  <1>7. Unwritten'
    <2>1. \A x \in Belief : status[x] = "absent" => x # g.winner
      BY <1>3 DEF MergedRows, InUse
    <2>2. QED
      BY <1>2, <1>3, <1>6, <2>1 DEF TableInv, Unwritten, MergedRows
  <1>8. Dated'
    BY <1>2, <1>6 DEF TableInv, Dated
  <1>9. Linked'
    BY <1>2, <1>3, NoBeliefAssumption DEF TableInv, Linked, MergedRows
  <1>10. QED
    BY <1>3, <1>4, <1>5, <1>7, <1>8, <1>9 DEF TableInv

LEMMA MergeTexts ==
  ASSUME TextInv, PassInv, NEW g \in groups, Merge(g)
  PROVE  /\ TextInv'
         /\ \E l \in g.members \ {g.winner} :
               supersedes' = [supersedes EXCEPT ![g.winner] = l]
  <1>1. \E l \in g.members \ {g.winner} :
           supersedes' = [supersedes EXCEPT ![g.winner] = l]
    BY DEF Merge, Lasts
  <1>2. object' = object /\ g.members \subseteq Belief
    BY DEF Merge, PassInv, GroupsInv, GroupFits
  <1>3. QED
    BY <1>1, <1>2 DEF TextInv

LEMMA MergeJustified ==
  ASSUME UpkeepInv, NEW g \in groups, Merge(g)
  PROVE  Justified'
  <1>1. TableInv /\ TextInv /\ PassInv /\ Justified
    BY DEF UpkeepInv, SupersessionJustified
  <1>2. MergedRows(g) /\ TableInv' /\ GroupFits(g)
    BY <1>1, MergeRows DEF PassInv, GroupsInv
  <1>3. \A l \in Belief : status'[l] = "superseded" <=> supersededBy'[l] # NoBelief
    BY <1>2 DEF TableInv, Linked
  <1>4. ASSUME NEW x \in Belief, InUse(x)
        PROVE  status'[x] \in {"trusted", "superseded"}
    BY <1>2, <1>4 DEF MergedRows, InUse
  <1>5. ASSUME NEW l \in Belief, NEW w \in Belief, Supersedes(w, l)'
        PROVE  IF txTo'[l] # 0 THEN Explained(w, l)'
               ELSE SaysTheSame(w, l)' /\ status'[w] \in {"trusted", "superseded"}
    <2>1. UNCHANGED <<fact, txTo, contradictions, object>>
      BY <1>2 DEF MergedRows
    <2>2. CASE l \in Superseded(g)
      <3>1. w = g.winner /\ txTo[l] = 0 /\ SaysTheSame(w, l) /\ InUse(w)
        BY <1>2, <1>5, <2>2 DEF MergedRows, GroupFits, Supersedes
      <3>2. SaysTheSame(w, l)'
        BY <2>1, <3>1 DEF SaysTheSame, Before
      <3>3. QED
        BY <1>4, <2>1, <3>1, <3>2
    <2>3. CASE l \notin Superseded(g)
      <3>1. Supersedes(w, l)
        BY <1>2, <1>5, <2>3 DEF MergedRows, Supersedes
      <3>2. IF txTo[l] # 0 THEN Explained(w, l)
            ELSE SaysTheSame(w, l) /\ InUse(w)
        BY <1>1, <3>1 DEF Justified, InUse
      <3>3. Explained(w, l)' <=> Explained(w, l)
        BY <2>1 DEF Explained
      <3>4. SaysTheSame(w, l)' <=> SaysTheSame(w, l)
        BY <2>1 DEF SaysTheSame, Before
      <3>5. QED
        BY <1>4, <2>1, <3>2, <3>3, <3>4
    <2>4. QED
      BY <2>2, <2>3
  <1>6. ASSUME NEW x \in Belief, supersedes'[x] # NoBelief
        PROVE  status'[supersedes'[x]] = "superseded"
    <2>1. PICK l \in g.members \ {g.winner} :
             supersedes' = [supersedes EXCEPT ![g.winner] = l]
      BY <1>1, MergeTexts
    <2>2. CASE x = g.winner
      <3>1. supersedes'[x] = l /\ l \in Belief /\ InUse(l)
        BY <1>1, <1>2, <2>1, <2>2 DEF TextInv, GroupFits
      <3>2. status[l] = "trusted" => l \in Superseded(g)
        BY DEF Superseded
      <3>3. QED
        BY <1>2, <3>1, <3>2 DEF MergedRows, InUse
    <2>3. CASE x # g.winner
      <3>1. supersedes'[x] = supersedes[x]
        BY <1>1, <2>1, <2>3 DEF TextInv
      <3>2. supersedes[x] \in Belief /\ status[supersedes[x]] = "superseded"
        BY <1>1, <1>6, <3>1 DEF TextInv, Justified
      <3>3. QED
        BY <1>2, <3>1, <3>2 DEF MergedRows
    <2>4. QED
      BY <2>2, <2>3
  <1>7. QED
    BY <1>3, <1>5, <1>6 DEF Justified

(***************************************************************************)
(* Why a merge closes no loop, though its winner may be superseded itself: *)
(* what superseded the winner was written after the groups were read, and  *)
(* so was all that follows in its chain, but none of the losers.           *)
(***************************************************************************)
LEMMA MergeChains ==
  ASSUME UpkeepInv, NEW g \in groups, Merge(g)
  PROVE  ChainsEnd'
  <1>1. TableInv /\ PassInv /\ ChainsEnd
    BY DEF UpkeepInv, SupersessionJustified
  <1>2. MergedRows(g)
    BY <1>1, MergeRows
  <1>3. PICK t \in Nat : ReadAt(t)
    BY <1>1 DEF PassInv
  <1>4. SUFFICES ASSUME NEW S \in SUBSET Belief, S # {},
                        \A b \in S : supersededBy'[b] \in S
                 PROVE  FALSE
    BY DEF ChainsEnd
  <1>5. PICK l \in S : l \in Superseded(g)
    BY <1>1, <1>2, <1>4 DEF ChainsEnd, MergedRows
  <1>6. g.winner \in S /\ g.winner \notin Superseded(g)
    BY <1>2, <1>4, <1>5 DEF MergedRows
  <1>7. supersededBy[g.winner] \in S /\ supersededBy[g.winner] # NoBelief
    BY <1>2, <1>4, <1>6, NoBeliefAssumption DEF MergedRows
  <1> DEFINE T == {b \in S : Later(t, b)}
  <1>8. T # {}
    BY <1>3, <1>7 DEF ReadAt
  <1>9. ASSUME NEW b \in T
        PROVE  supersededBy[b] \in T
    <2>1. b \notin Superseded(g)
      BY <1>2, <1>3 DEF ReadAt, MergedRows
    <2>2. supersededBy[b] \in S /\ supersededBy[b] # NoBelief
      BY <1>2, <1>4, <2>1, NoBeliefAssumption DEF MergedRows
    <2>3. QED
      BY <1>3, <2>2 DEF ReadAt
  <1>10. QED
    BY <1>1, <1>8, <1>9 DEF ChainsEnd

LEMMA MergeBoundary ==
  ASSUME UpkeepInv, NEW g \in groups, Merge(g)
  PROVE  QuarantineBoundary'
  <1>1. TableInv /\ PassInv /\ QuarantineBoundary
    BY DEF UpkeepInv
  <1>2. MergedRows(g) /\ GroupFits(g)
    BY <1>1, MergeRows DEF PassInv, GroupsInv
  <1>3. \A m \in g.members : quarantine[m] = <<>>
    BY DEF Merge, AnyQuarantined
  <1>4. SUFFICES ASSUME NEW l \in Belief, Merged(l)'
                 PROVE  quarantine'[l] = <<>> /\ quarantine'[supersededBy'[l]] = <<>>
    BY DEF QuarantineBoundary
  <1>5. CASE l \in Superseded(g)
    BY <1>2, <1>3, <1>5 DEF MergedRows, GroupFits
  <1>6. CASE l \notin Superseded(g)
    <2>1. Merged(l) /\ supersededBy'[l] = supersededBy[l]
      BY <1>2, <1>4, <1>6 DEF MergedRows, Merged
    <2>2. QED
      BY <1>1, <1>2, <2>1 DEF QuarantineBoundary, MergedRows
  <1>7. QED
    BY <1>5, <1>6

LEMMA MergePass ==
  ASSUME UpkeepInv, NEW g \in groups, Merge(g)
  PROVE  PassInv'
  <1>1. TableInv /\ PassInv
    BY DEF UpkeepInv
  <1>2. MergedRows(g) /\ groups' = groups \ {g}
    BY <1>1, MergeRows DEF Merge
  <1>3. UNCHANGED <<clock, fact, object>>
    BY <1>2 DEF MergedRows
  <1>4. \A x \in Belief : /\ InUse(x) => status'[x] \in {"trusted", "superseded"}
                          /\ status'[x] = "absent" <=> status[x] = "absent"
    BY <1>2 DEF MergedRows, InUse
  <1>5. GroupsInv'
    <2>1. ASSUME NEW h \in groups
          PROVE  GroupFits(h)'
      <3>1. GroupFits(h)
        BY <1>1 DEF PassInv, GroupsInv
      <3>2. \A m \in h.members : SaysTheSame(h.winner, m)'
        BY <1>3, <3>1 DEF GroupFits, SaysTheSame, Before
      <3>3. \A m \in h.members : InUse(m)'
        BY <1>4, <3>1 DEF GroupFits, InUse
      <3>4. QED
        BY <3>1, <3>2, <3>3 DEF GroupFits
    <2>2. QED
      BY <1>1, <1>2, <2>1 DEF PassInv, GroupsInv
  <1>6. PICK t \in Nat : ReadAt(t)
    BY <1>1 DEF PassInv
  <1>7. ReadAt(t)'
    <2>1. \A x \in Belief : LaterOn(t, x) <=> Later(t, x)
      BY <1>3, <1>4 DEF Later, LaterOn
    <2>2. \A h \in groups : h.members \subseteq Belief /\ h.winner \in h.members
      BY <1>1 DEF PassInv, GroupsInv, GroupFits
    <2>3. \A h \in groups : \A m \in h.members : ~LaterOn(t, m)
      BY <1>6, <2>1, <2>2 DEF ReadAt
    <2>4. ASSUME NEW h \in groups, h # g, supersededBy'[h.winner] # NoBelief
          PROVE  LaterOn(t, supersededBy'[h.winner])
      <3>1. h.winner \in Belief /\ h.winner \notin g.members
        BY <1>1, <2>2, <2>4 DEF PassInv, GroupsInv
      <3>2. supersededBy'[h.winner] = supersededBy[h.winner]
        BY <1>2, <3>1 DEF MergedRows
      <3>3. Later(t, supersededBy[h.winner]) /\ supersededBy[h.winner] \in Belief
        BY <1>1, <1>6, <2>4, <3>1, <3>2 DEF ReadAt, TableInv, TypeOK
      <3>4. QED
        BY <2>1, <3>2, <3>3
    <2>5. ASSUME NEW b \in Belief, LaterOn(t, b), supersededBy'[b] # NoBelief
          PROVE  LaterOn(t, supersededBy'[b])
      <3>1. b \notin g.members
        BY <2>3, <2>5
      <3>2. supersededBy'[b] = supersededBy[b]
        BY <1>2, <3>1 DEF MergedRows
      <3>3. Later(t, supersededBy[b]) /\ supersededBy[b] \in Belief
        BY <1>1, <1>6, <2>1, <2>5, <3>2 DEF ReadAt, TableInv, TypeOK
      <3>4. QED
        BY <2>1, <3>2, <3>3
    <2>6. t <= clock'
      BY <1>3, <1>6 DEF ReadAt
    <2>7. QED
      BY <1>2, <2>3, <2>4, <2>5, <2>6 DEF ReadAt, Later, LaterOn
  <1>8. QED
    BY <1>5, <1>7 DEF PassInv

LEMMA MergePreserves ==
  ASSUME UpkeepInv, NEW g \in groups, Merge(g)
  PROVE  UpkeepInv'
  <1>1. TableInv' /\ TextInv'
    BY MergeRows, MergeTexts DEF UpkeepInv
  <1>2. QED
    BY <1>1, MergeJustified, MergeChains, MergeBoundary, MergePass
       DEF UpkeepInv, SupersessionJustified

(***************************************************************************)
(* The groups as they are read: all trusted, none superseded.              *)
(***************************************************************************)
LEMMA DuplicatesFit ==
  ASSUME TableInv, TextInv, NEW m \in Duplicates
  PROVE  /\ m \subseteq Belief
         /\ \A b \in m : status[b] = "trusted" /\ supersededBy[b] = NoBelief
         /\ \A a, b \in m : fact[a].key = fact[b].key /\ object[a] = object[b]
         /\ \A n \in Duplicates : n # m => n \intersect m = {}
  <1>1. PICK k \in Key, o \in Text : m = Alike(k, o)
    BY DEF Duplicates
  <1>2. \A b \in m : b \in Belief /\ status[b] = "trusted" /\ supersededBy[b] = NoBelief
    BY <1>1 DEF Alike, TableInv, Linked
  <1>3. \A a, b \in m : fact[a].key = fact[b].key /\ object[a] = object[b]
    BY <1>1 DEF Alike
  <1>4. ASSUME NEW n \in Duplicates, n # m
        PROVE  n \intersect m = {}
    <2>1. PICK j \in Key, p \in Text : n = Alike(j, p)
      BY DEF Duplicates
    <2>2. QED
      BY <1>1, <1>4, <2>1 DEF Alike
  <1>5. QED
    BY <1>2, <1>3, <1>4

(***************************************************************************)
(* A step that changes no row leaves what the invariant says of the rows.  *)
(***************************************************************************)
LEMMA RowsStand ==
  ASSUME UpkeepInv, UNCHANGED <<vars, object, supersedes>>
  PROVE  TableInv' /\ TextInv' /\ SupersessionJustified' /\ QuarantineBoundary'
  <1>1. TypeOK'
    BY DEF UpkeepInv, TableInv, TypeOK, vars
  <1>2. Lifecycle'
    BY DEF UpkeepInv, TableInv, Lifecycle, Story, Tables, vars
  <1>3. Unwritten' /\ Dated' /\ Linked'
    BY DEF UpkeepInv, TableInv, Unwritten, Dated, Linked, vars
  <1>4. TextInv'
    BY DEF UpkeepInv, TextInv
  <1>5. Justified'
    BY DEF UpkeepInv, SupersessionJustified, Justified, Supersedes, Explained,
           SaysTheSame, Before, vars
  <1>6. ChainsEnd'
    BY DEF UpkeepInv, SupersessionJustified, ChainsEnd, vars
  <1>7. QuarantineBoundary'
    BY DEF UpkeepInv, QuarantineBoundary, Merged, vars
  <1>8. QED
    BY <1>1, <1>2, <1>3, <1>4, <1>5, <1>6, <1>7 DEF TableInv, SupersessionJustified

LEMMA ReadPreserves ==
  ASSUME UpkeepInv, Read
  PROVE  UpkeepInv'
  <1>1. TableInv /\ TextInv /\ clock \in Nat
    BY DEF UpkeepInv, TableInv, TypeOK
  <1>2. UNCHANGED <<vars, object, supersedes>>
    BY DEF Read
  <1>3. TableInv' /\ TextInv' /\ SupersessionJustified' /\ QuarantineBoundary'
    BY <1>2, RowsStand
  <1>4. PICK winner \in [Duplicates -> Belief] :
          /\ \A m \in Duplicates : winner[m] \in Firsts(m)
          /\ groups' = {[members |-> m, winner |-> winner[m]] : m \in Duplicates}
    BY DEF Read
  <1>5. ASSUME NEW g \in groups'
        PROVE  /\ g.members \in Duplicates /\ g.winner \in Firsts(g.members)
               /\ g = [members |-> g.members, winner |-> winner[g.members]]
    BY <1>4
  <1>6. GroupsInv'
    <2>1. ASSUME NEW g \in groups'
          PROVE  GroupFits(g)'
      <3>1. /\ g.members \subseteq Belief /\ g.winner \in g.members
            /\ \A m \in g.members : InUse(m) /\ SaysTheSame(g.winner, m)
        BY <1>1, <1>5, DuplicatesFit DEF Firsts, InUse, SaysTheSame
      <3>2. QED
        BY <1>2, <3>1 DEF vars, GroupFits, InUse, SaysTheSame, Before
    <2>2. ASSUME NEW g \in groups', NEW h \in groups', g # h
          PROVE  g.members \intersect h.members = {}
      <3>1. g.members # h.members
        BY <1>5, <2>2
      <3>2. QED
        BY <1>1, <1>5, <3>1, DuplicatesFit
    <2>3. QED
      BY <2>1, <2>2 DEF GroupsInv
  <1>7. ReadAt(clock)'
    <2>1. \A b \in Belief : ~Later(clock, b)
      BY <1>1 DEF TableInv, Dated, Later, Fact
    <2>2. \A b \in Belief : ~LaterOn(clock, b)
      BY <1>2, <2>1 DEF vars, Later, LaterOn
    <2>3. \A g \in groups' : g.members \subseteq Belief /\ g.winner \in g.members
                               /\ supersededBy'[g.winner] = NoBelief
      BY <1>1, <1>2, <1>5, DuplicatesFit DEF Firsts, vars
    <2>4. clock' = clock
      BY <1>2 DEF vars
    <2>5. QED
      BY <1>1, <2>2, <2>3, <2>4 DEF ReadAt, Later, LaterOn
  <1>8. QED
    BY <1>1, <1>2, <1>3, <1>6, <1>7 DEF UpkeepInv, PassInv, vars

(***************************************************************************)
(* The other steps of a pass change no row and take no group in hand.      *)
(***************************************************************************)
Idles ==
    /\ UNCHANGED <<vars, object, supersedes>>
    /\ groups' \subseteq groups

LEMMA IdlesPreserves ==
  ASSUME UpkeepInv, Idles
  PROVE  UpkeepInv'
  <1>1. TableInv' /\ TextInv' /\ SupersessionJustified' /\ QuarantineBoundary'
    BY RowsStand DEF Idles
  <1>2. GroupsInv'
    BY DEF Idles, UpkeepInv, vars, PassInv, GroupsInv, GroupFits, InUse, SaysTheSame,
           Before
  <1>3. PICK t \in Nat : ReadAt(t)
    BY DEF UpkeepInv, PassInv
  <1>4. ReadAt(t)'
    BY <1>3 DEF Idles, vars, ReadAt, Later
  <1>5. QED
    BY <1>1, <1>2, <1>4 DEF UpkeepInv, PassInv

LEMMA QuietStepsIdle ==
  ASSUME \/ \E g \in groups : Skip(g)
         \/ Abort \/ Finish \/ DryRun \/ UNCHANGED upkeepVars
  PROVE  Idles
  BY DEF Skip, Abort, Finish, DryRun, upkeepVars, passVars, Idles

-----------------------------------------------------------------------------
(***************************************************************************)
(* Any step of a pass or of the others, as an auditor sees it.             *)
(***************************************************************************)
Moves ==
    /\ Ticks \/ Rests
    /\ \A x \in Belief : status[x] # "absent" =>
          status'[x] # "absent" /\ fact'[x] = fact[x]
    /\ SupersededStays /\ TrustedOnRecord

LEMMA MeanwhileMoves ==
  ASSUME TableInv, Meanwhile
  PROVE  Moves
  <1>1. StepKeeps /\ (Ticks \/ Rests)
    BY MeanwhileKeeps
  <1>2. \A x \in Belief : status[x] # "absent" =>
           status'[x] # "absent" /\ fact'[x] = fact[x]
    BY <1>1 DEF StepKeeps, RowKept
  <1>3. SupersededStays
    <2>1. \A x \in Belief : status[x] = "superseded" => supersededBy[x] # NoBelief
      BY DEF TableInv, Linked
    <2>2. QED
      BY <1>1, <2>1 DEF StepKeeps, RowKept, SupersededStays
  <1>4. TrustedOnRecord
    BY <1>1 DEF StepKeeps, RowKept, TrustedOnRecord
  <1>5. QED
    BY <1>1, <1>2, <1>3, <1>4 DEF Moves

LEMMA MergeMoves ==
  ASSUME TableInv, PassInv, NEW g \in groups, Merge(g)
  PROVE  Moves
  <1>1. MergedRows(g)
    BY MergeRows
  <1>2. \A x \in Belief :
           \/ status'[x] = status[x] /\ supersededBy'[x] = supersededBy[x]
           \/ status[x] = "trusted" /\ status'[x] = "superseded"
    BY <1>1 DEF MergedRows
  <1>3. Rests
    BY <1>1, <1>2 DEF MergedRows, Rests
  <1>4. SupersededStays /\ TrustedOnRecord
    BY <1>2 DEF SupersededStays, TrustedOnRecord
  <1>5. QED
    BY <1>1, <1>2, <1>3, <1>4 DEF Moves, MergedRows

LEMMA StandingMoves ==
  ASSUME UNCHANGED vars
  PROVE  Moves
  BY DEF vars, Moves, Rests, SupersededStays, TrustedOnRecord

LEMMA UpkeepStep ==
  ASSUME UpkeepInv, [UpkeepNext]_upkeepVars
  PROVE  UpkeepInv' /\ Moves
  <1>1. TableInv /\ PassInv
    BY DEF UpkeepInv
  <1>2. CASE Meanwhile
    BY <1>1, <1>2, MeanwhilePreserves, MeanwhileMoves
  <1>3. CASE Read
    BY <1>3, ReadPreserves, StandingMoves DEF Read
  <1>4. ASSUME NEW g \in groups, Merge(g)
        PROVE  UpkeepInv' /\ Moves
    BY <1>1, <1>4, MergePreserves, MergeMoves
  <1>5. CASE \/ \E g \in groups : Skip(g)
             \/ Abort \/ Finish \/ DryRun \/ UNCHANGED upkeepVars
    <2>1. Idles
      BY <1>5, QuietStepsIdle
    <2>2. QED
      BY <2>1, IdlesPreserves, StandingMoves DEF Idles
  <1>6. QED
    BY <1>2, <1>3, <1>4, <1>5 DEF UpkeepNext

(***************************************************************************)
(* The initial states: a store in use, in which nothing is superseded.     *)
(***************************************************************************)
LEMMA UsedStoreRows ==
  ASSUME UsedStore
  PROVE  /\ clock \in Nat
         /\ \A b \in Belief : status[b] = "absent" <=> b \notin OldBeliefs
         /\ \A b \in OldBeliefs : fact[b] \in Fact /\ fact[b].txFrom <= clock
         /\ \A b \in OldBeliefs : \E n \in 1..clock : b = Old[n]
  <1>1. clock = Len(Old) /\ Old \in Seq(Belief) /\ DOMAIN Old = 1..clock
    BY UpkeepAssumption DEF UsedStore
  <1>2. clock \in Nat
    BY <1>1
  <1>3. \A b \in OldBeliefs : \E n \in 1..clock : b = Old[n]
    BY <1>1 DEF OldBeliefs, Range
  <1>4. ASSUME NEW b \in OldBeliefs
        PROVE  fact[b] \in Fact /\ fact[b].txFrom <= clock
    <2>1. PICK n \in 1..clock : b = Old[n]
      BY <1>3
    <2>2. b \in Belief /\ fact[b] # NoFact
      BY <1>1, <2>1 DEF UsedStore
    <2>3. fact[b] \in [key : Key, claim : Claim, txFrom : 1..clock]
      BY <2>2 DEF UsedStore
    <2>4. QED
      BY <1>2, <2>3 DEF Fact
  <1>5. \A b \in Belief : status[b] = "absent" <=> b \notin OldBeliefs
    <2>1. PICK held \in SUBSET OldBeliefs :
             status = [b \in Belief |-> CASE b \in held       -> "quarantined"
                                          [] b \in OldBeliefs \ held -> "trusted"
                                          [] b \notin OldBeliefs      -> "absent"]
      BY DEF UsedStore
    <2>2. QED
      BY <2>1
  <1>6. QED
    BY <1>2, <1>3, <1>4, <1>5

LEMMA UpkeepInitEstablishes == UpkeepInit => UpkeepInv
  <1> SUFFICES ASSUME UpkeepInit PROVE UpkeepInv
    OBVIOUS
  <1>1. UsedStore
    BY DEF UpkeepInit
  <1>2. /\ clock \in Nat
        /\ \A b \in Belief : status[b] = "absent" <=> b \notin OldBeliefs
        /\ \A b \in OldBeliefs : fact[b] \in Fact /\ fact[b].txFrom <= clock
    BY <1>1, UsedStoreRows
  <1>3. /\ supersededBy = [b \in Belief |-> NoBelief]
        /\ txTo = [b \in Belief |-> 0] /\ contradictions = {}
        /\ scored = [b \in Belief |-> b \in OldBeliefs] /\ screened = scored
    BY <1>1 DEF UsedStore
  <1>4. PICK held \in SUBSET OldBeliefs :
          /\ status = [b \in Belief |-> CASE b \in held       -> "quarantined"
                                          [] b \in OldBeliefs \ held -> "trusted"
                                          [] b \notin OldBeliefs      -> "absent"]
          /\ verdicts = [b \in Belief |-> IF b \in OldBeliefs THEN <<status[b]>> ELSE <<>>]
          /\ quarantine = [b \in Belief |-> IF b \in held THEN <<"held">> ELSE <<>>]
    BY <1>1 DEF UsedStore
  <1>5. ASSUME NEW b \in Belief
        PROVE  \/ Tables(b, <<>>, <<>>, {"absent"}) /\ b \notin OldBeliefs
               \/ Tables(b, <<"trusted">>, <<>>, {"trusted"}) /\ b \in OldBeliefs
               \/ Tables(b, <<"quarantined">>, <<"held">>, {"quarantined"})
                     /\ b \in OldBeliefs
    <2>1. CASE b \notin OldBeliefs
      BY <1>4, <2>1 DEF Tables
    <2>2. CASE b \in held
      <3>1. status[b] = "quarantined"
        BY <1>4, <2>2
      <3>2. verdicts[b] = <<status[b]>> /\ quarantine[b] = <<"held">>
        BY <1>4, <2>2
      <3>3. QED
        BY <2>2, <3>1, <3>2 DEF Tables
    <2>3. CASE b \in OldBeliefs \ held
      <3>1. status[b] = "trusted"
        BY <1>4, <2>3
      <3>2. verdicts[b] = <<status[b]>> /\ quarantine[b] = <<>>
        BY <1>4, <2>3
      <3>3. QED
        BY <2>3, <3>1, <3>2 DEF Tables
    <2>4. QED
      BY <2>1, <2>2, <2>3
  <1>6. TypeOK
    <2>1. status \in [Belief -> Status]
      BY <1>4, <1>5 DEF Tables, Status
    <2>2. verdicts \in [Belief -> Seq(Verdict)]
      <3>1. <<"trusted">> \in Seq(Verdict) /\ <<"quarantined">> \in Seq(Verdict)
              /\ << >> \in Seq(Verdict)
        BY DEF Verdict
      <3>2. \A b \in Belief : verdicts[b] \in Seq(Verdict)
        BY <1>5, <3>1 DEF Tables
      <3>3. verdicts = [b \in Belief |-> verdicts[b]]
        BY <1>4
      <3>4. QED
        BY <3>2, <3>3
    <2>3. quarantine \in [Belief -> Seq(Disposition)]
      <3>1. <<"held">> \in Seq(Disposition) /\ << >> \in Seq(Disposition)
        BY DEF Disposition
      <3>2. \A b \in Belief : quarantine[b] \in Seq(Disposition)
        BY <1>5, <3>1 DEF Tables
      <3>3. quarantine = [b \in Belief |-> quarantine[b]]
        BY <1>4
      <3>4. QED
        BY <3>2, <3>3
    <2>4. fact \in [Belief -> Fact \union {NoFact}]
      BY <1>1, <1>2 DEF UsedStore, Fact
    <2>5. QED
      BY <1>2, <1>3, <2>1, <2>2, <2>3, <2>4 DEF TypeOK, Event
  <1>7. Lifecycle
    <2> SUFFICES ASSUME NEW b \in Belief PROVE Story(b)
      BY DEF Lifecycle
    <2>1. scored[b] = (b \in OldBeliefs) /\ screened[b] = scored[b]
      BY <1>3
    <2>2. QED
      BY <1>5, <2>1 DEF Story, Tables
  <1>8. TableInv
    <2>1. Unwritten /\ Linked
      BY <1>3, <1>5, NoBeliefAssumption DEF Unwritten, Linked, Tables
    <2>2. Dated
      BY <1>2 DEF Dated
    <2>3. QED
      BY <1>6, <1>7, <2>1, <2>2 DEF TableInv
  <1>9. TextInv
    BY <1>1 DEF TextInv, UsedStore, UpkeepInit
  <1>10. Justified
    <2>1. \A l \in Belief : supersededBy[l] = NoBelief /\ supersedes[l] = NoBelief
                            /\ status[l] # "superseded"
      BY <1>3, <1>5 DEF UpkeepInit, Tables
    <2>2. QED
      BY <2>1, NoBeliefAssumption DEF Justified, Supersedes
  <1>11. ChainsEnd
    BY <1>3, NoBeliefAssumption DEF ChainsEnd
  <1>12. QuarantineBoundary
    BY <1>5 DEF QuarantineBoundary, Merged, Tables
  <1>13. PassInv
    <2>1. groups = {}
      BY DEF UpkeepInit
    <2>2. ReadAt(clock)
      BY <1>2, <1>3, <2>1 DEF ReadAt
    <2>3. QED
      BY <1>2, <2>1, <2>2 DEF PassInv, GroupsInv
  <1>14. QED
    BY <1>8, <1>9, <1>10, <1>11, <1>12, <1>13 DEF UpkeepInv, SupersessionJustified

-----------------------------------------------------------------------------
(***************************************************************************)
(* The invariant of the questions about the past: the history is as long   *)
(* as the clock has run, mechanism 1 finds what it says was open, no row   *)
(* is closed in the future, and up to any two times a fact has lost no     *)
(* more rows than it has gained.                                           *)
(***************************************************************************)
Snapshot == [rows : SUBSET Belief, open : SUBSET Belief]

About(k, rows) == {b \in rows : fact[b].key = k}

PastInv ==
    /\ past \in Seq(Snapshot) /\ Len(past) = clock
    /\ \A t \in 1..clock : past[t].open = Bitemporal(t)
                             /\ past[t].open \subseteq past[t].rows

Balances ==
    \A t1, t2 \in 0..clock, k \in Key : t1 <= t2 =>
        Cardinality(About(k, Removed(t1, t2))) <= Cardinality(About(k, Added(t1, t2)))

AuditInv ==
    /\ UpkeepInv
    /\ IsFiniteSet(Rows)
    /\ \A b \in Belief : txTo[b] \in 0..clock
    /\ PastInv
    /\ Balances

(***************************************************************************)
(* What a tick makes of the rows: nothing that was open at an earlier time *)
(* is affected, and the new row is open, in place of one it closes, if it  *)
(* closes one, about the same fact.                                        *)
(***************************************************************************)
LEMMA TickedRows ==
  ASSUME TableInv, \A b \in Belief : txTo[b] \in 0..clock, Ticks, Moves,
         NEW now \in Nat, now = clock + 1
  PROVE  /\ \A x \in Belief : txTo'[x] \in 0..clock'
         /\ \A t \in 0..clock : Bitemporal(t)' = Bitemporal(t)
         /\ Bitemporal(now)' = Version'.open
         /\ \E b \in Belief :
               /\ b \notin Rows /\ Rows' = Rows \union {b}
               /\ \/ Bitemporal(now)' = Bitemporal(clock) \union {b}
                  \/ \E i \in Bitemporal(clock) :
                        /\ fact'[i].key = fact'[b].key
                        /\ Bitemporal(now)' = (Bitemporal(clock) \union {b}) \ {i}
  <1>1. clock \in Nat /\ clock' = now
    BY DEF TableInv, TypeOK, Ticks
  <1>2. PICK b \in Belief :
          /\ status[b] = "absent" /\ status'[b] = "pending"
          /\ fact'[b].txFrom = now /\ txTo'[b] = 0
          /\ \A x \in Belief : x # b => (status'[x] = "absent" <=> status[x] = "absent")
          /\ \/ txTo' = txTo
             \/ \E i \in Belief : /\ status[i] = "trusted" /\ txTo[i] = 0 /\ i # b
                                  /\ fact[i].key = fact'[b].key
                                  /\ txTo' = [txTo EXCEPT ![i] = now]
    BY DEF Ticks
  <1>3. txTo \in [Belief -> Nat]
    BY DEF TableInv, TypeOK
  <1>4. b \notin Rows /\ Rows' = Rows \union {b}
    BY <1>2 DEF Rows
  <1>5. \A x \in Rows : /\ x \in Belief /\ fact'[x] = fact[x]
                        /\ fact[x].txFrom \in Nat /\ fact[x].txFrom <= clock
    BY DEF Rows, Moves, TableInv, Dated, Fact
  <1>6. \A x \in Belief : \/ txTo'[x] = txTo[x]
                          \/ txTo[x] = 0 /\ txTo'[x] = now
    BY <1>2, <1>3
  <1>7. \A x \in Belief : txTo'[x] \in 0..clock'
    BY <1>1, <1>6
  <1>8. ASSUME NEW t \in 0..clock
        PROVE  Bitemporal(t)' = Bitemporal(t)
    <2>1. ASSUME NEW x \in Rows
          PROVE  (txTo'[x] = 0 \/ txTo'[x] > t) <=> (txTo[x] = 0 \/ txTo[x] > t)
      BY <1>1, <1>5, <1>6
    <2>2. ~(fact'[b].txFrom <= t)
      BY <1>1, <1>2
    <2>3. QED
      BY <1>4, <1>5, <2>1, <2>2 DEF Bitemporal
  <1>9. Bitemporal(now)' = {x \in Rows' : txTo'[x] = 0}
    <2>1. ASSUME NEW x \in Rows'
          PROVE  fact'[x].txFrom <= now /\ ~(txTo'[x] > now)
      BY <1>1, <1>2, <1>4, <1>5, <1>7, <2>1 
    <2>2. QED
      BY <2>1 DEF Bitemporal
  <1>10. Bitemporal(clock) = {x \in Rows : txTo[x] = 0}
    <2>1. ASSUME NEW x \in Rows
          PROVE  fact[x].txFrom <= clock /\ ~(txTo[x] > clock)
      BY <1>1, <1>5, <2>1
    <2>2. QED
      BY <2>1 DEF Bitemporal
  <1>11. \/ Bitemporal(now)' = Bitemporal(clock) \union {b}
         \/ \E i \in Bitemporal(clock) :
               /\ fact'[i].key = fact'[b].key
               /\ Bitemporal(now)' = (Bitemporal(clock) \union {b}) \ {i}
    <2>1. CASE txTo' = txTo
      BY <1>2, <1>4, <1>9, <1>10, <2>1
    <2>2. ASSUME NEW i \in Belief, status[i] = "trusted", txTo[i] = 0, i # b,
                 fact[i].key = fact'[b].key, txTo' = [txTo EXCEPT ![i] = now]
          PROVE  /\ i \in Bitemporal(clock) /\ fact'[i].key = fact'[b].key
                 /\ Bitemporal(now)' = (Bitemporal(clock) \union {b}) \ {i}
      <3>1. i \in Rows /\ i \in Bitemporal(clock)
        BY <1>10, <2>2 DEF Rows
      <3>2. txTo'[i] # 0 /\ \A x \in Belief : x # i => txTo'[x] = txTo[x]
        BY <1>1, <1>3, <2>2
      <3>3. b \in Belief /\ txTo'[b] = 0
        BY <1>2
      <3>4. QED
        BY <1>4, <1>5, <1>9, <1>10, <2>2, <3>1, <3>2, <3>3
    <2>3. QED
      BY <1>2, <2>1, <2>2
  <1>12. QED
    BY <1>4, <1>7, <1>8, <1>9, <1>11 DEF Version

LEMMA RestedRows ==
  ASSUME Rests
  PROVE  Rows' = Rows /\ \A t \in Nat : Bitemporal(t)' = Bitemporal(t)
  <1>1. Rows' = Rows
    BY DEF Rests, Rows
  <1>2. QED
    BY <1>1 DEF Rests, Bitemporal

(***************************************************************************)
(* The diffs balance: the row a tick opens makes up for the one it closes. *)
(***************************************************************************)
LEMMA ExchangeBalances ==
  ASSUME NEW A, NEW R, IsFiniteSet(A), IsFiniteSet(R),
         Cardinality(R) <= Cardinality(A), NEW b, b \notin A, NEW i
  PROVE  /\ Cardinality(R) <= Cardinality(A \union {b})
         /\ Cardinality(R \union {i}) <= Cardinality(A \union {b})
         /\ Cardinality(R) <= Cardinality((A \union {b}) \ {i})
  <1>1. Cardinality(A) \in Nat /\ Cardinality(R) \in Nat
    BY FS_CardinalityType
  <1>2. /\ IsFiniteSet(A \union {b})
        /\ Cardinality(A \union {b}) = Cardinality(A) + 1
    BY FS_AddElement
  <1>3. /\ IsFiniteSet(R \union {i})
        /\ Cardinality(R \union {i}) = IF i \in R THEN Cardinality(R)
                                       ELSE Cardinality(R) + 1
    BY FS_AddElement
  <1>4. Cardinality((A \union {b}) \ {i}) =
           IF i \in A \union {b} THEN Cardinality(A \union {b}) - 1
           ELSE Cardinality(A \union {b})
    BY <1>2, FS_RemoveElement
  <1>5. Cardinality(R \union {i}) <= Cardinality(R) + 1
    BY <1>1, <1>3
  <1>6. Cardinality(A) <= Cardinality((A \union {b}) \ {i})
    BY <1>1, <1>2, <1>4
  <1>7. Cardinality(R \union {i}) \in Nat /\ Cardinality((A \union {b}) \ {i}) \in Nat
    BY <1>1, <1>2, <1>3, <1>4
  <1> DEFINE c == Cardinality(A)   d == Cardinality(R)
             e == Cardinality(A \union {b})
             f == Cardinality(R \union {i})
             h == Cardinality((A \union {b}) \ {i})
  <1>8. c \in Nat /\ d \in Nat /\ e = c + 1 /\ f \in Nat /\ h \in Nat
        /\ f <= d + 1 /\ c <= h /\ d <= c
    BY <1>1, <1>2, <1>5, <1>6, <1>7
  <1> HIDE DEF c, d, e, f, h
  <1>9. d <= e /\ f <= e /\ d <= h
    BY <1>8
  <1>10. QED
    BY <1>9 DEF c, d, e, f, h

LEMMA TickBalances ==
  ASSUME AuditInv, Ticks, Moves, NEW now \in Nat, now = clock + 1,
         NEW t \in 0..clock, NEW k \in Key
  PROVE  Cardinality(About(k, Removed(t, now)))' <= Cardinality(About(k, Added(t, now)))'
  <1> DEFINE A == About(k, Added(t, clock))
             R == About(k, Removed(t, clock))
             earlier == Bitemporal(t)
             open == Bitemporal(clock)
             opened == Bitemporal(now)'
  <1>1. TableInv /\ clock \in Nat
    BY DEF AuditInv, UpkeepInv, TableInv, TypeOK
  <1>2. IsFiniteSet(A) /\ IsFiniteSet(R) /\ Cardinality(R) <= Cardinality(A)
    <2>1. A \in SUBSET Rows /\ R \in SUBSET Rows
      BY DEF About, Added, Removed, Bitemporal
    <2>2. IsFiniteSet(Rows) /\ Cardinality(R) <= Cardinality(A)
      BY <1>1 DEF AuditInv, Balances
    <2>3. QED
      BY <2>1, <2>2, FS_Subset
  <1>3. earlier \subseteq Rows /\ open \subseteq Rows
    BY DEF Bitemporal
  <1>4. Bitemporal(t)' = earlier
    BY <1>1, TickedRows DEF AuditInv
  <1>5. PICK b \in Belief :
          /\ b \notin Rows /\ Rows' = Rows \union {b}
          /\ \/ opened = open \union {b}
             \/ \E i \in open :
                  /\ fact'[i].key = fact'[b].key
                  /\ opened = (open \union {b}) \ {i}
    BY <1>1, TickedRows DEF AuditInv
  <1>6. \A x \in Rows : fact'[x] = fact[x]
    BY DEF Rows, Moves
  <1>7. /\ About(k, Added(t, now))' = {x \in opened \ earlier : fact'[x].key = k}
        /\ About(k, Removed(t, now))' = {x \in earlier \ opened : fact'[x].key = k}
    BY <1>4 DEF About, Added, Removed
  <1>8. /\ A = {x \in open \ earlier : fact'[x].key = k}
        /\ R = {x \in earlier \ open : fact'[x].key = k}
    BY <1>3, <1>6 DEF About, Added, Removed
  <1>9. b \notin A /\ b \notin earlier /\ b \notin open
    BY <1>3, <1>5, <1>8
  <1> HIDE DEF A, R, earlier, open, opened
  <1>10. CASE fact'[b].key # k
    <2>1. /\ {x \in opened \ earlier : fact'[x].key = k} = A
          /\ {x \in earlier \ opened : fact'[x].key = k} = R
      BY <1>5, <1>8, <1>9, <1>10
    <2>2. QED
      BY <1>2, <1>7, <2>1
  <1>11. CASE fact'[b].key = k /\ opened = open \union {b}
    <2>1. /\ {x \in opened \ earlier : fact'[x].key = k} = A \union {b}
          /\ {x \in earlier \ opened : fact'[x].key = k} = R
      BY <1>8, <1>9, <1>11
    <2>2. QED
      BY <1>2, <1>7, <1>9, <2>1, ExchangeBalances
  <1>12. ASSUME NEW i \in open, fact'[b].key = k, fact'[i].key = k,
                opened = (open \union {b}) \ {i}
         PROVE  Cardinality(About(k, Removed(t, now)))'
                  <= Cardinality(About(k, Added(t, now)))'
    <2>1. CASE i \in earlier
      <3>1. /\ {x \in opened \ earlier : fact'[x].key = k} = A \union {b}
            /\ {x \in earlier \ opened : fact'[x].key = k} = R \union {i}
        BY <1>8, <1>9, <1>12, <2>1
      <3>2. QED
        BY <1>2, <1>7, <1>9, <3>1, ExchangeBalances
    <2>2. CASE i \notin earlier
      <3>1. /\ {x \in opened \ earlier : fact'[x].key = k} = (A \union {b}) \ {i}
            /\ {x \in earlier \ opened : fact'[x].key = k} = R
        BY <1>8, <1>9, <1>12, <2>2
      <3>2. Cardinality(R) <= Cardinality((A \union {b}) \ {i})
        BY <1>2, <1>9, ExchangeBalances
      <3>3. QED
        BY <1>7, <3>1, <3>2
    <2>3. QED
      BY <2>1, <2>2
  <1>13. QED
    BY <1>5, <1>10, <1>11, <1>12

LEMMA AuditStep ==
  ASSUME AuditInv, [AuditNext]_auditVars
  PROVE  AuditInv'
  <1>1. UpkeepInv' /\ Moves
    BY UpkeepStep DEF AuditInv, AuditNext, auditVars
  <1>2. TableInv /\ clock \in Nat
    BY DEF AuditInv, UpkeepInv, TableInv, TypeOK
  <1>3. Remember
    BY DEF AuditNext, auditVars, upkeepVars, vars, Remember
  <1>4. \A x \in Rows : fact'[x] = fact[x]
    BY <1>1 DEF Moves, Rows
  <1>5. CASE Rests
    <2>1. Rows' = Rows /\ \A t \in Nat : Bitemporal(t)' = Bitemporal(t)
      BY <1>5, RestedRows
    <2>2. clock' = clock /\ txTo' = txTo /\ past' = past
      BY <1>3, <1>5 DEF Rests, Remember
    <2>3. \A b \in Belief : txTo'[b] \in 0..clock'
      BY <2>2 DEF AuditInv
    <2>4. PastInv'
      BY <1>2, <2>1, <2>2 DEF AuditInv, PastInv
    <2>5. ASSUME NEW t1 \in 0..clock, NEW t2 \in 0..clock, NEW k \in Key, t1 <= t2
          PROVE  Cardinality(About(k, Removed(t1, t2)))'
                   <= Cardinality(About(k, Added(t1, t2)))'
      <3>1. Bitemporal(t1)' = Bitemporal(t1) /\ Bitemporal(t2)' = Bitemporal(t2)
        BY <1>2, <2>1
      <3>2. fact' = fact
        BY <1>5 DEF Rests
      <3>3. /\ About(k, Removed(t1, t2))' = About(k, Removed(t1, t2))
            /\ About(k, Added(t1, t2))' = About(k, Added(t1, t2))
        BY <3>1, <3>2 DEF About, Removed, Added
      <3>4. Cardinality(About(k, Removed(t1, t2))) <= Cardinality(About(k, Added(t1, t2)))
        BY <2>5 DEF AuditInv, Balances
      <3>5. QED
        BY <3>3, <3>4
    <2>6. Balances'
      BY <2>2, <2>5 DEF Balances
    <2>7. QED
      BY <1>1, <2>1, <2>3, <2>4, <2>6 DEF AuditInv
  <1>6. CASE Ticks
    <2>1. PICK now \in Nat : now = clock + 1 /\ clock' = now
      BY <1>2, <1>6 DEF Ticks
    <2>2. /\ \A x \in Belief : txTo'[x] \in 0..clock'
          /\ \A t \in 0..clock : Bitemporal(t)' = Bitemporal(t)
          /\ Bitemporal(now)' = Version'.open
          /\ \E b \in Belief : Rows' = Rows \union {b}
      BY <1>1, <1>2, <1>6, <2>1, TickedRows DEF AuditInv
    <2>3. IsFiniteSet(Rows')
      BY <2>2, FS_AddElement DEF AuditInv
    <2>4. PastInv'
      <3>1. past' = Append(past, Version') /\ past \in Seq(Snapshot) /\ Len(past) = clock
        BY <1>2, <1>3, <2>1 DEF Remember, AuditInv, PastInv
      <3>2. Version' \in Snapshot /\ Version'.open \subseteq Version'.rows
        BY DEF Version, Snapshot, Rows
      <3>3. past' \in Seq(Snapshot) /\ Len(past') = clock'
        BY <1>2, <2>1, <3>1, <3>2
      <3>4. ASSUME NEW t \in 1..clock'
            PROVE  past'[t].open = Bitemporal(t)' /\ past'[t].open \subseteq past'[t].rows
        <4>1. CASE t = now
          BY <2>1, <2>2, <3>1, <3>2, <4>1
        <4>2. CASE t \in 1..clock
          <5>1. past'[t] = past[t]
            BY <3>1, <3>2, <4>2
          <5>2. past[t].open = Bitemporal(t) /\ past[t].open \subseteq past[t].rows
            BY <4>2 DEF AuditInv, PastInv
          <5>3. Bitemporal(t)' = Bitemporal(t)
            BY <1>2, <2>2, <4>2
          <5>4. QED
            BY <5>1, <5>2, <5>3
        <4>3. QED
          BY <1>2, <2>1, <4>1, <4>2
      <3>5. QED
        BY <3>3, <3>4 DEF PastInv
    <2>5. ASSUME NEW t1 \in 0..now, NEW t2 \in 0..now, NEW k \in Key, t1 <= t2
          PROVE  Cardinality(About(k, Removed(t1, t2)))'
                   <= Cardinality(About(k, Added(t1, t2)))'
      <3>1. CASE t1 = t2
        <4>1. About(k, Removed(t1, t2))' = About(k, Added(t1, t2))'
          BY <3>1 DEF About, Removed, Added
        <4>2. About(k, Added(t1, t2))' = {}
          BY <3>1 DEF About, Added
        <4>3. QED
          BY <4>1, <4>2, FS_EmptySet
      <3>2. CASE t1 \in 0..clock /\ t2 = now
        BY <1>1, <1>6, <2>1, <3>2, TickBalances
      <3>3. CASE t1 \in 0..clock /\ t2 \in 0..clock
        <4>1. Bitemporal(t1)' = Bitemporal(t1) /\ Bitemporal(t2)' = Bitemporal(t2)
          BY <2>2, <3>3
        <4>2. Bitemporal(t1) \subseteq Rows /\ Bitemporal(t2) \subseteq Rows
          BY DEF Bitemporal
        <4>3. /\ About(k, Removed(t1, t2))' = About(k, Removed(t1, t2))
              /\ About(k, Added(t1, t2))' = About(k, Added(t1, t2))
          BY <1>4, <4>1, <4>2 DEF About, Removed, Added
        <4>4. Cardinality(About(k, Removed(t1, t2)))
                <= Cardinality(About(k, Added(t1, t2)))
          BY <2>5, <3>3 DEF AuditInv, Balances
        <4>5. QED
          BY <4>3, <4>4
      <3>4. QED
        BY <1>2, <2>1, <2>5, <3>1, <3>2, <3>3
    <2>6. Balances'
      BY <2>1, <2>5 DEF Balances
    <2>7. QED
      BY <1>1, <2>2, <2>3, <2>4, <2>6 DEF AuditInv
  <1>7. QED
    BY <1>1, <1>5, <1>6 DEF Moves

LEMMA AuditInitEstablishes == AuditInit => AuditInv
  <1> SUFFICES ASSUME AuditInit PROVE AuditInv
    OBVIOUS
  <1>1. UsedStore /\ UpkeepInv
    BY UpkeepInitEstablishes DEF AuditInit, UpkeepInit
  <1>2. /\ clock = Len(Old) /\ Old \in [1..clock -> Belief] /\ clock \in Nat
        /\ Range(Old) = {Old[n] : n \in 1..clock}
    BY <1>1, UpkeepAssumption DEF UsedStore, Range
  <1>3. Rows = Range(Old)
    <2>1. Range(Old) \subseteq Belief
      BY <1>2
    <2>2. QED
      BY <1>1, <2>1, UsedStoreRows DEF Rows, OldBeliefs
  <1>4. IsFiniteSet(Rows)
    <2>1. Old \in Surjection(1..clock, Range(Old))
      BY <1>2 DEF Surjection
    <2>2. IsFiniteSet(1..clock)
      BY <1>2, FS_Interval
    <2>3. QED
      BY <1>3, <2>1, <2>2, FS_Surjection
  <1>5. txTo = [b \in Belief |-> 0]
    BY <1>1 DEF UsedStore
  <1>6. ASSUME NEW t \in 0..clock
        PROVE  Bitemporal(t) = {Old[n] : n \in 1..t}
    <2>1. \A n \in 1..clock : Old[n] \in Rows /\ fact[Old[n]].txFrom = n
      BY <1>1, <1>2, <1>3 DEF UsedStore
    <2>2. \A b \in Rows : \E n \in 1..clock : b = Old[n]
      BY <1>2, <1>3
    <2>3. \A b \in Rows : txTo[b] = 0
      BY <1>5 DEF Rows
    <2>4. Bitemporal(t) = {b \in Rows : fact[b].txFrom <= t}
      BY <2>3 DEF Bitemporal
    <2>5. \A n \in 1..t : n \in 1..clock /\ Old[n] \in Rows /\ fact[Old[n]].txFrom <= t
      BY <1>2, <2>1
    <2>6. \A b \in Rows : fact[b].txFrom <= t => \E n \in 1..t : b = Old[n]
      BY <1>2, <2>1, <2>2
    <2>7. QED
      BY <2>4, <2>5, <2>6
  <1>7. PastInv
    <2>1. past = [t \in 1..clock |-> [rows |-> {Old[n] : n \in 1..t},
                                      open |-> {Old[n] : n \in 1..t}]]
      BY DEF AuditInit
    <2>2. \A t \in 1..clock : {Old[n] : n \in 1..t} \subseteq Belief
      BY <1>2
    <2>3. past \in [1..clock -> Snapshot]
      BY <2>1, <2>2 DEF Snapshot
    <2>4. past \in Seq(Snapshot) /\ Len(past) = clock
      BY <1>2, <2>3
    <2>5. \A t \in 1..clock : /\ past[t].open = {Old[n] : n \in 1..t}
                              /\ past[t].rows = {Old[n] : n \in 1..t}
      BY <2>1
    <2>6. ASSUME NEW t \in 1..clock
          PROVE  past[t].open = Bitemporal(t) /\ past[t].open \subseteq past[t].rows
      <3>1. Bitemporal(t) = {Old[n] : n \in 1..t}
        BY <1>2, <1>6
      <3>2. QED
        BY <2>5, <3>1
    <2>7. QED
      BY <2>4, <2>6 DEF PastInv
  <1>8. Balances
    <2> SUFFICES ASSUME NEW t1 \in 0..clock, NEW t2 \in 0..clock, NEW k \in Key, t1 <= t2
                 PROVE  Cardinality(About(k, Removed(t1, t2)))
                          <= Cardinality(About(k, Added(t1, t2)))
      BY DEF Balances
    <2>1. Removed(t1, t2) = {}
      <3>1. \A n \in 1..t1 : n \in 1..t2
        BY <1>2
      <3>2. QED
        BY <1>6, <3>1 DEF Removed
    <2>2. Cardinality(About(k, Removed(t1, t2))) = 0
      BY <2>1, FS_EmptySet DEF About
    <2>3. Cardinality(About(k, Added(t1, t2))) \in Nat
      <3>1. About(k, Added(t1, t2)) \in SUBSET Rows
        BY DEF About, Added, Bitemporal
      <3>2. QED
        BY <1>4, <3>1, FS_Subset, FS_CardinalityType
    <2>4. QED
      BY <2>2, <2>3
  <1>9. QED
    BY <1>1, <1>2, <1>4, <1>5, <1>7, <1>8 DEF AuditInv

LEMMA AuditInvariant == AuditSpec => []AuditInv
  <1>1. AuditInit => AuditInv
    BY AuditInitEstablishes
  <1>2. AuditInv /\ [AuditNext]_auditVars => AuditInv'
    BY AuditStep
  <1>3. QED
    BY <1>1, <1>2, PTL DEF AuditSpec

-----------------------------------------------------------------------------
(***************************************************************************)
(* QuarantineBoundary (T9): no belief that was ever held for review has    *)
(* been merged or has won a merge, for any beliefs and texts.              *)
(***************************************************************************)
THEOREM MergesAvoidHeldBeliefs == AuditSpec => []QuarantineBoundary
  <1>1. AuditInv => QuarantineBoundary
    BY DEF AuditInv, UpkeepInv
  <1>2. QED
    BY <1>1, AuditInvariant, PTL

(***************************************************************************)
(* SupersessionJustified: whatever contradictions and merges are mixed,    *)
(* every supersession has its reason and every chain of them its end.      *)
(***************************************************************************)
THEOREM SupersessionsAreJustified == AuditSpec => []SupersessionJustified
  <1>1. AuditInv => SupersessionJustified
    BY DEF AuditInv, UpkeepInv
  <1>2. QED
    BY <1>1, AuditInvariant, PTL

(***************************************************************************)
(* SupersededIsFinal: no step revives what is superseded, gives it another *)
(* winner or makes a belief trusted off the record, however old the groups *)
(* are that a pass works on.                                               *)
(***************************************************************************)
THEOREM SupersessionIsFinal == AuditSpec => SupersededIsFinal
  <1>1. AuditInv /\ [AuditNext]_auditVars => [SupersededStays /\ TrustedOnRecord]_upkeepVars
    BY UpkeepStep DEF AuditInv, AuditNext, auditVars, Moves
  <1>2. QED
    BY <1>1, AuditInvariant, PTL DEF AuditSpec, SupersededIsFinal

(***************************************************************************)
(* A merge leaves the rows as open as they were, so it does not implement  *)
(* the resolve of the store; but it rewrites no record either, and the     *)
(* life of a belief still goes one way.                                    *)
(***************************************************************************)
LEMMA UpkeepKeepsRecords ==
  ASSUME UpkeepInv, [UpkeepNext]_upkeepVars
  PROVE  KeepsRecords
  <1>1. TableInv /\ PassInv
    BY DEF UpkeepInv
  <1>2. CASE Meanwhile
    <2>1. Next
      BY <1>2 DEF Meanwhile, Write, Next
    <2>2. QED
      BY <1>1, <2>1, StepKeepsRecords
  <1>3. ASSUME NEW g \in groups, Merge(g)
        PROVE  KeepsRecords
    <2>1. MergedRows(g)
      BY <1>1, <1>3, MergeRows
    <2>2. ASSUME NEW b \in Belief
          PROVE  KeepsRecord(b)
      <3>1. UNCHANGED <<fact, txTo, verdicts, quarantine>>
        BY <2>1 DEF MergedRows
      <3>2. status[b] # "absent" => status'[b] # "absent"
        BY <2>1 DEF MergedRows
      <3>3. txTo[b] # 0 => supersededBy'[b] = supersededBy[b]
        BY <2>1 DEF MergedRows
      <3>4. verdicts[b] \in Seq(Verdict) /\ quarantine[b] \in Seq(Disposition)
        BY <1>1 DEF TableInv, TypeOK
      <3>5. QED
        BY <3>1, <3>2, <3>3, <3>4 DEF KeepsRecord
    <2>3. QED
      BY <2>1, <2>2 DEF KeepsRecords, MergedRows
  <1>4. CASE UNCHANGED vars
    <2>1. \A b \in Belief : verdicts[b] \in Seq(Verdict) /\ quarantine[b] \in Seq(Disposition)
      BY <1>1 DEF TableInv, TypeOK
    <2>2. QED
      BY <1>4, <2>1 DEF vars, KeepsRecords, KeepsRecord
  <1>5. CASE Read
    BY <1>4, <1>5 DEF Read
  <1>6. CASE \/ \E g \in groups : Skip(g)
             \/ Abort \/ Finish \/ DryRun \/ UNCHANGED upkeepVars
    BY <1>4, <1>6, QuietStepsIdle DEF Idles
  <1>7. QED
    BY <1>2, <1>3, <1>5, <1>6 DEF UpkeepNext

(***************************************************************************)
(* RecordsKept, with the passes of a8_consolidation.py: no verdict,        *)
(* decision, closed row or contradiction is rewritten by a merge, and no   *)
(* belief goes back.                                                       *)
(***************************************************************************)
THEOREM MergesMoveForward == AuditSpec => RecordsKept /\ [][NeverBack]_vars
  <1>1. AuditInv /\ [AuditNext]_auditVars => [KeepsRecords]_vars
    BY UpkeepKeepsRecords DEF AuditInv, AuditNext, auditVars
  <1>2. AuditInv /\ AuditInv' /\ [AuditNext]_auditVars => [NeverBack]_vars
    <2> SUFFICES ASSUME AuditInv, AuditInv', [AuditNext]_auditVars
                 PROVE  NeverBack
      OBVIOUS
    <2>1. TableInv /\ TableInv'
      BY DEF AuditInv, UpkeepInv
    <2>2. KeepsRecords /\ Moves
      BY UpkeepKeepsRecords, UpkeepStep DEF AuditInv, AuditNext, auditVars
    <2>3. QED
      BY <2>1, <2>2, RecordsTellTheWay DEF Moves, SupersededStays
  <1>3. QED
    BY <1>1, <1>2, AuditInvariant, PTL DEF AuditSpec, RecordsKept

(***************************************************************************)
(* Vetted: merges included, what consumers retrieve has passed the gate or *)
(* a reviewer, and nobody has rejected it.                                 *)
(***************************************************************************)
THEOREM MergesKeepVetted == AuditSpec => []Vetted
  <1>1. AuditInv => Vetted
    BY LifecycleVets DEF AuditInv, UpkeepInv, TableInv
  <1>2. QED
    BY <1>1, AuditInvariant, PTL

(***************************************************************************)
(* PastReconstructed: mechanism 1 finds exactly the rows that were open at *)
(* any time, for any number of writes, contradictions and merges since.    *)
(***************************************************************************)
THEOREM PastIsReconstructed == AuditSpec => []PastReconstructed
  <1>1. AuditInv => PastReconstructed
    BY DEF AuditInv, PastInv, PastReconstructed
  <1>2. QED
    BY <1>1, AuditInvariant, PTL

(***************************************************************************)
(* What the invariant says of a diff and of an automatic answer.           *)
(***************************************************************************)
LEMMA AuditBalances == AuditInv => DiffBalances
  <1> SUFFICES ASSUME AuditInv, NEW t1 \in 0..clock, NEW t2 \in 0..clock, t1 < t2
               PROVE  /\ \A k \in Key :
                            Cardinality({b \in Removed(t1, t2) : fact[b].key = k})
                              <= Cardinality({b \in Added(t1, t2) : fact[b].key = k})
                      /\ \A l \in Removed(t1, t2) :
                            /\ fact[supersededBy[l]].txFrom \in (t1 + 1)..t2
                            /\ ~Merged(l)
    BY DEF DiffBalances
  <1>1. TableInv /\ Justified /\ clock \in Nat
    BY DEF AuditInv, UpkeepInv, SupersessionJustified, TableInv, TypeOK
  <1>2. ASSUME NEW k \in Key
        PROVE  Cardinality({b \in Removed(t1, t2) : fact[b].key = k})
                 <= Cardinality({b \in Added(t1, t2) : fact[b].key = k})
    <2>1. Cardinality(About(k, Removed(t1, t2))) <= Cardinality(About(k, Added(t1, t2)))
      BY <1>1 DEF AuditInv, Balances
    <2>2. QED
      BY <2>1 DEF About
  <1>3. ASSUME NEW l \in Removed(t1, t2)
        PROVE  fact[supersededBy[l]].txFrom \in (t1 + 1)..t2 /\ ~Merged(l)
    <2>1. l \in Belief /\ l \in Rows /\ fact[l].txFrom \in Nat /\ txTo[l] \in Nat
      BY <1>1 DEF Removed, Bitemporal, Rows, TableInv, TypeOK, Dated, Fact
    <2>2. txTo[l] # 0 /\ txTo[l] \in (t1 + 1)..t2
      BY <1>1, <2>1 DEF Removed, Bitemporal
    <2>3. supersededBy[l] \in Belief
      BY <1>1, <2>1, <2>2 DEF TableInv, TypeOK, Linked
    <2>4. Explained(supersededBy[l], l)
      BY <1>1, <2>1, <2>2, <2>3 DEF Justified, Supersedes
    <2>5. QED
      BY <2>2, <2>4 DEF Explained, Merged
  <1>4. QED
    BY <1>2, <1>3

LEMMA AuditCovers == AuditInv => AutomaticCovers
  <1> SUFFICES ASSUME AuditInv, NEW t \in 1..clock, NEW autocommit \in BOOLEAN
               PROVE  \/ Automatic(t, autocommit) = Raised /\ ~autocommit
                      \/ /\ past[t].open \subseteq Automatic(t, autocommit)
                         /\ Automatic(t, autocommit) \subseteq past[t].rows
    BY DEF AutomaticCovers
  <1>1. past[t].open = Bitemporal(t) /\ past[t].open \subseteq past[t].rows
    BY DEF AuditInv, PastInv
  <1>2. clock - t \in Int /\ Day \in Int
    BY WindowAssumption DEF AuditInv, UpkeepInv, TableInv, TypeOK
  <1>3. MVCC(t) # Raised => MVCC(t) = past[t].rows
    BY DEF MVCC
  <1>4. CASE clock - t >= Day
    <2>1. Automatic(t, autocommit) = Bitemporal(t)
      BY <1>2, <1>4 DEF Automatic
    <2>2. QED
      BY <1>1, <2>1
  <1>5. CASE clock - t < Day /\ MVCC(t) # Raised
    <2>1. Automatic(t, autocommit) = MVCC(t)
      BY <1>2, <1>5 DEF Automatic
    <2>2. QED
      BY <1>1, <1>3, <1>5, <2>1
  <1>6. CASE clock - t < Day /\ MVCC(t) = Raised
    <2>1. Automatic(t, autocommit) = IF autocommit THEN Bitemporal(t) ELSE Raised
      BY <1>2, <1>6 DEF Automatic
    <2>2. QED
      BY <1>1, <2>1
  <1>7. QED
    BY <1>2, <1>4, <1>5, <1>6

(***************************************************************************)
(* AnswersTrue: diffs balance and automatic answers cover, for any window, *)
(* any age limit and any history.                                          *)
(***************************************************************************)
THEOREM AnswersAreTrue == AuditSpec => []AnswersTrue
  <1>1. AuditInv => AnswersTrue
    BY AuditBalances, AuditCovers DEF AnswersTrue
  <1>2. QED
    BY <1>1, AuditInvariant, PTL

-----------------------------------------------------------------------------
(***************************************************************************)
(* The types of the pass: its counters stay natural numbers, because only  *)
(* finitely many rows have been written, and a dry run counts no more      *)
(* groups than there are beliefs in them.                                  *)
(***************************************************************************)
CountersInv ==
    /\ phase \in {"idle", "fresh", "later", "done", "failed"}
    /\ report \in [found : Nat, merged : Nat, skipped : Nat, superseded : Nat]
    /\ flags \subseteq Belief /\ passes \in 0..MaxPasses

LEMMA DuplicatesFinite ==
  ASSUME TableInv, TextInv, IsFiniteSet(Rows), NEW D \in SUBSET Duplicates
  PROVE  /\ IsFiniteSet(D) /\ Cardinality(D) \in Nat
         /\ Cardinality(UNION D) - Cardinality(D) \in Nat
  <1>1. Duplicates \in SUBSET SUBSET Rows
    <2>1. \A m \in Duplicates : m \subseteq Rows
      BY DuplicatesFit DEF Rows
    <2>2. QED
      BY <2>1
  <1>2. IsFiniteSet(D)
    BY <1>1, FS_SUBSET, FS_Subset
  <1>3. IsFiniteSet(UNION D)
    <2>1. UNION D \in SUBSET Rows
      BY <1>1
    <2>2. QED
      BY <2>1, FS_Subset
  <1>4. \A m \in D : m # {}
    <2>1. ASSUME NEW m \in D, m = {}
          PROVE  FALSE
      <3>1. Cardinality(m) > 1
        BY DEF Duplicates
      <3>2. QED
        BY <2>1, <3>1, FS_EmptySet
    <2>2. QED
      BY <2>1
  <1> DEFINE some == [m \in D |-> CHOOSE b \in m : TRUE]
  <1>5. \A m \in D : some[m] \in m
    BY <1>4
  <1>6. some \in Injection(D, UNION D)
    <2>1. some \in [D -> UNION D]
      BY <1>5
    <2>2. ASSUME NEW m \in D, NEW n \in D, some[m] = some[n]
          PROVE  m = n
      <3>1. m \intersect n # {}
        BY <1>5, <2>2
      <3>2. QED
        BY <3>1, DuplicatesFit
    <2>3. QED
      BY <2>1, <2>2 DEF Injection, IsInjective
  <1>7. Cardinality(D) <= Cardinality(UNION D)
    BY <1>3, <1>6, FS_Injection
  <1>8. QED
    BY <1>2, <1>3, <1>7, FS_CardinalityType

LEMMA CountersStep ==
  ASSUME AuditInv, CountersInv, [UpkeepNext]_upkeepVars
  PROVE  CountersInv'
  <1>1. TableInv /\ TextInv /\ PassInv /\ IsFiniteSet(Rows)
    BY DEF AuditInv, UpkeepInv
  <1>2. MaxPasses \in Nat
    BY UpkeepAssumption
  <1>3. CASE UNCHANGED passVars
    BY <1>3 DEF passVars, CountersInv
  <1>4. Cardinality(Duplicates) \in Nat
    BY <1>1, DuplicatesFinite
  <1>5. CASE Read
    BY <1>2, <1>4, <1>5 DEF Read, CountersInv, NoReport
  <1>6. ASSUME NEW g \in groups, Skip(g)
        PROVE  CountersInv'
    BY <1>6 DEF Skip, CountersInv
  <1>7. ASSUME NEW g \in groups, Merge(g)
        PROVE  CountersInv'
    <2>1. /\ phase' = "later" /\ UNCHANGED <<flags, passes>>
          /\ report' = [report EXCEPT !.merged = @ + 1,
                                      !.superseded = @ + Cardinality(g.members) - 1]
      BY <1>7 DEF Merge
    <2>2. g.winner \in g.members /\ g.members \in SUBSET Rows
      BY <1>1 DEF PassInv, GroupsInv, GroupFits, InUse, Rows
    <2>3. IsFiniteSet(g.members)
      BY <1>1, <2>2, FS_Subset
    <2>4. Cardinality(g.members) \in Nat /\ Cardinality(g.members) # 0
      BY <2>2, <2>3, FS_CardinalityType, FS_EmptySet
    <2>5. /\ report.merged + 1 \in Nat
          /\ report.superseded + Cardinality(g.members) - 1 \in Nat
      BY <2>4 DEF CountersInv
    <2>6. report' \in [found : Nat, merged : Nat, skipped : Nat, superseded : Nat]
      BY <2>1, <2>5 DEF CountersInv
    <2>7. QED
      BY <2>1, <2>6 DEF CountersInv
  <1>8. CASE Abort
    BY <1>8 DEF Abort, CountersInv, NoReport
  <1>9. CASE Finish
    BY <1>9 DEF Finish, CountersInv, LongChains
  <1>10. CASE DryRun
    <2> DEFINE mergeable == {m \in Duplicates : ~AnyQuarantined(m)}
    <2>1. /\ report' = [found      |-> Cardinality(Duplicates),
                        merged     |-> Cardinality(mergeable),
                        skipped    |-> Cardinality(Duplicates \ mergeable),
                        superseded |-> Cardinality(UNION mergeable)
                                         - Cardinality(mergeable)]
          /\ flags' = LongChains /\ phase' = "done"
          /\ passes < MaxPasses /\ passes' = passes + 1
      BY <1>10 DEF DryRun
    <2>2. mergeable \in SUBSET Duplicates /\ Duplicates \ mergeable \in SUBSET Duplicates
      OBVIOUS
    <2>3. /\ Cardinality(mergeable) \in Nat
          /\ Cardinality(UNION mergeable) - Cardinality(mergeable) \in Nat
          /\ Cardinality(Duplicates \ mergeable) \in Nat
      BY <1>1, <2>2, DuplicatesFinite
    <2> HIDE DEF mergeable
    <2>4. QED
      BY <1>2, <1>4, <2>1, <2>3 DEF CountersInv, LongChains
  <1>11. QED
    BY <1>3, <1>5, <1>6, <1>7, <1>8, <1>9, <1>10
       DEF UpkeepNext, Meanwhile, upkeepVars, passVars

(***************************************************************************)
(* UpkeepTypeOK, whatever the number of beliefs, texts and passes.         *)
(***************************************************************************)
THEOREM UpkeepTypesHold == AuditSpec => []UpkeepTypeOK
  <1>1. AuditInit => CountersInv
    BY UpkeepAssumption DEF AuditInit, UpkeepInit, CountersInv, NoReport
  <1>2. AuditInv /\ CountersInv /\ [AuditNext]_auditVars => CountersInv'
    BY CountersStep DEF AuditNext, auditVars
  <1>3. AuditInv /\ CountersInv => UpkeepTypeOK
    <2> SUFFICES ASSUME AuditInv, CountersInv PROVE UpkeepTypeOK
      OBVIOUS
    <2>1. DOMAIN NoReport = {"found", "merged", "skipped", "superseded"}
      BY DEF NoReport
    <2>2. report \in [DOMAIN NoReport -> Nat]
      BY <2>1 DEF CountersInv
    <2>3. \A g \in groups : g.winner \in g.members /\ g.members \subseteq Belief
      BY DEF AuditInv, UpkeepInv, PassInv, GroupsInv, GroupFits
    <2>4. TypeOK /\ TextInv
      BY DEF AuditInv, UpkeepInv, TableInv
    <2>5. QED
      BY <2>2, <2>3, <2>4 DEF UpkeepTypeOK, TextInv, CountersInv
  <1>4. QED
    BY <1>1, <1>2, <1>3, AuditInvariant, PTL DEF AuditSpec

-----------------------------------------------------------------------------
(***************************************************************************)
(* The report of a pass accounts for every group that was read, also in a  *)
(* dry run: a group is merged, skipped or still to be handled, and none is *)
(* when the pass is over.  (It says nothing of the rows: the report counts *)
(* all losers of a group, also those that were contradicted meanwhile.)    *)
(***************************************************************************)
Accounted ==
    /\ phase \notin {"fresh", "later"} => groups = {}
    /\ IsFiniteSet(groups)
    /\ report.found = report.merged + report.skipped + Cardinality(groups)

LEMMA ReadAccounts ==
  ASSUME TableInv, TextInv, IsFiniteSet(Rows), Read
  PROVE  Accounted'
  <1>1. PICK winner \in [Duplicates -> Belief] :
           groups' = {[members |-> m, winner |-> winner[m]] : m \in Duplicates}
    BY DEF Read
  <1>2. IsFiniteSet(Duplicates) /\ Cardinality(Duplicates) \in Nat
    BY DuplicatesFinite
  <1> DEFINE f == [m \in Duplicates |-> [members |-> m, winner |-> winner[m]]]
  <1>3. f \in Bijection(Duplicates, groups')
    <2>1. f \in [Duplicates -> groups']
      BY <1>1
    <2>2. ASSUME NEW m \in Duplicates, NEW n \in Duplicates, f[m] = f[n]
          PROVE  m = n
      <3>1. f[m].members = m /\ f[n].members = n
        OBVIOUS
      <3>2. QED
        BY <2>2, <3>1
    <2>3. \A g \in groups' : \E m \in Duplicates : f[m] = g
      BY <1>1
    <2>4. QED
      BY <2>1, <2>2, <2>3 DEF Bijection, Injection, IsInjective, Surjection
  <1>4. ExistsBijection(Duplicates, groups')
    BY <1>3 DEF ExistsBijection
  <1>5. IsFiniteSet(groups') /\ Cardinality(groups') = Cardinality(Duplicates)
    BY <1>2, <1>4, FS_Bijection
  <1>6. /\ phase' = "fresh" /\ report'.found = Cardinality(Duplicates)
        /\ report'.merged = 0 /\ report'.skipped = 0
    BY DEF Read, NoReport
  <1>7. report'.found = report'.merged + report'.skipped + Cardinality(groups')
    BY <1>2, <1>5, <1>6
  <1>8. QED
    BY <1>5, <1>6, <1>7 DEF Accounted

LEMMA HandledAccounts ==
  ASSUME CountersInv, Accounted, NEW g \in groups, Skip(g) \/ Merge(g)
  PROVE  Accounted'
  <1>1. groups' = groups \ {g} /\ phase' \in {"fresh", "later"}
    BY DEF Skip, Merge
  <1>2. IsFiniteSet(groups') /\ Cardinality(groups') = Cardinality(groups) - 1
    BY <1>1, FS_RemoveElement DEF Accounted
  <1>3. Cardinality(groups) \in Nat
    BY FS_CardinalityType DEF Accounted
  <1>4. /\ report.found \in Nat /\ report.merged \in Nat /\ report.skipped \in Nat
        /\ report'.found = report.found
        /\ \/ report'.merged = report.merged + 1 /\ report'.skipped = report.skipped
           \/ report'.merged = report.merged /\ report'.skipped = report.skipped + 1
    BY DEF Skip, Merge, CountersInv
  <1>5. report'.found = report'.merged + report'.skipped + Cardinality(groups')
    BY <1>2, <1>3, <1>4 DEF Accounted
  <1>6. QED
    BY <1>1, <1>2, <1>5 DEF Accounted

LEMMA DryRunAccounts ==
  ASSUME TableInv, TextInv, IsFiniteSet(Rows), Accounted, DryRun
  PROVE  Accounted'
  <1> DEFINE mergeable == {m \in Duplicates : ~AnyQuarantined(m)}
  <1>1. /\ report'.found = Cardinality(Duplicates)
        /\ report'.merged = Cardinality(mergeable)
        /\ report'.skipped = Cardinality(Duplicates \ mergeable)
        /\ groups' = {} /\ phase' = "done"
    BY DEF DryRun, Accounted
  <1>2. mergeable \in SUBSET Duplicates /\ Duplicates \ mergeable \in SUBSET Duplicates
    OBVIOUS
  <1>3. /\ IsFiniteSet(mergeable) /\ Cardinality(mergeable) \in Nat
        /\ IsFiniteSet(Duplicates \ mergeable)
        /\ Cardinality(Duplicates \ mergeable) \in Nat
    BY <1>2, DuplicatesFinite
  <1>4. Duplicates = mergeable \union (Duplicates \ mergeable)
          /\ mergeable \intersect (Duplicates \ mergeable) = {}
    BY <1>2
  <1> HIDE DEF mergeable
  <1>5. Cardinality(mergeable \union (Duplicates \ mergeable))
          = Cardinality(mergeable) + Cardinality(Duplicates \ mergeable)
              - Cardinality(mergeable \intersect (Duplicates \ mergeable))
    BY <1>3, FS_Union
  <1>6. IsFiniteSet({}) /\ Cardinality({}) = 0
    BY FS_EmptySet
  <1>7. Cardinality(Duplicates)
          = Cardinality(mergeable) + Cardinality(Duplicates \ mergeable)
    <2>1. Cardinality(Duplicates) = Cardinality(mergeable \union (Duplicates \ mergeable))
      BY <1>4, Zenon
    <2>2. Cardinality(mergeable \intersect (Duplicates \ mergeable)) = 0
      BY <1>4, <1>6
    <2>3. QED
      BY <1>3, <1>5, <2>1, <2>2
  <1>8. Cardinality(groups') = 0 /\ IsFiniteSet(groups')
    BY <1>1, <1>6
  <1>9. report'.found = report'.merged + report'.skipped + Cardinality(groups')
    BY <1>1, <1>3, <1>7, <1>8
  <1>10. QED
    BY <1>1, <1>8, <1>9 DEF Accounted

LEMMA AccountsStep ==
  ASSUME AuditInv, CountersInv, Accounted, [UpkeepNext]_upkeepVars
  PROVE  Accounted'
  <1>1. TableInv /\ TextInv /\ IsFiniteSet(Rows)
    BY DEF AuditInv, UpkeepInv
  <1>2. CASE UNCHANGED passVars
    BY <1>2 DEF passVars, Accounted
  <1>3. CASE Abort
    <2>1. IsFiniteSet({}) /\ Cardinality({}) = 0
      BY FS_EmptySet
    <2>2. QED
      BY <1>3, <2>1 DEF Abort, NoReport, Accounted
  <1>4. CASE Finish
    BY <1>4 DEF Finish, Accounted
  <1>5. QED
    BY <1>1, <1>2, <1>3, <1>4, ReadAccounts, HandledAccounts, DryRunAccounts
       DEF UpkeepNext, Meanwhile, upkeepVars, passVars

(***************************************************************************)
(* However many groups a pass of a8_consolidation.py finds, and whatever   *)
(* runs between its transactions, its report counts each of them once:     *)
(* merged, or skipped because one of its rows is in the quarantine table.  *)
(***************************************************************************)
THEOREM ReportsBalance == AuditSpec => []Accounted
  <1>1. AuditInit => CountersInv /\ Accounted
    <2>1. IsFiniteSet({}) /\ Cardinality({}) = 0
      BY FS_EmptySet
    <2>2. QED
      BY <2>1, UpkeepAssumption
         DEF AuditInit, UpkeepInit, CountersInv, Accounted, NoReport
  <1>2. AuditInv /\ CountersInv /\ Accounted /\ [AuditNext]_auditVars
          => CountersInv' /\ Accounted'
    BY CountersStep, AccountsStep DEF AuditNext, auditVars
  <1>3. QED
    BY <1>1, <1>2, AuditInvariant, PTL DEF AuditSpec

-----------------------------------------------------------------------------
(***************************************************************************)
(* Who is polled, and who is not.  An open transaction whose batch is done *)
(* is that of a poll that found nothing, so what a poll fetches it sees as *)
(* it is; and of a nonempty set of rows it fetches some.                   *)
(***************************************************************************)
ViewUsed == \A p \in Poller : view[p] # NoView => batch[p] # {} \/ view[p] = {}

LEMMA OldestSome ==
  ASSUME TableInv, DatesApart, NEW rows \in SUBSET Written, rows # {}
  PROVE  Oldest(rows) # {}
  <1>1. clock \in Nat /\ \A b \in rows : fact[b].txFrom \in 1..clock
    BY WrittenRows
  <1> DEFINE dates == {fact[b].txFrom : b \in rows}
  <1>2. dates \in SUBSET Nat /\ dates # {}
    BY <1>1
  <1>3. PICK n \in dates : \A k \in dates : n <= k
    BY <1>2, LeastNumber
  <1>4. PICK m \in rows : fact[m].txFrom = n
    BY <1>3
  <1>5. \A x \in rows : ~(fact[x].txFrom < fact[m].txFrom)
    <2> TAKE x \in rows
    <2>1. n <= fact[x].txFrom /\ n \in Nat /\ fact[x].txFrom \in Nat
      BY <1>1, <1>2, <1>3
    <2>2. QED
      BY <1>4, <2>1
  <1>6. {x \in rows : fact[x].txFrom < fact[m].txFrom} = {}
    BY <1>5
  <1>7. Cardinality({x \in rows : fact[x].txFrom < fact[m].txFrom}) = 0
    BY <1>6, FS_EmptySet, Zenon
  <1>8. QED
    BY <1>4, <1>7, BatchSizeAssumption DEF Oldest

\* Nothing else ever adds to a batch.
LEMMA OnlyFetchAdds ==
  ASSUME PollInv, [ScreeningNext]_screeningVars, NEW p \in Poller
  PROVE  \/ Fetch(p)
         \/ /\ batch'[p] \subseteq batch[p]
            /\ view'[p] = NoView \/ (view'[p] = view[p] /\ batch'[p] = batch[p])
  <1> DEFINE Views == (SUBSET Belief) \union {NoView}
  <1>1. view \in [Poller -> Views] /\ batch \in [Poller -> SUBSET Belief]
    BY DEF PollInv, ScreeningTypeOK
  <1> HIDE DEF Views
  <1>2. CASE UNCHANGED pollVars
    BY <1>2 DEF pollVars
  <1>3. ASSUME NEW q \in Poller, Fetch(q)
        PROVE  Fetch(p) \/ (view'[p] = view[p] /\ batch'[p] = batch[p])
    <2>1. CASE q = p
      BY <1>3, <2>1
    <2>2. CASE q # p
      BY <1>1, <1>3, <2>2 DEF Fetch
    <2>3. QED
      BY <2>1, <2>2
  <1>4. ASSUME NEW q \in Poller, NEW rest \in SUBSET batch[q],
               view' = [view EXCEPT ![q] = NoView],
               batch' = [batch EXCEPT ![q] = rest]
        PROVE  /\ batch'[p] \subseteq batch[p]
               /\ view'[p] = NoView \/ (view'[p] = view[p] /\ batch'[p] = batch[p])
    BY <1>1, <1>4
  <1>5. ASSUME NEW q \in Poller, Row(q)
        PROVE  /\ batch'[p] \subseteq batch[p]
               /\ view'[p] = NoView \/ (view'[p] = view[p] /\ batch'[p] = batch[p])
    <2>1. PICK b \in Belief : RowDone(q, b)
      BY <1>5 DEF Row, ScreenRow, SkipRow
    <2>2. batch' = [batch EXCEPT ![q] = batch[q] \ {b}]
            /\ view' = [view EXCEPT ![q] = NoView]
      BY <2>1 DEF RowDone
    <2>3. QED
      BY <1>4, <2>2
  <1>6. ASSUME NEW q \in Poller, LoseConnection(q)
        PROVE  /\ batch'[p] \subseteq batch[p]
               /\ view'[p] = NoView \/ (view'[p] = view[p] /\ batch'[p] = batch[p])
    BY <1>4, <1>6 DEF LoseConnection
  <1>7. QED
    BY <1>2, <1>3, <1>5, <1>6 DEF ScreeningNext, Others, screeningVars

\* The rows that a query of p sorts, and what it fetches of them.
LEMMA FetchedRows ==
  ASSUME PollInv, ViewUsed, NEW p \in Poller, Fetch(p)
  PROVE  \E rows \in {Unscreened, {}} :
            /\ rows \in SUBSET Written
            /\ view'[p] = rows /\ batch'[p] = Oldest(rows)
  <1> DEFINE rows == IF view[p] = NoView THEN Unscreened ELSE view[p]
             Views == (SUBSET Belief) \union {NoView}
  <1>1. rows \in {Unscreened, {}}
    BY DEF ViewUsed, Fetch
  <1>2. rows \in SUBSET Written
    BY <1>1 DEF Unscreened, Written
  <1>3. view \in [Poller -> Views] /\ batch \in [Poller -> SUBSET Belief]
    BY DEF PollInv, ScreeningTypeOK
  <1>4. view' = [view EXCEPT ![p] = rows] /\ batch' = [batch EXCEPT ![p] = Oldest(rows)]
    BY DEF Fetch
  <1> HIDE DEF rows, Views
  <1>5. view'[p] = rows /\ batch'[p] = Oldest(rows)
    BY <1>3, <1>4
  <1>6. QED
    BY <1>1, <1>2, <1>5

LEMMA ViewStep ==
  ASSUME PollInv, ViewUsed, TableInv, DatesApart, [ScreeningNext]_screeningVars
  PROVE  ViewUsed'
  <1> SUFFICES ASSUME NEW p \in Poller, view'[p] # NoView
               PROVE  batch'[p] # {} \/ view'[p] = {}
    BY DEF ViewUsed
  <1>1. CASE Fetch(p)
    <2>1. PICK rows \in {Unscreened, {}} :
             /\ rows \in SUBSET Written
             /\ view'[p] = rows /\ batch'[p] = Oldest(rows)
      BY <1>1, FetchedRows
    <2>2. QED
      BY <2>1, OldestSome
  <1>2. CASE view'[p] = view[p] /\ batch'[p] = batch[p]
    BY <1>2 DEF ViewUsed
  <1>3. QED
    BY <1>1, <1>2, OnlyFetchAdds

(***************************************************************************)
(* A row older than one that is fetched is among the oldest too.           *)
(***************************************************************************)
LEMMA OldestDownward ==
  ASSUME TableInv, DatesApart, NEW rows \in SUBSET Written,
         NEW b \in Oldest(rows), NEW x \in rows, Older(x, b)
  PROVE  x \in Oldest(rows)
  <1> DEFINE before(y) == {z \in rows : fact[z].txFrom < fact[y].txFrom}
  <1>1. b \in rows /\ Cardinality(before(b)) < BatchSize
    BY DEF Oldest
  <1>2. \A z \in rows : fact[z].txFrom \in Nat
    BY WrittenRows
  <1>3. before(x) \subseteq before(b)
    <2> SUFFICES ASSUME NEW z \in rows, fact[z].txFrom < fact[x].txFrom
                 PROVE  fact[z].txFrom < fact[b].txFrom
      OBVIOUS
    <2>1. fact[z].txFrom \in Nat /\ fact[x].txFrom \in Nat /\ fact[b].txFrom \in Nat
      BY <1>1, <1>2
    <2>2. QED
      BY <2>1 DEF Older
  <1>4. IsFiniteSet(before(b))
    BY WrittenRows, FS_Subset
  <1>5. IsFiniteSet(before(x)) /\ Cardinality(before(x)) <= Cardinality(before(b))
    BY <1>3, <1>4, FS_Subset
  <1>6. Cardinality(before(x)) \in Nat /\ Cardinality(before(b)) \in Nat
    BY <1>4, <1>5, FS_CardinalityType
  <1>7. Cardinality(before(x)) < BatchSize
    BY <1>1, <1>5, <1>6, BatchSizeAssumption
  <1>8. QED
    BY <1>7 DEF Oldest

LEMMA FetchInOrder ==
  ASSUME PollInv, ViewUsed, TableInv, DatesApart, [ScreeningNext]_screeningVars,
         NEW p \in Poller, NEW b \in batch'[p] \ batch[p],
         NEW x \in Unscreened, Older(x, b)
  PROVE  x \in batch'[p]
  <1>1. Fetch(p)
    BY OnlyFetchAdds
  <1>2. PICK rows \in {Unscreened, {}} :
           rows \in SUBSET Written /\ batch'[p] = Oldest(rows)
    BY <1>1, FetchedRows
  <1>3. rows = Unscreened
    BY <1>2 DEF Oldest
  <1>4. QED
    BY <1>2, <1>3, OldestDownward

LEMMA PollersInvariant ==
  ScreeningSafety => [](PollInv /\ ViewUsed /\ StoreInv /\ DatesApart)
  <1>1. ScreeningInit => PollInv /\ ViewUsed
    BY PollInit DEF ScreeningInit, ViewUsed
  <1>2. ScreeningSafety => [](StoreInv /\ DatesApart)
    BY PollersImplementStore, StoreInvariant, StoreDatesApart, PTL
       DEF ImplementsStore
  <1>3. /\ PollInv /\ ViewUsed /\ StoreInv /\ DatesApart
        /\ [ScreeningNext]_screeningVars
        => PollInv' /\ ViewUsed'
    BY PollStep, ViewStep, StoreTables
  <1>4. QED
    BY <1>1, <1>2, <1>3, PTL DEF ScreeningSafety

(***************************************************************************)
(* OldestFirst: whatever the other pollers, writers and reviewers do, no   *)
(* poll takes a row and leaves one behind that waits and is older.         *)
(***************************************************************************)
THEOREM PollersTakeOldest == ScreeningSafety => OldestFirst
  <1>1. /\ PollInv /\ ViewUsed /\ StoreInv /\ DatesApart
        /\ [ScreeningNext]_screeningVars
        => [\A p \in Poller : \A b \in batch'[p] \ batch[p], x \in Unscreened :
               Older(x, b) => x \in batch'[p]]_screeningVars
    BY FetchInOrder, StoreTables
  <1>2. QED
    BY <1>1, PollersInvariant, PTL DEF ScreeningSafety, OldestFirst

-----------------------------------------------------------------------------
(***************************************************************************)
(* The price of that order.  A row that waits behind as many rows which    *)
(* always fail as a batch is long is passed over by every poll.            *)
(***************************************************************************)
Blocking(b) == {x \in Unscreened \intersect Stuck : Older(x, b)}

Starved(b) ==
    /\ b \in Unscreened
    /\ \A p \in Poller : b \notin batch[p]
    /\ Cardinality(Blocking(b)) >= BatchSize

\* Only a poller that has a row and can screen it ends the row's waiting.
LEMMA WaitingStays ==
  ASSUME TableInv, [ScreeningNext]_screeningVars, NEW x \in Unscreened,
         x \in Stuck \/ \A p \in Poller : x \notin batch[p]
  PROVE  x \in Unscreened' /\ fact'[x] = fact[x]
  <1>1. x \in Belief /\ status[x] = "pending" /\ ~screened[x]
    BY DEF Unscreened
  <1>2. quarantine[x] = <<>>
    BY <1>1 DEF TableInv, Lifecycle, Story, Tables
  <1>3. SUFFICES status'[x] = "pending" /\ ~screened'[x] /\ fact'[x] = fact[x]
    BY <1>1 DEF Unscreened
  <1>4. ASSUME NEW b \in Belief, Ingest(b)
        PROVE  status'[x] = "pending" /\ ~screened'[x] /\ fact'[x] = fact[x]
    <2>1. PICK k \in Key, c \in Claim : Resolve(b, k, c, FALSE)
      BY <1>4 DEF Ingest
    <2>2. CASE ResolveUncontested(b, k, c)
      <3>1. RowWritten(b, k, c)
        BY <2>2, UncontestedFrame
      <3>2. status' = [status EXCEPT ![b] = "pending"]
        BY <2>2 DEF ResolveUncontested, Uncontested
      <3>3. QED
        BY <1>1, <3>1, <3>2 DEF RowWritten, TableInv, TypeOK
    <2>3. CASE ResolveContradiction(b, k, c, FALSE)
      <3>1. RowWritten(b, k, c) /\ k \in Key \ MultiValued
        BY <2>3, ContradictionEnds
      <3>2. PICK i \in Belief : Incumbent(k, i) /\ Outcomes(b, c, i)
        BY <2>3, ContradictionEnds
      <3>3. status[i] = "trusted"
        BY <3>2 DEF Incumbent, MostRecent, Incumbents, TrustedCurrent
      <3>4. Superseding(b, i) \/ Retaining(b)
        BY <3>2 DEF Outcomes
      <3>5. x # b /\ x # i
        BY <1>1, <3>1, <3>3 DEF RowWritten
      <3>6. status'[x] = status[x]
        BY <1>1, <3>4, <3>5 DEF Superseding, Retaining, TableInv, TypeOK
      <3>7. QED
        BY <1>1, <3>1, <3>5, <3>6 DEF RowWritten
    <2>4. QED
      BY <2>1, <2>2, <2>3 DEF Resolve
  <1>5. ASSUME NEW b \in Belief, Review(b)
        PROVE  status'[x] = "pending" /\ ~screened'[x] /\ fact'[x] = fact[x]
    <2>1. PICK n \in 1..Len(quarantine[b]) : Release(b, n) \/ Reject(b, n)
      BY <1>5 DEF Review
    <2>2. b # x
      BY <1>2, <2>1
    <2>3. QED
      BY <1>1, <2>1, <2>2 DEF Release, Reject, Dispose, TableInv, TypeOK
  <1>6. ASSUME NEW p \in Poller, Row(p)
        PROVE  status'[x] = "pending" /\ ~screened'[x] /\ fact'[x] = fact[x]
    <2>1. PICK b \in Belief : ScreenRow(p, b) \/ SkipRow(p, b)
      BY <1>6 DEF Row
    <2>2. CASE SkipRow(p, b)
      BY <1>1, <2>2 DEF SkipRow, vars
    <2>3. CASE ScreenRow(p, b)
      <3>1. b # x
        BY <2>3 DEF ScreenRow, NextRow
      <3>2. PICK v \in Verdict : Submit(b, v)
        BY <2>3 DEF ScreenRow
      <3>3. QED
        BY <1>1, <3>1, <3>2 DEF Submit, Screen, vars, TableInv, TypeOK
    <2>4. QED
      BY <2>1, <2>2, <2>3
  <1>7. CASE UNCHANGED vars
    BY <1>1, <1>7 DEF vars
  <1>8. QED
    BY <1>4, <1>5, <1>6, <1>7
       DEF ScreeningNext, Others, Fetch, LoseConnection, screeningVars

LEMMA WrittenFinite == TableInv /\ DatesApart => IsFiniteSet(Written)
  BY WrittenRows

LEMMA StarvedStep ==
  ASSUME PollInv, ViewUsed, TableInv, DatesApart, TableInv', DatesApart',
         [ScreeningNext]_screeningVars, NEW b \in Belief, Starved(b)
  PROVE  Starved(b)'
  <1>1. b \in Unscreened /\ \A p \in Poller : b \notin batch[p]
    BY DEF Starved
  <1>2. b \in Unscreened' /\ fact'[b] = fact[b]
    BY <1>1, WaitingStays
  <1>3. \A x \in Unscreened \intersect Stuck : x \in Unscreened' /\ fact'[x] = fact[x]
    BY WaitingStays
  <1>4. Blocking(b) \subseteq Blocking(b)'
    BY <1>2, <1>3 DEF Blocking, Older
  <1>5. IsFiniteSet(Blocking(b)) /\ IsFiniteSet(Blocking(b)')
    <2>1. IsFiniteSet(Written) /\ Blocking(b) \subseteq Written
      BY WrittenRows DEF Blocking, Unscreened, Written
    <2>2. (IsFiniteSet(Written))'
      BY WrittenFinite, PTL
    <2>3. Blocking(b)' \subseteq Written'
      BY DEF Blocking, Unscreened, Written
    <2>4. QED
      BY <2>1, <2>2, <2>3, FS_Subset
  <1>6. Cardinality(Blocking(b)') >= BatchSize
    <2>1. Cardinality(Blocking(b)) <= Cardinality(Blocking(b)')
      BY <1>4, <1>5, FS_Subset
    <2>2. Cardinality(Blocking(b)) \in Nat /\ Cardinality(Blocking(b)') \in Nat
      BY <1>5, FS_CardinalityType
    <2>3. QED
      BY <2>1, <2>2, BatchSizeAssumption DEF Starved
  <1>7. ASSUME NEW p \in Poller, b \in batch'[p]
        PROVE  FALSE
    <2>1. Fetch(p)
      BY <1>1, <1>7, OnlyFetchAdds
    <2>2. PICK rows \in {Unscreened, {}} : batch'[p] = Oldest(rows)
      BY <2>1, FetchedRows
    <2>3. rows = Unscreened
      BY <1>7, <2>2 DEF Oldest
    <2> DEFINE before == {x \in Unscreened : fact[x].txFrom < fact[b].txFrom}
    <2>4. Cardinality(before) < BatchSize
      BY <1>7, <2>2, <2>3 DEF Oldest
    <2>5. IsFiniteSet(before)
      BY WrittenRows, FS_Subset DEF Unscreened, Written
    <2>6. Blocking(b) \subseteq before
      BY DEF Blocking, Older
    <2>7. Cardinality(Blocking(b)) <= Cardinality(before)
      BY <2>5, <2>6, FS_Subset
    <2>8. Cardinality(Blocking(b)) \in Nat /\ Cardinality(before) \in Nat
      BY <1>5, <2>5, FS_CardinalityType
    <2>9. QED
      BY <2>4, <2>7, <2>8, BatchSizeAssumption DEF Starved
  <1>8. QED
    BY <1>2, <1>6, <1>7 DEF Starved

(***************************************************************************)
(* poller.py:124: a row is starved for good.  However many pollers there   *)
(* are and however long they run, once it waits behind a batchful of rows  *)
(* whose screening always fails it stays unscreened.                       *)
(***************************************************************************)
THEOREM StarvedForGood ==
  ScreeningSafety => [][\A b \in Belief : Starved(b) => Starved(b)']_screeningVars
  <1>1. /\ PollInv /\ ViewUsed /\ StoreInv /\ DatesApart
        /\ StoreInv' /\ DatesApart' /\ [ScreeningNext]_screeningVars
        => [\A b \in Belief : Starved(b) => Starved(b)']_screeningVars
    <2>1. StoreInv' => TableInv'
      BY StoreTables, PTL
    <2>2. QED
      BY <2>1, StarvedStep, StoreTables
  <1>2. QED
    BY <1>1, PollersInvariant, PTL DEF ScreeningSafety
=============================================================================
