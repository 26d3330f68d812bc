-------------------------- MODULE BeliefStoreProofs -------------------------
(***************************************************************************)
(* Proofs about BeliefStore for every set of beliefs, facts, times and     *)
(* confidences.                                                            *)
(***************************************************************************)
EXTENDS BeliefStore, TLAPS

(***************************************************************************)
(* The inductive invariant.  Besides what the properties say it records    *)
(* that nothing refers to a row that is not there yet, and that rows carry *)
(* the transaction times given out so far.                                 *)
(***************************************************************************)
Unwritten ==
    \A b \in Belief : status[b] = "absent" =>
        /\ \A l \in Belief : supersededBy[l] # b
        /\ \A e \in contradictions : e.incumbent # b /\ e.challenger # b

Dated ==
    \A b \in Belief : status[b] # "absent" =>
        /\ fact[b] \in Fact
        /\ fact[b].txFrom <= clock

Closed ==
    \A b \in Belief : txTo[b] # 0 <=> supersededBy[b] # NoBelief

StoreInv ==
    /\ TypeOK
    /\ Lifecycle
    /\ Unwritten
    /\ Dated
    /\ Closed
    /\ SupersessionExplained

(***************************************************************************)
(* What of it does not depend on who supersedes, and stays true when A8    *)
(* supersedes without closing rows.                                        *)
(***************************************************************************)
Linked ==
    \A b \in Belief :
        /\ status[b] = "superseded" <=> supersededBy[b] # NoBelief
        /\ txTo[b] # 0 => supersededBy[b] # NoBelief

TableInv ==
    /\ TypeOK
    /\ Lifecycle
    /\ Unwritten
    /\ Dated
    /\ Linked

LEMMA StoreTables == StoreInv => TableInv
  BY DEF StoreInv, TableInv, Closed, Linked, SupersessionExplained

(***************************************************************************)
(* The initial state.                                                      *)
(***************************************************************************)
LEMMA InitEstablishesStoreInv == Init => StoreInv
  <1> SUFFICES ASSUME Init PROVE StoreInv
    OBVIOUS
  <1> USE DEF Init
  <1>1. TypeOK
    BY DEF TypeOK, Status, Event
  <1>2. Lifecycle
    BY DEF Lifecycle, Story, Tables
  <1>3. Unwritten
    BY NoBeliefAssumption DEF Unwritten
  <1>4. Dated /\ Closed
    BY DEF Dated, Closed
  <1>5. SupersessionExplained
    BY NoBeliefAssumption DEF SupersessionExplained, Supersedes
  <1>6. QED
    BY <1>1, <1>2, <1>3, <1>4, <1>5 DEF StoreInv

(***************************************************************************)
(* An outcome has one of the resolutions and bases of the contract, and a  *)
(* challenger that supersedes does so by override or on the merits.        *)
(***************************************************************************)
LEMMA OutcomeType ==
  ASSUME NEW c \in Claim, NEW i \in Claim, NEW override \in BOOLEAN
  PROVE  LET o == ResolvePrecedence(c, i, override)
         IN  /\ o.resolution \in {"challenger_supersedes",
                                  "incumbent_retained", "deferred"}
             /\ o.basis \in {"explicit_invalidation", "source_tier",
                             "recency", "confidence", "policy"}
             /\ o.resolution = "challenger_supersedes" =>
                  o.basis = "explicit_invalidation" \/ Wins(c, i)
  BY DEF ResolvePrecedence, Outcome, Wins

(***************************************************************************)
(* What writing a belief does to its row, and that nothing knows of it.    *)
(***************************************************************************)
RowWritten(b, k, c) ==
    /\ clock' = clock + 1 /\ clock \in Nat
    /\ fact' \in [Belief -> Fact \union {NoFact}]
    /\ fact'[b] = [key |-> k, claim |-> c, txFrom |-> clock + 1]
    /\ fact'[b] \in Fact
    /\ \A l \in Belief \ {b} : fact'[l] = fact[l]
    /\ verdicts[b] = <<>> /\ quarantine[b] = <<>>
    /\ scored[b] = FALSE /\ screened[b] = FALSE
    /\ status[b] = "absent" /\ supersededBy[b] = NoBelief /\ txTo[b] = 0
    /\ \A l \in Belief : supersededBy[l] # b
    /\ UNCHANGED <<scored, screened, verdicts, quarantine>>

LEMMA WriteFacts ==
  ASSUME TableInv, NEW b \in Belief, NEW k \in Key, NEW c \in Claim,
         WriteBelief(b, k, c)
  PROVE  RowWritten(b, k, c)
  <1>1. [key |-> k, claim |-> c, txFrom |-> clock + 1] \in Fact
    BY DEF TableInv, TypeOK, Fact
  <1>2. verdicts[b] = <<>> /\ quarantine[b] = <<>>
    BY DEF TableInv, Lifecycle, Story, Tables, WriteBelief
  <1>3. scored[b] = FALSE /\ screened[b] = FALSE
    BY <1>2 DEF TableInv, Lifecycle, Story, TypeOK
  <1>4. supersededBy[b] = NoBelief /\ txTo[b] = 0
    BY DEF TableInv, Linked, WriteBelief, TypeOK
  <1>5. \A l \in Belief : supersededBy[l] # b
    BY DEF TableInv, Unwritten, WriteBelief
  <1>6. QED
    BY <1>1, <1>2, <1>3, <1>4, <1>5
       DEF TableInv, TypeOK, WriteBelief, RowWritten

(***************************************************************************)
(* An uncontested write.                                                   *)
(***************************************************************************)
LEMMA UncontestedFrame ==
  ASSUME TableInv, NEW b \in Belief, NEW k \in Key, NEW c \in Claim,
         ResolveUncontested(b, k, c)
  PROVE  RowWritten(b, k, c) /\ TableInv'
  <1>0. RowWritten(b, k, c)
    BY WriteFacts DEF ResolveUncontested, Uncontested
  <1>1. TypeOK'
    <2>1. status' \in [Belief -> Status]
      BY DEF TableInv, TypeOK, ResolveUncontested, Uncontested, Status
    <2>2. clock' \in Nat /\ fact' \in [Belief -> Fact \union {NoFact}]
      BY <1>0 DEF RowWritten
    <2>3. QED
      BY <1>0, <2>1, <2>2
        DEF TableInv, TypeOK, ResolveUncontested, Uncontested, RowWritten
  <1>2. Lifecycle'
    BY <1>0
       DEF TableInv, TypeOK, Lifecycle, Story, Tables, ResolveUncontested,
           Uncontested, RowWritten
  <1>3. Unwritten'
    BY DEF TableInv, TypeOK, Unwritten, ResolveUncontested, Uncontested
  <1>4. Dated'
    <2> SUFFICES ASSUME NEW l \in Belief, status'[l] # "absent"
                 PROVE  fact'[l] \in Fact /\ fact'[l].txFrom <= clock'
      BY DEF Dated
    <2>1. CASE l = b
      BY <1>0, <2>1 DEF RowWritten
    <2>2. CASE l # b
      <3>1. fact[l] \in Fact /\ fact[l].txFrom <= clock
        BY <2>2 DEF TableInv, TypeOK, Dated, ResolveUncontested, Uncontested
      <3>2. QED
        BY <1>0, <2>2, <3>1 DEF Fact, RowWritten
    <2>3. QED
      BY <2>1, <2>2
  <1>5. Linked'
    BY <1>0
       DEF TableInv, TypeOK, Linked, ResolveUncontested, Uncontested, RowWritten
  <1>6. QED
    BY <1>0, <1>1, <1>2, <1>3, <1>4, <1>5 DEF TableInv

LEMMA UncontestedPreserves ==
  ASSUME StoreInv, NEW b \in Belief, NEW k \in Key, NEW c \in Claim,
         ResolveUncontested(b, k, c)
  PROVE  StoreInv'
  <1>0. RowWritten(b, k, c) /\ TableInv'
    BY StoreTables, UncontestedFrame
  <1>5. Closed'
    BY DEF StoreInv, Closed, ResolveUncontested, Uncontested
  <1>6. SupersessionExplained'
    <2> SUFFICES ASSUME NEW l \in Belief
                 PROVE  /\ status'[l] = "superseded" <=> supersededBy[l] # NoBelief
                        /\ \A w \in Belief : Supersedes(w, l) =>
                             /\ status'[w] # "absent" /\ Explained(w, l)'
                             /\ \A m \in Belief : Supersedes(w, m) => m = l
      BY DEF SupersessionExplained, Supersedes, ResolveUncontested, Uncontested
    <2>1. status'[l] = "superseded" <=> supersededBy[l] # NoBelief
      BY <1>0
         DEF StoreInv, TypeOK, SupersessionExplained, ResolveUncontested,
             Uncontested,
             RowWritten
    <2>2. ASSUME NEW w \in Belief, Supersedes(w, l)
          PROVE  /\ status'[w] # "absent" /\ Explained(w, l)'
                 /\ \A m \in Belief : Supersedes(w, m) => m = l
      <3>1. w # b /\ l # b
        BY <1>0, <2>2, NoBeliefAssumption DEF Supersedes, RowWritten
      <3>2. /\ status[w] # "absent" /\ Explained(w, l)
            /\ \A m \in Belief : Supersedes(w, m) => m = l
        BY <2>2 DEF StoreInv, SupersessionExplained
      <3>3. fact'[w] = fact[w] /\ fact'[l] = fact[l]
        BY <1>0, <3>1 DEF RowWritten
      <3>4. Explained(w, l)'
        BY <3>2, <3>3 DEF Explained, ResolveUncontested, Uncontested
      <3>5. QED
        BY <3>1, <3>2, <3>4
          DEF StoreInv, TypeOK, ResolveUncontested, Uncontested
    <2>3. QED
      BY <2>1, <2>2
  <1>7. QED
    BY <1>0, <1>5, <1>6 DEF StoreInv, TableInv

(***************************************************************************)
(* A contested write.  The incumbent is another belief, trusted and open.  *)
(***************************************************************************)
LEMMA IncumbentFacts ==
  ASSUME TableInv, NEW b \in Belief, NEW k \in Key, NEW c \in Claim,
         RowWritten(b, k, c), NEW i \in Belief, Incumbent(k, i)
  PROVE  /\ i # b /\ status[i] = "trusted" /\ txTo[i] = 0
         /\ supersededBy[i] = NoBelief
         /\ fact[i] \in Fact /\ fact[i].key = k /\ fact[i].txFrom <= clock
         /\ fact'[i] = fact[i]
  <1>1. status[i] = "trusted" /\ txTo[i] = 0 /\ fact[i].key = k
    BY DEF Incumbent, MostRecent, Incumbents, TrustedCurrent
  <1>2. i # b
    BY <1>1 DEF RowWritten
  <1>3. supersededBy[i] = NoBelief
    BY <1>1 DEF TableInv, Linked
  <1>4. fact[i] \in Fact /\ fact[i].txFrom <= clock
    BY <1>1 DEF TableInv, Dated
  <1>5. QED
    BY <1>1, <1>2, <1>3, <1>4 DEF RowWritten

\* The two ways a contradiction ends, as effects on the tables.
Superseding(b, i) ==
    /\ status' = [status EXCEPT ![b] = "pending", ![i] = "superseded"]
    /\ supersededBy' = [supersededBy EXCEPT ![i] = b]
    /\ txTo' = [txTo EXCEPT ![i] = clock + 1]

Retaining(b) ==
    /\ status' = [status EXCEPT ![b] = "pending"]
    /\ UNCHANGED <<supersededBy, txTo>>

\* The contradiction_event of challenger b against incumbent i.
Recorded(b, i, r) ==
    /\ r.resolution \in {"challenger_supersedes", "incumbent_retained", "deferred"}
    /\ r.basis \in {"explicit_invalidation", "source_tier", "recency",
                     "confidence", "policy"}
    /\ contradictions' = contradictions \union
          {[incumbent |-> i, challenger |-> b,
            resolution |-> r.resolution, basis |-> r.basis]}

(***************************************************************************)
(* Both endings keep the parts of the invariant that do not depend on who  *)
(* won.                                                                    *)
(***************************************************************************)
LEMMA ContestedFrame ==
  ASSUME TableInv, NEW b \in Belief, NEW k \in Key, NEW c \in Claim,
         RowWritten(b, k, c), NEW i \in Belief, Incumbent(k, i),
         NEW r, Recorded(b, i, r),
         Superseding(b, i) \/ Retaining(b)
  PROVE  TableInv'
  <1>0. /\ i # b /\ status[i] = "trusted" /\ txTo[i] = 0
        /\ supersededBy[i] = NoBelief
    BY IncumbentFacts
  <1>1. TypeOK'
    <2>1. /\ status' \in [Belief -> Status]
          /\ supersededBy' \in [Belief -> Belief \union {NoBelief}]
          /\ txTo' \in [Belief -> Nat]
      <3>1. CASE Superseding(b, i)
        <4>1. status' \in [Belief -> Status]
          BY <3>1 DEF TableInv, TypeOK, Superseding, Status
        <4>2. supersededBy' \in [Belief -> Belief \union {NoBelief}]
          BY <3>1 DEF TableInv, TypeOK, Superseding
        <4>3. clock + 1 \in Nat
          BY DEF RowWritten
        <4>4. txTo' \in [Belief -> Nat]
          BY <3>1, <4>3 DEF TableInv, TypeOK, Superseding
        <4>5. QED
          BY <4>1, <4>2, <4>4
      <3>2. CASE Retaining(b)
        BY <3>2 DEF TableInv, TypeOK, Retaining, Status
      <3>3. QED
        BY <3>1, <3>2
    <2>2. clock' \in Nat /\ fact' \in [Belief -> Fact \union {NoFact}]
      BY DEF RowWritten
    <2>3. contradictions' \subseteq Event
      BY DEF TableInv, TypeOK, Recorded, Event
    <2>4. QED
      BY <2>1, <2>2, <2>3 DEF TableInv, TypeOK, RowWritten
  <1>2. Lifecycle'
    <2> SUFFICES ASSUME NEW x \in Belief
                 PROVE  Story(x)'
      BY DEF Lifecycle
    <2>1. Story(x)
      BY DEF TableInv, Lifecycle
    <2>2. UNCHANGED <<scored, screened, verdicts, quarantine>>
      BY DEF RowWritten
    <2>3. CASE x = b
      <3>1. status'[x] = "pending"
        BY <1>0, <2>3 DEF TableInv, TypeOK, Superseding, Retaining
      <3>2. QED
        BY <2>1, <2>2, <2>3, <3>1 DEF Story, Tables, RowWritten
    <2>4. CASE x = i
      <3>1. status'[x] \in {"trusted", "superseded"}
        BY <1>0, <2>4 DEF TableInv, TypeOK, Superseding, Retaining
      <3>2. QED
        BY <1>0, <2>1, <2>2, <2>4, <3>1 DEF Story, Tables
    <2>5. CASE x # b /\ x # i
      <3>1. status'[x] = status[x]
        BY <2>5 DEF TableInv, TypeOK, Superseding, Retaining
      <3>2. QED
        BY <2>1, <2>2, <3>1 DEF Story, Tables
    <2>6. QED
      BY <2>3, <2>4, <2>5
  <1>3. Unwritten'
    <2> SUFFICES ASSUME NEW x \in Belief, status'[x] = "absent"
                 PROVE  /\ \A l \in Belief : supersededBy'[l] # x
                        /\ \A e \in contradictions' :
                              e.incumbent # x /\ e.challenger # x
      BY DEF Unwritten
    <2>1. x # b /\ x # i /\ status[x] = "absent"
      BY <1>0 DEF TableInv, TypeOK, Superseding, Retaining
    <2>2. \A l \in Belief : supersededBy'[l] # x
      BY <2>1 DEF TableInv, TypeOK, Unwritten, Superseding, Retaining
    <2>3. \A e \in contradictions' : e.incumbent # x /\ e.challenger # x
      BY <2>1 DEF TableInv, Unwritten, Recorded
    <2>4. QED
      BY <2>2, <2>3
  <1>4. Dated'
    <2> SUFFICES ASSUME NEW x \in Belief, status'[x] # "absent"
                 PROVE  fact'[x] \in Fact /\ fact'[x].txFrom <= clock'
      BY DEF Dated
    <2>1. CASE x = b
      BY <2>1 DEF RowWritten
    <2>2. CASE x # b
      <3>1. status[x] # "absent"
        BY <1>0, <2>2 DEF TableInv, TypeOK, Superseding, Retaining
      <3>2. fact[x] \in Fact /\ fact[x].txFrom <= clock
        BY <3>1 DEF TableInv, Dated
      <3>3. QED
        BY <2>2, <3>2 DEF RowWritten, Fact
    <2>3. QED
      BY <2>1, <2>2
  <1>5. Linked'
    <2>1. CASE Superseding(b, i)
      BY <1>0, <2>1, NoBeliefAssumption
         DEF TableInv, TypeOK, Linked, Superseding, RowWritten
    <2>2. CASE Retaining(b)
      BY <2>2 DEF TableInv, TypeOK, Linked, Retaining, RowWritten
    <2>3. QED
      BY <2>1, <2>2
  <1>6. QED
    BY <1>1, <1>2, <1>3, <1>4, <1>5 DEF TableInv

(***************************************************************************)
(* The explanations: those already given stand, and a new one is given for *)
(* the incumbent that a winner replaces.                                   *)
(***************************************************************************)
LEMMA ContestedExplained ==
  ASSUME StoreInv, NEW b \in Belief, NEW k \in Key \ MultiValued, NEW c \in Claim,
         RowWritten(b, k, c), NEW i \in Belief, Incumbent(k, i),
         NEW r, Recorded(b, i, r),
         \/ /\ Superseding(b, i)
            /\ r.resolution = "challenger_supersedes"
            /\ r.basis = "explicit_invalidation" \/ Wins(c, fact[i].claim)
         \/ Retaining(b)
  PROVE  Closed' /\ SupersessionExplained'
  <1>0. /\ i # b /\ status[i] = "trusted" /\ txTo[i] = 0
        /\ supersededBy[i] = NoBelief
        /\ fact[i] \in Fact /\ fact[i].key = k /\ fact[i].txFrom <= clock
        /\ fact'[i] = fact[i]
    BY StoreTables, IncumbentFacts
  <1>1. ASSUME NEW l \in Belief, NEW w \in Belief, Supersedes(w, l)
        PROVE  /\ Supersedes(w, l)' /\ status'[w] # "absent" /\ Explained(w, l)'
               /\ w # b /\ l # i /\ \A m \in Belief : Supersedes(w, m)' => m = l
    <2>1. /\ status[w] # "absent" /\ Explained(w, l)
          /\ \A m \in Belief : Supersedes(w, m) => m = l
      BY <1>1 DEF StoreInv, SupersessionExplained
    <2>2. w # b /\ l # b /\ l # i
      BY <1>0, <1>1, NoBeliefAssumption DEF RowWritten, Supersedes
    <2>3. fact'[w] = fact[w] /\ fact'[l] = fact[l] /\ txTo'[l] = txTo[l]
      BY <2>2 DEF StoreInv, TypeOK, RowWritten, Superseding, Retaining
    <2>4. Explained(w, l)'
      BY <2>1, <2>3 DEF Explained, Recorded
    <2>5. status'[w] # "absent"
      BY <2>1, <2>2 DEF StoreInv, TypeOK, Superseding, Retaining
    <2>6. Supersedes(w, l)' /\ \A m \in Belief : Supersedes(w, m)' => m = l
      BY <1>1, <2>1, <2>2 DEF StoreInv, TypeOK, Supersedes, Superseding, Retaining
    <2>7. QED
      BY <2>2, <2>4, <2>5, <2>6
  <1>2. ASSUME Retaining(b)
        PROVE  SupersessionExplained'
    <2>1. \A l, w \in Belief : Supersedes(w, l)' <=> Supersedes(w, l)
      BY <1>2 DEF Supersedes, Retaining
    <2>2. \A l \in Belief : status'[l] = "superseded" <=> supersededBy'[l] # NoBelief
      BY <1>2 DEF StoreInv, TypeOK, SupersessionExplained, Retaining, RowWritten
    <2>3. QED
      BY <1>1, <2>1, <2>2 DEF SupersessionExplained
  <1>3. ASSUME Superseding(b, i),
               r.resolution = "challenger_supersedes",
               r.basis = "explicit_invalidation" \/ Wins(c, fact[i].claim)
        PROVE  SupersessionExplained'
    <2>1. \A l, w \in Belief : Supersedes(w, l)' =>
            Supersedes(w, l) \/ (w = b /\ l = i)
      BY <1>3 DEF StoreInv, TypeOK, Supersedes, Superseding
    <2>2. Supersedes(b, i)' /\ status'[b] # "absent"
      BY <1>0, <1>3 DEF StoreInv, TypeOK, Supersedes, Superseding
    <2>3. \A m \in Belief : Supersedes(b, m)' => m = i
      BY <1>1, <2>1
    <2>4. Explained(b, i)'
      <3>1. fact'[b].key = k /\ fact'[b].claim = c /\ fact'[b].txFrom = clock + 1
        BY DEF RowWritten
      <3>2. txTo'[i] = clock + 1 /\ fact'[i].txFrom < txTo'[i]
        BY <1>0, <1>3 DEF StoreInv, TypeOK, Superseding, Fact
      <3>3. [incumbent |-> i, challenger |-> b,
             resolution |-> r.resolution, basis |-> r.basis] \in contradictions'
        BY DEF Recorded
      <3>4. QED
        BY <1>0, <1>3, <3>1, <3>2, <3>3 DEF Explained
    <2>5. \A l \in Belief : status'[l] = "superseded" <=> supersededBy'[l] # NoBelief
      BY <1>0, <1>3, NoBeliefAssumption
         DEF StoreInv, TypeOK, SupersessionExplained, Superseding, RowWritten
    <2>6. QED
      BY <1>1, <2>1, <2>2, <2>3, <2>4, <2>5 DEF SupersessionExplained
  <1>4. Closed'
    <2>1. CASE Superseding(b, i)
      <3>1. clock + 1 # 0 /\ b # NoBelief
        BY NoBeliefAssumption DEF RowWritten
      <3>2. QED
        BY <2>1, <3>1 DEF StoreInv, TypeOK, Closed, Superseding
    <2>2. CASE Retaining(b)
      BY <2>2 DEF StoreInv, Closed, Retaining
    <2>3. QED
      BY <2>1, <2>2
  <1>5. QED
    BY <1>2, <1>3, <1>4

(***************************************************************************)
(* Resolving a contradiction ends in one of these ways, and preserves the  *)
(* invariant.                                                              *)
(***************************************************************************)
Outcomes(b, c, i) ==
    \E r : /\ Recorded(b, i, r)
           /\ \/ /\ Superseding(b, i)
                 /\ r.resolution = "challenger_supersedes"
                 /\ r.basis = "explicit_invalidation" \/ Wins(c, fact[i].claim)
              \/ Retaining(b)

LEMMA ContradictionEnds ==
  ASSUME TableInv, NEW b \in Belief, NEW k \in Key, NEW c \in Claim,
         NEW override \in BOOLEAN, ResolveContradiction(b, k, c, override)
  PROVE  /\ RowWritten(b, k, c) /\ k \in Key \ MultiValued
         /\ \E i \in Belief : Incumbent(k, i) /\ Outcomes(b, c, i)
  <1>1. RowWritten(b, k, c)
    BY WriteFacts DEF ResolveContradiction, Contradict
  <1>2. k \in Key \ MultiValued
    BY DEF ResolveContradiction, Contradict
  <1>3. PICK i \in Belief :
          LET verdict == ResolvePrecedence(c, fact[i].claim, override)
          IN  /\ Incumbent(k, i)
              /\ contradictions' = contradictions \union
                    {[incumbent |-> i, challenger |-> b,
                      resolution |-> verdict.resolution,
                      basis |-> verdict.basis]}
              /\ \/ /\ verdict.resolution = "challenger_supersedes"
                    /\ Superseding(b, i)
                 \/ /\ verdict.resolution # "challenger_supersedes"
                    /\ Retaining(b)
    BY DEF ResolveContradiction, Contradict, Superseding, Retaining
  <1> DEFINE r == ResolvePrecedence(c, fact[i].claim, override)
  <1>4. fact[i].claim \in Claim
    <2>1. fact[i] \in Fact
      BY <1>1, <1>3, IncumbentFacts
    <2>2. QED
      BY <2>1 DEF Fact
  <1>5. /\ r.resolution \in {"challenger_supersedes", "incumbent_retained",
                             "deferred"}
        /\ r.basis \in {"explicit_invalidation", "source_tier", "recency",
                        "confidence", "policy"}
        /\ r.resolution = "challenger_supersedes" =>
             r.basis = "explicit_invalidation" \/ Wins(c, fact[i].claim)
    BY <1>4, OutcomeType
  <1> HIDE DEF r
  <1>6. Recorded(b, i, r) /\ Incumbent(k, i)
    BY <1>3, <1>5 DEF Recorded, r
  <1>7. \/ /\ Superseding(b, i)
           /\ r.resolution = "challenger_supersedes"
           /\ r.basis = "explicit_invalidation" \/ Wins(c, fact[i].claim)
        \/ Retaining(b)
    BY <1>3, <1>5 DEF r
  <1>8. QED
    BY <1>1, <1>2, <1>6, <1>7 DEF Outcomes

LEMMA ContradictionFrame ==
  ASSUME TableInv, NEW b \in Belief, NEW k \in Key, NEW c \in Claim,
         NEW override \in BOOLEAN, ResolveContradiction(b, k, c, override)
  PROVE  TableInv'
  BY ContradictionEnds, ContestedFrame DEF Outcomes

LEMMA ContradictionPreserves ==
  ASSUME StoreInv, NEW b \in Belief, NEW k \in Key, NEW c \in Claim,
         NEW override \in BOOLEAN, ResolveContradiction(b, k, c, override)
  PROVE  StoreInv'
  <1>1. TableInv'
    BY StoreTables, ContradictionFrame
  <1>2. Closed' /\ SupersessionExplained'
    BY StoreTables, ContradictionEnds, ContestedExplained DEF Outcomes
  <1>3. QED
    BY <1>1, <1>2 DEF StoreInv, TableInv

(***************************************************************************)
(* The gate and the reviewer move a belief along its story and leave the   *)
(* chains of supersession alone: they only touch beliefs that are not      *)
(* superseded, and supersede none.                                         *)
(***************************************************************************)
StatusFits ==
    /\ UNCHANGED <<clock, fact, txTo, supersededBy, contradictions>>
    /\ status' \in [Belief -> Status]
    /\ \A x \in Belief : /\ status'[x] = "absent" <=> status[x] = "absent"
                         /\ status'[x] = "superseded" <=> status[x] = "superseded"

LEMMA ChainsUntouched ==
  ASSUME StoreInv, TableInv', StatusFits
  PROVE  StoreInv'
  <1>1. Closed'
    BY DEF StoreInv, Closed, StatusFits
  <1>2. SupersessionExplained'
    BY DEF StoreInv, SupersessionExplained, Supersedes, Explained, StatusFits
  <1>3. QED
    BY <1>1, <1>2 DEF StoreInv, TableInv

(***************************************************************************)
(* The verdict of the gate.                                                *)
(***************************************************************************)
LEMMA ScreenFrame ==
  ASSUME TableInv, NEW b \in Belief, NEW v \in Verdict, Screen(b, v)
  PROVE  TableInv' /\ StatusFits
  <1>1. status[b] = "pending" /\ quarantine[b] = <<>> /\ verdicts[b] = <<>>
    BY DEF TableInv, Lifecycle, Story, Tables, Screen
  <1>2. /\ status' = [status EXCEPT ![b] = ScreenedStatus(v)]
        /\ scored' = [scored EXCEPT ![b] = TRUE]
        /\ screened' = [screened EXCEPT ![b] = TRUE]
    BY <1>1 DEF Screen
  <1>3. ScreenedStatus(v) \in {"pending", "trusted", "quarantined"}
    BY DEF ScreenedStatus, Verdict
  <1>4. status' \in [Belief -> Status]
    BY <1>2, <1>3 DEF TableInv, TypeOK, Status
  <1>5. TypeOK'
    <2>1. scored' \in [Belief -> BOOLEAN] /\ screened' \in [Belief -> BOOLEAN]
      BY <1>2 DEF TableInv, TypeOK
    <2>2. verdicts' \in [Belief -> Seq(Verdict)]
      BY DEF TableInv, TypeOK, Screen
    <2>3. quarantine' \in [Belief -> Seq(Disposition)]
      BY DEF TableInv, TypeOK, Screen, Disposition
    <2>4. QED
      BY <1>4, <2>1, <2>2, <2>3 DEF TableInv, TypeOK, Screen
  <1>6. Lifecycle'
    <2> SUFFICES ASSUME NEW x \in Belief
                 PROVE  Story(x)'
      BY DEF Lifecycle
    <2>1. CASE x = b
      <3>1. verdicts'[b] = <<v>>
        BY <1>1 DEF TableInv, TypeOK, Screen
      <3>2. quarantine'[b] = IF v = "quarantined" THEN <<"held">> ELSE <<>>
        BY <1>1 DEF TableInv, TypeOK, Screen
      <3>3. status'[b] = ScreenedStatus(v) /\ scored'[b] /\ screened'[b]
        BY <1>2 DEF TableInv, TypeOK
      <3>4. (scored'[b] = TRUE) /\ (screened'[b] = TRUE) /\ verdicts'[b] # <<>>
        BY <1>2, <3>1 DEF TableInv, TypeOK
      <3>5. CASE v = "trusted"
        BY <2>1, <3>1, <3>2, <3>3, <3>4, <3>5 DEF Story, Tables, ScreenedStatus
      <3>6. CASE v = "quarantined"
        BY <2>1, <3>1, <3>2, <3>3, <3>4, <3>6 DEF Story, Tables, ScreenedStatus
      <3>7. CASE v = "inconclusive"
        BY <2>1, <3>1, <3>2, <3>3, <3>4, <3>7 DEF Story, Tables, ScreenedStatus
      <3>8. QED
        BY <3>5, <3>6, <3>7 DEF Verdict
    <2>2. CASE x # b
      <3>1. /\ status'[x] = status[x] /\ scored'[x] = scored[x]
            /\ screened'[x] = screened[x] /\ verdicts'[x] = verdicts[x]
            /\ quarantine'[x] = quarantine[x]
        BY <1>2, <2>2 DEF TableInv, TypeOK, Screen
      <3>2. Story(x)
        BY DEF TableInv, Lifecycle
      <3>3. QED
        BY <3>1, <3>2 DEF Story, Tables
    <2>3. QED
      BY <2>1, <2>2
  <1>7. StatusFits
    BY <1>1, <1>2, <1>3, <1>4 DEF TableInv, TypeOK, Screen, StatusFits
  <1>8. Unwritten' /\ Dated' /\ Linked'
    BY <1>7 DEF TableInv, Unwritten, Dated, Linked, StatusFits
  <1>9. QED
    BY <1>5, <1>6, <1>7, <1>8 DEF TableInv

(***************************************************************************)
(* The decision of the reviewer, on the only row of the belief.            *)
(***************************************************************************)
Reviewed(b, disposition, s) ==
    /\ quarantine' = [quarantine EXCEPT ![b] = <<disposition>>]
    /\ status' = [status EXCEPT ![b] = s]
    /\ UNCHANGED <<clock, fact, txTo, supersededBy, scored, screened,
                   verdicts, contradictions>>

LEMMA ReviewDecides ==
  ASSUME TableInv, NEW b \in Belief, Review(b)
  PROVE  /\ status[b] = "quarantined" /\ verdicts[b] = <<"quarantined">>
         /\ Reviewed(b, "released", "trusted") \/ Reviewed(b, "rejected", "rejected")
  <1>1. PICK n \in 1..Len(quarantine[b]) : Release(b, n) \/ Reject(b, n)
    BY DEF Review
  <1>2. quarantine[b][n] = "held"
    BY <1>1 DEF Release, Reject
  <1>3. Story(b)
    BY DEF TableInv, Lifecycle
  <1>4. /\ quarantine[b] = <<"held">> /\ status[b] = "quarantined"
        /\ verdicts[b] = <<"quarantined">>
    BY <1>2, <1>3 DEF Story, Tables
  <1>5. scored[b] /\ screened[b]
    BY <1>3, <1>4 DEF Story, TableInv, TypeOK
  <1>6. n = 1
    BY <1>4
  <1>7. ASSUME NEW d
        PROVE  [quarantine EXCEPT ![b][n] = d] = [quarantine EXCEPT ![b] = <<d>>]
    <2>1. [<<"held">> EXCEPT ![1] = d] = <<d>>
      OBVIOUS
    <2>2. QED
      BY <1>4, <1>6, <2>1
  <1>8. CASE Release(b, n)
    <2>1. screened' = [screened EXCEPT ![b] = TRUE]
      BY <1>4, <1>8 DEF Release
    <2>2. screened \in [Belief -> BOOLEAN]
      BY DEF TableInv, TypeOK
    <2>3. screened' = screened
      BY <1>5, <2>1, <2>2
    <2>4. QED
      BY <1>4, <1>7, <1>8, <2>3 DEF Release, Dispose, Reviewed
  <1>9. CASE Reject(b, n)
    BY <1>4, <1>7, <1>9 DEF Reject, Dispose, Reviewed
  <1>10. QED
    BY <1>1, <1>4, <1>8, <1>9

LEMMA ReviewFrame ==
  ASSUME TableInv, NEW b \in Belief, Review(b)
  PROVE  TableInv' /\ StatusFits
  <1>1. status[b] = "quarantined" /\ verdicts[b] = <<"quarantined">>
    BY ReviewDecides
  <1>2. PICK d \in Disposition, s \in Status :
          /\ <<d, s>> \in {<<"released", "trusted">>, <<"rejected", "rejected">>}
          /\ Reviewed(b, d, s)
    BY ReviewDecides DEF Disposition, Status
  <1>3. status' \in [Belief -> Status]
    BY <1>2 DEF TableInv, TypeOK, Reviewed
  <1>4. TypeOK'
    <2>1. quarantine' \in [Belief -> Seq(Disposition)]
      BY <1>2 DEF TableInv, TypeOK, Reviewed
    <2>2. QED
      BY <1>2, <1>3, <2>1 DEF TableInv, TypeOK, Reviewed
  <1>5. Lifecycle'
    <2> SUFFICES ASSUME NEW x \in Belief
                 PROVE  Story(x)'
      BY DEF Lifecycle
    <2>1. Story(x)
      BY DEF TableInv, Lifecycle
    <2>2. scored' = scored /\ screened' = screened /\ verdicts' = verdicts
      BY <1>2 DEF Reviewed
    <2>3. CASE x = b
      <3>1. quarantine'[b] = <<d>> /\ status'[b] = s
        BY <1>2 DEF TableInv, TypeOK, Reviewed
      <3>2. QED
        BY <1>1, <1>2, <2>1, <2>2, <2>3, <3>1 DEF Story, Tables
    <2>4. CASE x # b
      <3>1. quarantine'[x] = quarantine[x] /\ status'[x] = status[x]
        BY <1>2, <2>4 DEF TableInv, TypeOK, Reviewed
      <3>2. QED
        BY <2>1, <2>2, <3>1 DEF Story, Tables
    <2>5. QED
      BY <2>3, <2>4
  <1>6. StatusFits
    BY <1>1, <1>2, <1>3 DEF TableInv, TypeOK, Reviewed, StatusFits
  <1>7. Unwritten' /\ Dated' /\ Linked'
    BY <1>6 DEF TableInv, Unwritten, Dated, Linked, StatusFits
  <1>8. QED
    BY <1>4, <1>5, <1>6, <1>7 DEF TableInv

-----------------------------------------------------------------------------
(***************************************************************************)
(* The four transactions, one by one, and with them every step.            *)
(***************************************************************************)
LEMMA ResolveFrame ==
  ASSUME TableInv, NEW b \in Belief, Ingest(b) \/ Correct(b)
  PROVE  TableInv'
  <1>1. PICK k \in Key, c \in Claim, override \in BOOLEAN :
          Resolve(b, k, c, override)
    BY DEF Ingest, Correct
  <1>2. CASE ResolveUncontested(b, k, c)
    BY <1>2, UncontestedFrame
  <1>3. CASE ResolveContradiction(b, k, c, override)
    BY <1>3, ContradictionFrame
  <1>4. QED
    BY <1>1, <1>2, <1>3 DEF Resolve

LEMMA ResolvePreserves ==
  ASSUME StoreInv, NEW b \in Belief, Ingest(b) \/ Correct(b)
  PROVE  StoreInv'
  <1>1. PICK k \in Key, c \in Claim, override \in BOOLEAN :
          Resolve(b, k, c, override)
    BY DEF Ingest, Correct
  <1>2. CASE ResolveUncontested(b, k, c)
    BY <1>2, UncontestedPreserves
  <1>3. CASE ResolveContradiction(b, k, c, override)
    BY <1>3, ContradictionPreserves
  <1>4. QED
    BY <1>1, <1>2, <1>3 DEF Resolve

LEMMA StepPreservesStoreInv ==
  ASSUME StoreInv, [Next]_vars
  PROVE  StoreInv'
  <1>1. ASSUME NEW b \in Belief, Ingest(b) \/ Correct(b)
        PROVE  StoreInv'
    BY <1>1, ResolvePreserves
  <1>2. ASSUME NEW b \in Belief, NEW v \in Verdict, Screen(b, v)
        PROVE  StoreInv'
    BY <1>2, StoreTables, ScreenFrame, ChainsUntouched
  <1>3. ASSUME NEW b \in Belief, Review(b)
        PROVE  StoreInv'
    BY <1>3, StoreTables, ReviewFrame, ChainsUntouched
  <1>4. CASE UNCHANGED vars
    BY <1>4 DEF vars, StoreInv, TypeOK, Lifecycle, Story, Tables, Unwritten,
                Dated, Closed, SupersessionExplained, Supersedes, Explained
  <1>5. QED
    BY <1>1, <1>2, <1>3, <1>4 DEF Next

THEOREM StoreInvariant == Spec => []StoreInv
  <1>1. StoreInv /\ [Next]_vars => StoreInv'
    BY StepPreservesStoreInv
  <1>2. QED
    BY InitEstablishesStoreInv, <1>1, PTL DEF Spec

-----------------------------------------------------------------------------
(***************************************************************************)
(* The columns of every table keep their types.                            *)
(***************************************************************************)
THEOREM StoreTypes == Spec => []TypeOK
  <1>1. StoreInv => TypeOK
    BY DEF StoreInv
  <1>2. QED
    BY <1>1, StoreInvariant, PTL

(***************************************************************************)
(* A belief's status, verdicts and dispositions always tell one of six     *)
(* stories, however the transactions interleave.                           *)
(***************************************************************************)
THEOREM StoreLifecycle == Spec => []Lifecycle
  <1>1. StoreInv => Lifecycle
    BY DEF StoreInv
  <1>2. QED
    BY <1>1, StoreInvariant, PTL

(***************************************************************************)
(* What the stories say of consumers and of the review queue, for this     *)
(* and every other component that keeps them.                              *)
(***************************************************************************)
LEMMA LifecycleVets ==
  ASSUME Lifecycle
  PROVE  Vetted
  <1> SUFFICES ASSUME NEW b \in TrustedCurrent
               PROVE  /\ \/ \E n \in 1..Len(verdicts[b])   : verdicts[b][n] = "trusted"
                         \/ \E n \in 1..Len(quarantine[b]) : quarantine[b][n] = "released"
                      /\ \A n \in 1..Len(quarantine[b]) : quarantine[b][n] # "rejected"
    BY DEF Vetted, Admitted, Refused
  <1>1. b \in Belief /\ status[b] = "trusted"
    BY DEF TrustedCurrent
  <1>2. \/ verdicts[b] = <<"trusted">> /\ quarantine[b] = <<>>
        \/ quarantine[b] = <<"released">>
    BY <1>1 DEF Lifecycle, Story, Tables
  <1>3. CASE verdicts[b] = <<"trusted">> /\ quarantine[b] = <<>>
    BY <1>3
  <1>4. CASE quarantine[b] = <<"released">>
    BY <1>4
  <1>5. QED
    BY <1>2, <1>3, <1>4

LEMMA LifecycleQueues ==
  ASSUME Lifecycle
  PROVE  ReviewQueueExact
  <1> SUFFICES ASSUME NEW b \in Belief
               PROVE  /\ status[b] = "quarantined"
                           <=> \E n \in 1..Len(quarantine[b]) : quarantine[b][n] = "held"
                      /\ \A m, n \in 1..Len(quarantine[b]) :
                            quarantine[b][m] = "held" /\ quarantine[b][n] = "held" => m = n
    BY DEF ReviewQueueExact
  <1>1. Story(b)
    BY DEF Lifecycle
  <1>2. CASE quarantine[b] = <<>>
    BY <1>1, <1>2 DEF Story, Tables
  <1>3. CASE quarantine[b] = <<"held">>
    <2>1. status[b] = "quarantined"
      BY <1>1, <1>3 DEF Story, Tables
    <2>2. QED
      BY <1>3, <2>1
  <1>4. CASE quarantine[b] \in {<<"released">>, <<"rejected">>}
    <2>1. status[b] # "quarantined"
      BY <1>1, <1>4 DEF Story, Tables
    <2>2. QED
      BY <1>4, <2>1
  <1>5. QED
    BY <1>1, <1>2, <1>3, <1>4 DEF Story, Tables

(***************************************************************************)
(* Security Invariant 1: no consumer retrieves a belief that neither the   *)
(* gate nor a reviewer has admitted.                                       *)
(***************************************************************************)
THEOREM StoreVetted == Spec => []Vetted
  <1>1. StoreInv => Vetted
    BY LifecycleVets DEF StoreInv
  <1>2. QED
    BY <1>1, StoreInvariant, PTL

(***************************************************************************)
(* Every quarantined belief waits for exactly one decision of a reviewer,  *)
(* and nothing else is in the review queue.                                *)
(***************************************************************************)
THEOREM StoreReviewQueue == Spec => []ReviewQueueExact
  <1>1. StoreInv => ReviewQueueExact
    BY LifecycleQueues DEF StoreInv
  <1>2. QED
    BY <1>1, StoreInvariant, PTL

(***************************************************************************)
(* Every supersession can be reconstructed from the rows that are left,    *)
(* and superseded_by chains neither fork nor leave gaps.                   *)
(***************************************************************************)
THEOREM StoreSupersession == Spec => []SupersessionExplained
  <1>1. StoreInv => SupersessionExplained
    BY DEF StoreInv
  <1>2. QED
    BY <1>1, StoreInvariant, PTL

(***************************************************************************)
(* No transaction is ever refused by a CHECK constraint of the table.      *)
(***************************************************************************)
THEOREM StoreChecks == Spec => []ChecksHold
  <1>1. StoreInv => ChecksHold
    <2> SUFFICES ASSUME StoreInv PROVE ChecksHold
      OBVIOUS
    <2>1. \A b \in Belief : Story(b)
      BY DEF StoreInv, Lifecycle
    <2>2. QED
      BY <2>1 DEF StoreInv, TypeOK, Story, Tables, ChecksHold,
                   SupersessionExplained
  <1>2. QED
    BY <1>1, StoreInvariant, PTL

-----------------------------------------------------------------------------
(***************************************************************************)
(* What a transaction may never do to the records of the others.  A step   *)
(* that keeps the closed rows, the verdicts and the decided quarantine     *)
(* rows keeps the record of each belief.                                   *)
(***************************************************************************)
LEMMA ResolveKeepsRecords ==
  ASSUME TableInv, NEW b \in Belief, NEW k \in Key, NEW c \in Claim,
         NEW override \in BOOLEAN, Resolve(b, k, c, override)
  PROVE  KeepsRecords
  <1>1. RowWritten(b, k, c)
    BY WriteFacts DEF Resolve, ResolveUncontested, Uncontested,
                      ResolveContradiction, Contradict
  <1>2. contradictions \subseteq contradictions'
    BY DEF Resolve, ResolveUncontested, Uncontested, ResolveContradiction,
           Contradict
  <1>3. ASSUME NEW x \in Belief
        PROVE  KeepsRecord(x)
    <2>1. /\ verdicts' = verdicts /\ quarantine' = quarantine
          /\ status[x] # "absent" => x # b /\ fact'[x] = fact[x]
      BY <1>1 DEF RowWritten
    <2>2. /\ status[x] # "absent" => status'[x] # "absent"
          /\ txTo[x] # 0 => txTo'[x] = txTo[x] /\ supersededBy'[x] = supersededBy[x]
      <3>1. CASE ResolveUncontested(b, k, c)
        BY <3>1 DEF ResolveUncontested, Uncontested, TableInv, TypeOK
      <3>2. CASE ResolveContradiction(b, k, c, override)
        <4>1. PICK i \in Belief :
                Incumbent(k, i) /\ (Superseding(b, i) \/ Retaining(b))
          BY <3>2 DEF ResolveContradiction, Contradict, Superseding, Retaining
        <4>2. txTo[i] = 0
          BY <4>1 DEF Incumbent, MostRecent, Incumbents, TrustedCurrent
        <4>3. QED
          BY <4>1, <4>2 DEF Superseding, Retaining, TableInv, TypeOK
      <3>3. QED
        BY <3>1, <3>2 DEF Resolve
    <2>3. QED
      BY <2>1, <2>2 DEF KeepsRecord, TableInv, TypeOK
  <1>4. QED
    BY <1>2, <1>3 DEF KeepsRecords

LEMMA StepKeepsRecords ==
  ASSUME TableInv, Next
  PROVE  KeepsRecords
  <1>1. ASSUME NEW b \in Belief, Ingest(b) \/ Correct(b)
        PROVE  KeepsRecords
    <2>1. PICK k \in Key, c \in Claim, override \in BOOLEAN :
            Resolve(b, k, c, override)
      BY <1>1 DEF Ingest, Correct
    <2>2. QED
      BY <2>1, ResolveKeepsRecords
  <1>2. ASSUME NEW b \in Belief, NEW v \in Verdict, Screen(b, v)
        PROVE  KeepsRecords
    <2>1. status[b] # "absent" /\ verdicts[b] = <<>> /\ quarantine[b] = <<>>
      BY <1>2 DEF TableInv, Lifecycle, Story, Tables, Screen
    <2>2. ScreenedStatus(v) # "absent"
      BY DEF ScreenedStatus, Verdict
    <2>3. QED
      BY <1>2, <2>1, <2>2 DEF Screen, KeepsRecords, KeepsRecord, TableInv, TypeOK
  <1>3. ASSUME NEW b \in Belief, Review(b)
        PROVE  KeepsRecords
    <2>1. PICK n \in 1..Len(quarantine[b]) : Release(b, n) \/ Reject(b, n)
      BY <1>3 DEF Review
    <2>2. quarantine[b] = <<"held">>
      BY <2>1 DEF Release, Reject, TableInv, Lifecycle, Story, Tables
    <2>3. PICK d \in Disposition, s \in Status :
            /\ <<d, s>> \in {<<"released", "trusted">>, <<"rejected", "rejected">>}
            /\ Reviewed(b, d, s)
      BY <1>3, ReviewDecides DEF Disposition, Status
    <2>4. ASSUME NEW x \in Belief, NEW m \in 1..Len(quarantine[x])
          PROVE  m <= Len(quarantine'[x])
                   /\ (quarantine[x][m] # "held" => quarantine'[x][m] = quarantine[x][m])
      <3>1. CASE x = b
        <4>1. quarantine'[x] = <<d>>
          BY <2>3, <3>1 DEF Reviewed, TableInv, TypeOK
        <4>2. Len(quarantine[x]) = 1
          <5>1. Len(<<"held">>) = 1
            OBVIOUS
          <5>2. QED
            BY <2>2, <3>1, <5>1
        <4>3. m = 1
          BY <4>2
        <4>4. Len(quarantine'[x]) = 1 /\ quarantine[x][m] = "held"
          BY <2>2, <3>1, <4>1, <4>3
        <4>5. QED
          BY <4>3, <4>4
      <3>2. CASE x # b
        BY <2>3, <3>2 DEF Reviewed, TableInv, TypeOK
      <3>3. QED
        BY <3>1, <3>2
    <2>5. QED
      BY <2>3, <2>4 DEF Reviewed, KeepsRecords, KeepsRecord, TableInv, TypeOK
  <1>4. QED
    BY <1>1, <1>2, <1>3 DEF Next

(***************************************************************************)
(* A record, once written, is never rewritten: rows keep their content,    *)
(* closed rows stay closed, and verdicts and decisions are final.          *)
(***************************************************************************)
THEOREM StoreRecordsKept == Spec => RecordsKept
  <1>1. StoreInv /\ [Next]_vars => [KeepsRecords]_vars
    BY StoreTables, StepKeepsRecords
  <1>2. QED
    BY <1>1, StoreInvariant, PTL DEF Spec, RecordsKept

(***************************************************************************)
(* The life of a belief goes one way: pending, held for review, trusted,   *)
(* superseded or rejected.  This follows from what the tables tell and     *)
(* keep, for every component that only adds to them: a decided quarantine  *)
(* row shows where the belief has been.                                    *)
(***************************************************************************)
Standing(s) ==
    CASE s = "absent"                     -> 0
      [] s = "pending"                    -> 1
      [] s = "quarantined"                -> 2
      [] s = "trusted"                    -> 3
      [] s \in {"superseded", "rejected"} -> 4

NeverBack ==
    \A b \in Belief : status'[b] # status[b] =>
        Standing(status[b]) < Standing(status'[b])

LEMMA RecordsTellTheWay ==
  ASSUME TableInv, TableInv', KeepsRecords,
         \A b \in Belief : status[b] = "superseded" => status'[b] = "superseded"
  PROVE  NeverBack
  <1> SUFFICES ASSUME NEW b \in Belief, status'[b] # status[b]
               PROVE  Standing(status[b]) < Standing(status'[b])
    BY DEF NeverBack
  <1>1. Story(b) /\ Story(b)' /\ KeepsRecord(b)
    BY DEF TableInv, Lifecycle, KeepsRecords
  <1>2. /\ status[b] # "superseded"
        /\ status[b] # "absent" => status'[b] # "absent"
    BY <1>1 DEF KeepsRecord
  <1>3. \A v \in Verdict : verdicts[b] = <<v>> =>
           Len(verdicts'[b]) >= 1 /\ verdicts'[b][1] = v
    BY <1>1 DEF KeepsRecord
  <1>4. \A d \in Disposition : quarantine[b] = <<d>> =>
           /\ Len(quarantine'[b]) >= 1
           /\ d # "held" => quarantine'[b][1] = d
    BY <1>1 DEF KeepsRecord
  <1>5. CASE status[b] = "absent"
    BY <1>1, <1>5 DEF Story, Tables, Standing
  <1>6. CASE status[b] = "pending"
    BY <1>1, <1>2, <1>6 DEF Story, Tables, Standing
  <1>7. CASE status[b] = "quarantined"
    <2>1. verdicts[b] = <<"quarantined">> /\ quarantine[b] = <<"held">>
      BY <1>1, <1>7 DEF Story, Tables
    <2>2. Len(quarantine'[b]) >= 1
      BY <1>4, <2>1 DEF Disposition
    <2>3. quarantine'[b] # <<>>
      BY <2>2
    <2>4. status'[b] \in {"trusted", "superseded", "rejected"}
      BY <1>1, <1>7, <2>3 DEF Story, Tables
    <2>5. QED
      BY <1>7, <2>4 DEF Standing
  <1>8. CASE status[b] = "trusted"
    <2>1. \/ verdicts[b] = <<"trusted">> /\ quarantine[b] = <<>>
          \/ verdicts[b] = <<"quarantined">> /\ quarantine[b] = <<"released">>
      BY <1>1, <1>8 DEF Story, Tables
    <2>2. CASE verdicts[b] = <<"trusted">>
      <3>1. Len(verdicts'[b]) >= 1 /\ verdicts'[b][1] = "trusted"
        BY <1>3, <2>2 DEF Verdict
      <3>2. verdicts'[b] = <<"trusted">>
        BY <1>1, <3>1 DEF Story, Tables
      <3>3. status'[b] \in {"trusted", "superseded"}
        BY <1>1, <3>2 DEF Story, Tables
      <3>4. QED
        BY <1>8, <3>3 DEF Standing
    <2>3. CASE quarantine[b] = <<"released">>
      <3>1. Len(quarantine'[b]) >= 1 /\ quarantine'[b][1] = "released"
        BY <1>4, <2>3 DEF Disposition
      <3>2. quarantine'[b] = <<"released">>
        BY <1>1, <3>1 DEF Story, Tables
      <3>3. status'[b] \in {"trusted", "superseded"}
        BY <1>1, <3>2 DEF Story, Tables
      <3>4. QED
        BY <1>8, <3>3 DEF Standing
    <2>4. QED
      BY <2>1, <2>2, <2>3
  <1>9. CASE status[b] = "rejected"
    <2>1. quarantine[b] = <<"rejected">>
      BY <1>1, <1>9 DEF Story, Tables
    <2>2. Len(quarantine'[b]) >= 1 /\ quarantine'[b][1] = "rejected"
      BY <1>4, <2>1 DEF Disposition
    <2>3. quarantine'[b] = <<"rejected">>
      BY <1>1, <2>2 DEF Story, Tables
    <2>4. status'[b] = "rejected"
      BY <1>1, <2>3 DEF Story, Tables
    <2>5. QED
      BY <1>9, <2>4
  <1>10. status[b] \in Status
    BY DEF TableInv, TypeOK
  <1>11. QED
    BY <1>2, <1>5, <1>6, <1>7, <1>8, <1>9, <1>10 DEF Status

(***************************************************************************)
(* In the store itself what is superseded stays so, because its row is     *)
(* closed and names its winner.                                            *)
(***************************************************************************)
LEMMA SupersededKept ==
  ASSUME StoreInv, StoreInv', KeepsRecords, NEW b \in Belief,
         status[b] = "superseded"
  PROVE  status'[b] = "superseded"
  <1>1. supersededBy[b] # NoBelief
    BY DEF StoreInv, SupersessionExplained
  <1>2. supersededBy'[b] = supersededBy[b]
    BY <1>1 DEF StoreInv, Closed, KeepsRecords, KeepsRecord
  <1>3. QED
    BY <1>1, <1>2 DEF StoreInv, SupersessionExplained

LEMMA StoreGoesForward ==
  ASSUME StoreInv, StoreInv', KeepsRecords
  PROVE  NeverBack
  BY SupersededKept, StoreTables, RecordsTellTheWay DEF StoreInv, TableInv,
     Closed, Linked, SupersessionExplained

(***************************************************************************)
(* No transaction takes a belief back: none that was rejected or           *)
(* superseded is retrievable again, none that was retrievable is held.     *)
(***************************************************************************)
THEOREM StoreNeverBack == Spec => [][NeverBack]_vars
  <1>1. StoreInv /\ [Next]_vars => [NeverBack]_vars
    BY StepPreservesStoreInv, StoreTables, StepKeepsRecords, StoreGoesForward
  <1>2. QED
    BY <1>1, StoreInvariant, PTL DEF Spec

(***************************************************************************)
(* A resolve writes one row and dates it with its own commit, so the order *)
(* of tx_from, by which the poller fetches, is the order of the commits.   *)
(***************************************************************************)
DatesApart ==
    \A x, y \in Belief :
        /\ status[x] # "absent" /\ status[y] # "absent"
        /\ fact[x].txFrom = fact[y].txFrom
        => x = y

LEMMA ResolveDates ==
  ASSUME TableInv, DatesApart, NEW b \in Belief, NEW k \in Key, NEW c \in Claim,
         NEW override \in BOOLEAN, Resolve(b, k, c, override)
  PROVE  DatesApart'
  <1>1. RowWritten(b, k, c)
    BY WriteFacts DEF Resolve, ResolveUncontested, Uncontested,
                      ResolveContradiction, Contradict
  <1>2. \A x \in Belief \ {b} : status'[x] # "absent" => status[x] # "absent"
    <2>1. CASE ResolveUncontested(b, k, c)
      BY <2>1 DEF ResolveUncontested, Uncontested, TableInv, TypeOK
    <2>2. CASE ResolveContradiction(b, k, c, override)
      <3>1. PICK i \in Belief :
              Incumbent(k, i) /\ (Superseding(b, i) \/ Retaining(b))
        BY <2>2 DEF ResolveContradiction, Contradict, Superseding, Retaining
      <3>2. status[i] = "trusted"
        BY <3>1 DEF Incumbent, MostRecent, Incumbents, TrustedCurrent
      <3>3. QED
        BY <3>1, <3>2 DEF Superseding, Retaining, TableInv, TypeOK
    <2>3. QED
      BY <2>1, <2>2 DEF Resolve
  <1>3. \A x \in Belief \ {b} : status'[x] # "absent" =>
           fact'[x] = fact[x] /\ fact[x].txFrom < fact'[b].txFrom
    <2> SUFFICES ASSUME NEW x \in Belief \ {b}, status'[x] # "absent"
                 PROVE  fact'[x] = fact[x] /\ fact[x].txFrom < fact'[b].txFrom
      OBVIOUS
    <2>1. fact[x] \in Fact /\ fact[x].txFrom <= clock
      BY <1>2 DEF TableInv, Dated
    <2>2. fact'[x] = fact[x] /\ fact'[b].txFrom = clock + 1 /\ clock \in Nat
      BY <1>1 DEF RowWritten
    <2>3. fact[x].txFrom \in Nat
      BY <2>1 DEF Fact
    <2>4. QED
      BY <2>1, <2>2, <2>3
  <1>4. fact'[b].txFrom \in Nat
    BY <1>1 DEF RowWritten
  <1>5. ASSUME NEW x \in Belief, NEW y \in Belief,
               status'[x] # "absent", status'[y] # "absent",
               fact'[x].txFrom = fact'[y].txFrom
        PROVE  x = y
    <2>1. CASE x # b /\ y # b
      BY <1>2, <1>3, <1>5, <2>1 DEF DatesApart
    <2>2. CASE x = b /\ y # b
      BY <1>3, <1>4, <1>5, <2>2
    <2>3. CASE x # b /\ y = b
      BY <1>3, <1>4, <1>5, <2>3
    <2>4. QED
      BY <2>1, <2>2, <2>3
  <1>6. QED
    BY <1>5 DEF DatesApart

(***************************************************************************)
(* No two beliefs of a tenant have the same tx_from, whatever a7_resolve   *)
(* has written and closed.                                                 *)
(***************************************************************************)
THEOREM StoreDatesApart == Spec => []DatesApart
  <1>1. Init => DatesApart
    BY DEF Init, DatesApart
  <1>2. StoreInv /\ DatesApart /\ [Next]_vars => DatesApart'
    <2> SUFFICES ASSUME TableInv, DatesApart, [Next]_vars
                 PROVE  DatesApart'
      BY StoreTables
    <2>1. ASSUME NEW b \in Belief, Ingest(b) \/ Correct(b)
          PROVE  DatesApart'
      <3>1. PICK k \in Key, c \in Claim, override \in BOOLEAN :
              Resolve(b, k, c, override)
        BY <2>1 DEF Ingest, Correct
      <3>2. QED
        BY <3>1, ResolveDates
    <2>2. ASSUME NEW b \in Belief, Review(b) \/ \E v \in Verdict : Screen(b, v)
          PROVE  DatesApart'
      <3>1. StatusFits
        BY <2>2, ReviewFrame, ScreenFrame
      <3>2. QED
        BY <3>1 DEF StatusFits, DatesApart
    <2>3. CASE UNCHANGED vars
      BY <2>3 DEF vars, DatesApart
    <2>4. QED
      BY <2>1, <2>2, <2>3 DEF Next
  <1>3. QED
    BY <1>1, <1>2, StoreInvariant, PTL DEF Spec

-----------------------------------------------------------------------------
(***************************************************************************)
(* The refinement: each transaction is one move across the trust boundary, *)
(* or none at all (an inconclusive verdict).                               *)
(***************************************************************************)
Stages == [b \in Belief |-> StageOf(status[b])]

LEMMA StageMoves ==
  ASSUME StoreInv, NEW b \in Belief, NEW s \in Status,
         status' = [status EXCEPT ![b] = s]
  PROVE  Stages' = [Stages EXCEPT ![b] = StageOf(s)]
  BY DEF Stages, StoreInv, TypeOK

LEMMA StepCrossesBoundary ==
  ASSUME StoreInv, [Next]_vars
  PROVE  [Boundary!Next]_Stages
  <1>1. ASSUME NEW b \in Belief, Ingest(b) \/ Correct(b)
        PROVE  Boundary!Next
    <2>1. PICK k \in Key, c \in Claim, override \in BOOLEAN :
            Resolve(b, k, c, override)
      BY <1>1 DEF Ingest, Correct
    <2>2. Stages[b] = "unseen"
      BY <2>1 DEF Resolve, ResolveUncontested, Uncontested,
                  ResolveContradiction, Contradict,
                  WriteBelief, Stages, StageOf
    <2>3. CASE status' = [status EXCEPT ![b] = "pending"]
      <3>1. Stages' = [Stages EXCEPT ![b] = "waiting"]
        BY <2>3, StageMoves DEF Status, StageOf
      <3>2. Boundary!Arrive(b)
        BY <2>2, <3>1 DEF Boundary!Arrive, Boundary!Moves, Stages
      <3>3. QED
        BY <3>2 DEF Boundary!Next
    <2>4. ASSUME NEW i \in Belief, Incumbent(k, i), Superseding(b, i)
          PROVE  Boundary!Next
      <3>1. status[i] = "trusted" /\ Stages[i] = "retrievable"
        BY <2>4
          DEF Incumbent, MostRecent, Incumbents, TrustedCurrent, Stages, StageOf
      <3>2. StageOf("pending") = "waiting" /\ StageOf("superseded") = "retired"
        BY DEF StageOf
      <3>3. Stages' = [Stages EXCEPT ![b] = "waiting", ![i] = "retired"]
        BY <2>4, <3>2 DEF Superseding, Stages, StoreInv, TypeOK
      <3>4. Boundary!Replace(b, i)
        BY <2>2, <3>1, <3>3 DEF Boundary!Replace, Stages
      <3>5. QED
        BY <3>4 DEF Boundary!Next
    <2>5. QED
      BY <2>1, <2>3, <2>4 DEF Resolve, ResolveUncontested, Uncontested,
                              ResolveContradiction, Contradict, Superseding
  <1>2. ASSUME NEW b \in Belief, NEW v \in Verdict, Screen(b, v)
        PROVE  [Boundary!Next]_Stages
    <2>1. status[b] = "pending" /\ status' = [status EXCEPT ![b] = ScreenedStatus(v)]
      BY <1>2 DEF StoreInv, Lifecycle, Story, Tables, Screen
    <2>2. Stages[b] = "waiting"
      BY <2>1 DEF Stages, StageOf
    <2>3. ScreenedStatus(v) \in Status
      BY DEF ScreenedStatus, Verdict, Status
    <2>4. Stages' = [Stages EXCEPT ![b] = StageOf(ScreenedStatus(v))]
      BY <2>1, <2>3, StageMoves
    <2>5. CASE v = "trusted"
      <3>1. Boundary!Admit(b)
        BY <2>2, <2>4, <2>5
           DEF Boundary!Admit, Boundary!Moves, Stages, ScreenedStatus, StageOf
      <3>2. QED
        BY <3>1 DEF Boundary!Next
    <2>6. CASE v = "quarantined"
      <3>1. Boundary!Withhold(b)
        BY <2>2, <2>4, <2>6
           DEF Boundary!Withhold, Boundary!Moves, Stages, ScreenedStatus, StageOf
      <3>2. QED
        BY <3>1 DEF Boundary!Next
    <2>7. CASE v = "inconclusive"
      <3>1. Stages' = Stages
        BY <2>2, <2>4, <2>7 DEF Stages, ScreenedStatus, StageOf
      <3>2. QED
        BY <3>1
    <2>8. QED
      BY <2>5, <2>6, <2>7 DEF Verdict
  <1>3. ASSUME NEW b \in Belief, Review(b)
        PROVE  Boundary!Next
    <2>1. PICK d \in Disposition, s \in Status :
            /\ <<d, s>> \in {<<"released", "trusted">>, <<"rejected", "rejected">>}
            /\ Reviewed(b, d, s)
      BY <1>3, StoreTables, ReviewDecides DEF Disposition, Status
    <2>2. Stages[b] = "withheld"
      BY <1>3, StoreTables, ReviewDecides DEF Stages, StageOf
    <2>3. Stages' = [Stages EXCEPT ![b] = StageOf(s)]
      BY <2>1, StageMoves DEF Reviewed
    <2>4. CASE s = "trusted"
      <3>1. Boundary!Restore(b)
        BY <2>2, <2>3, <2>4 DEF Boundary!Restore, Boundary!Moves, Stages, StageOf
      <3>2. QED
        BY <3>1 DEF Boundary!Next
    <2>5. CASE s = "rejected"
      <3>1. Boundary!Discard(b)
        BY <2>2, <2>3, <2>5 DEF Boundary!Discard, Boundary!Moves, Stages, StageOf
      <3>2. QED
        BY <3>1 DEF Boundary!Next
    <2>6. QED
      BY <2>1, <2>4, <2>5
  <1>4. CASE UNCHANGED vars
    BY <1>4 DEF vars, Stages
  <1>5. QED
    BY <1>1, <1>2, <1>3, <1>4 DEF Next

(***************************************************************************)
(* The belief tables and their transactions implement the trust boundary.  *)
(***************************************************************************)
THEOREM StoreImplementsBoundary == Spec => ImplementsBoundary
  <1>1. Init => Boundary!Init
    BY DEF Init, Boundary!Init, StageOf
  <1>2. StoreInv /\ [Next]_vars => [Boundary!Next]_Stages
    BY StepCrossesBoundary
  <1>3. QED
    BY <1>1, <1>2, StoreInvariant, PTL
       DEF Spec, ImplementsBoundary, Boundary!Spec, Stages
=============================================================================
