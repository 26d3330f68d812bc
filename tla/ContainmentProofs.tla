------------------------- MODULE ContainmentProofs --------------------------
(***************************************************************************)
(* Proofs about Containment, for every number of beliefs and every graph   *)
(* of derivations: the search of the cascade finds all that was derived    *)
(* from its root, a completed cascade leaves none of it retrievable, and   *)
(* nothing is ever retrievable that nobody admitted.                       *)
(*                                                                         *)
(* The statements of the gate are transactions of their own here, so the   *)
(* invariant of BeliefStoreProofs does not hold; this one stands alone.    *)
(***************************************************************************)
EXTENDS Containment, FiniteSetTheorems, SequenceTheorems, TLAPS

(***************************************************************************)
(* The rows: what is written carries the transaction times given out so    *)
(* far, and a status other than pending comes from a verdict.              *)
(***************************************************************************)
Rows ==
    \A b \in Belief :
        /\ b \in Written => fact[b] \in Fact /\ fact[b].txFrom <= clock
        /\ b \notin Written => verdicts[b] = <<>> /\ quarantine[b] = <<>>
        /\ status[b] \notin {"absent", "pending"} => verdicts[b] # <<>>

(***************************************************************************)
(* Derivations: a belief names beliefs that were there before it.  So the  *)
(* graph has no cycles.                                                    *)
(***************************************************************************)
Derived ==
    \A c \in Belief :
        /\ c \notin Written => derivedFrom[c] = {}
        /\ \A d \in derivedFrom[c] : d \in Written /\ fact[d].txFrom < fact[c].txFrom

(***************************************************************************)
(* The gate has a written belief in hand, and once it has inserted a       *)
(* verdict there is one.                                                   *)
(***************************************************************************)
AtGate ==
    /\ phase \in {"lookup", "verdict", "update", "hold"} => current \in Written
    /\ phase \in {"update", "hold"} => verdicts[current] # <<>>

(***************************************************************************)
(* The lineage: written beliefs, the root not among them, and all that is  *)
(* reached from the root within it.                                        *)
(***************************************************************************)
ClosedInLineage(S) ==
    /\ Children(root) \intersect lineage \subseteq S
    /\ \A d \in S : Children(d) \intersect lineage \subseteq S

Lineage ==
    /\ lineage \subseteq Written /\ root \notin lineage
    /\ \A S \in SUBSET Belief : ClosedInLineage(S) => lineage \subseteq S

(***************************************************************************)
(* The frontier of the search: what it has expanded, its children in the   *)
(* lineage included or in the queue, and everything it has reached was     *)
(* reached from something it has expanded.                                 *)
(***************************************************************************)
Reached == visited \union Range(queue)

Frontier ==
    /\ Reached \subseteq Written
    /\ phase # "idle" => root \in Reached
    /\ \A v \in visited : Children(v) \intersect lineage \subseteq Reached
    /\ \A d \in Reached \ {root} : derivedFrom[d] \intersect visited # {}
    /\ phase \notin {"idle", "search"} => queue = <<>>

(***************************************************************************)
(* The suspects: the gate had seen all of them, so its answers do not move *)
(* them any more, and those that have been reset are pending for good.     *)
(***************************************************************************)
Suspects ==
    /\ suspects \subseteq lineage
    /\ \A s \in suspects : verdicts[s] # <<>>
    /\ phase \notin {"idle", "search"} =>
          \A s \in suspects : s \in todo \/ status[s] = "pending"
    /\ phase \in {"verdict", "update", "hold"} => current \notin suspects
    /\ phase = "done" => todo = {}

ContainmentInv ==
    /\ TypeOK /\ ContainmentTypeOK
    /\ Rows /\ Derived /\ AtGate
    /\ Lineage /\ Frontier /\ Suspects
    /\ StillAdmitted

(***************************************************************************)
(* The initial state.                                                      *)
(***************************************************************************)
LEMMA InitEstablishes == ContainmentInit => ContainmentInv
  <1> SUFFICES ASSUME ContainmentInit PROVE ContainmentInv
    OBVIOUS
  <1>1. TypeOK
    BY DEF ContainmentInit, Init, TypeOK, Status, Event
  <1>2. ContainmentTypeOK
    <2>1. derivedFrom \in [Belief -> SUBSET Belief] /\ queue \in Seq(Belief)
      BY DEF ContainmentInit
    <2>2. cascades \in 0..MaxCascades
      BY MaxCascadesAssumption DEF ContainmentInit
    <2>3. hadCycle \in BOOLEAN /\ phase \in Phase
      BY DEF ContainmentInit, Phase
    <2>4. QED
      BY <2>1, <2>2, <2>3 DEF ContainmentInit, ContainmentTypeOK
  <1>3. Written = {}
    BY DEF ContainmentInit, Init, Written
  <1>4. Rows /\ Derived
    BY <1>3 DEF ContainmentInit, Init, Rows, Derived
  <1>5. AtGate /\ Lineage /\ Suspects
    BY DEF ContainmentInit, AtGate, Lineage, Suspects
  <1>6. Range(queue) = {}
    BY DEF ContainmentInit, Range
  <1>7. Frontier
    BY <1>6 DEF ContainmentInit, Frontier, Reached
  <1>8. StillAdmitted
    BY DEF ContainmentInit, Init, StillAdmitted, TrustedCurrent
  <1>9. QED
    BY <1>1, <1>2, <1>4, <1>5, <1>7, <1>8 DEF ContainmentInv

(***************************************************************************)
(* The rows of a query, in whatever order, are a sequence of all of them.  *)
(***************************************************************************)
LEMMA RowsInAnyOrder ==
  ASSUME NEW S \in SUBSET Belief, NEW f \in SetToSeqs(S)
  PROVE  f \in Seq(Belief) /\ Range(f) = S
  <1> DEFINE n == Cardinality(S)
  <1>1. IsFiniteSet(S)
    BY BeliefAssumption, FS_Subset
  <1>2. n \in Nat
    BY <1>1, FS_CardinalityType
  <1>3. f \in [1..n -> S] /\ \A i, j \in 1..n : i # j => f[i] # f[j]
    BY DEF SetToSeqs
  <1>4. f \in Injection(1..n, S)
    BY <1>3 DEF Injection, IsInjective
  <1>5. Cardinality(1..n) = n
    BY <1>2, FS_Interval
  <1>6. f \in Surjection(1..n, S)
    BY <1>1, <1>4, <1>5, FS_Injection
  <1>7. Range(f) = S
    BY <1>3, <1>6 DEF Surjection, Range
  <1>8. f \in Seq(Belief)
    BY <1>2, <1>3
  <1>9. QED
    BY <1>7, <1>8

-----------------------------------------------------------------------------
(***************************************************************************)
(* What every step keeps: a written row stays, with its derivation, and    *)
(* verdicts and decisions are not taken back.                              *)
(***************************************************************************)
RowsStay ==
    /\ clock \in Nat /\ clock' \in Nat /\ clock <= clock'
    /\ \A b \in Written :
          b \in Written' /\ fact'[b] = fact[b] /\ derivedFrom'[b] = derivedFrom[b]

LEMMA UnchangedRowsStay ==
  ASSUME TypeOK, UNCHANGED <<clock, fact, derivedFrom>>,
         \A b \in Belief : status[b] # "absent" => status'[b] # "absent"
  PROVE  RowsStay
  BY DEF TypeOK, RowsStay, Written

(***************************************************************************)
(* Steps that leave the search alone keep the lineage and the frontier:    *)
(* what is written meanwhile is not in the lineage.                        *)
(***************************************************************************)
SamePart ==
    /\ phase' = "idle" <=> phase = "idle"
    /\ phase' = "search" <=> phase = "search"

LEMMA LineageStays ==
  ASSUME Lineage, ContainmentTypeOK, RowsStay, UNCHANGED <<root, lineage>>
  PROVE  Lineage'
  <1>1. lineage' \subseteq Written' /\ root' \notin lineage'
    BY DEF Lineage, RowsStay
  <1>2. \A d : Children(d)' \intersect lineage = Children(d) \intersect lineage
    BY DEF Lineage, RowsStay, Children
  <1>3. ASSUME NEW S \in SUBSET Belief, ClosedInLineage(S)'
        PROVE  lineage' \subseteq S
    <2>1. ClosedInLineage(S)
      BY <1>2, <1>3 DEF ClosedInLineage
    <2>2. QED
      BY <2>1 DEF Lineage
  <1>4. QED
    BY <1>1, <1>3 DEF Lineage

LEMMA FrontierStays ==
  ASSUME Lineage, Frontier, ContainmentTypeOK, RowsStay, SamePart,
         UNCHANGED <<root, lineage, queue, visited>>
  PROVE  Frontier'
  <1>1. Reached' = Reached
    BY DEF Reached
  <1>2. Reached \subseteq Written'
    BY DEF Frontier, RowsStay
  <1>3. \A d : Children(d)' \intersect lineage = Children(d) \intersect lineage
    BY DEF Lineage, RowsStay, Children
  <1>4. \A d \in Reached : derivedFrom'[d] = derivedFrom[d]
    BY DEF Frontier, RowsStay
  <1>5. QED
    BY <1>1, <1>2, <1>3, <1>4 DEF Frontier, SamePart

(***************************************************************************)
(* What admits a belief is not taken back: verdicts are only appended, and *)
(* a decision is only made on a held row.                                  *)
(***************************************************************************)
LEMMA AdmittedByAppend ==
  ASSUME TypeOK, NEW b \in Belief, NEW v \in Verdict, NEW d \in Belief,
         verdicts' = [verdicts EXCEPT ![b] = Append(@, v)]
  PROVE  /\ verdicts'[b] # <<>>
         /\ verdicts[d] # <<>> => verdicts'[d] # <<>>
         /\ v = "trusted" =>
              \E n \in 1..Len(verdicts'[b]) : verdicts'[b][n] = "trusted"
         /\ (\E n \in 1..Len(verdicts[d]) : verdicts[d][n] = "trusted") =>
              \E n \in 1..Len(verdicts'[d]) : verdicts'[d][n] = "trusted"
  <1>1. verdicts[b] \in Seq(Verdict) /\ verdicts[d] \in Seq(Verdict)
    BY DEF TypeOK
  <1>2. verdicts'[b] = Append(verdicts[b], v)
    BY DEF TypeOK
  <1>3. Len(verdicts'[b]) = Len(verdicts[b]) + 1 /\ Len(verdicts[b]) \in Nat
    BY <1>1, <1>2
  <1>4. verdicts'[b][Len(verdicts[b]) + 1] = v
    BY <1>1, <1>2
  <1>5. \A n \in 1..Len(verdicts[b]) : verdicts'[b][n] = verdicts[b][n]
    BY <1>1, <1>2
  <1>6. verdicts'[b] # <<>>
    BY <1>1, <1>2
  <1>7. d # b => verdicts'[d] = verdicts[d]
    BY DEF TypeOK
  <1>8. QED
    BY <1>3, <1>4, <1>5, <1>6, <1>7

LEMMA ReleasedByAppend ==
  ASSUME TypeOK, NEW b \in Belief, NEW q \in Disposition, NEW d \in Belief,
         quarantine' = [quarantine EXCEPT ![b] = Append(@, q)]
  PROVE  (\E n \in 1..Len(quarantine[d]) : quarantine[d][n] = "released") =>
            \E n \in 1..Len(quarantine'[d]) : quarantine'[d][n] = "released"
  <1>1. quarantine[b] \in Seq(Disposition)
    BY DEF TypeOK
  <1>2. quarantine'[b] = Append(quarantine[b], q)
    BY DEF TypeOK
  <1>3. Len(quarantine'[b]) = Len(quarantine[b]) + 1 /\ Len(quarantine[b]) \in Nat
    BY <1>1, <1>2
  <1>4. \A n \in 1..Len(quarantine[b]) : quarantine'[b][n] = quarantine[b][n]
    BY <1>1, <1>2
  <1>5. d # b => quarantine'[d] = quarantine[d]
    BY DEF TypeOK
  <1>6. QED
    BY <1>3, <1>4, <1>5

LEMMA ReleasedByDecision ==
  ASSUME TypeOK, NEW b \in Belief, NEW n \in 1..Len(quarantine[b]),
         quarantine[b][n] = "held", NEW q \in Disposition, NEW d \in Belief,
         quarantine' = [quarantine EXCEPT ![b][n] = q]
  PROVE  /\ quarantine'[b] # <<>>
         /\ q = "released" =>
              \E m \in 1..Len(quarantine'[b]) : quarantine'[b][m] = "released"
         /\ (\E m \in 1..Len(quarantine[d]) : quarantine[d][m] = "released") =>
              \E m \in 1..Len(quarantine'[d]) : quarantine'[d][m] = "released"
  <1>1. quarantine[b] \in Seq(Disposition)
    BY DEF TypeOK
  <1>2. quarantine'[b] = [quarantine[b] EXCEPT ![n] = q]
    BY DEF TypeOK
  <1>3. Len(quarantine'[b]) = Len(quarantine[b]) /\ quarantine'[b][n] = q
    BY <1>1, <1>2
  <1>4. \A m \in 1..Len(quarantine[b]) :
           m # n => quarantine'[b][m] = quarantine[b][m]
    BY <1>1, <1>2
  <1>5. d # b => quarantine'[d] = quarantine[d]
    BY DEF TypeOK
  <1>6. quarantine'[b] # <<>>
    BY <1>1, <1>3
  <1>7. QED
    BY <1>3, <1>4, <1>5, <1>6

-----------------------------------------------------------------------------
(***************************************************************************)
(* The descendants of a written belief: all written, the belief itself not *)
(* among them, and each reached from it within the set.                    *)
(***************************************************************************)
LEMMA DescendantsFacts ==
  ASSUME TypeOK, Rows, Derived, NEW r \in Written
  PROVE  /\ Descendants(r) \subseteq Written
         /\ r \notin Descendants(r)
         /\ \A S \in SUBSET Belief :
               /\ Children(r) \intersect Descendants(r) \subseteq S
               /\ \A d \in S : Children(d) \intersect Descendants(r) \subseteq S
               => Descendants(r) \subseteq S
  <1> DEFINE D == Descendants(r)
             Later == {b \in Written : fact[r].txFrom < fact[b].txFrom}
  <1>1. Written \in SUBSET Belief /\ r \in Belief
    BY DEF Written
  <1>2. \A b \in Written : fact[b].txFrom \in Nat
    BY <1>1 DEF Rows, Fact
  <1>3. D \subseteq Written
    <2>1. ClosedFrom(r, Written)
      BY DEF ClosedFrom, Children
    <2>2. QED
      BY <1>1, <2>1 DEF Descendants
  <1>4. r \notin D
    <2>1. Children(r) \subseteq Later
      BY <1>1 DEF Children, Derived
    <2>2. ASSUME NEW d \in Later, NEW c \in Children(d) PROVE c \in Later
      <3>1. c \in Written /\ d \in Written /\ fact[d].txFrom < fact[c].txFrom
        BY <1>1 DEF Children, Derived
      <3>2. fact[r].txFrom < fact[d].txFrom
        OBVIOUS
      <3>3. fact[r].txFrom < fact[c].txFrom
        BY <1>2, <3>1, <3>2
      <3>4. QED
        BY <3>1, <3>3
    <2>3. ClosedFrom(r, Later)
      BY <2>1, <2>2 DEF ClosedFrom
    <2>4. Later \in SUBSET Belief /\ r \notin Later
      BY <1>1, <1>2
    <2>5. QED
      BY <2>3, <2>4 DEF Descendants
  <1>5. Children(r) \subseteq D /\ \A d \in D : Children(d) \subseteq D
    BY DEF Descendants, ClosedFrom, Children, Written
  <1>6. ASSUME NEW S \in SUBSET Belief,
               Children(r) \intersect D \subseteq S,
               \A d \in S : Children(d) \intersect D \subseteq S
        PROVE  D \subseteq S
    <2>1. ClosedFrom(r, S \intersect D)
      BY <1>5, <1>6 DEF ClosedFrom
    <2>2. QED
      BY <2>1 DEF Descendants
  <1>7. QED
    BY <1>3, <1>4, <1>6

(***************************************************************************)
(* Steps that only touch the bookkeeping of the cascade.                   *)
(***************************************************************************)
LEMMA StoreUntouched ==
  ASSUME ContainmentInv, UNCHANGED <<vars, derivedFrom>>
  PROVE  TypeOK' /\ Rows' /\ Derived' /\ StillAdmitted'
  BY DEF ContainmentInv, vars, TypeOK, Rows, Derived, StillAdmitted, Written,
         TrustedCurrent, Admitted

LEMMA StartPreserves ==
  ASSUME ContainmentInv, NEW r \in Belief, Start(r)
  PROVE  ContainmentInv'
  <1> USE DEF ContainmentInv
  <1>0. TypeOK' /\ Rows' /\ Derived' /\ StillAdmitted'
    BY StoreUntouched DEF Start
  <1>1. r \in Written
    <2>1. quarantine[r] # <<>>
      BY DEF Start
    <2>2. QED
      BY <2>1 DEF Rows
  <1>2. /\ Written' = Written /\ derivedFrom' = derivedFrom
        /\ \A d : Children(d)' = Children(d)
        /\ status' = status /\ verdicts' = verdicts
    BY DEF Start, vars, Written, Children
  <1>3. /\ Descendants(r) \subseteq Written
        /\ r \notin Descendants(r)
        /\ \A S \in SUBSET Belief :
              /\ Children(r) \intersect Descendants(r) \subseteq S
              /\ \A d \in S : Children(d) \intersect Descendants(r) \subseteq S
              => Descendants(r) \subseteq S
    BY <1>1, DescendantsFacts
  <1>4. lineage' = Descendants(r) /\ root' = r
    BY DEF Start
  <1>5. Lineage'
    BY <1>2, <1>3, <1>4 DEF Lineage, ClosedInLineage
  <1>6. ContainmentTypeOK'
    <2>1. cascades' \in 0..MaxCascades
      BY MaxCascadesAssumption DEF Start, ContainmentTypeOK
    <2>2. queue' \in Seq(Belief)
      BY DEF Start
    <2>3. hadCycle' \in BOOLEAN
      BY DEF Start
    <2>4. suspects' \subseteq lineage' /\ lineage' \subseteq Belief
      BY <1>3 DEF Start, Written
    <2>5. QED
      BY <2>1, <2>2, <2>3, <2>4 DEF Start, ContainmentTypeOK, Phase
  <1>7. Range(queue') = {r} /\ visited' = {}
    BY DEF Start, Range
  <1>8. Frontier'
    BY <1>1, <1>2, <1>4, <1>7 DEF Start, Frontier, Reached
  <1>9. AtGate'
    BY DEF Start, AtGate
  <1>10. Suspects'
    BY <1>2, <1>4 DEF Start, Suspects, Rows, TrustedCurrent
  <1>11. QED
    BY <1>0, <1>5, <1>6, <1>8, <1>9, <1>10

(***************************************************************************)
(* One turn of the search: the frontier moves on.                          *)
(***************************************************************************)
LEMMA HeadAndTail ==
  ASSUME queue \in Seq(Belief), queue # <<>>
  PROVE  /\ Head(queue) \in Belief /\ Tail(queue) \in Seq(Belief)
         /\ Range(queue) = {Head(queue)} \union Range(Tail(queue))
  <1>1. Head(queue) \in Belief /\ Tail(queue) \in Seq(Belief)
    OBVIOUS
  <1>2. Range(queue) = {queue[i] : i \in 1..Len(queue)}
    BY DEF Range
  <1>3. Range(Tail(queue)) = {Tail(queue)[i] : i \in 1..Len(queue)-1}
    <2>1. DOMAIN Tail(queue) = 1..Len(queue)-1
      OBVIOUS
    <2>2. QED
      BY <2>1 DEF Range
  <1>4. \A i \in 1..Len(queue)-1 : Tail(queue)[i] = queue[i+1]
    OBVIOUS
  <1>5. Range(queue) \subseteq {Head(queue)} \union Range(Tail(queue))
    <2> SUFFICES ASSUME NEW i \in 1..Len(queue)
                 PROVE  queue[i] \in {Head(queue)} \union Range(Tail(queue))
      BY <1>2
    <2>1. CASE i = 1
      BY <2>1
    <2>2. CASE i # 1
      <3>1. i - 1 \in 1..Len(queue)-1 /\ Tail(queue)[i - 1] = queue[i]
        BY <2>2, <1>4
      <3>2. QED
        BY <1>3, <3>1
    <2>3. QED
      BY <2>1, <2>2
  <1>6. {Head(queue)} \union Range(Tail(queue)) \subseteq Range(queue)
    <2>1. 1 \in 1..Len(queue) /\ Head(queue) = queue[1]
      OBVIOUS
    <2>2. \A i \in 1..Len(queue)-1 : i + 1 \in 1..Len(queue)
      OBVIOUS
    <2>3. QED
      BY <1>2, <1>3, <1>4, <2>1, <2>2
  <1>7. QED
    BY <1>1, <1>5, <1>6

(***************************************************************************)
(* A queue and the rows appended to it hold the beliefs of both.           *)
(***************************************************************************)
LEMMA RangeOfBoth ==
  ASSUME NEW p \in Seq(Belief), NEW q \in Seq(Belief)
  PROVE  Range(p \o q) = Range(p) \union Range(q)
  BY RangeConcatenation

LEMMA RevisitPreserves == ContainmentInv /\ Revisit => ContainmentInv'
  <1> SUFFICES ASSUME ContainmentInv, Revisit PROVE ContainmentInv'
    OBVIOUS
  <1> USE DEF ContainmentInv
  <1>0. TypeOK' /\ Rows' /\ Derived' /\ StillAdmitted'
    BY StoreUntouched DEF Revisit
  <1>1. /\ Head(queue) \in visited
        /\ queue' = Tail(queue) /\ queue' \in Seq(Belief)
        /\ Range(queue) = {Head(queue)} \union Range(queue')
    BY HeadAndTail DEF Revisit, ContainmentTypeOK
  <1>2. /\ Written' = Written /\ derivedFrom' = derivedFrom
        /\ \A d : Children(d)' = Children(d)
        /\ status' = status /\ verdicts' = verdicts
    BY DEF Revisit, vars, Written, Children
  <1>3. ContainmentTypeOK'
    BY <1>1 DEF Revisit, rescreenVars, history, ContainmentTypeOK
  <1>4. Reached' = Reached
    BY <1>1 DEF Revisit, Reached
  <1>5. Lineage'
    BY <1>2 DEF Revisit, history, Lineage, ClosedInLineage
  <1>6. Frontier'
    BY <1>2, <1>4 DEF Revisit, history, Frontier
  <1>7. AtGate' /\ Suspects'
    BY <1>2 DEF Revisit, rescreenVars, history, AtGate, Suspects
  <1>8. QED
    BY <1>0, <1>3, <1>5, <1>6, <1>7

LEMMA VisitPreserves == ContainmentInv /\ Visit => ContainmentInv'
  <1> SUFFICES ASSUME ContainmentInv, Visit PROVE ContainmentInv'
    OBVIOUS
  <1> USE DEF ContainmentInv
  <1> DEFINE h == Head(queue)
  <1>0. TypeOK' /\ Rows' /\ Derived' /\ StillAdmitted'
    BY StoreUntouched DEF Visit
  <1>1. /\ h \in Belief /\ Tail(queue) \in Seq(Belief)
        /\ Range(queue) = {h} \union Range(Tail(queue))
    BY HeadAndTail DEF Visit, ContainmentTypeOK
  <1>2. PICK children \in SetToSeqs(Children(h) \ visited') :
           queue' = Tail(queue) \o children
    BY DEF Visit
  <1>3. children \in Seq(Belief) /\ Range(children) = Children(h) \ visited'
    BY RowsInAnyOrder DEF Children, Written
  <1>4. /\ queue' \in Seq(Belief)
        /\ Range(queue') = Range(Tail(queue)) \union (Children(h) \ visited')
    <2>1. Range(Tail(queue) \o children)
             = Range(Tail(queue)) \union Range(children)
      BY <1>1, <1>3, RangeOfBoth
    <2>2. QED
      BY <1>1, <1>2, <1>3, <2>1
  <1>5. visited' = visited \union {h}
    BY DEF Visit
  <1>6. Reached' = Reached \union Children(h)
    BY <1>1, <1>4, <1>5 DEF Reached
  <1>7. /\ Written' = Written /\ derivedFrom' = derivedFrom
        /\ \A d : Children(d)' = Children(d)
        /\ status' = status /\ verdicts' = verdicts
    BY DEF Visit, vars, Written, Children
  <1>8. ContainmentTypeOK'
    <2>1. hadCycle' \in BOOLEAN
      BY DEF Visit, ContainmentTypeOK
    <2>2. QED
      BY <1>1, <1>4, <1>5, <2>1
         DEF Visit, rescreenVars, history, ContainmentTypeOK
  <1>9. Lineage'
    BY <1>7 DEF Visit, history, Lineage, ClosedInLineage
  <1>10. Frontier'
    <2>1. Reached' \subseteq Written'
      BY <1>6, <1>7 DEF Frontier, Children
    <2>2. \A v \in visited' : Children(v)' \intersect lineage' \subseteq Reached'
      BY <1>5, <1>6, <1>7 DEF Frontier, Visit, history
    <2>3. \A d \in Reached' \ {root'} : derivedFrom'[d] \intersect visited' # {}
      BY <1>5, <1>6, <1>7 DEF Frontier, Visit, Children
    <2>4. QED
      BY <1>6, <2>1, <2>2, <2>3 DEF Frontier, Visit
  <1>11. AtGate' /\ Suspects'
    BY <1>7 DEF Visit, rescreenVars, history, AtGate, Suspects
  <1>12. QED
    BY <1>0, <1>8, <1>9, <1>10, <1>11

(***************************************************************************)
(* The search is complete: an empty queue means that all of the lineage    *)
(* has been expanded, and the root is not part of it.                      *)
(***************************************************************************)
LEMMA LineageVisited ==
  ASSUME ContainmentTypeOK, Lineage, Frontier, phase # "idle", queue = <<>>
  PROVE  lineage \subseteq visited \ {root}
  <1>1. Reached = visited
    BY DEF Reached, Range
  <1>2. ClosedInLineage(visited)
    BY <1>1 DEF ClosedInLineage, Frontier
  <1>3. QED
    BY <1>2 DEF ContainmentTypeOK, Lineage

LEMMA SearchEndsPreserves == ContainmentInv /\ SearchEnds => ContainmentInv'
  <1> SUFFICES ASSUME ContainmentInv, SearchEnds PROVE ContainmentInv'
    OBVIOUS
  <1> USE DEF ContainmentInv
  <1>0. TypeOK' /\ Rows' /\ Derived' /\ StillAdmitted'
    BY StoreUntouched DEF SearchEnds
  <1>1. lineage \subseteq visited \ {root}
    BY LineageVisited DEF SearchEnds
  <1>2. /\ Written' = Written /\ derivedFrom' = derivedFrom
        /\ \A d : Children(d)' = Children(d)
        /\ status' = status /\ verdicts' = verdicts
    BY DEF SearchEnds, vars, Written, Children
  <1>3. ContainmentTypeOK'
    BY DEF SearchEnds, searchVars, history, ContainmentTypeOK, Phase
  <1>4. Lineage'
    BY <1>2 DEF SearchEnds, searchVars, history, Lineage, ClosedInLineage
  <1>5. Frontier'
    BY <1>2 DEF SearchEnds, searchVars, history, Frontier, Reached
  <1>6. AtGate' /\ Suspects'
    BY <1>1, <1>2 DEF SearchEnds, history, AtGate, Suspects
  <1>7. QED
    BY <1>0, <1>3, <1>4, <1>5, <1>6

-----------------------------------------------------------------------------
(***************************************************************************)
(* The parts that are about the graph survive every step that leaves the   *)
(* search alone and only adds rows.                                        *)
(***************************************************************************)
LEMMA SearchStays ==
  ASSUME ContainmentInv, RowsStay, SamePart, UNCHANGED <<searchVars, lineage>>
  PROVE  Lineage' /\ Frontier'
  BY LineageStays, FrontierStays DEF ContainmentInv, searchVars

LEMMA SameRowsStay ==
  ASSUME ContainmentInv, UNCHANGED <<clock, fact, derivedFrom>>,
         \A b \in Belief : status[b] # "absent" => status'[b] # "absent"
  PROVE  RowsStay
  BY UnchangedRowsStay DEF ContainmentInv

LEMMA FinishPreserves ==
  ASSUME ContainmentInv, phase = "reset", phase' \in {"done", "aborted"},
         phase' = "done" => todo = {},
         UNCHANGED <<vars, derivedFrom, searchVars, rescreenVars, history>>
  PROVE  ContainmentInv'
  <1> USE DEF ContainmentInv
  <1>1. TypeOK' /\ Rows' /\ Derived' /\ StillAdmitted'
    BY StoreUntouched
  <1>2. RowsStay
    BY SameRowsStay DEF vars
  <1>3. Lineage' /\ Frontier'
    BY <1>2, SearchStays DEF SamePart, history
  <1>4. ContainmentTypeOK'
    BY DEF searchVars, rescreenVars, history, ContainmentTypeOK, Phase
  <1>5. AtGate' /\ Suspects'
    BY DEF vars, rescreenVars, history, AtGate, Suspects
  <1>6. QED
    BY <1>1, <1>3, <1>4, <1>5

(***************************************************************************)
(* Taking one belief back, or giving it a new status, where no row is      *)
(* added or removed.                                                       *)
(***************************************************************************)
LEMMA DerivedStays ==
  ASSUME ContainmentInv, UNCHANGED <<fact, derivedFrom>>, Written' = Written
  PROVE  Derived'
  BY DEF ContainmentInv, Derived

LEMMA ResetPreserves ==
  ASSUME ContainmentInv, NEW d \in Belief, Reset(d)
  PROVE  ContainmentInv'
  <1> USE DEF ContainmentInv
  <1>1. CASE supersededBy[d] # NoBelief
    BY <1>1, FinishPreserves DEF Reset
  <1>2. CASE supersededBy[d] = NoBelief
    <2>1. d \in Written
      BY DEF Reset, ContainmentTypeOK, Frontier, Reached
    <2>2. /\ status' \in [Belief -> Status]
          /\ scored' \in [Belief -> BOOLEAN] /\ screened' \in [Belief -> BOOLEAN]
      BY <1>2 DEF Reset, TypeOK, Status
    <2>3. /\ status'[d] = "pending"
          /\ \A b \in Belief \ {d} : status'[b] = status[b]
      BY <1>2 DEF Reset, TypeOK
    <2>4. UNCHANGED <<clock, fact, txTo, supersededBy, verdicts, quarantine,
                      contradictions, derivedFrom>>
      BY <1>2 DEF Reset
    <2>5. Written' = Written
      BY <2>1, <2>3 DEF Written
    <2>6. TypeOK'
      BY <2>2, <2>4 DEF TypeOK
    <2>7. Rows'
      BY <2>3, <2>4, <2>5 DEF Rows
    <2>8. Derived'
      BY <2>4, <2>5, DerivedStays
    <2>9. StillAdmitted'
      BY <2>3, <2>4 DEF StillAdmitted, TrustedCurrent, Admitted
    <2>10. RowsStay
      BY <2>3, <2>4, SameRowsStay
    <2>11. Lineage' /\ Frontier'
      BY <1>2, <2>10, SearchStays DEF Reset, SamePart, history
    <2>12. ContainmentTypeOK'
      BY <1>2 DEF Reset, searchVars, history, ContainmentTypeOK, Phase
    <2>13. AtGate'
      BY <1>2, <2>1, <2>5 DEF Reset, AtGate
    <2>14. Suspects'
      BY <1>2, <2>3, <2>4 DEF Reset, history, Suspects, ContainmentTypeOK
    <2>15. QED
      BY <2>6, <2>7, <2>8, <2>9, <2>11, <2>12, <2>13, <2>14
  <1>3. QED
    BY <1>1, <1>2

-----------------------------------------------------------------------------
(***************************************************************************)
(* The statements of the gate.                                             *)
(***************************************************************************)
GatePhase == {"lookup", "verdict", "update", "hold"}

LEMMA GateFrame ==
  ASSUME ContainmentInv, NEW from \in GatePhase,
         NEW to \in SUBSET (GatePhase \union {"reset"}), Gate(from, to), RowsStay
  PROVE  /\ ContainmentTypeOK' /\ Lineage' /\ Frontier'
         /\ current \in Belief /\ current \in Written
  <1> USE DEF ContainmentInv, GatePhase
  <1>1. phase' \in GatePhase \union {"reset"} /\ phase = from
    BY DEF Gate
  <1>2. ContainmentTypeOK'
    BY <1>1 DEF Gate, searchVars, history, ContainmentTypeOK, Phase
  <1>3. SamePart
    BY <1>1 DEF SamePart
  <1>4. Lineage' /\ Frontier'
    BY <1>3, SearchStays DEF Gate, history
  <1>5. current \in Belief /\ current \in Written
    BY <1>1 DEF AtGate, Written
  <1>6. QED
    BY <1>2, <1>4, <1>5

LEMMA LookupPreserves == ContainmentInv /\ Lookup => ContainmentInv'
  <1> SUFFICES ASSUME ContainmentInv, Lookup PROVE ContainmentInv'
    OBVIOUS
  <1> USE DEF ContainmentInv
  <1>1. TypeOK' /\ Rows' /\ Derived' /\ StillAdmitted'
    BY StoreUntouched DEF Lookup, Gate
  <1>2. RowsStay
    BY SameRowsStay DEF Lookup, Gate, vars
  <1>3. ContainmentTypeOK' /\ Lineage' /\ Frontier'
    BY <1>2, GateFrame DEF Lookup, GatePhase
  <1>4. AtGate'
    BY DEF Lookup, Gate, AtGate, vars, Written
  <1>5. Suspects'
    BY DEF Lookup, Gate, Suspects, vars, history
  <1>6. QED
    BY <1>1, <1>3, <1>4, <1>5

LEMMA GateFailsPreserves == ContainmentInv /\ GateFails => ContainmentInv'
  <1> SUFFICES ASSUME ContainmentInv, GateFails PROVE ContainmentInv'
    OBVIOUS
  <1> USE DEF ContainmentInv
  <1>1. PICK from \in {"lookup", "verdict", "update", "hold"} :
           Gate(from, {"reset"})
    BY DEF GateFails
  <1>2. TypeOK' /\ Rows' /\ Derived' /\ StillAdmitted'
    BY <1>1, StoreUntouched DEF GateFails, Gate
  <1>3. RowsStay
    BY <1>1, SameRowsStay DEF GateFails, Gate, vars
  <1>4. ContainmentTypeOK' /\ Lineage' /\ Frontier'
    BY <1>1, <1>3, GateFrame DEF GatePhase
  <1>5. AtGate' /\ Suspects'
    BY <1>1 DEF GateFails, Gate, AtGate, Suspects, vars, history
  <1>6. QED
    BY <1>2, <1>4, <1>5

LEMMA InsertVerdictPreserves ==
  ASSUME ContainmentInv, NEW v \in Verdict, InsertVerdict(v)
  PROVE  ContainmentInv'
  <1> USE DEF ContainmentInv
  <1>1. UNCHANGED <<clock, status, fact, txTo, supersededBy, scored, screened,
                    quarantine, contradictions, derivedFrom>>
    BY DEF InsertVerdict, Gate
  <1>2. RowsStay
    BY <1>1, SameRowsStay
  <1>3. /\ ContainmentTypeOK' /\ Lineage' /\ Frontier'
        /\ current \in Belief /\ current \in Written
    BY <1>2, GateFrame DEF InsertVerdict, GatePhase
  <1>4. verdicts' = [verdicts EXCEPT ![current] = Append(@, v)]
    BY DEF InsertVerdict
  <1>5. verdicts' \in [Belief -> Seq(Verdict)]
    BY <1>3, <1>4 DEF TypeOK
  <1>6. TypeOK'
    BY <1>1, <1>5 DEF TypeOK
  <1>7. verdicts'[current] # <<>>
    BY <1>3, <1>4, AdmittedByAppend
  <1>8. \A d \in Belief :
           /\ d # current => verdicts'[d] = verdicts[d]
           /\ verdicts[d] # <<>> => verdicts'[d] # <<>>
    BY <1>3, <1>4, AdmittedByAppend DEF TypeOK
  <1>9. Written' = Written
    BY <1>1 DEF Written
  <1>10. Rows'
    BY <1>1, <1>3, <1>8, <1>9 DEF Rows
  <1>11. Derived'
    BY <1>1, <1>9, DerivedStays
  <1>12. \A d \in Belief : Admitted(d) => Admitted(d)'
    BY <1>1, <1>3, <1>4, AdmittedByAppend DEF Admitted
  <1>13. StillAdmitted'
    BY <1>1, <1>12 DEF StillAdmitted, TrustedCurrent
  <1>14. AtGate'
    BY <1>3, <1>7, <1>9 DEF InsertVerdict, Gate, AtGate
  <1>15. Suspects'
    BY <1>1, <1>8 DEF InsertVerdict, Gate, Suspects, history, ContainmentTypeOK
  <1>16. QED
    BY <1>3, <1>6, <1>10, <1>11, <1>13, <1>14, <1>15

LEMMA UpdateBeliefPreserves == ContainmentInv /\ UpdateBelief => ContainmentInv'
  <1> SUFFICES ASSUME ContainmentInv, UpdateBelief PROVE ContainmentInv'
    OBVIOUS
  <1> USE DEF ContainmentInv
  <1>1. UNCHANGED <<clock, fact, txTo, supersededBy, verdicts, quarantine,
                    contradictions, derivedFrom>>
    BY DEF UpdateBelief, Gate
  <1>2. current \in Belief /\ current \in Written /\ verdicts[current] # <<>>
    BY DEF UpdateBelief, Gate, AtGate, Written
  <1>3. Latest \in Verdict
    <2>1. verdicts[current] \in Seq(Verdict)
      BY <1>2 DEF TypeOK
    <2>2. Len(verdicts[current]) \in 1..Len(verdicts[current])
      BY <1>2, <2>1
    <2>3. QED
      BY <2>1, <2>2 DEF Latest
  <1>4. /\ status' \in [Belief -> Status]
        /\ scored' \in [Belief -> BOOLEAN] /\ screened' \in [Belief -> BOOLEAN]
    BY <1>3 DEF UpdateBelief, TypeOK, Status, ScreenedStatus, Verdict
  <1>5. /\ \A b \in Belief \ {current} : status'[b] = status[b]
        /\ \/ status'[current] = status[current]
           \/ /\ status'[current] = ScreenedStatus(Latest)
              /\ status'[current] # "absent"
    BY <1>2, <1>3 DEF UpdateBelief, TypeOK, ScreenedStatus, Verdict
  <1>6. RowsStay
    BY <1>1, <1>5, SameRowsStay
  <1>7. ContainmentTypeOK' /\ Lineage' /\ Frontier'
    BY <1>6, GateFrame DEF UpdateBelief, GatePhase
  <1>8. Written' = Written
    BY <1>2, <1>5 DEF Written
  <1>9. TypeOK'
    BY <1>1, <1>4 DEF TypeOK
  <1>10. Rows'
    BY <1>1, <1>2, <1>5, <1>8 DEF Rows
  <1>11. Derived'
    BY <1>1, <1>8, DerivedStays
  <1>12. ASSUME NEW b \in TrustedCurrent' PROVE Admitted(b)'
    <2>1. CASE b \in TrustedCurrent
      BY <1>1, <2>1 DEF StillAdmitted, Admitted
    <2>2. CASE b \notin TrustedCurrent
      <3>1. b = current /\ Latest = "trusted"
        BY <1>1, <1>3, <1>5, <2>2 DEF TrustedCurrent, ScreenedStatus, Verdict
      <3>2. Len(verdicts[b]) \in 1..Len(verdicts[b])
        BY <1>2, <3>1 DEF TypeOK
      <3>3. QED
        BY <1>1, <3>1, <3>2 DEF Admitted, Latest
    <2>3. QED
      BY <2>1, <2>2
  <1>13. StillAdmitted'
    BY <1>12 DEF StillAdmitted
  <1>14. AtGate'
    BY <1>1, <1>2, <1>8 DEF UpdateBelief, Gate, AtGate
  <1>15. current \notin suspects
    BY DEF UpdateBelief, Gate, Suspects
  <1>16. Suspects'
    BY <1>1, <1>5, <1>15
       DEF UpdateBelief, Gate, Suspects, history, ContainmentTypeOK
  <1>17. QED
    BY <1>7, <1>9, <1>10, <1>11, <1>13, <1>14, <1>16

LEMMA InsertQuarantinePreserves ==
  ContainmentInv /\ InsertQuarantine => ContainmentInv'
  <1> SUFFICES ASSUME ContainmentInv, InsertQuarantine PROVE ContainmentInv'
    OBVIOUS
  <1> USE DEF ContainmentInv
  <1>1. UNCHANGED <<clock, status, fact, txTo, supersededBy, scored, screened,
                    verdicts, contradictions, derivedFrom>>
    BY DEF InsertQuarantine, Gate
  <1>2. RowsStay
    BY <1>1, SameRowsStay
  <1>3. /\ ContainmentTypeOK' /\ Lineage' /\ Frontier'
        /\ current \in Belief /\ current \in Written
    BY <1>2, GateFrame DEF InsertQuarantine, GatePhase
  <1>4. quarantine' = [quarantine EXCEPT ![current] = Append(@, "held")]
    BY DEF InsertQuarantine
  <1>5. quarantine' \in [Belief -> Seq(Disposition)]
    BY <1>3, <1>4 DEF TypeOK, Disposition
  <1>6. TypeOK'
    BY <1>1, <1>5 DEF TypeOK
  <1>7. Written' = Written
    BY <1>1 DEF Written
  <1>8. \A b \in Belief \ {current} : quarantine'[b] = quarantine[b]
    BY <1>4 DEF TypeOK
  <1>9. Rows'
    BY <1>1, <1>3, <1>7, <1>8 DEF Rows
  <1>10. Derived'
    BY <1>1, <1>7, DerivedStays
  <1>11. \A d \in Belief : Admitted(d) => Admitted(d)'
    BY <1>1, <1>3, <1>4, ReleasedByAppend DEF Admitted, Disposition
  <1>12. StillAdmitted'
    BY <1>1, <1>11 DEF StillAdmitted, TrustedCurrent
  <1>13. AtGate' /\ Suspects'
    BY <1>1 DEF InsertQuarantine, Gate, AtGate, Suspects, history
  <1>14. QED
    BY <1>3, <1>6, <1>9, <1>10, <1>12, <1>13

-----------------------------------------------------------------------------
(***************************************************************************)
(* A write, whatever the resolution: one row more, derived from written    *)
(* ones; another one may become superseded; nothing becomes trusted.       *)
(***************************************************************************)
WriteEffect(b) ==
    /\ status[b] = "absent" /\ status'[b] = "pending"
    /\ \A d \in Belief \ {b} :
          \/ status'[d] = status[d] /\ txTo'[d] = txTo[d]
          \/ status[d] = "trusted" /\ status'[d] = "superseded"
    /\ clock' = clock + 1
    /\ fact'[b] \in Fact /\ fact'[b].txFrom = clock + 1
    /\ \A d \in Belief \ {b} : fact'[d] = fact[d]
    /\ UNCHANGED <<scored, screened, verdicts, quarantine>>
    /\ TypeOK'

LEMMA ResolveEffect ==
  ASSUME ContainmentInv, NEW b \in Belief, NEW k \in Key, NEW c \in Claim,
         NEW override \in BOOLEAN, Resolve(b, k, c, override)
  PROVE  WriteEffect(b)
  <1> USE DEF ContainmentInv
  <1>1. WriteBelief(b, k, c)
    BY DEF Resolve, ResolveUncontested, Uncontested, ResolveContradiction,
           Contradict
  <1>2. /\ status[b] = "absent" /\ clock' = clock + 1 /\ clock \in Nat
        /\ UNCHANGED <<scored, screened, verdicts, quarantine>>
    BY <1>1 DEF WriteBelief, TypeOK
  <1>3. [key |-> k, claim |-> c, txFrom |-> clock + 1] \in Fact
    BY <1>2 DEF Fact
  <1>4. /\ fact'[b] \in Fact /\ fact'[b].txFrom = clock + 1
        /\ \A d \in Belief \ {b} : fact'[d] = fact[d]
        /\ fact' \in [Belief -> Fact \union {NoFact}]
    BY <1>1, <1>3 DEF WriteBelief, TypeOK
  <1>5. /\ status'[b] = "pending"
        /\ \A d \in Belief \ {b} :
              \/ status'[d] = status[d] /\ txTo'[d] = txTo[d]
              \/ status[d] = "trusted" /\ status'[d] = "superseded"
        /\ status' \in [Belief -> Status] /\ txTo' \in [Belief -> Nat]
        /\ supersededBy' \in [Belief -> Belief \union {NoBelief}]
        /\ contradictions' \subseteq Event
    <2>1. CASE ResolveUncontested(b, k, c)
      BY <2>1 DEF ResolveUncontested, Uncontested, TypeOK, Status
    <2>2. CASE ResolveContradiction(b, k, c, override)
      <3>1. PICK i \in Belief :
               Incumbent(k, i) /\ Contradict(b, k, c, override, i)
        BY <2>2 DEF ResolveContradiction
      <3>2. status[i] = "trusted" /\ i # b /\ i \in Written
        BY <1>2, <3>1
           DEF Incumbent, MostRecent, Incumbents, TrustedCurrent, Written
      <3> DEFINE o == ResolvePrecedence(c, fact[i].claim, override)
                 e == [incumbent |-> i, challenger |-> b,
                       resolution |-> o.resolution, basis |-> o.basis]
      <3>3. e \in Event
        BY DEF Event, ResolvePrecedence, Outcome
      <3>4. contradictions' \subseteq Event
        BY <3>1, <3>3 DEF Contradict, TypeOK
      <3>5. CASE o.resolution = "challenger_supersedes"
        <4>1. /\ status' = [status EXCEPT ![b] = "pending", ![i] = "superseded"]
              /\ supersededBy' = [supersededBy EXCEPT ![i] = b]
              /\ txTo' = [txTo EXCEPT ![i] = clock + 1]
          BY <3>1, <3>5 DEF Contradict
        <4>2. QED
          <5>1. /\ status'[b] = "pending" /\ status'[i] = "superseded"
                /\ \A d \in Belief \ {b, i} :
                      status'[d] = status[d] /\ txTo'[d] = txTo[d]
            BY <3>2, <4>1 DEF TypeOK
          <5>2. status' \in [Belief -> Status]
            BY <4>1 DEF TypeOK, Status
          <5>3. txTo' \in [Belief -> Nat]
            BY <1>2, <4>1 DEF TypeOK
          <5>4. supersededBy' \in [Belief -> Belief \union {NoBelief}]
            BY <4>1 DEF TypeOK
          <5>5. QED
            BY <3>2, <3>4, <5>1, <5>2, <5>3, <5>4
      <3>6. CASE o.resolution # "challenger_supersedes"
        <4>1. /\ status' = [status EXCEPT ![b] = "pending"]
              /\ UNCHANGED <<supersededBy, txTo>>
          BY <3>1, <3>6 DEF Contradict
        <4>2. /\ status'[b] = "pending"
              /\ \A d \in Belief \ {b} : status'[d] = status[d]
              /\ status' \in [Belief -> Status]
          BY <4>1 DEF TypeOK, Status
        <4>3. QED
          BY <3>4, <4>1, <4>2 DEF TypeOK
      <3>7. QED
        BY <3>5, <3>6
    <2>3. QED
      BY <2>1, <2>2 DEF Resolve
  <1>6. TypeOK'
    BY <1>2, <1>4, <1>5 DEF TypeOK
  <1>7. QED
    BY <1>2, <1>4, <1>5, <1>6 DEF WriteEffect

LEMMA WritePreserves ==
  ASSUME ContainmentInv, NEW b \in Belief, Write(b), UNCHANGED cascadeVars
  PROVE  ContainmentInv'
  <1> USE DEF ContainmentInv
  <1>1. WriteEffect(b)
    <2>1. CASE Ingest(b)
      BY <2>1, ResolveEffect DEF Ingest
    <2>2. CASE Correct(b)
      BY <2>2, ResolveEffect DEF Correct
    <2>3. QED
      BY <2>1, <2>2 DEF Write
  <1>2. /\ b \notin Written /\ Written' = Written \union {b}
        /\ Written \subseteq Belief
    BY <1>1 DEF WriteEffect, Written
  <1>3. PICK parents \in SUBSET Written :
           derivedFrom' = [derivedFrom EXCEPT ![b] = parents]
    <2>1. CASE UNCHANGED derivedFrom
      <3>1. derivedFrom[b] = {}
        BY <1>2 DEF Derived
      <3>2. derivedFrom' = [derivedFrom EXCEPT ![b] = {}]
        BY <2>1, <3>1 DEF ContainmentTypeOK
      <3>3. {} \in SUBSET Written
        OBVIOUS
      <3>4. QED
        BY <3>2, <3>3
    <2>2. CASE ~UNCHANGED derivedFrom
      BY <2>2 DEF Write
    <2>3. QED
      BY <2>1, <2>2
  <1>4. /\ derivedFrom'[b] = parents
        /\ \A d \in Belief \ {b} : derivedFrom'[d] = derivedFrom[d]
        /\ derivedFrom' \in [Belief -> SUBSET Belief]
    BY <1>2, <1>3 DEF ContainmentTypeOK
  <1>5. RowsStay
    BY <1>1, <1>2, <1>4 DEF RowsStay, WriteEffect, TypeOK
  <1>6. Lineage' /\ Frontier'
    BY <1>5, SearchStays DEF SamePart, cascadeVars, history
  <1>7. ContainmentTypeOK'
    BY <1>4
       DEF ContainmentTypeOK, cascadeVars, searchVars, rescreenVars, history
  <1>8. Rows'
    <2> SUFFICES ASSUME NEW d \in Belief
                 PROVE  /\ d \in Written' =>
                             fact'[d] \in Fact /\ fact'[d].txFrom <= clock'
                        /\ d \notin Written' =>
                             verdicts'[d] = <<>> /\ quarantine'[d] = <<>>
                        /\ status'[d] \notin {"absent", "pending"} =>
                             verdicts'[d] # <<>>
      BY DEF Rows
    <2>1. clock \in Nat
      BY DEF TypeOK
    <2>2. CASE d = b
      BY <1>1, <1>2, <2>1, <2>2 DEF WriteEffect
    <2>3. CASE d # b
      <3>1. d \in Written => fact[d].txFrom \in Nat /\ fact[d].txFrom <= clock
        BY DEF Rows, Fact
      <3>2. d \in Written' =>
               fact'[d] \in Fact /\ fact'[d].txFrom <= clock'
        BY <1>1, <1>2, <2>1, <2>3, <3>1 DEF WriteEffect, Rows
      <3>3. QED
        BY <1>1, <1>2, <2>3, <3>2 DEF WriteEffect, Rows
    <2>4. QED
      BY <2>2, <2>3
  <1>9. Derived'
    <2> SUFFICES ASSUME NEW c \in Belief
                 PROVE  /\ c \notin Written' => derivedFrom'[c] = {}
                        /\ \A d \in derivedFrom'[c] :
                              d \in Written' /\ fact'[d].txFrom < fact'[c].txFrom
      BY DEF Derived
    <2>1. CASE c = b
      <3>1. \A d \in parents : /\ d \in Written /\ d # b
                               /\ fact[d].txFrom \in Nat
                               /\ fact[d].txFrom <= clock
        BY <1>2 DEF Rows, Fact
      <3>2. QED
        BY <1>1, <1>2, <1>4, <2>1, <3>1 DEF WriteEffect, TypeOK
    <2>2. CASE c # b
      <3>1. \A d \in derivedFrom[c] : d \in Written /\ d # b
        BY <1>2 DEF Derived
      <3>2. QED
        BY <1>1, <1>2, <1>4, <2>2, <3>1 DEF WriteEffect, Derived
    <2>3. QED
      BY <2>1, <2>2
  <1>10. StillAdmitted'
    <2>1. TrustedCurrent' \subseteq TrustedCurrent
      BY <1>1 DEF WriteEffect, TrustedCurrent
    <2>2. QED
      BY <1>1, <2>1 DEF WriteEffect, StillAdmitted, Admitted
  <1>11. AtGate'
    BY <1>1, <1>2 DEF WriteEffect, AtGate, cascadeVars, rescreenVars
  <1>12. Suspects'
    <2>1. \A s \in suspects : s \in Belief /\ s # b
      BY <1>2 DEF Suspects, Lineage
    <2>2. QED
      BY <1>1, <2>1
         DEF WriteEffect, Suspects, cascadeVars, rescreenVars, history
  <1>13. QED
    BY <1>1, <1>6, <1>7, <1>8, <1>9, <1>10, <1>11, <1>12 DEF WriteEffect

-----------------------------------------------------------------------------
(***************************************************************************)
(* The poller and the reviewers: they change one belief, and not one that  *)
(* is a suspect and pending.                                               *)
(***************************************************************************)
DecisionEffect(b) ==
    /\ TypeOK'
    /\ UNCHANGED <<clock, fact, txTo, derivedFrom>>
    /\ \A d \in Belief \ {b} : status'[d] = status[d]
    /\ status[b] = "absent" <=> status'[b] = "absent"
    /\ status[b] # "absent"
    /\ verdicts[b] # <<>> /\ status[b] = "pending" => status'[b] = "pending"
    /\ status'[b] \notin {"absent", "pending"} => verdicts'[b] # <<>>
    /\ status'[b] = "trusted" /\ status[b] # "trusted" => Admitted(b)'
    /\ \A d \in Belief :
          /\ verdicts[d] # <<>> => verdicts'[d] # <<>>
          /\ d # b => verdicts'[d] = verdicts[d] /\ quarantine'[d] = quarantine[d]
          /\ Admitted(d) => Admitted(d)'

LEMMA ScreenEffect ==
  ASSUME ContainmentInv, NEW b \in Belief, NEW v \in Verdict, Screen(b, v),
         UNCHANGED derivedFrom
  PROVE  DecisionEffect(b)
  <1> USE DEF ContainmentInv
  <1>1. verdicts' = [verdicts EXCEPT ![b] = Append(@, v)]
    BY DEF Screen
  <1>2. \/ quarantine' = [quarantine EXCEPT ![b] = Append(@, "held")]
        \/ quarantine' = quarantine
    BY DEF Screen
  <1>3. /\ status' \in [Belief -> Status]
        /\ scored' \in [Belief -> BOOLEAN] /\ screened' \in [Belief -> BOOLEAN]
    BY DEF Screen, TypeOK, Status, ScreenedStatus, Verdict
  <1>4. verdicts' \in [Belief -> Seq(Verdict)]
    BY <1>1 DEF TypeOK
  <1>5. quarantine' \in [Belief -> Seq(Disposition)]
    <2>1. "held" \in Disposition /\ quarantine[b] \in Seq(Disposition)
      BY DEF TypeOK, Disposition
    <2>2. Append(quarantine[b], "held") \in Seq(Disposition)
      BY <2>1
    <2>3. QED
      BY <1>2, <2>2 DEF TypeOK
  <1>6. TypeOK'
    BY <1>3, <1>4, <1>5 DEF Screen, TypeOK
  <1>7. \A d \in Belief : Admitted(d) => Admitted(d)'
    BY <1>1, <1>2, AdmittedByAppend, ReleasedByAppend DEF Admitted, Disposition
  <1>8. /\ verdicts'[b] # <<>>
        /\ \A d \in Belief : verdicts[d] # <<>> => verdicts'[d] # <<>>
        /\ v = "trusted" => Admitted(b)'
    BY <1>1, AdmittedByAppend DEF Admitted
  <1>9. \A d \in Belief \ {b} :
           /\ status'[d] = status[d] /\ verdicts'[d] = verdicts[d]
           /\ quarantine'[d] = quarantine[d]
    BY <1>1, <1>2 DEF Screen, TypeOK
  <1>10. /\ status[b] # "absent" /\ verdicts[b] = <<>>
         /\ status'[b] = status[b] \/ status'[b] = ScreenedStatus(v)
    BY DEF Screen, TypeOK
  <1>11. /\ status'[b] # "absent"
         /\ status'[b] = "trusted" /\ status[b] # "trusted" => v = "trusted"
    BY <1>10 DEF ScreenedStatus, Verdict
  <1>12. QED
    BY <1>6, <1>7, <1>8, <1>9, <1>10, <1>11 DEF Screen, DecisionEffect

LEMMA ReviewEffect ==
  ASSUME ContainmentInv, NEW b \in Belief, Review(b), UNCHANGED derivedFrom
  PROVE  DecisionEffect(b)
  <1> USE DEF ContainmentInv
  <1>1. PICK n \in 1..Len(quarantine[b]) : Release(b, n) \/ Reject(b, n)
    BY DEF Review
  <1>2. quarantine[b][n] = "held"
    BY <1>1 DEF Release, Reject
  <1>3. PICK q \in {"released", "rejected"} :
           /\ quarantine' = [quarantine EXCEPT ![b][n] = q]
           /\ Release(b, n) => q = "released"
           /\ UNCHANGED <<clock, fact, txTo, supersededBy, scored, verdicts,
                          contradictions>>
    <2>1. CASE Release(b, n)
      BY <2>1 DEF Release, Dispose
    <2>2. CASE ~Release(b, n) /\ Reject(b, n)
      BY <2>2 DEF Reject, Dispose
    <2>3. QED
      BY <1>1, <2>1, <2>2
  <1>4. q \in Disposition
    BY DEF Disposition
  <1>5. quarantine' \in [Belief -> Seq(Disposition)]
    <2>1. quarantine[b] \in Seq(Disposition)
      BY DEF TypeOK
    <2>2. [quarantine[b] EXCEPT ![n] = q] \in Seq(Disposition)
      BY <1>4, <2>1
    <2>3. QED
      BY <1>3, <2>2 DEF TypeOK
  <1>6. status' \in [Belief -> Status] /\ screened' \in [Belief -> BOOLEAN]
    BY <1>1 DEF Release, Reject, TypeOK, Status
  <1>7. TypeOK'
    BY <1>3, <1>5, <1>6 DEF TypeOK
  <1>8. /\ \A d \in Belief \ {b} : status'[d] = status[d]
        /\ \/ status'[b] = status[b]
           \/ status[b] = "quarantined" /\ status'[b] = "rejected"
           \/ /\ status[b] = "quarantined" /\ status'[b] = "trusted"
              /\ Release(b, n)
    BY <1>1 DEF Release, Reject, TypeOK
  <1>9. \A d \in Belief : Admitted(d) => Admitted(d)'
    BY <1>2, <1>3, <1>4, ReleasedByDecision DEF Admitted
  <1>10. Release(b, n) => Admitted(b)'
    BY <1>2, <1>3, <1>4, ReleasedByDecision DEF Admitted
  <1>11. status[b] # "absent"
    <2>1. quarantine[b] # <<>>
      BY <1>1
    <2>2. QED
      BY <2>1 DEF Rows, Written
  <1>12. \A d \in Belief \ {b} : quarantine'[d] = quarantine[d]
    BY <1>3 DEF TypeOK
  <1>13. status'[b] \notin {"absent", "pending"} => verdicts'[b] # <<>>
    BY <1>3, <1>8 DEF Rows
  <1>14. QED
    BY <1>3, <1>7, <1>8, <1>9, <1>10, <1>11, <1>12, <1>13 DEF DecisionEffect

LEMMA DecisionPreserves ==
  ASSUME ContainmentInv, NEW b \in Belief, DecisionEffect(b),
         UNCHANGED cascadeVars
  PROVE  ContainmentInv'
  <1> USE DEF ContainmentInv
  <1>1. Written' = Written
    BY DEF DecisionEffect, Written
  <1>2. RowsStay
    BY SameRowsStay DEF DecisionEffect
  <1>3. Lineage' /\ Frontier'
    BY <1>2, SearchStays DEF SamePart, cascadeVars, history
  <1>4. ContainmentTypeOK'
    BY DEF DecisionEffect, ContainmentTypeOK, cascadeVars, searchVars,
           rescreenVars, history
  <1>5. Rows'
    BY <1>1 DEF DecisionEffect, Rows, Written
  <1>6. Derived'
    BY <1>1, DerivedStays DEF DecisionEffect
  <1>7. StillAdmitted'
    BY DEF DecisionEffect, StillAdmitted, TrustedCurrent
  <1>8. AtGate'
    BY <1>1 DEF DecisionEffect, AtGate, cascadeVars, rescreenVars, Written
  <1>9. Suspects'
    BY DEF DecisionEffect, Suspects, Lineage, Written, cascadeVars,
           rescreenVars, history
  <1>10. QED
    BY <1>3, <1>4, <1>5, <1>6, <1>7, <1>8, <1>9 DEF DecisionEffect

-----------------------------------------------------------------------------
(***************************************************************************)
(* Every step of the system keeps the invariant.                           *)
(***************************************************************************)
LEMMA CascadePreserves == ContainmentInv /\ Cascade => ContainmentInv'
  <1> SUFFICES ASSUME ContainmentInv, Cascade PROVE ContainmentInv'
    OBVIOUS
  <1>1. CASE Revisit \/ Visit \/ SearchEnds
    BY <1>1, RevisitPreserves, VisitPreserves, SearchEndsPreserves
  <1>2. CASE \E d \in Belief : Reset(d)
    BY <1>2, ResetPreserves
  <1>3. CASE \/ Lookup \/ UpdateBelief \/ InsertQuarantine \/ GateFails
             \/ \E v \in Verdict : InsertVerdict(v)
    BY <1>3, LookupPreserves, InsertVerdictPreserves, UpdateBeliefPreserves,
       InsertQuarantinePreserves, GateFailsPreserves
  <1>4. CASE Finish
    BY <1>4, FinishPreserves DEF Finish
  <1>5. QED
    BY <1>1, <1>2, <1>3, <1>4 DEF Cascade

LEMMA OthersPreserve == ContainmentInv /\ Others => ContainmentInv'
  <1> SUFFICES ASSUME ContainmentInv, Others PROVE ContainmentInv'
    OBVIOUS
  <1>1. PICK b \in Belief : Write(b) \/ ScreenOrReview(b)
    BY DEF Others
  <1>2. UNCHANGED cascadeVars
    BY DEF Others
  <1>3. CASE Write(b)
    BY <1>2, <1>3, WritePreserves
  <1>4. CASE ScreenOrReview(b)
    <2>1. DecisionEffect(b)
      BY <1>4, ScreenEffect, ReviewEffect DEF ScreenOrReview
    <2>2. QED
      BY <1>2, <2>1, DecisionPreserves
  <1>5. QED
    BY <1>1, <1>3, <1>4

LEMMA StutterPreserves ==
  ContainmentInv /\ UNCHANGED allVars => ContainmentInv'
  <1> SUFFICES ASSUME ContainmentInv, UNCHANGED allVars PROVE ContainmentInv'
    OBVIOUS
  <1> USE DEF ContainmentInv, allVars, cascadeVars, searchVars, rescreenVars,
              history
  <1>1. TypeOK' /\ Rows' /\ Derived' /\ StillAdmitted'
    BY StoreUntouched
  <1>2. RowsStay
    BY SameRowsStay DEF vars
  <1>3. Lineage' /\ Frontier'
    BY <1>2, SearchStays DEF SamePart
  <1>4. ContainmentTypeOK' /\ AtGate' /\ Suspects'
    BY DEF vars, ContainmentTypeOK, AtGate, Suspects, Written
  <1>5. QED
    BY <1>1, <1>3, <1>4

(***************************************************************************)
(* The invariant of a cascade among writers, pollers and reviewers.        *)
(***************************************************************************)
THEOREM ContainmentInvariant == ContainmentSpec => []ContainmentInv
  <1>1. ContainmentInv /\ [ContainmentNext]_allVars => ContainmentInv'
    BY OthersPreserve, StartPreserves, CascadePreserves, StutterPreserves
       DEF ContainmentNext
  <1>2. QED
    BY <1>1, InitEstablishes, PTL DEF ContainmentSpec

(***************************************************************************)
(* The bookkeeping of a cascade keeps its types; the root is never among   *)
(* what it resets.                                                         *)
(***************************************************************************)
THEOREM CascadeTypes == ContainmentSpec => []ContainmentTypeOK
  <1>1. ContainmentInv => ContainmentTypeOK
    BY DEF ContainmentInv
  <1>2. QED
    BY <1>1, ContainmentInvariant, PTL

(***************************************************************************)
(* Security Invariant 1 survives the cascade in autocommit mode: what      *)
(* consumers retrieve, the gate has trusted or a reviewer has released.    *)
(***************************************************************************)
THEOREM CascadeStillAdmitted == ContainmentSpec => []StillAdmitted
  <1>1. ContainmentInv => StillAdmitted
    BY DEF ContainmentInv
  <1>2. QED
    BY <1>1, ContainmentInvariant, PTL

(***************************************************************************)
(* The search finds all that was derived from the root when it began, for  *)
(* every graph and whatever is written meanwhile, and nothing else.        *)
(***************************************************************************)
THEOREM CascadeSearchComplete == ContainmentSpec => []SearchComplete
  <1>1. ContainmentInv => SearchComplete
    <2> SUFFICES ASSUME ContainmentInv, phase = "reset"
                 PROVE  /\ lineage \subseteq visited
                        /\ \A d \in visited \ {root} :
                              derivedFrom[d] \intersect visited # {}
      BY DEF SearchComplete
    <2>1. queue = <<>>
      BY DEF ContainmentInv, Frontier
    <2>2. lineage \subseteq visited
      BY <2>1, LineageVisited DEF ContainmentInv
    <2>3. QED
      BY <2>2 DEF ContainmentInv, Frontier, Reached
  <1>2. QED
    BY <1>1, ContainmentInvariant, PTL

(***************************************************************************)
(* Containment: when a cascade has completed, no descendant that was       *)
(* retrievable when it began is retrievable, then or later.                *)
(***************************************************************************)
THEOREM CascadeContains == ContainmentSpec => []Contained
  <1>1. ContainmentInv => Contained
    BY DEF ContainmentInv, Suspects, Contained, TrustedCurrent
  <1>2. QED
    BY <1>1, ContainmentInvariant, PTL

-----------------------------------------------------------------------------
(***************************************************************************)
(* How many steps a cascade has ahead of it at most.  While it searches:   *)
(* for each belief not expanded yet its expansion and the queue entries of *)
(* its children, then five statements for every belief; after that, five   *)
(* for each descendant to be reset and what the gate has left to do.       *)
(***************************************************************************)
Size == Cardinality(Belief)

InGate == CASE phase = "lookup"  -> 4
            [] phase = "verdict" -> 3
            [] phase = "update"  -> 2
            [] phase = "hold"    -> 1
            [] OTHER             -> 0

ToSearch == (Size + 1) * Cardinality(Belief \ visited) + Len(queue)

ToScreen == 5 * Cardinality(todo) + 1 + InGate

Ahead == IF phase = "search" THEN ToSearch + (5 * Size + 2)
         ELSE IF phase = "reset" \/ phase \in GatePhase THEN ToScreen
         ELSE 0

Longest == ((Size + 1) * Size + 1) + (5 * Size + 2)

LEMMA Sizes ==
  ASSUME ContainmentTypeOK
  PROVE  /\ Size \in Nat
         /\ \A S \in SUBSET Belief : /\ IsFiniteSet(S) /\ Cardinality(S) \in Nat
                                     /\ Cardinality(S) <= Size
         /\ Len(queue) \in Nat /\ todo \in SUBSET Belief
         /\ Belief \ visited \in SUBSET Belief
         /\ InGate \in 0..4
  <1>1. Size \in Nat
    BY BeliefAssumption, FS_CardinalityType DEF Size
  <1>2. ASSUME NEW S \in SUBSET Belief
        PROVE  IsFiniteSet(S) /\ Cardinality(S) \in Nat /\ Cardinality(S) <= Size
    BY BeliefAssumption, FS_Subset, FS_CardinalityType DEF Size
  <1>3. Len(queue) \in Nat /\ todo \in SUBSET Belief
        /\ Belief \ visited \in SUBSET Belief
    BY DEF ContainmentTypeOK
  <1>4. InGate \in 0..4
    BY DEF InGate
  <1>5. QED
    BY <1>1, <1>2, <1>3, <1>4

LEMMA AheadTyped ==
  ASSUME ContainmentTypeOK
  PROVE  /\ Ahead \in Nat /\ ToSearch \in Nat /\ Longest \in Nat
         /\ ToScreen \in 1..5 * Size + 5
  <1>1. /\ Size \in Nat /\ Cardinality(Belief \ visited) \in Nat
        /\ Len(queue) \in Nat /\ InGate \in 0..4
        /\ Cardinality(todo) \in Nat /\ Cardinality(todo) <= Size
    BY Sizes
  <1>2. ToSearch \in Nat
    <2>1. (Size + 1) * Cardinality(Belief \ visited) \in Nat
      BY <1>1
    <2>2. QED
      BY <1>1, <2>1 DEF ToSearch
  <1>3. ToScreen \in 1..5 * Size + 5
    BY <1>1 DEF ToScreen
  <1>4. Longest \in Nat
    <2>1. (Size + 1) * Size \in Nat
      BY <1>1
    <2>2. QED
      BY <1>1, <2>1 DEF Longest
  <1>5. Ahead \in Nat
    BY <1>1, <1>2, <1>3 DEF Ahead
  <1>6. QED
    BY <1>2, <1>3, <1>4, <1>5

LEMMA AheadTypedNext == ContainmentTypeOK' => (Ahead \in Nat)'
  <1>1. ContainmentTypeOK => Ahead \in Nat
    BY AheadTyped
  <1>2. QED
    BY <1>1, PTL

LEMMA RowsLength ==
  ASSUME NEW S \in SUBSET Belief, NEW f \in SetToSeqs(S)
  PROVE  f \in Seq(Belief) /\ Len(f) = Cardinality(S)
  <1>1. Cardinality(S) \in Nat
    BY BeliefAssumption, FS_Subset, FS_CardinalityType
  <1>2. f \in [1..Cardinality(S) -> S]
    BY DEF SetToSeqs
  <1>3. QED
    BY <1>1, <1>2

(***************************************************************************)
(* Expanding a belief costs more than its children can add to the queue.   *)
(***************************************************************************)
LEMMA ExpansionPays ==
  ASSUME NEW n \in Nat, NEW k \in Nat, NEW l \in Nat, NEW c \in Nat, c <= n
  PROVE  (n + 1) * k + (l + c) < (n + 1) * (k + 1) + (l + 1)
  <1>1. (n + 1) * (k + 1) = (n + 1) * k + (n + 1) /\ (n + 1) * k \in Nat
    OBVIOUS
  <1>2. QED
    BY <1>1

LEMMA SumsCompare ==
  ASSUME NEW p \in Nat, NEW q \in Nat, NEW n \in Nat, p < q
  PROVE  p + (5 * n + 2) < q + (5 * n + 2)
  OBVIOUS

LEMMA SearchShortens ==
  ASSUME ContainmentInv, Revisit \/ Visit
  PROVE  Ahead' < Ahead
  <1>0. ContainmentTypeOK /\ queue \in Seq(Belief) /\ queue # <<>>
        /\ Len(queue) \in Nat \ {0} /\ phase = "search" /\ phase' = "search"
        /\ Tail(queue) \in Seq(Belief) /\ Len(Tail(queue)) = Len(queue) - 1
    BY DEF ContainmentInv, ContainmentTypeOK, Revisit, Visit
  <1>1. Size \in Nat /\ ToSearch \in Nat
        /\ Ahead = ToSearch + (5 * Size + 2) /\ Ahead' = ToSearch' + (5 * Size + 2)
    BY <1>0, Sizes, AheadTyped DEF Ahead
  <1>2. CASE Revisit
    <2>1. visited' = visited /\ Len(queue') = Len(queue) - 1
      BY <1>0, <1>2 DEF Revisit
    <2>2. \A m \in Nat : m + (Len(queue) - 1) < m + Len(queue)
      BY <1>0
    <2>3. (Size + 1) * Cardinality(Belief \ visited) \in Nat
      <3>1. Cardinality(Belief \ visited) \in Nat
        BY <1>0, Sizes
      <3>2. QED
        BY <1>1, <3>1
    <2>4. ToSearch' < ToSearch /\ ToSearch' \in Nat
      BY <1>0, <2>1, <2>2, <2>3 DEF ToSearch
    <2>5. QED
      BY <1>1, <2>4, SumsCompare
  <1>3. CASE Visit
    <2> DEFINE h == Head(queue)
               rest == Belief \ visited'
    <2>1. h \in Belief /\ h \notin visited /\ visited' = visited \union {h}
      BY <1>0, <1>3, HeadAndTail DEF Visit
    <2>2. rest \in SUBSET Belief /\ rest = (Belief \ visited) \ {h}
          /\ h \in Belief \ visited
      BY <2>1
    <2>3. Cardinality(rest) = Cardinality(Belief \ visited) - 1
      <3>1. IsFiniteSet(Belief \ visited)
        BY <1>0, Sizes
      <3>2. QED
        BY <2>2, <3>1, FS_RemoveElement
    <2>4. Cardinality(rest) \in Nat /\ Cardinality(Belief \ visited) \in Nat
      BY <1>0, <2>2, Sizes
    <2>5. PICK children \in SetToSeqs(Children(h) \ visited') :
             queue' = Tail(queue) \o children
      BY <1>3 DEF Visit
    <2>6. children \in Seq(Belief) /\ Len(children) \in Nat /\ Len(children) <= Size
      <3>1. Children(h) \ visited' \in SUBSET Belief
        BY DEF Children, Written
      <3>2. children \in Seq(Belief)
            /\ Len(children) = Cardinality(Children(h) \ visited')
        BY <3>1, <2>5, RowsLength
      <3>3. QED
        BY <1>0, <3>1, <3>2, Sizes
    <2>7. Len(queue') = (Len(queue) - 1) + Len(children)
      BY <1>0, <2>5, <2>6
    <2>8. ToSearch' = (Size + 1) * Cardinality(rest)
                        + ((Len(queue) - 1) + Len(children))
      BY <2>7 DEF ToSearch, Size
    <2>9. ToSearch = (Size + 1) * (Cardinality(rest) + 1) + ((Len(queue) - 1) + 1)
      BY <1>0, <2>3, <2>4 DEF ToSearch
    <2> HIDE DEF h, rest
    <2>10. ToSearch' < ToSearch
      <3>1. Len(queue) - 1 \in Nat
        BY <1>0
      <3>2. QED
        BY <1>1, <2>4, <2>6, <2>8, <2>9, <3>1, ExpansionPays
    <2>11. ToSearch' \in Nat
      <3>1. (Size + 1) * Cardinality(rest) \in Nat
        BY <1>1, <2>4
      <3>2. QED
        BY <1>0, <2>6, <2>8, <3>1
    <2>12. QED
      BY <1>1, <2>10, <2>11, SumsCompare
  <1>4. QED
    BY <1>2, <1>3

LEMMA ScreeningShortens ==
  ASSUME ContainmentInv, ContainmentInv', Cascade, ~(Revisit \/ Visit)
  PROVE  Ahead' < Ahead
  <1>0. ContainmentTypeOK /\ ContainmentTypeOK'
        /\ Size \in Nat /\ Cardinality(todo) \in Nat /\ InGate \in 0..4
        /\ Ahead \in Nat
    BY Sizes, AheadTyped DEF ContainmentInv
  <1>1. CASE SearchEnds
    <2>1. phase = "search" /\ phase' = "reset"
      BY <1>1 DEF SearchEnds
    <2>2. Cardinality(todo') \in Nat /\ Cardinality(todo') <= Size
      <3>1. todo' \in SUBSET Belief
        BY <1>0 DEF ContainmentTypeOK
      <3>2. QED
        BY <1>0, <3>1, Sizes
    <2>3. Ahead = ToSearch + (5 * Size + 2) /\ ToSearch \in Nat
      BY <1>0, <2>1, AheadTyped DEF Ahead
    <2>4. Ahead' = 5 * Cardinality(todo') + 1 + 0
      BY <2>1 DEF Ahead, ToScreen, InGate
    <2>5. QED
      BY <1>0, <2>2, <2>3, <2>4
  <1>2. ASSUME NEW d \in Belief, Reset(d)
        PROVE  Ahead' < Ahead
    <2>1. phase = "reset" /\ d \in todo
      BY <1>2 DEF Reset
    <2>2. Ahead = 5 * Cardinality(todo) + 1 + 0
      BY <2>1 DEF Ahead, ToScreen, InGate
    <2>3. CASE phase' = "aborted"
      BY <1>0, <2>2, <2>3 DEF Ahead, GatePhase
    <2>4. CASE phase' = "lookup" /\ todo' = todo \ {d}
      <3>1. IsFiniteSet(todo)
        BY <1>0, Sizes
      <3>2. Cardinality(todo') = Cardinality(todo) - 1
        BY <2>1, <2>4, <3>1, FS_RemoveElement
      <3>3. Ahead' = 5 * (Cardinality(todo) - 1) + 1 + 4
        BY <2>4, <3>2 DEF Ahead, ToScreen, InGate, GatePhase
      <3>4. QED
        BY <1>0, <2>2, <3>3
    <2>5. QED
      BY <1>2, <2>3, <2>4 DEF Reset
  <1>3. ASSUME NEW from \in GatePhase,
               NEW to \in SUBSET (GatePhase \union {"reset"}), Gate(from, to),
               \A p \in to : p \notin {"lookup", from}
                               /\ (from = "update" => p # "verdict")
                               /\ (from = "hold" => p = "reset")
        PROVE  Ahead' < Ahead
    <2>1. phase = from /\ phase' \in to /\ todo' = todo
      BY <1>3 DEF Gate
    <2>2. InGate' < InGate /\ InGate' \in 0..4
      BY <1>3, <2>1 DEF InGate, GatePhase
    <2>3. Ahead = 5 * Cardinality(todo) + 1 + InGate
          /\ Ahead' = 5 * Cardinality(todo) + 1 + InGate'
      BY <1>3, <2>1 DEF Ahead, ToScreen, GatePhase
    <2>4. QED
      BY <1>0, <2>2, <2>3
  <1>4. CASE Lookup
    BY <1>3, <1>4 DEF Lookup, GatePhase
  <1>5. CASE \E v \in Verdict : InsertVerdict(v)
    BY <1>3, <1>5 DEF InsertVerdict, GatePhase
  <1>6. CASE UpdateBelief
    BY <1>3, <1>6 DEF UpdateBelief, GatePhase
  <1>7. CASE InsertQuarantine
    BY <1>3, <1>7 DEF InsertQuarantine, GatePhase
  <1>8. CASE GateFails
    BY <1>3, <1>8 DEF GateFails, GatePhase
  <1>9. CASE Finish
    <2>1. phase = "reset" /\ phase' \in {"done", "aborted"}
      BY <1>9 DEF Finish
    <2>2. Ahead = 5 * Cardinality(todo) + 1 + 0 /\ Ahead' = 0
      BY <2>1 DEF Ahead, ToScreen, InGate, GatePhase
    <2>3. QED
      BY <1>0, <2>2
  <1>10. QED
    BY <1>1, <1>2, <1>4, <1>5, <1>6, <1>7, <1>8, <1>9 DEF Cascade

(***************************************************************************)
(* A new cascade has the longest way ahead at most.                        *)
(***************************************************************************)
LEMMA StartLength ==
  ASSUME NEW r \in Belief, Start(r)
  PROVE  Ahead' = Longest /\ cascades' = cascades + 1
  <1>1. /\ phase' = "search" /\ queue' = <<r>> /\ visited' = {}
        /\ cascades' = cascades + 1
    BY DEF Start
  <1>2. Belief \ visited' = Belief /\ Len(queue') = 1
    BY <1>1
  <1>3. QED
    BY <1>1, <1>2 DEF Ahead, ToSearch, Longest, Size

LEMMA StepsAhead ==
  ASSUME ContainmentInv, ContainmentInv', [ContainmentNext]_allVars
  PROVE  /\ Cascade => Ahead' < Ahead
         /\ Ahead' <= Ahead \/ cascades' > cascades
         /\ Ahead <= Longest => Ahead' <= Longest
  <1>0. Ahead \in Nat /\ Ahead' \in Nat /\ Longest \in Nat /\ cascades \in Nat
    <2>1. Ahead \in Nat /\ Longest \in Nat
      BY AheadTyped DEF ContainmentInv
    <2>2. Ahead' \in Nat
      BY AheadTypedNext DEF ContainmentInv
    <2>3. cascades \in Nat
      BY MaxCascadesAssumption DEF ContainmentInv, ContainmentTypeOK
    <2>4. QED
      BY <2>1, <2>2, <2>3
  <1>1. Cascade => Ahead' < Ahead
    BY SearchShortens, ScreeningShortens
  <1>2. CASE UNCHANGED cascadeVars
    <2>1. Ahead' = Ahead
      BY <1>2 DEF cascadeVars, searchVars, rescreenVars, Ahead, ToSearch, ToScreen,
                  InGate
    <2>2. QED
      BY <1>0, <1>1, <2>1
  <1>3. CASE Cascade
    BY <1>0, <1>1, <1>3
  <1>4. CASE \E r \in Belief : Start(r)
    <2>1. Ahead' = Longest /\ cascades' = cascades + 1
      BY <1>4, StartLength
    <2>2. QED
      BY <1>0, <1>1, <2>1
  <1>5. QED
    BY <1>2, <1>3, <1>4 DEF ContainmentNext, Others, allVars

(***************************************************************************)
(* A cascade of a6_cascade.py ends: whatever the graph, and whatever is    *)
(* written, screened and decided meanwhile, each of its steps brings it    *)
(* nearer its end, nothing but the start of another cascade sets it back,  *)
(* and it takes Longest steps at most, quadratic in the number of beliefs. *)
(***************************************************************************)
THEOREM CascadeIsBounded ==
    ContainmentSpec => /\ [](Ahead \in 0..Longest)
                       /\ [][/\ Cascade => Ahead' < Ahead
                             /\ Ahead' <= Ahead \/ cascades' > cascades]_allVars
  <1>1. ContainmentInit => Ahead <= Longest
    <2> SUFFICES ASSUME ContainmentInit PROVE Ahead <= Longest
      OBVIOUS
    <2>1. Ahead = 0
      BY DEF ContainmentInit, Ahead, GatePhase
    <2>2. Longest \in Nat
      BY InitEstablishes, AheadTyped DEF ContainmentInv
    <2>3. QED
      BY <2>1, <2>2
  <1>2. ContainmentInv /\ ContainmentInv' /\ [ContainmentNext]_allVars
          => /\ Ahead <= Longest => (Ahead <= Longest)'
             /\ [/\ Cascade => Ahead' < Ahead
                 /\ Ahead' <= Ahead \/ cascades' > cascades]_allVars
    BY StepsAhead
  <1>3. ContainmentInv /\ Ahead <= Longest => Ahead \in 0..Longest
    BY AheadTyped DEF ContainmentInv
  <1>4. ContainmentSpec => [](Ahead <= Longest)
    BY <1>1, <1>2, ContainmentInvariant, PTL DEF ContainmentSpec
  <1>5. ContainmentSpec => [](Ahead \in 0..Longest)
    BY <1>3, <1>4, ContainmentInvariant, PTL
  <1>6. QED
    BY <1>2, <1>5, ContainmentInvariant, PTL DEF ContainmentSpec
=============================================================================
