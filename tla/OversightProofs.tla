--------------------------- MODULE OversightProofs --------------------------
(***************************************************************************)
(* Proofs about the parts that watch over the store, for every number of   *)
(* reviewers, rows, events, backups, controls and tenants.  The parts      *)
(* share no variable, so each has an invariant of its own, kept by its own *)
(* steps; Apart puts them together.                                        *)
(***************************************************************************)
EXTENDS Oversight, FiniteSetTheorems, TLAPS

-----------------------------------------------------------------------------
(***************************************************************************)
(* The review desk.  A transaction read a held row, and one that has been  *)
(* audited is on record.                                                   *)
(***************************************************************************)
Underway(r) ==
    desk[r] # Idle =>
        /\ desk[r].read = "held"
        /\ desk[r].at = "audited" => Decided(r) \in log

DeskInv == DeskTypeOK /\ LogAccounted /\ \A r \in Reviewer : Underway(r)

\* The desk of a reviewer is idle or has the four fields of a transaction.
LEMMA DeskFields ==
    ASSUME NEW x \in Desk
    PROVE  /\ x # Idle => /\ x.at \in {"updated", "audited"} /\ x.row \in Row
                          /\ x.decision \in Decision
                          /\ x.read \in Decision \union {"held"}
           /\ x.at \in {"updated", "audited"} => x # Idle
BY DEF Desk, Idle

LEMMA DeskStarts == DeskInit => DeskInv
<1> SUFFICES ASSUME DeskInit PROVE DeskInv
  OBVIOUS
<1>1. \A r \in Reviewer : desk[r] = Idle
  BY DEF DeskInit
<1>2. DeskTypeOK
  BY DEF DeskInit, DeskTypeOK, Desk
<1>3. LogAccounted
  BY DEF DeskInit, LogAccounted
<1> QED
  BY <1>1, <1>2, <1>3 DEF DeskInv, Underway

\* The invariant of the desk is kept by each of its steps.
LEMMA DeskStep == DeskInv /\ [DeskNext]_deskVars => DeskInv'
<1> SUFFICES ASSUME DeskInv, [DeskNext]_deskVars PROVE DeskInv'
  OBVIOUS
<1> USE DEF DeskInv
<1>1. ASSUME NEW r \in Reviewer, NEW q \in Row, NEW d \in Decision, Decide(r, q, d)
      PROVE  DeskInv'
  <2> DEFINE mine == [at |-> "updated", row |-> q, decision |-> d, read |-> "held"]
  <2>1. desk' = [desk EXCEPT ![r] = mine] /\ mine \in Desk /\ desk[r] = Idle
    BY <1>1 DEF Decide, MayDecide, Desk
  <2>2. DeskTypeOK'
    BY <1>1, <2>1 DEF Decide, DeskTypeOK
  <2>3. ASSUME NEW s \in Reviewer PROVE Underway(s)' /\ (desk[s].at = "audited" => desk'[s] = desk[s])
    BY <1>1, <2>1, <2>3 DEF Decide, DeskTypeOK, Underway, Idle, Decided
  <2>4. LogAccounted'
    BY <1>1, <2>3 DEF Decide, LogAccounted, Decided
  <2> QED
    BY <2>2, <2>3, <2>4
<1>2. ASSUME NEW r \in Reviewer, Audit(r) PROVE DeskInv'
  <2> PICK emission \in Emission :
        /\ log' = IF Stored(emission) THEN log \union {Decided(r)} ELSE log
        /\ IF Returns(emission)
           THEN desk' = [desk EXCEPT ![r].at = "audited"] /\ UNCHANGED lost
           ELSE /\ desk' = [desk EXCEPT ![r] = Idle]
                /\ lost' = lost \union {Decided(r)}
    BY <1>2 DEF Audit
  <2>1. /\ desk[r] # Idle /\ desk[r].row \in Row /\ desk[r].decision \in Decision
        /\ desk[r].read = "held" /\ desk[r].at = "updated"
        /\ UNCHANGED disposition
    BY <1>2, DeskFields DEF Audit, DeskTypeOK, Underway
  <2>2. CASE Returns(emission)
    <3>1. Decided(r) \in log' /\ Decided(r)' = Decided(r)
      BY <2>1, <2>2 DEF Returns, Stored, Decided, DeskTypeOK, Desk, Idle
    <3>2. /\ desk'[r] \in Desk /\ desk'[r] # Idle /\ desk'[r].at = "audited"
          /\ desk'[r].read = "held"
      BY <2>1, <2>2 DEF DeskTypeOK, Desk, Idle
    <3>3. DeskTypeOK'
      BY <2>1, <2>2, <3>2 DEF DeskTypeOK, Decided
    <3>4. \A s \in Reviewer : Underway(s)'
      BY <2>2, <3>1, <3>2 DEF Underway, Decided, DeskTypeOK
    <3>5. LogAccounted'
      BY <2>1, <2>2, <3>1, <3>2 DEF LogAccounted, Decided, DeskTypeOK
    <3> QED
      BY <3>3, <3>4, <3>5
  <2>3. CASE ~Returns(emission)
    <3>1. DeskTypeOK'
      BY <2>1, <2>3 DEF DeskTypeOK, Decided, Desk
    <3>2. \A s \in Reviewer : Underway(s)'
      BY <2>3 DEF Underway, Decided, DeskTypeOK
    <3>3. LogAccounted'
      BY <2>1, <2>3 DEF LogAccounted, Decided, DeskTypeOK, Idle
    <3> QED
      BY <3>1, <3>2, <3>3
  <2> QED
    BY <2>2, <2>3
<1>3. ASSUME NEW r \in Reviewer, Commit(r) PROVE DeskInv'
  <2>1. /\ desk[r] # Idle /\ desk[r].row \in Row /\ desk[r].decision \in Decision
        /\ disposition[desk[r].row] = "held" /\ Decided(r) \in log
        /\ UNCHANGED <<log, lost>>
    BY <1>3, DeskFields DEF Commit, Serializable, DeskTypeOK, Underway
  <2>2. DeskTypeOK'
    BY <1>3, <2>1 DEF Commit, DeskTypeOK, Desk
  <2>3. \A s \in Reviewer : Underway(s)'
    BY <1>3, <2>1 DEF Commit, Underway, Decided, DeskTypeOK
  <2>4. /\ desk' = [desk EXCEPT ![r] = Idle]
        /\ disposition' = [disposition EXCEPT ![desk[r].row] = desk[r].decision]
    BY <1>3 DEF Commit
  <2>5. ASSUME NEW q \in Row, NEW d \in Decision, <<q, d>> \in log
        PROVE  \/ disposition'[q] = d \/ <<q, d>> \in lost
               \/ \E s \in Reviewer : desk'[s].at = "audited" /\ Decided(s)' = <<q, d>>
    <3>1. CASE disposition[q] = d
      <4>1. q # desk[r].row
        BY <2>1, <3>1 DEF Decision
      <4> QED
        BY <2>1, <2>4, <3>1, <4>1 DEF DeskTypeOK
    <3>2. CASE <<q, d>> \in lost
      BY <3>2
    <3>3. ASSUME NEW s \in Reviewer, desk[s].at = "audited", Decided(s) = <<q, d>>
          PROVE  \/ disposition'[q] = d
                 \/ desk'[s].at = "audited" /\ Decided(s)' = <<q, d>>
      <4>1. CASE s = r
        <5>1. q = desk[r].row /\ d = desk[r].decision
          BY <3>3, <4>1 DEF Decided
        <5> QED
          BY <2>4, <5>1 DEF DeskTypeOK
      <4>2. CASE s # r
        <5>1. desk'[s] = desk[s]
          BY <2>4, <4>2 DEF DeskTypeOK
        <5> QED
          BY <3>3, <5>1 DEF Decided
      <4> QED
        BY <4>1, <4>2
    <3> QED
      BY <2>5, <3>1, <3>2, <3>3 DEF LogAccounted
  <2>6. LogAccounted'
    BY <2>1, <2>5 DEF LogAccounted
  <2> QED
    BY <2>2, <2>3, <2>6
<1>4. ASSUME NEW r \in Reviewer, Abandon(r) PROVE DeskInv'
  <2>1. desk[r].row \in Row /\ desk[r].decision \in Decision
    BY <1>4, DeskFields DEF Abandon, DeskTypeOK
  <2>2. DeskTypeOK'
    BY <1>4, <2>1 DEF Abandon, DeskTypeOK, Desk, Decided
  <2>3. \A s \in Reviewer : Underway(s)'
    BY <1>4 DEF Abandon, Underway, Decided, DeskTypeOK
  <2>4. LogAccounted'
    BY <1>4, <2>1 DEF Abandon, LogAccounted, Decided, DeskTypeOK, Idle
  <2> QED
    BY <2>2, <2>3, <2>4
<1>5. CASE UNCHANGED deskVars
  BY <1>5 DEF deskVars, DeskTypeOK, LogAccounted, Underway, Decided
<1> QED
  BY <1>1, <1>2, <1>3, <1>4, <1>5 DEF DeskNext

\* A step of the desk puts a decision on record, applies one that is on record
\* to a held row, or changes neither.
LEMMA DeskRefines == DeskInv /\ [DeskNext]_deskVars => [Log!Next]_<<log, disposition>>
<1> SUFFICES ASSUME DeskInv, [DeskNext]_deskVars PROVE [Log!Next]_<<log, disposition>>
  OBVIOUS
<1> USE DEF DeskInv, Log!Next, Log!Put, Log!Apply, Log!Decision, Decision
<1>1. ASSUME NEW r \in Reviewer, NEW q \in Row, NEW d \in Decision, Decide(r, q, d)
      PROVE  UNCHANGED <<log, disposition>>
  BY <1>1 DEF Decide
<1>2. ASSUME NEW r \in Reviewer, Audit(r) PROVE [Log!Next]_<<log, disposition>>
  <2>1. desk[r].row \in Row /\ desk[r].decision \in Decision
    BY <1>2, DeskFields DEF Audit, DeskTypeOK
  <2>2. /\ UNCHANGED disposition
        /\ log' = log \/ log' = log \union {<<desk[r].row, desk[r].decision>>}
    BY <1>2 DEF Audit, Decided
  <2> QED
    BY <2>1, <2>2
<1>3. ASSUME NEW r \in Reviewer, Commit(r) PROVE Log!Next
  <2>1. /\ desk[r].row \in Row /\ desk[r].decision \in Decision
        /\ disposition[desk[r].row] = "held"
        /\ <<desk[r].row, desk[r].decision>> \in log
    BY <1>3, DeskFields DEF Commit, Serializable, DeskTypeOK, Underway, Decided
  <2>2. Log!Apply(desk[r].row, desk[r].decision)
    BY <1>3, <2>1 DEF Commit
  <2> QED
    BY <2>1, <2>2
<1>4. ASSUME NEW r \in Reviewer, Abandon(r) PROVE UNCHANGED <<log, disposition>>
  BY <1>4 DEF Abandon
<1>5. CASE UNCHANGED deskVars
  BY <1>5 DEF deskVars
<1> QED
  BY <1>1, <1>2, <1>3, <1>4, <1>5 DEF DeskNext

-----------------------------------------------------------------------------
(***************************************************************************)
(* The custody of events.  What the second of a time is: the remainder of  *)
(* a division, so the bounds of a remainder and what they entail.          *)
(***************************************************************************)
LEMMA Remainders ==
    ASSUME NEW d \in Nat \ {0}, NEW t \in Nat
    PROVE  /\ t % d \in 0..(d - 1) /\ t % d <= t
           /\ t = d * (t \div d) + (t % d) /\ t \div d \in Nat
OBVIOUS

LEMMA SameMultiple ==
    ASSUME NEW d \in Nat \ {0}, NEW s \in Nat, NEW t \in Nat, s <= t, s >= t - (t % d)
    PROVE  s - (s % d) = t - (t % d)
<1>1. PICK k \in Nat, r \in 0..(d - 1) : t = d * k + r /\ r = t % d
  BY Remainders
<1>2. PICK i \in 0..(d - 1) : s = d * k + i
  BY <1>1
<1>3. s % d = i
  BY <1>2
<1>4. PICK p \in Nat : s = p + i /\ t = p + r
  BY <1>1, <1>2
<1>5. s - i = p /\ t - r = p
  BY <1>4
<1> QED
  BY <1>1, <1>3, <1>5

LEMMA Seconds ==
    ASSUME NEW t \in Nat
    PROVE  Whole(t) \in Nat /\ Whole(t) <= t
BY Remainders, CustodyAssumption DEF Whole

\* A time between the second of another one and that one is in that second.
LEMMA SameSecond ==
    ASSUME NEW s \in Nat, NEW t \in Nat, s <= t, s >= Whole(t)
    PROVE  Whole(s) = Whole(t)
BY SameMultiple, CustodyAssumption DEF Whole

(***************************************************************************)
(* No time is in the future; a cycle has no events while it is idle; what  *)
(* was asked for are the events since the cursor, all that had happened    *)
(* before the question; what is ingested was read before the cursor; and,  *)
(* before any restart, an event that is ingested again was in a second     *)
(* that has been read.                                                     *)
(***************************************************************************)
Clocked == /\ \A e \in Occurrence : when[e] <= now
           /\ cursor <= now /\ asked <= now
Asked   == /\ cycle = "idle" => events = {}
           /\ cycle = "asked" =>
                 /\ events \subseteq Since(Whole(cursor))
                 /\ \A e \in Since(Whole(cursor)) : when[e] < asked => e \in events
           /\ cycle = "ingesting" => \A e \in events : when[e] # 0 /\ when[e] <= cursor
Copied  == restarts = 0 =>
              /\ cursor # 0 => Whole(cursor) \in read
              /\ \A e \in Occurrence : worm[e] > 0 =>
                    /\ when[e] # 0 /\ when[e] <= cursor
                    /\ e \in events => Whole(when[e]) \in read

CustodyInv == CustodyTypeOK /\ Clocked /\ Asked /\ Copied /\ EventsAccounted

LEMMA CustodyStarts == CustodyInit => CustodyInv
BY CustodyAssumption DEF CustodyInit, CustodyInv, CustodyTypeOK, Clocked, Asked, Copied,
   EventsAccounted, MissingExplained, RepeatsExplained

LEMMA CustodyStep == CustodyInv /\ [CustodyNext]_custodyVars => CustodyInv'
<1> SUFFICES ASSUME CustodyInv, [CustodyNext]_custodyVars PROVE CustodyInv'
  OBVIOUS
<1> USE DEF CustodyInv, EventsAccounted
<1>t. /\ now \in Nat /\ cursor \in Nat /\ asked \in Nat
      /\ \A e \in Occurrence : when[e] \in Nat /\ worm[e] \in 0..2
  BY CustodyAssumption DEF CustodyTypeOK
<1>1. CASE Tick
  <2>1. CustodyTypeOK'
    BY <1>1, CustodyAssumption DEF Tick, CustodyTypeOK
  <2>2. Clocked'
    BY <1>1, <1>t DEF Tick, Clocked
  <2>3. Asked' /\ Copied' /\ EventsAccounted'
    BY <1>1 DEF Tick, Asked, Copied, Since, Whole, MissingExplained, RepeatsExplained
  <2> QED
    BY <2>1, <2>2, <2>3
<1>2. ASSUME NEW o \in Occurrence, Occur(o) PROVE CustodyInv'
  <2>1. /\ when[o] = 0 /\ when' = [when EXCEPT ![o] = now] /\ now >= Whole(cursor) /\ now # 0
        /\ when'[o] = now /\ \A e \in Occurrence : e # o => when'[e] = when[e]
    BY <1>2, <1>t, Seconds DEF Occur, CustodyTypeOK, Clocked
  <2>2. CustodyTypeOK'
    BY <1>2, <2>1, CustodyAssumption DEF Occur, CustodyTypeOK
  <2>3. Clocked'
    BY <1>2, <1>t, <2>1 DEF Occur, Clocked
  <2>4. Asked'
    <3>1. CASE cycle = "asked"
      <4>1. \A e \in Occurrence :
               e \in Since(Whole(cursor)) => e # o /\ e \in Since(Whole(cursor))'
        BY <1>2, <2>1 DEF Occur, Since, Whole
      <4>2. \A e \in Since(Whole(cursor))' : when'[e] < asked' => e \in events'
        BY <1>2, <1>t, <2>1, <3>1 DEF Occur, Since, Whole, Asked, Clocked
      <4> QED
        BY <1>2, <3>1, <4>1, <4>2 DEF Occur, Asked, CustodyTypeOK
    <3>2. CASE cycle # "asked"
      BY <1>2, <2>1, <3>2 DEF Occur, Asked, CustodyTypeOK
    <3> QED
      BY <3>1, <3>2
  <2>5. Copied'
    <3>1. restarts = 0 => worm[o] = 0
      BY <2>1, <1>t DEF Copied
    <3> QED
      BY <1>2, <1>t, <2>1, <3>1 DEF Occur, Copied, Whole
  <2>6. MissingExplained'
    BY <1>2, <2>1 DEF Occur, MissingExplained, Whole
  <2>7. RepeatsExplained'
    <3>1. restarts = 0 => worm[o] = 0
      BY <2>1, <1>t DEF Copied
    <3> QED
      BY <1>2, <1>t, <2>1, <3>1 DEF Occur, RepeatsExplained, Whole
  <2> QED
    BY <2>2, <2>3, <2>4, <2>5, <2>6, <2>7
<1>3. CASE Ask
  <2>1. CustodyTypeOK'
    BY <1>3, CustodyAssumption DEF Ask, CustodyTypeOK, Since
  <2>2. Clocked' /\ Asked'
    BY <1>3, <1>t DEF Ask, Clocked, Asked, Since, Whole
  <2>3. Copied'
    <3>1. ASSUME NEW e \in Occurrence, restarts = 0, worm[e] > 0, e \in Since(Whole(cursor))
          PROVE  Whole(when[e]) \in read
      <4>1. when[e] # 0 /\ when[e] <= cursor /\ when[e] >= Whole(cursor)
        BY <3>1 DEF Copied, Since
      <4>2. Whole(when[e]) = Whole(cursor) /\ cursor # 0
        BY <1>t, <4>1, SameSecond
      <4> QED
        BY <3>1, <4>2 DEF Copied
    <3> QED
      BY <1>3, <3>1 DEF Ask, Copied, Whole
  <2>4. EventsAccounted'
    BY <1>3 DEF Ask, Asked, MissingExplained, RepeatsExplained, Whole
  <2> QED
    BY <2>1, <2>2, <2>3, <2>4
<1>4. CASE AskFails
  <2>1. CustodyTypeOK'
    BY <1>4, CustodyAssumption DEF AskFails, Unanswered, CustodyTypeOK
  <2>2. Clocked' /\ Asked' /\ Copied' /\ RepeatsExplained'
    BY <1>4, <1>t DEF AskFails, Unanswered, Clocked, Asked, Copied, Whole, RepeatsExplained
  <2>3. MissingExplained'
    BY <1>4 DEF AskFails, Unanswered, Asked, Since, MissingExplained, Whole
  <2> QED
    BY <2>1, <2>2, <2>3
<1>5. CASE Read
  <2>1. /\ cycle = "asked" /\ cursor' = now /\ asked' = 0
        /\ gap' = gap \union {e \in Since(asked) : when[e] < Whole(now)}
        /\ read' = read \union {Whole(now)}
        /\ cycle' = IF events = {} THEN "idle" ELSE "ingesting"
        /\ UNCHANGED <<now, when, events, worm, dropped, restarts>>
    BY <1>5 DEF Read
  <2>2. CustodyTypeOK'
    <3>1. Whole(now) \in 0..MaxTime
      BY <1>t, Seconds, CustodyAssumption DEF CustodyTypeOK
    <3>2. now \in 0..MaxTime /\ gap' \subseteq Occurrence /\ read' \subseteq 0..MaxTime
      <4>1. now \in 0..MaxTime
        BY CustodyAssumption DEF CustodyTypeOK
      <4>2. gap' \subseteq Occurrence
        BY <2>1 DEF CustodyTypeOK, Since
      <4>3. read' \subseteq 0..MaxTime
        BY <2>1, <3>1 DEF CustodyTypeOK
      <4> QED
        BY <4>1, <4>2, <4>3
    <3> QED
      BY <2>1, <3>2, CustodyAssumption DEF CustodyTypeOK
  <2>3. Clocked'
    BY <1>t, <2>1 DEF Clocked
  <2>4. Asked'
    BY <1>t, <2>1 DEF Asked, Clocked, Since
  <2>5. Copied'
    BY <1>t, <2>1 DEF Copied, Clocked, Whole
  <2>6. MissingExplained'
    <3>1. ASSUME NEW e \in Occurrence, when[e] # 0, worm[e] = 0
          PROVE  e \in events \/ when[e] >= Whole(now) \/ e \in dropped \/ e \in gap'
      <4>1. CASE when[e] >= Whole(cursor) /\ when[e] < asked
        BY <2>1, <3>1, <4>1 DEF Asked, Since
      <4>2. CASE ~(when[e] < asked)
        <5>1. e \in Since(asked)
          BY <1>t, <3>1, <4>2 DEF Since
        <5>2. when[e] < Whole(now) \/ when[e] >= Whole(now)
          BY <1>t, Seconds
        <5> QED
          BY <2>1, <5>1, <5>2
      <4> QED
        BY <2>1, <3>1, <4>1, <4>2 DEF MissingExplained
    <3> QED
      BY <2>1, <3>1 DEF MissingExplained, Whole
  <2>7. RepeatsExplained'
    BY <2>1 DEF RepeatsExplained, Whole
  <2> QED
    BY <2>2, <2>3, <2>4, <2>5, <2>6, <2>7
<1>6. ASSUME NEW o \in Occurrence, Ingest(o) PROVE CustodyInv'
  <2>0. PICK emission \in Emission :
        /\ worm' = IF Stored(emission) THEN [worm EXCEPT ![o] = Min({@ + 1, 2})] ELSE worm
        /\ dropped' = IF Stored(emission) THEN dropped ELSE dropped \union {o}
    BY <1>6 DEF Ingest
  <2>1. /\ cycle = "ingesting" /\ o \in events /\ events' = events \ {o}
        /\ cycle' = IF events = {o} THEN "idle" ELSE "ingesting"
        /\ UNCHANGED <<now, when, cursor, asked, gap, read, restarts>>
    BY <1>6 DEF Ingest
  <2>2. ASSUME NEW k \in 0..2 PROVE Min({k + 1, 2}) = IF k = 2 THEN 2 ELSE k + 1
    BY DEF Min
  <2>3. /\ worm'[o] \in 0..2 /\ worm'[o] >= worm[o]
        /\ \A e \in Occurrence : e # o => worm'[e] = worm[e]
        /\ worm' \in [Occurrence -> 0..2]
        /\ Stored(emission) => worm'[o] > 0
        /\ worm'[o] > 1 => worm[o] > 0
    <3>1. Min({worm[o] + 1, 2}) = IF worm[o] = 2 THEN 2 ELSE worm[o] + 1
      BY <1>t, <2>2
    <3>2. CASE ~Stored(emission)
      BY <1>t, <2>0, <3>2 DEF CustodyTypeOK
    <3>3. CASE Stored(emission)
      <4>1. worm' = [worm EXCEPT ![o] = IF worm[o] = 2 THEN 2 ELSE worm[o] + 1]
        BY <2>0, <3>1, <3>3
      <4> QED
        BY <1>t, <4>1 DEF CustodyTypeOK
    <3> QED
      BY <3>2, <3>3
  <2>4. CustodyTypeOK'
    BY <2>0, <2>1, <2>3, CustodyAssumption DEF CustodyTypeOK
  <2>5. Clocked' /\ Asked'
    BY <1>t, <2>1 DEF Clocked, Asked
  <2>6. Copied'
    BY <1>t, <2>1, <2>3 DEF Copied, Asked, Whole
  <2>7. MissingExplained'
    <3>1. Whole(cursor)' = Whole(cursor)
      BY <2>1 DEF Whole
    <3>2. o \in dropped' \/ worm'[o] > 0
      BY <2>0, <2>3 DEF Stored
    <3>3. dropped \subseteq dropped'
      BY <2>0
    <3>4. ASSUME NEW e \in Occurrence, when[e] # 0, worm'[e] = 0
          PROVE  e \in events' \/ when[e] >= Whole(cursor) \/ e \in dropped' \/ e \in gap'
      <4>1. worm[e] = 0
        BY <1>t, <2>3, <3>4
      <4> QED
        BY <2>1, <3>2, <3>3, <3>4, <4>1 DEF MissingExplained
    <3> QED
      BY <2>1, <3>1, <3>4 DEF MissingExplained
  <2>8. RepeatsExplained'
    BY <1>t, <2>1, <2>3 DEF RepeatsExplained, Copied, Whole
  <2> QED
    BY <2>4, <2>5, <2>6, <2>7, <2>8
<1>7. CASE Restart
  <2>1. /\ restarts' = restarts + 1 /\ restarts < MaxRestarts
        /\ cycle' = "idle" /\ cursor' = 0 /\ events' = {} /\ asked' = 0
        /\ UNCHANGED <<now, when, worm, dropped, gap, read>>
    BY <1>7 DEF Restart
  <2>2. restarts \in Nat /\ restarts' # 0
    BY <2>1, CustodyAssumption DEF CustodyTypeOK
  <2>3. CustodyTypeOK'
    BY <2>1, <2>2, CustodyAssumption DEF CustodyTypeOK
  <2>4. Clocked' /\ Asked' /\ Copied' /\ RepeatsExplained'
    BY <1>t, <2>1, <2>2 DEF Clocked, Asked, Copied, RepeatsExplained
  <2>5. MissingExplained'
    BY <1>t, <2>1, Seconds DEF MissingExplained, Whole
  <2> QED
    BY <2>3, <2>4, <2>5
<1>8. CASE UNCHANGED custodyVars
  BY <1>8 DEF custodyVars, CustodyTypeOK, Clocked, Asked, Copied, MissingExplained,
     RepeatsExplained, Since, Whole
<1> QED
  BY <1>1, <1>2, <1>3, <1>4, <1>5, <1>6, <1>7, <1>8 DEF CustodyNext

-----------------------------------------------------------------------------
(***************************************************************************)
(* The backup catalog.  The list in memory is the catalog but for the      *)
(* backups that have changed since; and a backup that it has as completed  *)
(* covers the same times for good, even when it has expired.               *)
(***************************************************************************)
Kept(b) == cache[b].status = "completed" =>
    /\ catalog[b].status \in {"completed", "expired"}
    /\ catalog[b].from = cache[b].from /\ catalog[b].to = cache[b].to

CatalogInv ==
    /\ CatalogTypeOK /\ CoverageHonest
    /\ \A b \in Backup \ changed : cache[b] = Listing[b]
    /\ \A b \in Backup : Kept(b)

LEMMA CatalogStarts == CatalogInit => CatalogInv
<1> SUFFICES ASSUME CatalogInit PROVE CatalogInv
  OBVIOUS
<1>1. CatalogTypeOK
  BY CatalogAssumption DEF CatalogInit, CatalogTypeOK, NoQuery
<1> QED
  BY <1>1 DEF CatalogInit, CatalogInv, CoverageHonest, NoQuery, Kept, Listing, Missing

\* A change leaves no answer to be judged.
LEMMA ChangeKeeps ==
    ASSUME CatalogInv, NEW b \in Backup, NEW e \in Entry \union {Missing}, Change(b, e),
           catalog[b].status = "completed" =>
              e.status = "expired" /\ e.from = catalog[b].from /\ e.to = catalog[b].to,
           catalog[b].status # "expired"
    PROVE  CatalogInv'
<1>1. /\ catalog' = [catalog EXCEPT ![b] = e] /\ cache' = cache
      /\ changed' = changed \union {b} /\ query' = NoQuery
  BY DEF Change
<1>2. CatalogTypeOK'
  <2>1. query' \in [asOf : 0..MaxMoment, forced : BOOLEAN,
                    answer : {"none", "covered", "gap", "empty", "raised"}, by : SUBSET Backup]
    BY <1>1, CatalogAssumption DEF NoQuery
  <2> QED
    BY <1>1, <2>1 DEF CatalogInv, CatalogTypeOK
<1>3. CoverageHonest'
  BY <1>1 DEF CoverageHonest, NoQuery
<1>4. ASSUME NEW c \in Backup \ changed' PROVE cache'[c] = Listing'[c]
  <2>1. c # b /\ c \in Backup \ changed /\ catalog'[c] = catalog[c]
    BY <1>1, <1>4 DEF CatalogInv, CatalogTypeOK
  <2> QED
    BY <1>1, <2>1 DEF CatalogInv, Listing
<1>5. ASSUME NEW c \in Backup PROVE Kept(c)'
  <2>1. CASE c # b
    BY <1>1, <2>1 DEF CatalogInv, CatalogTypeOK, Kept
  <2>2. CASE c = b
    BY <1>1, <2>2 DEF CatalogInv, CatalogTypeOK, Kept
  <2> QED
    BY <2>1, <2>2
<1> QED
  BY <1>2, <1>3, <1>4, <1>5 DEF CatalogInv

\* What the catalog lists as covering a time is what can be restored to it.
LEMMA CoveringIsRestorable ==
    ASSUME CatalogTypeOK, NEW asOf \in Moment
    PROVE  /\ Covering(Listing, asOf) = Restorable(asOf)
           /\ Covering(Nothing, asOf) = {}
<1>1. ASSUME NEW b \in Backup
      PROVE  Covers(Listing[b], asOf) <=>
                catalog[b].status = "completed" /\ asOf \in catalog[b].from..catalog[b].to
  BY <1>1, CatalogAssumption DEF CatalogTypeOK, Covers, Moment, Entry, Missing, Listing
<1>2. ASSUME NEW b \in Backup PROVE ~Covers(Nothing[b], asOf)
  BY <1>2 DEF Covers, Nothing, Missing
<1> QED
  BY <1>1, <1>2 DEF Covering, Restorable

\* What the list in memory says of a time is wrong only about what has changed.
LEMMA MemoryIsStale ==
    ASSUME CatalogInv, NEW asOf \in Moment
    PROVE  /\ Covering(cache, asOf) \ Restorable(asOf) \subseteq changed
           /\ Restorable(asOf) \ Covering(cache, asOf) \subseteq changed
           /\ \A b \in Covering(cache, asOf) :
                 /\ catalog[b].status \in {"completed", "expired"}
                 /\ asOf \in catalog[b].from..catalog[b].to
<1>1. ASSUME NEW b \in Backup, b \notin changed
      PROVE  b \in Covering(cache, asOf) <=> b \in Restorable(asOf)
  <2>1. b \in Covering(cache, asOf) <=> b \in Covering(Listing, asOf)
    BY <1>1 DEF CatalogInv, Covering
  <2> QED
    BY <2>1, CoveringIsRestorable DEF CatalogInv
<1>2. Covering(cache, asOf) \subseteq Backup /\ Restorable(asOf) \subseteq Backup
  BY DEF Covering, Restorable
<1>3. ASSUME NEW b \in Covering(cache, asOf)
      PROVE  /\ catalog[b].status \in {"completed", "expired"}
             /\ asOf \in catalog[b].from..catalog[b].to
  <2>1. b \in Backup /\ cache[b].status = "completed" /\ cache[b].from <= asOf /\ asOf <= cache[b].to
    BY <1>3 DEF Covering, Covers
  <2>2. /\ catalog[b].status \in {"completed", "expired"}
        /\ catalog[b].from = cache[b].from /\ catalog[b].to = cache[b].to
    BY <2>1 DEF CatalogInv, Kept
  <2>3. cache[b] \in Entry \union {Missing}
    BY <2>1 DEF CatalogInv, CatalogTypeOK
  <2>4. cache[b].from \in Int /\ cache[b].to \in Int
    BY <2>1, <2>3, CatalogAssumption DEF Entry, Missing, Moment
  <2> QED
    BY <2>1, <2>2, <2>4, CatalogAssumption DEF Moment
<1> QED
  BY <1>1, <1>2, <1>3

\* The type of an answer, and what it is an answer about.
LEMMA AnswerTyped ==
    ASSUME NEW asOf \in Moment, NEW forced \in BOOLEAN, NEW entries,
           Answers(asOf, forced, entries)
    PROVE  /\ query' \in [asOf : 0..MaxMoment, forced : BOOLEAN,
                          answer : {"none", "covered", "gap", "empty", "raised"},
                          by : SUBSET Backup]
           /\ query'.asOf = asOf /\ query'.forced = forced
           /\ query'.by = Covering(entries, asOf)
           /\ query'.answer = "covered" => Covering(entries, asOf) # {}
           /\ query'.answer = "gap" => entries # Nothing
<1> DEFINE by     == Covering(entries, asOf)
           answer == CASE by # {} -> "covered"
                       [] entries = Nothing -> "empty"
                       [] OTHER -> "gap"
<1>1. query' = [asOf |-> asOf, forced |-> forced, by |-> by, answer |-> answer]
  BY DEF Answers
<1>2. by \subseteq Backup
  BY DEF Covering
<1>3. /\ answer \in {"covered", "gap", "empty"} /\ (answer = "covered" => by # {})
      /\ (answer = "gap" => entries # Nothing \/ by # {})
  OBVIOUS
<1>4. answer = "gap" => entries # Nothing
  OBVIOUS
<1>5. asOf \in 0..MaxMoment
  BY CatalogAssumption DEF Moment
<1> HIDE DEF by, answer
<1>6. query' \in [asOf : 0..MaxMoment, forced : BOOLEAN,
                  answer : {"none", "covered", "gap", "empty", "raised"}, by : SUBSET Backup]
  BY <1>1, <1>2, <1>3, <1>5
<1>7. query'.asOf = asOf /\ query'.forced = forced /\ query'.by = by /\ query'.answer = answer
  BY <1>1
<1> QED
  BY <1>3, <1>4, <1>6, <1>7 DEF by

LEMMA CatalogStep == CatalogInv /\ [CatalogNext]_catalogVars => CatalogInv'
<1> SUFFICES ASSUME CatalogInv, [CatalogNext]_catalogVars PROVE CatalogInv'
  OBVIOUS
<1>t. CatalogTypeOK
  BY DEF CatalogInv
<1>1. ASSUME NEW b \in Backup, Begin(b) PROVE CatalogInv'
  <2>1. PICK from \in Moment : Change(b, [status |-> "running", from |-> from, to |-> 0])
    BY <1>1 DEF Begin
  <2>2. [status |-> "running", from |-> from, to |-> 0] \in Entry
    BY DEF Entry
  <2>3. catalog[b].status = "missing"
    BY <1>1 DEF Begin, Missing
  <2> QED
    BY <2>1, <2>2, <2>3, ChangeKeeps
<1>2. ASSUME NEW b \in Backup, End(b) PROVE CatalogInv'
  <2>1. catalog[b] \in Entry /\ catalog[b].from \in Moment /\ catalog[b].status = "running"
    BY <1>t, <1>2 DEF End, CatalogTypeOK, Entry, Missing
  <2>2. \A to \in catalog[b].from..MaxMoment : to \in Moment
    BY <2>1, CatalogAssumption DEF Moment
  <2>3. \A to \in Moment :
           [status |-> "completed", from |-> catalog[b].from, to |-> to] \in Entry
    BY <2>1 DEF Entry
  <2>4. [catalog[b] EXCEPT !.status = "failed"] \in Entry
    BY <2>1 DEF Entry
  <2> QED
    BY <1>2, <2>1, <2>2, <2>3, <2>4, ChangeKeeps DEF End
<1>3. ASSUME NEW b \in Backup, Expire(b) PROVE CatalogInv'
  <2> DEFINE e == [catalog[b] EXCEPT !.status = "expired"]
  <2>1. catalog[b] \in Entry /\ catalog[b].status \in {"completed", "failed"}
    BY <1>t, <1>3 DEF Expire, CatalogTypeOK, Entry, Missing
  <2>2. e \in Entry /\ e.status = "expired" /\ e.from = catalog[b].from /\ e.to = catalog[b].to
    BY <2>1, CatalogAssumption DEF Entry, Moment
  <2>3. Change(b, e)
    BY <1>3 DEF Expire
  <2> HIDE DEF e
  <2> QED
    BY <2>1, <2>2, <2>3, ChangeKeeps
<1>4. ASSUME NEW asOf \in Moment, NEW forced \in BOOLEAN, Query(asOf, forced)
      PROVE  CatalogInv'
  <2>0. catalog' = catalog /\ Listing' = Listing /\ Restorable(asOf)' = Restorable(asOf)
    BY <1>4 DEF Query, Listing, Restorable
  <2>1. CASE FromCache(asOf, forced)
    <3>1. Answers(asOf, forced, cache) /\ cache' = cache /\ changed' = changed /\ ~forced
      BY <2>1 DEF FromCache, Cached
    <3>2. CatalogTypeOK'
      BY <1>t, <2>0, <3>1, AnswerTyped DEF CatalogTypeOK
    <3>3. query'.asOf = asOf /\ query'.forced = forced /\ query'.by = Covering(cache, asOf)
      BY <3>1, AnswerTyped
    <3>4. CoverageHonest'
      BY <2>0, <3>1, <3>3, MemoryIsStale DEF CoverageHonest, Wrong, Restorable
    <3> QED
      BY <2>0, <3>1, <3>2, <3>4 DEF CatalogInv, Kept, Listing
  <2>2. CASE Lists(asOf, forced)
    <3>1. Answers(asOf, forced, Listing) /\ cache' = Listing /\ changed' = {}
      BY <2>2 DEF Lists
    <3>2. Listing \in [Backup -> Entry \union {Missing}]
      BY <1>t DEF Listing, CatalogTypeOK
    <3>3. CatalogTypeOK'
      BY <1>t, <2>0, <3>1, <3>2, AnswerTyped DEF CatalogTypeOK
    <3>4. query'.asOf = asOf /\ query'.by = Restorable(asOf)
      BY <1>t, <3>1, AnswerTyped, CoveringIsRestorable
    <3>5. CoverageHonest'
      BY <2>0, <3>4 DEF CoverageHonest, Wrong, Restorable
    <3>6. ASSUME NEW b \in Backup PROVE Kept(b)'
      BY <2>0, <3>1 DEF Kept, Listing, Missing
    <3> QED
      BY <2>0, <3>1, <3>3, <3>5, <3>6 DEF CatalogInv
  <2>3. CASE ListingFails(asOf, forced)
    <3>1. Answers(asOf, forced, Nothing) /\ cache' = cache /\ changed' = changed
      BY <2>3 DEF ListingFails
    <3>2. CatalogTypeOK'
      BY <1>t, <2>0, <3>1, AnswerTyped DEF CatalogTypeOK
    <3>3. query'.answer \notin {"covered", "gap"}
      BY <1>t, <3>1, AnswerTyped, CoveringIsRestorable
    <3> QED
      BY <2>0, <3>1, <3>2, <3>3 DEF CatalogInv, CoverageHonest, Kept, Listing
  <2>4. CASE Raises(asOf, forced)
    <3>1. /\ query' = [asOf |-> asOf, forced |-> forced, answer |-> "raised", by |-> {}]
          /\ cache' = cache /\ changed' = changed
      BY <2>4 DEF Raises
    <3>2. CatalogTypeOK'
      BY <1>t, <2>0, <3>1, CatalogAssumption DEF CatalogTypeOK, Moment
    <3> QED
      BY <2>0, <3>1, <3>2 DEF CatalogInv, CoverageHonest, Kept, Listing
  <2> QED
    BY <1>4, <2>1, <2>2, <2>3, <2>4 DEF Query
<1>5. CASE UNCHANGED catalogVars
  BY <1>5 DEF catalogVars, CatalogInv, CatalogTypeOK, CoverageHonest, Kept, Listing, Wrong, Restorable
<1> QED
  BY <1>1, <1>2, <1>3, <1>4, <1>5 DEF CatalogNext

-----------------------------------------------------------------------------
(***************************************************************************)
(* The posture.  A baseline has the controls that every baseline has had.  *)
(***************************************************************************)
PostureInv == /\ PostureTypeOK /\ AttestedHolds
              /\ baseline # {"none"} => required \subseteq baseline

LEMMA PostureStarts == PostureInit => PostureInv
BY DEF PostureInit, PostureInv, PostureTypeOK, AttestedHolds

LEMMA PostureStep == PostureInv /\ [PostureNext]_postureVars => PostureInv'
<1> SUFFICES ASSUME PostureInv, [PostureNext]_postureVars PROVE PostureInv'
  OBVIOUS
<1> USE DEF PostureInv
<1>1. ASSUME NEW c \in Control, Alter(c) PROVE PostureInv'
  BY <1>1 DEF Alter, Rest, PostureTypeOK, AttestedHolds
<1>2. CASE Capture
  BY <1>2 DEF Capture, Captures, Rest, PostureTypeOK, AttestedHolds
<1>3. CASE Verify
  <2>1. UNCHANGED <<live, baseline, required>>
    BY <1>3 DEF Verify
  <2>2. CASE baseline = {"none"}
    BY <1>3, <2>1, <2>2 DEF Verify, PostureTypeOK, AttestedHolds
  <2>3. ASSUME NEW seen \in Captures, NEW emission \in Emission, baseline # {"none"},
               record' = IF Stored(emission) THEN RecordOf(Drift(seen, baseline)) ELSE "none",
               raised' = CASE ~Returns(emission) -> "sink_error"
                           [] Returns(emission) /\ Drift(seen, baseline) = {} -> "nothing"
                           [] Returns(emission) /\ Drift(seen, baseline) # {} -> "drift"
        PROVE  PostureInv'
    <3>1. PostureTypeOK'
      BY <2>1, <2>3 DEF PostureTypeOK, RecordOf, Returns
    <3>2. raised' = "drift" => record' = "drift"
      BY <2>3 DEF RecordOf, Returns, Stored
    <3>3. ASSUME record' = "attested", NEW c \in required \ live
          PROVE  c \in Index /\ live \intersect Index # {}
      <4>1. Drift(seen, baseline) = {}
        BY <2>3, <3>3 DEF RecordOf
      <4>2. c \in baseline \ seen /\ seen \subseteq live
        BY <2>3, <3>3 DEF Captures
      <4> QED
        BY <4>1, <4>2 DEF Drift
    <3> QED
      BY <2>1, <3>1, <3>2, <3>3 DEF AttestedHolds
  <2> QED
    BY <1>3, <2>2, <2>3 DEF Verify
<1>4. CASE UNCHANGED postureVars
  BY <1>4 DEF postureVars, PostureTypeOK, AttestedHolds
<1> QED
  BY <1>1, <1>2, <1>3, <1>4 DEF PostureNext

-----------------------------------------------------------------------------
(***************************************************************************)
(* The drift scans.  While a scan emits, what it has found is what it has  *)
(* put on record and what it has still to emit.                            *)
(***************************************************************************)
Split == evidence \intersect alerts = {}
            /\ count = Cardinality(evidence) + Cardinality(alerts)

DriftInv ==
    /\ DriftTypeOK
    /\ IsFiniteSet(alerts) /\ IsFiniteSet(evidence)
    /\ loop \in {"scan", "emit"} => turn \in Turns
    /\ loop = "emit" => Split
    /\ CountedIsEvident

LEMMA DriftStarts == DriftInit => DriftInv
<1> SUFFICES ASSUME DriftInit PROVE DriftInv
  OBVIOUS
<1>1. turn = 1 /\ turn \in Turns /\ turn \in 1..(Len(Tenants) + 1)
  BY DriftAssumption DEF DriftInit, Turns
<1>2. DriftTypeOK
  <2>1. results \in [Turns -> Int]
    BY DEF DriftInit
  <2> QED
    BY <1>1, <2>1 DEF DriftInit, DriftTypeOK
<1> QED
  BY <1>1, <1>2, FS_EmptySet DEF DriftInit, DriftInv, CountedIsEvident

\* A threshold raises one alert at most, of its own detector.
LEMMA GradedAlerts ==
    ASSUME NEW detector \in {"D1", "D2", "D3", "D4"}, NEW n \in Nat,
           NEW threshold \in Nat, NEW high \in Nat
    PROVE  LET raise == Graded(detector, n, threshold, high)
           IN  /\ raise \subseteq Alert /\ IsFiniteSet(raise)
               /\ \A a \in raise : a.detector = detector
<1> DEFINE severity == IF n >= high THEN "high" ELSE "medium"
<1>1. Graded(detector, n, threshold, high) \in {{}, {[detector |-> detector, severity |-> severity]}}
  BY DEF Graded
<1>2. severity \in {"medium", "high"}
  OBVIOUS
<1> HIDE DEF severity
<1> QED
  BY <1>1, <1>2, FS_EmptySet, FS_Singleton DEF Alert

LEMMA WriteShiftAlerts ==
    ASSUME NEW h \in History
    PROVE  /\ WriteShift(h) \subseteq Alert /\ IsFiniteSet(WriteShift(h))
           /\ Sleeper(h) \subseteq Alert /\ IsFiniteSet(Sleeper(h))
           /\ \A a \in Sleeper(h) : a.detector = "D4"
<1>1. WriteShift(h) \in {{}, {[detector |-> "D2", severity |-> "high"]},
                         {[detector |-> "D2", severity |-> "medium"]}}
  BY DEF WriteShift
<1>2. Sleeper(h) \in {{}, {[detector |-> "D4", severity |-> "high"]}}
  BY DEF Sleeper
<1>3. ASSUME NEW a \in Alert PROVE {a} \subseteq Alert /\ IsFiniteSet({a})
  BY FS_Singleton
<1>a. /\ [detector |-> "D2", severity |-> "high"] \in Alert
      /\ [detector |-> "D2", severity |-> "medium"] \in Alert
      /\ [detector |-> "D4", severity |-> "high"] \in Alert
  BY DEF Alert
<1>4. WriteShift(h) \subseteq Alert /\ IsFiniteSet(WriteShift(h))
  BY <1>1, <1>3, <1>a, FS_EmptySet
<1>5. Sleeper(h) \subseteq Alert /\ IsFiniteSet(Sleeper(h))
  BY <1>2, <1>3, <1>a, FS_EmptySet
<1> QED
  BY <1>2, <1>4, <1>5

LEMMA FindingsFinite ==
    ASSUME NEW found \in Findings
    PROVE  found \subseteq Alert /\ IsFiniteSet(found)
<1>1. PICK n \in Amount, m \in Amount, h \in History :
         found = ContradictionBurst(n) \union OriginCluster(m) \union WriteShift(h) \union Sleeper(h)
  BY DEF Findings
<1>2. n \in Nat /\ m \in Nat
  BY DriftAssumption
<1>3. ContradictionBurst(n) \subseteq Alert /\ IsFiniteSet(ContradictionBurst(n))
  BY <1>2, GradedAlerts, DriftAssumption DEF ContradictionBurst
<1>4. OriginCluster(m) \subseteq Alert /\ IsFiniteSet(OriginCluster(m))
  BY <1>2, GradedAlerts, DriftAssumption DEF OriginCluster
<1>5. IsFiniteSet(ContradictionBurst(n) \union OriginCluster(m))
  BY <1>3, <1>4, FS_Union
<1>6. IsFiniteSet(ContradictionBurst(n) \union OriginCluster(m) \union WriteShift(h))
  BY <1>5, WriteShiftAlerts, FS_Union
<1>7. IsFiniteSet(found)
  BY <1>1, <1>6, WriteShiftAlerts, FS_Union
<1> QED
  BY <1>1, <1>3, <1>4, <1>7, WriteShiftAlerts

LEMMA DriftStep == DriftInv /\ [DriftNext]_driftVars => DriftInv'
<1> SUFFICES ASSUME DriftInv, [DriftNext]_driftVars PROVE DriftInv'
  OBVIOUS
<1> USE DEF DriftInv
<1>t. /\ turn \in Nat /\ Len(Tenants) \in Nat \ {0} /\ count \in Nat
      /\ Cardinality(evidence) \in Nat /\ Cardinality(alerts) \in Nat
  BY FS_CardinalityType, DriftAssumption DEF DriftTypeOK
\* The next tenant, with the result of this one.
<1>n. ASSUME NEW result \in Int, turn \in Nat, loop \in {"scan", "emit"}, NextTurn,
             results' = [results EXCEPT ![turn] = result],
             UNCHANGED stop, connection' \in {"usable", "aborted"},
             evidence' \subseteq Alert, IsFiniteSet(evidence'),
             result < 0 \/ Cardinality(evidence') = result
      PROVE  DriftInv'
  <2>1. /\ turn' = turn + 1 /\ alerts' = {} /\ count' = 0
        /\ loop' = IF turn = Len(Tenants) THEN "sleep" ELSE "scan"
    BY <1>n DEF NextTurn
  <2>2. turn \in Turns
    BY <1>n
  <2>3. results' \in [Turns -> Int] /\ results'[turn' - 1] = result
    BY <1>t, <1>n, <2>1, <2>2 DEF DriftTypeOK
  <2>4. turn' \in 1..(Len(Tenants) + 1) /\ (loop' = "scan" => turn' \in Turns)
    BY <1>t, <2>1, <2>2 DEF Turns
  <2>5. DriftTypeOK'
    BY <1>n, <2>1, <2>3, <2>4 DEF DriftTypeOK, Turns
  <2> QED
    BY <1>n, <2>1, <2>3, <2>4, <2>5, FS_EmptySet DEF CountedIsEvident, Turns
\* And after a failure.
<1>f. ASSUME loop \in {"scan", "emit"}, Failed,
             UNCHANGED stop, connection' \in {"usable", "aborted"},
             evidence' \subseteq Alert, IsFiniteSet(evidence')
      PROVE  DriftInv'
  <2>1. PICK result \in Int : result = -1
    OBVIOUS
  <2>2. results' = [results EXCEPT ![turn] = result] /\ result < 0 /\ NextTurn
    BY <1>f, <2>1 DEF Failed
  <2> QED
    BY <1>n, <1>t, <1>f, <2>2
<1>1. CASE Scan
  <2>1. /\ loop = "scan" /\ connection' = connection /\ stop' = stop /\ evidence' = {}
    BY <1>1 DEF Scan
  <2>2. PICK found \in Findings :
          IF found = {}
          THEN NextTurn /\ results' = [results EXCEPT ![turn] = 0]
          ELSE /\ loop' = "emit" /\ alerts' = found /\ count' = Cardinality(found)
               /\ UNCHANGED <<turn, results>>
    BY <1>1 DEF Scan
  <2>3. CASE found = {}
    BY <1>n, <1>t, <2>1, <2>2, <2>3, FS_EmptySet DEF DriftTypeOK
  <2>4. CASE found # {}
    <3>1. found \subseteq Alert /\ IsFiniteSet(found) /\ Cardinality(found) \in Nat
      BY FindingsFinite, FS_CardinalityType
    <3>2. DriftTypeOK'
      BY <2>1, <2>2, <2>4, <3>1 DEF DriftTypeOK, Turns
    <3>3. Split'
      BY <2>1, <2>2, <2>4, <3>1, FS_EmptySet DEF Split
    <3> QED
      BY <2>1, <2>2, <2>4, <3>1, <3>2, <3>3, FS_EmptySet DEF CountedIsEvident, Turns
  <2> QED
    BY <2>3, <2>4
<1>2. CASE ScanFails
  <2>1. /\ loop = "scan" /\ Failed
        /\ stop' = stop /\ evidence' = {} /\ connection' \in {"usable", "aborted"}
    BY <1>2 DEF ScanFails, DriftTypeOK
  <2> QED
    BY <1>f, <2>1, FS_EmptySet
<1>3. ASSUME NEW a \in Alert, Emit1(a) PROVE DriftInv'
  <2>1. /\ loop = "emit" /\ a \in alerts /\ UNCHANGED <<connection, stop>>
    BY <1>3 DEF Emit1
  <2>2. PICK emission \in Emission :
          /\ evidence' = IF Stored(emission) THEN evidence \union {a} ELSE evidence
          /\ IF Returns(emission) THEN Emitted1(a) ELSE Blocked(a)
    BY <1>3 DEF Emit1
  <2>3. /\ evidence' \subseteq Alert /\ IsFiniteSet(evidence')
        /\ Stored(emission) => Cardinality(evidence') = Cardinality(evidence) + 1
    <3>1. a \notin evidence
      BY <2>1 DEF Split
    <3> QED
      BY <2>1, <2>2, <3>1, FS_AddElement DEF DriftTypeOK
  <2>4. /\ IsFiniteSet(alerts \ {a})
        /\ Cardinality(alerts \ {a}) = Cardinality(alerts) - 1
    BY <2>1, FS_RemoveElement
  <2>5. CASE ~Returns(emission)
    BY <1>f, <2>1, <2>2, <2>3, <2>5 DEF Blocked, DriftTypeOK
  <2>6. CASE Returns(emission) /\ alerts = {a}
    <3>1. NextTurn /\ results' = [results EXCEPT ![turn] = count]
      BY <2>2, <2>6 DEF Emitted1
    <3>2. Cardinality(evidence') = count
      BY <1>t, <2>1, <2>3, <2>6, FS_Singleton DEF Split, Returns, Stored
    <3>3. count \in Int /\ connection' \in {"usable", "aborted"}
      BY <1>t, <2>1 DEF DriftTypeOK
    <3> QED
      BY <1>n, <1>t, <2>1, <2>3, <3>1, <3>2, <3>3
  <2>7. CASE Returns(emission) /\ alerts # {a}
    <3>1. alerts' = alerts \ {a} /\ UNCHANGED <<turn, loop, count, results>>
      BY <2>2, <2>7 DEF Emitted1
    <3>2. DriftTypeOK'
      BY <2>1, <2>3, <3>1 DEF DriftTypeOK, Turns
    <3>3. Split'
      BY <1>t, <2>1, <2>2, <2>3, <2>4, <2>7, <3>1 DEF Split, Returns, Stored
    <3> QED
      BY <2>1, <2>3, <2>4, <3>1, <3>2, <3>3 DEF CountedIsEvident, Turns
  <2> QED
    BY <2>5, <2>6, <2>7
<1>4. CASE Sleep
  <2>1. /\ loop' = "scan" /\ turn' = 1
        /\ UNCHANGED <<connection, alerts, count, results, evidence, stop>>
    BY <1>4 DEF Sleep
  <2> QED
    BY <1>t, <2>1 DEF DriftTypeOK, CountedIsEvident, Turns
<1>5. CASE RequestStop \/ Stop
  BY <1>5 DEF RequestStop, Stop, DriftTypeOK, CountedIsEvident, Turns, Split
<1>6. CASE UNCHANGED driftVars
  BY <1>6 DEF driftVars, DriftTypeOK, CountedIsEvident, Turns, Split
<1> QED
  BY <1>1, <1>2, <1>3, <1>4, <1>5, <1>6 DEF DriftNext, Round

-----------------------------------------------------------------------------
(***************************************************************************)
(* The severity of a shift.  What an agent wrote in the window is at most  *)
(* what it wrote in the baseline, so as long as ten windows are more than  *)
(* a baseline the rate can not be ten times the usual one.                 *)
(***************************************************************************)
LEMMA RateBound ==
    ASSUME NEW part \in Nat, NEW whole \in Nat, NEW b \in Nat, NEW w \in Nat,
           part <= whole, whole > 0, b < 10 * w
    PROVE  part * b < 10 * whole * w
<1>1. part * b <= whole * b
  OBVIOUS
<1>2. whole * b < whole * (10 * w)
  OBVIOUS
<1>3. whole * (10 * w) = 10 * whole * w
  OBVIOUS
<1> QED
  BY <1>1, <1>2, <1>3

LEMMA ShiftsMedium ==
    ASSUME Baseline < 10 * Window, NEW found \in Findings,
           NEW a \in found, a.detector = "D2"
    PROVE  a.severity = "medium"
<1>1. PICK n \in Amount, m \in Amount, h \in History :
         found = ContradictionBurst(n) \union OriginCluster(m) \union WriteShift(h) \union Sleeper(h)
  BY DEF Findings
<1>2. n \in Nat /\ m \in Nat /\ h.burst \in Nat /\ h.day \in Nat /\ h.week \in Nat
  BY DriftAssumption DEF History
<1>3. a \notin ContradictionBurst(n) /\ a \notin OriginCluster(m)
  BY <1>2, GradedAlerts, DriftAssumption DEF ContradictionBurst, OriginCluster
<1>4. a \in WriteShift(h)
  BY <1>1, <1>3, WriteShiftAlerts
<1>5. ASSUME InBaseline(h) > 0
      PROVE  ~((h.burst + h.day) * Baseline >= 10 * InBaseline(h) * Window)
  <2>1. (h.burst + h.day) * Baseline < 10 * InBaseline(h) * Window
    <3> DEFINE part == h.burst + h.day
               whole == InBaseline(h)
    <3>1. part \in Nat /\ whole \in Nat /\ part <= whole /\ whole > 0
      BY <1>2, <1>5 DEF InBaseline
    <3>2. Baseline \in Nat /\ Window \in Nat
      BY DriftAssumption
    <3> HIDE DEF part, whole
    <3>3. part * Baseline < 10 * whole * Window
      BY <3>1, <3>2, RateBound
    <3> QED
      BY <3>3 DEF part, whole
  <2>2. (h.burst + h.day) * Baseline \in Int /\ 10 * InBaseline(h) * Window \in Int
    BY <1>2, DriftAssumption DEF InBaseline
  <2> QED
    BY <2>1, <2>2
<1> QED
  BY <1>4, <1>5 DEF WriteShift

LEMMA ShiftStep ==
    ASSUME Baseline < 10 * Window
    PROVE  ShiftNeverHigh /\ [DriftNext]_driftVars => ShiftNeverHigh'
<1> SUFFICES ASSUME ShiftNeverHigh, [DriftNext]_driftVars PROVE ShiftNeverHigh'
  OBVIOUS
<1>1. CASE Scan
  BY <1>1, ShiftsMedium DEF Scan, NextTurn, ShiftNeverHigh
<1>2. CASE alerts' \subseteq alerts
  BY <1>2 DEF ShiftNeverHigh
<1>3. ASSUME NEW a \in Alert, Emit1(a) PROVE alerts' \subseteq alerts
  BY <1>3 DEF Emit1, Emitted1, Blocked, Failed, NextTurn
<1>4. ScanFails \/ Sleep \/ RequestStop \/ Stop \/ UNCHANGED driftVars => alerts' \subseteq alerts
  BY DEF ScanFails, Failed, NextTurn, Sleep, RequestStop, Stop, driftVars
<1> QED
  BY <1>1, <1>2, <1>3, <1>4 DEF DriftNext, Round

-----------------------------------------------------------------------------
(***************************************************************************)
(* An aborted connection leaves nothing but failures.                      *)
(***************************************************************************)
LEMMA CalmStep == DriftInv /\ NoFalseCalm /\ [DriftNext]_driftVars => NoFalseCalm'
<1> SUFFICES ASSUME DriftInv, NoFalseCalm, [DriftNext]_driftVars PROVE NoFalseCalm'
  OBVIOUS
<1>t. turn \in Nat /\ results \in [Turns -> Int]
  BY DEF DriftInv, DriftTypeOK
<1>1. CASE Scan
  BY <1>1 DEF Scan, NoFalseCalm
<1>2. ASSUME NEW a \in Alert, Emit1(a) PROVE NoFalseCalm'
  BY <1>2 DEF Emit1, NoFalseCalm
<1>3. CASE ScanFails
  <2>1. /\ turn' = turn + 1 /\ loop' \in {"sleep", "scan"}
        /\ results' = [results EXCEPT ![turn] = -1]
    BY <1>3 DEF ScanFails, Failed, NextTurn
  <2>2. turn \in Turns
    BY <1>3 DEF ScanFails, DriftInv
  <2>3. turn' - 1 = turn /\ results'[turn' - 1] = -1
    BY <1>t, <2>1, <2>2
  <2> QED
    BY <2>1, <2>3 DEF NoFalseCalm
<1>4. CASE Sleep \/ RequestStop \/ Stop \/ UNCHANGED driftVars
  BY <1>4 DEF Sleep, RequestStop, Stop, driftVars, NoFalseCalm
<1> QED
  BY <1>1, <1>2, <1>3, <1>4 DEF DriftNext, Round

-----------------------------------------------------------------------------
(***************************************************************************)
(* The parts share no variable: a step of Oversight is a step of each of   *)
(* them, or leaves it as it is.                                            *)
(***************************************************************************)
LEMMA Apart ==
    [OversightNext]_oversightVars =>
        /\ [DeskNext]_deskVars /\ [CustodyNext]_custodyVars /\ [CatalogNext]_catalogVars
        /\ [PostureNext]_postureVars /\ [DriftNext]_driftVars
BY DEF OversightNext, oversightVars, AtDesk, AtCustody, AtCatalog, AtPosture, AtDrift

OversightInv == DeskInv /\ CustodyInv /\ CatalogInv /\ PostureInv /\ DriftInv

THEOREM OversightInvariant == OversightSpec => []OversightInv
<1>1. OversightInit => OversightInv
  BY DeskStarts, CustodyStarts, CatalogStarts, PostureStarts, DriftStarts
     DEF OversightInit, OversightInv
<1>2. OversightInv /\ [OversightNext]_oversightVars => OversightInv'
  BY Apart, DeskStep, CustodyStep, CatalogStep, PostureStep, DriftStep DEF OversightInv
<1> QED
  BY <1>1, <1>2, PTL DEF OversightSpec

(***************************************************************************)
(* The variables of the parts keep their types.                            *)
(***************************************************************************)
THEOREM OversightTypes == OversightSpec => []OversightTypeOK
<1>1. OversightInv => OversightTypeOK
  BY DEF OversightInv, DeskInv, CustodyInv, CatalogInv, PostureInv, DriftInv, OversightTypeOK
<1> QED
  BY <1>1, OversightInvariant, PTL

(***************************************************************************)
(* A decision on record took effect, is about to, or belongs to a          *)
(* transaction that failed (a14_review.py:147 emits before the caller      *)
(* commits).                                                               *)
(***************************************************************************)
THEOREM DecisionsAccounted == OversightSpec => []LogAccounted
<1>1. OversightInv => LogAccounted
  BY DEF OversightInv, DeskInv
<1> QED
  BY <1>1, OversightInvariant, PTL

(***************************************************************************)
(* The review desk implements DecisionLog: no decision takes effect that   *)
(* is not on record, and the first one to take effect is final, however    *)
(* many reviewers decide at the same time.                                 *)
(***************************************************************************)
THEOREM DeskImplementsLog == OversightSpec => ImplementsLog
<1>1. OversightInit => Log!Init
  BY DEF OversightInit, DeskInit, Log!Init
<1>2. OversightInv /\ [OversightNext]_oversightVars => [Log!Next]_<<log, disposition>>
  BY Apart, DeskRefines DEF OversightInv
<1> QED
  BY <1>1, <1>2, OversightInvariant, PTL DEF OversightSpec, ImplementsLog, Log!Spec

(***************************************************************************)
(* An event that the audit sink lacks, or has twice, is so for a reason    *)
(* that can be named (a19_custody.py: the cursor in whole seconds, the     *)
(* time at which it is taken, records that fail, restarts).                *)
(***************************************************************************)
THEOREM CustodyAccounted == OversightSpec => []EventsAccounted
<1>1. OversightInv => EventsAccounted
  BY DEF OversightInv, CustodyInv
<1> QED
  BY <1>1, OversightInvariant, PTL

(***************************************************************************)
(* When Mechanism 3 names a backup or a gap it is wrong at most about      *)
(* backups that have changed since the list was read, and about none if    *)
(* the list was forced, whatever calls of ccloud have failed (the list of  *)
(* a19_custody.py:326 is kept in the process without a limit in time).     *)
(***************************************************************************)
THEOREM CoverageIsHonest == OversightSpec => []CoverageHonest
<1>1. OversightInv => CoverageHonest
  BY DEF OversightInv, CatalogInv
<1> QED
  BY <1>1, OversightInvariant, PTL

(***************************************************************************)
(* What the watchers report can be relied on; a tenant that a failed       *)
(* query keeps from being scanned is reported as failed; and a shift of    *)
(* writes is never graded high as long as ten windows are more than the    *)
(* baseline, as they are in the code (24 hours of 168).                    *)
(***************************************************************************)
THEOREM ReportsRelied ==
    ASSUME Baseline < 10 * Window
    PROVE  OversightSpec => []ReportsHold
<1>1. OversightInit => ShiftNeverHigh /\ NoFalseCalm
  BY DEF OversightInit, DriftInit, ShiftNeverHigh, NoFalseCalm
<1>2. /\ ShiftNeverHigh /\ [OversightNext]_oversightVars => ShiftNeverHigh'
      /\ OversightInv /\ NoFalseCalm /\ [OversightNext]_oversightVars => NoFalseCalm'
  BY Apart, ShiftStep, CalmStep DEF OversightInv
<1>3. OversightInv /\ ShiftNeverHigh /\ NoFalseCalm => ReportsHold
  BY DEF OversightInv, PostureInv, DriftInv, ReportsHold
<1> QED
  BY <1>1, <1>2, <1>3, OversightInvariant, PTL DEF OversightSpec
=============================================================================
