--------------------------- MODULE Consolidation ----------------------------
(***************************************************************************)
(* A8: the pass that merges exact duplicates among the trusted beliefs     *)
(* (agents/integrity/a8_consolidation.py), on a connection whose           *)
(* transactions are SERIALIZABLE, among the writers, the gate and the      *)
(* reviewers of BeliefStore.                                               *)
(*                                                                         *)
(* The groups of duplicates are read once.  The transaction of that SELECT *)
(* ends with the commit of the first merge; every later group is checked   *)
(* against the quarantine table and merged in a transaction of its own, on *)
(* what was read then.  Passes follow one another, MaxPasses in all.       *)
(***************************************************************************)
EXTENDS BeliefStore, FiniteSets, Functions

CONSTANTS Text,           \* values of object_normalized that are not NULL or ''
          Old,            \* the beliefs that are there, and screened, at first, oldest first
          MaxHeld,        \* how many of these are quarantined at most
          MaxPasses,
          MaxChainDepth   \* superseded rows that make a winner suspicious

ASSUME UpkeepAssumption ==
    /\ Old \in Seq(Belief) /\ \A m, n \in DOMAIN Old : Old[m] = Old[n] => m = n
    /\ MaxHeld \in Nat /\ MaxPasses \in Nat /\ MaxChainDepth \in Nat \ {0, 1}

VARIABLES
    object,       \* belief.object_normalized, NoBelief before the row is written
    supersedes,   \* belief.supersedes
    phase,        \* where the pass is; "fresh" until its first commit
    groups,       \* the duplicate groups read and not yet handled
    report,       \* the counters of ConsolidationRun
    flags,        \* its chain_flags
    passes        \* number of passes started

passVars   == <<phase, groups, report, flags, passes>>
upkeepVars == <<vars, object, supersedes, passVars>>

NoReport == [found |-> 0, merged |-> 0, skipped |-> 0, superseded |-> 0]

\* A store in use: the old beliefs were all written, in the order of Old, before
\* the first of them was screened, so none has contradicted another.
OldBeliefs == Range(Old)

UsedStore ==
    /\ clock = Len(Old)
    /\ fact \in [Belief -> [key : Key, claim : Claim, txFrom : 1..clock] \union {NoFact}]
    /\ \A b \in Belief \ OldBeliefs : fact[b] = NoFact
    /\ \A n \in 1..clock : /\ fact[Old[n]] # NoFact /\ fact[Old[n]].txFrom = n
                           /\ fact[Old[n]].claim.tier = "unverified"
    /\ \E held \in SUBSET OldBeliefs :
          /\ Cardinality(held) <= MaxHeld
          /\ status = [b \in Belief |-> CASE b \in held       -> "quarantined"
                                          [] b \in OldBeliefs \ held -> "trusted"
                                          [] b \notin OldBeliefs      -> "absent"]
          /\ verdicts = [b \in Belief |-> IF b \in OldBeliefs THEN <<status[b]>> ELSE <<>>]
          /\ quarantine = [b \in Belief |-> IF b \in held THEN <<"held">> ELSE <<>>]
    /\ object \in [Belief -> Text \union {NoBelief}]
    /\ \A b \in Belief : object[b] = NoBelief <=> b \notin OldBeliefs
    /\ txTo = [b \in Belief |-> 0]
    /\ supersededBy = [b \in Belief |-> NoBelief]
    /\ scored = [b \in Belief |-> b \in OldBeliefs] /\ screened = scored
    /\ contradictions = {}

UpkeepInit ==
    /\ UsedStore
    /\ supersedes = [b \in Belief |-> NoBelief]
    /\ phase = "idle" /\ groups = {} /\ report = NoReport
    /\ flags = {} /\ passes = 0

-----------------------------------------------------------------------------
\* ORDER BY confidence DESC, valid_from DESC: a may come before b.
Before(a, b) ==
    LET x == fact[a].claim
        y == fact[b].claim
    IN  \/ x.confidence > y.confidence
        \/ x.confidence = y.confidence /\ x.validFrom >= y.validFrom

Firsts(members) == {a \in members : \A b \in members : Before(a, b)}
Lasts(members)  == {b \in members : \A a \in members : Before(a, b)}

Alike(k, o) == {b \in Belief : status[b] = "trusted" /\ fact[b].key = k
                               /\ object[b] = o}

Duplicates ==
    {m \in {Alike(k, o) : k \in Key, o \in Text} : Cardinality(m) > 1}

\* The SELECT: every group of duplicates, with its winner.
Read ==
    /\ phase \in {"idle", "done", "failed"} /\ passes < MaxPasses
    /\ \E winner \in [Duplicates -> Belief] :
          /\ \A m \in Duplicates : winner[m] \in Firsts(m)
          /\ groups' = {[members |-> m, winner |-> winner[m]] : m \in Duplicates}
    /\ phase' = "fresh" /\ passes' = passes + 1 /\ flags' = {}
    /\ report' = [NoReport EXCEPT !.found = Cardinality(Duplicates)]
    /\ UNCHANGED <<vars, object, supersedes>>

\* Variant that looks for rows that are still held.
MutantHeldOnly(members) ==
    \E b \in members : \E n \in 1..Len(quarantine[b]) : quarantine[b][n] = "held"

AnyQuarantined(members) == \E b \in members : quarantine[b] # <<>>

\* Until the first commit what was read is part of the transaction, and a
\* change to it makes the commit fail.
StillRead == phase = "fresh" => \A g \in groups : g.members \in Duplicates

Skip(g) ==
    /\ phase \in {"fresh", "later"} /\ AnyQuarantined(g.members)
    /\ groups' = groups \ {g}
    /\ report' = [report EXCEPT !.skipped = @ + 1]
    /\ UNCHANGED <<vars, object, supersedes, phase, flags, passes>>

\* Variants of the rows a merge supersedes: the winner too; rows that are not
\* trusted any more too.
MutantAllMembers(g) == {l \in g.members : status[l] = "trusted"}
MutantAnyLoser(g)   == g.members \ {g.winner}

Superseded(g) == {l \in g.members \ {g.winner} : status[l] = "trusted"}

StatusAfter(g) ==
    [b \in Belief |-> IF b \in Superseded(g) THEN "superseded" ELSE status[b]]

\* Variant that closes the rows of the losers.
MutantClose(g) ==
    [b \in Belief |-> IF b \in Superseded(g) THEN clock ELSE txTo[b]]

\* valid_to is set, tx_to is not.
TxToAfter(g) == txTo

\* One UPDATE per loser, each with one of the winner's pointer, and the commit.
Merge(g) ==
    /\ phase \in {"fresh", "later"}
    /\ ~AnyQuarantined(g.members) /\ StillRead
    /\ status' = StatusAfter(g) /\ txTo' = TxToAfter(g)
    /\ supersededBy' = [b \in Belief |-> IF b \in Superseded(g) THEN g.winner
                                         ELSE supersededBy[b]]
    /\ \E l \in Lasts(g.members \ {g.winner}) :
          supersedes' = [supersedes EXCEPT ![g.winner] = l]
    /\ report' = [report EXCEPT !.merged = @ + 1,
                                !.superseded = @ + Cardinality(g.members) - 1]
    /\ groups' = groups \ {g} /\ phase' = "later"
    /\ UNCHANGED <<clock, fact, scored, screened, verdicts, quarantine,
                   contradictions, object, flags, passes>>

\* A serialization failure or a lost connection: what is not committed is gone,
\* and so is the report.
Abort ==
    /\ phase \in {"fresh", "later"}
    /\ phase' = "failed" /\ groups' = {} /\ report' = NoReport
    /\ UNCHANGED <<vars, object, supersedes, flags, passes>>

Predecessors(w) == {l \in Belief : status[l] = "superseded" /\ supersededBy[l] = w}

LongChains == {w \in Belief : Cardinality(Predecessors(w)) >= MaxChainDepth}

\* The chains are flagged; the TTL check never changes anything.
Finish ==
    /\ phase \in {"fresh", "later"} /\ groups = {}
    /\ flags' = LongChains
    /\ phase' = "done"
    /\ UNCHANGED <<vars, object, supersedes, groups, report, passes>>

\* A dry run changes nothing and commits nothing, so all of it is one
\* transaction that counts what a pass would merge.
DryRun ==
    LET mergeable == {m \in Duplicates : ~AnyQuarantined(m)}
    IN  /\ phase \in {"idle", "done", "failed"} /\ passes < MaxPasses
        /\ report' = [found      |-> Cardinality(Duplicates),
                      merged     |-> Cardinality(mergeable),
                      skipped    |-> Cardinality(Duplicates \ mergeable),
                      superseded |-> Cardinality(UNION mergeable) - Cardinality(mergeable)]
        /\ flags' = LongChains
        /\ phase' = "done" /\ passes' = passes + 1
        /\ UNCHANGED <<vars, object, supersedes, groups>>

-----------------------------------------------------------------------------
\* The other components; what a belief says is settled when it is written.
Write(b) ==
    /\ Ingest(b) \/ Correct(b)
    /\ \E o \in Text : object' = [object EXCEPT ![b] = o]

Meanwhile ==
    /\ \E b \in Belief :
          \/ Write(b)
          \/ /\ (\E v \in Verdict : Screen(b, v)) \/ Review(b)
             /\ UNCHANGED object
    /\ UNCHANGED <<supersedes, passVars>>

UpkeepNext ==
    \/ Meanwhile
    \/ Read
    \/ \E g \in groups : Skip(g) \/ Merge(g)
    \/ Abort
    \/ Finish
    \/ DryRun

UpkeepSpec == UpkeepInit /\ [][UpkeepNext]_upkeepVars

-----------------------------------------------------------------------------
UpkeepTypeOK ==
    /\ TypeOK
    /\ object \in [Belief -> Text \union {NoBelief}]
    /\ supersedes \in [Belief -> Belief \union {NoBelief}]
    /\ phase \in {"idle", "fresh", "later", "done", "failed"} 
    /\ \A g \in groups : g.winner \in g.members /\ g.members \subseteq Belief
    /\ report \in [DOMAIN NoReport -> Nat]
    /\ flags \subseteq Belief /\ passes \in 0..MaxPasses

\* Only a merge supersedes a row without closing it.
Merged(l) == status[l] = "superseded" /\ txTo[l] = 0

(***************************************************************************)
(* QuarantineBoundary (T9): no belief that was ever held for review, be it *)
(* released since, has been merged or has won a merge.  The check is made  *)
(* before the UPDATEs, for some groups long after the SELECT.              *)
(***************************************************************************)
QuarantineBoundary ==
    \A l \in Belief : Merged(l) =>
        quarantine[l] = <<>> /\ quarantine[supersededBy[l]] = <<>>

(***************************************************************************)
(* Every supersession is justified, now that two components supersede: by  *)
(* a contradiction whose challenger opened as the loser closed, or because *)
(* both say the same about the same fact and the loser ranks no higher.    *)
(* A winner's own pointer names a row that was superseded, if not always   *)
(* by the winner: a contradiction may have come first.                     *)
(***************************************************************************)
SaysTheSame(w, l) ==
    fact[w].key = fact[l].key /\ object[w] = object[l] /\ Before(w, l)

Justified ==
    \A l \in Belief :
        /\ status[l] = "superseded" <=> supersededBy[l] # NoBelief
        /\ \A w \in Belief : Supersedes(w, l) =>
              IF txTo[l] # 0 THEN Explained(w, l)
              ELSE SaysTheSame(w, l) /\ status[w] \in {"trusted", "superseded"}
        /\ supersedes[l] # NoBelief => status[supersedes[l]] = "superseded"

(***************************************************************************)
(* ChainsEnd: from every superseded belief superseded_by leads, in the     *)
(* end, to one that is not: whatever contradictions and merges have been   *)
(* mixed, no chain loops, so a reader of the chain finds what replaced it. *)
(***************************************************************************)
ChainsEnd ==
    \A S \in SUBSET Belief :
        S # {} => \E b \in S : supersededBy[b] \notin S

(***************************************************************************)
(* A superseded belief never transitions further, and never changes its    *)
(* winner: a merge decided on an old SELECT leaves alone what a            *)
(* contradiction has superseded since.                                     *)
(***************************************************************************)
SupersededStays ==
    \A b \in Belief : status[b] = "superseded" =>
        status'[b] = "superseded" /\ supersededBy'[b] = supersededBy[b]

(***************************************************************************)
(* A belief becomes trusted only in the transaction that records why: its  *)
(* verdict, or its release.  The pass makes none trusted, not even the     *)
(* winner of a group that was contradicted after the groups were read.     *)
(***************************************************************************)
TrustedOnRecord ==
    \A b \in Belief : status[b] # "trusted" /\ status'[b] = "trusted" =>
        \/ verdicts'[b] # verdicts[b]
        \/ quarantine'[b] # quarantine[b]

(***************************************************************************)
(* SupersessionJustified: every supersession has its reason and every      *)
(* chain of them its end.                                                  *)
(***************************************************************************)
SupersessionJustified == Justified /\ ChainsEnd

(***************************************************************************)
(* SupersededIsFinal: no transaction revives what is superseded or gives   *)
(* it another winner, and none makes a belief trusted off the record,      *)
(* although a pass writes on what it read long before.                     *)
(***************************************************************************)
SupersededIsFinal == [][SupersededStays /\ TrustedOnRecord]_upkeepVars
=============================================================================
