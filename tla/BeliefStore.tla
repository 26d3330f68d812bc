---------------------------- MODULE BeliefStore -----------------------------
(***************************************************************************)
(* The belief table of the Poison-Quarantine Belief Store with the tables  *)
(* that explain it (integrity_verdict, quarantine, contradiction_event),   *)
(* and the four transactions that write them:                              *)
(*                                                                         *)
(*   Ingest, Correct   A7 resolve, called by A1 ingest and by correct      *)
(*   Screen            A4 ScreeningGate.screen, committed by its caller    *)
(*   Release, Reject   A14 ReviewAgent, committed by its caller            *)
(*                                                                         *)
(* Each transaction runs at SERIALIZABLE isolation, so each is one atomic  *)
(* action here.  One tenant is modelled: every statement is restricted to  *)
(* one tenant_id.  A key is a (subject, predicate) pair.                   *)
(***************************************************************************)
EXTENDS Precedence, Sequences

CONSTANTS Belief,        \* the belief_ids that may be written
          Key,           \* the facts: (subject, predicate)
          MultiValued,   \* the facts whose predicate_policy is multi_valued
          NoBelief,      \* SQL NULL in a column of belief_ids
          NoFact         \* the content of a row that is not there

ASSUME MultiValuedAssumption == MultiValued \subseteq Key
ASSUME NoBeliefAssumption    == NoBelief \notin Belief

VARIABLES
    clock,           \* number of resolve transactions committed so far
    status,          \* belief.status, "absent" before the row is written
    fact,            \* the columns that never change: key, claim, tx_from
    txTo,            \* belief.tx_to, 0 for NULL
    supersededBy,    \* belief.superseded_by
    scored,          \* whether belief.trust_score is set
    screened,        \* whether belief.screened_at is set
    verdicts,        \* the integrity_verdict rows of each belief, oldest first
    quarantine,      \* the dispositions of its quarantine rows, oldest first
    contradictions   \* the contradiction_event rows

vars == <<clock, status, fact, txTo, supersededBy, scored, screened,
          verdicts, quarantine, contradictions>>

Status      == {"absent", "pending", "trusted", "quarantined", "superseded",
                "rejected"}
Verdict     == {"trusted", "quarantined", "inconclusive"}
Disposition == {"held", "released", "rejected"}
Fact        == [key : Key, claim : Claim, txFrom : Nat \ {0}]
Event       == [incumbent : Belief, challenger : Belief,
                resolution : {"challenger_supersedes", "incumbent_retained",
                              "deferred"},
                basis : {"explicit_invalidation", "source_tier", "recency",
                         "confidence", "policy"}]

TypeOK ==
    /\ clock \in Nat
    /\ status \in [Belief -> Status]
    /\ fact \in [Belief -> Fact \union {NoFact}]
    /\ txTo \in [Belief -> Nat]
    /\ supersededBy \in [Belief -> Belief \union {NoBelief}]
    /\ scored \in [Belief -> BOOLEAN]
    /\ screened \in [Belief -> BOOLEAN]
    /\ verdicts \in [Belief -> Seq(Verdict)]
    /\ quarantine \in [Belief -> Seq(Disposition)]
    /\ contradictions \subseteq Event

Init ==
    /\ clock = 0
    /\ status = [b \in Belief |-> "absent"]
    /\ fact = [b \in Belief |-> NoFact]
    /\ txTo = [b \in Belief |-> 0]
    /\ supersededBy = [b \in Belief |-> NoBelief]
    /\ scored = [b \in Belief |-> FALSE]
    /\ screened = [b \in Belief |-> FALSE]
    /\ verdicts = [b \in Belief |-> <<>>]
    /\ quarantine = [b \in Belief |-> <<>>]
    /\ contradictions = {}

\* The rows of the view v_trusted_current: what a consumer may retrieve.
TrustedCurrent == {b \in Belief : status[b] = "trusted" /\ txTo[b] = 0}

-----------------------------------------------------------------------------
(***************************************************************************)
(* A7: write a belief about fact k, and resolve the contradiction with the *)
(* trusted belief about k if there is one.                                 *)
(***************************************************************************)

\* Variants of Incumbents that forget the filter on status, and on the key.
MutantAnyStatus(k) ==
    {i \in Belief : status[i] # "absent" /\ fact[i].key = k}
MutantAnyKey(k) == TrustedCurrent

Incumbents(k) == {i \in TrustedCurrent : fact[i].key = k}

\* ORDER BY valid_from DESC LIMIT 1: any of the most recent of the rows read.
MostRecent(rows, i) ==
    /\ i \in rows
    /\ \A j \in rows : fact[j].claim.validFrom <= fact[i].claim.validFrom

Incumbent(k, i) == MostRecent(Incumbents(k), i)

\* The new row; what happens to status is up to the cases of Resolve.
WriteBelief(b, k, c) ==
    /\ status[b] = "absent"
    /\ clock' = clock + 1
    /\ fact' = [fact EXCEPT ![b] = [key |-> k, claim |-> c, txFrom |-> clock + 1]]
    /\ UNCHANGED <<scored, screened, verdicts, quarantine>>

Uncontested(b, k, c) ==
    /\ WriteBelief(b, k, c)
    /\ status' = [status EXCEPT ![b] = "pending"]
    /\ UNCHANGED <<txTo, supersededBy, contradictions>>

\* The challenger is pending whether it wins or not; a winner closes the row
\* of the incumbent i.
Contradict(b, k, c, override, i) ==
    LET verdict == ResolvePrecedence(c, fact[i].claim, override)
    IN  /\ WriteBelief(b, k, c)
        /\ contradictions' = contradictions \union
              {[incumbent |-> i, challenger |-> b,
                resolution |-> verdict.resolution, basis |-> verdict.basis]}
        /\ \/ /\ verdict.resolution = "challenger_supersedes"
              /\ status' = [status EXCEPT ![b] = "pending", ![i] = "superseded"]
              /\ supersededBy' = [supersededBy EXCEPT ![i] = b]
              /\ txTo' = [txTo EXCEPT ![i] = clock + 1]
           \/ /\ verdict.resolution # "challenger_supersedes"
              /\ status' = [status EXCEPT ![b] = "pending"]
              /\ UNCHANGED <<supersededBy, txTo>>

\* A multi_valued predicate, or the first trusted belief is still to come.
ResolveUncontested(b, k, c) ==
    /\ k \in MultiValued \/ Incumbents(k) = {}
    /\ Uncontested(b, k, c)

\* Every cardinality but multi_valued comes here.
ResolveContradiction(b, k, c, override) ==
    /\ k \notin MultiValued
    /\ \E i \in Belief : Incumbent(k, i) /\ Contradict(b, k, c, override, i)

Resolve(b, k, c, override) ==
    \/ ResolveUncontested(b, k, c)
    \/ ResolveContradiction(b, k, c, override)

\* A1: whatever the agent, the source tier is unverified.
Ingest(b) ==
    \E k \in Key, c \in Claim :
        c.tier = "unverified" /\ Resolve(b, k, c, FALSE)

\* An explicit correction is authoritative and overrides the precedence.
Correct(b) ==
    \E k \in Key, c \in Claim :
        c.tier = "authoritative" /\ Resolve(b, k, c, TRUE)

-----------------------------------------------------------------------------
(***************************************************************************)
(* A4: the verdict v on belief b.  The score behind v is left open here.   *)
(* A belief that has a verdict of this screener version keeps it: the call *)
(* returns the stored verdict and changes nothing.                         *)
(***************************************************************************)

\* Variants: the status the enum also offers; a gate that fails open.
MutantStatusInconclusive(v) == v
MutantFailOpen(v) == IF v = "inconclusive" THEN "trusted" ELSE v

ScreenedStatus(v) == IF v = "inconclusive" THEN "pending" ELSE v

\* Variant of Screen without the idempotency lookup.
MutantScreenAgain(b, v) ==
    /\ status[b] # "absent"
    /\ Len(verdicts[b]) < 2
    /\ verdicts' = [verdicts EXCEPT ![b] = Append(@, v)]
    /\ \/ /\ status[b] = "pending"
          /\ status' = [status EXCEPT ![b] = ScreenedStatus(v)]
          /\ scored' = [scored EXCEPT ![b] = TRUE]
          /\ screened' = [screened EXCEPT ![b] = TRUE]
       \/ status[b] # "pending" /\ UNCHANGED <<status, scored, screened>>
    /\ quarantine' = IF v = "quarantined"
                     THEN [quarantine EXCEPT ![b] = Append(@, "held")]
                     ELSE quarantine
    /\ UNCHANGED <<clock, fact, txTo, supersededBy, contradictions>>

Screen(b, v) ==
    /\ status[b] # "absent"
    /\ verdicts[b] = <<>>
    /\ verdicts' = [verdicts EXCEPT ![b] = Append(@, v)]
    /\ IF status[b] = "pending"
       THEN /\ status' = [status EXCEPT ![b] = ScreenedStatus(v)]
            /\ scored' = [scored EXCEPT ![b] = TRUE]
            /\ screened' = [screened EXCEPT ![b] = TRUE]
       ELSE UNCHANGED <<status, scored, screened>>
    /\ quarantine' = IF v = "quarantined"
                     THEN [quarantine EXCEPT ![b] = Append(@, "held")]
                     ELSE quarantine
    /\ UNCHANGED <<clock, fact, txTo, supersededBy, contradictions>>

-----------------------------------------------------------------------------
(***************************************************************************)
(* A14: the disposition of quarantine row n of belief b.                   *)
(***************************************************************************)
Dispose(b, n, disposition) ==
    /\ quarantine' = [quarantine EXCEPT ![b][n] = disposition]
    /\ UNCHANGED <<clock, fact, txTo, supersededBy, scored, verdicts,
                   contradictions>>

Release(b, n) ==
    /\ quarantine[b][n] = "held"
    /\ Dispose(b, n, "released")
    /\ IF status[b] = "quarantined"
       THEN /\ status' = [status EXCEPT ![b] = "trusted"]
            /\ screened' = [screened EXCEPT ![b] = TRUE]
       ELSE UNCHANGED <<status, screened>>

\* Variant of Reject that does not look at the disposition first.
MutantRejectUnchecked(b, n) ==
    /\ Dispose(b, n, "rejected")
    /\ status' = IF status[b] = "quarantined"
                 THEN [status EXCEPT ![b] = "rejected"]
                 ELSE status
    /\ UNCHANGED screened

Reject(b, n) ==
    /\ quarantine[b][n] = "held"
    /\ Dispose(b, n, "rejected")
    /\ status' = IF status[b] = "quarantined"
                 THEN [status EXCEPT ![b] = "rejected"]
                 ELSE status
    /\ UNCHANGED screened

Review(b) == \E n \in 1..Len(quarantine[b]) : Release(b, n) \/ Reject(b, n)

-----------------------------------------------------------------------------
Next ==
    \E b \in Belief :
        \/ Ingest(b)
        \/ Correct(b)
        \/ \E v \in Verdict : Screen(b, v)
        \/ Review(b)

Spec == Init /\ [][Next]_vars

-----------------------------------------------------------------------------
(***************************************************************************)
(* The life of a belief as its three tables tell it: which status goes     *)
(* with which verdict and which disposition.  A verdict is given once; an  *)
(* inconclusive belief stays pending for good; only trusted beliefs, by    *)
(* the gate or by release, are ever superseded.                            *)
(***************************************************************************)
Tables(b, vs, qs, statuses) ==
    verdicts[b] = vs /\ quarantine[b] = qs /\ status[b] \in statuses

Story(b) ==
    /\ scored[b] = (verdicts[b] # <<>>) /\ screened[b] = scored[b]
    /\ \/ Tables(b, <<>>, <<>>, {"absent", "pending"})
       \/ Tables(b, <<"inconclusive">>, <<>>, {"pending"})
       \/ Tables(b, <<"trusted">>, <<>>, {"trusted", "superseded"})
       \/ Tables(b, <<"quarantined">>, <<"held">>, {"quarantined"})
       \/ Tables(b, <<"quarantined">>, <<"released">>, {"trusted", "superseded"})
       \/ Tables(b, <<"quarantined">>, <<"rejected">>, {"rejected"})

Lifecycle == \A b \in Belief : Story(b)

(***************************************************************************)
(* Vetted (Security Invariant 1): what consumers retrieve has passed the   *)
(* gate, or a reviewer has released it, and no reviewer has rejected it.   *)
(***************************************************************************)
Admitted(b) ==
    \/ \E n \in 1..Len(verdicts[b])   : verdicts[b][n] = "trusted"
    \/ \E n \in 1..Len(quarantine[b]) : quarantine[b][n] = "released"

Refused(b) == \E n \in 1..Len(quarantine[b]) : quarantine[b][n] = "rejected"

Vetted == \A b \in TrustedCurrent : Admitted(b) /\ ~Refused(b)

(***************************************************************************)
(* The review queue (the held rows, list_pending_review) and the           *)
(* quarantined beliefs are the same: every quarantined belief waits for    *)
(* one decision, and a decision never finds its belief in another status,  *)
(* which the UPDATEs of release and reject would silently skip.            *)
(***************************************************************************)
ReviewQueueExact ==
    \A b \in Belief :
        /\ status[b] = "quarantined"
             <=> \E n \in 1..Len(quarantine[b]) : quarantine[b][n] = "held"
        /\ \A m, n \in 1..Len(quarantine[b]) :
              quarantine[b][m] = "held" /\ quarantine[b][n] = "held" => m = n

(***************************************************************************)
(* Every supersession is explained, and can be reconstructed: the loser    *)
(* names its winner, a contradiction_event names both and a basis that     *)
(* justifies the outcome, both are about the same single-valued fact, the  *)
(* loser's row closes in the very transaction that opens the winner's, and *)
(* a winner has one loser.  So the superseded_by chains never fork, never  *)
(* loop and leave no gap in transaction time.                              *)
(***************************************************************************)
Supersedes(w, l) == supersededBy[l] = w

Explained(w, l) ==
    /\ fact[w].key = fact[l].key /\ fact[l].key \notin MultiValued
    /\ fact[l].txFrom < txTo[l] /\ txTo[l] = fact[w].txFrom
    /\ \E e \in contradictions :
          /\ e.incumbent = l /\ e.challenger = w
          /\ e.resolution = "challenger_supersedes"
          /\ e.basis = "explicit_invalidation"
                \/ Wins(fact[w].claim, fact[l].claim)

SupersessionExplained ==
    \A l \in Belief :
        /\ status[l] = "superseded" <=> supersededBy[l] # NoBelief
        /\ \A w \in Belief : Supersedes(w, l) =>
              /\ status[w] # "absent" /\ Explained(w, l)
              /\ \A m \in Belief : Supersedes(w, m) => m = l

(***************************************************************************)
(* The CHECK constraints of the belief table (migration 0005) hold, so no  *)
(* transaction is refused because of them.  Release sets screened_at       *)
(* alone, and so relies on the score that the gate wrote before.           *)
(***************************************************************************)
ChecksHold ==
    \A b \in Belief :
        /\ supersededBy[b] # NoBelief => status[b] = "superseded"
        /\ scored[b] = screened[b]

(***************************************************************************)
(* Nothing is destructively lost: a belief, a verdict and a contradiction  *)
(* once written stay, a closed row is not closed again, and the decision   *)
(* of a reviewer is final.                                                 *)
(***************************************************************************)
KeepsRecord(b) ==
    /\ status[b] # "absent" => status'[b] # "absent" /\ fact'[b] = fact[b]
    /\ txTo[b] # 0 => txTo'[b] = txTo[b] /\ supersededBy'[b] = supersededBy[b]
    /\ \A n \in 1..Len(verdicts[b]) :
          n <= Len(verdicts'[b]) /\ verdicts'[b][n] = verdicts[b][n]
    /\ \A n \in 1..Len(quarantine[b]) :
          /\ n <= Len(quarantine'[b])
          /\ quarantine[b][n] # "held" => quarantine'[b][n] = quarantine[b][n]

KeepsRecords ==
    /\ contradictions \subseteq contradictions'
    /\ \A b \in Belief : KeepsRecord(b)

RecordsKept == [][KeepsRecords]_vars

(***************************************************************************)
(* The store implements the trust boundary: a belief is retrievable while  *)
(* its status is trusted, and gone for the consumers once it is superseded *)
(* or rejected.                                                            *)
(***************************************************************************)
StageOf(s) ==
    CASE s = "absent"                     -> "unseen"
      [] s = "pending"                    -> "waiting"
      [] s = "trusted"                    -> "retrievable"
      [] s = "quarantined"                -> "withheld"
      [] s \in {"superseded", "rejected"} -> "retired"

Boundary == INSTANCE TrustBoundary
                WITH stage <- [b \in Belief |-> StageOf(status[b])]

ImplementsBoundary == Boundary!Spec
=============================================================================
