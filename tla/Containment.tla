----------------------------- MODULE Containment -----------------------------
(***************************************************************************)
(* A6: the cascade over what was derived from a quarantined belief         *)
(* (agents/integrity/a6_cascade.py).  It searches the derived_from graph   *)
(* breadth first, then takes each descendant back to pending and submits   *)
(* it to the gate.                                                         *)
(*                                                                         *)
(* The connection is in autocommit mode, as the cascade recommends and its *)
(* integration test has it: every statement is a transaction of its own,   *)
(* those of the gate too, and writers, pollers and reviewers get in        *)
(* between.  Cascades run one after the other here, MaxCascades in all.    *)
(***************************************************************************)
EXTENDS BeliefStore, SequencesExt

CONSTANT MaxCascades
ASSUME MaxCascadesAssumption == MaxCascades \in Nat
ASSUME BeliefAssumption      == IsFiniteSet(Belief)

VARIABLES
    derivedFrom,   \* provenance.derived_from of each belief
    root,          \* the quarantined belief of the current cascade
    queue,         \* the deque of the search
    visited,       \* its visited set
    hadCycle,      \* its had_cycle flag
    todo,          \* the descendants still to be reset
    current,       \* the descendant that is being screened again
    phase,         \* where the cascade is
    cascades,      \* number of cascades started
    lineage,       \* history: what descended from root when the cascade began
    suspects       \* history: the part of it that consumers could retrieve

searchVars  == <<root, queue, visited, hadCycle>>
rescreenVars == <<todo, current>>
history     == <<cascades, lineage, suspects>>
cascadeVars == <<searchVars, rescreenVars, phase, history>>
allVars     == <<vars, derivedFrom, cascadeVars>>

Phase == {"idle", "search", "reset", "lookup", "verdict", "update", "hold",
          "done", "aborted"}

ContainmentTypeOK ==
    /\ derivedFrom \in [Belief -> SUBSET Belief]
    /\ root \in Belief \union {NoBelief}
    /\ queue \in Seq(Belief)
    /\ visited \subseteq Belief /\ todo \subseteq visited \ {root}
    /\ hadCycle \in BOOLEAN
    /\ current \in Belief \union {NoBelief}
    /\ phase \in Phase
    /\ cascades \in 0..MaxCascades
    /\ suspects \subseteq lineage /\ lineage \subseteq Belief

ContainmentInit ==
    /\ Init
    /\ derivedFrom = [b \in Belief |-> {}]
    /\ root = NoBelief /\ queue = <<>> /\ visited = {} /\ hadCycle = FALSE
    /\ todo = {} /\ current = NoBelief
    /\ phase = "idle" /\ cascades = 0 /\ lineage = {} /\ suspects = {}

Written == {b \in Belief : status[b] # "absent"}

Children(d) == {c \in Written : d \in derivedFrom[c]}

\* The reference for the search: the least set with the children of r and of
\* its own members.
ClosedFrom(r, S) ==
    Children(r) \subseteq S /\ \A d \in S : Children(d) \subseteq S

Descendants(r) ==
    {d \in Belief : \A S \in SUBSET Belief : ClosedFrom(r, S) => d \in S}

-----------------------------------------------------------------------------
\* A cascade is started for a belief with a held quarantine row.
Start(r) ==
    /\ phase \in {"idle", "done", "aborted"} /\ cascades < MaxCascades
    /\ \E n \in 1..Len(quarantine[r]) : quarantine[r][n] = "held"
    /\ root' = r /\ queue' = <<r>> /\ visited' = {} /\ hadCycle' = FALSE
    /\ todo' = {} /\ current' = NoBelief
    /\ phase' = "search" /\ cascades' = cascades + 1
    /\ lineage' = Descendants(r)
    /\ suspects' = Descendants(r) \intersect TrustedCurrent
    /\ UNCHANGED <<vars, derivedFrom>>

\* A belief that was reached before is only noted; another one is expanded
\* with one query.
Revisit ==
    /\ phase = "search" /\ queue # <<>> /\ Head(queue) \in visited
    /\ hadCycle' = TRUE
    /\ queue' = Tail(queue)
    /\ UNCHANGED <<vars, derivedFrom, root, visited, rescreenVars, phase, history>>

\* Variant of Visit that marks the children too, so that each of them counts as
\* reached before it is expanded.
MutantMarkChildren ==
    /\ phase = "search" /\ queue # <<>> /\ Head(queue) \notin visited
    /\ visited' = visited \union {Head(queue)} \union Children(Head(queue))
    /\ hadCycle' = (hadCycle \/ Children(Head(queue)) \intersect visited # {})
    /\ \E children \in SetToSeqs(Children(Head(queue)) \ visited) :
          queue' = Tail(queue) \o children
    /\ UNCHANGED <<vars, derivedFrom, root, rescreenVars, phase, history>>

Visit ==
    /\ phase = "search" /\ queue # <<>> /\ Head(queue) \notin visited
    /\ visited' = visited \union {Head(queue)}
    /\ hadCycle' = (hadCycle \/ Children(Head(queue)) \intersect visited' # {})
    /\ \E children \in SetToSeqs(Children(Head(queue)) \ visited') :
          queue' = Tail(queue) \o children
    /\ UNCHANGED <<vars, derivedFrom, root, rescreenVars, phase, history>>

SearchEnds ==
    /\ phase = "search" /\ queue = <<>>
    /\ todo' = visited \ {root}
    /\ phase' = "reset"
    /\ UNCHANGED <<vars, derivedFrom, searchVars, current, history>>

\* The UPDATE that takes a descendant back.  The CHECK constraint on
\* superseded_by refuses it for a superseded one, and the error ends the
\* cascade.
Reset(d) ==
    /\ phase = "reset" /\ d \in todo
    /\ IF supersededBy[d] # NoBelief
       THEN phase' = "aborted" /\ UNCHANGED <<vars, rescreenVars>>
       ELSE /\ todo' = todo \ {d} /\ current' = d /\ phase' = "lookup"
            /\ IF status[d] # "pending"
               THEN /\ status' = [status EXCEPT ![d] = "pending"]
                    /\ scored' = [scored EXCEPT ![d] = FALSE]
                    /\ screened' = [screened EXCEPT ![d] = FALSE]
               ELSE UNCHANGED <<status, scored, screened>>
            /\ UNCHANGED <<clock, fact, txTo, supersededBy, verdicts,
                           quarantine, contradictions>>
    /\ UNCHANGED <<derivedFrom, searchVars, history>>

-----------------------------------------------------------------------------
\* ScreeningGate.screen, statement by statement.
Gate(from, to) ==
    /\ phase = from
    /\ phase' \in to
    /\ current' = IF phase' = "reset" THEN NoBelief ELSE current
    /\ UNCHANGED <<derivedFrom, searchVars, todo, history>>

Latest == verdicts[current][Len(verdicts[current])]

\* Variant of Lookup that applies the stored verdict once more.
MutantReapply ==
    /\ Gate("lookup", {"reset", "verdict"})
    /\ phase' = "reset" <=> verdicts[current] # <<>>
    /\ status' = IF verdicts[current] # <<>>
                 THEN [status EXCEPT ![current] = ScreenedStatus(Latest)]
                 ELSE status
    /\ UNCHANGED <<clock, fact, txTo, supersededBy, scored, screened, verdicts,
                   quarantine, contradictions>>

\* The stored verdict, if there is one, is the answer.
Lookup ==
    /\ Gate("lookup", {"reset", "verdict"})
    /\ phase' = "reset" <=> verdicts[current] # <<>>
    /\ UNCHANGED vars

InsertVerdict(v) ==
    /\ Gate("verdict", {"update"})
    /\ verdicts' = [verdicts EXCEPT ![current] = Append(@, v)]
    /\ UNCHANGED <<clock, status, fact, txTo, supersededBy, scored, screened,
                   quarantine, contradictions>>

UpdateBelief ==
    /\ Gate("update", {"reset", "hold"})
    /\ phase' = "hold" <=> Latest = "quarantined"
    /\ IF status[current] = "pending"
       THEN /\ status' = [status EXCEPT ![current] = ScreenedStatus(Latest)]
            /\ scored' = [scored EXCEPT ![current] = TRUE]
            /\ screened' = [screened EXCEPT ![current] = TRUE]
       ELSE UNCHANGED <<status, scored, screened>>
    /\ UNCHANGED <<clock, fact, txTo, supersededBy, verdicts, quarantine,
                   contradictions>>

InsertQuarantine ==
    /\ Gate("hold", {"reset"})
    /\ quarantine' = [quarantine EXCEPT ![current] = Append(@, "held")]
    /\ UNCHANGED <<clock, status, fact, txTo, supersededBy, scored, screened,
                   verdicts, contradictions>>

\* Variant of GateFails that submits the same descendant again.
MutantTryAgain ==
    /\ \E from \in {"verdict", "update", "hold"} : Gate(from, {"lookup"})
    /\ UNCHANGED vars

\* Any error of the gate is logged, and the next descendant has its turn.
GateFails ==
    /\ \E from \in {"lookup", "verdict", "update", "hold"} : Gate(from, {"reset"})
    /\ UNCHANGED vars

\* The cascade ends with an audit record, which the sink may refuse.
Finish ==
    /\ phase = "reset" /\ todo = {}
    /\ phase' \in {"done", "aborted"}
    /\ UNCHANGED <<vars, derivedFrom, searchVars, rescreenVars, history>>

Cascade ==
    \/ Revisit \/ Visit \/ SearchEnds
    \/ \E d \in Belief : Reset(d)
    \/ Lookup \/ (\E v \in Verdict : InsertVerdict(v))
    \/ UpdateBelief \/ InsertQuarantine \/ GateFails \/ Finish

-----------------------------------------------------------------------------
\* A belief may be derived from any beliefs that are there when it is written;
\* a correction is derived from none.
Write(b) ==
    \/ Ingest(b) /\ \E parents \in SUBSET Written :
                       derivedFrom' = [derivedFrom EXCEPT ![b] = parents]
    \/ Correct(b) /\ UNCHANGED derivedFrom

\* The poller, in its own transaction, and the reviewers.
ScreenOrReview(b) ==
    /\ (\E v \in Verdict : Screen(b, v)) \/ Review(b)
    /\ UNCHANGED derivedFrom

Others ==
    /\ \E b \in Belief : Write(b) \/ ScreenOrReview(b)
    /\ UNCHANGED cascadeVars

ContainmentNext == Others \/ (\E r \in Belief : Start(r)) \/ Cascade

\* The caller of a cascade waits for it, and its statements return.
ContainmentSpec ==
    /\ ContainmentInit
    /\ [][ContainmentNext]_allVars
    /\ WF_allVars(Cascade)

-----------------------------------------------------------------------------
(***************************************************************************)
(* Security Invariant 1 survives the cascade: what consumers retrieve, the *)
(* gate has trusted or a reviewer has released, although the statements of *)
(* the gate are no longer one transaction and a belief may have two        *)
(* verdicts.                                                               *)
(***************************************************************************)
StillAdmitted == \A b \in TrustedCurrent : Admitted(b)

(***************************************************************************)
(* What the cascade goes on to reset is everything that was derived from   *)
(* the root when it began, however branches meet and whatever is written   *)
(* meanwhile, and nothing that is not derived from it (derived_from has no *)
(* cycles: a belief names beliefs that were there before it).              *)
(***************************************************************************)
SearchComplete ==
    phase = "reset" =>
        /\ lineage \subseteq visited
        /\ \A d \in visited \ {root} : derivedFrom[d] \intersect visited # {}

(***************************************************************************)
(* Containment: when the cascade has completed, no descendant that was     *)
(* retrievable when it began is retrievable, whatever gate, pollers and    *)
(* reviewers did in the meantime and do afterwards.                        *)
(***************************************************************************)
Contained == phase = "done" => suspects \intersect TrustedCurrent = {}

(***************************************************************************)
(* A cascade that has begun ends, with or without a completion record: no  *)
(* graph keeps the search going, no failing descendant the rescreening.    *)
(***************************************************************************)
CascadeEnds == phase = "search" ~> phase \in {"done", "aborted"}
=============================================================================
