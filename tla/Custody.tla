------------------------------ MODULE Custody -------------------------------
(***************************************************************************)
(* A19 (agents/integrity/a19_custody.py): the cycles that copy the         *)
(* control-plane audit events of the cluster into the audit sink.          *)
(*                                                                         *)
(* Events are asked for since last_polled_at, in whole seconds of Second   *)
(* ticks; last_polled_at is the time at which the answer was read, and     *)
(* only the process remembers it.                                          *)
(***************************************************************************)
EXTENDS AuditSink, Integers, FiniteSetsExt

CONSTANTS Occurrence,  \* the control-plane events
          Second,      \* ticks of a second
          MaxTime, MaxRestarts

ASSUME CustodyAssumption ==
    Second \in Nat \ {0} /\ MaxTime \in Nat \ {0} /\ MaxRestarts \in Nat

VARIABLES
    now,
    when,      \* the time of each event, 0 while it has not happened
    cycle,     \* "idle", "asked" or "ingesting"
    cursor,    \* last_polled_at, 0 for None
    events,    \* what the cycle has still to ingest
    worm,      \* how many records of each event the audit sink has, at most 2
    dropped,   \* history: events whose record failed
    asked,     \* history: when this cycle was answered, 0 before
    gap,       \* history: events between an answer and the second it is read in
    read,      \* history: the seconds in which answers have been read
    restarts

custodyVars == <<now, when, cycle, cursor, events, worm, dropped, asked, gap, read,
                 restarts>>

CustodyTypeOK ==
    /\ now \in 1..MaxTime /\ when \in [Occurrence -> 0..MaxTime]
    /\ cycle \in {"idle", "asked", "ingesting"}
    /\ cursor \in 0..MaxTime /\ asked \in 0..MaxTime
    /\ events \subseteq Occurrence /\ dropped \subseteq Occurrence
    /\ worm \in [Occurrence -> 0..2]
    /\ gap \subseteq Occurrence /\ read \subseteq 0..MaxTime
    /\ restarts \in 0..MaxRestarts

CustodyInit ==
    /\ now = 1 /\ when = [e \in Occurrence |-> 0]
    /\ cycle = "idle" /\ cursor = 0 /\ events = {}
    /\ worm = [e \in Occurrence |-> 0]
    /\ dropped = {} /\ asked = 0 /\ gap = {} /\ read = {} /\ restarts = 0

-----------------------------------------------------------------------------
Tick ==
    /\ now < MaxTime /\ now' = now + 1
    /\ UNCHANGED <<when, cycle, cursor, events, worm, dropped, asked, gap, read, restarts>>

Occur(e) ==
    /\ when[e] = 0 /\ when' = [when EXCEPT ![e] = now]
    /\ UNCHANGED <<now, cycle, cursor, events, worm, dropped, asked, gap, read, restarts>>

\* strftime drops what is less than a second.
Whole(t) == t - (t % Second)

Since(t) == {e \in Occurrence : when[e] # 0 /\ when[e] >= t}

\* ccloud answers with the events since last_polled_at.  A first poll passes no
\* --since, though the docstring speaks of 24 hours, and gets all there is.
Ask ==
    /\ cycle = "idle"
    /\ cycle' = "asked" /\ events' = Since(Whole(cursor)) /\ asked' = now
    /\ UNCHANGED <<now, when, cursor, worm, dropped, gap, read, restarts>>

\* Variant of Unanswered that moves the cursor.
MutantMoves == cursor' = now

\* ccloud is not there, fails, takes too long or answers what cannot be parsed.
Unanswered == cursor' = cursor

AskFails ==
    /\ cycle = "asked" /\ Unanswered
    /\ cycle' = "idle" /\ events' = {} /\ asked' = 0
    /\ UNCHANGED <<now, when, worm, dropped, gap, read, restarts>>

Read ==
    /\ cycle = "asked"
    /\ cursor' = now
    /\ gap' = gap \union {e \in Since(asked) : when[e] < Whole(now)}
    /\ read' = read \union {Whole(now)}
    /\ cycle' = IF events = {} THEN "idle" ELSE "ingesting"
    /\ asked' = 0
    /\ UNCHANGED <<now, when, events, worm, dropped, restarts>>

\* A record that fails is logged, and the event is not tried again.
Ingest(e) ==
    /\ cycle = "ingesting" /\ e \in events
    /\ \E emission \in Emission :
          /\ worm' = IF Stored(emission) THEN [worm EXCEPT ![e] = Min({@ + 1, 2})] ELSE worm
          /\ dropped' = IF Stored(emission) THEN dropped ELSE dropped \union {e}
    /\ events' = events \ {e}
    /\ cycle' = IF events = {e} THEN "idle" ELSE "ingesting"
    /\ UNCHANGED <<now, when, cursor, asked, gap, read, restarts>>

\* The process ends, and another begins without a cursor.
Restart ==
    /\ restarts < MaxRestarts /\ restarts' = restarts + 1
    /\ cycle' = "idle" /\ cursor' = 0 /\ events' = {} /\ asked' = 0
    /\ UNCHANGED <<now, when, worm, dropped, gap, read>>

CustodyNext ==
    \/ Tick \/ Ask \/ AskFails \/ Read \/ Restart
    \/ \E e \in Occurrence : Occur(e) \/ Ingest(e)

-----------------------------------------------------------------------------
(***************************************************************************)
(* MissingExplained: an event that is not in the audit sink is about to be  *)
(* ingested, will be asked for again, has had its one record fail, or      *)
(* happened after ccloud had answered and before the answer was read, in a *)
(* second that no later cycle asks for.                                    *)
(***************************************************************************)
MissingExplained ==
    \A e \in Occurrence : when[e] # 0 /\ worm[e] = 0 =>
        \/ e \in events
        \/ when[e] >= Whole(cursor)
        \/ e \in dropped
        \/ e \in gap

(***************************************************************************)
(* RepeatsExplained: an event is in the audit sink more than once only     *)
(* when an answer was read in the second in which it happened, which the   *)
(* next cycle asks for again, or after a restart.                          *)
(***************************************************************************)
RepeatsExplained ==
    \A e \in Occurrence : worm[e] > 1 /\ restarts = 0 => Whole(when[e]) \in read

(***************************************************************************)
(* EventsAccounted: whatever is missing in the audit sink, or there more   *)
(* than once, is so for a reason that an operator can name.                *)
(***************************************************************************)
EventsAccounted == MissingExplained /\ RepeatsExplained
=============================================================================
