--------------------------- MODULE BackupCatalog ----------------------------
(***************************************************************************)
(* A19's Mechanism 3: the backup that is named for a time in the past      *)
(* (agents/integrity/a19_custody.py).  The catalog is listed through       *)
(* ccloud and kept in the process until somebody forces a refresh.         *)
(***************************************************************************)
EXTENDS Integers, FiniteSets

CONSTANTS Backup, MaxMoment

ASSUME CatalogAssumption == MaxMoment \in Nat

Moment == 1..MaxMoment

VARIABLES
    catalog,   \* the backups as the cluster knows them, the expired ones too
    cache,     \* _backup_cache: the backups as they were listed last
    changed,   \* history: the backups that have changed since then
    query      \* the last query, if the catalog has not changed since, and
               \* what mechanism_3_query answered

catalogVars == <<catalog, cache, changed, query>>

\* covers_to is NULL until the backup has completed.
Missing == [status |-> "missing", from |-> 0, to |-> 0]
Entry   == [status : {"running", "failed"}, from : Moment, to : {0}]
             \union [status : {"completed"}, from : Moment, to : Moment]
             \union [status : {"expired"}, from : Moment, to : 0..MaxMoment]

NoQuery == [asOf |-> 0, forced |-> FALSE, answer |-> "none", by |-> {}]

CatalogTypeOK ==
    /\ catalog \in [Backup -> Entry \union {Missing}]
    /\ cache \in [Backup -> Entry \union {Missing}]
    /\ changed \subseteq Backup
    /\ query \in [asOf : 0..MaxMoment, forced : BOOLEAN,
                  answer : {"none", "covered", "gap", "empty", "raised"},
                  by : SUBSET Backup]

CatalogInit ==
    /\ catalog = [b \in Backup |-> Missing]
    /\ cache = catalog /\ changed = {} /\ query = NoQuery

-----------------------------------------------------------------------------
Change(b, entry) ==
    /\ catalog' = [catalog EXCEPT ![b] = entry]
    /\ changed' = changed \union {b} /\ query' = NoQuery
    /\ UNCHANGED cache

\* trigger_backup, or the schedule of the cluster.
Begin(b) ==
    /\ catalog[b] = Missing
    /\ \E from \in Moment : Change(b, [status |-> "running", from |-> from, to |-> 0])

End(b) ==
    /\ catalog[b].status = "running"
    /\ \/ \E to \in catalog[b].from..MaxMoment :
             Change(b, [status |-> "completed", from |-> catalog[b].from, to |-> to])
       \/ Change(b, [catalog[b] EXCEPT !.status = "failed"])

Expire(b) ==
    /\ catalog[b].status \in {"completed", "failed"}
    /\ Change(b, [catalog[b] EXCEPT !.status = "expired"])

\* What ccloud lists; and what the code has in hand when it can not list.
Listing == [b \in Backup |-> IF catalog[b].status = "expired" THEN Missing ELSE catalog[b]]

Nothing == [b \in Backup |-> Missing]

Covers(entry, asOf) ==
    entry.status = "completed" /\ entry.from <= asOf /\ asOf <= entry.to

Covering(entries, asOf) == {b \in Backup : Covers(entries[b], asOf)}

\* The backups that cover the time, of which the answer names the one completed
\* last; a gap, with the span of the list; or "No backups found in catalog".
Answers(asOf, forced, entries) ==
    query' = [asOf |-> asOf, forced |-> forced, by |-> Covering(entries, asOf),
              answer |-> CASE Covering(entries, asOf) # {} -> "covered"
                           [] entries = Nothing -> "empty"
                           [] OTHER -> "gap"]

\* Variant of Cached that does not ask whether a refresh is forced.
MutantCached(forced) == cache # Nothing

\* An empty list is no cache.
Cached(forced) == ~forced /\ cache # Nothing

FromCache(asOf, forced) ==
    /\ Cached(forced)
    /\ Answers(asOf, forced, cache)
    /\ UNCHANGED <<cache, changed>>

Lists(asOf, forced) ==
    /\ ~Cached(forced)
    /\ cache' = Listing /\ changed' = {}
    /\ Answers(asOf, forced, Listing)

\* ccloud is not there, or exits with an error: the list is empty, and what is in
\* memory stays there.
ListingFails(asOf, forced) ==
    /\ ~Cached(forced)
    /\ Answers(asOf, forced, Nothing)
    /\ UNCHANGED <<cache, changed>>

\* It does not answer in time, or with something that can not be read: nobody
\* catches that, and the query has no answer.
Raises(asOf, forced) ==
    /\ ~Cached(forced)
    /\ query' = [asOf |-> asOf, forced |-> forced, answer |-> "raised", by |-> {}]
    /\ UNCHANGED <<cache, changed>>

Query(asOf, forced) ==
    /\ \/ FromCache(asOf, forced) \/ Lists(asOf, forced)
       \/ ListingFails(asOf, forced) \/ Raises(asOf, forced)
    /\ UNCHANGED catalog

CatalogNext ==
    \/ \E b \in Backup : Begin(b) \/ End(b) \/ Expire(b)
    \/ \E asOf \in Moment, forced \in BOOLEAN : Query(asOf, forced)

-----------------------------------------------------------------------------
\* The backups a restore to that time could begin with.
Restorable(asOf) ==
    {b \in Backup : catalog[b].status = "completed" /\ asOf \in catalog[b].from..catalog[b].to}

\* Those that an answer names and should not, or should name and does not.
Wrong(q) == (q.by \ Restorable(q.asOf)) \union (Restorable(q.asOf) \ q.by)

(***************************************************************************)
(* CoverageHonest: an answer that names a backup or the span of a gap is   *)
(* wrong at most about backups that have changed since the list was read,  *)
(* and a forced one about none, whatever calls of ccloud failed before or  *)
(* in between; and a backup it names did cover the time, although it may   *)
(* have expired.  (Nothing is promised of the two other answers: see       *)
(* EmptyMeansNone.)                                                        *)
(***************************************************************************)
CoverageHonest ==
    query.answer \in {"covered", "gap"} =>
        /\ Wrong(query) \subseteq changed
        /\ query.forced => Wrong(query) = {}
        /\ \A b \in query.by :
              /\ catalog[b].status \in {"completed", "expired"}
              /\ query.asOf \in catalog[b].from..catalog[b].to

(***************************************************************************)
(* EmptyMeansNone, the note of a19_custody.py:395 ("No backups found in    *)
(* catalog.  Mechanism 3 is unavailable."), taken at its word: the catalog *)
(* has none.                                                               *)
(***************************************************************************)
EmptyMeansNone == query.answer = "empty" => Listing = Nothing
=============================================================================
