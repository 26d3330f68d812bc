# PQBS: a verification project

The Poison-Quarantine Belief Store (PQBS) keeps, in CockroachDB, the beliefs that
AI agents share. A belief is written as *pending*, screened by a gate, trusted,
quarantined or left inconclusive, decided by a human reviewer if it was
quarantined, and superseded when a later belief contradicts it or says the same.
Consumers retrieve what the view `v_trusted_current` lets through, auditors ask
about the past, and several agents watch over the store itself.

This directory models that life in TLA+, checks it with TLC on small instances,
and proves what matters most with TLAPS. Paths are relative to the root of the
repository; `pqbs/` stands for `src/pqbs/`.

## 1. Inventory

| Component | State it keeps | Operations | Interacts with |
|---|---|---|---|
| A7 resolution (`agents/semantics/resolve.py`) | `belief`, `provenance`, `contradiction_event` | `_resolve_precedence`, `resolve` | called by A1 and A3 in their transaction |
| A1 ingest, A3 correct (`agents/producer/`) | a batch of candidates, one connection | `ingest`, `correct` | A13 (only A1), A11, A12, retry, A7 |
| Substrate (`substrate/`) | attempt counter, transaction | `with_serializable_retry`, `begin_serializable`, `commit`, `rollback` | every writer |
| A4 ScreeningGate (`integrity/gate.py`) | `integrity_verdict`, `quarantine`; `status`, `trust_score`, `screened_at` of `belief` | `screen` | S1–S8; called by poller, Lambda, A6, A15 |
| S1–S8 (`integrity/signals/`) | none | `compute` | read the tables, called by the gate |
| BeliefPoller (`integrity/poller.py`) | one connection, the fetched batch | `poll_once`, `run` | A4 |
| Screening Lambda (`infra/lambda/handler.py`) | none | `handler` | change feed, A4 |
| A6 cascade (`agents/integrity/a6_cascade.py`) | queue, visited set, descendants to reset | `cascade` | reads `provenance.derived_from`, resets beliefs, calls A4 |
| A14 review (`agents/integrity/a14_review.py`) | `quarantine.disposition` | `list_pending_review`, `release`, `reject` | belief status, audit sink |
| Audit sink (`agents/integrity/audit_sink.py`) | write-once records | `emit`, `emit_or_block` | A5, A6, A14, A18, A19 |
| A13 admission (`agents/producer/a13_admission.py`) | none (counts rows) | `check`, `enforce` | first step of `ingest` |
| A8 consolidation (`agents/integrity/a8_consolidation.py`) | duplicate groups of one run | `run` | supersedes trusted rows behind A7's back |
| A2 inference (`agents/integrity/a2_inference.py`) | none | `infer` | writes beliefs past A7 and A13 |
| A5 drift and its scheduler (`agents/integrity/`) | one connection, a stop event | `run_drift_scan`, `run_once`, `run` | belief tables, audit sink |
| A9 recall (`recall/`) | `retrieval_log` | `recall` | the table by distance, the view |
| A10 audit (`audit/engine.py`) | none | `query_*`, `diff_beliefs` | the history of the tables |
| A15 red team (`agents/integrity/a15_redteam.py`) | seeds, inserted entries, counters | `run_evaluation` | A4, with each signal ablated |
| A18 posture (`agents/integrity/a18_posture.py`) | a baseline file | `capture_and_save_baseline`, `run_verification_cycle` | audit sink |
| A19 custody (`agents/integrity/a19_custody.py`) | time of the last poll, backup cache | `poll_control_plane_audit`, `ingest_events_to_worm`, `mechanism_3_query` | audit sink, `ccloud` |
| A11 canonicalize, A12 embed, A17 telemetry, MCP client, launcher, demo | none that others read | — | — |

What is hard in this system:

* **Interleaving.** Writers, pollers, Lambda, cascade, consolidation and reviewers
  change the same rows. The code relies on SERIALIZABLE isolation, on the lookup of
  a stored verdict, and on UPDATEs with a `status = …` filter whose row count nobody
  reads.
* **Retry.** A refused transaction must begin again from its reads, must not retry
  for ever, and must not report a result it does not have.
* **Transactions that are wider or narrower than they look.** psycopg opens one
  with the first SELECT. A poller that finds nothing, a call of `ingest` that is
  refused, a drift scan that fails leave it open, or aborted, for what comes next on
  the connection. The cascade recommends autocommit, where the gate's four
  statements are four transactions. A pass of A8 commits in the middle of what it
  decided on one SELECT.
* **Partial failure.** One candidate of a batch, one row of a poll, one entry of the
  change feed, one signal of the gate, one record of a cycle fails, on a connection
  that may be unusable afterwards.
* **Delivery.** The change feed delivers late, twice and out of order, and an answer
  that names failures still acknowledges them. `ccloud` may not answer, or answer
  about a second that is not over.
* **History.** Chains of `superseded_by`, transaction time and contradiction events
  must still explain, long afterwards, why a belief is gone.

What makes the components correct:

* A7: the rule is a strict order, so that contested facts settle; each
  supersession is explained by an event and closes one row when it opens another.
* A4, poller, Lambda: one verdict, one status and at most one held row per belief;
  what is written gets screened or reported; a failing signal does not decide.
* A14: the review queue is exactly the quarantined beliefs; a decision is final, and
  on record before it takes effect.
* The store as a whole: consumers, and agents that derive beliefs, see only what the
  gate or a reviewer admitted.
* A6: all descendants are found, none stays retrievable, the cascade ends.
* Retry: the tables change as if every transaction had run alone; answers are true.
* A13: limits are overshot by a known amount only; who gets past a full throttle had an
  old count, or none. (That throttling ends is not true: undecided beliefs fill it for good.)
* A8: a merge stays inside the quarantine boundary and is a justified supersession.
* A9: a short answer has a reason; the log misses at most one answer.
* A10: a query for a past time returns the store of that time.
* A5, A18, A19: what their reports say holds; what the audit sink misses, or has
  twice, has a reason.

PROJECT.json lists the hazards line by line, with the properties about them.

## 2. Modules

| Module | Models | Composes |
|---|---|---|
| `Precedence` | `_resolve_precedence`: tier, recency, confidence with tolerance | – |
| `Contest` | one single-valued fact under a stream of challengers | `Precedence` |
| `BeliefStore` | the belief tables and the four transactions on them | `Precedence` |
| `TrustBoundary` | abstract: what consumers are promised about each belief | refined by `BeliefStore` |
| `WriteRetry` | calls of `ingest` and `correct` with conflicts, retries, lost connections | refines `BeliefStore` |
| `Screening` | pollers, their connection and its transaction | refines `BeliefStore` |
| `Containment` | the cascade, statement by statement, among the other components | extends `BeliefStore` |
| `CascadeClaims` | what documents say of the cascade and the code does not do | `Containment` |
| `Signals` | the rules of S1–S8 | – |
| `TrustScore` | the gate from the signals to the verdict and its reason | `Signals` |
| `RedTeam` | A15: an evaluation of that gate | `TrustScore` |
| `Judging` | the score and the precedence, the two ways in which beliefs are judged | `RedTeam`, `Contest` |
| `Consolidation` | A8 among writers, gate and reviewers | extends `BeliefStore` |
| `Reconstruction` | A10's two mechanisms and the diff, over a store that A8 works on | `Consolidation` |
| `Admission` | A13 in front of `ingest`, and the connection of a call | extends `BeliefStore` |
| `ChangeFeed` | the feed and the Lambda | extends `BeliefStore` |
| `Inference` | A2 | extends `BeliefStore` |
| `Recall` | A9, the vector index and the retrieval log | extends `Inference` |
| `Intake` | the ways into and out of the store | `Admission`, `ChangeFeed`, `Recall` |
| `AuditSink` | what a caller of `emit` and `emit_or_block` meets | – |
| `DecisionLog` | abstract: decisions on record and in effect | refined by `ReviewDesk` |
| `ReviewDesk` | A14 with the record that is written before the commit | `AuditSink` |
| `Custody`, `BackupCatalog` | A19: control-plane events; Mechanism 3 | `AuditSink`, – |
| `Posture` | A18 | `AuditSink` |
| `DriftWatch` | A5's detectors and the scheduler | `AuditSink` |
| `Oversight` | the five that watch over the store | the five above |
| `MC…` | the small instances | – |
| `…Proofs` (8 modules) | theorems | – |

### Precedence and Contest

A claim is a source tier, a `valid_from` and a confidence. Confidences are
integers; two of them are the same when they differ by at most `Epsilon`, which
stands for the `1e-9` of the code, and the instance has confidences within it and
beyond it, so that the tolerance matters. `ResolvePrecedence(challenger,
incumbent, override)` returns the resolution and its basis as the code does.

### BeliefStore

| Variable | Column |
|---|---|
| `status`, `txTo`, `supersededBy` | `belief.status`, `.tx_to`, `.superseded_by` |
| `fact` | what never changes: subject and predicate (`key`), claim, `tx_from` |
| `scored`, `screened` | whether `trust_score` and `screened_at` are set |
| `verdicts` | the `integrity_verdict` rows of the belief, oldest first |
| `quarantine` | the dispositions of its `quarantine` rows |
| `contradictions` | the `contradiction_event` rows |

`Ingest` and `Correct` are the whole of `resolve` with what it writes; `Screen`
is `ScreeningGate.screen` and its commit; `Release` and `Reject` are A14. The
incumbent of a fact is *any* of the most recent trusted rows, since `ORDER BY
valid_from DESC LIMIT 1` leaves ties open. Every branch of the code is there,
including that a refused challenger is written as pending all the same.

Decisions:

* One tenant: every statement carries `tenant_id`.
* A transaction is one step. `WriteRetry` justifies this for the write path,
  `Screening` for the poller and `ReviewDesk` for reviewers; `Containment` and
  `Consolidation` drop it where the code does.
* `clock` numbers the resolve transactions; `tx_from` and `tx_to` are taken from
  it. Serializable transactions have such an order; that `now()` follows it is an
  assumption about the database.
* There is one screener version (`SCREENER_VERSION` is a constant of the code).
* The score is open here: any verdict may come for any belief. `TrustScore` says
  which one does.
* `valid_to` is NULL in everything `resolve` writes and is left out.
* Where the code at this commit fails *every* time (the prompt of A1, the columns
  that A2's INSERT and the queries of D1 and of A8's TTL check name, the argument
  the drift scheduler passes, the `ChangeEvent` the Lambda builds), the models say
  that it *may* fail: they cover this commit and a repaired one. The properties
  hold of both.

### WriteRetry

Each `Writer` is a call with its own connection: `Prepare` (canonicalize and
embed, outside the retried transaction), `Begin` (a transaction that reads the
incumbents), `Commit` (if what it read is still so; this is what SERIALIZABLE
means here), `SerializationFailure` (at any time, conflict or not) followed by
`Retry` or `Exhausted`, and `Disconnect`, where a lost commit may have happened.
A connection whose implicit transaction has failed in `canonicalize` is
`unusable` for the rest of the batch. On the first attempt the transaction may
have begun as early as `Prepare`; that is the case in which `Begin` follows at
once and time passes before `Commit`.

### Screening

`view` is what the open transaction of a poller sees: psycopg opens one with the
SELECT, and only the commit or rollback of a row ends it. `Fetch` takes the oldest
`BatchSize` rows of that view, `ScreenRow` submits one (a stored verdict is
returned as it is), `SkipRow` rolls back and goes on, `LoseConnection` ends the
batch and nothing reopens the connection. `Stuck` are beliefs whose screening
raises whoever tries. `OldestFirst` is what `poll_once` says of itself, stated of the
database as it is at the moment of the query and not of the snapshot read.

### Containment

`Start` is the entry of `cascade`, `Revisit` and `Visit` are the two branches of
the breadth-first loop with one query each (the order of its rows is open),
`Reset` is the UPDATE that takes a descendant back and the CHECK that may refuse
it, then `Lookup`, `InsertVerdict`, `UpdateBelief`, `InsertQuarantine` are the
statements of the gate, and `GateFails` is the `except` that logs and goes on.
The connection is in autocommit mode, as the docstring of `cascade` recommends and
the integration tests have it, so other components act between any two of these.
Nothing in the repository calls `CascadeAgent`; cascades are started here for any
belief with a held quarantine row, one after another, `MaxCascades` in all.

### Signals, TrustScore, RedTeam

Scores, weights and thresholds are integers (percent), so a composed score is in
ten-thousandths. A sum of floats may fall on either side of a threshold that the
integers meet exactly; `Classify` then allows both verdicts.

`Signals` has the rule of each signal as a function from what it reads (a tier, a
count, a distance, the statuses of the parents) to a score and whether it fired.
`TrustScore` runs the loop of `screen`: `Compute` and `Fail` for the signal whose
turn it is, `Judge` for the rest. `intended` remembers what a failed signal would
have said. `tx` is the transaction: in one that an SQL error has aborted
(`Transactional`), every further query fails as well, and only S3 and S8 go on; the
verdict then cannot be written and `screen` raises. `Outcomes(i)` is what signal
`i` may come to; the theorem `SignalsFit` shows that the rules satisfy what
`TrustScore` assumes of it.

`RedTeam` is `run_evaluation`: `Seed` for each predicate, `Insert` and
`ScreenEntry` for each entry, the ablation of each signal (`without`: how much
poison would still be caught), `Report`, and `Break` at any point, after which an
evaluation may be started again on what was committed.

`Judging` puts `RedTeam` and `Contest` side by side; a behaviour is of one or of the other.

### Consolidation and Reconstruction

`Read` is the SELECT of the duplicate groups with the winner of each; `Skip` and
`Merge` handle one group, `Merge` with its commit. Until the first commit the pass
is in the transaction of the SELECT (`fresh`) and a change of the groups makes the
commit fail; afterwards (`later`) groups are merged on what was read then, while
only `status = 'trusted'` in the UPDATE protects the losers and nothing protects
the winner. `DryRun` counts without changing anything. `Abort` is any error; `Finish`
flags rows with many predecessors. A merge sets `valid_to` and leaves `tx_to` NULL,
which is how `Merged` tells merges from contradictions.

`Reconstruction` adds the history variable `past`, the store after each transaction,
and the questions: `Bitemporal` (mechanism 1), `MVCC` (mechanism 2, of the rows as they
were, for as long as the database keeps versions), `Automatic` with its fallback,
`Added` and `Removed` of `diff_beliefs`.

### Admission, ChangeFeed, Inference, Recall, Intake

`Admission`: the calls of one agent, each with a connection whose `transaction` is
none, open (then it sees the counts `seen`, however old) or aborted. `Enforce` is the
check with its three outcomes and the two ways it may fail: a quota that cannot be
counted throttles, a depth that cannot be counted is 0 but leaves the transaction
aborted. Then come `Dismiss` (the agent lookup), `Extract`, `Write` and `WriteFails` per
candidate. Nobody rolls back after a refusal; `Rollback` is the caller.

`ChangeFeed`: `feed` are the inserted rows whose entry has not been acknowledged;
`Deliver` screens one or fails, and the answer, if it arrives, acknowledges both.

`Inference`: `Infer` derives any number of new beliefs from trusted parents in one
transaction, `InferLost` is a call one of whose statements fails.

`Recall`: `Search` takes any `Nearest` rows of the vector index (the distance is open),
then applies the view, the filters of the request (any set of rows may pass) and the
limit; the answer is logged, or not, on the same connection. The query is forced through
`idx_belief_vector`, which has only rows with an embedding: those A7 has inserted, and
none that A2 has (`Indexed`).

`Intake` composes them in three *settings*, and a behaviour stays in the one it begins
in: calls with screenings; writers, A2 and reviewers with the feed; writers, A2, gate
and reviewers with a consumer. No fairness is assumed in any of them. The settings share
the store and no other state, so a property of one says nothing less for the absence of
the others' private variables; that all writers use the store together is what
`BeliefStore` is about.

### The five offices of Oversight

* `ReviewDesk`: `Decide` (fetch, check, two UPDATEs), `Audit` (the record; an error
  rolls back), `Commit` if what was read is still so, `Abandon` anywhere. It refines
  `DecisionLog`.
* `Custody`: `Ask` and `Read` are apart, because the cursor is set to the time at
  which the answer is read; `Ingest` writes one record; `Restart` forgets the cursor.
  The parameter is in whole seconds of `Second` ticks. Without a cursor there is no
  parameter, and all events are asked for.
* `BackupCatalog`: backups begin, end and expire in the cluster. `Query` answers from
  the cache or asks `ccloud`, which lists (`Lists`), is not there or exits with an error
  (`ListingFails`: an empty list, which is not cached), or takes too long or prints what
  cannot be read (`Raises`: nobody catches it). There are three answers: the backups that
  cover the time, a gap, and "No backups found in catalog". `changed` remembers which
  backups have changed since the list in memory was made.
* `Posture`: `Alter` is anybody with the rights, `Capture` takes what is there as
  expected, `Verify` compares and writes the record before it raises. What a capture
  sees may lack the TTL, because the failure of that query is swallowed.
* `DriftWatch`: the detectors as rules over counts, `Scan` and `Emit1` per tenant,
  `ScanFails` with a connection that stays aborted, since nobody rolls back, and the
  loop with its stop event. The counts of a scan are open, so nothing depends on the
  snapshot it reads: a scan that succeeds leaves its transaction open as well, and a later
  one may see the same old rows (`drift_scheduler.py:160-165`). What the model says of
  alerts is how they follow from counts, never how recent the counts are.

They share nothing but the write-once sink, in which records have keys of their own,
so a behaviour of `Oversight` is a behaviour of one of them.

## 3. Runs

All pass unless named `claim_…`. `CHECK_DEADLOCK FALSE` because a finite set of
beliefs (times, events, calls) is used up: the real system just waits for the next.

| Run | Instance | Shows |
|---|---|---|
| `belief_store` | 3 beliefs, a single- and a multi-valued fact, 2 times | types; status, verdict and disposition tell one of six stories (`Lifecycle`); consumers see only what was admitted (`Vetted`); the review queue is the quarantined beliefs; supersessions are explained and never fork; records are kept; `TrustBoundary` is implemented |
| `write_retry` | an ingest of two candidates and a correction, one fact, 3 attempts | the retried transactions implement `BeliefStore`; what is answered is what happened; every call answers |
| `screening` | 3 beliefs, 2 pollers, lost connections, a belief that always fails | pollers implement `BeliefStore`; no row is overtaken by a younger one (`OldestFirst`); a fetched row is screened in the end |
| `containment` | 3 beliefs, every derivation graph, 1 cascade | the search is complete; no descendant stays retrievable; what is retrievable was admitted |
| `cascade_ends` | 2 beliefs, 1 cascade | a cascade that has begun ends |
| `judging` | each signal at the edges of its rule and failing; evaluations of 3 entries over 2 predicates; one fact, 2 times, confidences 1, 2, 4 | up to two failing signals, or an outage, never turn a judgement upside down (`FailuresContained`); a quarantine has several signals behind it and the recorded reason is one that fired (`QuarantineGrounded`); weights and thresholds fit (`ThresholdsFit`); an evaluation stands for its corpus and the sign of a marginal contribution means what it seems to (`EvaluationSound`); a replaced claim never wins again on the merits (`NoComeback`) |
| `upkeep` | 4 old beliefs and a new one, one single-valued fact, 2 texts, 1 pass | nothing ever quarantined is merged (`QuarantineBoundary`); supersessions of both kinds are justified and chains end; the superseded stay so; mechanism 1 finds the rows of every past time (`PastReconstructed`); diffs balance and the automatic choice misses nothing (`AnswersTrue`) |
| `intake` | 4 beliefs, 2 processes, quota 1, throttle 1, 2 recalls | by how much limits are overshot (`Overshoot`); undecided beliefs fill the throttle for good, and who gets past it then had an old count or none (`ThrottledForGood`); no belief is lost without a report (`NoSilentLoss`); only admitted beliefs influence anybody (`InfluenceVetted`); why an answer is short, and that no answer has a belief which A2 derived (`CrowdedOut`); at most one answer is unlogged (`OneUnlogged`) |
| `oversight` | 3 reviewers on 1 row; 2 events, 4 ticks, a restart; 2 backups; 5 controls; 2 tenants | decisions are on record before they take effect (`ImplementsLog`) and records are accounted for (`LogAccounted`); missing and repeated events have a reason (`EventsAccounted`); an answer that names a backup or a gap is wrong at most about backups that have changed since they were listed, and a forced one about none (`CoverageHonest`); reports hold, and no tenant is reported calm that was not scanned (`ReportsHold`); the scheduler stops (`StopsWhenAsked`) |

Why these bounds are enough to see the interesting cases:

* Three beliefs are an incumbent, its challenger and the next challenger, or two
  challengers of one incumbent, or a root with two descendants that meet. Two times
  and one confidence let a claim win by tier, by recency and not at all; `judging`
  varies the confidences. Three attempts reach a retry, a second retry and the
  exhaustion. Two pollers have the same row in hand. One cascade visits every graph
  on the beliefs; a second one starts like the first. `containment` uses a
  multi-valued fact, so that beliefs do not supersede each other in it, and
  `claim_CascadeCompletes` a single-valued one.
* `judging`: the readings of each signal are the extremes and both sides of the
  threshold that decides; four lists of scores are poison that is caught, caught by
  the margin of one signal, exactly at the threshold, and missed.
* `upkeep`: four old beliefs make two groups of duplicates, of which the second is
  merged on stale rows, or one group with two losers; the fifth contradicts a loser
  or a winner in between. A window of 1 and a day of 2 put every time in each of the
  cases fresh, collected and old.
* `intake`: a process that writes two beliefs and one that writes one meet a quota
  and a throttle of 1, so both limits can be overshot by all that is allowed. A limit
  of 1 with two nearest rows is the smallest search that can be crowded. One inconclusive
  belief fills the throttle; a batch of A2 next to written rows gives rows in the index and
  rows outside it.
* `oversight`: two reviewers conflict and the third comes after; two seconds of two
  ticks have an event before and after an answer in the same second; of two backups one
  may change, or expire, while the other is listed; counts of 5, 10
  and 15 are the thresholds and their multiples.

Beliefs are interchangeable in the instances with SYMMETRY, and in `upkeep` the texts
are; no property checked under symmetry is a liveness property.

**Fairness.** `write_retry` assumes that each call's thread runs (weak fairness of its
steps): the code neither waits for another call nor sleeps for ever. `screening` assumes
that a poller keeps polling and working through its batch and that a row tried again and
again is not refused every time (strong fairness of `ScreenRow`, for rows that are not
`Stuck`): serialization failures and outages end. `cascade_ends` assumes that the
statements of a cascade return. `oversight` assumes that the thread of the drift
scheduler runs, and nothing of what it meets. `intake` assumes none: `poller.py:106-127`
does not promise that each pending belief is reached (see `StarvedForGood` below), so
nothing in it rests on that. No fairness is assumed of writers, reviewers, failures or
lost connections.

## 4. Where the code and its documents part

Three runs check one sentence of the repository each and find a counterexample;
PROJECT.json quotes the sentence.

| Property | What happens |
|---|---|
| `PollerScreens` | an idle poll leaves a SERIALIZABLE transaction open and sees no later belief |
| `CascadeCompletes` | a superseded descendant makes a CHECK fail, and the cascade ends half done |
| `EmptyMeansNone` | a listing that fails is an empty list, and the answer is "No backups found in catalog. Mechanism 3 is unavailable." (`a19_custody.py:395`) although the catalog has some; README.md:760 and the docstring at `:365` promise the covering backup or an explained gap |

The models show more, without a run of its own.

*The store.* A refused challenger is written as pending and may be trusted next to
the incumbent (README.md:294 against `resolve.py:357`); a challenger removes the
trusted incumbent before it is screened (README.md:109 against `resolve.py:347`). Two
challengers that wait for the gate together are both trusted for a single-valued
fact. An inconclusive belief has no quarantine row, so that no reviewer can reach it
(README.md:621 says otherwise). Nor does a quarantined belief become superseded, as
README.md:620 has it: the incumbent of a resolution is trusted, and so is all that A8
merges. Two gates in autocommit mode may judge one belief
differently; its rejection is then recorded and it stays retrievable
(`a14_review.py:158` against `:206`), and a gate that fails between its statements
leaves a quarantined belief without a quarantine row (against `gate.py:182`).

*The cascade.* The gate answers the re-screening of a descendant from its table, so
the descendant stays pending (README.md:159 against `gate.py:192`); two derivation
paths to one belief set `had_cycle`; a release of a belief that a cascade has reset
is recorded and does nothing.

*The gate.* S1, S2 and S4 together reach the 0.71 of `gate.py:52` only for an
untrusted source; A1 writes unverified ones, which come to 0.635. README.md:674 has S1
compare with trusted beliefs; the query takes all that are not pending. The
`min_trust_score` of a recall keeps the *riskier* beliefs, since a high score is
malicious.

*Consolidation and audit.* The chain flag counts direct predecessors, not the length
of a chain. A group that is merged late may have a winner that has been superseded
since. Merges never show in a diff, because they leave `tx_to` NULL. The fallback of
the automatic mechanism runs on the transaction that the first query has aborted, and
raises unless the connection is in autocommit mode.

*Intake.* A refused call leaves its transaction open, so that the next one on that
connection sees the same counts and the same `NOW()` until somebody rolls back; an
aborted connection is throttled for ever. `correct` does not ask A13, A2 neither A13
nor A7, and the identifiers A2 returns may not be stored. A derived belief, trusted or not,
is never recalled: A2's INSERT gives it no embedding (`a2_inference.py:228`), and recall is
forced through an index of the rows that have one (`recall/engine.py:96`,
`migrations/versions/0006_vector_index.py:29`). Inconclusive beliefs stay pending, so enough
of them keep the throttle of A13 shut for every agent of the tenant. A 207 acknowledges the
entries it names, so failed entries are not delivered again (README.md:828 and the
docstring of the handler expect a retry); an UPDATE entry without its `before` is
always a validation error, so the Lambda never screens what a cascade has reset. A
consumer whose commit is refused has its answer and the log has no row.

*Oversight.* The query of D4 looks at the last write before the dormant days, which
always is before them: every burst is a sleeper (`a5_drift.py:281` says otherwise). A
"high" D2 cannot be: the day is a part of the week it is compared with. A baseline
captured over a drifted schema excuses the drift, as does one captured while the TTL
query fails. Control-plane events between the answer of `ccloud` and the second in
which it is read are lost, and a record that fails is not tried again. The first
poll of a process asks for all events, since no `--since` is passed without a cursor; the
docstring at `a19_custody.py:239-240` says that it falls back to the last 24 hours. A
listing of the backups that takes too long, or cannot be read, is no gap either: the
`TimeoutExpired` or `ValueError` of `_run_ccloud` (`:120-144`) passes the handlers at
`:343-348` and ends `mechanism_3_query`. The list in memory is kept for the life of the
process, not "within a cycle" (`:329`), unless a refresh is forced. After a query of one
tenant has failed, the drift scheduler scans no tenant any more; it says so each time.

## 5. Proofs

`tlapm` checks, for every value of the constants:

* `ContestProofs`. Equality up to a tolerance is not transitive, and still winning
  is: `PrecedenceIsTransitive`, `PrecedenceIsAsymmetric`, `PrecedenceIsSymmetric`
  (of two claims the same one stands, whichever came first). From these,
  `ContestSafety`: `Spec => []NoComeback`.
* `BeliefStoreProofs`. `TypeOK`, `Lifecycle`, `Vetted`, `ReviewQueueExact`,
  `SupersessionExplained` as invariants, `RecordsKept` as an action property,
  and `Spec => ImplementsBoundary`. `StoreNeverBack`: the life of a belief goes one way.
  `StoreDatesApart`: no two rows have the same `tx_from`.

The inductive invariant is `StoreInv`. `Lifecycle` is inductive with types alone
and carries `Vetted` and `ReviewQueueExact`. With `SupersessionExplained` it gives
`ChecksHold`, which no run checks for that reason. `SupersessionExplained` is not
inductive: that a winner has one loser needs that the `tx_from` of written rows are
below `clock` and that nothing points to a belief that has not been written, and
that a row closes later than it opened needs the same for `tx_to`. These parts are
named `Unwritten`, `Dated` and `Closed`. Each action has a lemma of its own, and
under it one step per part that the action can disturb.

`NeverBack` is stated here only, and no run checks it. Lemma `RecordsTellTheWay` derives
it from what the tables tell (`Lifecycle`) and keep (`RecordsKept`), without a look at the
actions: a verdict and a decided quarantine row stay, and show where a belief has been.
So it carries over to every component that keeps records, also to those that do not
implement the store.

* `WriteRetryProofs`. `RetryImplementsStore`: the concurrent write path implements
  `BeliefStore`, from `RetryInv`, which says that a call has a candidate in hand, of
  the tier of its kind and still to be answered, from `Prepare` to the answer; a
  commit on reads that are still good is then one whole `Resolve`. So what is proved
  of the store holds under every interleaving (`RetryVetted`, and `RetryMovesForward`:
  `ImplementsBoundary`, `RecordsKept` and `NeverBack`). `RetryAnswersHonest`
  needs the distinctness of the `belief_id`s and that only a commit adds a belief.
  `CallsAreBounded` is what can be proved of `EveryCallAnswers`: `Progress`, three for an
  attempt and `3 * MaxAttempts` for a candidate, rises with each step of the call, no
  other step lowers it, and `Work` bounds it; that a step is taken is the fairness.
* `UpkeepProofs`, of the components that work through the store on their own. The
  pollers: every submission is one screening of the store or changes nothing
  (`PollersImplementStore`); hence `PollersKeepReviewQueue` and `PollersMoveForward`.
  `PollersKeepTypes` says that no poll takes more rows than its LIMIT: dates are apart
  (`StoreDatesApart`), so the youngest row of a batch has all the others before it, and
  fewer than `BatchSize` rows are before it. `PollersTakeOldest` is `OldestFirst`. An open
  transaction can be old, but one whose batch is done found nothing (`ViewUsed`: of a
  nonempty set of rows a query takes some), so a row is only ever taken from the database
  as it is. The other side of that order is `StarvedForGood`: a row that is in no batch and
  behind as many `Stuck` rows as a batch is long stays so, whatever the pollers, writers
  and reviewers do (`poller.py:124`); it is stated as a theorem only. The passes of A8 and
  the questions of A10 follow below.
* `ContainmentProofs`. The gate is not one transaction here and beliefs go back to
  pending, so `StoreInv` does not hold; `ContainmentInv` stands alone. `Derived`
  says that beliefs are derived from older ones, so that the root is not its own
  descendant. `Lineage` says that all of the lineage is reached from the root within
  it, and `Frontier` that what has been expanded has its children expanded or in
  the queue; with an empty queue the two give `CascadeSearchComplete`. `Suspects`
  says that every suspect had a verdict when the cascade began: the gate then answers
  from its table, so a suspect stays pending once it has been reset, which gives
  `CascadeContains`. (The code contains *because* it does not screen again.)
  `CascadeIsBounded` is what can be proved of `CascadeEnds`: `Ahead`, which counts the
  beliefs to be reset and screened and, with the greater weight, those that have not been
  visited, falls with each step of the cascade, and only another cascade raises it.
* `TrustScoreProofs`. `GateInv`: each entry of the list is what the signal intended
  or, if it failed, neutral, and a verdict follows from the composed score. What is
  left is arithmetic on eight percentages, in lemmas: two signals that move by half
  their range move the sum by at most 2850, which is less than the distance of the
  thresholds (`FailuresAreContained`); two signals alone stay below 7000
  (`QuarantineIsGrounded`). `EvalInv` relates the counters of an evaluation:
  what is inserted is screened or the next to be, and without a signal no more poison
  is caught than was seen (`EvaluationIsSound`). `SignalsFit` is about the rules.
* `IntakeProofs`. `IntakeInv` is `StoreInv`, proved again to survive the batches of
  A2 (`DerivingKeeps`), with three parts: `FeedInv` (every row that is inserted is
  pending and unscored, hence emitted), `InfluenceInv` (what was admitted stays
  admitted, because records are kept: `FitStays`) and `LogInv`. They give
  `NothingSilentlyLost`, `InfluenceIsVetted`, `AtMostOneUnlogged`; and
  `IntakeLifecycle`, that the six stories of `BeliefStore` are true with the feed, A2
  and A13 at work; `IntakeKeepsStoreSound` adds `Vetted`, `ReviewQueueExact`,
  `SupersessionExplained`, `RecordsKept` and `NeverBack`. `CrowdingExplained` is the action
  property `CrowdedOut`: an answer is taken from the index, so nothing derived is in it, and
  a short one misses rows of the index only behind a crowd, by counting rows.
  `ThrottleStays` is `ThrottledForGood`: verdicts are kept (`VerdictsStay`), so an
  inconclusive belief stays pending (`UndecidedStays`) and the undecided only get more; a
  fresh count is then at the throttle, and a call that gets by had an older one, or a query
  that failed (`CloggedCalls`, `AdmittedBy`).
  `OvershootIsBounded` is about A13. `Overshoot` is not inductive: a call that has been
  admitted has yet to write. A call has a slot for each belief it may write. A slot is
  `Owed` while the call has that many writes to go, or while the count that its open
  transaction has taken is below the limit, so that its next call will be admitted on the
  old count. `CallsInv` says that the rows that count and the slots owed together are
  fewer than the limit and all slots: a write fills a slot it gives up, a fresh count
  below the limit leaves room for every slot, and a fresh count at the limit owes none.
* `OversightProofs`. One inductive invariant per office; lemma `Apart` shows that the
  steps of one leave the others alone. `DeskInv` says that a desk that has audited has
  its decision in the log and that every busy desk read "held", so that a serializable
  commit finds it held (`DeskImplementsLog`, `DecisionsAccounted`). `PostureInv` says
  that a baseline has the controls that every baseline has had. `ReportsRelied` is proved
  while `Baseline < 10 * Window` (168 and 24 in the code), which is the very reason
  why D2 is never of high severity. `CalmStep` adds that an
  aborted connection is never followed by a successful scan. `CatalogInv` says that the
  list in memory is what would be listed but for the backups that have `changed`, and that
  a backup it has as completed covers the same times for good, even when it has expired
  since; so an answer from memory is wrong about changed backups only, and one from a
  listing about none (`MemoryIsStale`, `CoverageIsHonest`). `CustodyAccounted` and
  `CoverageIsHonest` need no bound on times or events.

The proofs about `upkeep`, module `UpkeepProofs`. A merge links rows and closes none,
so `StoreInv` ends with the first merge; what is left of it is `TableInv`
(`StoreInv => TableInv`), and most lemmas of `BeliefStoreProofs` need no more.
`UpkeepInv` adds what makes it safe that a pass works on groups read long before:

* The members of a group, and the winner first, are in use and say the same since
  they were read (`GroupsInv`); no decision is due on what is in use, so the check
  before the UPDATEs suffices (`MergesAvoidHeldBeliefs`).
* There is a time of the clock at which the groups were read (`ReadAt`): all members
  are older, and whatever is younger is superseded, if at all, by what is younger too.
  A merge whose winner has been contradicted since links old rows to a chain that
  leads on among young ones, so it closes no loop; this is `ChainsEnd` and with
  `Justified` gives `SupersessionsAreJustified`.

`StepKeeps` and `Moves` say what one step of anybody may do to a row, which is
`SupersessionIsFinal`. For the auditor a step either opens one row, in place of at most
one of the same fact (`Ticks`), or leaves the intervals alone (`Rests`). `PastInv`
therefore extends with the clock (`PastIsReconstructed`), and `Balances`, over any two
times, gains as many rows as it loses, by the theorems on cardinalities
(`AnswersAreTrue`). A merge does not implement the store, but it keeps the records
(`MergesMoveForward`) and the stories (`MergesKeepVetted`). `ReportsBalance` says that a
report accounts for every group that was read. `UpkeepTypesHold` needs that only
finitely many rows have been written, and that groups are disjoint and not empty, for
the count of a dry run not to be negative. The set of beliefs may be infinite.

Assumptions on the constants: the tolerance is a natural number, times and
confidences are integers, `MultiValued` is a subset of `Key`, `NoBelief` is not a
belief; the `belief_id`s of all batches differ and a correction writes one belief
(`BatchAssumption`); for the cascade, `CrowdingExplained` and `ThrottleStays`, the beliefs are
finitely many; so are the processes behind A13; limits and sizes are natural numbers,
where the code divides by them not zero; the beliefs that a used store begins with are
a sequence without repetition. TLC evaluates them in every run.

Only model-checked: the properties under fairness (`EveryCallAnswers`,
`FetchedIsScreened`, `CascadeEnds`, `StopsWhenAsked`), since liveness and
ENABLED are out of the prover's reach; of the first and the third the measures above are
proved. The three claims of the documents that the code does not keep are refuted by TLC,
not by proof. All other properties of the runs are theorems.

## 6. Not modelled

* What texts say: the extraction by the language model, the rules of A11, embeddings
  and distances (A12). Their results are open: any batch, any reading of a signal,
  any order of neighbours.
* A10's lists that describe one belief (`get_attribution` and its like): plain reads.
* The listing of A14 beyond its condition, the other statistics of A15's report, what
  a constraint or grant says in A18, the explicit `since` of A19.
* Grants: every component runs with the same connection in the code. Migrations
  appear where a CHECK, an enum or the view matters.
* The MCP client (a stateless HTTP client that only the demo uses), telemetry, logs and
  waiting times; the launcher, demo, evaluation scripts, infrastructure definitions and
  the feasibility spikes, which are no part of the running system.

`Recall` and `Admission` assume the connections of `get_connection`, which are
transactional; a caller with autocommit has fewer failures to fear from an aborted
transaction and loses the snapshot.

## 7. Plan

Done, in this order: `Precedence`, `Contest`, `BeliefStore` with `TrustBoundary`,
their proofs, `WriteRetry`, `Screening`, `Containment` and theirs; then `TrustScore`
with `Signals` and `RedTeam`, `Consolidation` and `Reconstruction`, `Admission`,
`ChangeFeed`, `Inference` and `Recall` in `Intake`, the five offices of `Oversight`, and
the proofs of all of these; last the bound of A13, the measures of calls and cascades, and
what the store guarantees under every component that works on it; the order of the
pollers and the rows that starve behind it.

Left:

1. What would be needed for a row to be screened in spite of a batchful of older rows
   which always fail (`poller.py:124`): a count of the failures of each row, say.
2. The feed after a cascade: the entries that the handler skips today, for the day on
   which it does not.
3. `get_attribution` against the chains of supersession, whose length its LIMIT cuts.
