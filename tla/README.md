# Verification of ball_backend

TLA+ models of the football backend in `src/`, checked with TLC on small
instances and, for the core, proved with TLAPS for every value of the
constants.  `PROJECT.json` lists the components, the runs, the theorems, the
hazards and, under `map`, the source lines of every definition.

- [The system](#the-system)
- [The modules](#the-modules)
- [The runs](#the-runs)
- [What the runs found](#what-the-runs-found)
- [The proofs](#the-proofs)
- [What is not modelled, and the plan](#what-is-not-modelled-and-the-plan)

## The system

The backend mirrors a football data provider (API-Football) into PostgreSQL and
serves it over HTTP and websockets.  Several replicas may run: web processes
(`app/main.py`), a scheduler (`scheduler_service.py`) and notification workers
(`worker.py`).  They share PostgreSQL and Redis and nothing else.

| component | state it keeps | operations | with whom it interacts |
|---|---|---|---|
| resource locks (`services/resource_lock.py`, `db/__init__.py`) | session-level advisory locks in PostgreSQL; one connection pool per process | acquire, run under, release | every scheduler job and every sync route |
| fixture sync (`services/fixture_sync_service.py`) | `matches`, `match_lineup_finalization`; the active registry | live / daily / season / repair syncs; one savepoint per fixture | provider, events sync, registry, standings cache |
| final lineups (same file, `repositories/final_lineup_finalization_repository.py`) | `match_lineup_finalization`, `match_lineups` | collect candidates, attempt, record a failure | locks, lineup sync |
| event, lineup, odds, statistics syncs (`services/*_sync_service.py`) | one table each, keyed by match | fetch, replace or upsert, commit, drop the cache key | locks, provider, cache |
| active matches (`services/active_match_service.py`) | Redis keys with a TTL | register, unregister, list, heartbeat | fixture sync, refresh jobs, clients |
| standings (`services/standing_sync_service.py`, `services/standing_service.py`) | `standings`, their analytics facts; cache keys to drop after the commit; a flag that defers this, on a service all syncs of a replica share | job, route, prewarm inside the daily fixture sync | locks, fixture sync, projection, cache |
| analytics projection (`services/analytics_projection_service.py`) | fact tables of statistics, lineups, odds, head-to-head and standings | project a source just written, or reject it | every sync that writes such a source |
| cache (`app/cache.py`) | Redis keys with a TTL; errors swallowed | get, set, delete | every read route, every sync |
| notifications (`services/notification.py`, `worker.py`) | Redis lists: queue and dead letters; set of red cards seen | enqueue, consume, retry, dead-letter | fixture and event syncs, Firebase |
| websocket broker (`services/socket_service.py`) | subscriptions of this process | subscribe, broadcast, disconnect | clients |
| master data (`services/{team,venue,coach,referee,player,event}_sync_service.py` and their repositories) | one row per provider identity; each team's coach; each match's referee and venue | find, or create in a savepoint; update | fixture sync, events sync |
| allow-list and leagues (`api/admin_leagues.py`, `services/{league,allowed_league}_service.py`, `services/league{,_season}_sync_service.py`) | `leagues`, `allowed_leagues`, `league_seasons`; two kinds of cache keys | register, allow, remove, patch; sync of all leagues; cached reads | admins, locks, cache, fixture sync |
| odds lines and Myanmar odds (`services/odds_service.py`, `myanmar_odds/`) | none: a choice of lines and a calculation | main lines of a board; label of a line | odds sync |
| backups (`ops/backup/`) | artefacts and records on disk and in a separate storage | dump, encrypt, upload, verify, prune, stale check; archive of news images; restore | PostgreSQL, storage, image uploads |

What is hard here is not in any one function.

* **A lock that belongs to a connection, not to a session.**
  `pg_try_advisory_lock` is a *session-level* lock of the server, so it stays
  with the connection.  A SQLAlchemy session gives its connection back to the
  pool at every `commit()` and `rollback()`.  All the operations run under a
  lock commit inside it.
* **Several writers of one row.** Live sync, daily sync, repair job, season
  route, lineup job and lineup route, in any number of replicas.
* **Failures in the middle.** A savepoint that cannot be released, a `commit()`
  that raises although the server has committed, a Redis error that is
  swallowed, a replica that dies.
* **Old answers.** A provider snapshot fetched before another sync's commit and
  written after it; a cache filled with rows read before an invalidation.
* **Part of somebody else's transaction.** The events, the coaches and the
  standings that a fixture sync writes on its way lose their lock, if they had
  one, before its transaction commits them, and their exceptions are swallowed.
* **State shared by accident.** One standing service per replica, with a flag
  that one sync sets, another copies and a third restores.

What makes each part correct:

* locks: two sessions do not work on one resource at once; nothing stays locked
  for ever; the abstraction callers rely on is a mutex;
* fixture sync: rows do not go back to an older state of the fixture; a
  transition is decided on the state the row really has; a match that ends asks
  for its final lineup, in the same commit;
* final lineups: SUCCESS is final and means that the lineup is there; an attempt
  is counted at most once, and only after it has begun; no failure is lost;
* refresh syncs: what is stored is one answer of the provider, not a mixture,
  and never an older one; the cache does not outlive what it caches;
* notifications: a message is sent, given up after the allowed attempts, or
  waiting; never in two places;
* standings: one answer per table, facts of the rows they stand beside, a cache
  that comes right;
* master data: one row per identity, a coach with one team, a race for a row that
  costs no fixture, no change of a team left unseen behind its cached copy;
* leagues: created once, synchronised only when allowed, cached answers that are
  dropped when what they show changes;
* projections and odds: facts and source are one answer, a source the projection
  rejects is not kept, a label stands for the line and prices it was made from;
* backups: SUCCESS stands for something that can be restored, and retention never
  removes the last such thing.

## The modules

```
  ResourceMutex          what callers think a lock is
     ^  refined by                    ^ used as the lock (proved to be it)
  ResourceLock           pool, advisory locks, sessions
     ^  EXTENDS                       |
  FinalLineup (*)        workers     FixtureSync      syncs, registry, records
                                     MatchData        refreshes, cached copies
                                     Standings        job, prewarms, shared flag
                                     Projection       sources and their facts
                                        |  EXTENDS
                                     OddsLines        which lines are kept
                                        |  EXTENDS
                                     MyanmarOdds      the ladder of labels

  LineupFate             what finalisation promises of a match
     ^  refined by
  FinalLineup (*)

  MessageFate            what the notification queue promises
     ^  refined by
  NotificationQueue      Redis list, consumers, retries, dead letters

  MasterData             rows found or created inside the syncs' transactions
  LeagueAdmin            admins, the sync of all leagues, cached readers
  Backup                 runs, retention, images and their archive
```

**ResourceMutex** — the abstract specification: `inside[s]` is the set of
resources session `s` is working on; `Enter` requires that nobody else is
inside; any number of sessions may leave at once (a crash).

**ResourceLock** — the pool and the locks as they are.  `conn[s]` is the
connection checked out by session `s`, `pooled` the idle ones, `locks[c][r]` the
count the *server* keeps for connection `c`, `held[s]` the handles the *code*
believes it holds, `failed` the sessions whose transaction is aborted.  One
action per database statement, because every one is an `await`: `Acquire` and
`Conflict` (`pg_try_advisory_lock`), `Release` (the `finally` block, on whatever
connection the session has by then), `Statement`, `StatementFails`,
`EndTransaction` (commit, rollback, close: the connection goes back, or is
closed when it is an overflow connection), `LoseConnection`, `Crash`.  Two
history variables say what can be promised: `fresh[s]`, what was acquired in the
running transaction, and `torn`, resources whose lock vanished with a connection
while in use.

**FinalLineup** — EXTENDS ResourceLock; each step of a worker is the conjunction
of what it does to its own state and of the ResourceLock action its statement
performs, so the pool's behaviour is not assumed but composed.  A worker passes
through the attempt (`Start` … `Commit` or `CommitRaises`) and, when that
failed, a second session that records the failure (`Persist` … `RecordFailure`).
An attempt begins with `MarkStarted` (the flushed count, `provider_attempted`);
`CallProvider` is the query for the status of the match, after which the provider
is asked; either may fail (`AttemptFails`).  `begun` is the history of what
`MarkStarted` has done: from there on an attempt is counted, also when its status
query fails and `sync_lineup` swallows that, so that the provider was never asked.
Sessions that are not workers (`OtherSession`) use the same pool and take the same
locks, as the lineup route and the lineup job do.

**LineupFate** — the abstract specification of a row's life under finalisation:
required, an attempt begun only while owed, failed with one attempt more or none,
settled with the lineup in one step, and never more attempts counted than begun.  No workers, sessions or locks.

**FixtureSync** — syncs over the abstract mutex that ResourceLock implements:
the guard of a sync is lost at the end of its transaction (`EndTransaction`),
which is exactly what `FirstTransactionExclusion` allows one to count on.  The
repair job goes through a second round without it.  A row is the provider's
status and a version (`age`), so "older" can be said.  `alone[s]` records
whether an unguarded round has overlapped the sync of `s`; what is promised is
promised to those.

**MatchData** — the refreshes of the events, odds, statistics or lineup of one
match, over the same abstract mutex.  `kind` chooses the table (and with it:
delete and insert, or one row by key); a row is a *batch*, stamped with the
version of the provider's answer it came from, so a mixture of two answers can be
seen.  A refresh is `Begin` (lock), `Skip`, `Fetch` or `FetchFails`, `Look` (the
DELETE or SELECT starts and sees what is committed), `Delete`/`Insert` or
`Store`, `Commit`, `Purge` (the cache key).  A member of `Nested` runs inside a
fixture sync: its lock is given back when the events are written, its commit
comes later, its exceptions are swallowed (`NestedWriteFails`, with or without
the savepoint aborted), and it drops no key.  READ COMMITTED is in `target`
(what a DELETE has seen) and `Busy` (rows it has to wait for).  Readers `Load`
and `Fill`, keys `Expire`.

**NotificationQueue** — the queue, the dead letters and one consumer task per
process.  A letter is a payload reduced to its message and its `retry` field.
`Take` pops the newest letter; `SendReturns`, `SendRaises`; `Repost` pushes a
failed letter back or to the dead letters; `Wake` ends the retry delay.
`Fall` is the end of a task at any of its awaits: cancelled by the shutdown of
`main.py`, killed, or by an error of Redis, which nothing catches; a pop or a
push under way may or may not have happened.  `attempts` and `delivered` are
histories.

**MessageFate** — the abstract specification of the queue: the fate of each
message (unposted, pending, delivered, dead, lost) and the attempts to send it.

**Standings** — one league and season.  Syncs that commit themselves (`Direct`:
the job and the route) and the prewarm of daily fixture syncs (`Daily`), which
looks whether there are rows, writes them into the fixture sync's transaction,
gives the lock back and commits later, or never.  A sync is `Fetch`, `Clear`
(the DELETE), `Upsert`, `Project`, `Decide` (is the cache key queued?), `Commit`,
`Purge`; `Rejected` and `StatementFails` are swallowed by the prewarm.  `defer[p]`
is the flag on the standing service of replica `p`; `SetFlag` saves and sets it,
`Restore` puts back what it found, and every sync copies it (`copied[p]`) on the
way.  `own` are the rows last written by a sync that committed itself, and
`overlap[p]` remembers that two prewarms have run at once.

**MasterData** — transactions that work through the items of a response, each
in a savepoint.  An item is a sequence of steps: referee, venue, coach of a
team, the match, a team's context, a player of an event.  A step looks for its
row by the provider's id and by name (`Found`), updates what it finds and inserts
what it does not.  Everything PostgreSQL decides is there: an insert waits for an
uncommitted row with its key (`InsertWaits`) and then conflicts or not, an
update waits for the row (`Waits`), the unique `coach_id` of teams
(`AssignWaits`, `Taken`).  A referee or venue that loses the race is looked up
again (`Again`), a player's insert becomes an update, a coach's loses the
fixture.  Whatever raises at any point of an item (a provider that answers an
error, a coach without a name, a failing statement, the victim of a circle of
waits) is one action, `Fail`: back to the savepoint, on to the next item.
`Abort` is the end of the whole transaction.  The waits of foreign keys for a
share of the rows they name are left out; they only take interleavings away.
When a team gets a coach its cache key is queued in the session (`keys`).  The
hook that deletes queued keys listens to `after_commit`, which SQLAlchemy fires
for a savepoint's release as well: `Release` deletes them (`dropped`), `Fail`
clears the queue, as `after_rollback` does.

**LeagueAdmin** — requests of admins (`Register`, `Offered`, `Allow`, `Insert`,
`Patch`, `Remove`, `Commit`, `Drop`, `Answer`, or `Fail` before and `Die` after
the commit), the sync of all leagues (`Begin`, `SyncCommit`, `SyncDrop`), and
readers of the grouped list (`List` the allow-list, then `LookGrouped` in the
cache) and of one league (`Look` in the cache, then `ListAllowed`), who then
`Query` and `Fill`.  Cache
keys are deleted one by one after the commit, and a deletion that Redis refuses
is swallowed (`Undeleted`).  An entry is `raced` when a commit overtook the
reader that stored it, or its deletion failed.

**Projection** — the source rows of one match or pair of teams (`source`) and the
facts projected from them (`facts`); `kind` says whether they are statistics,
a lineup, odds or head-to-head.  A refresh fetches, writes the source, lets the
projection accept or reject it (`Rejected`: an entry twice, a value missing,
odds of zero, a team or player without master row) and commits both or neither.
Odds listed twice never come to the projection: their upsert cannot change one
row twice and fails before it (`Fails`).
Facts are kept when the answer has none, except for a pair (`Preserved`).

**OddsLines** and **MyanmarOdds** — pure operators.  `Mains`: of each market the
whole lines nearest to even odds; `Kept`: their quotes with the labels of
both sides.  `MarketLabel`: place on the ladder, rounded to ten as Python rounds
(a tie to the even ten), read as goal, sign and offset.  All numbers are
hundredths.

**Backup** — runs by timer or hand that pass through `Dump`, `Encrypt`, `Checksum`,
`Upload`, `Verify`, `WriteRecord`, `UploadRecord`, `Retain`, `RetainRemote`; each
step may `Break` (then `Handle` writes the record again and removes the local
artefact; it may fail at either, and leave a torn record or the artefact) or `Die`.  An id is the second of the start, so two runs may share their files
(`Twins`).  Beside them news images are written and published and the asset
backup takes a checksum of the tree and then its archive.  `Accepted` is what
`restore_verify.py` accepts.

The modules named `MC…` give TLC its model values; the modules named `…Proofs`
hold the theorems: FinalLineupProofs those of ResourceLock as well, JobProofs
those of FixtureSync and Backup (whose names begin with `Backup` where the two
would clash), the others those of their namesakes.

## The runs

| run | expects | properties | what it shows |
|---|---|---|---|
| `ResourceLock_safety` | pass | `TypeOK` `FirstTransactionExclusion` `CrossProcessExclusion` `RefinesMutex` | exclusion up to the first commit or rollback; exclusion between replicas even after it; the mutex is refined |
| `FinalLineup_safety` | pass | `NoLostUpdate` `AttemptsCountedOnce` `ReportedSuccess` `SuccessIsFinal` `RefinesLineupFate` | `LineupFate` refined; no lost update of a record, no attempt counted twice or without having begun, no false success, SUCCESS final; with failing statements, lost connections, unknown commits and crashes |
| `FixtureSync_safety` | pass | `TypeOK` `PreviousIsCurrent` `RecordWithEnd` `RowsMoveForward` | transitions decided on the current row, records with the ended row, rows forward — for rounds that no unguarded round overlaps |
| `MatchData` | pass | `TypeOK` `MixedOnlyByNested` `AnswersMoveForward` `CacheSettles` | rows of two answers mix only where a fixture sync has stored one of them; a refresh in its own transaction never stores an older answer than what is there; once the rows rest, a stale cached copy does not last |
| `NotificationQueue_safety` | pass | `TypeOK` `OneCopy` `RefinesFate` `Drains` | one copy of every message; `MessageFate` refined; while one consumer stays up the queue drains |
| `Standings` | pass | `MixedOnlyByPrewarm` `FactsFollowOwnRows` `FlagExplained` `RowsMoveForward` `CacheSettles` | rows of two answers stand in one table only where a prewarm wrote some; rows a job stored have its facts; no row goes back; the defer flag sticks only after two prewarms at once; the cache comes right |
| `MasterData` | pass | `ChangesDropped` `CoachesAgree` `LosersFind` `VenueKept` | a team that gets a coach has its cache key deleted or queued whatever fails beside it, a team's coach is one given for it and no other team's, a lost race for a referee or venue finds its row, a venue is never lost for none |
| `MasterData_invalidation` | violation | `DroppedAfterCommit` | the cache key of a team is deleted before its new coach is committed |
| `LeagueAdmin` | pass | `CreatedOnce` `SeasonsOnlyOfAllowed` `CurrentIsProviders` `StaleIsExplained` | "created" is answered once, seasons are those of allowed leagues and current where the provider says so, a stale answer has one of three explanations |
| `LeagueAdmin_removal` | violation | `RemovalCommits` | a removal that was answered is rolled back |
| `Projection` | pass | `FactsFollowSource` `SourceIsAccepted` `KeptLinesRead` | facts are those of the source beside them; a rejected source is not committed; kept lines are whole, and their labels read back as line and prices |
| `Backup` | pass | `SuccessIsStored` `PairsRestore` `LastValidKept` | SUCCESS stands for a stored artefact, a database and an asset backup restore together, retention leaves a valid backup |

**Bounds, and why they are enough.**

* ResourceLock: two replicas; three sessions, two of which share a pool of two
  slots (`PoolSize` 1, so one of them is overflow and closed at checkin); one
  resource.  Re-entry needs two sessions of one pool, cross-process exclusion a
  third in another pool; resources do not interact.  `MaxReentry` 3 bounds the
  server's count, one above what the re-entries of two sessions need.
* FinalLineup: the same two replicas with two workers and one ordinary session
  that shares the first worker's pool; one match; `MaxTries` 2, since the
  properties compare one attempt with another; `MaxReentry` 1.  The two
  connections of the first pool are interchangeable (`MCSymmetry`).
* FixtureSync: one match, two syncs, of which one is the repair job; a fixture
  that changes up to `MaxAge` = 4 times, long enough for NS, 1H, ET, FT and for
  the interrupted and postponed detours.  A second match would only add row-lock
  deadlocks, whose outcome (`FixtureFails`) can happen anyway.

* MatchData: two refreshes of their own, so that both orders of everything can
  happen between them, and one inside a fixture sync; one match, as matches
  share no rows; `MaxAnswer` 1, one newer answer being enough to be older than.
  One reader of the cache runs with them; it never touches the rows, so a
  second one would only refill the same key.
* NotificationQueue: two consumers and three messages, so that a letter that
  comes back meets newer ones and the other consumer; `MaxRetries` 2 (3 in the
  code), so that a first, a middle and a last attempt exist.
* Standings: one job and two daily syncs of one replica, which share its flag;
  two teams, so that rows can mix; `MaxVersion` 2; three tables (whole, one with
  a team that has no name, one that the projection rejects); one reader.
* MasterData: two transactions that meet the coaches of two teams in opposite
  orders, so that they can wait for each other in a circle; one coach known under
  two ids, a second coach for one team; one referee, venue and player wanted by both;
  two matches, one of them written by both, with and without its venue.
* LeagueAdmin: two admins (interchangeable) and a reader; one league that is
  there and one to be registered, with the provider's name either free or taken;
  two seasons, of which the provider may list one or call both current; one patch
  (`MaxView`).
* Projection: two refreshes; two entries; two changes of the answer
  (`MaxAnswer`); ten boards that reach every branch: favourite at home and
  away, a tie between lines, a level line, below the ladder and at its top, a
  handicap that is no number of quarters, corners only, odds of zero, nothing.
* Backup: two runs (interchangeable), one image, one asset backup; retention of
  two ticks, stale after one, a run takes at most one, the clock stops at three:
  a backup can become old while the next one runs.

**Fairness.**  Only where liveness is checked.  MatchData and Standings: `Expire` (Redis does
expire keys, `cache_set_json` always gives a time to live) and `Fill` (a request
that has read its rows goes on).  Nothing is assumed of the refreshes
and syncs, whose end `CacheSettles` takes as a premise.  NotificationQueue: the consumer's own
steps (the event loop runs a task that is ready, a send ends, `asyncio.sleep`
returns); not that tasks are restarted, and not that they do not die:
`Drains` has "one consumer stays up" as its premise.  Nowhere is the getting
of a lock fair.  "A pending match is eventually finalised" would need strong
fairness of lock acquisition, which the code's try-lock without a queue does not
give, and a leaked lock can keep it busy (see the known limits).

Deadlock is checked in every run but `Backup`: some step is always possible, since
sessions can start statements, workers or heartbeats, refreshes and consumers
again.  In `Backup` the clock, the runs and the images come to an end.

Every property of a passing run has a mutant, a plausible defect of the code
written as a variant operator beside the real one, under which TLC finds the
property violated (`mutants` in PROJECT.json).

## What the runs found

`RemovalCommits` — the docstring of `remove_allowed_league`
(`admin_leagues.py:155`) says "Remove a league from the allow-list without
touching historical data." and its answer (line 163) "Allowed league removed".
The delete is flushed (line 157) and never committed; `get_db` closes the
session (`db/__init__.py:41`), which rolls back.  The league stays allowed and
is synchronised as before.

`DroppedAfterCommit` — the test `test_team_cache_invalidation_runs_only_after_commit`
(`tests/test_team_upsert_on_conflict.py:306`) names what the hook of
`team_sync_service.py:18` is for, and calls it by hand on a fake session.  In a
real one (SQLAlchemy 2.0, `requirements.txt:65`) `after_commit` is fired for every savepoint that is
released, and each fixture ends with such a release (`fixture_sync_service.py:508`).
The key is therefore deleted, and taken off the queue, while the new coach is
still uncommitted; `get_team_details` (`api/teams.py:92`-`102`) may read the old row
and cache it for `REDIS_TTL_LEAGUE_TEAM`, and the commit of the transaction deletes
nothing any more.  `ChangesDropped` states what does hold: no key is forgotten.

**Known limits.**  While modelling, these weaker guarantees became plain.  TLC
refutes each of the formulas below when it is added to the configuration named;
the properties of the passing runs state what holds in spite of them.

| formula | with | why it fails |
|---|---|---|
| `\A s, t \in Session : held[s] \cap held[t] # {} => s = t` | `ResourceLock_safety` | an operation under a lock commits; the connection that has the lock is checked out by another session of the replica, which may take its own connection's lock again |
| `(\A s \in Session : held[s] = {} /\ conn[s] = None) => \A c \in Conn, r \in Resource : locks[c][r] = 0` | `ResourceLock_safety` | after a commit the unlock may run on another connection, where it frees nothing and answers `false`, unread |
| `[][\A w \in Worker : pc[w] = "persist" => pc'[w] \in {"persist", "locked"}]_allVars` | `FinalLineup_safety`, even with `Faults = FALSE` | the rollback of an attempt releases its connection; the session that should record the failure may find the lock taken, by another worker or by the leak, and the failure is not recorded |
| `[][\A w \in Worker : pc[w] = "status" /\ pc'[w] = "release" => ~called'[w]]_allVars` | `FinalLineup_safety` | the status query that precedes the provider call fails and is swallowed (`lineup_sync_service.py:64`, `156`): the failure record counts an attempt that never asked the provider |
| `[][\A m \in Match : row'[m].status = "FT" => m \in required']_vars` | `FixtureSync_safety` | the nested events sync fails, or the match was interrupted when last seen: the row is committed as ended without a lineup record, and later syncs see no transition |
| `[][\A m \in Match : row'[m].age >= row[m].age]_vars` | `FixtureSync_safety` | the second round of the repair job runs after its first commit, without exclusion, and another sync's older snapshot is written last |
| `\A m \in Message : FateOf(m) # "lost"` | `NotificationQueue_safety` | `brpop` removes a letter before anything is done with it |

Smaller observations, each visible in the definition named:

* a season the provider stops to list stays current (`Upserted`);
* two daily syncs overlap in one replica only because the lock of the repair job
  is re-enterable after its first commit; then the defer flag can stay set, and
  cache keys are not dropped until the replica restarts (`FlagExplained`);
* a prewarm that the projection rejects commits its rows without facts
  (`FactsFollowOwnRows` speaks of the job's rows);
* one handicap that is no number of quarters makes the whole odds refresh of a match
  fail (`Raises`); at handicap 0 the home side as favourite reads "-" whichever
  side is cheaper, and the label of over and under is always the over's
  (`MarketLabel`, `Labels`);
* one statistic without a value rejects all statistics of a match, and a lineup
  that names a player no event has named is rejected for as long as that is so:
  `PlayerSyncService.sync_team_squad` and `sync_fixture_lineups`, which would
  add players, are called by nothing (`Rejected`, `Learn`).

## The proofs

TLAPS checks every leaf; nothing is assumed but the named assumptions on the
constants (`ResourceLockAssumption`, `FinalLineupAssumption`,
`FixtureSyncAssumption`, `MatchDataAssumption`, `NotificationAssumption`,
`ProjectionAssumption`, `LeagueAdminAssumption`, `MasterDataAssumption`,
`StandingsAssumption`, `BackupAssumption`): finiteness of the set of sessions, typing of `ProcessOf`, of responses and
tables, natural bounds, workers being sessions, repairers being syncs, boards being
parsed, a run and the stale check together being shorter than the retention,
special values being none of the others.

**FinalLineupProofs, the locks.** `IndInv` strengthens `TypeOK` with the bookkeeping of
the pool (a connection is checked out by one session of its own process, pooled
connections are not checked out, closed ones hold no lock) and with three facts about
locks: two connections never both hold a resource; a resource in `fresh[s]` is
locked on the connection `s` has *now* (so exclusion follows from the
server's); and in every process the locks on a resource that is not torn are
at least as many as the handles in `held` (so a session of another process
cannot acquire it).  The second is why exclusion ends with the transaction:
`EndTransaction` takes the connection away.  Results: `TypeCorrect`,
`FirstTransactionExclusionHolds`, `CrossProcessExclusionHolds`,
`ImplementsMutex`.

**FinalLineupProofs, the workers.** `UsesLocks`: every behaviour of the workers is one of
ResourceLock, so its theorems hold here without being proved again.  `WriteInv`:
a worker between reading the record and committing has the lock fresh, and has
seen the attempt count that is in the row, and that row is not SUCCESS.  With
`FirstTransactionExclusion` no other worker is in that section for the same
match, hence no other one writes its row.  `Settles` (a SUCCESS row has its lineup) and
`Reported` (a reported success has its row) give `ReportedSuccess`.  For
`AttemptsCountedOnce` the workers that have begun an attempt and not yet
written its count are `Owed`; `Budget` says that the count in the row plus the
number of these is at most the attempts begun, and each write moves one worker
from the second to the first.  For the
refinement of LineupFate, `RowsExist`: from finding a row owed to the end of its
failure record a worker works on a row that is there; with `WriteInv` that row
is owed when the attempt begins and when it is written, and with
`AttemptsCountedOnce` the count that is written was begun.  Results:
`FLTypeCorrect`, `NoLostUpdateHolds`, `SuccessIsFinalHolds`,
`ReportedSuccessHolds`, `AttemptsCountedOnceHolds`, `ImplementsLineupFate`: every
property of the run.

**JobProofs, the fixture sync.** `IndInv` = `TypeOK` and: `Solo`, of two syncs under way
one that is still `alone` is the only one; `StagedTogether`, a record is staged
only with its row and with a status that has ended; `InOrder`, the row is never
newer than the snapshot of a sync that is alone, nor a snapshot newer than the
provider; `PreviousIsCurrent`.  Results: `TypeCorrect`,
`PreviousIsCurrentHolds`, `RecordWithEndHolds`, `RowsMoveForwardHolds`.

**JobProofs, the backup.** `BackupInv` = `BackupTypeOK` and: `Traces`, files stand
under ids of runs that have begun; `InTime`, a run takes no longer than it may;
`Verified`, the status is set only after the upload was seen whole; `Trees`, images
news refer to are on disk and in the tree the asset backup has summed; `Alone`,
of a run without twins, what there is under its id at each of its steps
(`AtWork`).  `AtWork` is why retention is safe: a run that comes to it has its own
artefact in the storage, and `InTime` with `Longest` below `Keep` makes that artefact
too young to be removed.  Other runs touch the files of an id only by retention, when
they are old (`Undisturbed`).  A run with a twin is exempt: the second of
two runs of one second may tear the artefact of the first while it is recorded as
SUCCESS.  Results: `BackupTypeCorrect`, `SuccessIsStoredHolds`,
`LastValidKeptHolds`, `PairsRestoreHolds`: every property of the run.

**MatchDataProofs.** `IndInv` = `TypeOK` and: `Locked`, from its acquisition to
the end of its write a refresh has the lock, and one at a time; `Written`, what
it has written is one batch of its own from the answer it fetched; `InOrder`, no
row, written or committed, is ahead of the provider, nor of the answer of a sync
that is about to write; `Replacing`, a refresh of its own
leaves no committed row of another one beside its own; `MixedOnlyByNested`.  The
nested syncs are exactly what the invariant has to exempt: their rows become
visible after their lock is gone.  Results: `TypeCorrect`,
`MixedOnlyByNestedHolds`, `AnswersMoveForwardHolds`.

**StandingsProofs.** `IndInv` = `TypeOK`, two properties and: `Locked`, `Placed` and
`Shaped`, where syncs stand, who has the lock and what each has deleted and
written; `Apart`, two open transactions hold rows and facts of different
teams; `InOrder`, a sync that writes is behind no row and no other sync;
`Replacing`, a job that has cleared the table replaces every row a job left;
`Harmless`, a prewarm writes only while jobs have left no rows, and until it
commits those they leave meanwhile are none it holds; `FlagOfOne`, while no two
prewarms have overlapped the flag is that of the one that runs; `Untouched`, a
job that met no prewarm runs under a clear flag.  `Harmless` is the point: the
prewarm gives its lock back with its writes still open, and it is the rows it
has locked, not the lock, that keep a job from storing the same teams before it
commits.  Results: `TypeCorrect`, `MixedOnlyByPrewarmHolds`,
`FactsFollowOwnRowsHolds`, `FlagExplainedHolds`, `RowsMoveForwardHolds`: every
property of the run but its liveness.

**NotificationQueueProofs.** `IndInv` = `TypeOK`, `OneCopy` and: `Hands`, what a
consumer at each of its steps has, and that the letter's `retry` is the number
of sends that have failed; `Counts`, the same for the queue; `Unposted`, what has
not been posted is nowhere.  `Popped` and `Pushed` say what the two list
operations do to where messages are; `FateMoves` turns that into one step of
the abstract fate.  Results: `TypeCorrect`, `OneCopyHolds`, `ImplementsFate`.

**ProjectionProofs.** `IndInv` = `TypeOK`, the two properties and: `Locked`, from
its acquisition to commit or failure a refresh has the lock, alone; `Order`, a
source is written before it is projected; `Versions`, what a refresh has fetched
is no older than what is committed; `Ready`, what is about to be committed
was accepted, and the facts to be committed are its own or, when it has none,
those that are there *now* — which needs `Locked`, since they were read
earlier.  For `KeptLinesRead` the operators of OddsLines and MyanmarOdds are
read once: `RoundTenNear`, rounding to ten moves a number by five at most;
`RungReads` and `LadderReads`, a place on the ladder that is rounded and taken
apart into goal, sign and offset reads back as that place; `MarketReads`, so a
label says the line and, beyond it, the difference of the prices;
`OtherIsOpposite`, the other side has the opposite label.  `OddsInv` carries that
from the board to what is fetched, written and committed.  Results:
`TypeCorrect`, `FactsFollowSourceHolds`, `SourceIsAcceptedHolds`,
`KeptLinesReadHolds`: every property of the run.

**LeagueAdminProofs.** `IndInv` = `TypeOK`, three properties and: `Asks`, what a
request is about; `Registrations`, a registration that is flushed has no row of
its league beside it, one that is committed has its row and was not yet
answered, and no two of either kind are about one league; `SyncsAllowed`, a
sync that writes does so for leagues that are allowed.  `Registrations` is
where two admins meet: the constraint, and the wait for the other's flush
(`InTheWay`), make it inductive.  The caches have an invariant of their own over
that one, `CacheInv` = `StaleIsExplained` and: `NoLeftovers`, keys wait to be
deleted only after a commit; `Found`, a missing league is not cached; `Reading`,
what a reader has read is current or the reader has been overtaken.  A commit
turns every entry that it makes stale into one whose key it has still to
delete.  Results: `TypeCorrect`, `CreatedOnceHolds`,
`SeasonsOnlyOfAllowedHolds`, `CurrentIsProvidersHolds`, `StaleIsExplainedHolds`:
every property of the run.

**MasterDataProofs.** `IndInv` = `TypeOK`, `CoachesAgree`, `ReferencesResolve`
(committed references are to committed rows, which the foreign keys of the schema
guarantee anyway: it is there for the induction only) and two statements.  `TxOk`,
of each transaction: where it stands in its response (`Placed`), that what it
found is there for it (`Finds`), that every team it gives a coach has its key
queued or deleted, those of its savepoint's start deleted (`Drops`), and that its
writes, and those of its savepoint, are `Sound` over what is committed: they
refer to rows it sees, give each team at most one coach and each coach at most
one team, and come with the locks of what they change.  `Apart`, of each two:
they have locked different rows and give away different coaches.  `CommitSound`
is the heart: what one transaction commits leaves the writes of every other sound,
because they are apart.  `Drops` is why `Fail` may clear the queue: what a
savepoint restores was written before it began, and that savepoint's predecessor
was released with its keys deleted.  Results: `TypeCorrect`, `ChangesDroppedHolds`,
`CoachesAgreeHolds`, `LosersFindHolds`, `VenueKeptHolds`: every property of the run.

Three attempts at a proof corrected the model.  `Labels` had two true arms for a goals
line whose over is the dearer, and TLC takes the first; the arm for the away
side now excludes goals, as the code does.  That labels read back needs one quote
per side of a line, which the dictionaries of `odds_service.py` give: `Parsed`
now states it of the boards.  And `LastValidKept` speaks of runs that have begun,
since runs that have not all have the id they start with: before, its premise was
false while two runs had still to start.

Only model-checked: `CacheSettles` (twice) and `Drains`, which are liveness, and the
two violations.  `Drains` is of finitely many messages: the queue is a stack, and
what lies at its bottom may starve under arrivals without end.  Every invariant, action property and refinement of the passing runs
is a theorem.  Outside the prover's reach and left to TLC:
liveness under fairness, ENABLED, induction over data, RECURSIVE operators.

## What is not modelled, and the plan

In the order of what matters to the system:

1. **Broker**: the subscriptions of a process, copied under its lock and sent to
   outside it, against disconnects.
2. **Theorems**: that the syncs use the lock only as ResourceMutex allows.
3. **Liveness**: a required record is eventually settled, when locks are not
   leaked and the getting of them is fair.
4. **Rest of the sync paths**: the query for stale matches and the choice of
   candidates in the jobs; the refresh cooldown; the venue and team routes of the
   admin; the countries of leagues.

Left out of what is modelled, with the outcome that stands for it: HTTP and
pagination of the provider client (a call answers or fails); fields and parsing of
events; the reconciliation of a projection row by row after its write (one
outcome: rejected); which of several main lines at the same distance is taken
(any); floats (hundredths); the storage in a bucket (the directory storage is
modelled) and the role check of the backup; categories and texts of errors and
notifications.

Not modelled because nothing in `src/` calls it: the red-card set of the
notification service, `sync_team_squad`, `sync_fixture_lineups`,
`resolve_current_season`; the provider branch of `get_league_details` cannot be
reached.

Left aside for good: `app/admin.py` (generated CRUD views), authentication
(stateless token checks), news, ads, home and uploads (CRUD on one row; the
image files are in Backup), the read services (queries and serialisation),
monitoring, migrations and manifests.
