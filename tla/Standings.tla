------------------------------- MODULE Standings -------------------------------
(***************************************************************************)
(* The table of one league and season: its standings rows, the analytics   *)
(* facts projected from them and the cached copy (standing_sync_service,   *)
(* standing_service, the standings job of the scheduler, the sync route,   *)
(* and the prewarm a daily fixture sync runs inside its own transaction).  *)
(*                                                                         *)
(* The lock "standing:<league>:<season>" is a ResourceMutex up to the end  *)
(* of the transaction.  The prewarm gives it back earlier and commits with *)
(* the fixtures; while it runs it sets a flag on the standing service its  *)
(* whole replica shares, which tells syncs to queue no cache deletion.     *)
(***************************************************************************)
EXTENDS Naturals

CONSTANTS Team, Replica, Reader,
          Direct,      \* the standings job and the route: they commit themselves
          Daily,       \* daily fixture syncs: they prewarm a table without rows
          Home,        \* the replica a sync runs in
          Answer,      \* tables the provider may give
          MaxVersion   \* bound: versions of the table at the provider

Syncer == Direct \cup Daily

\* teams: the rows with a team; named: those that also have its name; regular:
\* no row repeats a team or lacks one, and the season is known.
AnswerType == [teams: SUBSET Team, named: SUBSET Team, regular: BOOLEAN]

ASSUME StandingsAssumption ==
    /\ Direct \cap Daily = {}
    /\ Home \in [Syncer -> Replica]
    /\ MaxVersion \in Nat \ {0}
    /\ Answer \subseteq AnswerType
    /\ \A answer \in Answer : answer.named \subseteq answer.teams

Version == 1..MaxVersion

VARIABLES
    answers,     \* what the provider gave for each version up to the latest
    latest,      \* the version it gives now
    rows,        \* rows[t]: version of the committed row, 0 if there is none
    facts,       \* facts[t]: the same of the analytics fact
    own,         \* rows last written by a sync that committed itself
    guard, job,
    defer,       \* defer[p]: the flag on the standing service of replica p
    copied,      \* copied[p]: its copy on the standing sync service
    overlap,     \* overlap[p]: two prewarms have run at once in p
    cache, read  \* copies: none, as the rows are, or older

vars == <<answers, latest, rows, facts, own, guard, job, defer, copied, overlap,
          cache, read>>
provider == <<answers, latest>>
table == <<rows, facts, own>>
flags == <<defer, copied, overlap>>
copies == <<cache, read>>

Mutex == INSTANCE ResourceMutex
            WITH Session <- Syncer, Resource <- {"standing"}, inside <- guard

\* drop, put: rows deleted and written, uncommitted; gone, filed: the same of
\* the facts; keyed: the cache key is queued for after the commit; saved: the
\* flag as the prewarm found it; touched: a prewarm ran beside the sync.
Idle == [pc |-> "idle", ver |-> 0, drop |-> {}, put |-> {}, gone |-> {},
         filed |-> {}, sound |-> TRUE, keyed |-> FALSE, saved |-> FALSE,
         touched |-> FALSE]

Init ==
    /\ \E answer \in Answer : answers = [v \in Version |-> answer]
    /\ latest = 1
    /\ rows = [t \in Team |-> 0] /\ facts = [t \in Team |-> 0] /\ own = {}
    /\ guard = [s \in Syncer |-> {}]
    /\ job = [s \in Syncer |-> Idle]
    /\ defer = [p \in Replica |-> FALSE]
    /\ copied = [p \in Replica |-> FALSE]
    /\ overlap = [p \in Replica |-> FALSE]
    /\ cache = "none" /\ read = [r \in Reader |-> "none"]

Copy == {"none", "current", "stale"}
Label == {"idle", "flagged", "look", "ask", "clear", "upsert", "project", "decide",
          "commit", "undo", "restore", "open", "purge"}
JobType ==
    [pc: Label, ver: 0..MaxVersion, drop: SUBSET Team, put: SUBSET Team,
     gone: SUBSET Team, filed: SUBSET Team, sound: BOOLEAN, keyed: BOOLEAN,
     saved: BOOLEAN, touched: BOOLEAN]

\* The variables' types (standing_repository.py, standing_sync_service.py).
TypeOK ==
    /\ answers \in [Version -> Answer] /\ latest \in Version
    /\ rows \in [Team -> 0..MaxVersion] /\ facts \in [Team -> 0..MaxVersion]
    /\ own \in SUBSET Team
    /\ guard \in [Syncer -> SUBSET {"standing"}] /\ job \in [Syncer -> JobType]
    /\ defer \in [Replica -> BOOLEAN] /\ copied \in [Replica -> BOOLEAN]
    /\ overlap \in [Replica -> BOOLEAN]
    /\ cache \in Copy /\ read \in [Reader -> Copy]

Named(s) == answers[job[s].ver].named
Teams(s) == answers[job[s].ver].teams
Unguard(s) == guard' = [guard EXCEPT ![s] = {}]
CopyFlag(p) == copied' = [copied EXCEPT ![p] = defer[p]]

\* Daily syncs of replica p between setting the flag and restoring it.
Prewarming(p) ==
    {d \in Daily : Home[d] = p /\ job[d].pc \notin {"idle", "open", "purge"}}

Runs(s, p) == s \in Direct /\ Home[s] = p /\ job[s].pc # "idle"

\* Rows and facts of these teams another transaction has to wait for.
Held(s) == job[s].drop \cup job[s].put \cup job[s].gone \cup job[s].filed
Free(s, teams) == \A x \in Syncer \ {s} : Held(x) \cap teams = {}

ProviderChanges ==
    /\ latest < MaxVersion
    /\ latest' = latest + 1
    /\ \E answer \in Answer : answers' = [answers EXCEPT ![latest'] = answer]
    /\ UNCHANGED <<table, guard, job, flags, copies>>

-----------------------------------------------------------------------------
(* Beginning: the flag, the lock, the look for rows.                       *)

\* sync_daily_fixtures saves the flag and sets it before the prewarm.
SetFlag(d) ==
    LET p == Home[d] IN
    /\ job[d].pc = "idle"
    /\ job' = [s \in Syncer |->
                 IF s = d THEN [job[d] EXCEPT !.pc = "flagged", !.saved = defer[p]]
                 ELSE IF Runs(s, p) THEN [job[s] EXCEPT !.touched = TRUE]
                 ELSE job[s]]
    /\ defer' = [defer EXCEPT ![p] = TRUE]
    /\ overlap' = [overlap EXCEPT ![p] = @ \/ Prewarming(p) # {}]
    /\ UNCHANGED <<provider, table, guard, copied, copies>>

\* (Variant: the route takes no lock.)
BeginUnlocked(s) ==
    LET p == Home[s] IN
    /\ job[s].pc = "idle"
    /\ guard' = [guard EXCEPT ![s] = {"standing"}]
    /\ CopyFlag(p)
    /\ job' = [job EXCEPT ![s].pc = "ask",
                          ![s].touched = defer[p] \/ Prewarming(p) # {}]
    /\ UNCHANGED <<provider, table, defer, overlap, copies>>

\* The job or the route: the lock, then sync_standings, which copies the flag.
BeginDirect(s) ==
    LET p == Home[s] IN
    /\ job[s].pc = "idle"
    /\ Mutex!Enter(s, "standing")
    /\ CopyFlag(p)
    /\ job' = [job EXCEPT ![s].pc = "ask",
                          ![s].touched = defer[p] \/ Prewarming(p) # {}]
    /\ UNCHANGED <<provider, table, defer, overlap, copies>>

BeginPrewarm(d) ==
    /\ job[d].pc = "flagged"
    /\ Mutex!Enter(d, "standing")
    /\ job' = [job EXCEPT ![d].pc = "look"]
    /\ UNCHANGED <<provider, table, flags, copies>>

\* Rows are there, or the lock was taken: nothing to prewarm.
SkipPrewarm(d) ==
    /\ \/ job[d].pc = "flagged"
       \/ job[d].pc = "look" /\ \E t \in Team : rows[t] # 0
    /\ job' = [job EXCEPT ![d].pc = "restore"]
    /\ Unguard(d)
    /\ UNCHANGED <<provider, table, flags, copies>>

Look(d) ==
    /\ job[d].pc = "look" /\ \A t \in Team : rows[t] = 0
    /\ CopyFlag(Home[d])
    /\ job' = [job EXCEPT ![d].pc = "ask"]
    /\ UNCHANGED <<provider, table, guard, defer, overlap, copies>>

-----------------------------------------------------------------------------
(* One sync: fetch, delete what is not in the answer, upsert, project.     *)

\* The flag is copied again where upsert_standings starts.
Fetch(s) ==
    /\ job[s].pc = "ask"
    /\ job' = [job EXCEPT ![s].pc = "clear", ![s].ver = latest]
    /\ CopyFlag(Home[s])
    /\ UNCHANGED <<provider, table, guard, defer, overlap, copies>>

\* DELETE ... NOT IN (or of all rows, for an empty table).
Clear(s) ==
    LET others == {t \in Team : rows[t] # 0} \ Named(s) IN
    /\ job[s].pc = "clear" /\ Free(s, others)
    /\ job' = [job EXCEPT ![s].pc = "upsert", ![s].drop = others]
    /\ UNCHANGED <<provider, table, guard, flags, copies>>

\* INSERT ... ON CONFLICT DO UPDATE: waits for transactions that hold its keys.
Upsert(s) ==
    /\ job[s].pc = "upsert" /\ Free(s, Named(s))
    /\ job' = [job EXCEPT ![s].pc = "project", ![s].put = Named(s)]
    /\ UNCHANGED <<provider, table, guard, flags, copies>>

\* project_standing: all facts of the season go, those of the answer come.
Project(s) ==
    LET present == {t \in Team : facts[t] # 0} IN
    /\ job[s].pc = "project" /\ answers[job[s].ver].regular
    /\ Free(s, present \cup Teams(s))
    /\ job' = [job EXCEPT ![s].pc = "decide", ![s].gone = present,
                          ![s].filed = Teams(s)]
    /\ UNCHANGED <<provider, table, guard, flags, copies>>

\* The flag is read: is the cache key queued for after the commit?
Decide(s) ==
    /\ job[s].pc = "decide"
    /\ job' = [job EXCEPT ![s].pc = IF s \in Daily THEN "restore" ELSE "commit",
                          ![s].keyed = ~copied[Home[s]]]
    /\ IF s \in Daily THEN Unguard(s) ELSE UNCHANGED guard
    /\ UNCHANGED <<provider, table, flags, copies>>

\* No answer, or a projection that rejects it after the rows were written: a
\* job or route undoes it all, the prewarm only counts a failure.
Rejected(s) ==
    /\ \/ job[s].pc = "ask"
       \/ job[s].pc = "project" /\ ~answers[job[s].ver].regular
    /\ job' = [job EXCEPT ![s].pc = IF s \in Daily THEN "restore" ELSE "undo"]
    /\ IF s \in Daily THEN Unguard(s) ELSE UNCHANGED guard
    /\ UNCHANGED <<provider, table, flags, copies>>

\* A statement fails and aborts the transaction; the prewarm swallows it.
StatementFails(s) ==
    /\ job[s].pc \in {"clear", "upsert", "project"}
    /\ job' = [job EXCEPT ![s].pc = IF s \in Daily THEN "restore" ELSE "undo",
                          ![s].sound = FALSE, ![s].ver = 0, ![s].drop = {},
                          ![s].put = {}]
    /\ IF s \in Daily THEN Unguard(s) ELSE UNCHANGED guard
    /\ UNCHANGED <<provider, table, flags, copies>>

-----------------------------------------------------------------------------
(* The end: flag, transaction, cache key.                                  *)

\* (Variant: the flag is restored only when nothing was raised.)
RestoreNever(d) ==
    /\ job[d].pc = "restore"
    /\ job' = [job EXCEPT ![d].pc = "open"]
    /\ UNCHANGED <<provider, table, guard, flags, copies>>

\* The finally of sync_daily_fixtures; fixtures of the day are still open.
Restore(d) ==
    /\ job[d].pc = "restore"
    /\ defer' = [defer EXCEPT ![Home[d]] = job[d].saved]
    /\ job' = [job EXCEPT ![d].pc = "open", ![d].saved = FALSE]
    /\ UNCHANGED <<provider, table, guard, copied, overlap, copies>>

Overtaken(copy) == IF copy = "current" THEN "stale" ELSE copy

\* (Variant: a fact that is there is left alone.)
FactsAfterOnce(s) ==
    [t \in Team |-> IF t \in job[s].filed /\ facts[t] = 0 THEN job[s].ver
                    ELSE facts[t]]

FactsAfter(s) ==
    [t \in Team |-> IF t \in job[s].filed THEN job[s].ver
                    ELSE IF t \in job[s].gone THEN 0 ELSE facts[t]]

\* (Variant: what is not in the answer stays.)
RowsAfterKeeping(s) ==
    [t \in Team |-> IF t \in job[s].put THEN job[s].ver ELSE rows[t]]

RowsAfter(s) ==
    [t \in Team |-> IF t \in job[s].put THEN job[s].ver
                    ELSE IF t \in job[s].drop THEN 0 ELSE rows[t]]

OwnAfter(s) ==
    {t \in IF s \in Direct THEN own \cup job[s].put ELSE own \ job[s].put :
        RowsAfter(s)[t] # 0}

Commit(s) ==
    /\ job[s].pc = IF s \in Daily THEN "open" ELSE "commit"
    /\ job[s].sound
    /\ rows' = RowsAfter(s) /\ facts' = FactsAfter(s) /\ own' = OwnAfter(s)
    /\ IF rows' = rows THEN UNCHANGED copies
       ELSE /\ cache' = Overtaken(cache)
            /\ read' = [r \in Reader |-> Overtaken(read[r])]
    /\ job' = [job EXCEPT ![s] =
                 [Idle EXCEPT !.pc = IF job[s].keyed THEN "purge" ELSE "idle"]]
    /\ Unguard(s)
    /\ UNCHANGED <<provider, flags>>

\* A failed job gives the lock back before it rolls back.
Unlock(s) ==
    /\ job[s].pc = "undo" /\ guard[s] # {}
    /\ Unguard(s)
    /\ UNCHANGED <<provider, table, job, flags, copies>>

Rollback(s) ==
    /\ job[s].pc \in {"undo", "open"}
    /\ job' = [job EXCEPT ![s] = Idle]
    /\ Unguard(s)
    /\ UNCHANGED <<provider, table, flags, copies>>

\* after_commit drops the keys; an error of Redis is swallowed.
Purge(s) ==
    /\ job[s].pc = "purge"
    /\ cache' \in {"none", cache}
    /\ job' = [job EXCEPT ![s] = Idle]
    /\ UNCHANGED <<provider, table, guard, flags, read>>

Crash(p) ==
    /\ job' = [s \in Syncer |-> IF Home[s] = p THEN Idle ELSE job[s]]
    /\ guard' = [s \in Syncer |-> IF Home[s] = p THEN {} ELSE guard[s]]
    /\ defer' = [defer EXCEPT ![p] = FALSE]
    /\ copied' = [copied EXCEPT ![p] = FALSE]
    /\ overlap' = [overlap EXCEPT ![p] = FALSE]
    /\ UNCHANGED <<provider, table, copies>>

-----------------------------------------------------------------------------
(* Readers of the table, of a league or of a team's profile.               *)

\* A miss; an empty table is not cached.
Load(r) ==
    /\ read[r] = "none" /\ \E t \in Team : rows[t] # 0
    /\ read' = [read EXCEPT ![r] = "current"]
    /\ UNCHANGED <<provider, table, guard, job, flags, cache>>

Fill(r) ==
    /\ read[r] # "none"
    /\ cache' \in {read[r], cache}
    /\ read' = [read EXCEPT ![r] = "none"]
    /\ UNCHANGED <<provider, table, guard, job, flags>>

\* (Variant: keys are stored without a time to live.)
ExpireNever == FALSE /\ UNCHANGED vars

Expire ==
    /\ cache # "none"
    /\ cache' = "none"
    /\ UNCHANGED <<provider, table, guard, job, flags, read>>

Prewarm(d) ==
    SetFlag(d) \/ BeginPrewarm(d) \/ SkipPrewarm(d) \/ Look(d) \/ Restore(d)

Sync(s) ==
    \/ Fetch(s) \/ Clear(s) \/ Upsert(s) \/ Project(s) \/ Decide(s) \/ Rejected(s)
    \/ StatementFails(s) \/ Commit(s) \/ Unlock(s) \/ Rollback(s) \/ Purge(s)

Next ==
    \/ ProviderChanges \/ Expire
    \/ \E s \in Direct : BeginDirect(s)
    \/ \E d \in Daily : Prewarm(d)
    \/ \E s \in Syncer : Sync(s)
    \/ \E p \in Replica : Crash(p)
    \/ \E r \in Reader : Load(r) \/ Fill(r)

\* Redis expires keys, and a request that has read its rows goes on.
Fairness == WF_vars(Expire) /\ \A r \in Reader : WF_vars(Fill(r))

Spec == Init /\ [][Next]_vars /\ Fairness

-----------------------------------------------------------------------------
\* Rows of two answers stand in one table only where a prewarm wrote some: the
\* job and the route replace all rows they find, and what a prewarm commits
\* behind them is told apart by its writer (_prewarm_missing_standings).
MixedOnlyByPrewarm == \A t, u \in own : rows[t] = rows[u]

\* A row that a job or route stored has its analytics fact, of the same answer,
\* whatever prewarms delete, write and commit later; a prewarm the projection
\* rejected leaves rows without (upsert_standings, project_standing).
FactsFollowOwnRows == \A t \in own : rows[t] # 0 /\ facts[t] = rows[t]

\* No row is overwritten by an older answer, though prewarms commit after the
\* lock has gone to others (run_with_resource_lock in the prewarm).
RowsMoveForward == [][\A t \in Team : rows[t]' # 0 => rows[t]' >= rows[t]]_rows

\* The flag outlives the prewarms of a replica only when two of them have run
\* at once there, each restoring what it found; and a job or route that commits
\* without queueing its cache key had a prewarm of its replica beside it, or
\* found the flag stuck by such a pair (sync_daily_fixtures, upsert_standings).
FlagExplained ==
    /\ \A p \in Replica : ~overlap[p] /\ Prewarming(p) = {} => ~defer[p]
    /\ \A s \in Direct : job[s].pc = "commit" /\ ~job[s].keyed => job[s].touched

\* Once the rows change no more, what is cached is what they are, for good.
CacheSettles == <>[][FALSE]_rows => <>[](cache # "stale")
=============================================================================
