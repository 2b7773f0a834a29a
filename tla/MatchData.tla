------------------------------- MODULE MatchData -------------------------------
(***************************************************************************)
(* What the refresh jobs and sync routes store of one match: its events,   *)
(* odds, statistics or lineup (the *_sync_service.py and their             *)
(* repositories, the refresh jobs of scheduler.py, the routes of           *)
(* api/matches.py), and the cached copy readers fill beside them.          *)
(*                                                                         *)
(* The lock "<kind>:<match>" is what ResourceLock proves it to be, a       *)
(* ResourceMutex up to the end of the transaction.  Rows are sets of       *)
(* batches: the rows one sync stored from one answer of the provider.      *)
(* The four tables do not interact; kind says which one a behaviour is     *)
(* about.                                                                  *)
(***************************************************************************)
EXTENDS Naturals

CONSTANTS Syncer,      \* jobs and routes that refresh the match
          Nested,      \* those that run inside a fixture sync's transaction
          Reader,      \* requests that read through the cache
          MaxAnswer    \* bound: changes of the answer at the provider

ASSUME MatchDataAssumption ==
    /\ Nested \subseteq Syncer
    /\ MaxAnswer \in Nat

VARIABLES
    kind,     \* the table; never changes
    answer,   \* what the provider answers: its version, and whether it has data
    rows,     \* the committed batches
    guard,    \* guard[s]: the lock as far as it excludes others
    pc,
    got,      \* got[s]: the answer s fetched
    target,   \* committed rows a DELETE (or SELECT) of s saw when it started, as
              \* long as it is under way
    gone,     \* committed rows s has deleted or overwritten, uncommitted
    added,    \* rows s has inserted, uncommitted
    cache,    \* what is cached: nothing, the rows as they are, or older ones
    read      \* read[r]: the same of what reader r has loaded

vars == <<kind, answer, rows, guard, pc, got, target, gone, added, cache, read>>
syncVars == <<guard, pc, got, target, gone, added>>

Mutex == INSTANCE ResourceMutex
            WITH Session <- Syncer, Resource <- {"match"}, inside <- guard

Kind == {"events", "odds", "statistics", "lineup"}
Replaced == {"events", "odds"}      \* DELETE, then insert; else one row by key
Cached == Kind \ {"odds"}           \* get_cached_odds fills no cache
Answer == [ver: Nat, data: BOOLEAN]
NoAnswer == [ver |-> 0, data |-> FALSE]
Copy == {"none", "current", "stale"}

Init ==
    /\ kind \in Kind
    /\ answer \in {[ver |-> 0, data |-> data] : data \in BOOLEAN}
    /\ rows = {}
    /\ guard = [s \in Syncer |-> {}]
    /\ pc = [s \in Syncer |-> "idle"]
    /\ got = [s \in Syncer |-> NoAnswer]
    /\ target = [s \in Syncer |-> {}]
    /\ gone = [s \in Syncer |-> {}]
    /\ added = [s \in Syncer |-> {}]
    /\ cache = "none"
    /\ read = [r \in Reader |-> "none"]

Goto(s, label) == pc' = [pc EXCEPT ![s] = label]
Unguard(s) == guard' = [guard EXCEPT ![s] = {}]

ProviderChanges ==
    /\ answer.ver < MaxAnswer
    /\ \E data \in BOOLEAN : answer' = [ver |-> answer.ver + 1, data |-> data]
    /\ UNCHANGED <<kind, rows, syncVars, cache, read>>

-----------------------------------------------------------------------------
(* A refresh: lock, fetch, write.                                          *)

\* (Variant: a refresh that takes no lock.)
BeginUnlocked(s) ==
    /\ pc[s] = "idle" /\ (s \in Nested => kind = "events")
    /\ guard' = [guard EXCEPT ![s] = {"match"}]
    /\ Goto(s, "locked")
    /\ UNCHANGED <<kind, answer, rows, got, target, gone, added, cache, read>>

\* run_with_resource_lock(<kind>, match): on conflict the match is skipped.
Begin(s) ==
    /\ pc[s] = "idle" /\ (s \in Nested => kind = "events")
    /\ Mutex!Enter(s, "match")
    /\ Goto(s, "locked")
    /\ UNCHANGED <<kind, answer, rows, got, target, gone, added, cache, read>>

\* Odds refreshed recently, a lineup whose match has ended: nothing to do.
Skip(s) ==
    /\ pc[s] = "locked" /\ kind \in {"odds", "lineup"}
    /\ Unguard(s) /\ Goto(s, "idle")
    /\ UNCHANGED <<kind, answer, rows, got, target, gone, added, cache, read>>

\* An answer without data: it deletes the events, is committed as it is for
\* odds, and fails for statistics and lineups.
Fetch(s) ==
    /\ pc[s] = "locked"
    /\ got' = [got EXCEPT ![s] = answer]
    /\ Goto(s, IF answer.data \/ kind = "events" THEN "fetched"
               ELSE IF kind = "odds" THEN "written" ELSE "undo")
    /\ UNCHANGED <<kind, answer, rows, guard, target, gone, added, cache, read>>

\* "API error": the fixture sync goes on without its events, others undo.
FetchFails(s) ==
    /\ pc[s] = "locked"
    /\ IF s \in Nested THEN Unguard(s) /\ Goto(s, "open")
                       ELSE UNCHANGED guard /\ Goto(s, "undo")
    /\ UNCHANGED <<kind, answer, rows, got, target, gone, added, cache, read>>

\* The write starts: DELETE, or the SELECT of the row, sees committed rows.
Look(s) ==
    /\ pc[s] = "fetched"
    /\ target' = [target EXCEPT ![s] = rows]
    /\ Goto(s, "write")
    /\ UNCHANGED <<kind, answer, rows, guard, got, gone, added, cache, read>>

Busy(s) == UNION {gone[t] : t \in Syncer \ {s}}

\* DELETE waits for the rows it has seen and another transaction has deleted;
\* rows committed since it started it does not see (READ COMMITTED).
Delete(s) ==
    /\ pc[s] = "write" /\ kind \in Replaced
    /\ target[s] \cap Busy(s) = {}
    /\ gone' = [gone EXCEPT ![s] = target[s] \cap rows]
    /\ Goto(s, "insert")
    /\ target' = [target EXCEPT ![s] = {}]
    /\ UNCHANGED <<kind, answer, rows, guard, got, added, cache, read>>

\* (Variant: rows are stamped one answer back.)
BatchBefore(s, whole) == [ver |-> got[s].ver - 1, by |-> s, whole |-> whole]

Batch(s, whole) == [ver |-> got[s].ver, by |-> s, whole |-> whole]

\* match_events has no unique key; odds do, and ON CONFLICT DO UPDATE
\* overwrites what is left of the same lines.
Insert(s) ==
    /\ pc[s] = "insert"
    /\ added' = [added EXCEPT ![s] = IF got[s].data THEN {Batch(s, TRUE)} ELSE {}]
    /\ \E same \in SUBSET (rows \ gone[s]) :
          /\ kind = "events" => same = {}
          /\ same \cap Busy(s) = {}
          /\ gone' = [gone EXCEPT ![s] = @ \cup same]
    /\ Goto(s, "written")
    /\ UNCHANGED <<kind, answer, rows, guard, got, target, cache, read>>

\* The row of the match is created or, when the SELECT found one, overwritten;
\* either waits for a transaction that has written it.  Creating it when
\* another one has been committed meanwhile is an IntegrityError.
Store(s) ==
    /\ pc[s] = "write" /\ kind \notin Replaced
    /\ \A t \in Syncer \ {s} : gone[t] = {} /\ added[t] = {}
    /\ IF target[s] = {} /\ rows # {}
       THEN Goto(s, "undo") /\ UNCHANGED <<gone, added>>
       ELSE /\ gone' = [gone EXCEPT ![s] = rows]
            /\ added' = [added EXCEPT ![s] = {Batch(s, TRUE)}]
            /\ Goto(s, "written")
    /\ target' = [target EXCEPT ![s] = {}]
    /\ UNCHANGED <<kind, answer, rows, guard, got, cache, read>>

\* An exception in the write or in the projection after it.
WriteFails(s) ==
    /\ pc[s] \in {"write", "insert", "written"} /\ s \notin Nested
    /\ Goto(s, "undo")
    /\ target' = [target EXCEPT ![s] = {}]
    /\ UNCHANGED <<kind, answer, rows, guard, got, gone, added, cache, read>>

\* The fixture sync swallows it: an event that does not parse leaves the
\* events before it added and the old ones deleted, in a transaction that goes
\* on; a database error aborts the savepoint, which is then rolled back.
NestedWriteFails(s) ==
    /\ pc[s] \in {"write", "insert", "written"} /\ s \in Nested
    /\ Unguard(s) /\ Goto(s, "open")
    /\ \/ /\ pc[s] = "insert" /\ got[s].data
          /\ \E some \in SUBSET {Batch(s, FALSE)} :
                added' = [added EXCEPT ![s] = some]
          /\ UNCHANGED gone
       \/ /\ gone' = [gone EXCEPT ![s] = {}]
          /\ added' = [added EXCEPT ![s] = {}]
    /\ target' = [target EXCEPT ![s] = {}]
    /\ UNCHANGED <<kind, answer, rows, got, cache, read>>

\* The lock is released before the transaction ends: in the fixture sync, whose
\* transaction goes on, and by a job whose refresh failed.
Unlock(s) ==
    /\ guard[s] # {}
    /\ IF s \in Nested THEN pc[s] = "written" /\ Goto(s, "open")
                       ELSE pc[s] = "undo" /\ UNCHANGED pc
    /\ Unguard(s)
    /\ UNCHANGED <<kind, answer, rows, got, target, gone, added, cache, read>>

-----------------------------------------------------------------------------
(* The end of the transaction.                                             *)

Ends(s, label) ==
    /\ Unguard(s) /\ Goto(s, label)
    /\ got' = [got EXCEPT ![s] = NoAnswer]
    /\ target' = [target EXCEPT ![s] = {}]
    /\ gone' = [gone EXCEPT ![s] = {}]
    /\ added' = [added EXCEPT ![s] = {}]
    /\ UNCHANGED <<kind, answer>>

Rollback(s) ==
    /\ pc[s] \in {"undo", "open"}
    /\ Ends(s, "idle")
    /\ UNCHANGED <<rows, cache, read>>

\* (Variant: what was deleted stays.)
RowsAfterKeeping(s) == rows \cup added[s]

RowsAfter(s) == (rows \ gone[s]) \cup added[s]

\* Copies made before the rows change are overtaken.
Overtaken(copy) == IF copy = "current" THEN "stale" ELSE copy

WriteRows(s) ==
    /\ rows' = RowsAfter(s)
    /\ IF rows' = rows THEN UNCHANGED <<cache, read>>
       ELSE /\ cache' = Overtaken(cache)
            /\ read' = [r \in Reader |-> Overtaken(read[r])]

AtCommit(s) == pc[s] = IF s \in Nested THEN "open" ELSE "written"

\* A job or route commits itself and then drops the cached copy; the fixture
\* sync commits later, and drops none.
Commit(s) ==
    /\ AtCommit(s)
    /\ Ends(s, IF s \in Nested THEN "idle" ELSE "purge")
    /\ WriteRows(s)

\* cache_delete: an error of Redis is logged and forgotten.
Purge(s) ==
    /\ pc[s] = "purge"
    /\ cache' \in {"none", cache}
    /\ Goto(s, "idle")
    /\ UNCHANGED <<kind, answer, rows, guard, got, target, gone, added, read>>

\* The replica or its connection is lost; a commit under way may count.
Crash(s) ==
    /\ pc[s] # "idle"
    /\ Ends(s, "idle")
    /\ \/ UNCHANGED <<rows, cache, read>>
       \/ AtCommit(s) /\ WriteRows(s)

-----------------------------------------------------------------------------
(* Readers: cache, else rows, which they cache for a while.                *)

\* A miss, or an error of Redis, which counts as one.
Load(r) ==
    /\ read[r] = "none" /\ rows # {} /\ kind \in Cached
    /\ read' = [read EXCEPT ![r] = "current"]
    /\ UNCHANGED <<kind, answer, rows, syncVars, cache>>

Fill(r) ==
    /\ read[r] # "none"
    /\ cache' \in {read[r], cache}
    /\ read' = [read EXCEPT ![r] = "none"]
    /\ UNCHANGED <<kind, answer, rows, syncVars>>

\* (Variant: keys are stored without a time to live.)
ExpireNever == FALSE /\ UNCHANGED vars

Expire ==
    /\ cache # "none"
    /\ cache' = "none"
    /\ UNCHANGED <<kind, answer, rows, syncVars, read>>

Sync(s) ==
    \/ Begin(s) \/ Skip(s) \/ Fetch(s) \/ FetchFails(s) \/ Look(s) \/ Delete(s)
    \/ Insert(s) \/ Store(s) \/ WriteFails(s) \/ NestedWriteFails(s) \/ Unlock(s)
    \/ Rollback(s) \/ Commit(s) \/ Purge(s) \/ Crash(s)

Next ==
    \/ ProviderChanges \/ Expire
    \/ \E s \in Syncer : Sync(s)
    \/ \E r \in Reader : Load(r) \/ Fill(r)

\* Redis expires keys, and a request that has read its rows goes on.
Fairness == WF_vars(Expire) /\ \A r \in Reader : WF_vars(Fill(r))

Spec == Init /\ [][Next]_vars /\ Fairness

-----------------------------------------------------------------------------
\* The types; rows carry answers the provider has given (refresh_match_events,
\* refresh_odds, sync_match_statistics, sync_lineup).
TypeOK ==
    LET Rows == [ver: Nat, by: Syncer, whole: BOOLEAN] IN
    /\ kind \in Kind
    /\ answer \in Answer
    /\ rows \in SUBSET Rows
    /\ guard \in [Syncer -> SUBSET {"match"}]
    /\ pc \in [Syncer -> {"idle", "locked", "fetched", "write", "insert",
                          "written", "open", "undo", "purge"}]
    /\ got \in [Syncer -> Answer]
    /\ target \in [Syncer -> SUBSET Rows]
    /\ gone \in [Syncer -> SUBSET Rows]
    /\ added \in [Syncer -> SUBSET Rows]
    /\ cache \in Copy
    /\ read \in [Reader -> Copy]

\* Rows of two answers lie side by side only when a fixture sync has stored one
\* of them: refreshes under their own transaction replace one another, even
\* though a failed one unlocks before it rolls back.
MixedOnlyByNested ==
    \A a, b \in rows : a # b => a.by \in Nested \/ b.by \in Nested

\* A refresh with its own transaction never stores an older answer than the ones
\* that are there, whoever stored those.
AnswersMoveForward ==
    [][\A new \in rows' \ rows, old \in rows :
          new.by \notin Nested => new.ver >= old.ver]_rows

\* Once the rows change no more, what is cached is what they are, for good: an
\* overtaken reader, a lost deletion or a fixture sync, which deletes no key,
\* leave a stale copy, but not for ever.
CacheSettles == <>[][FALSE]_rows => <>[](cache # "stale")
=============================================================================
