----------------------------- MODULE FixtureSync -----------------------------
(***************************************************************************)
(* Fixture synchronisation (app/services/fixture_sync_service.py and the   *)
(* jobs and routes that call it): the match rows, the final lineup records *)
(* the transitions create, and the registry of active matches in Redis.    *)
(*                                                                         *)
(* A sync fetches a snapshot of the provider, goes through its fixtures in *)
(* one transaction with a savepoint per fixture, and commits.  The lock    *)
(* "fixture_query:global" is what ResourceLock proves it to be: exclusion  *)
(* (ResourceMutex) up to the first commit or rollback.  The repair job     *)
(* syncs two dates under one acquisition, so its second round runs with no *)
(* exclusion against other syncs of its replica.                           *)
(*                                                                         *)
(* Statuses stand for the classes the code distinguishes: NS for NS and    *)
(* TBD; 1H for 1H, 2H, HT and LIVE; ET for ET, BT and P; INT for a status  *)
(* in none of the sets; PST; CANC for CANC, ABD, AWD and WO; FT for FT,    *)
(* AET and PEN.                                                            *)
(***************************************************************************)
EXTENDS Naturals

CONSTANTS Match,
          Syncer,      \* syncs of one replica: live, daily, repair, routes
          Repair,      \* those among them that go through two rounds
          MaxAge       \* bound: changes of a fixture at the provider

ASSUME FixtureSyncAssumption ==
    /\ Repair \subseteq Syncer
    /\ MaxAge \in Nat

VARIABLES
    provider,   \* provider[m]: status at the provider and its age (a version)
    row,        \* row[m]: the committed row of m; status NONE when there is none
    required,   \* matches with a committed MatchLineupFinalization record
    active,     \* matches registered active in Redis
    guard,      \* guard[s]: resources s holds in its running transaction
    pc,
    round,      \* 1, or 2 for the second date of the repair job
    snap,       \* snap[s]: the provider's fixtures as fetched
    todo,       \* fixtures left to process
    cur,        \* fixture being processed, with
    prev,       \*   the status read from its row before the upsert
    staged,     \* matches whose snapshot is upserted and not committed
    stagedReq,  \* matches whose record is created and not committed
    alone       \* history: no unguarded round has overlapped this one so far

vars == <<provider, row, required, active, guard, pc, round, snap, todo, cur,
          prev, staged, stagedReq, alone>>

Mutex == INSTANCE ResourceMutex
            WITH Session <- Syncer, Resource <- {"global"}, inside <- guard

NonTerminal == {"NS", "1H", "ET"}
ActiveRegister == {"1H"}
FinalizationTerminal == {"FT", "CANC", "PST"}
FinalLineupTerminal == {"FT"}

\* How a fixture changes at the provider.
Follow(status) ==
    CASE status = "NS"  -> {"1H", "PST", "CANC"}
      [] status = "1H"  -> {"ET", "INT", "FT"}
      [] status = "ET"  -> {"FT"}
      [] status = "INT" -> {"1H", "CANC"}
      [] status = "PST" -> {"NS"}
      [] OTHER          -> {}

Status == {"NS", "1H", "ET", "INT", "PST", "CANC", "FT"}
NoRow == [status |-> "NONE", age |-> 0]

Init ==
    /\ provider = [m \in Match |-> [status |-> "NS", age |-> 1]]
    /\ row = [m \in Match |-> NoRow]
    /\ required = {}
    /\ active = {}
    /\ guard = [s \in Syncer |-> {}]
    /\ pc = [s \in Syncer |-> "idle"]
    /\ round = [s \in Syncer |-> 1]
    /\ snap = [s \in Syncer |-> provider]
    /\ todo = [s \in Syncer |-> {}]
    /\ cur \in [Syncer -> Match]
    /\ prev = [s \in Syncer |-> "NONE"]
    /\ staged = [s \in Syncer |-> {}]
    /\ stagedReq = [s \in Syncer |-> {}]
    /\ alone = [s \in Syncer |-> TRUE]

Goto(s, label) == pc' = [pc EXCEPT ![s] = label]

-----------------------------------------------------------------------------
(* The world outside the sync.                                             *)

ProviderMoves(m) ==
    /\ provider[m].age < MaxAge
    /\ \E status \in Follow(provider[m].status) :
          provider' = [provider EXCEPT
                          ![m] = [status |-> status, age |-> @.age + 1]]
    /\ UNCHANGED <<row, required, active, guard, pc, round, snap, todo, cur,
                   prev, staged, stagedReq, alone>>

-----------------------------------------------------------------------------
(* A sync: lock, fetch, one fixture after the other, commit.               *)

\* (Variant: a sync that takes no lock.)
BeginUnlocked(s) ==
    /\ pc[s] = "idle"
    /\ guard' = [guard EXCEPT ![s] = {"global"}]
    /\ round' = [round EXCEPT ![s] = 1]
    /\ alone' = [alone EXCEPT ![s] = \A t \in Syncer : pc[t] = "idle"]
    /\ Goto(s, "fetch")
    /\ UNCHANGED <<provider, row, required, active, snap, todo, cur, prev,
                   staged, stagedReq>>

\* run_with_resource_lock("fixture_query", "global"): on conflict the job
\* skips.  An unguarded round under way takes aloneness away.
Begin(s) ==
    /\ pc[s] = "idle"
    /\ Mutex!Enter(s, "global")
    /\ round' = [round EXCEPT ![s] = 1]
    /\ alone' = [alone EXCEPT ![s] = \A t \in Syncer : pc[t] = "idle"]
    /\ Goto(s, "fetch")
    /\ UNCHANGED <<provider, row, required, active, snap, todo, cur, prev,
                   staged, stagedReq>>

Fetch(s) ==
    /\ pc[s] = "fetch"
    /\ \E fixtures \in SUBSET Match \ {{}} : todo' = [todo EXCEPT ![s] = fixtures]
    /\ snap' = [snap EXCEPT ![s] = provider]
    /\ Goto(s, "next")
    /\ UNCHANGED <<provider, row, required, active, guard, round, cur, prev,
                   staged, stagedReq, alone>>

\* The transaction of s ends, and with it what it staged and its guard.
EndTransaction(s) ==
    /\ guard' = [guard EXCEPT ![s] = {}]
    /\ staged' = [staged EXCEPT ![s] = {}]
    /\ stagedReq' = [stagedReq EXCEPT ![s] = {}]
    /\ todo' = [todo EXCEPT ![s] = {}]

\* (Variant: the repair job never stops.)
NextRoundAgain(s) ==
    IF s \in Repair
    THEN /\ round' = [round EXCEPT ![s] = @ + 1]
         /\ alone' = [t \in Syncer |-> FALSE]
         /\ Goto(s, "fetch")
    ELSE Goto(s, "idle") /\ UNCHANGED <<round, alone>>

\* After the first date the repair job goes on to the second, unguarded: from
\* then on no sync under way is alone.
NextRound(s) ==
    IF s \in Repair /\ round[s] = 1
    THEN /\ round' = [round EXCEPT ![s] = 2]
         /\ alone' = [t \in Syncer |-> FALSE]
         /\ Goto(s, "fetch")
    ELSE Goto(s, "idle") /\ UNCHANGED <<round, alone>>

\* "API error": the job rolls back (in the second round the session's close
\* does it) and goes on as after a commit.
FetchFails(s) ==
    /\ pc[s] = "fetch"
    /\ EndTransaction(s)
    /\ NextRound(s)
    /\ UNCHANGED <<provider, row, required, active, snap, cur, prev>>

\* A fixture that does not parse or has unresolved teams is passed over.
Skip(s, m) ==
    /\ pc[s] = "next" /\ m \in todo[s]
    /\ todo' = [todo EXCEPT ![s] = @ \ {m}]
    /\ UNCHANGED <<provider, row, required, active, guard, pc, round, snap,
                   cur, prev, staged, stagedReq, alone>>

\* previous_status: the committed row (READ COMMITTED), before the upsert.
ReadPrevious(s, m) ==
    /\ pc[s] = "next" /\ m \in todo[s]
    /\ cur' = [cur EXCEPT ![s] = m]
    /\ todo' = [todo EXCEPT ![s] = @ \ {m}]
    /\ prev' = [prev EXCEPT ![s] = row[m].status]
    /\ Goto(s, "upsert")
    /\ UNCHANGED <<provider, row, required, active, guard, round, snap,
                   staged, stagedReq, alone>>

\* INSERT ... ON CONFLICT DO UPDATE waits for the row lock of another
\* transaction that has upserted the match and not ended.
RowLocked(s, m) == \E t \in Syncer \ {s} : m \in staged[t]

Upsert(s) ==
    /\ pc[s] = "upsert"
    /\ ~RowLocked(s, cur[s])
    /\ staged' = [staged EXCEPT ![s] = @ \cup {cur[s]}]
    /\ Goto(s, "finish")
    /\ UNCHANGED <<provider, row, required, active, guard, round, snap, todo,
                   cur, prev, stagedReq, alone>>

\* Only a match that was on asks for its final lineup when it ends.
AsksLineup(s) ==
    /\ prev[s] \in NonTerminal
    /\ snap[s][cur[s]].status \in FinalLineupTerminal

\* _sync_active_match_registration: straight to Redis, before the commit; an
\* error there is swallowed.
Register(s) ==
    \/ active' = IF snap[s][cur[s]].status \in ActiveRegister
                 THEN active \cup {cur[s]} ELSE active \ {cur[s]}
    \/ UNCHANGED active

\* The events of a match that ended are synced within the transaction, under
\* their own lock; when that lock is taken or the provider fails, the match
\* stays registered and asks for no final lineup.
Finish(s) ==
    /\ pc[s] = "finish"
    /\ LET terminal == snap[s][cur[s]].status \in FinalizationTerminal IN
       \E finalized \in {FALSE, terminal} :
          /\ stagedReq' = IF finalized /\ AsksLineup(s)
                          THEN [stagedReq EXCEPT ![s] = @ \cup {cur[s]}]
                          ELSE stagedReq
          /\ IF finalized \/ ~terminal THEN Register(s) ELSE UNCHANGED active
    /\ Goto(s, "release")
    /\ UNCHANGED <<provider, row, required, guard, round, snap, todo, cur,
                   prev, staged, alone>>

ReleaseSavepoint(s) ==
    /\ pc[s] = "release"
    /\ Goto(s, "next")
    /\ UNCHANGED <<provider, row, required, active, guard, round, snap, todo,
                   cur, prev, staged, stagedReq, alone>>

\* (Variant: a failed fixture leaves its lineup record behind.)
UndoneRowOnly(s) ==
    staged' = [staged EXCEPT ![s] = @ \ {cur[s]}] /\ UNCHANGED stagedReq

\* ROLLBACK TO SAVEPOINT: everything the fixture staged goes.
Undone(s) ==
    /\ staged' = [staged EXCEPT ![s] = @ \ {cur[s]}]
    /\ stagedReq' = [stagedReq EXCEPT ![s] = @ \ {cur[s]}]

\* A statement raises: a deadlock of row locks, an error the events sync
\* swallowed that makes RELEASE SAVEPOINT fail, any other database error.
FixtureFails(s) ==
    /\ pc[s] \in {"upsert", "finish", "release"}
    /\ Undone(s)
    /\ Goto(s, "next")
    /\ UNCHANGED <<provider, row, required, active, guard, round, snap, todo,
                   cur, prev, alone>>

\* What a commit of s makes durable: rows and records together.
WriteStaged(s) ==
    /\ row' = [m \in Match |-> IF m \in staged[s] THEN snap[s][m] ELSE row[m]]
    /\ required' = required \cup stagedReq[s]

Commit(s) ==
    /\ pc[s] = "next" /\ todo[s] = {}
    /\ WriteStaged(s)
    /\ EndTransaction(s)
    /\ NextRound(s)
    /\ UNCHANGED <<provider, active, snap, cur, prev>>

\* An exception leaves the sync, the connection or the replica is lost: the
\* transaction is rolled back.  A commit that raises may have been applied.
Abort(s) ==
    /\ pc[s] # "idle"
    /\ \/ UNCHANGED <<row, required>>
       \/ pc[s] = "next" /\ todo[s] = {} /\ WriteStaged(s)
    /\ EndTransaction(s)
    /\ Goto(s, "idle")
    /\ UNCHANGED <<provider, active, round, snap, cur, prev, alone>>

-----------------------------------------------------------------------------
(* The registry beside the sync.                                           *)

\* POST /{match_id}/heartbeat registers any match there is a row for, and a
\* key nobody refreshes expires.
Heartbeat(m) ==
    /\ row[m] # NoRow
    /\ active' = active \cup {m}
    /\ UNCHANGED <<provider, row, required, guard, pc, round, snap, todo, cur,
                   prev, staged, stagedReq, alone>>

Expire(m) ==
    /\ active' = active \ {m}
    /\ UNCHANGED <<provider, row, required, guard, pc, round, snap, todo, cur,
                   prev, staged, stagedReq, alone>>

Next ==
    \/ \E m \in Match : ProviderMoves(m) \/ Heartbeat(m) \/ Expire(m)
    \/ \E s \in Syncer :
          \/ Begin(s) \/ Fetch(s) \/ FetchFails(s) \/ Upsert(s) \/ Finish(s)
          \/ ReleaseSavepoint(s) \/ FixtureFails(s) \/ Commit(s) \/ Abort(s)
          \/ \E m \in Match : Skip(s, m) \/ ReadPrevious(s, m)

Spec == Init /\ [][Next]_vars

-----------------------------------------------------------------------------
TypeOK ==
    LET Fixture == [status: Status, age: Nat] IN
    /\ provider \in [Match -> Fixture]
    /\ row \in [Match -> Fixture \cup {NoRow}]
    /\ required \in SUBSET Match
    /\ active \in SUBSET Match
    /\ guard \in [Syncer -> SUBSET {"global"}]
    /\ pc \in [Syncer -> {"idle", "fetch", "next", "upsert", "finish", "release"}]
    /\ round \in [Syncer -> 1..2]
    /\ snap \in [Syncer -> [Match -> Fixture]]
    /\ todo \in [Syncer -> SUBSET Match]
    /\ cur \in [Syncer -> Match]
    /\ prev \in [Syncer -> Status \cup {"NONE"}]
    /\ staged \in [Syncer -> SUBSET Match]
    /\ stagedReq \in [Syncer -> SUBSET Match]
    /\ alone \in [Syncer -> BOOLEAN]

\* A match gets a final lineup record only in the commit that writes the row
\* saying it has ended: a fixture that fails half way leaves neither.
RecordWithEnd ==
    [][\A m \in required' \ required :
          row'[m].status \in FinalLineupTerminal]_<<row, required>>

\* A sync no unguarded round has overlapped decides on a transition from the
\* status the row still has: nobody has committed another one since.
PreviousIsCurrent ==
    \A s \in Syncer :
        alone[s] /\ pc[s] \in {"upsert", "finish"}
            => prev[s] = row[cur[s]].status

\* As long as no unguarded round overlaps a sync, its commit never takes a row
\* back to an older state of the fixture.
RowsMoveForward ==
    [][(\E s \in Syncer : alone[s] /\ staged[s] # {} /\ staged'[s] = {})
          => \A m \in Match : row'[m].age >= row[m].age]_vars
=============================================================================
