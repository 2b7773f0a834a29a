----------------------------- MODULE FinalLineup -----------------------------
(***************************************************************************)
(* Final lineups of finished matches (app/services/                        *)
(* fixture_sync_service.py: finalize_pending_lineups and what it calls,    *)
(* app/repositories/final_lineup_finalization_repository.py), run by       *)
(* several workers over the locks and the connection pool of ResourceLock: *)
(* a resource is the lock "lineup:<match>", and every database step of a   *)
(* worker is the ResourceLock action its statement performs.               *)
(*                                                                         *)
(* A worker goes through two sessions: the attempt, and, when it failed or *)
(* its commit raised, one that records the failure.  Each takes the lock,  *)
(* reads the record, writes, commits, unlocks and closes.                  *)
(***************************************************************************)
EXTENDS ResourceLock

CONSTANTS Worker,     \* sessions that run finalize_pending_lineups
          MaxTries,   \* bound: attempts started per match
          Faults      \* whether statements, connections and replicas may fail

ASSUME FinalLineupAssumption ==
    /\ Worker \subseteq Session
    /\ MaxTries \in Nat
    /\ Faults \in BOOLEAN

VARIABLES
    record,   \* record[m]: the committed MatchLineupFinalization row of m
    lineup,   \* matches whose final lineup is committed
    begun,    \* history: attempts of m begun, up to mark_attempt_started
    pc,       \* where each worker stands
    phase,    \* which of its two sessions it is in: "attempt" or "persist"
    job,      \* the match it works on
    seen,     \* attempt_count as read from the record in this session
    called,   \* provider_attempted
    result    \* state of the outcome of the attempt

workVars == <<record, lineup, begun, pc, phase, job, seen, called, result>>
allVars == <<vars, workVars>>

Match == Resource
Fate == INSTANCE LineupFate
Pending == {"REQUIRED", "RETRYABLE"}

FLInit ==
    /\ Init
    /\ record = [m \in Match |-> [state |-> "NONE", attempts |-> 0]]
    /\ lineup = {}
    /\ begun = [m \in Match |-> 0]
    /\ pc = [w \in Worker |-> "idle"]
    /\ phase = [w \in Worker |-> "attempt"]
    /\ job \in [Worker -> Match]
    /\ seen = [w \in Worker |-> 0]
    /\ called = [w \in Worker |-> FALSE]
    /\ result = [w \in Worker |-> "none"]

Goto(w, label) == pc' = [pc EXCEPT ![w] = label]
Outcome(w, r) == result' = [result EXCEPT ![w] = r]

-----------------------------------------------------------------------------
(* The attempt: _run_final_lineup_attempt under the lock.                  *)

\* The fixture sync commits a record for a match that has just ended.
Require(m) ==
    /\ record[m].state = "NONE"
    /\ record' = [record EXCEPT ![m].state = "REQUIRED"]
    /\ UNCHANGED <<vars, lineup, begun, pc, phase, job, seen, called, result>>

\* A worker turns to a candidate, which may be settled, or without a record, by
\* now: candidates were
\* collected in an earlier transaction (whose commit may not have kept it).
Start(w, m) ==
    /\ pc[w] = "idle" /\ begun[m] < MaxTries
    /\ job' = [job EXCEPT ![w] = m]
    /\ phase' = [phase EXCEPT ![w] = "attempt"]
    /\ called' = [called EXCEPT ![w] = FALSE]
    /\ Outcome(w, "skipped")
    /\ \/ Acquire(w, m) /\ Goto(w, "locked")
       \/ Conflict(w, m) /\ Goto(w, "close")
    /\ UNCHANGED <<record, lineup, begun, seen>>

ReadRecord(w) ==
    /\ pc[w] = "locked" /\ phase[w] = "attempt" /\ w \notin failed
    /\ IF record[job[w]].state \in Pending
       THEN Goto(w, "begin") ELSE Goto(w, "release")
    /\ seen' = [seen EXCEPT ![w] = record[job[w]].attempts]
    /\ UNCHANGED <<vars, record, lineup, begun, phase, job, called, result>>

\* get_by_match_id raises: outside the attempt's try, the exception leaves
\* finalize_pending_lineups altogether (the finally block still unlocks).
ReadRaises(w) ==
    /\ pc[w] = "locked" /\ w \in failed
    /\ Goto(w, "release")
    /\ UNCHANGED <<vars, record, lineup, begun, phase, job, seen, called, result>>

\* mark_attempt_started is flushed, not committed, and provider_attempted set:
\* from here on the attempt counts, whether it reaches the provider or not.
MarkStarted(w) ==
    /\ pc[w] = "begin" /\ w \notin failed
    /\ Goto(w, "status")
    /\ called' = [called EXCEPT ![w] = TRUE]
    /\ begun' = [begun EXCEPT ![job[w]] = @ + 1]
    /\ UNCHANGED <<vars, record, lineup, phase, job, seen, result>>

\* sync_lineup: the query for the status of the match has been answered, and the
\* provider is asked.
CallProvider(w) ==
    /\ pc[w] = "status" /\ w \notin failed
    /\ Goto(w, "provider")
    /\ UNCHANGED <<vars, record, lineup, begun, phase, job, seen, called, result>>

\* The lineup is stored and the record marked SUCCESS, both still uncommitted.
StageSuccess(w) ==
    /\ pc[w] = "provider" /\ w \notin failed
    /\ Goto(w, "commit")
    /\ UNCHANGED <<vars, record, lineup, begun, phase, job, seen, called, result>>

\* The provider raised or has no valid lineup, or a statement raised (that of
\* mark_attempt_started, or one that sync_lineup turns into success = False):
\* roll back.
AttemptFails(w) ==
    /\ pc[w] = "provider" \/ (pc[w] \in {"begin", "status"} /\ w \in failed)
    /\ EndTransaction(w)
    /\ Goto(w, "release")
    /\ Outcome(w, "failure")
    /\ UNCHANGED <<record, lineup, begun, phase, job, seen, called>>

\* (Variant: the attempt that succeeds is not counted.)
WriteSuccessUncounted(w) ==
    /\ record' = [record EXCEPT ![job[w]] =
                     [state |-> "SUCCESS", attempts |-> seen[w]]]
    /\ lineup' = lineup \cup {job[w]}

\* What a commit of the attempt writes: SUCCESS and the lineup together.
WriteSuccess(w) ==
    /\ record' = [record EXCEPT ![job[w]] =
                     [state |-> "SUCCESS", attempts |-> seen[w] + 1]]
    /\ lineup' = lineup \cup {job[w]}

Commit(w) ==
    /\ pc[w] = "commit" /\ phase[w] = "attempt" /\ w \notin failed
    /\ EndTransaction(w)
    /\ WriteSuccess(w)
    /\ Goto(w, "release")
    /\ Outcome(w, "success")
    /\ UNCHANGED <<begun, phase, job, seen, called>>

\* commit() raises: on a connection that died, the server may have committed.
CommitRaises(w) ==
    /\ pc[w] = "commit" /\ phase[w] = "attempt"
    /\ \/ w \in failed /\ UNCHANGED <<vars, record, lineup>>
       \/ /\ Faults /\ w \notin failed /\ LoseConnection(conn[w])
          /\ WriteSuccess(w) \/ UNCHANGED <<record, lineup>>
    /\ Goto(w, "release")
    /\ Outcome(w, "unknown")
    /\ UNCHANGED <<begun, phase, job, seen, called>>

-----------------------------------------------------------------------------
(* Leaving a session, for both phases.                                     *)

Unlock(w) ==
    /\ pc[w] = "release"
    /\ Release(w, job[w])
    /\ Goto(w, "close")
    /\ UNCHANGED <<record, lineup, begun, phase, job, seen, called, result>>

\* A failed attempt, or one whose commit raised, goes on to a second session.
CloseSession(w) ==
    /\ pc[w] = "close"
    /\ IF conn[w] # None \/ w \in failed THEN EndTransaction(w)
                                         ELSE UNCHANGED vars
    /\ IF phase[w] = "attempt" /\ result[w] \in {"failure", "unknown"}
       THEN Goto(w, "persist") ELSE Goto(w, "idle")
    /\ UNCHANGED <<record, lineup, begun, phase, job, seen, called, result>>

-----------------------------------------------------------------------------
(* The failure record: _persist_final_lineup_failure.                      *)

\* When the lock is taken by someone else, or there is no connection to ask
\* with, the failure goes unrecorded.
Persist(w) ==
    /\ pc[w] = "persist"
    /\ phase' = [phase EXCEPT ![w] = "persist"]
    /\ \/ Acquire(w, job[w]) /\ Goto(w, "locked")
       \/ Conflict(w, job[w]) /\ Goto(w, "close")
       \/ Available(w) = {} /\ UNCHANGED vars /\ Goto(w, "idle")
    /\ UNCHANGED <<record, lineup, begun, job, seen, called, result>>

\* (Variants: the record is not looked at again, and a commit that raised is
\* taken for done.)
SettledNever(m) == FALSE
SettledAlways(m) == TRUE

Settled(m) == record[m].state = "SUCCESS"

\* _record_final_lineup_failure reads the record again: SUCCESS settles an
\* unknown commit and is left alone.
Reread(w) ==
    /\ pc[w] = "locked" /\ phase[w] = "persist" /\ w \notin failed
    /\ seen' = [seen EXCEPT ![w] = record[job[w]].attempts]
    /\ IF Settled(job[w])
       THEN /\ Goto(w, "release")
            /\ Outcome(w, IF result[w] = "unknown" THEN "success" ELSE result[w])
       ELSE Goto(w, "commit") /\ UNCHANGED result
    /\ UNCHANGED <<vars, record, lineup, begun, phase, job, called>>

\* (Variant: every failure counts as an attempt.)
WriteFailureCounting(w) ==
    record' = [record EXCEPT ![job[w]] =
                  [state |-> "RETRYABLE", attempts |-> seen[w] + 1]]

WriteFailure(w) ==
    record' = [record EXCEPT ![job[w]] =
                  [state |-> "RETRYABLE",
                   attempts |-> IF called[w] THEN seen[w] + 1 ELSE seen[w]]]

RecordFailure(w) ==
    /\ pc[w] = "commit" /\ phase[w] = "persist" /\ w \notin failed
    /\ EndTransaction(w)
    /\ WriteFailure(w)
    /\ Goto(w, "release")
    /\ UNCHANGED <<lineup, begun, phase, job, seen, called, result>>

RecordRaises(w) ==
    /\ pc[w] = "commit" /\ phase[w] = "persist"
    /\ \/ w \in failed /\ UNCHANGED <<vars, record>>
       \/ /\ Faults /\ w \notin failed /\ LoseConnection(conn[w])
          /\ WriteFailure(w) \/ UNCHANGED record
    /\ Goto(w, "release")
    /\ UNCHANGED <<lineup, begun, phase, job, seen, called, result>>

-----------------------------------------------------------------------------
(* Everything else that happens to the pool and the locks.                 *)

\* Other sessions of the replica: requests and jobs with their own statements,
\* some of them syncing a lineup under the same lock.
OtherSession(s) ==
    /\ \/ Statement(s) \/ EndTransaction(s)
       \/ \E m \in Match : Acquire(s, m) \/ Conflict(s, m) \/ Release(s, m)
    /\ UNCHANGED workVars

Fault ==
    /\ Faults
    /\ \/ \E c \in Conn : LoseConnection(c)
       \/ \E s \in Session : StatementFails(s)
    /\ UNCHANGED workVars

CrashReplica(p) ==
    /\ Faults /\ Crash(p)
    /\ pc' = [w \in Worker |-> IF ProcessOf[w] = p THEN "idle" ELSE pc[w]]
    /\ result' = [w \in Worker |-> IF ProcessOf[w] = p THEN "none" ELSE result[w]]
    /\ UNCHANGED <<record, lineup, begun, phase, job, seen, called>>

Work(w) ==
    \/ ReadRecord(w) \/ ReadRaises(w) \/ MarkStarted(w) \/ CallProvider(w)
    \/ StageSuccess(w) \/ AttemptFails(w) \/ Commit(w) \/ CommitRaises(w) \/ Unlock(w)
    \/ CloseSession(w) \/ Persist(w) \/ Reread(w) \/ RecordFailure(w)
    \/ RecordRaises(w)

FLNext ==
    \/ \E m \in Match : Require(m)
    \/ \E w \in Worker : Work(w) \/ \E m \in Match : Start(w, m)
    \/ \E s \in Session \ Worker : OtherSession(s)
    \/ Fault
    \/ \E p \in Process : CrashReplica(p)

FLSpec == FLInit /\ [][FLNext]_allVars

-----------------------------------------------------------------------------
FLTypeOK ==
    /\ TypeOK
    /\ record \in [Match -> [state: {"NONE", "SUCCESS"} \cup Pending,
                             attempts: Nat]]
    /\ lineup \in SUBSET Match
    /\ begun \in [Match -> Nat]
    /\ pc \in [Worker -> {"idle", "locked", "begin", "status", "provider",
                          "commit", "release", "close", "persist"}]
    /\ phase \in [Worker -> {"attempt", "persist"}]
    /\ job \in [Worker -> Match]
    /\ seen \in [Worker -> Nat]
    /\ called \in [Worker -> BOOLEAN]
    /\ result \in [Worker -> {"none", "skipped", "failure", "unknown", "success"}]

\* A worker about to commit holds the attempt count the row has now: no other
\* worker, of any replica, has written it since it was read, so the absolute
\* value the ORM writes back loses no update.
NoLostUpdate ==
    \A w \in Worker :
        pc[w] \in {"begin", "status", "provider", "commit"} /\ w \notin failed
            => seen[w] = record[job[w]].attempts

\* A late failure of one worker never overwrites the success of another: once
\* SUCCESS, the row stays as it is.
SuccessIsFinal ==
    [][\A m \in Match : record[m].state = "SUCCESS" => record'[m] = record[m]]_record

\* attempt_count counts no attempt twice, and none that has not begun, whatever
\* its commit turned out to be and whoever writes its failure down.
AttemptsCountedOnce == \A m \in Match : record[m].attempts <= begun[m]

\* A worker that reports success left a SUCCESS row and the lineup behind it,
\* also when it learnt so only by reading the row again.
ReportedSuccess ==
    \A w \in Worker : result[w] = "success"
        => record[job[w]].state = "SUCCESS" /\ job[w] \in lineup

\* Whatever workers race, fail and find out late, each row goes through the fate
\* of a single worker's: asked for only while owed, one attempt counted at a
\* time, SUCCESS and lineup in one commit, and nothing after it.
RefinesLineupFate == Fate!Spec
=============================================================================
