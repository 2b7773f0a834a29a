---------------------------- MODULE ResourceLock ----------------------------
(***************************************************************************)
(* Session-level PostgreSQL advisory locks taken through a pooled          *)
(* SQLAlchemy session: app/services/resource_lock.py, the job locks of     *)
(* app/services/scheduler.py, over the engine of app/db/__init__.py.       *)
(*                                                                         *)
(* A database session checks a connection out of its process's pool at the *)
(* first statement of a transaction and gives it back at commit, rollback  *)
(* or close.  The advisory lock belongs to the CONNECTION and survives the *)
(* end of the transaction, so the handle a session keeps and the lock the  *)
(* server keeps can drift apart.  One action is one database statement or  *)
(* one end of transaction: the points where the code awaits.               *)
(***************************************************************************)
EXTENDS Naturals, FiniteSets

CONSTANTS Process,      \* replicas of the backend, each with its own pool
          Session,      \* database sessions of concurrent jobs and requests
          Conn,         \* connection slots: pool_size + max_overflow of each
          Resource,     \* lock identities (job keys and resource identities)
          ProcessOf,    \* the process of each session and connection slot
          PoolSize,     \* idle connections a pool keeps; the rest are closed
          MaxReentry,   \* bound: lock count one connection may reach
          None          \* no connection

ASSUME ResourceLockAssumption ==
    /\ IsFiniteSet(Session)
    /\ ProcessOf \in [Session \cup Conn -> Process]
    /\ PoolSize \in Nat
    /\ MaxReentry \in Nat
    /\ None \notin Conn

VARIABLES
    conn,     \* conn[s]: the connection session s has checked out, or None
    pooled,   \* open connections lying idle in their pool
    locks,    \* locks[c][r]: how often the server says c holds lock r
    failed,   \* sessions whose transaction is aborted or lost: statements raise
    held,     \* held[s]: handles s has acquired and not yet released
    fresh,    \* history: the part of held acquired in the current transaction
    torn      \* history: held resources whose lock vanished with a connection

vars == <<conn, pooled, locks, failed, held, fresh, torn>>

-----------------------------------------------------------------------------
Local(s) == {c \in Conn : ProcessOf[c] = ProcessOf[s]}

CheckedOut == {c \in Conn : \E s \in Session : conn[s] = c}

\* (Variant: a pool that hands out connections other sessions still use.)
AvailableShared(s) == IF conn[s] # None THEN {conn[s]} ELSE Local(s)

\* Where the next statement of s can run: the connection of its transaction;
\* otherwise an idle one of its pool; a new one only when none is idle.
Available(s) ==
    IF conn[s] # None THEN {conn[s]}
    ELSE IF pooled \cap Local(s) # {} THEN pooled \cap Local(s)
    ELSE Local(s) \ CheckedOut

Checkout(s, c) ==
    /\ c \in Available(s)
    /\ conn' = [conn EXCEPT ![s] = c]
    /\ pooled' = pooled \ {c}

NoLocks == [r \in Resource |-> 0]

\* (Variant: the try-lock forgets the other connections.)
LockedElsewhereNever(c, r) == FALSE

\* What pg_try_advisory_lock(r) finds on connection c: another one holds r.
LockedElsewhere(c, r) == \E d \in Conn \ {c} : locks[d][r] > 0

\* (Variants: pg_advisory_unlock_all, and a count that may go below zero.)
UnlockedAll(n) == 0
UnlockedBlindly(n) == n - 1

\* What pg_advisory_unlock makes of the count a connection has on the lock: at
\* zero it answers false and frees nothing.
Unlocked(n) == IF n > 0 THEN n - 1 ELSE 0

\* Locks the server frees when connections C close: held resources among them
\* become torn, and a torn resource is whole again once nobody holds it.
Tear(C) ==
    torn' = {r \in Resource : /\ r \in torn \/ \E c \in C : locks[c][r] > 0
                              /\ \E s \in Session : r \in held'[s]}

-----------------------------------------------------------------------------
Init ==
    /\ conn = [s \in Session |-> None]
    /\ pooled = {}
    /\ locks = [c \in Conn |-> NoLocks]
    /\ failed = {}
    /\ held = [s \in Session |-> {}]
    /\ fresh = [s \in Session |-> {}]
    /\ torn = {}

\* A statement of the operation itself: the first one of a transaction checks
\* a connection out, later ones change nothing this module looks at.
Statement(s) ==
    /\ conn[s] = None /\ s \notin failed
    /\ \E c \in Available(s) : Checkout(s, c)
    /\ UNCHANGED <<locks, failed, held, fresh, torn>>

\* pg_try_advisory_lock succeeds: no other connection holds r (the connection
\* itself may: the server then counts one more).
Acquire(s, r) ==
    /\ s \notin failed /\ r \notin held[s]
    /\ \E c \in Available(s) :
        /\ Checkout(s, c)
        /\ ~LockedElsewhere(c, r)
        /\ locks[c][r] < MaxReentry
        /\ locks' = [locks EXCEPT ![c][r] = @ + 1]
    /\ held' = [held EXCEPT ![s] = @ \cup {r}]
    /\ fresh' = [fresh EXCEPT ![s] = @ \cup {r}]
    /\ UNCHANGED <<failed, torn>>

\* pg_try_advisory_lock returns false: the caller gets None and skips its
\* operation, but its transaction stays open on the connection.
Conflict(s, r) ==
    /\ s \notin failed /\ r \notin held[s]
    /\ \E c \in Available(s) :
        /\ Checkout(s, c)
        /\ LockedElsewhere(c, r)
    /\ UNCHANGED <<locks, failed, held, fresh, torn>>

\* A statement raises: the server refuses every further one until rollback.
StatementFails(s) ==
    /\ conn[s] # None /\ s \notin failed
    /\ failed' = failed \cup {s}
    /\ UNCHANGED <<conn, pooled, locks, held, fresh, torn>>

\* commit, rollback or close: the connection goes back to its pool, or is
\* closed when the pool already keeps PoolSize idle ones.
EndTransaction(s) ==
    /\ conn[s] # None \/ s \in failed
    /\ conn' = [conn EXCEPT ![s] = None]
    /\ failed' = failed \ {s}
    /\ fresh' = [fresh EXCEPT ![s] = {}]
    /\ UNCHANGED held
    /\ IF conn[s] = None \/ Cardinality(pooled \cap Local(s)) < PoolSize
       THEN /\ pooled' = pooled \cup ({conn[s]} \ {None})
            /\ UNCHANGED <<locks, torn>>
       ELSE /\ locks' = [locks EXCEPT ![conn[s]] = NoLocks]
            /\ Tear({conn[s]})
            /\ UNCHANGED pooled

\* The finally block: pg_advisory_unlock on whatever connection the session
\* has by now.  It frees nothing when that connection does not hold r (the
\* server answers false, which nobody reads), and it raises, swallowed, when
\* the transaction is aborted or the pool has no connection to give.
Release(s, r) ==
    /\ r \in held[s]
    /\ held' = [held EXCEPT ![s] = @ \ {r}]
    /\ fresh' = [fresh EXCEPT ![s] = @ \ {r}]
    /\ \/ /\ s \notin failed
          /\ \E c \in Available(s) :
              /\ Checkout(s, c)
              /\ locks' = [locks EXCEPT ![c][r] = Unlocked(@)]
       \/ /\ s \in failed \/ Available(s) = {}
          /\ UNCHANGED <<conn, pooled, locks>>
    /\ Tear({})
    /\ UNCHANGED failed

\* An open connection dies (network, server restart): the server drops its
\* locks and a transaction running on it is lost.
LoseConnection(c) ==
    /\ c \in pooled \cup CheckedOut
    /\ conn' = [s \in Session |-> IF conn[s] = c THEN None ELSE conn[s]]
    /\ pooled' = pooled \ {c}
    /\ locks' = [locks EXCEPT ![c] = NoLocks]
    /\ failed' = failed \cup {s \in Session : conn[s] = c}
    /\ fresh' = [s \in Session |-> IF conn[s] = c THEN {} ELSE fresh[s]]
    /\ UNCHANGED held
    /\ Tear({c})

\* A replica dies: its connections close and its sessions are gone.
Crash(p) ==
    /\ conn' = [s \in Session |-> IF ProcessOf[s] = p THEN None ELSE conn[s]]
    /\ pooled' = {c \in pooled : ProcessOf[c] # p}
    /\ locks' = [c \in Conn |-> IF ProcessOf[c] = p THEN NoLocks ELSE locks[c]]
    /\ failed' = {s \in failed : ProcessOf[s] # p}
    /\ held' = [s \in Session |-> IF ProcessOf[s] = p THEN {} ELSE held[s]]
    /\ fresh' = [s \in Session |-> IF ProcessOf[s] = p THEN {} ELSE fresh[s]]
    /\ Tear({c \in Conn : ProcessOf[c] = p})

Next ==
    \/ \E s \in Session : Statement(s) \/ StatementFails(s) \/ EndTransaction(s)
    \/ \E s \in Session, r \in Resource :
          Acquire(s, r) \/ Conflict(s, r) \/ Release(s, r)
    \/ \E c \in Conn : LoseConnection(c)
    \/ \E p \in Process : Crash(p)

Spec == Init /\ [][Next]_vars

-----------------------------------------------------------------------------
TypeOK ==
    /\ conn \in [Session -> Conn \cup {None}]
    /\ pooled \in SUBSET Conn
    /\ locks \in [Conn -> [Resource -> Nat]]
    /\ failed \in SUBSET Session
    /\ held \in [Session -> SUBSET Resource]
    /\ fresh \in [Session -> SUBSET Resource]
    /\ torn \in SUBSET Resource

\* From acquire_resource_lock to the first commit or rollback after it no two
\* sessions, of any process, work on the same resource: this is the exclusion
\* the advisory lock really gives, whatever other sessions leak, lose or
\* release on connections they share.
FirstTransactionExclusion ==
    \A s, t \in Session : fresh[s] \cap fresh[t] # {} => s = t

\* Sessions of two replicas never hold a handle on the same resource at the
\* same time, even after commits have moved them to other connections, as
\* long as no connection was closed with the lock on it while it was in use.
CrossProcessExclusion ==
    \A r \in Resource \ torn : \A s, t \in Session :
        r \in held[s] \cap held[t] => ProcessOf[s] = ProcessOf[t]

\* The guarded part of every operation is a critical section: ResourceMutex.
Mutex == INSTANCE ResourceMutex WITH inside <- fresh
RefinesMutex == Mutex!Spec
=============================================================================
