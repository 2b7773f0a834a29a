-------------------------- MODULE FinalLineupProofs --------------------------
(***************************************************************************)
(* Proofs about ResourceLock and FinalLineup, which extends it.  First the *)
(* locks, for any number of replicas, sessions, connections and resources; *)
(* then the workers: they use the locks as ResourceLock describes them, so *)
(* the exclusion proved there carries over to the attempts.                *)
(***************************************************************************)
EXTENDS FinalLineup, FiniteSetTheorems, TLAPS

-----------------------------------------------------------------------------
(* The inductive invariant.                                                *)

\* A connection is checked out by one session at a time, is not idle then,
\* and belongs to that session's process.
PoolInv ==
    /\ \A s, t \in Session : conn[s] # None /\ conn[s] = conn[t] => s = t
    /\ \A s \in Session : conn[s] \notin pooled
    /\ \A s \in Session : conn[s] # None => ProcessOf[conn[s]] = ProcessOf[s]

\* The server grants a lock to one connection at a time.
UniqueLocker ==
    \A c, d \in Conn, r \in Resource :
        locks[c][r] > 0 /\ locks[d][r] > 0 => c = d

\* The lock of a resource acquired in the running transaction is still on the
\* connection of that transaction.
FreshBacked ==
    \A s \in Session : \A r \in fresh[s] :
        conn[s] # None /\ locks[conn[s]][r] > 0

Holders(r) == {s \in Session : r \in held[s]}

\* All handles on an untorn resource are counted on one connection, of the
\* process the handles belong to.
Counted(r) ==
    \E c \in Conn : /\ Cardinality(Holders(r)) <= locks[c][r]
                    /\ \A s \in Holders(r) : ProcessOf[s] = ProcessOf[c]

HeldCounted == \A r \in Resource \ torn : Holders(r) = {} \/ Counted(r)

IndInv == TypeOK /\ PoolInv /\ UniqueLocker /\ FreshBacked

-----------------------------------------------------------------------------
LEMMA TypeStep == TypeOK /\ [Next]_vars => TypeOK'
<1> USE ResourceLockAssumption DEF TypeOK
<1> SUFFICES ASSUME TypeOK, [Next]_vars PROVE TypeOK'
  OBVIOUS
<1>c. ASSUME NEW s \in Session, NEW c, c \in Available(s)
      PROVE  c \in Conn
  BY <1>c DEF Available, Local
<1>1. ASSUME NEW s \in Session, Statement(s) PROVE TypeOK'
  BY <1>1, <1>c DEF Statement, Checkout
<1>2. ASSUME NEW s \in Session, StatementFails(s) PROVE TypeOK'
  BY <1>2 DEF StatementFails
<1>3. ASSUME NEW s \in Session, EndTransaction(s) PROVE TypeOK'
  BY <1>3 DEF EndTransaction, NoLocks, Tear
<1>4. ASSUME NEW s \in Session, NEW r \in Resource, Acquire(s, r)
      PROVE  TypeOK'
  BY <1>4, <1>c DEF Acquire, Checkout
<1>5. ASSUME NEW s \in Session, NEW r \in Resource, Conflict(s, r)
      PROVE  TypeOK'
  BY <1>5, <1>c DEF Conflict, Checkout
<1>6. ASSUME NEW s \in Session, NEW r \in Resource, Release(s, r)
      PROVE  TypeOK'
  <2>1. ASSUME NEW c \in Conn PROVE Unlocked(locks[c][r]) \in Nat
    BY <2>1 DEF Unlocked
  <2>2. held' \in [Session -> SUBSET Resource]
        /\ fresh' \in [Session -> SUBSET Resource]
        /\ torn' \in SUBSET Resource
        /\ failed' \in SUBSET Session
    BY <1>6 DEF Release, Tear
  <2>3. CASE UNCHANGED <<conn, pooled, locks>>
    BY <2>2, <2>3
  <2>4. CASE \E c \in Available(s) :
               /\ Checkout(s, c)
               /\ locks' = [locks EXCEPT ![c][r] = Unlocked(@)]
    BY <2>1, <2>2, <2>4, <1>c DEF Checkout
  <2>5. QED
    BY <1>6, <2>3, <2>4 DEF Release
<1>7. ASSUME NEW c \in Conn, LoseConnection(c) PROVE TypeOK'
  BY <1>7 DEF LoseConnection, NoLocks, Tear
<1>8. ASSUME NEW p \in Process, Crash(p) PROVE TypeOK'
  BY <1>8 DEF Crash, NoLocks, Tear
<1>9. CASE UNCHANGED vars
  BY <1>9 DEF vars
<1>10. QED
  BY <1>1, <1>2, <1>3, <1>4, <1>5, <1>6, <1>7, <1>8, <1>9 DEF Next

(* Type correctness of every reachable state (resource_lock.py:36-89).     *)
THEOREM TypeCorrect == Spec => []TypeOK
<1>1. Init => TypeOK
  BY ResourceLockAssumption DEF Init, TypeOK, NoLocks
<1>2. QED
  BY <1>1, TypeStep, PTL DEF Spec

-----------------------------------------------------------------------------
(* Facts about a session taking its connection for a statement.            *)

LEMMA AvailableFacts ==
    ASSUME TypeOK, PoolInv, NEW s \in Session, NEW c \in Available(s)
    PROVE  /\ c \in Conn /\ c # None
           /\ ProcessOf[c] = ProcessOf[s]
           /\ conn[s] # None => c = conn[s]
           /\ \A t \in Session : conn[t] = c => t = s
BY ResourceLockAssumption DEF TypeOK, PoolInv, Available, Local, CheckedOut

LEMMA CheckoutPool ==
    ASSUME TypeOK, PoolInv, NEW s \in Session, NEW c \in Conn, Checkout(s, c)
    PROVE  PoolInv'
<1>1. /\ c # None /\ ProcessOf[c] = ProcessOf[s]
      /\ \A t \in Session : conn[t] = c => t = s
  BY AvailableFacts DEF Checkout
<1>2. \A t \in Session : conn'[t] = IF t = s THEN c ELSE conn[t]
  BY DEF Checkout, TypeOK
<1>3. pooled' = pooled \ {c}
  BY DEF Checkout
<1>4. QED
  BY <1>1, <1>2, <1>3 DEF PoolInv

\* A statement on the session's connection keeps its fresh handles backed.
LEMMA CheckoutFresh ==
    ASSUME TypeOK, PoolInv, FreshBacked,
           NEW s \in Session, NEW c \in Conn, Checkout(s, c)
    PROVE  \A t \in Session : \A r \in fresh[t] :
               /\ conn'[t] = conn[t] /\ conn'[t] # None
               /\ locks[conn'[t]][r] > 0
               /\ t # s => conn'[t] # c
               /\ t = s => conn'[t] = c
<1>1. /\ conn[s] # None => c = conn[s]
      /\ \A t \in Session : conn[t] = c => t = s
  BY AvailableFacts DEF Checkout
<1>2. \A t \in Session : conn'[t] = IF t = s THEN c ELSE conn[t]
  BY DEF Checkout, TypeOK
<1>3. QED
  BY <1>1, <1>2 DEF FreshBacked

-----------------------------------------------------------------------------
LEMMA IndInvInit == Init => IndInv
<1>1. Init => TypeOK
  BY ResourceLockAssumption DEF Init, TypeOK, NoLocks
<1>2. Init => PoolInv
  BY DEF Init, PoolInv
<1>3. Init => UniqueLocker
  BY DEF Init, UniqueLocker, NoLocks
<1>4. Init => FreshBacked
  BY DEF Init, FreshBacked
<1>5. QED
  BY <1>1, <1>2, <1>3, <1>4 DEF IndInv

LEMMA IndInvStep == IndInv /\ TypeOK' /\ [Next]_vars => IndInv'
<1> SUFFICES ASSUME TypeOK, PoolInv, UniqueLocker, FreshBacked, TypeOK',
                    [Next]_vars
             PROVE  PoolInv' /\ UniqueLocker' /\ FreshBacked'
  BY DEF IndInv
<1> USE ResourceLockAssumption
<1>1. ASSUME NEW s \in Session, Statement(s)
      PROVE  PoolInv' /\ UniqueLocker' /\ FreshBacked'
  <2>1. PICK c \in Available(s) : Checkout(s, c)
    BY <1>1 DEF Statement
  <2>2. c \in Conn
    BY AvailableFacts
  <2>3. UNCHANGED <<locks, fresh>>
    BY <1>1 DEF Statement
  <2>4. PoolInv'
    BY <2>1, <2>2, CheckoutPool
  <2>5. UniqueLocker'
    BY <2>3 DEF UniqueLocker
  <2>6. FreshBacked'
    BY <2>1, <2>2, <2>3, CheckoutFresh DEF FreshBacked
  <2>7. QED
    BY <2>4, <2>5, <2>6
<1>2. ASSUME NEW s \in Session, StatementFails(s)
      PROVE  PoolInv' /\ UniqueLocker' /\ FreshBacked'
  BY <1>2 DEF StatementFails, PoolInv, UniqueLocker, FreshBacked
<1>3. ASSUME NEW s \in Session, EndTransaction(s)
      PROVE  PoolInv' /\ UniqueLocker' /\ FreshBacked'
  <2>1. \A t \in Session : /\ conn'[t] = IF t = s THEN None ELSE conn[t]
                           /\ fresh'[t] = IF t = s THEN {} ELSE fresh[t]
    BY <1>3 DEF EndTransaction, TypeOK
  <2>2. pooled' \subseteq pooled \cup ({conn[s]} \ {None})
    BY <1>3 DEF EndTransaction
  <2>3. \A c \in Conn, r \in Resource :
           /\ locks'[c][r] \in {0, locks[c][r]}
           /\ c # conn[s] => locks'[c][r] = locks[c][r]
    BY <1>3 DEF EndTransaction, NoLocks, TypeOK
  <2>4. PoolInv'
    BY <2>1, <2>2 DEF PoolInv, TypeOK
  <2>5. UniqueLocker'
    BY <2>3 DEF UniqueLocker, TypeOK
  <2>6. FreshBacked'
    <3> SUFFICES ASSUME NEW t \in Session, NEW r \in fresh'[t]
                 PROVE  conn'[t] # None /\ locks'[conn'[t]][r] > 0
      BY DEF FreshBacked
    <3>1. t # s /\ conn'[t] = conn[t] /\ r \in fresh[t]
      BY <2>1
    <3>2. conn[t] # None /\ conn[t] # conn[s] /\ locks[conn[t]][r] > 0
      BY <3>1 DEF FreshBacked, PoolInv
    <3>3. conn[t] \in Conn /\ r \in Resource
      BY <3>1, <3>2 DEF TypeOK
    <3>4. QED
      BY <3>1, <3>2, <3>3, <2>3
  <2>7. QED
    BY <2>4, <2>5, <2>6
<1>4. ASSUME NEW s \in Session, NEW r \in Resource, Acquire(s, r)
      PROVE  PoolInv' /\ UniqueLocker' /\ FreshBacked'
  <2>1. PICK c \in Available(s) :
           /\ Checkout(s, c)
           /\ ~LockedElsewhere(c, r)
           /\ locks' = [locks EXCEPT ![c][r] = @ + 1]
    BY <1>4 DEF Acquire
  <2>2. c \in Conn
    BY AvailableFacts
  <2>3. \A d \in Conn, q \in Resource :
           locks'[d][q] = IF d = c /\ q = r THEN locks[d][q] + 1
                                            ELSE locks[d][q]
    BY <2>1, <2>2 DEF TypeOK
  <2>4. \A t \in Session :
           fresh'[t] = IF t = s THEN fresh[t] \cup {r} ELSE fresh[t]
    BY <1>4 DEF Acquire, TypeOK
  <2>5. PoolInv'
    BY <2>1, <2>2, CheckoutPool
  <2>6. UniqueLocker'
    BY <2>1, <2>2, <2>3 DEF UniqueLocker, LockedElsewhere, TypeOK
  <2>7. FreshBacked'
    <3> SUFFICES ASSUME NEW t \in Session, NEW q \in fresh'[t]
                 PROVE  conn'[t] # None /\ locks'[conn'[t]][q] > 0
      BY DEF FreshBacked
    <3>1. CASE q \in fresh[t]
      <4>1. conn'[t] # None /\ locks[conn'[t]][q] > 0
        BY <3>1, <2>1, <2>2, CheckoutFresh
      <4>2. conn'[t] \in Conn /\ q \in Resource
        BY <4>1, <3>1 DEF TypeOK
      <4>3. QED
        BY <4>1, <4>2, <2>3 DEF TypeOK
    <3>2. CASE t = s /\ q = r
      <4>1. conn'[t] = c /\ c # None
        BY <3>2, <2>1, <2>2, AvailableFacts DEF Checkout, TypeOK
      <4>2. QED
        BY <4>1, <3>2, <2>2, <2>3 DEF TypeOK
    <3>3. QED
      BY <3>1, <3>2, <2>4
  <2>8. QED
    BY <2>5, <2>6, <2>7
<1>5. ASSUME NEW s \in Session, NEW r \in Resource, Conflict(s, r)
      PROVE  PoolInv' /\ UniqueLocker' /\ FreshBacked'
  <2>1. PICK c \in Available(s) : Checkout(s, c)
    BY <1>5 DEF Conflict
  <2>2. c \in Conn
    BY AvailableFacts
  <2>3. UNCHANGED <<locks, fresh>>
    BY <1>5 DEF Conflict
  <2>4. PoolInv'
    BY <2>1, <2>2, CheckoutPool
  <2>5. UniqueLocker'
    BY <2>3 DEF UniqueLocker
  <2>6. FreshBacked'
    BY <2>1, <2>2, <2>3, CheckoutFresh DEF FreshBacked
  <2>7. QED
    BY <2>4, <2>5, <2>6
<1>6. ASSUME NEW s \in Session, NEW r \in Resource, Release(s, r)
      PROVE  PoolInv' /\ UniqueLocker' /\ FreshBacked'
  <2>1. \A t \in Session :
           fresh'[t] = IF t = s THEN fresh[t] \ {r} ELSE fresh[t]
    BY <1>6 DEF Release, TypeOK
  <2>2. CASE UNCHANGED <<conn, pooled, locks>>
    <3>1. PoolInv' /\ UniqueLocker'
      BY <2>2 DEF PoolInv, UniqueLocker
    <3>2. \A t \in Session : fresh'[t] \subseteq fresh[t]
      BY <2>1
    <3>3. FreshBacked'
      BY <2>2, <3>2 DEF FreshBacked
    <3>4. QED
      BY <3>1, <3>3
  <2>3. ASSUME NEW c \in Available(s), Checkout(s, c),
               locks' = [locks EXCEPT ![c][r] = Unlocked(@)]
        PROVE  PoolInv' /\ UniqueLocker' /\ FreshBacked'
    <3>1. c \in Conn
      BY AvailableFacts
    <3>2. \A d \in Conn, q \in Resource :
             /\ ~(d = c /\ q = r) => locks'[d][q] = locks[d][q]
             /\ locks'[d][q] > 0 => locks[d][q] > 0
      BY <2>3, <3>1 DEF Unlocked, TypeOK
    <3>3. PoolInv'
      BY <2>3, <3>1, CheckoutPool
    <3>4. UniqueLocker'
      BY <3>2 DEF UniqueLocker
    <3>5. FreshBacked'
      <4> SUFFICES ASSUME NEW t \in Session, NEW q \in fresh'[t]
                   PROVE  conn'[t] # None /\ locks'[conn'[t]][q] > 0
        BY DEF FreshBacked
      <4>1. q \in fresh[t] /\ (t = s => q # r)
        BY <2>1
      <4>2. /\ conn'[t] # None /\ locks[conn'[t]][q] > 0
            /\ t # s => conn'[t] # c
        BY <4>1, <2>3, <3>1, CheckoutFresh
      <4>3. conn'[t] \in Conn /\ q \in Resource
        BY <4>1, <4>2 DEF TypeOK
      <4>4. QED
        BY <4>1, <4>2, <4>3, <3>2
    <3>6. QED
      BY <3>3, <3>4, <3>5
  <2>4. QED
    BY <1>6, <2>2, <2>3 DEF Release
<1>7. ASSUME NEW c \in Conn, LoseConnection(c)
      PROVE  PoolInv' /\ UniqueLocker' /\ FreshBacked'
  <2>1. \A t \in Session :
           /\ conn'[t] = IF conn[t] = c THEN None ELSE conn[t]
           /\ fresh'[t] = IF conn[t] = c THEN {} ELSE fresh[t]
    BY <1>7 DEF LoseConnection
  <2>2. pooled' \subseteq pooled
    BY <1>7 DEF LoseConnection
  <2>3. \A d \in Conn, r \in Resource :
           locks'[d][r] = IF d = c THEN 0 ELSE locks[d][r]
    BY <1>7 DEF LoseConnection, NoLocks, TypeOK
  <2>4. PoolInv'
    BY <2>1, <2>2 DEF PoolInv, TypeOK
  <2>5. UniqueLocker'
    BY <2>3 DEF UniqueLocker
  <2>6. FreshBacked'
    <3> SUFFICES ASSUME NEW t \in Session, NEW r \in fresh'[t]
                 PROVE  conn'[t] # None /\ locks'[conn'[t]][r] > 0
      BY DEF FreshBacked
    <3>1. conn[t] # c /\ conn'[t] = conn[t] /\ r \in fresh[t]
      BY <2>1
    <3>2. conn[t] # None /\ locks[conn[t]][r] > 0
      BY <3>1 DEF FreshBacked
    <3>3. conn[t] \in Conn /\ r \in Resource
      BY <3>1, <3>2 DEF TypeOK
    <3>4. QED
      BY <3>1, <3>2, <3>3, <2>3
  <2>7. QED
    BY <2>4, <2>5, <2>6
<1>8. ASSUME NEW p \in Process, Crash(p)
      PROVE  PoolInv' /\ UniqueLocker' /\ FreshBacked'
  <2>1. \A t \in Session :
           /\ conn'[t] = IF ProcessOf[t] = p THEN None ELSE conn[t]
           /\ fresh'[t] = IF ProcessOf[t] = p THEN {} ELSE fresh[t]
    BY <1>8 DEF Crash
  <2>2. pooled' \subseteq pooled
    BY <1>8 DEF Crash
  <2>3. \A d \in Conn, r \in Resource :
           locks'[d][r] = IF ProcessOf[d] = p THEN 0 ELSE locks[d][r]
    BY <1>8 DEF Crash, NoLocks, TypeOK
  <2>4. PoolInv'
    BY <2>1, <2>2 DEF PoolInv, TypeOK
  <2>5. UniqueLocker'
    BY <2>3 DEF UniqueLocker
  <2>6. FreshBacked'
    <3> SUFFICES ASSUME NEW t \in Session, NEW r \in fresh'[t]
                 PROVE  conn'[t] # None /\ locks'[conn'[t]][r] > 0
      BY DEF FreshBacked
    <3>1. ProcessOf[t] # p /\ conn'[t] = conn[t] /\ r \in fresh[t]
      BY <2>1
    <3>2. conn[t] # None /\ ProcessOf[conn[t]] # p /\ locks[conn[t]][r] > 0
      BY <3>1 DEF FreshBacked, PoolInv
    <3>3. conn[t] \in Conn /\ r \in Resource
      BY <3>1, <3>2 DEF TypeOK
    <3>4. QED
      BY <3>1, <3>2, <3>3, <2>3
  <2>7. QED
    BY <2>4, <2>5, <2>6
<1>9. CASE UNCHANGED vars
  BY <1>9 DEF vars, PoolInv, UniqueLocker, FreshBacked
<1>10. QED
  BY <1>1, <1>2, <1>3, <1>4, <1>5, <1>6, <1>7, <1>8, <1>9 DEF Next

THEOREM IndInvHolds == Spec => []IndInv
<1>1. Spec => []TypeOK
  BY TypeCorrect
<1>2. QED
  BY <1>1, IndInvInit, IndInvStep, PTL DEF Spec

\* Two backed handles on one resource sit on one connection, which only one
\* session has checked out.
LEMMA BackedExclusive == IndInv => FirstTransactionExclusion
<1> SUFFICES ASSUME IndInv, NEW s \in Session, NEW t \in Session,
                    NEW r, r \in fresh[s] \cap fresh[t]
             PROVE  s = t
  BY DEF FirstTransactionExclusion
<1>1. /\ conn[s] # None /\ locks[conn[s]][r] > 0
      /\ conn[t] # None /\ locks[conn[t]][r] > 0
  BY DEF IndInv, FreshBacked
<1>2. conn[s] \in Conn /\ conn[t] \in Conn /\ r \in Resource
  BY <1>1 DEF IndInv, TypeOK
<1>3. conn[s] = conn[t]
  BY <1>1, <1>2 DEF IndInv, UniqueLocker
<1>4. QED
  BY <1>1, <1>3 DEF IndInv, PoolInv

(* From acquire_resource_lock to the first commit or rollback no two       *)
(* sessions work on the same resource, for any pool sizes and any number   *)
(* of replicas.                                                            *)
THEOREM FirstTransactionExclusionHolds == Spec => []FirstTransactionExclusion
BY IndInvHolds, BackedExclusive, PTL

-----------------------------------------------------------------------------
(* Refinement of ResourceMutex.                                            *)

\* Fresh handles are handles.
FreshHeld == \A s \in Session : fresh[s] \subseteq held[s]

LEMMA FreshHeldHolds == Spec => []FreshHeld
<1>1. Init => FreshHeld
  BY DEF Init, FreshHeld
<1>2. TypeOK /\ FreshHeld /\ [Next]_vars => FreshHeld'
  <2> SUFFICES ASSUME TypeOK, FreshHeld, [Next]_vars PROVE FreshHeld'
    OBVIOUS
  <2>1. ASSUME NEW s \in Session,
               Statement(s) \/ StatementFails(s) \/ EndTransaction(s)
        PROVE  FreshHeld'
    BY <2>1 DEF Statement, StatementFails, EndTransaction, FreshHeld, TypeOK
  <2>2. ASSUME NEW s \in Session, NEW r \in Resource,
               Acquire(s, r) \/ Conflict(s, r) \/ Release(s, r)
        PROVE  FreshHeld'
    BY <2>2 DEF Acquire, Conflict, Release, FreshHeld, TypeOK
  <2>3. ASSUME NEW c \in Conn, LoseConnection(c) PROVE FreshHeld'
    BY <2>3 DEF LoseConnection, FreshHeld
  <2>4. ASSUME NEW p \in Process, Crash(p) PROVE FreshHeld'
    BY <2>4 DEF Crash, FreshHeld
  <2>5. CASE UNCHANGED vars
    BY <2>5 DEF vars, FreshHeld
  <2>6. QED
    BY <2>1, <2>2, <2>3, <2>4, <2>5 DEF Next
<1>3. QED
  BY <1>1, <1>2, TypeCorrect, PTL DEF Spec

\* An acquisition enters a resource no fresh handle covers.
LEMMA AcquireEnters ==
    ASSUME IndInv, FreshHeld, NEW s \in Session, NEW r \in Resource,
           Acquire(s, r)
    PROVE  Mutex!Enter(s, r)
<1>1. PICK c \in Available(s) : ~LockedElsewhere(c, r)
  BY DEF Acquire
<1>2. ASSUME NEW t \in Session, r \in fresh[t] PROVE FALSE
  <2>1. conn[t] \in Conn /\ locks[conn[t]][r] > 0
    BY <1>2 DEF IndInv, FreshBacked, TypeOK
  <2>2. conn[t] = c
    BY <1>1, <2>1 DEF LockedElsewhere
  <2>3. t = s
    BY <2>2, AvailableFacts DEF IndInv
  <2>4. QED
    BY <1>2, <2>3 DEF FreshHeld, Acquire
<1>3. QED
  BY <1>2 DEF Acquire, Mutex!Enter

LEMMA StepRefines == IndInv /\ FreshHeld /\ TypeOK' /\ [Next]_vars => [Mutex!Next]_fresh
<1> SUFFICES ASSUME IndInv, FreshHeld, TypeOK', [Next]_vars
             PROVE  [Mutex!Next]_fresh
  OBVIOUS
<1>1. ASSUME NEW s \in Session, Statement(s) \/ StatementFails(s)
      PROVE  UNCHANGED fresh
  BY <1>1 DEF Statement, StatementFails
<1>2. ASSUME NEW s \in Session, EndTransaction(s) PROVE Mutex!Leave
  BY <1>2 DEF EndTransaction, Mutex!Leave, TypeOK, IndInv
<1>3. ASSUME NEW s \in Session, NEW r \in Resource, Acquire(s, r)
      PROVE  Mutex!Next
  BY <1>3, AcquireEnters DEF Mutex!Next
<1>4. ASSUME NEW s \in Session, NEW r \in Resource, Conflict(s, r)
      PROVE  UNCHANGED fresh
  BY <1>4 DEF Conflict
<1>5. ASSUME NEW s \in Session, NEW r \in Resource, Release(s, r)
      PROVE  Mutex!Leave
  BY <1>5 DEF Release, Mutex!Leave, TypeOK, IndInv
<1>6. ASSUME NEW c \in Conn, LoseConnection(c) PROVE Mutex!Leave
  BY <1>6 DEF LoseConnection, Mutex!Leave, TypeOK, IndInv
<1>7. ASSUME NEW p \in Process, Crash(p) PROVE Mutex!Leave
  BY <1>7 DEF Crash, Mutex!Leave, TypeOK, IndInv
<1>8. CASE UNCHANGED vars
  BY <1>8 DEF vars
<1>9. QED
  BY <1>1, <1>2, <1>3, <1>4, <1>5, <1>6, <1>7, <1>8 DEF Next, Mutex!Next

(* The part of every locked operation before its first commit is a         *)
(* critical section: the advisory-lock protocol implements ResourceMutex.  *)
THEOREM ImplementsMutex == Spec => RefinesMutex
<1>1. Init => Mutex!Init
  BY DEF Init, Mutex!Init
<1>2. IndInv => TypeOK
  BY DEF IndInv
<1>3. QED
  BY <1>1, <1>2, IndInvHolds, FreshHeldHolds, StepRefines, PTL
  DEF Spec, RefinesMutex, Mutex!Spec

-----------------------------------------------------------------------------
(* Exclusion between replicas.                                             *)

\* Removing or adding one holder moves the count by one.
LEMMA HoldersStep ==
    ASSUME TypeOK, NEW s \in Session, NEW r \in Resource
    PROVE  /\ IsFiniteSet(Holders(r)) /\ Cardinality(Holders(r)) \in Nat
           /\ s \notin Holders(r) =>
                Cardinality(Holders(r) \cup {s}) = Cardinality(Holders(r)) + 1
           /\ s \in Holders(r) =>
                Cardinality(Holders(r) \ {s}) = Cardinality(Holders(r)) - 1
           /\ Holders(r) # {} => Cardinality(Holders(r)) > 0
<1>1. IsFiniteSet(Holders(r))
  BY ResourceLockAssumption, FS_Subset DEF Holders
<1>2. Cardinality(Holders(r)) \in Nat
  BY <1>1, FS_CardinalityType
<1>3. ASSUME s \notin Holders(r)
      PROVE  Cardinality(Holders(r) \cup {s}) = Cardinality(Holders(r)) + 1
  BY <1>1, <1>3, FS_AddElement
<1>4. ASSUME s \in Holders(r)
      PROVE  Cardinality(Holders(r) \ {s}) = Cardinality(Holders(r)) - 1
  BY <1>1, <1>4, FS_RemoveElement
<1>5. Holders(r) # {} => Cardinality(Holders(r)) > 0
  BY <1>1, <1>2, FS_EmptySet
<1>6. QED
  BY <1>1, <1>2, <1>3, <1>4, <1>5

\* Closing connections C keeps every other connection's counts, and tears
\* the resources that lose theirs.
LEMMA CloseCounted ==
    ASSUME TypeOK, HeldCounted, NEW C \in SUBSET Conn, Tear(C),
           \A d \in Conn \ C : locks'[d] = locks[d],
           \A r \in Resource : Holders(r)' \subseteq Holders(r),
           TypeOK'
    PROVE  HeldCounted'
<1> SUFFICES ASSUME NEW r \in Resource, r \notin torn', Holders(r)' # {}
             PROVE  Counted(r)'
  BY DEF HeldCounted
<1>1. PICK s \in Session : s \in Holders(r)'
  BY DEF Holders
<1>2. r \notin torn /\ \A c \in C : ~(locks[c][r] > 0)
  BY <1>1 DEF Tear, Holders
<1>3. s \in Holders(r) /\ Holders(r) # {}
  BY <1>1
<1>4. PICK c \in Conn : /\ Cardinality(Holders(r)) <= locks[c][r]
                        /\ \A t \in Holders(r) : ProcessOf[t] = ProcessOf[c]
  BY <1>2, <1>3 DEF HeldCounted, Counted
<1>5. Cardinality(Holders(r)) > 0 /\ Cardinality(Holders(r)) \in Nat
  BY <1>3, HoldersStep
<1>6. c \notin C
  BY <1>2, <1>4, <1>5 DEF TypeOK
<1>7. locks'[c][r] = locks[c][r]
  BY <1>6
<1>8. Cardinality(Holders(r)') <= Cardinality(Holders(r))
      /\ Cardinality(Holders(r)') \in Nat
  <2>1. IsFiniteSet(Holders(r))
    BY <1>3, HoldersStep
  <2>2. QED
    BY <2>1, FS_Subset, FS_CardinalityType
<1>9. Cardinality(Holders(r)') <= locks'[c][r]
  BY <1>4, <1>5, <1>7, <1>8 DEF TypeOK
<1>10. QED
  BY <1>4, <1>9 DEF Counted

LEMMA HeldCountedStep ==
    IndInv /\ TypeOK' /\ HeldCounted /\ [Next]_vars => HeldCounted'
<1> SUFFICES ASSUME IndInv, TypeOK', HeldCounted, [Next]_vars
             PROVE  HeldCounted'
  OBVIOUS
<1> USE ResourceLockAssumption
<1>t. TypeOK /\ PoolInv /\ UniqueLocker
  BY DEF IndInv
<1>u. ASSUME UNCHANGED <<locks, held, torn>> PROVE HeldCounted'
  BY <1>u DEF HeldCounted, Counted, Holders
<1>1. ASSUME NEW s \in Session, Statement(s) \/ StatementFails(s)
      PROVE  HeldCounted'
  BY <1>1, <1>u DEF Statement, StatementFails
<1>2. ASSUME NEW s \in Session, EndTransaction(s) PROVE HeldCounted'
  <2>1. CASE UNCHANGED <<locks, torn>>
    BY <1>2, <2>1, <1>u DEF EndTransaction
  <2>2. CASE /\ conn[s] # None
             /\ locks' = [locks EXCEPT ![conn[s]] = NoLocks]
             /\ Tear({conn[s]})
    <3>1. conn[s] \in Conn
      BY <1>t, <2>2 DEF TypeOK
    <3>2. \A d \in Conn \ {conn[s]} : locks'[d] = locks[d]
      BY <1>t, <2>2, <3>1 DEF TypeOK
    <3>3. \A r \in Resource : Holders(r)' = Holders(r)
      BY <1>2 DEF EndTransaction, Holders
    <3>4. QED
      BY <1>t, <2>2, <3>1, <3>2, <3>3, CloseCounted
  <2>3. QED
    BY <1>2, <2>1, <2>2 DEF EndTransaction
<1>3. ASSUME NEW s \in Session, NEW r \in Resource, Acquire(s, r)
      PROVE  HeldCounted'
  <2>1. PICK c \in Available(s) :
           /\ ~LockedElsewhere(c, r)
           /\ locks' = [locks EXCEPT ![c][r] = @ + 1]
    BY <1>3 DEF Acquire
  <2>2. c \in Conn /\ ProcessOf[c] = ProcessOf[s]
    BY <1>t, AvailableFacts
  <2>3. \A d \in Conn, q \in Resource :
           locks'[d][q] = IF d = c /\ q = r THEN locks[d][q] + 1
                                            ELSE locks[d][q]
    BY <1>t, <2>1, <2>2 DEF TypeOK
  <2>4. /\ s \notin Holders(r) /\ Holders(r)' = Holders(r) \cup {s}
        /\ \A q \in Resource \ {r} : Holders(q)' = Holders(q)
        /\ torn' = torn
    BY <1>3, <1>t DEF Acquire, Holders, TypeOK
  <2>5. SUFFICES ASSUME NEW q \in Resource, q \notin torn
                 PROVE  (Holders(q) = {} \/ Counted(q))'
    BY <2>4 DEF HeldCounted
  <2>6. CASE q # r
    BY <2>3, <2>4, <2>5, <2>6 DEF HeldCounted, Counted
  <2>7. CASE q = r
    <3>1. Cardinality(Holders(r)) <= locks[c][r]
          /\ \A t \in Holders(r) : ProcessOf[t] = ProcessOf[c]
      <4>1. CASE Holders(r) = {}
        BY <4>1, <1>t, <2>2, FS_EmptySet DEF TypeOK
      <4>2. CASE Holders(r) # {}
        <5>1. PICK d \in Conn :
                 /\ Cardinality(Holders(r)) <= locks[d][r]
                 /\ \A t \in Holders(r) : ProcessOf[t] = ProcessOf[d]
          BY <2>5, <2>7, <4>2 DEF HeldCounted, Counted
        <5>2. Cardinality(Holders(r)) > 0 /\ Cardinality(Holders(r)) \in Nat
          BY <4>2, <1>t, HoldersStep
        <5>3. d = c
          BY <5>1, <5>2, <1>t, <2>1 DEF LockedElsewhere, TypeOK
        <5>4. QED
          BY <5>1, <5>3
      <4>3. QED
        BY <4>1, <4>2
    <3>2. Cardinality(Holders(r)') = Cardinality(Holders(r)) + 1
          /\ Cardinality(Holders(r)) \in Nat
      BY <1>t, <2>4, HoldersStep
    <3>3. Cardinality(Holders(r)') <= locks'[c][r]
      BY <3>1, <3>2, <2>2, <2>3, <1>t DEF TypeOK
    <3>4. QED
      BY <2>2, <2>4, <2>7, <3>1, <3>3 DEF Counted
  <2>8. QED
    BY <2>6, <2>7
<1>4. ASSUME NEW s \in Session, NEW r \in Resource, Conflict(s, r)
      PROVE  HeldCounted'
  BY <1>4, <1>u DEF Conflict
<1>5. ASSUME NEW s \in Session, NEW r \in Resource, Release(s, r)
      PROVE  HeldCounted'
  <2>1. /\ s \in Holders(r) /\ Holders(r)' = Holders(r) \ {s}
        /\ \A q \in Resource \ {r} : Holders(q)' = Holders(q)
    BY <1>5, <1>t DEF Release, Holders, TypeOK
  <2>2. SUFFICES ASSUME NEW q \in Resource, q \notin torn', Holders(q)' # {}
                 PROVE  Counted(q)'
    BY DEF HeldCounted
  <2>3. q \notin torn /\ Holders(q) # {}
    <3>1. \E t \in Session : q \in held'[t]
      BY <2>2 DEF Holders
    <3>2. QED
      BY <1>5, <2>1, <2>2, <3>1 DEF Release, Tear
  <2>4. PICK c \in Conn : /\ Cardinality(Holders(q)) <= locks[c][q]
                          /\ \A t \in Holders(q) : ProcessOf[t] = ProcessOf[c]
    BY <2>3 DEF HeldCounted, Counted
  <2>5. /\ locks'[c][q] \in {locks[c][q], locks[c][q] - 1}
        /\ q # r => locks'[c][q] = locks[c][q]
    <3>1. CASE UNCHANGED locks
      BY <3>1
    <3>2. ASSUME NEW d \in Available(s),
                 locks' = [locks EXCEPT ![d][r] = Unlocked(@)]
          PROVE  /\ locks'[c][q] \in {locks[c][q], locks[c][q] - 1}
                 /\ q # r => locks'[c][q] = locks[c][q]
      <4>1. d \in Conn
        BY <1>t, AvailableFacts
      <4>2. locks'[c][q] = IF c = d /\ q = r THEN Unlocked(locks[c][q])
                                             ELSE locks[c][q]
        BY <3>2, <4>1, <1>t DEF TypeOK
      <4>3. locks[c][q] \in Nat
        BY <1>t DEF TypeOK
      <4>4. Unlocked(locks[c][q]) \in {locks[c][q], locks[c][q] - 1}
        BY <4>3 DEF Unlocked
      <4>5. QED
        BY <4>2, <4>4
    <3>3. QED
      BY <1>5, <3>1, <3>2 DEF Release
  <2>6. /\ Cardinality(Holders(q)) \in Nat
        /\ q = r => Cardinality(Holders(q)') = Cardinality(Holders(q)) - 1
        /\ q # r => Holders(q)' = Holders(q)
    <3>1. Cardinality(Holders(q)) \in Nat
      BY <1>t, HoldersStep
    <3>2. Cardinality(Holders(r) \ {s}) = Cardinality(Holders(r)) - 1
      BY <1>t, <2>1, HoldersStep
    <3>3. QED
      BY <2>1, <3>1, <3>2
  <2>7. Cardinality(Holders(q)') <= locks'[c][q]
    <3>1. locks[c][q] \in Nat
      BY <1>t DEF TypeOK
    <3>2. QED
      BY <3>1, <2>4, <2>5, <2>6
  <2>8. Holders(q)' \subseteq Holders(q)
    BY <2>1
  <2>9. QED
    BY <2>4, <2>7, <2>8 DEF Counted
<1>6. ASSUME NEW c \in Conn, LoseConnection(c) PROVE HeldCounted'
  <2>1. Tear({c})
    BY <1>6 DEF LoseConnection
  <2>2. \A d \in Conn \ {c} : locks'[d] = locks[d]
    BY <1>6, <1>t DEF LoseConnection, TypeOK
  <2>3. \A r \in Resource : Holders(r)' = Holders(r)
    BY <1>6 DEF LoseConnection, Holders
  <2>4. QED
    BY <1>t, <2>1, <2>2, <2>3, CloseCounted
<1>7. ASSUME NEW p \in Process, Crash(p) PROVE HeldCounted'
  <2> DEFINE C == {c \in Conn : ProcessOf[c] = p}
  <2>1. Tear(C)
    BY <1>7 DEF Crash
  <2>2. \A d \in Conn \ C : locks'[d] = locks[d]
    BY <1>7, <1>t DEF Crash, TypeOK
  <2>3. \A r \in Resource : Holders(r)' \subseteq Holders(r)
    BY <1>7 DEF Crash, Holders
  <2>4. C \in SUBSET Conn
    OBVIOUS
  <2> HIDE DEF C
  <2>5. QED
    BY <1>t, <2>1, <2>2, <2>3, <2>4, CloseCounted
<1>8. CASE UNCHANGED vars
  BY <1>8, <1>u DEF vars
<1>9. QED
  BY <1>1, <1>2, <1>3, <1>4, <1>5, <1>6, <1>7, <1>8 DEF Next

(* Two replicas never hold a handle on one resource together unless a      *)
(* connection was closed with the lock on it while it was in use: commits, *)
(* leaked locks, misdirected releases and crashes of other replicas do not *)
(* break it.                                                               *)
THEOREM CrossProcessExclusionHolds == Spec => []CrossProcessExclusion
<1>1. Init => HeldCounted
  BY DEF Init, HeldCounted, Holders
<1>2. HeldCounted => CrossProcessExclusion
  BY DEF HeldCounted, Counted, Holders, CrossProcessExclusion
<1>3. IndInv => TypeOK
  BY DEF IndInv
<1>4. QED
  BY <1>1, <1>2, <1>3, IndInvHolds, HeldCountedStep, PTL DEF Spec

-----------------------------------------------------------------------------
(* Every step of the workers is a step of the lock protocol or leaves the  *)
(* locks and connections alone.                                            *)
LEMMA StepUsesLocks == FLTypeOK /\ [FLNext]_allVars => [Next]_vars
<1> SUFFICES ASSUME FLTypeOK, [FLNext]_allVars PROVE [Next]_vars
  OBVIOUS
<1> USE FinalLineupAssumption DEF Match
<1>l. ASSUME NEW s \in Session, Faults, LoseConnection(conn[s])
      PROVE  Next
  <2>1. conn[s] \in Conn
    BY <1>l, ResourceLockAssumption DEF LoseConnection, CheckedOut, FLTypeOK, TypeOK
  <2>2. QED
    BY <1>l, <2>1 DEF Next
<1>1. ASSUME NEW m \in Match, Require(m) PROVE UNCHANGED vars
  BY <1>1 DEF Require, vars
<1>2. ASSUME NEW w \in Worker, NEW m \in Match, Start(w, m) PROVE Next
  BY <1>2 DEF Start, Next
<1>3. ASSUME NEW w \in Worker,
             ReadRecord(w) \/ ReadRaises(w) \/ MarkStarted(w) \/ CallProvider(w)
                \/ StageSuccess(w) \/ Reread(w)
      PROVE  UNCHANGED vars
  BY <1>3 DEF ReadRecord, ReadRaises, MarkStarted, CallProvider, StageSuccess, Reread, vars
<1>4. ASSUME NEW w \in Worker, AttemptFails(w) \/ Commit(w) \/ RecordFailure(w)
      PROVE  Next
  BY <1>4 DEF AttemptFails, Commit, RecordFailure, Next
<1>5. ASSUME NEW w \in Worker, CommitRaises(w) \/ RecordRaises(w)
      PROVE  [Next]_vars
  BY <1>5, <1>l DEF CommitRaises, RecordRaises
<1>6. ASSUME NEW w \in Worker, Unlock(w) PROVE Next
  BY <1>6 DEF Unlock, Next, FLTypeOK
<1>7. ASSUME NEW w \in Worker, CloseSession(w) PROVE [Next]_vars
  BY <1>7 DEF CloseSession, Next
<1>8. ASSUME NEW w \in Worker, Persist(w) PROVE [Next]_vars
  BY <1>8 DEF Persist, Next, FLTypeOK
<1>9. ASSUME NEW s \in Session \ Worker, OtherSession(s) PROVE Next
  BY <1>9 DEF OtherSession, Next
<1>10. CASE Fault
  BY <1>10 DEF Fault, Next
<1>11. ASSUME NEW p \in Process, CrashReplica(p) PROVE Next
  BY <1>11 DEF CrashReplica, Next
<1>12. CASE UNCHANGED allVars
  BY <1>12 DEF allVars
<1>13. QED
  BY <1>1, <1>2, <1>3, <1>4, <1>5, <1>6, <1>7, <1>8, <1>9, <1>10, <1>11, <1>12
  DEF FLNext, Work

\* The types of the workers' own variables, separately from the locks'.
WorkTypeOK ==
    /\ record \in [Match -> [state: {"NONE", "SUCCESS"} \cup Pending,
                             attempts: Nat]]
    /\ lineup \in SUBSET Match
    /\ begun \in [Match -> Nat]
    /\ pc \in [Worker -> {"idle", "locked", "begin", "status", "provider", "commit",
                          "release", "close", "persist"}]
    /\ phase \in [Worker -> {"attempt", "persist"}]
    /\ job \in [Worker -> Match]
    /\ seen \in [Worker -> Nat]
    /\ called \in [Worker -> BOOLEAN]
    /\ result \in [Worker -> {"none", "skipped", "failure", "unknown", "success"}]

LEMMA WorkTypeStep == WorkTypeOK /\ [FLNext]_allVars => WorkTypeOK'
<1> SUFFICES ASSUME WorkTypeOK, [FLNext]_allVars PROVE WorkTypeOK'
  OBVIOUS
<1> USE DEF WorkTypeOK, Goto, Outcome, Pending
<1>r. ASSUME NEW w \in Worker
      PROVE  record[job[w]] \in [state: {"NONE", "SUCCESS"} \cup Pending,
                                 attempts: Nat]
  OBVIOUS
<1>1. ASSUME NEW m \in Match, Require(m) PROVE WorkTypeOK'
  BY <1>1 DEF Require
<1>2. ASSUME NEW w \in Worker, NEW m \in Match, Start(w, m) PROVE WorkTypeOK'
  BY <1>2 DEF Start
<1>3. ASSUME NEW w \in Worker, ReadRecord(w) PROVE WorkTypeOK'
  BY <1>3, <1>r DEF ReadRecord
<1>4. ASSUME NEW w \in Worker, ReadRaises(w) \/ CallProvider(w) \/ StageSuccess(w)
      PROVE  WorkTypeOK'
  BY <1>4 DEF ReadRaises, CallProvider, StageSuccess
<1>5. ASSUME NEW w \in Worker, MarkStarted(w) PROVE WorkTypeOK'
  BY <1>5 DEF MarkStarted
<1>6. ASSUME NEW w \in Worker, AttemptFails(w) PROVE WorkTypeOK'
  BY <1>6 DEF AttemptFails
<1>7. ASSUME NEW w \in Worker, Commit(w) PROVE WorkTypeOK'
  BY <1>7 DEF Commit, WriteSuccess
<1>8. ASSUME NEW w \in Worker, CommitRaises(w) PROVE WorkTypeOK'
  <2>1. WriteSuccess(w) \/ UNCHANGED <<record, lineup>>
    BY <1>8 DEF CommitRaises
  <2>2. /\ pc' \in [Worker -> {"idle", "locked", "begin", "status", "provider", "commit",
                               "release", "close", "persist"}]
        /\ result' \in [Worker -> {"none", "skipped", "failure", "unknown",
                                   "success"}]
    BY <1>8 DEF CommitRaises
  <2>3. UNCHANGED <<begun, phase, job, seen, called>>
    BY <1>8 DEF CommitRaises
  <2>4. /\ record' \in [Match -> [state: {"NONE", "SUCCESS"} \cup Pending,
                                 attempts: Nat]]
        /\ lineup' \in SUBSET Match
    <3>1. CASE UNCHANGED <<record, lineup>>
      BY <3>1
    <3>2. CASE WriteSuccess(w)
      <4>1. [state |-> "SUCCESS", attempts |-> seen[w] + 1]
              \in [state: {"NONE", "SUCCESS"} \cup Pending, attempts: Nat]
        OBVIOUS
      <4>2. job[w] \in Match
        OBVIOUS
      <4>3. QED
        BY <3>2, <4>1, <4>2 DEF WriteSuccess
    <3>3. QED
      BY <2>1, <3>1, <3>2
  <2>5. /\ begun' \in [Match -> Nat] /\ phase' \in [Worker -> {"attempt", "persist"}]
        /\ job' \in [Worker -> Match] /\ seen' \in [Worker -> Nat]
        /\ called' \in [Worker -> BOOLEAN]
    BY <2>3
  <2>6. QED
    BY <2>2, <2>4, <2>5
<1>9. ASSUME NEW w \in Worker, Unlock(w) \/ CloseSession(w) PROVE WorkTypeOK'
  BY <1>9 DEF Unlock, CloseSession
<1>10. ASSUME NEW w \in Worker, Persist(w) PROVE WorkTypeOK'
  BY <1>10 DEF Persist
<1>11. ASSUME NEW w \in Worker, Reread(w) PROVE WorkTypeOK'
  BY <1>11, <1>r DEF Reread
<1>12. ASSUME NEW w \in Worker, RecordFailure(w) PROVE WorkTypeOK'
  BY <1>12 DEF RecordFailure, WriteFailure
<1>13. ASSUME NEW w \in Worker, RecordRaises(w) PROVE WorkTypeOK'
  BY <1>13 DEF RecordRaises, WriteFailure
<1>14. ASSUME NEW s \in Session \ Worker, OtherSession(s) PROVE WorkTypeOK'
  BY <1>14 DEF OtherSession, workVars
<1>15. CASE Fault
  BY <1>15 DEF Fault, workVars
<1>16. ASSUME NEW p \in Process, CrashReplica(p) PROVE WorkTypeOK'
  BY <1>16 DEF CrashReplica
<1>17. CASE UNCHANGED allVars
  BY <1>17 DEF allVars, workVars
<1>18. QED
  BY <1>1, <1>2, <1>3, <1>4, <1>5, <1>6, <1>7, <1>8, <1>9, <1>10, <1>11,
     <1>12, <1>13, <1>14, <1>15, <1>16, <1>17
  DEF FLNext, Work

LEMMA WorkTypeInit == FLInit => WorkTypeOK
BY DEF FLInit, WorkTypeOK, Pending

LEMMA TypeSplit == FLTypeOK <=> TypeOK /\ WorkTypeOK
BY DEF FLTypeOK, WorkTypeOK

(* The variables keep their types (fixture_sync_service.py:524-711).       *)
THEOREM FLTypeCorrect == FLSpec => []FLTypeOK
<1>1. FLInit => FLTypeOK
  <2>1. Init => TypeOK
    BY IndInvInit DEF IndInv
  <2>2. QED
    BY <2>1, WorkTypeInit, TypeSplit DEF FLInit
<1>2. FLTypeOK /\ [FLNext]_allVars => FLTypeOK'
  <2>1. FLTypeOK' <=> TypeOK' /\ WorkTypeOK'
    BY DEF FLTypeOK, WorkTypeOK
  <2>2. QED
    BY <2>1, StepUsesLocks, WorkTypeStep, TypeStep, TypeSplit
<1>3. QED
  BY <1>1, <1>2, PTL DEF FLSpec

(* The workers implement the lock protocol, whatever else they do.         *)
THEOREM UsesLocks == FLSpec => Spec
<1>1. FLInit => Init
  BY DEF FLInit
<1>2. QED
  BY <1>1, FLTypeCorrect, StepUsesLocks, PTL DEF FLSpec, Spec

-----------------------------------------------------------------------------
(* The record is written under the lock.                                   *)

\* A worker between taking the lock and committing holds the lock in its
\* running transaction, unless that transaction has failed.
Guarded ==
    \A w \in Worker :
        pc[w] \in {"locked", "begin", "status", "provider", "commit"} /\ w \notin failed
            => job[w] \in fresh[w]

\* A worker about to write found the row unsettled, and it still is.
Unsettled ==
    \A w \in Worker :
        pc[w] \in {"begin", "status", "provider", "commit"} /\ w \notin failed
            => record[job[w]].state # "SUCCESS"

WriteInv == Guarded /\ NoLostUpdate /\ Unsettled

\* What the lock steps of other sessions leave to session v.
Kept(v) == v \notin failed' => v \notin failed /\ fresh'[v] = fresh[v]

LEMMA OthersKept ==
    ASSUME TypeOK, NEW v \in Session
    PROVE  /\ \A s \in Session \ {v} :
                /\ Statement(s) \/ StatementFails(s) \/ EndTransaction(s) => Kept(v)
                /\ \A r \in Resource :
                     Acquire(s, r) \/ Conflict(s, r) \/ Release(s, r) => Kept(v)
           /\ StatementFails(v) => Kept(v)
           /\ \A c \in Conn : LoseConnection(c) => Kept(v)
           /\ \A p \in Process : ProcessOf[v] # p /\ Crash(p) => Kept(v)
           /\ UNCHANGED vars => Kept(v)
<1>1. ASSUME NEW s \in Session \ {v}, EndTransaction(s) PROVE Kept(v)
  BY <1>1 DEF EndTransaction, Kept, TypeOK
<1>2. ASSUME NEW s \in Session \ {v}, NEW r \in Resource,
             Acquire(s, r) \/ Conflict(s, r) \/ Release(s, r)
      PROVE  Kept(v)
  BY <1>2 DEF Acquire, Conflict, Release, Kept, TypeOK
<1>3. ASSUME NEW s \in Session, Statement(s) \/ StatementFails(s) PROVE Kept(v)
  BY <1>3 DEF Statement, StatementFails, Kept
<1>4. ASSUME NEW c \in Conn, LoseConnection(c) PROVE Kept(v)
  BY <1>4 DEF LoseConnection, Kept
<1>5. ASSUME NEW p \in Process, ProcessOf[v] # p, Crash(p) PROVE Kept(v)
  BY <1>5 DEF Crash, Kept
<1>6. ASSUME UNCHANGED vars PROVE Kept(v)
  BY <1>6 DEF vars, Kept
<1>7. QED
  BY <1>1, <1>2, <1>3, <1>4, <1>5, <1>6

\* The conditions of WriteInv for one worker.
Busy(w) == pc[w] \in {"locked", "begin", "status", "provider", "commit"}
Writing(w) == pc[w] \in {"begin", "status", "provider", "commit"}
Safe(w) ==
    /\ Busy(w) /\ w \notin failed => job[w] \in fresh[w]
    /\ Writing(w) /\ w \notin failed =>
          /\ seen[w] = record[job[w]].attempts
          /\ record[job[w]].state # "SUCCESS"

LEMMA WriteInvSafe == WriteInv <=> \A w \in Worker : Safe(w)
BY DEF WriteInv, Guarded, NoLostUpdate, Unsettled, Safe, Busy, Writing

\* A worker that a step does not concern keeps its row's count, and its row
\* unsettled.
Aside(w) ==
    /\ UNCHANGED <<pc[w], job[w], seen[w]>>
    /\ Kept(w)
    /\ Writing(w) /\ w \notin failed =>
          /\ record'[job[w]].attempts = record[job[w]].attempts
          /\ record[job[w]].state # "SUCCESS" => record'[job[w]].state # "SUCCESS"

LEMMA AsideSafe == ASSUME NEW w \in Worker, Safe(w), Aside(w) PROVE Safe(w)'
<1>1. UNCHANGED <<Busy(w), Writing(w)>>
  BY DEF Aside, Busy, Writing
<1>2. QED
  BY <1>1 DEF Aside, Kept, Safe

\* Of two workers, one about to write and one writing the row of its job, the
\* first works on another match.
LEMMA RowsApart ==
    ASSUME WriteInv, FirstTransactionExclusion,
           NEW v \in Worker, NEW w \in Worker, v # w,
           Writing(v), v \notin failed, Busy(w), w \notin failed
    PROVE  job[v] # job[w]
<1>1. job[v] \in fresh[v] /\ job[w] \in fresh[w]
  BY WriteInvSafe DEF Safe, Busy, Writing
<1>2. QED
  BY <1>1, FinalLineupAssumption DEF FirstTransactionExclusion

LEMMA WriteStep ==
    ASSUME FLTypeOK, FirstTransactionExclusion, WriteInv, [FLNext]_allVars
    PROVE  WriteInv'
<1> USE FinalLineupAssumption DEF Match
<1>t. TypeOK /\ WorkTypeOK
  BY DEF FLTypeOK, WorkTypeOK
<1>s. \A v \in Worker : Safe(v) /\ v \in Session
  BY WriteInvSafe
<1>h. SUFFICES ASSUME NEW v \in Worker PROVE Safe(v)'
  BY DEF WriteInv, Guarded, NoLostUpdate, Unsettled, Safe, Busy, Writing
<1>1. ASSUME NEW m \in Match, Require(m) PROVE Aside(v)
  BY <1>1, <1>t, OthersKept DEF Require, Aside, WorkTypeOK
<1>2. ASSUME NEW w \in Worker, NEW m \in Match, Start(w, m) PROVE Safe(v)'
  <2>1. CASE w = v
    BY <1>2, <2>1, <1>t
    DEF Start, Goto, Acquire, Conflict, Safe, Busy, Writing, WorkTypeOK, TypeOK
  <2>2. CASE w # v
    <3>1. Kept(v)
      BY <1>2, <2>2, <1>t, OthersKept DEF Start
    <3>2. Aside(v)
      BY <1>2, <2>2, <1>t, <3>1 DEF Start, Goto, Aside, WorkTypeOK
    <3>3. QED
      BY <3>2, <1>s, AsideSafe
  <2>3. QED
    BY <2>1, <2>2
<1>3. ASSUME NEW w \in Worker, ReadRecord(w) \/ Reread(w) PROVE Safe(v)'
  <2>1. CASE w = v
    BY <1>3, <2>1, <1>t, <1>s
    DEF ReadRecord, Reread, Settled, Pending, Goto, Safe, Busy, Writing,
        WorkTypeOK, vars
  <2>2. CASE w # v
    BY <1>3, <2>2, <1>t, <1>s, OthersKept, AsideSafe
    DEF ReadRecord, Reread, Goto, Aside, WorkTypeOK
  <2>3. QED
    BY <2>1, <2>2
<1>4. ASSUME NEW w \in Worker, ReadRaises(w) \/ MarkStarted(w) \/ CallProvider(w) \/ StageSuccess(w)
      PROVE  Safe(v)'
  <2>1. CASE w = v
    BY <1>4, <2>1, <1>t, <1>s
    DEF ReadRaises, MarkStarted, CallProvider, StageSuccess, Goto, Safe, Busy, Writing,
        WorkTypeOK, vars
  <2>2. CASE w # v
    BY <1>4, <2>2, <1>t, <1>s, OthersKept, AsideSafe
    DEF ReadRaises, MarkStarted, CallProvider, StageSuccess, Goto, Aside, WorkTypeOK
  <2>3. QED
    BY <2>1, <2>2
\* Steps after which the worker itself no longer writes.
<1>5. ASSUME NEW w \in Worker, AttemptFails(w) \/ Unlock(w) \/ CloseSession(w)
      PROVE  Safe(v)'
  <2>1. CASE w = v
    BY <1>5, <2>1, <1>t
    DEF AttemptFails, Unlock, CloseSession, Goto, Safe, Busy, Writing, WorkTypeOK
  <2>2. CASE w # v
    <3>1. Kept(v)
      BY <1>5, <2>2, <1>t, OthersKept DEF AttemptFails, Unlock, CloseSession, WorkTypeOK
    <3>2. Aside(v)
      BY <1>5, <2>2, <1>t, <3>1
      DEF AttemptFails, Unlock, CloseSession, Goto, Aside, WorkTypeOK
    <3>3. QED
      BY <3>2, <1>s, AsideSafe
  <2>3. QED
    BY <2>1, <2>2
\* The commits: the writer leaves, the others work on other rows.
<1>6. ASSUME NEW w \in Worker,
             Commit(w) \/ CommitRaises(w) \/ RecordFailure(w) \/ RecordRaises(w)
      PROVE  Safe(v)'
  <2>1. CASE w = v
    <3>1. pc' = [pc EXCEPT ![v] = "release"]
      BY <1>6, <2>1 DEF Commit, CommitRaises, RecordFailure, RecordRaises, Goto
    <3>2. QED
      BY <3>1, <1>t DEF Safe, Busy, Writing, WorkTypeOK
  <2>2. CASE w # v
    <3>1. /\ pc' = [pc EXCEPT ![w] = "release"]
          /\ UNCHANGED <<job, seen>>
          /\ pc[w] = "commit"
      BY <1>6 DEF Commit, CommitRaises, RecordFailure, RecordRaises, Goto
    <3>2. \/ EndTransaction(w) \/ UNCHANGED vars
          \/ w \notin failed /\ LoseConnection(conn[w])
      BY <1>6 DEF Commit, CommitRaises, RecordFailure, RecordRaises
    <3>3. Kept(v)
      <4>1. LoseConnection(conn[w]) => conn[w] \in Conn
        BY <1>t, <1>s, ResourceLockAssumption DEF LoseConnection, CheckedOut, TypeOK
      <4>2. QED
        BY <3>2, <4>1, <2>2, <1>t, <1>s, OthersKept
    <3>4. \/ w \notin failed /\ (WriteSuccess(w) \/ WriteFailure(w))
          \/ UNCHANGED record
      BY <1>6 DEF Commit, CommitRaises, RecordFailure, RecordRaises
    <3>5. Writing(v) /\ v \notin failed => record'[job[v]] = record[job[v]]
      <4>1. CASE UNCHANGED record
        BY <4>1
      <4>2. CASE w \notin failed /\ (WriteSuccess(w) \/ WriteFailure(w))
        <5>1. Writing(v) /\ v \notin failed => job[v] # job[w]
          BY <4>2, <3>1, <2>2, RowsApart DEF Busy
        <5>2. QED
          BY <4>2, <5>1, <1>t DEF WriteSuccess, WriteFailure, WorkTypeOK
      <4>3. QED
        BY <3>4, <4>1, <4>2
    <3>6. Aside(v)
      BY <3>1, <3>3, <3>5, <2>2, <1>t DEF Aside, WorkTypeOK
    <3>7. QED
      BY <3>6, <1>s, AsideSafe
  <2>3. QED
    BY <2>1, <2>2
<1>7. ASSUME NEW w \in Worker, Persist(w) PROVE Safe(v)'
  <2>1. CASE w = v
    BY <1>7, <2>1, <1>t
    DEF Persist, Goto, Acquire, Conflict, Safe, Busy, Writing, WorkTypeOK, TypeOK
  <2>2. CASE w # v
    <3>1. Kept(v)
      BY <1>7, <2>2, <1>t, <1>s, OthersKept DEF Persist, WorkTypeOK
    <3>2. Aside(v)
      BY <1>7, <2>2, <1>t, <3>1 DEF Persist, Goto, Aside, WorkTypeOK
    <3>3. QED
      BY <3>2, <1>s, AsideSafe
  <2>3. QED
    BY <2>1, <2>2
<1>8. ASSUME NEW s \in Session \ Worker, OtherSession(s) PROVE Aside(v)
  <2>1. Kept(v)
    BY <1>8, <1>t, <1>s, OthersKept DEF OtherSession
  <2>2. QED
    BY <1>8, <2>1 DEF OtherSession, workVars, Aside
<1>9. CASE Fault
  <2>1. Kept(v)
    BY <1>9, <1>t, <1>s, OthersKept DEF Fault
  <2>2. Aside(v)
    BY <1>9, <2>1 DEF Fault, workVars, Aside
  <2>3. QED
    BY <2>2, <1>s, AsideSafe
<1>10. ASSUME NEW p \in Process, CrashReplica(p) PROVE Safe(v)'
  <2>1. CASE ProcessOf[v] = p
    BY <1>10, <2>1, <1>t DEF CrashReplica, Safe, Busy, Writing, WorkTypeOK
  <2>2. CASE ProcessOf[v] # p
    <3>1. Kept(v)
      BY <1>10, <2>2, <1>t, <1>s, OthersKept DEF CrashReplica
    <3>2. QED
      BY <1>10, <2>2, <3>1, <1>t, <1>s, AsideSafe DEF CrashReplica, Aside, WorkTypeOK
  <2>3. QED
    BY <2>1, <2>2
<1>11. CASE UNCHANGED allVars
  BY <1>11, <1>s, OthersKept, AsideSafe, <1>t DEF allVars, workVars, Aside
<1>12. QED
  BY <1>1, <1>2, <1>3, <1>4, <1>5, <1>6, <1>7, <1>8, <1>9, <1>10, <1>11,
     <1>s, AsideSafe
  DEF FLNext, Work

LEMMA WriteInvHolds == FLSpec => []WriteInv
<1>1. FLInit => WriteInv
  BY DEF FLInit, WriteInv, Guarded, NoLostUpdate, Unsettled
<1>2. QED
  BY <1>1, WriteStep, FLTypeCorrect, UsesLocks, FirstTransactionExclusionHolds,
     PTL DEF FLSpec

(* No worker of any replica writes back an attempt count it read before     *)
(* another one changed the row: the lock covers the whole read-modify-write *)
(* of _run_final_lineup_attempt and _record_final_lineup_failure.           *)
THEOREM NoLostUpdateHolds == FLSpec => []NoLostUpdate
BY WriteInvHolds, PTL DEF WriteInv

LEMMA SuccessKept ==
    ASSUME FLTypeOK, WriteInv, [FLNext]_allVars,
           NEW m \in Match, record[m].state = "SUCCESS"
    PROVE  record'[m] = record[m]
<1>t. record \in [Match -> [state: {"NONE", "SUCCESS"} \cup Pending,
                            attempts: Nat]]
  BY DEF FLTypeOK
<1>1. ASSUME NEW n \in Match, Require(n) PROVE record'[m] = record[m]
  BY <1>1, <1>t DEF Require
<1>2. ASSUME NEW w \in Worker,
             Commit(w) \/ CommitRaises(w) \/ RecordFailure(w) \/ RecordRaises(w),
             record' # record
      PROVE  record'[m] = record[m]
  <2>1. pc[w] = "commit" /\ w \notin failed
    BY <1>2 DEF Commit, CommitRaises, RecordFailure, RecordRaises
  <2>2. job[w] # m
    BY <2>1 DEF WriteInv, Unsettled
  <2>3. WriteSuccess(w) \/ WriteFailure(w)
    BY <1>2 DEF Commit, CommitRaises, RecordFailure, RecordRaises
  <2>4. QED
    BY <2>2, <2>3, <1>t DEF WriteSuccess, WriteFailure
<1>3. \/ record' = record
      \/ \E n \in Match : Require(n)
      \/ \E w \in Worker : \/ Commit(w) \/ CommitRaises(w)
                           \/ RecordFailure(w) \/ RecordRaises(w)
  BY DEF FLNext, Work, Start, ReadRecord, ReadRaises, MarkStarted, CallProvider,
         StageSuccess, AttemptFails, Unlock, CloseSession, Persist, Reread,
         OtherSession, Fault, CrashReplica, allVars, workVars
<1>4. QED
  BY <1>1, <1>2, <1>3

(* A row that says SUCCESS is never written again, by no late failure or    *)
(* second attempt of any worker (fixture_sync_service.py:593, 690).         *)
THEOREM SuccessIsFinalHolds == FLSpec => SuccessIsFinal
<1>1. FLTypeOK /\ WriteInv /\ [FLNext]_allVars
        => [\A m \in Match :
               record[m].state = "SUCCESS" => record'[m] = record[m]]_record
  BY SuccessKept
<1>2. QED
  BY <1>1, FLTypeCorrect, WriteInvHolds, PTL DEF FLSpec, SuccessIsFinal

-----------------------------------------------------------------------------
(* What a reported success stands for.                                     *)

\* The SUCCESS row and the lineup are written by one commit.
Settles == \A m \in Match : record[m].state = "SUCCESS" => m \in lineup

LEMMA SettlesStep ==
    ASSUME FLTypeOK, WriteInv, Settles, [FLNext]_allVars
    PROVE  Settles'
<1>t. WorkTypeOK
  BY DEF FLTypeOK, WorkTypeOK
<1> SUFFICES ASSUME NEW m \in Match, record'[m].state = "SUCCESS"
             PROVE  m \in lineup'
  BY DEF Settles
<1>1. lineup \subseteq lineup'
  BY DEF FLNext, Work, Require, Start, ReadRecord, ReadRaises, MarkStarted, CallProvider,
         StageSuccess, AttemptFails, Commit, CommitRaises, WriteSuccess, Unlock,
         CloseSession, Persist, Reread, RecordFailure, RecordRaises,
         OtherSession, Fault, CrashReplica, allVars, workVars
<1>2. CASE record[m].state = "SUCCESS"
  BY <1>1, <1>2 DEF Settles
<1>3. CASE record[m].state # "SUCCESS"
  <2>1. ASSUME NEW n \in Match, Require(n) PROVE FALSE
    BY <2>1, <1>3, <1>t DEF Require, WorkTypeOK
  <2>2. ASSUME NEW w \in Worker, Commit(w) \/ CommitRaises(w)
        PROVE  m \in lineup'
    <3>1. WriteSuccess(w) \/ UNCHANGED record
      BY <2>2 DEF Commit, CommitRaises
    <3>2. QED
      BY <3>1, <1>3, <1>t DEF WriteSuccess, WorkTypeOK
  <2>3. ASSUME NEW w \in Worker, RecordFailure(w) \/ RecordRaises(w)
        PROVE  FALSE
    <3>1. WriteFailure(w) \/ UNCHANGED record
      BY <2>3 DEF RecordFailure, RecordRaises
    <3>2. WriteFailure(w) /\ m = job[w] => record'[m].state = "RETRYABLE"
      BY <1>t DEF WriteFailure, WorkTypeOK
    <3>3. WriteFailure(w) /\ m # job[w] => record'[m] = record[m]
      BY <1>t DEF WriteFailure, WorkTypeOK
    <3>4. QED
      BY <3>1, <3>2, <3>3, <1>3
  <2>4. \/ record' = record
        \/ \E n \in Match : Require(n)
        \/ \E w \in Worker : \/ Commit(w) \/ CommitRaises(w)
                             \/ RecordFailure(w) \/ RecordRaises(w)
    BY DEF FLNext, Work, Start, ReadRecord, ReadRaises, MarkStarted, CallProvider,
           StageSuccess, AttemptFails, Unlock, CloseSession, Persist, Reread,
           OtherSession, Fault, CrashReplica, allVars, workVars
  <2>5. QED
    BY <2>1, <2>2, <2>3, <2>4, <1>3
<1>4. QED
  BY <1>2, <1>3

\* A worker that says "success" works on a row that says so too.
Reported == \A w \in Worker : result[w] = "success" => Settled(job[w])

LEMMA ReportedStep ==
    ASSUME FLTypeOK, WriteInv, Reported, [FLNext]_allVars
    PROVE  Reported'
<1>t. WorkTypeOK
  BY DEF FLTypeOK, WorkTypeOK
<1> SUFFICES ASSUME NEW v \in Worker, result'[v] = "success"
             PROVE  record'[job'[v]].state = "SUCCESS"
  BY DEF Reported, Settled
<1>k. ASSUME result[v] = "success", job'[v] = job[v]
      PROVE  record'[job'[v]].state = "SUCCESS"
  <2>1. job[v] \in Match /\ record[job[v]].state = "SUCCESS"
    BY <1>k, <1>t DEF Reported, Settled, WorkTypeOK
  <2>2. record'[job[v]] = record[job[v]]
    BY <2>1, SuccessKept
  <2>3. QED
    BY <1>k, <2>1, <2>2
<1>1. ASSUME NEW w \in Worker, NEW m \in Match, Start(w, m)
      PROVE  result[v] = "success" /\ job'[v] = job[v]
  BY <1>1, <1>t DEF Start, Outcome, WorkTypeOK
<1>2. ASSUME NEW w \in Worker, Commit(w)
      PROVE  record'[job'[v]].state = "SUCCESS"
  <2>1. CASE v = w
    BY <1>2, <2>1, <1>t DEF Commit, WriteSuccess, WorkTypeOK
  <2>2. CASE v # w
    BY <1>2, <2>2, <1>t, <1>k DEF Commit, Outcome, WorkTypeOK
  <2>3. QED
    BY <2>1, <2>2
<1>3. ASSUME NEW w \in Worker, Reread(w)
      PROVE  record'[job'[v]].state = "SUCCESS"
  <2>1. record' = record /\ job' = job
    BY <1>3 DEF Reread
  <2>2. \/ result' = result
        \/ Settled(job[w]) /\ \E r \in {"success", result[w]} :
                                   result' = [result EXCEPT ![w] = r]
    BY <1>3 DEF Reread, Outcome
  <2>3. CASE result' = result
    BY <1>k, <2>1, <2>3
  <2>4. CASE Settled(job[w]) /\ v = w
    BY <2>1, <2>4 DEF Settled
  <2>5. CASE v # w
    BY <1>k, <2>1, <2>2, <2>5, <1>t DEF WorkTypeOK
  <2>6. QED
    BY <2>2, <2>3, <2>4, <2>5
<1>4. ASSUME NEW w \in Worker, AttemptFails(w) \/ CommitRaises(w)
      PROVE  result[v] = "success" /\ job'[v] = job[v]
  <2>1. UNCHANGED job /\ \E r \in {"failure", "unknown"} :
                             result' = [result EXCEPT ![w] = r]
    BY <1>4 DEF AttemptFails, CommitRaises, Outcome
  <2>2. QED
    BY <2>1, <1>t DEF WorkTypeOK
<1>5. ASSUME NEW p \in Process, CrashReplica(p)
      PROVE  result[v] = "success" /\ job'[v] = job[v]
  BY <1>5 DEF CrashReplica
<1>6. \/ UNCHANGED <<result, job>>
      \/ \E w \in Worker : \/ \E m \in Match : Start(w, m)
                           \/ Commit(w) \/ Reread(w) \/ AttemptFails(w)
                           \/ CommitRaises(w)
      \/ \E p \in Process : CrashReplica(p)
  BY DEF FLNext, Work, Require, ReadRecord, ReadRaises, MarkStarted, CallProvider,
         StageSuccess, Unlock, CloseSession, Persist, RecordFailure,
         RecordRaises, OtherSession, Fault, allVars, workVars
<1>7. QED
  BY <1>1, <1>2, <1>3, <1>4, <1>5, <1>6, <1>k

(* A worker that reports success left a SUCCESS row and the lineup behind   *)
(* it, or found both after a commit whose outcome it had not learnt         *)
(* (_record_final_lineup_failure), for any number of workers.               *)
THEOREM ReportedSuccessHolds == FLSpec => []ReportedSuccess
<1>1. FLInit => Settles /\ Reported
  BY DEF FLInit, Settles, Reported
<1>2. FLTypeOK /\ Settles /\ Reported => ReportedSuccess
  BY DEF FLTypeOK, Settles, Reported, Settled, ReportedSuccess
<1>3. QED
  BY <1>1, <1>2, SettlesStep, ReportedStep, FLTypeCorrect, WriteInvHolds,
     PTL DEF FLSpec

-----------------------------------------------------------------------------
(* Every attempt is counted once at most: an attempt the row does not count *)
(* yet is owed to it by the worker that made it.                            *)
Owing(w) ==
    /\ called[w]
    /\ \/ phase[w] = "attempt" /\ pc[w] \in {"status", "provider", "commit"}
       \/ /\ phase[w] = "attempt" /\ pc[w] \in {"release", "close"}
          /\ result[w] \in {"failure", "unknown"}
       \/ pc[w] = "persist"
       \/ phase[w] = "persist" /\ pc[w] \in {"locked", "commit"}

Owed(m) == {w \in Worker : Owing(w) /\ job[w] = m}

\* A row counts no more than was begun, and leaves room for what is owed to it
\* while it may still be written.
Budget ==
    \A m \in Match :
        /\ record[m].attempts <= begun[m]
        /\ record[m].state # "SUCCESS"
              => record[m].attempts + Cardinality(Owed(m)) <= begun[m]

\* Where in the attempt the provider has been called.
CalledAt(w) ==
    /\ pc[w] \in {"begin", "status", "provider"} => phase[w] = "attempt"
    /\ phase[w] = "attempt" /\ pc[w] \in {"locked", "begin"} => ~called[w]
    /\ phase[w] = "attempt" /\ pc[w] \in {"status", "provider", "commit"} => called[w]

CountInv == Budget /\ \A w \in Worker : CalledAt(w)

LEMMA OwedFinite ==
    ASSUME NEW m \in Match
    PROVE  IsFiniteSet(Owed(m)) /\ Cardinality(Owed(m)) \in Nat
<1>1. Owed(m) \subseteq Session
  BY FinalLineupAssumption DEF Owed
<1>2. QED
  BY <1>1, ResourceLockAssumption, FS_Subset, FS_CardinalityType

\* Steps that write no count and make no attempt.
LEMMA BudgetKept ==
    ASSUME WorkTypeOK, WorkTypeOK', Budget, UNCHANGED begun,
           \A m \in Match :
              /\ record'[m].attempts = record[m].attempts
              /\ record'[m].state # "SUCCESS" => record[m].state # "SUCCESS",
           \A v \in Worker : Owing(v)' => Owing(v) /\ job'[v] = job[v]
    PROVE  Budget'
<1> SUFFICES ASSUME NEW m \in Match
             PROVE  /\ record'[m].attempts <= begun'[m]
                    /\ record'[m].state # "SUCCESS"
                          => record'[m].attempts + Cardinality(Owed(m)') <= begun'[m]
  BY DEF Budget
<1>1. Owed(m)' \subseteq Owed(m)
  BY DEF Owed
<1>2. /\ IsFiniteSet(Owed(m)')
      /\ Cardinality(Owed(m)') <= Cardinality(Owed(m))
  BY <1>1, OwedFinite, FS_Subset
<1>3. Cardinality(Owed(m)') \in Nat /\ Cardinality(Owed(m)) \in Nat
  BY <1>2, OwedFinite, FS_CardinalityType
<1>4. record[m].attempts \in Nat /\ begun[m] \in Nat
  BY DEF WorkTypeOK
<1>5. QED
  BY <1>2, <1>3, <1>4 DEF Budget

\* A worker that a step does not concern.
Away(v) ==
    /\ UNCHANGED <<pc[v], phase[v], job[v], called[v]>>
    /\ result'[v] = result[v] \/ result'[v] \notin {"failure", "unknown"}

LEMMA AwayKept ==
    ASSUME NEW v \in Worker, Away(v)
    PROVE  /\ Owing(v)' => Owing(v) /\ job'[v] = job[v]
           /\ CalledAt(v) => CalledAt(v)'
<1>1. Owing(v)' => Owing(v)
  BY DEF Away, Owing
<1>2. CalledAt(v) => CalledAt(v)'
  BY DEF Away, CalledAt
<1>3. QED
  BY <1>1, <1>2 DEF Away

\* The failure record of worker w: what it counts was owed by w.
LEMMA RecordCounts ==
    ASSUME WorkTypeOK, WorkTypeOK', Budget, WriteInv,
           NEW w \in Worker, w \notin failed,
           pc[w] = "commit", phase[w] = "persist",
           WriteFailure(w), UNCHANGED <<begun, phase, job, called, result>>,
           pc' = [pc EXCEPT ![w] = "release"]
    PROVE  Budget'
<1>1. /\ seen[w] = record[job[w]].attempts
      /\ record[job[w]].state # "SUCCESS"
  BY WriteInvSafe DEF Safe, Writing
<1>2. ~Owing(w)'
  BY DEF Owing, WorkTypeOK
<1>3. \A v \in Worker : v # w => (Owing(v)' <=> Owing(v))
  BY DEF Owing, WorkTypeOK
<1>4. Owing(w) <=> called[w]
  BY DEF Owing, WorkTypeOK
<1>5. job[w] \in Match
  BY DEF WorkTypeOK
<1> SUFFICES ASSUME NEW m \in Match
             PROVE  /\ record'[m].attempts <= begun'[m]
                    /\ record'[m].state # "SUCCESS"
                          => record'[m].attempts + Cardinality(Owed(m)') <= begun'[m]
  BY DEF Budget
<1>t. /\ record[m].attempts \in Nat /\ begun[m] \in Nat
      /\ IsFiniteSet(Owed(m)) /\ Cardinality(Owed(m)) \in Nat
      /\ record[m].attempts <= begun[m]
      /\ record[m].state # "SUCCESS"
            => record[m].attempts + Cardinality(Owed(m)) <= begun[m]
  BY OwedFinite DEF WorkTypeOK, Budget
<1>6. CASE m = job[w]
  <2>1. CASE called[w]
    <3>1. record'[m].attempts = record[m].attempts + 1
      BY <1>1, <1>5, <1>6, <2>1 DEF WriteFailure, WorkTypeOK
    <3>2. Owed(m)' = Owed(m) \ {w} /\ w \in Owed(m)
      BY <1>2, <1>3, <1>4, <1>6, <2>1 DEF Owed
    <3>3. Cardinality(Owed(m)') = Cardinality(Owed(m)) - 1
      BY <3>2, <1>t, FS_RemoveElement
    <3>4. Cardinality(Owed(m)) # 0
      BY <3>2, <1>t, FS_EmptySet
    <3>5. QED
      BY <3>1, <3>3, <3>4, <1>1, <1>6, <1>t
  <2>2. CASE ~called[w]
    <3>1. record'[m].attempts = record[m].attempts
      BY <1>1, <1>5, <1>6, <2>2 DEF WriteFailure, WorkTypeOK
    <3>2. Owed(m)' = Owed(m)
      BY <1>2, <1>3, <1>4, <2>2 DEF Owed
    <3>3. QED
      BY <3>1, <3>2, <1>1, <1>6, <1>t
  <2>3. QED
    BY <2>1, <2>2
<1>7. CASE m # job[w]
  <2>1. record'[m] = record[m]
    BY <1>7, <1>5 DEF WriteFailure, WorkTypeOK
  <2>2. Owed(m)' = Owed(m)
    BY <1>2, <1>3, <1>7 DEF Owed
  <2>3. QED
    BY <2>1, <2>2, <1>t
<1>8. QED
  BY <1>6, <1>7

\* The success of worker w: the attempt it counts was owed by w.
LEMMA SuccessCounts ==
    ASSUME WorkTypeOK, WorkTypeOK', CountInv, WriteInv,
           NEW w \in Worker, w \notin failed,
           pc[w] = "commit", phase[w] = "attempt",
           WriteSuccess(w), UNCHANGED <<begun, phase, job, called>>,
           pc' = [pc EXCEPT ![w] = "release"],
           \A v \in Worker \ {w} : result'[v] = result[v]
    PROVE  Budget'
<1>1. /\ seen[w] = record[job[w]].attempts
      /\ record[job[w]].state # "SUCCESS"
  BY WriteInvSafe DEF Safe, Writing
<1>2. Owing(w)
  BY DEF Owing, CountInv, CalledAt
<1>3. \A v \in Worker : Owing(v)' => Owing(v)
  <2> SUFFICES ASSUME NEW v \in Worker, Owing(v)' PROVE Owing(v)
    OBVIOUS
  <2>1. CASE v = w
    BY <1>2, <2>1
  <2>2. CASE v # w
    BY <2>2 DEF Owing, WorkTypeOK
  <2>3. QED
    BY <2>1, <2>2
<1>5. job[w] \in Match
  BY DEF WorkTypeOK
<1> SUFFICES ASSUME NEW m \in Match
             PROVE  /\ record'[m].attempts <= begun'[m]
                    /\ record'[m].state # "SUCCESS"
                          => record'[m].attempts + Cardinality(Owed(m)') <= begun'[m]
  BY DEF Budget
<1>t. /\ record[m].attempts \in Nat /\ begun[m] \in Nat
      /\ IsFiniteSet(Owed(m)) /\ Cardinality(Owed(m)) \in Nat
      /\ record[m].attempts <= begun[m]
      /\ record[m].state # "SUCCESS"
            => record[m].attempts + Cardinality(Owed(m)) <= begun[m]
  BY OwedFinite DEF WorkTypeOK, CountInv, Budget
<1>6. CASE m = job[w]
  <2>1. record'[m].state = "SUCCESS" /\ record'[m].attempts = record[m].attempts + 1
    BY <1>1, <1>5, <1>6 DEF WriteSuccess, WorkTypeOK
  <2>2. w \in Owed(m)
    BY <1>2, <1>6 DEF Owed
  <2>3. Cardinality(Owed(m)) # 0
    BY <2>2, <1>t, FS_EmptySet
  <2>4. record[m].attempts + 1 <= begun[m] /\ begun'[m] = begun[m]
    BY <2>3, <1>1, <1>6, <1>t
  <2>5. QED
    BY <2>1, <2>4
<1>7. CASE m # job[w]
  <2>1. record'[m] = record[m]
    BY <1>7, <1>5 DEF WriteSuccess, WorkTypeOK
  <2>2. Owed(m)' \subseteq Owed(m)
    BY <1>3 DEF Owed
  <2>3. /\ Cardinality(Owed(m)') <= Cardinality(Owed(m))
        /\ Cardinality(Owed(m)') \in Nat
    BY <2>2, <1>t, FS_Subset, FS_CardinalityType
  <2>4. QED
    BY <2>1, <2>3, <1>t
<1>8. QED
  BY <1>6, <1>7

\* The beginning of an attempt: one more begun, and one more owed.
LEMMA BeginCounts ==
    ASSUME WorkTypeOK, WorkTypeOK', CountInv, NEW w \in Worker, MarkStarted(w)
    PROVE  Budget'
<1>1. ~Owing(w)
  BY DEF Owing, MarkStarted, WorkTypeOK
<1>2. \A v \in Worker : Owing(v)' => Owing(v) \/ v = w
  BY DEF Owing, MarkStarted, Goto, WorkTypeOK
<1>5. job[w] \in Match
  BY DEF WorkTypeOK
<1> SUFFICES ASSUME NEW m \in Match
             PROVE  /\ record'[m].attempts <= begun'[m]
                    /\ record'[m].state # "SUCCESS"
                          => record'[m].attempts + Cardinality(Owed(m)') <= begun'[m]
  BY DEF Budget
<1>t. /\ record[m].attempts \in Nat /\ begun[m] \in Nat
      /\ IsFiniteSet(Owed(m)) /\ Cardinality(Owed(m)) \in Nat
      /\ record[m].attempts <= begun[m]
      /\ record[m].state # "SUCCESS"
            => record[m].attempts + Cardinality(Owed(m)) <= begun[m]
      /\ record' = record /\ job' = job
  BY OwedFinite DEF WorkTypeOK, CountInv, Budget, MarkStarted
<1>6. CASE m = job[w]
  <2>1. begun'[m] = begun[m] + 1
    BY <1>5, <1>6 DEF MarkStarted, WorkTypeOK
  <2>2. Owed(m)' \subseteq Owed(m) \cup {w} /\ w \notin Owed(m)
    BY <1>1, <1>2, <1>t DEF Owed
  <2>3. /\ IsFiniteSet(Owed(m) \cup {w})
        /\ Cardinality(Owed(m) \cup {w}) = Cardinality(Owed(m)) + 1
    BY <2>2, <1>t, FS_AddElement
  <2>4. /\ Cardinality(Owed(m)') <= Cardinality(Owed(m) \cup {w})
        /\ Cardinality(Owed(m)') \in Nat
    BY <2>2, <2>3, FS_Subset, FS_CardinalityType
  <2>5. QED
    BY <2>1, <2>3, <2>4, <1>t
<1>7. CASE m # job[w]
  <2>1. begun'[m] = begun[m]
    BY <1>7, <1>5 DEF MarkStarted, WorkTypeOK
  <2>2. Owed(m)' \subseteq Owed(m)
    BY <1>2, <1>7, <1>t DEF Owed
  <2>3. /\ Cardinality(Owed(m)') <= Cardinality(Owed(m))
        /\ Cardinality(Owed(m)') \in Nat
    BY <2>2, <1>t, FS_Subset, FS_CardinalityType
  <2>4. QED
    BY <2>1, <2>3, <1>t
<1>8. QED
  BY <1>6, <1>7

LEMMA CountStep ==
    ASSUME FLTypeOK, FLTypeOK', WriteInv, CountInv, [FLNext]_allVars
    PROVE  CountInv'
<1>t. WorkTypeOK /\ WorkTypeOK'
  BY DEF FLTypeOK, WorkTypeOK
<1>b. Budget /\ \A v \in Worker : CalledAt(v)
  BY DEF CountInv
<1>k. ASSUME \A v \in Worker :
                (Owing(v)' => Owing(v) /\ job'[v] = job[v]) /\ CalledAt(v)',
             UNCHANGED begun,
             \A m \in Match :
                /\ record'[m].attempts = record[m].attempts
                /\ record'[m].state # "SUCCESS" => record[m].state # "SUCCESS"
      PROVE  CountInv'
  BY <1>k, <1>t, <1>b, BudgetKept DEF CountInv
\* One worker's step that writes no row: w and the others.
<1>w. ASSUME NEW w \in Worker, UNCHANGED <<record, begun>>,
             (Owing(w)' => Owing(w) /\ job'[w] = job[w]) /\ CalledAt(w)',
             \A v \in Worker \ {w} : Away(v)
      PROVE  CountInv'
  BY <1>w, <1>k, <1>b, AwayKept
<1>1. ASSUME NEW m \in Match, Require(m) PROVE CountInv'
  <2>1. \A v \in Worker : Away(v)
    BY <1>1 DEF Require, Away
  <2>2. \A n \in Match : /\ record'[n].attempts = record[n].attempts
                         /\ record'[n].state # "SUCCESS" => record[n].state # "SUCCESS"
    BY <1>1, <1>t DEF Require, WorkTypeOK
  <2>3. UNCHANGED begun
    BY <1>1 DEF Require
  <2>4. QED
    BY <2>1, <2>2, <2>3, <1>k, <1>b, AwayKept
<1>2. ASSUME NEW w \in Worker, NEW m \in Match, Start(w, m) PROVE CountInv'
  <2>1. UNCHANGED <<record, begun>> /\ \A v \in Worker \ {w} : Away(v)
    BY <1>2, <1>t DEF Start, Goto, Outcome, Away, WorkTypeOK
  <2>2. ~called'[w] /\ phase'[w] = "attempt" /\ pc'[w] \in {"locked", "close"}
    BY <1>2, <1>t DEF Start, Goto, WorkTypeOK
  <2>3. ~Owing(w)' /\ CalledAt(w)'
    BY <2>2 DEF Owing, CalledAt
  <2>4. QED
    BY <2>1, <2>3, <1>w
<1>3. ASSUME NEW w \in Worker, ReadRecord(w) \/ ReadRaises(w) \/ CallProvider(w)
                               \/ StageSuccess(w)
      PROVE  CountInv'
  <2>1. UNCHANGED <<record, begun>> /\ \A v \in Worker \ {w} : Away(v)
    BY <1>3, <1>t
    DEF ReadRecord, ReadRaises, CallProvider, StageSuccess, Goto, Away, WorkTypeOK
  <2>2. UNCHANGED <<phase, job, called, result>>
    BY <1>3 DEF ReadRecord, ReadRaises, CallProvider, StageSuccess
  <2>3. \/ /\ pc[w] = "locked" /\ pc'[w] \in {"begin", "release"}
           /\ pc'[w] = "begin" => phase[w] = "attempt"
        \/ pc[w] = "status" /\ pc'[w] = "provider"
        \/ pc[w] = "provider" /\ pc'[w] = "commit"
    BY <1>3, <1>t DEF ReadRecord, ReadRaises, CallProvider, StageSuccess, Goto, WorkTypeOK
  <2>4. Owing(w)' => Owing(w)
    BY <2>2, <2>3, <1>b, <1>t DEF Owing, CalledAt, WorkTypeOK
  <2>5. CalledAt(w)'
    BY <2>2, <2>3, <1>b, <1>t DEF CalledAt, WorkTypeOK
  <2>6. QED
    BY <2>1, <2>2, <2>4, <2>5, <1>w
<1>4. ASSUME NEW w \in Worker, MarkStarted(w) PROVE CountInv'
  <2>1. \A v \in Worker \ {w} : Away(v)
    BY <1>4, <1>t DEF MarkStarted, Goto, Away, WorkTypeOK
  <2>2. CalledAt(w)'
    BY <1>4, <1>b, <1>t DEF MarkStarted, Goto, CalledAt, WorkTypeOK
  <2>3. Budget'
    BY <1>4, <1>t, BeginCounts
  <2>4. QED
    BY <2>1, <2>2, <2>3, <1>b, AwayKept DEF CountInv
<1>5. ASSUME NEW w \in Worker, AttemptFails(w) PROVE CountInv'
  <2>1. UNCHANGED <<record, begun, phase, job, called>>
        /\ \A v \in Worker \ {w} : Away(v)
    BY <1>5, <1>t DEF AttemptFails, Goto, Outcome, Away, WorkTypeOK
  <2>2. pc[w] \in {"begin", "status", "provider"} /\ pc'[w] = "release"
    BY <1>5, <1>t DEF AttemptFails, Goto, WorkTypeOK
  <2>3. (Owing(w)' => Owing(w)) /\ CalledAt(w)'
    BY <2>1, <2>2, <1>b, <1>t DEF Owing, CalledAt, WorkTypeOK
  <2>4. QED
    BY <2>1, <2>3, <1>w
<1>6. ASSUME NEW w \in Worker, Commit(w) \/ CommitRaises(w) PROVE CountInv'
  <2>1. UNCHANGED <<begun, phase, job, called>>
        /\ \A v \in Worker \ {w} : Away(v)
    BY <1>6, <1>t DEF Commit, CommitRaises, Goto, Outcome, Away, WorkTypeOK
  <2>2. /\ pc[w] = "commit" /\ phase[w] = "attempt"
        /\ pc' = [pc EXCEPT ![w] = "release"]
    BY <1>6 DEF Commit, CommitRaises, Goto
  <2>3. CalledAt(w)'
    BY <2>2, <1>t DEF CalledAt, WorkTypeOK
  <2>4. \/ w \notin failed /\ WriteSuccess(w)
        \/ UNCHANGED record
    BY <1>6 DEF Commit, CommitRaises
  <2>5. \A v \in Worker \ {w} : result'[v] = result[v]
    BY <1>6, <1>t DEF Commit, CommitRaises, Outcome, WorkTypeOK
  <2>6. CASE w \notin failed /\ WriteSuccess(w)
    <3>1. Budget'
      BY <2>1, <2>2, <2>5, <2>6, <1>t, SuccessCounts
    <3>2. QED
      BY <3>1, <2>1, <2>3, <1>b, AwayKept DEF CountInv
  <2>7. CASE UNCHANGED record
    <3>1. Owing(w)
      BY <2>2, <1>b DEF Owing, CalledAt
    <3>2. QED
      BY <3>1, <2>1, <2>3, <2>7, <1>w
  <2>8. QED
    BY <2>4, <2>6, <2>7
<1>7. ASSUME NEW w \in Worker, Unlock(w) \/ CloseSession(w) \/ Persist(w)
      PROVE  CountInv'
  <2>1. UNCHANGED <<record, begun, job, called, result>>
        /\ \A v \in Worker \ {w} : Away(v)
    BY <1>7, <1>t
    DEF Unlock, CloseSession, Persist, Goto, Away, WorkTypeOK
  <2>2. \/ pc[w] = "release" /\ pc'[w] = "close" /\ phase'[w] = phase[w]
        \/ /\ pc[w] = "close" /\ phase'[w] = phase[w]
           /\ \/ /\ pc'[w] = "persist" /\ phase[w] = "attempt"
                 /\ result[w] \in {"failure", "unknown"}
              \/ pc'[w] = "idle"
        \/ /\ pc[w] = "persist" /\ phase'[w] = "persist"
           /\ pc'[w] \in {"locked", "close", "idle"}
    BY <1>7, <1>t DEF Unlock, CloseSession, Persist, Goto, WorkTypeOK
  <2>3. Owing(w)' => Owing(w)
    BY <2>1, <2>2 DEF Owing
  <2>4. CalledAt(w)'
    BY <2>1, <2>2 DEF CalledAt
  <2>5. QED
    BY <2>1, <2>3, <2>4, <1>w
<1>8. ASSUME NEW w \in Worker, Reread(w) PROVE CountInv'
  <2>1. UNCHANGED <<record, begun, phase, job, called>>
        /\ \A v \in Worker \ {w} : Away(v)
    BY <1>8, <1>t DEF Reread, Goto, Outcome, Away, WorkTypeOK
  <2>2. /\ pc[w] = "locked" /\ phase[w] = "persist"
        /\ pc'[w] \in {"release", "commit"}
    BY <1>8, <1>t DEF Reread, Goto, WorkTypeOK
  <2>3. (Owing(w)' => Owing(w)) /\ CalledAt(w)'
    BY <2>1, <2>2 DEF Owing, CalledAt
  <2>4. QED
    BY <2>1, <2>3, <1>w
<1>9. ASSUME NEW w \in Worker, RecordFailure(w) \/ RecordRaises(w)
      PROVE  CountInv'
  <2>1. UNCHANGED <<begun, phase, job, called, result>>
        /\ \A v \in Worker \ {w} : Away(v)
    BY <1>9, <1>t DEF RecordFailure, RecordRaises, Goto, Away, WorkTypeOK
  <2>2. /\ pc[w] = "commit" /\ phase[w] = "persist"
        /\ pc' = [pc EXCEPT ![w] = "release"]
    BY <1>9 DEF RecordFailure, RecordRaises, Goto
  <2>3. CalledAt(w)' /\ ~Owing(w)'
    BY <2>1, <2>2, <1>t DEF CalledAt, Owing, WorkTypeOK
  <2>4. \/ w \notin failed /\ WriteFailure(w)
        \/ UNCHANGED record
    BY <1>9 DEF RecordFailure, RecordRaises
  <2>5. CASE w \notin failed /\ WriteFailure(w)
    <3>1. Budget'
      BY <2>1, <2>2, <2>5, <1>t, <1>b, RecordCounts
    <3>2. QED
      BY <3>1, <2>1, <2>3, <1>b, AwayKept DEF CountInv
  <2>6. CASE UNCHANGED record
    BY <2>1, <2>3, <2>6, <1>w
  <2>7. QED
    BY <2>4, <2>5, <2>6
<1>10. ASSUME NEW p \in Process, CrashReplica(p) PROVE CountInv'
  <2>1. UNCHANGED <<record, begun, phase, job, called>>
    BY <1>10 DEF CrashReplica
  <2>2. ASSUME NEW v \in Worker
        PROVE  (Owing(v)' => Owing(v) /\ job'[v] = job[v]) /\ CalledAt(v)'
    <3>1. CASE ProcessOf[v] = p
      <4>1. pc'[v] = "idle"
        BY <1>10, <3>1 DEF CrashReplica
      <4>2. QED
        BY <4>1 DEF Owing, CalledAt
    <3>2. CASE ProcessOf[v] # p
      <4>1. Away(v)
        BY <1>10, <2>1, <3>2 DEF CrashReplica, Away
      <4>2. QED
        BY <4>1, <1>b, AwayKept
    <3>3. QED
      BY <3>1, <3>2
  <2>3. QED
    BY <2>1, <2>2, <1>k
<1>11. CASE UNCHANGED workVars
  <2>1. UNCHANGED <<record, begun>> /\ \A v \in Worker : Away(v)
    BY <1>11 DEF workVars, Away
  <2>2. QED
    BY <2>1, <1>k, <1>b, AwayKept
<1>12. (\E s \in Session \ Worker : OtherSession(s)) \/ Fault \/ UNCHANGED allVars
         => UNCHANGED workVars
  BY DEF OtherSession, Fault, allVars
<1>13. QED
  BY <1>1, <1>2, <1>3, <1>4, <1>5, <1>6, <1>7, <1>8, <1>9, <1>10, <1>11, <1>12
  DEF FLNext, Work

(* attempt_count counts no attempt twice, and none that has not begun:      *)
(* neither a commit whose outcome is unknown nor the failure record that    *)
(* follows it counts what the other has counted                             *)
(* (mark_attempt_started, mark_retryable, mark_success).                    *)
THEOREM AttemptsCountedOnceHolds == FLSpec => []AttemptsCountedOnce
<1>1. ASSUME FLInit PROVE CountInv
  <2>1. ASSUME NEW m \in Match
        PROVE  /\ record[m].attempts = 0 /\ begun[m] = 0
               /\ Cardinality(Owed(m)) = 0
    <3>1. Owed(m) = {}
      BY <1>1 DEF FLInit, Owed, Owing
    <3>2. QED
      BY <1>1, <3>1, FS_EmptySet DEF FLInit
  <2>2. \A w \in Worker : CalledAt(w)
    BY <1>1 DEF FLInit, CalledAt
  <2>3. QED
    BY <2>1, <2>2 DEF CountInv, Budget
<1>2. CountInv => AttemptsCountedOnce
  BY DEF CountInv, Budget, AttemptsCountedOnce
<1>3. FLTypeOK /\ FLTypeOK' /\ WriteInv /\ CountInv /\ [FLNext]_allVars
        => CountInv'
  BY CountStep
<1>4. QED
  BY <1>1, <1>2, <1>3, FLTypeCorrect, WriteInvHolds, PTL DEF FLSpec

-----------------------------------------------------------------------------
(* The workers implement LineupFate.                                       *)

\* From finding a row owed to the end of its failure record, a worker works on a
\* row that exists.
Taken(w) ==
    \/ pc[w] \in {"begin", "status", "provider", "commit", "persist"}
    \/ phase[w] = "persist" /\ pc[w] = "locked"
    \/ /\ phase[w] = "attempt" /\ pc[w] \in {"locked", "release", "close"}
       /\ result[w] \in {"failure", "unknown"}

RowsExist == \A w \in Worker : Taken(w) => record[job[w]].state # "NONE"

\* Every row a step writes is one it found.
LEMMA RowsStay ==
    ASSUME WorkTypeOK, [FLNext]_allVars, NEW m \in Match, record[m].state # "NONE"
    PROVE  record'[m].state # "NONE"
<1>1. ASSUME NEW n \in Match, Require(n) PROVE record'[m].state # "NONE"
  BY <1>1 DEF Require, WorkTypeOK
<1>2. ASSUME NEW w \in Worker, WriteSuccess(w) \/ WriteFailure(w)
      PROVE  record'[m].state # "NONE"
  BY <1>2 DEF WriteSuccess, WriteFailure, WorkTypeOK
<1>3. \/ record' = record
      \/ \E n \in Match : Require(n)
      \/ \E w \in Worker : WriteSuccess(w) \/ WriteFailure(w)
  BY DEF FLNext, Work, Start, ReadRecord, ReadRaises, MarkStarted, CallProvider,
         StageSuccess, AttemptFails, Commit, CommitRaises, Unlock, CloseSession,
         Persist, Reread, RecordFailure, RecordRaises,
         OtherSession, Fault, CrashReplica, allVars, workVars
<1>4. QED
  BY <1>1, <1>2, <1>3

\* A worker comes to work on a row only by reading it.
LEMMA TakenStep ==
    ASSUME WorkTypeOK, [FLNext]_allVars, NEW v \in Worker, Taken(v)'
    PROVE  /\ job'[v] = job[v]
           /\ Taken(v) \/ record[job[v]].state \in Pending
<1>t. WorkTypeOK
  OBVIOUS
<1>a. ASSUME UNCHANGED <<pc[v], phase[v], job[v]>>,
             result'[v] = result[v] \/ result'[v] \notin {"failure", "unknown"}
      PROVE  job'[v] = job[v] /\ Taken(v)
  BY <1>a DEF Taken
<1>1. ASSUME NEW m \in Match, Require(m) PROVE job'[v] = job[v] /\ Taken(v)
  BY <1>1, <1>a DEF Require
<1>2. ASSUME NEW w \in Worker, NEW m \in Match, Start(w, m)
      PROVE  job'[v] = job[v] /\ Taken(v)
  <2>1. w # v
    BY <1>2, <1>t DEF Start, Goto, Outcome, Taken, WorkTypeOK
  <2>2. QED
    BY <1>2, <2>1, <1>a, <1>t DEF Start, Goto, Outcome, WorkTypeOK
<1>3. ASSUME NEW w \in Worker, ReadRecord(w)
      PROVE  /\ job'[v] = job[v]
             /\ Taken(v) \/ record[job[v]].state \in Pending
  <2>1. CASE w = v
    BY <1>3, <2>1, <1>t DEF ReadRecord, Goto, Taken, WorkTypeOK
  <2>2. CASE w # v
    BY <1>3, <2>2, <1>a, <1>t DEF ReadRecord, Goto, WorkTypeOK
  <2>3. QED
    BY <2>1, <2>2
<1>4. ASSUME NEW w \in Worker, ReadRaises(w) \/ MarkStarted(w) \/ CallProvider(w) \/ StageSuccess(w)
      PROVE  job'[v] = job[v] /\ Taken(v)
  <2>1. CASE w = v
    BY <1>4, <2>1, <1>t DEF ReadRaises, MarkStarted, CallProvider, StageSuccess, Goto, Taken, WorkTypeOK
  <2>2. CASE w # v
    BY <1>4, <2>2, <1>a, <1>t DEF ReadRaises, MarkStarted, CallProvider, StageSuccess, Goto, WorkTypeOK
  <2>3. QED
    BY <2>1, <2>2
<1>5. ASSUME NEW w \in Worker, AttemptFails(w) \/ Commit(w) \/ CommitRaises(w)
      PROVE  job'[v] = job[v] /\ Taken(v)
  <2>1. CASE w = v
    BY <1>5, <2>1 DEF AttemptFails, Commit, CommitRaises, Taken
  <2>2. CASE w # v
    BY <1>5, <2>2, <1>a, <1>t DEF AttemptFails, Commit, CommitRaises, Goto, Outcome, WorkTypeOK
  <2>3. QED
    BY <2>1, <2>2
<1>6. ASSUME NEW w \in Worker, Unlock(w) \/ CloseSession(w) \/ Persist(w)
      PROVE  job'[v] = job[v] /\ Taken(v)
  <2>1. CASE w = v
    <3>1. UNCHANGED <<job, result>>
      BY <1>6 DEF Unlock, CloseSession, Persist
    <3>2. \/ pc[v] = "release" /\ pc'[v] = "close" /\ phase'[v] = phase[v]
          \/ /\ pc[v] = "close" /\ phase'[v] = phase[v]
             /\ \/ /\ pc'[v] = "persist" /\ phase[v] = "attempt"
                   /\ result[v] \in {"failure", "unknown"}
                \/ pc'[v] = "idle"
          \/ pc[v] = "persist"
      BY <1>6, <2>1, <1>t DEF Unlock, CloseSession, Persist, Goto, WorkTypeOK
    <3>3. QED
      BY <3>1, <3>2 DEF Taken
  <2>2. CASE w # v
    BY <1>6, <2>2, <1>a, <1>t DEF Unlock, CloseSession, Persist, Goto, WorkTypeOK
  <2>3. QED
    BY <2>1, <2>2
<1>7. ASSUME NEW w \in Worker, Reread(w) \/ RecordFailure(w) \/ RecordRaises(w)
      PROVE  job'[v] = job[v] /\ Taken(v)
  <2>1. CASE w = v
    BY <1>7, <2>1 DEF Reread, RecordFailure, RecordRaises, Taken
  <2>2. CASE w # v
    BY <1>7, <2>2, <1>a, <1>t
    DEF Reread, RecordFailure, RecordRaises, Goto, Outcome, WorkTypeOK
  <2>3. QED
    BY <2>1, <2>2
<1>8. ASSUME NEW p \in Process, CrashReplica(p) PROVE job'[v] = job[v] /\ Taken(v)
  <2>1. ProcessOf[v] # p
    BY <1>8, <1>t DEF CrashReplica, Taken, WorkTypeOK
  <2>2. QED
    BY <1>8, <2>1, <1>a, <1>t DEF CrashReplica, WorkTypeOK
<1>9. CASE UNCHANGED workVars
  BY <1>9, <1>a DEF workVars
<1>10. (\E s \in Session \ Worker : OtherSession(s)) \/ Fault \/ UNCHANGED allVars
         => UNCHANGED workVars
  BY DEF OtherSession, Fault, allVars
<1>11. QED
  BY <1>1, <1>2, <1>3, <1>4, <1>5, <1>6, <1>7, <1>8, <1>9, <1>10 DEF FLNext, Work

LEMMA RowsExistHolds == FLSpec => []RowsExist
<1>1. FLInit => RowsExist
  BY DEF FLInit, RowsExist, Taken
<1>2. ASSUME FLTypeOK, RowsExist, [FLNext]_allVars PROVE RowsExist'
  <2> SUFFICES ASSUME NEW v \in Worker, Taken(v)' PROVE record'[job'[v]].state # "NONE"
    BY DEF RowsExist
  <2>1. WorkTypeOK
    BY <1>2 DEF FLTypeOK, WorkTypeOK
  <2>2. job'[v] = job[v] /\ record[job[v]].state # "NONE"
    BY <1>2, <2>1, TakenStep DEF RowsExist, Pending
  <2>3. job[v] \in Match
    BY <2>1 DEF WorkTypeOK
  <2>4. QED
    BY <1>2, <2>1, <2>2, <2>3, RowsStay
<1>3. QED
  BY <1>1, <1>2, FLTypeCorrect, PTL DEF FLSpec

\* A worker that is about to begin or to write has a row that is owed, with the
\* count it has read.
LEMMA RowOwed ==
    ASSUME WorkTypeOK, WriteInv, RowsExist, NEW w \in Worker, Writing(w), w \notin failed
    PROVE  /\ job[w] \in Match /\ Fate!Owed(job[w])
           /\ record[job[w]].attempts = seen[w] /\ seen[w] \in Nat
<1>1. job[w] \in Match /\ record[job[w]].state \in {"NONE", "SUCCESS"} \cup Pending
  BY DEF WorkTypeOK
<1>2. record[job[w]].state # "NONE"
  BY DEF RowsExist, Taken, Writing
<1>3. record[job[w]].state # "SUCCESS" /\ seen[w] = record[job[w]].attempts
  BY WriteInvSafe DEF Safe
<1>4. QED
  BY <1>1, <1>2, <1>3 DEF Fate!Owed, Pending, WorkTypeOK

LEMMA FateSteps ==
    ASSUME FLTypeOK, WriteInv, RowsExist, AttemptsCountedOnce', [FLNext]_allVars
    PROVE  [Fate!Next]_<<record, lineup, begun>>
<1>t. WorkTypeOK
  BY DEF FLTypeOK, WorkTypeOK
<1>1. ASSUME NEW m \in Match, Require(m) PROVE Fate!Next
  BY <1>1 DEF Require, Fate!Require, Fate!Next
<1>2. ASSUME NEW w \in Worker, MarkStarted(w) PROVE Fate!Next
  <2>1. job[w] \in Match /\ Fate!Owed(job[w])
    BY <1>2, <1>t, RowOwed DEF MarkStarted, Writing
  <2>2. QED
    BY <1>2, <2>1 DEF MarkStarted, Fate!Begin, Fate!Next
<1>3. ASSUME NEW w \in Worker, pc[w] = "commit", w \notin failed, WriteSuccess(w),
             UNCHANGED begun
      PROVE  Fate!Next
  <2>1. job[w] \in Match /\ Fate!Owed(job[w]) /\ record[job[w]].attempts = seen[w]
    BY <1>3, <1>t, RowOwed DEF Writing
  <2>2. record'[job[w]].attempts = seen[w] + 1
    BY <1>3, <1>t, <2>1 DEF WriteSuccess, WorkTypeOK
  <2>3. seen[w] + 1 <= begun[job[w]]
    BY <1>3, <2>1, <2>2 DEF AttemptsCountedOnce
  <2>4. QED
    BY <1>3, <2>1, <2>3 DEF WriteSuccess, Fate!Succeed, Fate!Becomes, Fate!Next
<1>4. ASSUME NEW w \in Worker, pc[w] = "commit", w \notin failed, WriteFailure(w),
             UNCHANGED <<lineup, begun>>
      PROVE  Fate!Next
  <2>1. /\ job[w] \in Match /\ Fate!Owed(job[w])
        /\ record[job[w]].attempts = seen[w] /\ seen[w] \in Nat
    BY <1>4, <1>t, RowOwed DEF Writing
  <2>2. PICK n \in {0, 1} :
           record' = [record EXCEPT ![job[w]] =
                        [state |-> "RETRYABLE", attempts |-> seen[w] + n]]
    <3>1. CASE called[w]
      BY <1>4, <3>1 DEF WriteFailure
    <3>2. CASE ~called[w]
      <4>1. seen[w] + 0 = seen[w]
        BY <2>1
      <4>2. QED
        BY <1>4, <3>2, <4>1 DEF WriteFailure
    <3>3. QED
      BY <3>1, <3>2
  <2>3. record'[job[w]].attempts = seen[w] + n
    BY <1>t, <2>1, <2>2 DEF WorkTypeOK
  <2>4. seen[w] + n <= begun[job[w]]
    BY <1>4, <2>1, <2>3 DEF AttemptsCountedOnce
  <2>5. QED
    BY <1>4, <2>1, <2>2, <2>4 DEF Fate!Fail, Fate!Becomes, Fate!Next
<1>5. ASSUME NEW w \in Worker, Commit(w) \/ CommitRaises(w)
      PROVE  [Fate!Next]_<<record, lineup, begun>>
  <2>1. \/ UNCHANGED <<record, lineup, begun>>
        \/ pc[w] = "commit" /\ w \notin failed /\ WriteSuccess(w) /\ UNCHANGED begun
    BY <1>5 DEF Commit, CommitRaises
  <2>2. QED
    BY <1>3, <2>1
<1>6. ASSUME NEW w \in Worker, RecordFailure(w) \/ RecordRaises(w)
      PROVE  [Fate!Next]_<<record, lineup, begun>>
  <2>1. \/ UNCHANGED <<record, lineup, begun>>
        \/ /\ pc[w] = "commit" /\ w \notin failed /\ WriteFailure(w)
           /\ UNCHANGED <<lineup, begun>>
    BY <1>6 DEF RecordFailure, RecordRaises
  <2>2. QED
    BY <1>4, <2>1
<1>7. \/ UNCHANGED <<record, lineup, begun>>
      \/ \E m \in Match : Require(m)
      \/ \E w \in Worker : \/ MarkStarted(w) \/ Commit(w) \/ CommitRaises(w)
                           \/ RecordFailure(w) \/ RecordRaises(w)
  BY DEF FLNext, Work, Start, ReadRecord, ReadRaises, CallProvider, StageSuccess, AttemptFails, Unlock,
         CloseSession, Persist, Reread, OtherSession, Fault, CrashReplica, allVars, workVars
<1>8. QED
  BY <1>1, <1>2, <1>5, <1>6, <1>7

(* The finalisation workers implement LineupFate: with any number of them,  *)
(* and any failures, rows are written as if one worker at a time began an   *)
(* attempt and wrote down what came of it (_run_final_lineup_attempt,      *)
(* _record_final_lineup_failure, final_lineup_finalization_repository.py).  *)
THEOREM ImplementsLineupFate == FLSpec => RefinesLineupFate
<1>1. FLInit => Fate!Init
  BY DEF FLInit, Fate!Init
<1>2. FLTypeOK /\ WriteInv /\ RowsExist /\ AttemptsCountedOnce' /\ [FLNext]_allVars
        => [Fate!Next]_<<record, lineup, begun>>
  BY FateSteps
<1>3. QED
  BY <1>1, <1>2, FLTypeCorrect, WriteInvHolds, RowsExistHolds, AttemptsCountedOnceHolds,
     PTL DEF FLSpec, RefinesLineupFate, Fate!Spec
=============================================================================
