---------------------------- MODULE MatchDataProofs ----------------------------
(***************************************************************************)
(* Proofs about MatchData: refreshes that commit their own transaction     *)
(* replace one another's rows and never store an older answer, for any     *)
(* number of jobs, routes, fixture syncs and readers.                      *)
(***************************************************************************)
EXTENDS MatchData, TLAPS

Rows == [ver: Nat, by: Syncer, whole: BOOLEAN]
Label == {"idle", "locked", "fetched", "write", "insert", "written", "open",
          "undo", "purge"}

LEMMA BatchType ==
    ASSUME TypeOK, NEW s \in Syncer, NEW whole \in BOOLEAN
    PROVE  Batch(s, whole) \in Rows
BY DEF TypeOK, Batch, Rows, Answer

LEMMA EndsType ==
    ASSUME TypeOK, NEW s \in Syncer, NEW label \in Label, Ends(s, label)
    PROVE  /\ kind' \in Kind /\ answer' \in Answer
           /\ guard' \in [Syncer -> SUBSET {"match"}]
           /\ pc' \in [Syncer -> Label]
           /\ got' \in [Syncer -> Answer]
           /\ target' \in [Syncer -> SUBSET Rows]
           /\ gone' \in [Syncer -> SUBSET Rows]
           /\ added' \in [Syncer -> SUBSET Rows]
<1>1. NoAnswer \in Answer
  BY DEF NoAnswer, Answer
<1>2. QED
  BY <1>1 DEF Ends, TypeOK, Unguard, Goto, Label, Rows

LEMMA WriteType ==
    ASSUME TypeOK, NEW s \in Syncer, WriteRows(s)
    PROVE  /\ rows' \in SUBSET Rows
           /\ cache' \in Copy
           /\ read' \in [Reader -> Copy]
BY DEF WriteRows, RowsAfter, Overtaken, Copy, TypeOK, Rows

LEMMA TypeStep == TypeOK /\ [Next]_vars => TypeOK'
<1> SUFFICES ASSUME TypeOK, [Next]_vars PROVE TypeOK'
  OBVIOUS
<1> USE DEF TypeOK, Goto, Unguard, Rows, Label
<1>1. CASE ProviderChanges
  BY <1>1 DEF ProviderChanges, syncVars, Answer
<1>2. CASE Expire
  BY <1>2 DEF Expire, syncVars, Copy
<1>3. ASSUME NEW s \in Syncer, Begin(s) \/ Skip(s) \/ FetchFails(s) PROVE TypeOK'
  BY <1>3 DEF Begin, Mutex!Enter, Skip, FetchFails
<1>4. ASSUME NEW s \in Syncer, Fetch(s) PROVE TypeOK'
  BY <1>4 DEF Fetch
<1>5. ASSUME NEW s \in Syncer, Look(s) \/ Delete(s) PROVE TypeOK'
  BY <1>5 DEF Look, Delete
<1>6. ASSUME NEW s \in Syncer, Insert(s) PROVE TypeOK'
  <2>1. Batch(s, TRUE) \in Rows
    BY BatchType
  <2>2. PICK same \in SUBSET rows : gone' = [gone EXCEPT ![s] = @ \cup same]
    BY <1>6 DEF Insert
  <2>3. gone' \in [Syncer -> SUBSET Rows]
    BY <2>2
  <2>4. \E new \in SUBSET Rows : added' = [added EXCEPT ![s] = new]
    <3>1. {Batch(s, TRUE)} \in SUBSET Rows /\ {} \in SUBSET Rows
      BY <2>1
    <3>2. added' = [added EXCEPT ![s] = {Batch(s, TRUE)}]
             \/ added' = [added EXCEPT ![s] = {}]
      BY <1>6 DEF Insert
    <3>3. QED
      BY <3>1, <3>2
  <2>5. added' \in [Syncer -> SUBSET Rows]
    BY <2>4
  <2>6. QED
    BY <1>6, <2>3, <2>5 DEF Insert
<1>7. ASSUME NEW s \in Syncer, Store(s) PROVE TypeOK'
  <2>1. Batch(s, TRUE) \in Rows
    BY BatchType
  <2>2. {Batch(s, TRUE)} \in SUBSET Rows
    BY <2>1
  <2>3. \/ UNCHANGED <<gone, added>>
        \/ /\ gone' = [gone EXCEPT ![s] = rows]
           /\ added' = [added EXCEPT ![s] = {Batch(s, TRUE)}]
    BY <1>7 DEF Store
  <2>4. \E new \in SUBSET Rows : added' = [added EXCEPT ![s] = new]
    <3>1. added = [added EXCEPT ![s] = added[s]] /\ added[s] \in SUBSET Rows
      OBVIOUS
    <3>2. QED
      BY <2>2, <2>3, <3>1
  <2>5. added' \in [Syncer -> SUBSET Rows]
    BY <2>4
  <2>6. gone' \in [Syncer -> SUBSET Rows]
    BY <2>3
  <2>7. QED
    BY <1>7, <2>5, <2>6 DEF Store
<1>8. ASSUME NEW s \in Syncer, WriteFails(s) \/ Unlock(s) PROVE TypeOK'
  BY <1>8 DEF WriteFails, Unlock
<1>9. ASSUME NEW s \in Syncer, NestedWriteFails(s) PROVE TypeOK'
  <2>1. Batch(s, FALSE) \in Rows
    BY BatchType
  <2>2. \E new \in SUBSET Rows : added' = [added EXCEPT ![s] = new]
    <3>1. SUBSET {Batch(s, FALSE)} \subseteq SUBSET Rows /\ {} \in SUBSET Rows
      BY <2>1
    <3>2. QED
      BY <1>9, <3>1 DEF NestedWriteFails
  <2>3. added' \in [Syncer -> SUBSET Rows]
    BY <2>2
  <2>4. gone' \in [Syncer -> SUBSET Rows]
    BY <1>9 DEF NestedWriteFails
  <2>5. QED
    BY <1>9, <2>3, <2>4 DEF NestedWriteFails
<1>10. ASSUME NEW s \in Syncer, Rollback(s) PROVE TypeOK'
  BY <1>10, EndsType DEF Rollback
<1>11. ASSUME NEW s \in Syncer, Commit(s) PROVE TypeOK'
  BY <1>11, EndsType, WriteType DEF Commit
<1>12. ASSUME NEW s \in Syncer, Crash(s) PROVE TypeOK'
  BY <1>12, EndsType, WriteType DEF Crash
<1>13. ASSUME NEW s \in Syncer, Purge(s) PROVE TypeOK'
  BY <1>13 DEF Purge, Copy
<1>14. ASSUME NEW r \in Reader, Load(r) \/ Fill(r) PROVE TypeOK'
  BY <1>14 DEF Load, Fill, syncVars, Copy
<1>15. CASE UNCHANGED vars
  BY <1>15 DEF vars
<1>16. QED
  BY <1>1, <1>2, <1>3, <1>4, <1>5, <1>6, <1>7, <1>8, <1>9, <1>10, <1>11, <1>12,
     <1>13, <1>14, <1>15 DEF Next, Sync

(* The variables keep their types (event_sync_service.py:66-96,             *)
(* odds_sync_service.py:33-99, statistics_sync_service.py:26-48).           *)
THEOREM TypeCorrect == Spec => []TypeOK
<1>1. Init => TypeOK
  BY DEF Init, TypeOK, Answer, NoAnswer, Copy
<1>2. QED
  BY <1>1, TypeStep, PTL DEF Spec
-----------------------------------------------------------------------------
(* The inductive invariant.                                                *)

Fetched == {"fetched", "write", "insert", "written"}

\* A sync holds the lock from its acquisition to the end of its write, and no
\* two syncs hold it.
Locked ==
    /\ \A s \in Syncer : pc[s] \in Fetched \cup {"locked"} => guard[s] # {}
    /\ \A s, t \in Syncer : guard[s] # {} /\ guard[t] # {} => s = t

\* What a sync has written is one batch of its own, from the answer it fetched.
Written ==
    \A s \in Syncer :
        /\ pc[s] \notin {"written", "open", "undo"} => added[s] = {}
        /\ pc[s] \in {"idle", "locked", "fetched", "write", "purge"} => gone[s] = {}
        /\ \A b \in added[s] : b.by = s /\ b.ver = got[s].ver
        /\ \A a, b \in added[s] : a = b

\* No row, written or committed, is ahead of the provider, nor of the answer of
\* a sync that is about to write.
InOrder ==
    /\ \A b \in rows : b.ver <= answer.ver
    /\ \A t \in Syncer : \A b \in added[t] : b.ver <= answer.ver
    /\ \A s \in Syncer : pc[s] \in Fetched =>
          /\ got[s].ver <= answer.ver
          /\ \A b \in rows : b.ver <= got[s].ver
          /\ \A t \in Syncer : \A b \in added[t] : b.ver <= got[s].ver

NestedOnly(R) == \A b \in R : b.by \in Nested

\* A refresh of its own leaves no committed row of another one beside its own.
Replacing ==
    \A s \in Syncer \ Nested :
        /\ pc[s] = "write" => NestedOnly(rows \ target[s])
        /\ pc[s] = "insert" => NestedOnly(rows \ gone[s])
        /\ pc[s] = "written" /\ added[s] # {} => NestedOnly(rows \ gone[s])

IndInv == TypeOK /\ Locked /\ Written /\ InOrder /\ Replacing /\ MixedOnlyByNested

LEMMA LockedStep == ASSUME IndInv, [Next]_vars PROVE Locked'
<1> USE DEF IndInv, TypeOK, Locked, Fetched, Goto, Unguard
<1>1. ASSUME NEW s \in Syncer, Begin(s) PROVE Locked'
  BY <1>1 DEF Begin, Mutex!Enter
<1>2. ASSUME NEW s \in Syncer, Skip(s) \/ NestedWriteFails(s) PROVE Locked'
  BY <1>2 DEF Skip, NestedWriteFails
<1>3. ASSUME NEW s \in Syncer, Fetch(s) PROVE Locked'
  BY <1>3 DEF Fetch
<1>4. ASSUME NEW s \in Syncer, FetchFails(s) \/ Unlock(s) PROVE Locked'
  BY <1>4 DEF FetchFails, Unlock
<1>5. ASSUME NEW s \in Syncer,
             Look(s) \/ Delete(s) \/ Insert(s) \/ Store(s) \/ WriteFails(s)
      PROVE  Locked'
  <2>1. /\ guard' = guard /\ pc[s] \in Fetched
        /\ \E label : pc' = [pc EXCEPT ![s] = label]
    BY <1>5 DEF Look, Delete, Insert, Store, WriteFails
  <2>2. QED
    BY <2>1
<1>6. ASSUME NEW s \in Syncer, NEW label \in {"idle", "purge"}, Ends(s, label)
      PROVE  Locked'
  BY <1>6 DEF Ends
<1>7. ASSUME NEW s \in Syncer, Rollback(s) \/ Commit(s) \/ Crash(s) PROVE Locked'
  BY <1>7, <1>6 DEF Rollback, Commit, Crash
<1>8. ASSUME NEW s \in Syncer, Purge(s) PROVE Locked'
  BY <1>8 DEF Purge
<1>9. ASSUME UNCHANGED <<pc, guard>> PROVE Locked'
  BY <1>9
<1>10. CASE ProviderChanges \/ Expire \/ \E r \in Reader : Load(r) \/ Fill(r)
  BY <1>9, <1>10 DEF ProviderChanges, Expire, Load, Fill, syncVars
<1>11. CASE UNCHANGED vars
  BY <1>9, <1>11 DEF vars
<1>12. QED
  BY <1>1, <1>2, <1>3, <1>4, <1>5, <1>7, <1>8, <1>10, <1>11 DEF Next, Sync

LEMMA WrittenStep == ASSUME IndInv, [Next]_vars PROVE Written'
<1> USE DEF IndInv, TypeOK, Written, Goto
<1>1. ASSUME NEW s \in Syncer, Begin(s) \/ Skip(s) \/ FetchFails(s) PROVE Written'
  BY <1>1 DEF Begin, Skip, FetchFails
<1>2. ASSUME NEW s \in Syncer, Fetch(s) PROVE Written'
  BY <1>2 DEF Fetch
<1>3. ASSUME NEW s \in Syncer, Look(s) \/ Delete(s) PROVE Written'
  BY <1>3 DEF Look, Delete
<1>b. ASSUME NEW s \in Syncer, NEW whole \in BOOLEAN
      PROVE  Batch(s, whole).by = s /\ Batch(s, whole).ver = got[s].ver
  BY DEF Batch
<1>4. ASSUME NEW s \in Syncer, NEW label \in {"written", "open"},
             NEW whole \in BOOLEAN, NEW new \in SUBSET {Batch(s, whole)},
             added' = [added EXCEPT ![s] = new], pc' = [pc EXCEPT ![s] = label],
             NEW g, gone' = [gone EXCEPT ![s] = g], got' = got
      PROVE  Written'
  BY <1>4, <1>b
<1>5. ASSUME NEW s \in Syncer, Insert(s) PROVE Written'
  <2>1. PICK new \in SUBSET {Batch(s, TRUE)} : added' = [added EXCEPT ![s] = new]
    BY <1>5 DEF Insert
  <2>2. PICK g : gone' = [gone EXCEPT ![s] = g]
    BY <1>5 DEF Insert
  <2>3. pc' = [pc EXCEPT ![s] = "written"] /\ got' = got
    BY <1>5 DEF Insert
  <2>4. QED
    BY <1>4, <2>1, <2>2, <2>3
<1>6. ASSUME NEW s \in Syncer, Store(s) PROVE Written'
  <2>1. CASE target[s] = {} /\ rows # {}
    BY <1>6, <2>1 DEF Store
  <2>2. CASE ~(target[s] = {} /\ rows # {})
    <3>1. PICK new \in SUBSET {Batch(s, TRUE)} : added' = [added EXCEPT ![s] = new]
      BY <1>6, <2>2 DEF Store
    <3>2. PICK g : gone' = [gone EXCEPT ![s] = g]
      BY <1>6, <2>2 DEF Store
    <3>3. pc' = [pc EXCEPT ![s] = "written"] /\ got' = got
      BY <1>6, <2>2 DEF Store
    <3>4. QED
      BY <1>4, <3>1, <3>2, <3>3
  <2>3. QED
    BY <2>1, <2>2
<1>7. ASSUME NEW s \in Syncer, WriteFails(s) \/ Unlock(s) PROVE Written'
  BY <1>7 DEF WriteFails, Unlock
<1>8. ASSUME NEW s \in Syncer, NestedWriteFails(s) PROVE Written'
  <2>1. PICK new \in SUBSET {Batch(s, FALSE)} : added' = [added EXCEPT ![s] = new]
    BY <1>8 DEF NestedWriteFails
  <2>2. PICK g : gone' = [gone EXCEPT ![s] = g]
    <3>1. gone = [gone EXCEPT ![s] = gone[s]]
      OBVIOUS
    <3>2. QED
      BY <1>8, <3>1 DEF NestedWriteFails
  <2>3. pc' = [pc EXCEPT ![s] = "open"] /\ got' = got
    BY <1>8 DEF NestedWriteFails
  <2>4. QED
    BY <1>4, <2>1, <2>2, <2>3
<1>9. ASSUME NEW s \in Syncer, NEW label \in {"idle", "purge"}, Ends(s, label)
      PROVE  Written'
  BY <1>9 DEF Ends
<1>10. ASSUME NEW s \in Syncer, Rollback(s) \/ Commit(s) \/ Crash(s) PROVE Written'
  BY <1>10, <1>9 DEF Rollback, Commit, Crash
<1>11. ASSUME NEW s \in Syncer, Purge(s) PROVE Written'
  BY <1>11 DEF Purge
<1>12. ASSUME UNCHANGED <<pc, added, gone, got>> PROVE Written'
  BY <1>12
<1>13. CASE ProviderChanges \/ Expire \/ \E r \in Reader : Load(r) \/ Fill(r)
  BY <1>12, <1>13 DEF ProviderChanges, Expire, Load, Fill, syncVars
<1>14. CASE UNCHANGED vars
  BY <1>12, <1>14 DEF vars
<1>15. QED
  BY <1>1, <1>2, <1>3, <1>5, <1>6, <1>7, <1>8, <1>10, <1>11, <1>13, <1>14
  DEF Next, Sync

\* How rows change: a sync stores what it has written, at its commit point.
Stores(s) ==
    /\ AtCommit(s)
    /\ rows' = RowsAfter(s)
    /\ \E label \in {"idle", "purge"} : Ends(s, label)

LEMMA WhoStores ==
    ASSUME [Next]_vars
    PROVE  UNCHANGED rows \/ \E s \in Syncer : Stores(s)
<1>1. ASSUME NEW s \in Syncer, Commit(s) \/ Crash(s)
      PROVE  UNCHANGED rows \/ Stores(s)
  BY <1>1 DEF Commit, Crash, Stores, WriteRows
<1>2. QED
  BY <1>1
  DEF Next, Sync, vars, syncVars, ProviderChanges, Expire, Begin, Skip, Fetch,
      FetchFails, Look, Delete, Insert, Store, WriteFails, NestedWriteFails,
      Unlock, Rollback, Purge, Load, Fill

\* A row that a step stores was written by the sync that stores it.
LEMMA NewRows ==
    ASSUME IndInv, NEW s \in Syncer, Stores(s), NEW b \in rows' \ rows
    PROVE  b \in added[s] /\ b.by = s /\ b.ver = got[s].ver
BY DEF Stores, RowsAfter, IndInv, Written

LEMMA InOrderStep == ASSUME IndInv, [Next]_vars PROVE InOrder'
<1> USE DEF IndInv, InOrder
<1>t. /\ answer.ver \in Nat /\ answer \in Answer
      /\ \A b \in rows : b.ver \in Nat
      /\ \A s \in Syncer : got[s].ver \in Nat /\ got[s] \in Answer
      /\ \A s \in Syncer : \A b \in added[s] : b.ver \in Nat
      /\ pc \in [Syncer -> Label] /\ got \in [Syncer -> Answer]
      /\ added \in [Syncer -> SUBSET Rows]
  BY DEF TypeOK, Answer, Rows, Label
<1>1. CASE ProviderChanges
  <2>1. answer'.ver = answer.ver + 1 /\ UNCHANGED <<rows, added, got, pc>>
    BY <1>1, <1>t DEF ProviderChanges, syncVars
  <2>2. QED
    BY <2>1, <1>t
<1>2. ASSUME NEW s \in Syncer, Fetch(s) PROVE InOrder'
  BY <1>2, <1>t DEF Fetch, Goto, Fetched
\* Steps that write nothing new and let no sync begin to write.
<1>3. ASSUME UNCHANGED <<rows, answer, got>>,
             \A t \in Syncer : added'[t] \subseteq added[t],
             \A t \in Syncer : pc'[t] \in Fetched => pc[t] \in Fetched
      PROVE  InOrder'
  BY <1>3
<1>4. ASSUME NEW s \in Syncer, pc[s] \in Fetched, UNCHANGED <<rows, answer, got>>,
             NEW label, pc' = [pc EXCEPT ![s] = label],
             NEW whole \in BOOLEAN, NEW new \in SUBSET {Batch(s, whole)},
             added' = [added EXCEPT ![s] = new]
      PROVE  InOrder'
  <2>1. \A b \in added'[s] : b.ver = got[s].ver
    BY <1>4, <1>t DEF Batch
  <2>2. \A t \in Syncer \ {s} : added'[t] = added[t] /\ pc[t] \notin Fetched
                                 /\ pc'[t] = pc[t]
    BY <1>4, <1>t DEF Locked
  <2>3. QED
    BY <1>4, <2>1, <2>2, <1>t
<1>5. ASSUME NEW s \in Syncer, Insert(s) PROVE InOrder'
  <2>1. PICK new \in SUBSET {Batch(s, TRUE)} : added' = [added EXCEPT ![s] = new]
    BY <1>5 DEF Insert
  <2>2. /\ pc[s] \in Fetched /\ pc' = [pc EXCEPT ![s] = "written"]
        /\ UNCHANGED <<rows, answer, got>>
    BY <1>5 DEF Insert, Goto, Fetched
  <2>3. QED
    BY <1>4, <2>1, <2>2
<1>6. ASSUME NEW s \in Syncer, Store(s) PROVE InOrder'
  <2>1. pc[s] \in Fetched /\ UNCHANGED <<rows, answer, got>>
    BY <1>6 DEF Store, Fetched
  <2>2. CASE target[s] = {} /\ rows # {}
    <3>1. pc' = [pc EXCEPT ![s] = "undo"] /\ added' = added
      BY <1>6, <2>2 DEF Store, Goto
    <3>2. QED
      BY <1>3, <2>1, <3>1, <1>t DEF Fetched
  <2>3. CASE ~(target[s] = {} /\ rows # {})
    <3>1. PICK new \in SUBSET {Batch(s, TRUE)} : added' = [added EXCEPT ![s] = new]
      BY <1>6, <2>3 DEF Store
    <3>2. pc' = [pc EXCEPT ![s] = "written"]
      BY <1>6, <2>3 DEF Store, Goto
    <3>3. QED
      BY <1>4, <2>1, <3>1, <3>2
  <2>4. QED
    BY <2>2, <2>3
<1>7. ASSUME NEW s \in Syncer, NestedWriteFails(s) PROVE InOrder'
  <2>1. PICK new \in SUBSET {Batch(s, FALSE)} : added' = [added EXCEPT ![s] = new]
    BY <1>7 DEF NestedWriteFails
  <2>2. /\ pc[s] \in Fetched /\ pc' = [pc EXCEPT ![s] = "open"]
        /\ UNCHANGED <<rows, answer, got>>
    BY <1>7 DEF NestedWriteFails, Goto, Fetched
  <2>3. QED
    BY <1>4, <2>1, <2>2
<1>8. ASSUME NEW s \in Syncer, NEW label \in {"idle", "purge"}, Ends(s, label),
             rows' \subseteq rows \cup added[s]
      PROVE  InOrder'
  <2>1. /\ UNCHANGED answer
        /\ \A t \in Syncer : added'[t] \subseteq added[t]
        /\ \A t \in Syncer : pc'[t] \in Fetched => t # s /\ pc[t] \in Fetched
                                                    /\ got'[t] = got[t]
    BY <1>8, <1>t DEF Ends, Goto, Fetched
  <2>2. QED
    BY <1>8, <2>1
<1>9. ASSUME NEW s \in Syncer, Rollback(s) \/ Commit(s) \/ Crash(s) PROVE InOrder'
  <2>1. rows' \subseteq rows \cup added[s]
    BY <1>9 DEF Rollback, Commit, Crash, WriteRows, RowsAfter
  <2>2. Ends(s, "idle") \/ Ends(s, "purge")
    BY <1>9 DEF Rollback, Commit, Crash
  <2>3. QED
    BY <1>8, <2>1, <2>2
<1>10. ASSUME NEW s \in Syncer,
              \/ Begin(s) \/ Skip(s) \/ FetchFails(s) \/ Look(s) \/ Delete(s)
              \/ WriteFails(s) \/ Unlock(s) \/ Purge(s)
       PROVE  InOrder'
  <2>1. UNCHANGED <<rows, answer, got, added>>
    BY <1>10
    DEF Begin, Skip, FetchFails, Look, Delete, WriteFails, Unlock, Purge
  <2>2. \A t \in Syncer : pc'[t] \in Fetched => pc[t] \in Fetched
    BY <1>10, <1>t
    DEF Begin, Skip, FetchFails, Look, Delete, WriteFails, Unlock, Purge, Goto,
        Fetched
  <2>3. QED
    BY <1>3, <2>1, <2>2
<1>11. CASE Expire \/ (\E r \in Reader : Load(r) \/ Fill(r)) \/ UNCHANGED vars
  <2>1. UNCHANGED <<rows, answer, got, added, pc>>
    BY <1>11 DEF Expire, Load, Fill, syncVars, vars
  <2>2. QED
    BY <1>3, <2>1
<1>12. QED
  BY <1>1, <1>2, <1>5, <1>6, <1>7, <1>9, <1>10, <1>11 DEF Next, Sync

LEMMA ReplacingStep == ASSUME IndInv, [Next]_vars PROVE Replacing'
<1> USE DEF IndInv, Replacing, NestedOnly
<1>t. /\ pc \in [Syncer -> Label]
      /\ target \in [Syncer -> SUBSET Rows]
      /\ gone \in [Syncer -> SUBSET Rows]
      /\ added \in [Syncer -> SUBSET Rows]
  BY DEF TypeOK, Rows, Label
<1> SUFFICES ASSUME NEW s \in Syncer \ Nested, pc'[s] \in {"write", "insert", "written"}
             PROVE  /\ pc'[s] = "write" => NestedOnly(rows' \ target'[s])
                    /\ pc'[s] = "insert" => NestedOnly(rows' \ gone'[s])
                    /\ pc'[s] = "written" /\ added'[s] # {}
                          => NestedOnly(rows' \ gone'[s])
  OBVIOUS
<1> DEFINE Goal == /\ pc'[s] = "write" => NestedOnly(rows' \ target'[s])
                   /\ pc'[s] = "insert" => NestedOnly(rows' \ gone'[s])
                   /\ pc'[s] = "written" /\ added'[s] # {}
                         => NestedOnly(rows' \ gone'[s])
<1>1. ASSUME NEW t \in Syncer, Stores(t) PROVE Goal
  <2>1. t # s
    BY <1>1, <1>t DEF Stores, Ends, Goto
  <2>2. UNCHANGED <<pc[s], target[s], gone[s], added[s]>>
    BY <1>1, <2>1, <1>t DEF Stores, Ends, Goto, TypeOK
  <2>3. t \in Nested
    <3>1. guard[s] # {}
      BY <2>2 DEF Locked, Fetched
    <3>2. pc[t] # "written"
      BY <2>1, <3>1 DEF Locked, Fetched
    <3>3. QED
      BY <1>1, <3>2 DEF Stores, AtCommit
  <2>4. NestedOnly(rows' \ rows)
    BY <1>1, <2>3, NewRows
  <2>5. QED
    BY <2>2, <2>4
<1>2. CASE UNCHANGED rows
  <2>1. ASSUME UNCHANGED <<pc[s], target[s], gone[s], added[s]>> PROVE Goal
    BY <1>2, <2>1
  <2>2. CASE Look(s)
    BY <1>2, <2>2, <1>t DEF Look, Goto
  <2>3. CASE Delete(s)
    BY <1>2, <2>3, <1>t DEF Delete, Goto
  <2>4. CASE Insert(s)
    <3>1. pc[s] = "insert" /\ pc'[s] = "written" /\ gone[s] \subseteq gone'[s]
      BY <2>4, <1>t DEF Insert, Goto
    <3>2. QED
      BY <1>2, <3>1
  <2>5. CASE Store(s)
    <3>1. pc'[s] = "written" => gone'[s] = rows
      BY <2>5, <1>t DEF Store, Goto
    <3>2. pc'[s] # "write" /\ pc'[s] # "insert"
      BY <2>5, <1>t DEF Store, Goto
    <3>3. QED
      BY <1>2, <3>1, <3>2
  <2>6. CASE Fetch(s)
    <3>1. pc'[s] \notin {"write", "insert"} /\ added'[s] = {}
      BY <2>6, <1>t DEF Fetch, Goto, Written
    <3>2. QED
      BY <3>1
  <2>7. ASSUME \/ Begin(s) \/ Skip(s) \/ FetchFails(s) \/ WriteFails(s)
               \/ NestedWriteFails(s) \/ Unlock(s) \/ Rollback(s) \/ Commit(s)
               \/ Purge(s) \/ Crash(s)
        PROVE  FALSE
    BY <2>7, <1>t
    DEF Begin, Skip, FetchFails, WriteFails, NestedWriteFails, Unlock, Rollback,
        Commit, Purge, Crash, Ends, Goto
  <2>8. ASSUME NEW t \in Syncer, t # s, Sync(t)
        PROVE  UNCHANGED <<pc[s], target[s], gone[s], added[s]>>
    <3>1. UNCHANGED <<pc[s], target[s]>>
      BY <2>8, <1>t
      DEF Sync, Begin, Skip, Fetch, FetchFails, Look, Delete, Insert, Store,
          WriteFails, NestedWriteFails, Unlock, Rollback, Commit, Purge, Crash,
          Ends, Goto
    <3>2. UNCHANGED <<gone[s], added[s]>>
      BY <2>8, <1>t
      DEF Sync, Begin, Skip, Fetch, FetchFails, Look, Delete, Insert, Store,
          WriteFails, NestedWriteFails, Unlock, Rollback, Commit, Purge, Crash,
          Ends
    <3>3. QED
      BY <3>1, <3>2
  <2>9. ASSUME \/ ProviderChanges \/ Expire \/ UNCHANGED vars
               \/ \E r \in Reader : Load(r) \/ Fill(r)
        PROVE  UNCHANGED <<pc[s], target[s], gone[s], added[s]>>
    BY <2>9 DEF ProviderChanges, Expire, Load, Fill, syncVars, vars
  <2>10. Sync(s) => Goal
    BY <2>2, <2>3, <2>4, <2>5, <2>6, <2>7 DEF Sync
  <2>11. QED
    BY <2>1, <2>8, <2>9, <2>10 DEF Next
<1>3. QED
  BY <1>1, <1>2, WhoStores

LEMMA MixedStep == ASSUME IndInv, [Next]_vars PROVE MixedOnlyByNested'
<1> USE DEF IndInv, MixedOnlyByNested
<1>1. CASE UNCHANGED rows
  BY <1>1
<1>2. ASSUME NEW s \in Syncer, Stores(s) PROVE MixedOnlyByNested'
  <2>1. rows' = (rows \ gone[s]) \cup added[s]
    BY <1>2 DEF Stores, RowsAfter
  <2>2. \A b \in added[s] : b.by = s
    BY DEF Written
  <2>3. CASE s \in Nested
    BY <2>1, <2>2, <2>3
  <2>4. CASE s \notin Nested
    <3>1. added[s] # {} => NestedOnly(rows \ gone[s])
      BY <1>2, <2>4 DEF Stores, AtCommit, Replacing
    <3>2. \A a, b \in added[s] : a = b
      BY DEF Written
    <3>3. QED
      BY <2>1, <3>1, <3>2 DEF NestedOnly
  <2>5. QED
    BY <2>3, <2>4
<1>3. QED
  BY <1>1, <1>2, WhoStores

LEMMA IndInvHolds == Spec => []IndInv
<1>1. Init => IndInv
  <2>1. Init => TypeOK
    BY DEF Init, TypeOK, Answer, NoAnswer, Copy
  <2>2. Init => Locked /\ Written
    BY DEF Init, Locked, Written, Fetched
  <2>3. Init => InOrder /\ Replacing /\ MixedOnlyByNested
    BY DEF Init, InOrder, Replacing, MixedOnlyByNested, Fetched
  <2>4. QED
    BY <2>1, <2>2, <2>3 DEF IndInv
<1>2. IndInv /\ [Next]_vars => IndInv'
  BY TypeStep, LockedStep, WrittenStep, InOrderStep, ReplacingStep, MixedStep
  DEF IndInv
<1>3. QED
  BY <1>1, <1>2, PTL DEF Spec

(* Rows of two answers lie side by side only when a fixture sync has stored *)
(* one of them (event_repository.py:21-49, odds_repository.py:31-37,        *)
(* statistics_repository.py:12-20).                                         *)
THEOREM MixedOnlyByNestedHolds == Spec => []MixedOnlyByNested
BY IndInvHolds, PTL DEF IndInv

(* The refresh jobs and routes fetch under the lock, so none of them stores *)
(* an older answer than the rows it finds (scheduler.py:737-789,            *)
(* matches.py:408-435).                                                     *)
THEOREM AnswersMoveForwardHolds == Spec => AnswersMoveForward
<1>1. ASSUME IndInv, [Next]_vars, NEW new \in rows' \ rows, NEW old \in rows,
             new.by \notin Nested
      PROVE  new.ver >= old.ver
  <2>1. PICK s \in Syncer : Stores(s)
    BY <1>1, WhoStores
  <2>2. new.by = s /\ new.ver = got[s].ver
    BY <1>1, <2>1, NewRows
  <2>3. pc[s] \in Fetched
    BY <1>1, <2>1, <2>2 DEF Stores, AtCommit, Fetched
  <2>4. old.ver <= got[s].ver /\ old.ver \in Nat /\ got[s].ver \in Nat
    BY <1>1, <2>3 DEF IndInv, InOrder, TypeOK, Answer
  <2>5. QED
    BY <2>2, <2>4
<1>2. IndInv /\ [Next]_vars
         => [\A new \in rows' \ rows, old \in rows :
                new.by \notin Nested => new.ver >= old.ver]_rows
  BY <1>1
<1>3. QED
  BY <1>2, IndInvHolds, PTL DEF Spec, AnswersMoveForward
=============================================================================
