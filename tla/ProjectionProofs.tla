---------------------------- MODULE ProjectionProofs ----------------------------
(***************************************************************************)
(* Proofs about Projection, for any number of syncs, entries and boards:   *)
(* versions are ordered, committed facts follow the committed source, only *)
(* accepted sources are committed, and lines of odds are kept whole, with  *)
(* labels that read.                                                       *)
(***************************************************************************)
EXTENDS Projection, TLAPS

Busy == {"locked", "fetched", "stored", "written"}

\* What a sync stores and what it has written are functions of the sync.
Shape ==
    /\ got = [s \in Syncer |-> got[s]]
    /\ new = [s \in Syncer |-> new[s]]

\* A sync holds the lock until it commits or fails, and no two hold it.
Locked ==
    /\ \A s \in Syncer : pc[s] \in Busy => guard[s] = {"match"}
    /\ \A s, t \in Syncer : guard[s] # {} /\ guard[t] # {} => s = t

\* The source is written before the projection, and nothing else is.
Order ==
    \A s \in Syncer :
        /\ pc[s] = "stored" => writes[s]
        /\ writes[s] => pc[s] \in {"stored", "written", "undo"}

\* What a sync has fetched is no older than what is committed.
Versions ==
    \A s \in Syncer : pc[s] \in {"fetched", "stored", "written"} =>
        got[s].ver \in source.ver..answer.ver

Accepted(content) ==
    /\ content.flaw \notin {"twice", "invalid"}
    /\ kind \in Resolved => content.rows \subseteq known

\* What is about to be committed was accepted, and its facts are its own, or
\* the ones that are there.
Ready ==
    \A s \in Syncer : pc[s] = "written" /\ writes[s] =>
        /\ Accepted(got[s])
        /\ IF Preserved(got[s]) THEN new[s] = facts
           ELSE new[s] = [ver |-> got[s].ver, rows |-> FactsIn(got[s])]

IndInv ==
    /\ TypeOK /\ Shape /\ Locked /\ Order /\ Versions /\ Ready
    /\ FactsFollowSource /\ SourceIsAccepted

-----------------------------------------------------------------------------
LEMMA AnswerVersion ==
    ASSUME NEW ver \in Nat, NEW a \in Answers(ver)
    PROVE  /\ a.ver = ver
           /\ a = [ver |-> a.ver, rows |-> a.rows, flaw |-> a.flaw]
BY DEF Answers

LEMMA InitInv == Init => IndInv
<1> SUFFICES ASSUME Init PROVE IndInv
  OBVIOUS
<1>1. answer.ver = 1
  BY AnswerVersion DEF Init
<1>2. TypeOK
  BY <1>1, ProjectionAssumption DEF Init, TypeOK, NoSource, Nothing
<1>3. Shape /\ Locked /\ Order /\ Versions /\ Ready
  BY DEF Init, Shape, Locked, Order, Versions, Ready, Busy
<1>4. FactsFollowSource
  BY DEF Init, FactsFollowSource, Preserved, FactsIn, NoSource, Nothing
<1>5. SourceIsAccepted
  BY DEF Init, SourceIsAccepted, NoSource
<1>6. QED
  BY <1>2, <1>3, <1>4, <1>5 DEF IndInv

(* A step that leaves what is committed, known and answered as it is.      *)
LEMMA Quiet ==
    ASSUME UNCHANGED <<kind, known, source, facts>>,
           FactsFollowSource, SourceIsAccepted
    PROVE  FactsFollowSource' /\ SourceIsAccepted'
BY DEF FactsFollowSource, SourceIsAccepted, Preserved, FactsIn

LEMMA ProviderStep == IndInv /\ ProviderChanges => IndInv'
<1> SUFFICES ASSUME IndInv, ProviderChanges PROVE IndInv'
  OBVIOUS
<1>1. answer'.ver = answer.ver + 1 /\ answer' \in Answers(answer.ver + 1)
  <2>1. PICK ver \in Nat : ver = answer.ver + 1
    BY ProjectionAssumption DEF IndInv, TypeOK
  <2>2. PICK a \in Answers(ver) : a = answer'
    BY <2>1 DEF ProviderChanges
  <2>3. QED
    BY <2>1, <2>2, AnswerVersion
<1>2. TypeOK'
  <2>1. (answer \in Answers(answer.ver))'
    BY <1>1 DEF ProviderChanges, Answers
  <2>2. QED
    BY <1>1, <2>1, ProjectionAssumption DEF IndInv, TypeOK, ProviderChanges, syncVars
<1>3. Shape' /\ Locked' /\ Order'
  BY DEF IndInv, ProviderChanges, syncVars, Shape, Locked, Order
<1>4. Versions'
  BY <1>1 DEF IndInv, TypeOK, ProviderChanges, syncVars, Versions
<1>5. Ready'
  BY DEF IndInv, ProviderChanges, syncVars, Ready, Accepted, Preserved, FactsIn
<1>6. FactsFollowSource' /\ SourceIsAccepted'
  BY Quiet DEF IndInv, ProviderChanges
<1>7. QED
  BY <1>2, <1>3, <1>4, <1>5, <1>6 DEF IndInv

LEMMA LearnStep == IndInv /\ Learn => IndInv'
<1> SUFFICES ASSUME IndInv, Learn PROVE IndInv'
  OBVIOUS
<1>1. known \subseteq known' /\ known' \subseteq Entry
  BY DEF Learn, IndInv, TypeOK
<1>2. TypeOK'
  BY <1>1 DEF IndInv, TypeOK, Learn, syncVars, Answers
<1>3. Shape' /\ Locked' /\ Order' /\ Versions'
  BY DEF IndInv, Learn, syncVars, Shape, Locked, Order, Versions
<1>4. Ready'
  BY <1>1 DEF IndInv, Learn, syncVars, Ready, Accepted, Preserved, FactsIn
<1>5. FactsFollowSource'
  BY DEF IndInv, Learn, FactsFollowSource, Preserved, FactsIn
<1>6. SourceIsAccepted'
  BY <1>1 DEF IndInv, Learn, SourceIsAccepted
<1>7. QED
  BY <1>2, <1>3, <1>4, <1>5, <1>6 DEF IndInv

-----------------------------------------------------------------------------
LEMMA BeginStep == ASSUME NEW s \in Syncer, IndInv, Begin(s) PROVE IndInv'
<1>1. /\ guard[s] = {} /\ \A t \in Syncer : guard[t] = {}
      /\ guard' = [guard EXCEPT ![s] = {"match"}]
  BY DEF Begin, Mutex!Enter, IndInv, TypeOK
<1>2. pc' = [pc EXCEPT ![s] = "locked"]
  BY DEF Begin, Goto
<1>3. TypeOK'
  BY <1>1, <1>2 DEF IndInv, TypeOK, Begin, Answers
<1>4. Shape' /\ Order'
  BY <1>2 DEF IndInv, TypeOK, Begin, Shape, Order
<1>5. Locked'
  BY <1>1, <1>2 DEF IndInv, TypeOK, Locked, Busy
<1>6. Versions'
  BY <1>2 DEF IndInv, TypeOK, Begin, Versions
<1>7. Ready'
  BY <1>2 DEF IndInv, TypeOK, Begin, Ready, Accepted, Preserved, FactsIn
<1>8. FactsFollowSource' /\ SourceIsAccepted'
  BY Quiet DEF IndInv, Begin
<1>9. QED
  BY <1>3, <1>4, <1>5, <1>6, <1>7, <1>8 DEF IndInv

(* A step that only moves a sync to a label at which less is required of   *)
(* it, and may give back its lock once it has none of the busy labels.     *)
LEMMA Retreat ==
    ASSUME IndInv, NEW s \in Syncer, NEW label \in {"idle", "undo"},
           pc' = [pc EXCEPT ![s] = label], label = "idle" => ~writes[s],
           guard' = guard \/ guard' = [guard EXCEPT ![s] = {}],
           UNCHANGED <<kind, known, answer, source, facts, got, new, writes>>
    PROVE  IndInv'
<1>1. TypeOK'
  BY DEF IndInv, TypeOK, Answers
<1>2. Shape' /\ Order'
  BY DEF IndInv, TypeOK, Shape, Order
<1>3. Locked'
  BY DEF IndInv, TypeOK, Locked, Busy
<1>4. Versions'
  BY DEF IndInv, TypeOK, Versions
<1>5. Ready'
  BY DEF IndInv, TypeOK, Ready, Accepted, Preserved, FactsIn
<1>6. FactsFollowSource' /\ SourceIsAccepted'
  BY Quiet DEF IndInv
<1>7. QED
  BY <1>1, <1>2, <1>3, <1>4, <1>5, <1>6 DEF IndInv

LEMMA SkipStep == ASSUME NEW s \in Syncer, IndInv, Skip(s) PROVE IndInv'
<1>1. ~writes[s]
  BY DEF IndInv, TypeOK, Order, Skip
<1>2. QED
  BY <1>1, Retreat DEF Skip, Unguard, Goto

LEMMA FailsStep == ASSUME NEW s \in Syncer, IndInv, Fails(s) PROVE IndInv'
BY Retreat DEF Fails, Goto

LEMMA UnlockStep == ASSUME NEW s \in Syncer, IndInv, Unlock(s) PROVE IndInv'
<1>1. pc' = [pc EXCEPT ![s] = "undo"]
  BY DEF Unlock, IndInv, TypeOK
<1>2. QED
  BY <1>1, Retreat DEF Unlock, Unguard

(* What a sync has fetched is of the version of the answer.                *)
LEMMA FetchGets ==
    ASSUME IndInv, NEW s \in Syncer, Fetch(s)
    PROVE  \E content, label :
             /\ got' = [got EXCEPT ![s] = content]
             /\ pc' = [pc EXCEPT ![s] = label]
             /\ label \in {"undo", "written", "fetched"}
             /\ content.ver = answer.ver
<1>1. answer = [ver |-> answer.ver, rows |-> answer.rows, flaw |-> answer.flaw]
  <2>1. PICK ver \in Nat : ver = answer.ver
    BY DEF IndInv, TypeOK
  <2>2. QED
    BY <2>1, AnswerVersion DEF IndInv, TypeOK
<1>2. CASE kind = "odds"
  <2>1. PICK main \in Mains(answer.rows) :
          /\ got' = [got EXCEPT ![s] = [answer EXCEPT !.rows = Kept(@, main)]]
          /\ Goto(s, IF Raises(main) THEN "undo"
                     ELSE IF Kept(answer.rows, main) = {} THEN "written" ELSE "fetched")
    BY <1>2 DEF Fetch, FetchOdds
  <2>2. [answer EXCEPT !.rows = Kept(@, main)].ver = answer.ver
    BY <1>1
  <2>3. QED
    BY <2>1, <2>2 DEF Goto
<1>3. CASE kind # "odds"
  BY <1>3 DEF Fetch, Goto
<1>4. QED
  BY <1>2, <1>3

LEMMA FetchStep == ASSUME NEW s \in Syncer, IndInv, Fetch(s) PROVE IndInv'
<1>1. PICK content, label :
        /\ got' = [got EXCEPT ![s] = content]
        /\ pc' = [pc EXCEPT ![s] = label]
        /\ label \in {"undo", "written", "fetched"}
        /\ content.ver = answer.ver
  BY FetchGets
<1>2. /\ pc[s] = "locked" /\ ~writes[s]
      /\ UNCHANGED <<kind, known, answer, source, facts, guard, new, writes>>
  BY DEF IndInv, TypeOK, Order, Fetch
<1>3. got'[s] = content /\ \A t \in Syncer \ {s} : got'[t] = got[t]
  BY <1>1 DEF IndInv, Shape
<1>4. pc'[s] = label /\ \A t \in Syncer \ {s} : pc'[t] = pc[t]
  BY <1>1 DEF IndInv, TypeOK
<1>5. TypeOK'
  BY <1>1, <1>2 DEF IndInv, TypeOK, Answers
<1>6. Shape'
  BY <1>1, <1>2 DEF IndInv, Shape
<1>7. Order' /\ Locked'
  BY <1>1, <1>2, <1>4 DEF IndInv, Order, Locked, Busy
<1>8. Versions'
  BY <1>1, <1>2, <1>3, <1>4 DEF IndInv, TypeOK, Versions
<1>9. Ready'
  <2>1. \A t \in Syncer : pc'[t] = "written" /\ writes'[t] =>
            t # s /\ pc[t] = "written" /\ writes[t] /\ got'[t] = got[t]
    BY <1>2, <1>3, <1>4
  <2>2. QED
    BY <1>2, <2>1 DEF IndInv, Ready, Accepted, Preserved, FactsIn
<1>10. FactsFollowSource' /\ SourceIsAccepted'
  BY <1>2, Quiet DEF IndInv
<1>11. QED
  BY <1>5, <1>6, <1>7, <1>8, <1>9, <1>10 DEF IndInv

LEMMA StoreStep == ASSUME NEW s \in Syncer, IndInv, Store(s) PROVE IndInv'
<1>1. /\ pc[s] = "fetched"
      /\ pc' = [pc EXCEPT ![s] = "stored"] /\ writes' = [writes EXCEPT ![s] = TRUE]
      /\ UNCHANGED <<kind, known, answer, source, facts, guard, got, new>>
  BY DEF Store, Goto
<1>2. TypeOK'
  BY <1>1 DEF IndInv, TypeOK, Answers
<1>3. Shape' /\ Order'
  BY <1>1 DEF IndInv, TypeOK, Shape, Order
<1>4. Locked'
  BY <1>1 DEF IndInv, TypeOK, Locked, Busy
<1>5. Versions'
  BY <1>1 DEF IndInv, TypeOK, Versions
<1>6. Ready'
  BY <1>1 DEF IndInv, TypeOK, Ready, Accepted, Preserved, FactsIn
<1>7. FactsFollowSource' /\ SourceIsAccepted'
  BY <1>1, Quiet DEF IndInv
<1>8. QED
  BY <1>2, <1>3, <1>4, <1>5, <1>6, <1>7 DEF IndInv

LEMMA ProjectStep == ASSUME NEW s \in Syncer, IndInv, Project(s) PROVE IndInv'
<1>1. CASE Rejected(got[s])
  BY <1>1, Retreat DEF Project, Goto
<1>2. CASE ~Rejected(got[s])
  <2>1. /\ pc[s] = "stored"
        /\ pc' = [pc EXCEPT ![s] = "written"] /\ new' = [new EXCEPT ![s] = Put(got[s])]
        /\ UNCHANGED <<kind, known, answer, source, facts, guard, got, writes>>
    BY <1>2 DEF Project, Goto
  <2>2. TypeOK'
    BY <2>1 DEF IndInv, TypeOK, Answers
  <2>3. Shape' /\ Order'
    BY <2>1 DEF IndInv, TypeOK, Shape, Order
  <2>4. Locked'
    BY <2>1 DEF IndInv, TypeOK, Locked, Busy
  <2>5. Versions'
    BY <2>1 DEF IndInv, TypeOK, Versions
  <2>6. Accepted(got[s])
    BY <1>2 DEF Rejected, Accepted
  <2>7. IF Preserved(got[s]) THEN new'[s] = facts
        ELSE new'[s] = [ver |-> got[s].ver, rows |-> FactsIn(got[s])]
    BY <2>1 DEF IndInv, Shape, Put
  <2>8. \A t \in Syncer \ {s} : pc'[t] = pc[t] /\ new'[t] = new[t]
    BY <2>1 DEF IndInv, TypeOK, Shape
  <2>9. Ready'
    BY <2>1, <2>6, <2>7, <2>8 DEF IndInv, Ready, Accepted, Preserved, FactsIn
  <2>10. FactsFollowSource' /\ SourceIsAccepted'
    BY <2>1, Quiet DEF IndInv
  <2>11. QED
    BY <2>2, <2>3, <2>4, <2>5, <2>9, <2>10 DEF IndInv
<1>3. QED
  BY <1>1, <1>2

-----------------------------------------------------------------------------
(* A sync that ends frees its lock and forgets what it had; what is        *)
(* committed is its own, if it may be, or what it was.                     *)
LEMMA EndsKeeping ==
    ASSUME IndInv, NEW s \in Syncer, Ends(s), UNCHANGED <<source, facts>>
    PROVE  IndInv'
<1>1. /\ guard' = [guard EXCEPT ![s] = {}] /\ pc' = [pc EXCEPT ![s] = "idle"]
      /\ got' = [got EXCEPT ![s] = NoSource] /\ new' = [new EXCEPT ![s] = Nothing]
      /\ writes' = [writes EXCEPT ![s] = FALSE]
      /\ UNCHANGED <<kind, known, answer, source, facts>>
  BY DEF Ends, Unguard, Goto
<1>2. pc'[s] = "idle" /\ \A t \in Syncer \ {s} :
        pc'[t] = pc[t] /\ got'[t] = got[t] /\ new'[t] = new[t] /\ writes'[t] = writes[t]
  BY <1>1 DEF IndInv, TypeOK, Shape
<1>3. TypeOK'
  BY <1>1 DEF IndInv, TypeOK, Answers
<1>4. Shape'
  BY <1>1 DEF IndInv, Shape
<1>5. Order' /\ Locked'
  BY <1>1 DEF IndInv, TypeOK, Order, Locked, Busy
<1>6. Versions'
  BY <1>1, <1>2 DEF IndInv, Versions
<1>7. Ready'
  BY <1>1, <1>2 DEF IndInv, Ready, Accepted, Preserved, FactsIn
<1>8. FactsFollowSource' /\ SourceIsAccepted'
  BY <1>1, Quiet DEF IndInv
<1>9. QED
  BY <1>3, <1>4, <1>5, <1>6, <1>7, <1>8 DEF IndInv

LEMMA EndsWriting ==
    ASSUME IndInv, NEW s \in Syncer, Ends(s), pc[s] = "written", WriteBoth(s)
    PROVE  IndInv'
<1>1. CASE ~writes[s]
  BY <1>1, EndsKeeping DEF WriteBoth
<1>2. CASE writes[s]
  <2>1. /\ guard' = [guard EXCEPT ![s] = {}] /\ pc' = [pc EXCEPT ![s] = "idle"]
        /\ got' = [got EXCEPT ![s] = NoSource] /\ new' = [new EXCEPT ![s] = Nothing]
        /\ writes' = [writes EXCEPT ![s] = FALSE]
        /\ source' = got[s] /\ facts' = new[s]
        /\ UNCHANGED <<kind, known, answer>>
    BY <1>2 DEF Ends, Unguard, Goto, WriteBoth
  <2>2. pc'[s] = "idle" /\ \A t \in Syncer \ {s} : pc'[t] = pc[t]
    BY <2>1 DEF IndInv, TypeOK
  <2>3. \A t \in Syncer \ {s} : pc[t] \notin Busy
    BY DEF IndInv, Locked, Busy
  <2>4. Accepted(got[s])
    BY <1>2 DEF IndInv, Ready
  <2>5. IF Preserved(got[s]) THEN new[s] = facts
        ELSE new[s] = [ver |-> got[s].ver, rows |-> FactsIn(got[s])]
    BY <1>2 DEF IndInv, Ready
  <2>6. source.ver \in Nat /\ got[s].ver \in source.ver..answer.ver
    BY DEF IndInv, TypeOK, Versions
  <2>7. TypeOK'
    <3>1. got[s].ver \in 0..answer.ver
      BY <2>6 DEF IndInv, TypeOK
    <3>2. new[s].ver \in 0..got[s].ver
      BY <2>5, <2>6 DEF IndInv, TypeOK
    <3>3. QED
      BY <2>1, <3>1, <3>2 DEF IndInv, TypeOK, Answers
  <2>8. Shape'
    BY <2>1 DEF IndInv, Shape
  <2>9. Order' /\ Locked'
    BY <2>1 DEF IndInv, TypeOK, Order, Locked, Busy
  <2>10. Versions' /\ Ready'
    BY <2>2, <2>3 DEF Versions, Ready, Busy
  <2>11. FactsFollowSource'
    BY <2>1, <2>5 DEF FactsFollowSource, Preserved, FactsIn
  <2>12. SourceIsAccepted'
    BY <2>1, <2>4 DEF SourceIsAccepted, Accepted
  <2>13. QED
    BY <2>7, <2>8, <2>9, <2>10, <2>11, <2>12 DEF IndInv
<1>3. QED
  BY <1>1, <1>2

LEMMA NextInv == IndInv /\ [Next]_vars => IndInv'
<1> SUFFICES ASSUME IndInv, [Next]_vars PROVE IndInv'
  OBVIOUS
<1>1. ASSUME NEW s \in Syncer, Sync(s) PROVE IndInv'
  <2>1. CASE Begin(s)    BY <2>1, BeginStep
  <2>2. CASE Skip(s)     BY <2>2, SkipStep
  <2>3. CASE Fetch(s)    BY <2>3, FetchStep
  <2>4. CASE Store(s)    BY <2>4, StoreStep
  <2>5. CASE Project(s)  BY <2>5, ProjectStep
  <2>6. CASE Fails(s)    BY <2>6, FailsStep
  <2>7. CASE Unlock(s)   BY <2>7, UnlockStep
  <2>8. CASE Rollback(s) BY <2>8, EndsKeeping DEF Rollback
  <2>9. CASE Commit(s)   BY <2>9, EndsWriting DEF Commit
  <2>10. CASE Crash(s)   BY <2>10, EndsKeeping, EndsWriting DEF Crash
  <2>11. QED
    BY <1>1, <2>1, <2>2, <2>3, <2>4, <2>5, <2>6, <2>7, <2>8, <2>9, <2>10 DEF Sync
<1>2. CASE UNCHANGED vars
  <2>1. /\ UNCHANGED <<kind, known, answer, source, facts>>
        /\ UNCHANGED <<guard, pc, got, new, writes>>
    BY <1>2 DEF vars
  <2>2. TypeOK'
    BY <2>1 DEF IndInv, TypeOK, Answers
  <2>3. Shape' /\ Order'
    BY <2>1 DEF IndInv, Shape, Order
  <2>4. Locked'
    BY <2>1 DEF IndInv, Locked
  <2>5. Versions'
    BY <2>1 DEF IndInv, Versions
  <2>6. Ready'
    BY <2>1 DEF IndInv, Ready, Accepted, Preserved, FactsIn
  <2>7. FactsFollowSource' /\ SourceIsAccepted'
    BY <2>1, Quiet DEF IndInv
  <2>8. QED
    BY <2>2, <2>3, <2>4, <2>5, <2>6, <2>7 DEF IndInv
<1>3. QED
  BY <1>1, <1>2, ProviderStep, LearnStep DEF Next

LEMMA IndInvHolds == Spec => []IndInv
<1>1. Init => IndInv
  BY InitInv
<1>2. IndInv /\ [Next]_vars => IndInv'
  BY NextInv
<1>3. QED
  BY <1>1, <1>2, PTL DEF Spec

(* Type correctness of the syncs and of what they store; no version        *)
(* overtakes the one it is copied from (sync services, models/analytics.py *)
(* and the models of the sources).                                         *)
THEOREM TypeCorrect == Spec => []TypeOK
<1>1. IndInv => TypeOK
  BY DEF IndInv
<1>2. QED
  BY <1>1, IndInvHolds, PTL

(* Committed facts are those of the committed source, unless it has none   *)
(* to put in the place of older ones: project_statistics, project_lineup,  *)
(* project_odds and project_h2h, and the callers that commit both tables   *)
(* or roll both back, for any number of them.                              *)
THEOREM FactsFollowSourceHolds == Spec => []FactsFollowSource
<1>1. IndInv => FactsFollowSource
  BY DEF IndInv
<1>2. QED
  BY <1>1, IndInvHolds, PTL

(* A committed source was accepted as a whole, although it is written      *)
(* before the projection looks at it (project_*, lineup_sync_service.py).  *)
THEOREM SourceIsAcceptedHolds == Spec => []SourceIsAccepted
<1>1. IndInv => SourceIsAccepted
  BY DEF IndInv
<1>2. QED
  BY <1>1, IndInvHolds, PTL

-----------------------------------------------------------------------------
(* The lines that are kept read back as the odds they stand for.  First    *)
(* the ladder: rounding moves an index half a rung at most, and a rung     *)
(* reads as its index.                                                     *)
LEMMA RoundTenNear ==
    ASSUME NEW index \in Int
    PROVE  /\ RoundTen(index) \in Int /\ RoundTen(index) % 10 = 0
           /\ Gap(RoundTen(index), index) <= 5
BY DEF RoundTen, Gap

LEMMA RungReads ==
    ASSUME NEW index \in Int, index % 10 = 0
    PROVE  LET label == Rung(index) IN
           /\ label = [goal |-> label.goal, offset |-> label.offset, sign |-> label.sign]
           /\ label.sign \in {"-", "+", "="} /\ label.offset \in 0..100
           /\ 200 * label.goal + (IF label.sign = "-" THEN label.offset ELSE -label.offset)
                = index
BY DEF Rung, Gap

LEMMA LadderReads ==
    ASSUME NEW index \in Int
    PROVE  LET label == LadderLabel(index) IN
           /\ label = [goal |-> label.goal, offset |-> label.offset, sign |-> label.sign]
           /\ Reads(label, index)
<1>1. CASE index \in MinIndex..MaxIndex
  <2> DEFINE ten == RoundTen(index)
  <2>1. ten \in Int /\ ten % 10 = 0 /\ Gap(ten, index) <= 5
    BY RoundTenNear
  <2>2. LadderLabel(index) = Rung(ten)
    BY <1>1 DEF LadderLabel
  <2>3. ~(index < MinIndex \/ index > MaxIndex)
    BY <1>1 DEF MinIndex, MaxIndex
  <2> HIDE DEF ten
  <2>4. QED
    BY <2>1, <2>2, <2>3, RungReads DEF Reads
<1>2. CASE index \notin MinIndex..MaxIndex
  <2>1. LadderLabel(index) = OutOfRange
    BY <1>2 DEF LadderLabel
  <2>2. index < MinIndex \/ index > MaxIndex
    BY <1>2 DEF MinIndex, MaxIndex
  <2>3. Reads(OutOfRange, index)
    BY <2>2 DEF Reads
  <2>4. QED
    BY <2>1, <2>3 DEF OutOfRange
<1>3. QED
  BY <1>1, <1>2

LEMMA MarketReads ==
    ASSUME NEW home \in Int, NEW away \in Int, NEW size \in Int,
           NEW side \in {"HOME", "AWAY", "DRAW"}
    PROVE  LET label == MarketLabel(home, away, size, side)
               lead == IF side = "HOME" THEN away - home ELSE home - away
           IN  /\ label = [goal |-> label.goal, offset |-> label.offset, sign |-> label.sign]
               /\ size # 0 => Reads(label, 2 * size + lead)
               /\ size = 0 /\ home # away => label.offset = Gap(home, away)
<1> DEFINE index == MarketIndex(home, away, size, side)
<1>1. index \in Int /\ index = 2 * size + IF side = "HOME" THEN away - home ELSE home - away
  BY DEF MarketIndex, BaseIndex, Gap
<1>2. CASE size # 0
  <2>1. MarketLabel(home, away, size, side) = LadderLabel(index)
    BY <1>2 DEF MarketLabel
  <2> HIDE DEF index
  <2>2. QED
    BY <1>1, <1>2, <2>1, LadderReads
<1>3. CASE size = 0
  BY <1>3 DEF MarketLabel, Draw
<1>4. QED
  BY <1>2, <1>3

(* The other side's label is the opposite one.                             *)
LEMMA OtherIsOpposite ==
    ASSUME NEW label,
           label = [goal |-> label.goal, offset |-> label.offset, sign |-> label.sign]
    PROVE  /\ Opposite(label, OtherSide(label)) /\ Opposite(OtherSide(label), label)
           /\ OtherSide(label).offset = label.offset
<1>1. /\ OtherSide(label).goal = label.goal /\ OtherSide(label).offset = label.offset
      /\ label.sign \notin {"+", "-"} => OtherSide(label) = label
      /\ label.sign \in {"+", "-"} => OtherSide(label).sign # label.sign
  BY DEF OtherSide
<1>2. QED
  BY <1>1 DEF Opposite

-----------------------------------------------------------------------------
(* Of a parsed board and a choice of main lines: which rows are kept.      *)
LEMMA MainsWhole ==
    ASSUME NEW board, NEW main \in Mains(board), NEW market \in DOMAIN main
    PROVE  market \in Market /\ main[market] \in WholeLines(board, market)
BY DEF Mains, MainLines

LEMMA WholeHasSides ==
    ASSUME NEW board, NEW market, NEW line \in WholeLines(board, market),
           NEW side \in Side[market]
    PROVE  \E q \in board : q.market = market /\ q.line = line /\ q.side = side
BY DEF WholeLines, Quotes

LEMMA OddIsTheQuotes ==
    ASSUME NEW board, Parsed(board), NEW q \in board
    PROVE  OddAt(board, q.market, q.line, q.side) = q.odd
<1> DEFINE P(p) == p.market = q.market /\ p.line = q.line /\ p.side = q.side
           chosen == CHOOSE p \in board : P(p)
<1>1. chosen \in board /\ P(chosen)
  OBVIOUS
<1>2. chosen = q
  BY <1>1 DEF Parsed
<1>3. QED
  BY <1>2 DEF OddAt

RowOf(board, market, line, side) ==
    [market |-> market, line |-> line, side |-> side,
     odd |-> OddAt(board, market, line, side),
     label |-> LabelOf(board, market, line, side)]

LEMMA RowsKept ==
    ASSUME NEW board, Parsed(board), NEW main \in Mains(board), NEW market
    PROVE  /\ market \in DOMAIN main =>
                {row \in Kept(board, main) : row.market = market}
                  = {RowOf(board, market, main[market], side) : side \in Side[market]}
           /\ market \notin DOMAIN main =>
                {row \in Kept(board, main) : row.market = market} = {}
<1> DEFINE row(q) == [market |-> q.market, line |-> q.line, side |-> q.side, odd |-> q.odd,
                      label |-> LabelOf(board, q.market, q.line, q.side)]
<1>1. \A q \in board : row(q) = RowOf(board, q.market, q.line, q.side)
  BY OddIsTheQuotes DEF RowOf
<1>2. /\ \A q : row(q).market = q.market
      /\ Kept(board, main) = {row(q) : q \in
            {quote \in board : quote.market \in DOMAIN main /\ main[quote.market] = quote.line}}
  BY DEF Kept
<1> HIDE DEF row
<1>3. ASSUME market \in DOMAIN main, NEW r \in Kept(board, main), r.market = market
      PROVE  \E side \in Side[market] : r = RowOf(board, market, main[market], side)
  <2>1. PICK q \in board : r = row(q) /\ q.market \in DOMAIN main /\ main[q.market] = q.line
    BY <1>2
  <2>2. q.market = market /\ market \in Market
    BY <1>2, <1>3, <2>1, MainsWhole
  <2>3. q.side \in Side[market]
    BY <2>2 DEF Parsed
  <2>4. QED
    BY <1>1, <2>1, <2>2, <2>3
<1>4. ASSUME market \in DOMAIN main, NEW side \in Side[market]
      PROVE  /\ RowOf(board, market, main[market], side) \in Kept(board, main)
             /\ RowOf(board, market, main[market], side).market = market
  <2>1. PICK q \in board : q.market = market /\ q.line = main[market] /\ q.side = side
    BY <1>4, MainsWhole, WholeHasSides
  <2>2. row(q) = RowOf(board, market, main[market], side) /\ row(q).market = market
    BY <1>1, <1>2, <2>1
  <2>3. row(q) \in Kept(board, main)
    BY <1>2, <1>4, <2>1
  <2>4. QED
    BY <2>2, <2>3
<1>5. ASSUME market \in DOMAIN main
      PROVE  {r \in Kept(board, main) : r.market = market}
                  = {RowOf(board, market, main[market], side) : side \in Side[market]}
  BY <1>3, <1>4, <1>5
<1>6. ASSUME NEW r \in Kept(board, main) PROVE r.market \in DOMAIN main
  BY <1>2
<1>7. QED
  BY <1>5, <1>6

LEMMA SidesOf ==
    /\ Side[Winner] = {"home", "draw", "away"}
    /\ \A market \in Labelled :
          /\ market \in Market /\ market # Winner
          /\ Side[market] = {FirstSide(market), SecondSide(market)}
          /\ FirstSide(market) # SecondSide(market)
BY DEF Side, Labelled, FirstSide, SecondSide, Market, Winner, Handicap, Goals, Corners

LEMMA LineIsParsed ==
    ASSUME NEW board, Parsed(board), NEW main \in Mains(board), NEW market \in DOMAIN main
    PROVE  /\ main[market] \in Int /\ (market = Winner => main[market] = 0)
           /\ \A side \in Side[market] : OddAt(board, market, main[market], side) \in Int
<1> DEFINE line == main[market]
<1>1. market \in Market /\ line \in WholeLines(board, market)
  BY MainsWhole
<1>2. PICK q \in board : q.market = market /\ q.line = line
  BY <1>1 DEF WholeLines, Quotes
<1>3. line \in Int /\ (market = Winner => line = 0)
  BY <1>1, <1>2 DEF Parsed
<1>4. ASSUME NEW side \in Side[market] PROVE OddAt(board, market, line, side) \in Int
  <2>1. PICK p \in board : p.market = market /\ p.line = line /\ p.side = side
    BY <1>1, WholeHasSides
  <2>2. p.odd \in Int
    BY <1>1, <2>1 DEF Parsed
  <2>3. QED
    BY <2>1, <2>2, OddIsTheQuotes
<1>5. QED
  BY <1>3, <1>4

(* The favourite of a board whose match winner market is kept.             *)
LEMMA FavouriteIs ==
    ASSUME NEW board, Parsed(board), NEW main \in Mains(board), Winner \in DOMAIN main
    PROVE  Favourite(board) =
             IF OddAt(board, Winner, 0, "home") < OddAt(board, Winner, 0, "away")
             THEN "HOME" ELSE "AWAY"
<1>1. 0 \in WholeLines(board, Winner)
  BY MainsWhole, LineIsParsed
<1> DEFINE of(s) == CHOOSE q \in Quotes(board, Winner) : q.side = s
<1>2. ASSUME NEW s \in {"home", "away"}
      PROVE  /\ s \in {quote.side : quote \in Quotes(board, Winner)}
             /\ of(s).odd = OddAt(board, Winner, 0, s)
  <2>1. PICK q \in board : q.market = Winner /\ q.line = 0 /\ q.side = s
    BY <1>1, <1>2, WholeHasSides, SidesOf
  <2>2. q \in Quotes(board, Winner)
    BY <2>1 DEF Quotes
  <2>3. of(s) \in Quotes(board, Winner) /\ of(s).side = s
    BY <2>1, <2>2
  <2>4. of(s) \in board /\ of(s).market = Winner /\ of(s).line = 0
    BY <2>3 DEF Quotes, Parsed, Market, Winner
  <2>5. of(s) = q
    BY <2>1, <2>3, <2>4 DEF Parsed
  <2>6. QED
    BY <2>1, <2>2, <2>5, OddIsTheQuotes
<1>3. {"home", "away"} \subseteq {quote.side : quote \in Quotes(board, Winner)}
  BY <1>2
<1>4. Favourite(board) = IF of("home").odd < of("away").odd THEN "HOME" ELSE "AWAY"
  BY <1>3 DEF Favourite
<1> HIDE DEF of
<1>5. QED
  BY <1>2, <1>4

(* The labels of a line, of odds home and away for its two sides.          *)
LEMMA LabelsRead ==
    ASSUME NEW board, NEW market \in Labelled, NEW line \in Int,
           NEW home \in Int, home = OddAt(board, market, line, FirstSide(market)),
           NEW away \in Int, away = OddAt(board, market, line, SecondSide(market))
    PROVE  LET labels == Labels(board, market, line)
               size == Size(line)
           IN  /\ Opposite(labels[1], labels[2])
               /\ line = 0 /\ home # away => labels[1].offset = Gap(home, away)
               /\ line # 0 /\ market = Goals => Reads(labels[1], 2 * size + Gap(home, away))
               /\ line # 0 /\ market # Goals /\ Favourite(board) = "HOME"
                    => Reads(labels[1], 2 * size + away - home)
               /\ line # 0 /\ market # Goals /\ Favourite(board) = "AWAY"
                    => Reads(labels[2], 2 * size + home - away)
<1> DEFINE named == IF market = Goals THEN "none" ELSE Favourite(board)
           side == MarketSide(home, away, named)
           size == Size(line)
           label == MarketLabel(home, away, size, side)
           labels == Labels(board, market, line)
           lead == IF side = "HOME" THEN away - home ELSE home - away
<1>1. size \in Int /\ (size = 0 <=> line = 0)
  BY DEF Size
<1>2. side \in {"HOME", "AWAY", "DRAW"} /\ (named \in {"HOME", "AWAY"} => side = named)
  BY DEF MarketSide
<1>3. /\ label = [goal |-> label.goal, offset |-> label.offset, sign |-> label.sign]
      /\ line # 0 => Reads(label, 2 * size + lead)
      /\ line = 0 /\ home # away => label.offset = Gap(home, away)
  BY <1>1, <1>2, MarketReads
<1>4. labels = IF market = Goals \/ side = "HOME" THEN <<label, OtherSide(label)>>
               ELSE IF side = "AWAY" THEN <<OtherSide(label), label>> ELSE <<label, label>>
  BY DEF Labels
<1>5. market = Goals => lead = Gap(home, away)
  BY DEF MarketSide, Gap
<1>6. 2 * size + lead = IF side = "HOME" THEN 2 * size + away - home
                        ELSE 2 * size + home - away
  BY <1>1
<1> HIDE DEF label, side, size, lead, labels
<1>7. Opposite(label, OtherSide(label)) /\ Opposite(OtherSide(label), label)
      /\ OtherSide(label).offset = label.offset
  BY <1>3, OtherIsOpposite
<1>8. Opposite(label, label)
  BY DEF Opposite
<1>9. /\ Opposite(labels[1], labels[2])
      /\ labels[1].offset = label.offset
      /\ market = Goals \/ side = "HOME" => labels[1] = label
      /\ market # Goals /\ side = "AWAY" => labels[2] = label
  BY <1>4, <1>7, <1>8
<1>10. market # Goals /\ Favourite(board) \in {"HOME", "AWAY"} => side = Favourite(board)
  BY <1>2
<1>11. QED
  BY <1>3, <1>5, <1>6, <1>9, <1>10 DEF labels, size

(* Whatever lines are chosen of a board, the rows kept of it read.         *)
LEMMA KeptReads ==
    ASSUME NEW board, Parsed(board), NEW main \in Mains(board)
    PROVE  LinesRead(Kept(board, main))
<1> DEFINE kept == Kept(board, main)
           of(market) == {row \in kept : row.market = market}
           At(market, side) == CHOOSE row \in of(market) : row.side = side
           Is(market, side) == RowOf(board, market, main[market], side)
<1>1. \A market : market \in DOMAIN main =>
        of(market) = {Is(market, side) : side \in Side[market]}
  BY RowsKept
<1>2. \A market : market \notin DOMAIN main => of(market) = {}
  BY RowsKept
<1>3. \A market, side : Is(market, side).side = side /\ Is(market, side).line = main[market]
        /\ Is(market, side).odd = OddAt(board, market, main[market], side)
        /\ Is(market, side).label = LabelOf(board, market, main[market], side)
  BY DEF RowOf
<1> HIDE DEF Is, kept
<1>4. \A market \in DOMAIN main : \A side \in Side[market] : At(market, side) = Is(market, side)
  <2> SUFFICES ASSUME NEW market \in DOMAIN main, NEW side \in Side[market]
               PROVE  At(market, side) = Is(market, side)
    OBVIOUS
  <2>1. At(market, side) \in of(market) /\ At(market, side).side = side
    BY <1>1, <1>3
  <2>2. QED
    BY <1>1, <1>3, <2>1
<1>5. Winner \in DOMAIN main =>
        ((\E h, a \in of(Winner) : h.side = "home" /\ a.side = "away" /\ h.odd >= a.odd)
           <=> Favourite(board) = "AWAY")
  <2> SUFFICES ASSUME Winner \in DOMAIN main
               PROVE  (\E h, a \in of(Winner) :
                            h.side = "home" /\ a.side = "away" /\ h.odd >= a.odd)
                        <=> Favourite(board) = "AWAY"
    OBVIOUS
  <2> DEFINE home == OddAt(board, Winner, 0, "home")
             away == OddAt(board, Winner, 0, "away")
  <2>1. main[Winner] = 0 /\ home \in Int /\ away \in Int
    BY LineIsParsed, SidesOf
  <2>2. Favourite(board) = IF home < away THEN "HOME" ELSE "AWAY"
    BY FavouriteIs
  <2>3. of(Winner) = {Is(Winner, "home"), Is(Winner, "draw"), Is(Winner, "away")}
    BY <1>1, SidesOf
  <2>4. Is(Winner, "home").odd = home /\ Is(Winner, "away").odd = away
    BY <1>3, <2>1
  <2> HIDE DEF home, away
  <2>5. (\E h, a \in of(Winner) : h.side = "home" /\ a.side = "away" /\ h.odd >= a.odd)
          <=> home >= away
    BY <1>3, <2>3, <2>4
  <2>6. QED
    BY <2>1, <2>2, <2>5
<1>6. Winner \in DOMAIN main => Favourite(board) \in {"HOME", "AWAY"}
  BY FavouriteIs
<1> SUFFICES ASSUME NEW market \in {row.market : row \in kept}
             PROVE  LET one == At(market, FirstSide(market))
                        two == At(market, SecondSide(market))
                        away == \E h, a \in of(Winner) :
                                   h.side = "home" /\ a.side = "away" /\ h.odd >= a.odd
                        base == 2 * Size(one.line)
                    IN  /\ {row.side : row \in of(market)} = Side[market]
                        /\ \A a, b \in of(market) : a.line = b.line
                        /\ market \in Labelled =>
                             /\ Opposite(one.label, two.label)
                             /\ IF one.line = 0
                                THEN one.odd # two.odd
                                       => one.label.offset = Gap(one.odd, two.odd)
                                ELSE IF market = Goals
                                THEN Reads(one.label, base + Gap(one.odd, two.odd))
                                ELSE of(Winner) # {} =>
                                       IF away THEN Reads(two.label, base + one.odd - two.odd)
                                       ELSE Reads(one.label, base + two.odd - one.odd)
  BY DEF LinesRead, kept
<1>7. market \in DOMAIN main
  BY <1>2
<1>8. {row.side : row \in of(market)} = Side[market] /\ \A a, b \in of(market) : a.line = b.line
  BY <1>1, <1>3, <1>7
<1>9. CASE market \in Labelled
  <2> DEFINE line == main[market]
             home == OddAt(board, market, line, FirstSide(market))
             away == OddAt(board, market, line, SecondSide(market))
             one == At(market, FirstSide(market))
             two == At(market, SecondSide(market))
             labels == Labels(board, market, line)
  <2>1. FirstSide(market) \in Side[market] /\ SecondSide(market) \in Side[market]
        /\ FirstSide(market) # SecondSide(market)
    BY <1>9, SidesOf
  <2>2. line \in Int /\ home \in Int /\ away \in Int
    BY <1>7, <2>1, LineIsParsed
  <2>3. one = Is(market, FirstSide(market)) /\ two = Is(market, SecondSide(market))
    BY <1>4, <1>7, <2>1
  <2>4. of(Winner) # {} => Winner \in DOMAIN main
    BY <1>2
  <2> HIDE DEF one, two, of, At
  <2>5. one.line = line /\ one.odd = home /\ two.odd = away
    <3>1. \A side : Is(market, side).line = line
            /\ Is(market, side).odd = OddAt(board, market, line, side)
      BY <1>3
    <3>2. QED
      BY <2>3, <3>1
  <2> HIDE DEF home, away
  <2>6. one.label = labels[1] /\ two.label = labels[2]
    <3>1. /\ one.label = LabelOf(board, market, line, FirstSide(market))
          /\ two.label = LabelOf(board, market, line, SecondSide(market))
      BY <1>3, <2>3
    <3>2. /\ LabelOf(board, market, line, FirstSide(market)) = labels[1]
          /\ LabelOf(board, market, line, SecondSide(market)) = labels[2]
      BY <1>9, <2>1 DEF LabelOf
    <3>3. QED
      BY <3>1, <3>2
  <2> HIDE DEF line, labels
  <2>7. /\ Opposite(labels[1], labels[2])
        /\ line = 0 /\ home # away => labels[1].offset = Gap(home, away)
        /\ line # 0 /\ market = Goals => Reads(labels[1], 2 * Size(line) + Gap(home, away))
        /\ line # 0 /\ market # Goals /\ Favourite(board) = "HOME"
             => Reads(labels[1], 2 * Size(line) + away - home)
        /\ line # 0 /\ market # Goals /\ Favourite(board) = "AWAY"
             => Reads(labels[2], 2 * Size(line) + home - away)
    BY <1>9, <2>2, LabelsRead DEF home, away, line, labels
  <2>8. QED
    BY <1>5, <1>6, <1>8, <2>4, <2>5, <2>6, <2>7 DEF one, two
<1>10. CASE market \notin Labelled
  BY <1>8, <1>10
<1>11. QED
  BY <1>9, <1>10

-----------------------------------------------------------------------------
(* What a sync of odds carries, and what is committed of one, are the rows *)
(* kept of some board, or none yet.                                        *)
OfBoard(content) ==
    content.rows = {}
      \/ \E board \in Board : \E main \in Mains(board) : content.rows = Kept(board, main)

OddsInv ==
    kind = "odds" =>
        /\ OfBoard(source)
        /\ \A s \in Syncer : pc[s] \in {"fetched", "stored", "written"} => OfBoard(got[s])

LEMMA OddsSync ==
    ASSUME IndInv, OddsInv, kind = "odds", NEW s \in Syncer, Sync(s)
    PROVE  OddsInv'
<1>1. kind' = kind
  BY DEF Sync, Begin, Skip, Fetch, Store, Project, Fails, Unlock, Rollback, Commit, Crash, Ends
<1>2. CASE Fetch(s)
  <2>1. PICK main \in Mains(answer.rows) :
          got' = [got EXCEPT ![s] = [answer EXCEPT !.rows = Kept(@, main)]]
    BY <1>2 DEF Fetch, FetchOdds
  <2>2. answer.rows \in Board /\ answer = [ver |-> answer.ver, rows |-> answer.rows, flaw |-> "none"]
    BY DEF IndInv, TypeOK, Answers
  <2>3. got'[s].rows = Kept(answer.rows, main)
    BY <2>1, <2>2 DEF IndInv, Shape
  <2>4. OfBoard(got'[s])
    BY <2>2, <2>3 DEF OfBoard
  <2>5. \A t \in Syncer \ {s} : got'[t] = got[t] /\ pc'[t] = pc[t]
    BY <1>2, <2>1 DEF Fetch, FetchOdds, Goto, IndInv, TypeOK, Shape
  <2>6. source' = source
    BY <1>2 DEF Fetch
  <2>7. QED
    BY <1>1, <2>4, <2>5, <2>6 DEF OddsInv, OfBoard
<1>3. CASE Ends(s) /\ (UNCHANGED source \/ (pc[s] = "written" /\ source' = got[s]))
  <2>1. \A t \in Syncer : pc'[t] \in {"fetched", "stored", "written"} =>
            pc'[t] = pc[t] /\ got'[t] = got[t]
    BY <1>3 DEF Ends, Goto, IndInv, TypeOK, Shape
  <2>2. QED
    BY <1>1, <1>3, <2>1 DEF OddsInv, OfBoard
<1>4. CASE \/ Begin(s) \/ Skip(s) \/ Store(s) \/ Project(s) \/ Fails(s) \/ Unlock(s)
  <2>1. got' = got /\ source' = source
    BY <1>4 DEF Begin, Skip, Store, Project, Fails, Unlock
  <2>2. \A t \in Syncer : pc'[t] \in {"fetched", "stored", "written"} =>
            pc[t] \in {"fetched", "stored", "written"}
    BY <1>4 DEF Begin, Skip, Store, Project, Fails, Unlock, Goto, IndInv, TypeOK
  <2>3. QED
    BY <1>1, <2>1, <2>2 DEF OddsInv, OfBoard
<1>5. QED
  BY <1>2, <1>3, <1>4 DEF Sync, Rollback, Commit, Crash, WriteBoth

LEMMA OddsNext == IndInv /\ OddsInv /\ [Next]_vars => OddsInv'
<1> SUFFICES ASSUME IndInv, OddsInv, [Next]_vars PROVE OddsInv'
  OBVIOUS
<1>1. kind' = kind
  BY DEF Next, vars, ProviderChanges, Learn, Sync, Begin, Skip, Fetch, Store, Project, Fails,
         Unlock, Rollback, Commit, Crash, Ends
<1>2. CASE kind # "odds"
  BY <1>1, <1>2 DEF OddsInv
<1>3. CASE kind = "odds"
  <2>1. CASE UNCHANGED <<kind, source, pc, got>>
    BY <2>1 DEF OddsInv, OfBoard
  <2>2. CASE ProviderChanges \/ Learn \/ UNCHANGED vars
    BY <2>1, <2>2 DEF ProviderChanges, Learn, vars, syncVars
  <2>3. CASE \E s \in Syncer : Sync(s)
    BY <1>3, <2>3, OddsSync
  <2>4. QED
    BY <2>2, <2>3 DEF Next
<1>4. QED
  BY <1>2, <1>3

(* The odds kept of a match are whole lines whose labels read back as the  *)
(* odds they stand for, the other side's being the opposite: for any board *)
(* the parsing can leave, any choice among lines equally near to even odds *)
(* and any number of syncs (odds_service.py, myanmar_odds_service.py).     *)
THEOREM KeptLinesReadHolds == Spec => []KeptLinesRead
<1>1. Init => OddsInv
  BY DEF Init, OddsInv, OfBoard, NoSource
<1>2. IndInv /\ OddsInv /\ [Next]_vars => OddsInv'
  BY OddsNext
<1>3. OddsInv => KeptLinesRead
  <2> SUFFICES ASSUME OddsInv, kind = "odds" PROVE LinesRead(source.rows)
    BY DEF KeptLinesRead
  <2>1. CASE source.rows = {}
    BY <2>1 DEF LinesRead
  <2>2. ASSUME NEW board \in Board, NEW main \in Mains(board), source.rows = Kept(board, main)
        PROVE  LinesRead(source.rows)
    <3>1. LinesRead(Kept(board, main))
      BY ProjectionAssumption, KeptReads
    <3>2. QED
      BY <2>2, <3>1
  <2>3. QED
    BY <2>1, <2>2 DEF OddsInv, OfBoard
<1>4. QED
  BY <1>1, <1>2, <1>3, IndInvHolds, PTL DEF Spec
=============================================================================
