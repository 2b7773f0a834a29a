---------------------------- MODULE MasterDataProofs ----------------------------
(***************************************************************************)
(* Proofs about MasterData, for any number of syncs, fixtures and rows:    *)
(* coaches stay one team's, a lost race finds its row, a match keeps its   *)
(* venue, and no team that changes is forgotten in the cache.              *)
(***************************************************************************)
EXTENDS MasterData, TLAPS

Tx == [pc: {"idle", "between", "step", "insert", "update", "again", "ask", "assign"},
       item: Nat, at: Nat, row: Record \cup {NoRow}, refs: SUBSET Record,
       had: SUBSET Record, w: Writes, base: Writes,
       keys: SUBSET Team, dropped: SUBSET Team]

Suits(t, c) == \E g \in Gives[t] : SameKey(g, c) \/ SameName(g, c)

\* What is committed, and the coach of a team as the writer of w sees it.
Db == [rows |-> rows, coach |-> coach, match |-> match]
Seen(db, w, t) == IF Assigned(w, t) # {} THEN Assigned(w, t) ELSE db.coach[t]

HasVenue(refs) == \E r \in refs : r.kind = "venue"

\* What a transaction has written refers to rows it sees, and holds the locks
\* of the teams and matches it has changed.
Sound(db, w) ==
    /\ \A m \in Match : \A refs \in w.match[m] : refs \subseteq db.rows \cup w.new
    /\ \A c \in w.coach : c[2] \in db.rows \cup w.new /\ Suits(c[1], c[2]) /\ c[1] \in w.locks
    /\ \A c, d \in w.coach : c[1] = d[1] => c[2] = d[2]
    /\ \A t, u \in Team : t # u => Seen(db, w, t) \cap Seen(db, w, u) = {}
    /\ \A m \in Match : w.match[m] # {} =>
          m \in w.locks /\ (HasVenue(db.match[m]) => HasVenue(UNION w.match[m]))

\* Where a transaction is in its response, and what it is about.
Placed(s, x) ==
    /\ x.pc \notin {"idle", "between"} => x.item \in 1..Len(Response[s]) /\ x.at >= 1
    /\ x.pc \in {"insert", "update", "again", "ask", "assign"} =>
          x.at <= Len(Response[s][x.item])
    /\ x.pc = "ask" => Response[s][x.item][x.at].do = "coach"
    /\ x.pc \in {"insert", "update", "again", "assign"} =>
          /\ x.row \in Record
          /\ x.row.kind = "coach" =>
                /\ Response[s][x.item][x.at].do = "coach"
                /\ Suits(Response[s][x.item][x.at].of, x.row)
    /\ x.pc = "assign" => x.row.kind = "coach"
    /\ x.pc = "again" => x.row.kind # "coach"

\* What it has found is there for it.
Finds(db, x) ==
    /\ x.refs \subseteq db.rows \cup x.w.new
    /\ x.pc \in {"update", "assign"} => x.row \in db.rows \cup x.w.new
    /\ x.pc = "again" => Found(db.rows \cup x.w.new, x.row) # {}

\* The keys of the teams it has changed are queued or deleted, those of its earlier
\* items are deleted, and none is queued between two items.
Drops(x) ==
    /\ \A c \in x.w.coach : c[1] \in x.keys \cup x.dropped
    /\ \A c \in x.base.coach : c[1] \in x.dropped
    /\ x.pc \in {"idle", "between"} => x.keys = {}

TxOk(db, s, x) ==
    /\ Placed(s, x) /\ Finds(db, x) /\ Sound(db, x.w) /\ Sound(db, x.base)
    /\ x.base.locks \subseteq x.w.locks /\ Drops(x)

\* Two transactions lock different rows and give away different coaches.
Apart(x, y) ==
    /\ x.w.locks \cap y.w.locks = {}
    /\ \A c \in x.w.coach \cup x.base.coach, d \in y.w.coach \cup y.base.coach :
          c[2] # d[2]

\* Committed rows refer to committed rows.  (PostgreSQL's foreign keys see to it
\* as well; it is here for what the other parts need of it.)
ReferencesResolve ==
    /\ \A m \in Match : match[m] \subseteq rows
    /\ \A t \in Team : coach[t] \subseteq rows

IndInv ==
    /\ TypeOK
    /\ \A s \in Syncer : TxOk(Db, s, tx[s])
    /\ \A s, u \in Syncer : s # u => Apart(tx[s], tx[u])
    /\ ReferencesResolve /\ CoachesAgree

-----------------------------------------------------------------------------
LEMMA IdleOk ==
    ASSUME NEW s \in Syncer, NEW db,
           \A t, u \in Team : t # u => db.coach[t] \cap db.coach[u] = {}
    PROVE  Idle \in Tx /\ TxOk(db, s, Idle)
<1>1. /\ NoWrites \in Writes /\ NoWrites.coach = {} /\ NoWrites.locks = {}
      /\ \A m \in Match : NoWrites.match[m] = {}
  BY DEF NoWrites, Writes
<1>2. \A t \in Team : Assigned(NoWrites, t) = {}
  BY <1>1 DEF Assigned
<1>3. Sound(db, NoWrites)
  BY <1>1, <1>2 DEF Sound, Seen
<1>4. /\ Idle \in Tx /\ Idle.pc = "idle" /\ Idle.w = NoWrites /\ Idle.base = NoWrites
      /\ Idle.refs = {} /\ Idle.keys = {}
  BY <1>1 DEF Idle, Tx
<1>5. QED
  BY <1>1, <1>3, <1>4 DEF TxOk, Placed, Finds, Drops

LEMMA InitInv == Init => IndInv
<1> SUFFICES ASSUME Init PROVE IndInv
  OBVIOUS
<1>1. \A s \in Syncer : Idle \in Tx /\ TxOk(Db, s, Idle)
  <2>1. \A t, u \in Team : Db.coach[t] \cap Db.coach[u] = {}
    BY DEF Init, Db
  <2>2. QED
    BY <2>1, IdleOk
<1>2. TypeOK
  BY <1>1 DEF Init, TypeOK, Tx
<1>3. Idle.w.coach = {} /\ Idle.base.coach = {} /\ Idle.w.locks = {}
  BY DEF Idle, NoWrites
<1>4. \A s, u \in Syncer : Apart(tx[s], tx[u])
  BY <1>3 DEF Init, Apart
<1>5. ReferencesResolve /\ CoachesAgree
  BY DEF Init, ReferencesResolve, CoachesAgree
<1>6. QED
  BY <1>1, <1>2, <1>4, <1>5 DEF IndInv, Init

(* A step that writes nothing that is committed.                           *)
LEMMA Local ==
    ASSUME IndInv, Keep, NEW s \in Syncer, NEW x \in Tx, tx' = [tx EXCEPT ![s] = x],
           TxOk(Db, s, x), \A u \in Syncer \ {s} : Apart(x, tx[u])
    PROVE  IndInv'
<1>1. UNCHANGED <<rows, coach, match>>
  BY DEF Keep
<1>2. tx \in [Syncer -> Tx]
  BY DEF IndInv, TypeOK, Tx
<1>3. tx' \in [Syncer -> Tx] /\ tx'[s] = x /\ \A u \in Syncer \ {s} : tx'[u] = tx[u]
  BY <1>2
<1>4. TypeOK'
  BY <1>1, <1>3 DEF IndInv, TypeOK, Tx
<1>5. Db' = Db
  BY <1>1 DEF Db
<1>6. \A u \in Syncer : TxOk(Db, u, tx[u])'
  BY <1>3, <1>5 DEF IndInv
<1>7. \A u, v \in Syncer : u # v => Apart(tx[u], tx[v])'
  BY <1>3 DEF IndInv, Apart
<1>8. ReferencesResolve' /\ CoachesAgree'
  BY <1>1 DEF IndInv, ReferencesResolve, CoachesAgree
<1>9. QED
  BY <1>4, <1>6, <1>7, <1>8 DEF IndInv

(* A step that only moves on, with what it has written as it is.           *)
LEMMA Moving ==
    ASSUME IndInv, Keep, NEW s \in Syncer, NEW x \in Tx, tx' = [tx EXCEPT ![s] = x],
           x.w = tx[s].w, x.base = tx[s].base, Placed(s, x), Finds(Db, x),
           x.keys = tx[s].keys, x.dropped = tx[s].dropped, x.pc \notin {"idle", "between"}
    PROVE  IndInv'
<1>1. TxOk(Db, s, tx[s]) /\ \A u \in Syncer \ {s} : Apart(tx[s], tx[u])
  BY DEF IndInv
<1>2. TxOk(Db, s, x) /\ \A u \in Syncer \ {s} : Apart(x, tx[u])
  BY <1>1 DEF TxOk, Apart, Drops
<1>3. QED
  BY <1>2, Local

LEMMA StepAt ==
    ASSUME IndInv, NEW s \in Syncer, tx[s].pc \notin {"idle", "between"},
           tx[s].at <= Len(Steps(s))
    PROVE  /\ At(s) \in Step
           /\ At(s).do \in {"coach", "context"} => At(s).of \in Team
           /\ At(s).do = "match" => At(s).of \in Match
           /\ At(s).do \in {"referee", "venue", "player"} =>
                 At(s).of \in Record /\ At(s).of.kind = At(s).do
<1>1. tx[s].item \in 1..Len(Response[s]) /\ tx[s].at \in Nat /\ tx[s].at >= 1
  BY DEF IndInv, TypeOK, TxOk, Placed
<1>2. Response[s] \in Seq(Seq(Step))
  BY MasterDataAssumption
<1>3. Steps(s) \in Seq(Step)
  BY <1>1, <1>2 DEF Steps
<1>4. At(s) \in Step
  BY <1>1, <1>3 DEF At
<1>5. QED
  BY <1>4 DEF Step

(* What a lookup returns is there, and is what was looked for.             *)
LEMMA FoundIs ==
    ASSUME NEW seen, NEW r, NEW x \in Found(seen, r)
    PROVE  /\ x \in seen /\ x.kind = r.kind
           /\ SameKey(r, x) \/ SameName(r, x)
BY DEF Found, SameKey, SameName

LEMMA Typed ==
    ASSUME IndInv, NEW s \in Syncer
    PROVE  /\ tx \in [Syncer -> Tx] /\ tx[s] \in Tx
           /\ rows \subseteq Record /\ tx[s].w \in Writes /\ tx[s].base \in Writes
           /\ Visible(s) = Db.rows \cup tx[s].w.new /\ Visible(s) \subseteq Record
           /\ Placed(s, tx[s]) /\ Finds(Db, tx[s])
           /\ Sound(Db, tx[s].w) /\ Sound(Db, tx[s].base)
           /\ tx[s].base.locks \subseteq tx[s].w.locks /\ Drops(tx[s])
BY DEF IndInv, TypeOK, Tx, Writes, Visible, Db, TxOk

LEMMA ReadTeamStep == ASSUME IndInv, NEW s \in Syncer, ReadTeam(s) PROVE IndInv'
<1> DEFINE x == [tx[s] EXCEPT !.pc = "ask", !.had = CoachSeen(s, At(s).of)]
<1>1. tx[s].pc = "step" /\ tx[s].at <= Len(Steps(s)) /\ At(s).do = "coach" /\ Keep
  BY DEF ReadTeam, Does
<1>2. At(s).of \in Team
  BY <1>1, StepAt
<1>3. CoachSeen(s, At(s).of) \subseteq Record
  BY <1>2 DEF CoachSeen, Assigned, IndInv, TypeOK
<1>4. /\ x \in Tx /\ x.pc = "ask" /\ x.item = tx[s].item /\ x.at = tx[s].at
      /\ x.refs = tx[s].refs /\ x.w = tx[s].w /\ x.base = tx[s].base
      /\ x.keys = tx[s].keys /\ x.dropped = tx[s].dropped
  BY <1>3, Typed DEF Tx
<1>5. tx' = [tx EXCEPT ![s] = x]
  BY DEF ReadTeam
<1> HIDE DEF x
<1>6. Placed(s, x) /\ Finds(Db, x)
  BY <1>1, <1>4, Typed DEF Placed, Finds, At, Steps
<1>7. QED
  BY <1>1, <1>4, <1>5, <1>6, Moving

(* A step of the response is over: the next one is taken.                  *)
LEMMA NextStep ==
    ASSUME IndInv, NEW s \in Syncer, NEW x \in Tx, NEW at \in Nat, at >= 1,
           tx[s].pc \notin {"idle", "between"},
           x.pc = "step", x.at = at, x.item = tx[s].item
    PROVE  Placed(s, x)
BY Typed DEF Placed

LEMMA MissingStep == ASSUME IndInv, NEW s \in Syncer, Missing(s) PROVE IndInv'
<1>1. /\ tx[s].pc \notin {"idle", "between"} /\ tx[s].at \in Nat /\ Keep
      /\ tx' = [tx EXCEPT ![s].pc = "step", ![s].at = @ + 1]
  BY Typed DEF Missing, Does, Tx
<1>2. PICK at \in Nat : at = tx[s].at + 1 /\ at >= 1
  BY <1>1
<1> DEFINE x == [tx[s] EXCEPT !.pc = "step", !.at = at]
<1>3. /\ x \in Tx /\ x.pc = "step" /\ x.item = tx[s].item /\ x.at = at
      /\ x.refs = tx[s].refs /\ x.w = tx[s].w /\ x.base = tx[s].base
      /\ x.keys = tx[s].keys /\ x.dropped = tx[s].dropped
  BY Typed DEF Tx
<1>4. tx' = [tx EXCEPT ![s] = x]
  BY <1>1, <1>2, Typed DEF Tx
<1> HIDE DEF x
<1>5. Placed(s, x)
  BY <1>1, <1>2, <1>3, NextStep
<1>6. Finds(Db, x)
  BY <1>3, Typed DEF Finds
<1>7. QED
  BY <1>1, <1>3, <1>4, <1>5, <1>6, Moving

LEMMA UnresolvedStep == ASSUME IndInv, NEW s \in Syncer, Unresolved(s) PROVE IndInv'
<1>1. tx[s].pc = "step" /\ Keep /\ tx' = [tx EXCEPT ![s].at = Len(Steps(s)) + 1]
  BY DEF Unresolved, Does
<1>2. PICK at \in Nat : at = Len(Steps(s)) + 1 /\ at >= 1
  <2>1. tx[s].item \in 1..Len(Response[s]) /\ Response[s] \in Seq(Seq(Step))
    BY <1>1, Typed, MasterDataAssumption DEF Placed
  <2>2. Len(Steps(s)) \in Nat
    BY <2>1 DEF Steps
  <2>3. QED
    BY <2>2
<1> DEFINE x == [tx[s] EXCEPT !.at = at]
<1>3. /\ x \in Tx /\ x.pc = "step" /\ x.item = tx[s].item /\ x.at = at
      /\ x.refs = tx[s].refs /\ x.w = tx[s].w /\ x.base = tx[s].base
      /\ x.keys = tx[s].keys /\ x.dropped = tx[s].dropped
  BY <1>1, Typed DEF Tx
<1>4. tx' = [tx EXCEPT ![s] = x]
  BY <1>1, <1>2
<1> HIDE DEF x
<1>5. Placed(s, x)
  BY <1>1, <1>2, <1>3, NextStep
<1>6. Finds(Db, x)
  BY <1>3, Typed DEF Finds
<1>7. QED
  BY <1>1, <1>3, <1>4, <1>5, <1>6, Moving

LEMMA FindStep == ASSUME IndInv, NEW s \in Syncer, Find(s) PROVE IndInv'
<1>1. /\ tx[s].pc \in {"step", "ask"} /\ tx[s].at <= Len(Steps(s)) /\ Keep
      /\ tx[s].pc = "ask" => At(s).do = "coach"
      /\ tx[s].pc = "step" => At(s).do \in {"referee", "venue", "player"}
  BY Typed DEF Find, Does, Placed, Steps, At
<1>2. PICK r \in IF tx[s].pc = "ask" THEN Gives[At(s).of] ELSE {At(s).of} :
        IF Found(Visible(s), r) = {}
        THEN tx' = [tx EXCEPT ![s].pc = "insert", ![s].row = r]
        ELSE \E x \in Found(Visible(s), r) :
                tx' = IF r.kind = "player" THEN [tx EXCEPT ![s].at = @ + 1]
                      ELSE [tx EXCEPT ![s].pc = "update", ![s].row = x]
  BY DEF Find
<1>3. /\ r \in Record /\ (r.kind = "coach") = (At(s).do = "coach")
      /\ At(s).do = "coach" => At(s).of \in Team /\ r \in Gives[At(s).of]
  <2>1. CASE tx[s].pc = "ask"
    <3>1. At(s).of \in Team
      BY <1>1, <2>1, StepAt
    <3>2. Gives[At(s).of] \subseteq {c \in Record : c.kind = "coach"}
      BY <3>1, MasterDataAssumption
    <3>3. QED
      BY <1>1, <1>2, <2>1, <3>1, <3>2
  <2>2. CASE tx[s].pc = "step"
    <3>1. At(s).of \in Record /\ At(s).of.kind = At(s).do
      BY <1>1, <2>2, StepAt
    <3>2. QED
      BY <1>1, <1>2, <2>2, <3>1
  <2>3. QED
    BY <1>1, <2>1, <2>2
<1>4. ASSUME NEW pc \in {"insert", "update"}, NEW row \in Record, row.kind = r.kind,
             SameKey(r, row) \/ SameName(r, row) \/ row = r,
             pc = "update" => row \in Visible(s),
             tx' = [tx EXCEPT ![s].pc = pc, ![s].row = row]
      PROVE  IndInv'
  <2> DEFINE x == [tx[s] EXCEPT !.pc = pc, !.row = row]
  <2>1. /\ x \in Tx /\ x.pc = pc /\ x.item = tx[s].item /\ x.at = tx[s].at
        /\ x.row = row /\ x.refs = tx[s].refs /\ x.w = tx[s].w /\ x.base = tx[s].base
        /\ x.keys = tx[s].keys /\ x.dropped = tx[s].dropped
 /\ x.keys = tx[s].keys /\ x.dropped = tx[s].dropped
    BY Typed DEF Tx
  <2>2. tx' = [tx EXCEPT ![s] = x]
    BY <1>4
  <2> HIDE DEF x
  <2>3. row.kind = "coach" => At(s).do = "coach" /\ Suits(At(s).of, row)
    BY <1>3, <1>4 DEF Suits, SameKey
  <2>4. Placed(s, x)
    BY <1>1, <2>1, <2>3, Typed DEF Placed, At, Steps
  <2>5. Finds(Db, x)
    BY <1>4, <2>1, Typed DEF Finds
  <2>6. QED
    BY <1>1, <2>1, <2>2, <2>4, <2>5, Moving
<1>5. ASSUME tx' = [tx EXCEPT ![s].at = @ + 1], r.kind = "player" PROVE IndInv'
  <2> DEFINE x == [tx[s] EXCEPT !.at = @ + 1]
  <2>1. tx[s].pc = "step" /\ tx[s].at \in Nat
    BY <1>1, <1>3, <1>5, Typed DEF Tx
  <2>2. /\ x \in Tx /\ x.pc = "step" /\ x.item = tx[s].item /\ x.at = tx[s].at + 1
        /\ x.refs = tx[s].refs /\ x.w = tx[s].w /\ x.base = tx[s].base
        /\ x.keys = tx[s].keys /\ x.dropped = tx[s].dropped
    BY <2>1, Typed DEF Tx
  <2>3. tx' = [tx EXCEPT ![s] = x]
    BY <1>5
  <2> HIDE DEF x
  <2>4. Placed(s, x)
    BY <2>1, <2>2, NextStep
  <2>5. Finds(Db, x)
    BY <2>2, Typed DEF Finds
  <2>6. QED
    BY <1>1, <2>2, <2>3, <2>4, <2>5, Moving
<1>6. \A x \in Found(Visible(s), r) :
        x \in Visible(s) /\ x \in Record /\ x.kind = r.kind
           /\ (SameKey(r, x) \/ SameName(r, x))
  BY FoundIs, Typed
<1>7. QED
  BY <1>2, <1>3, <1>4, <1>5, <1>6

LEMMA RefsWithIs ==
    ASSUME IndInv, NEW s \in Syncer, NEW r \in Record
    PROVE  RefsWith(s, r) \in SUBSET Record /\ RefsWith(s, r) \subseteq tx[s].refs \cup {r}
BY Typed DEF RefsWith, Tx

LEMMA InsertConflictsStep ==
    ASSUME IndInv, NEW s \in Syncer, InsertConflicts(s) PROVE IndInv'
<1>1. /\ tx[s].pc = "insert" /\ tx[s].row \in Record /\ tx[s].row.kind # "coach"
      /\ Conflict(s) /\ Keep
  BY Typed DEF InsertConflicts, Placed
<1>2. PICK r \in Visible(s) : Clash(r, tx[s].row)
  BY <1>1 DEF Conflict
<1>3. Found(Visible(s), tx[s].row) # {}
  BY <1>2 DEF Found, Clash
<1>4. ASSUME NEW pc \in {"again", "update"}, NEW row \in Record, row.kind # "coach",
             pc = "update" => row \in Visible(s), pc = "again" => row = tx[s].row,
             tx' = [tx EXCEPT ![s].pc = pc, ![s].row = row]
      PROVE  IndInv'
  <2> DEFINE x == [tx[s] EXCEPT !.pc = pc, !.row = row]
  <2>1. /\ x \in Tx /\ x.pc = pc /\ x.item = tx[s].item /\ x.at = tx[s].at
        /\ x.row = row /\ x.refs = tx[s].refs /\ x.w = tx[s].w /\ x.base = tx[s].base
        /\ x.keys = tx[s].keys /\ x.dropped = tx[s].dropped
 /\ x.keys = tx[s].keys /\ x.dropped = tx[s].dropped
    BY Typed DEF Tx
  <2>2. tx' = [tx EXCEPT ![s] = x]
    BY <1>4
  <2> HIDE DEF x
  <2>3. Placed(s, x)
    BY <1>1, <1>4, <2>1, Typed DEF Placed
  <2>4. Finds(Db, x)
    BY <1>3, <1>4, <2>1, Typed DEF Finds
  <2>5. QED
    BY <1>1, <2>1, <2>2, <2>3, <2>4, Moving
<1>5. CASE tx[s].row.kind = "player"
  <2>1. PICK q \in Visible(s) :
          Clash(q, tx[s].row) /\ tx' = [tx EXCEPT ![s].pc = "update", ![s].row = q]
    BY <1>5 DEF InsertConflicts
  <2>2. q \in Record /\ q.kind # "coach"
    BY <1>1, <2>1, Typed DEF Clash, SameKey, SameName
  <2>3. QED
    BY <1>4, <2>1, <2>2
<1>6. CASE tx[s].row.kind # "player"
  <2>1. tx' = [tx EXCEPT ![s].pc = "again"]
    BY <1>6 DEF InsertConflicts, Goto
  <2>2. tx' = [tx EXCEPT ![s].pc = "again", ![s].row = tx[s].row]
    BY <2>1, Typed DEF Tx
  <2>3. QED
    BY <1>1, <1>4, <2>2
<1>7. QED
  BY <1>5, <1>6

LEMMA AgainStep == ASSUME IndInv, NEW s \in Syncer, Again(s) PROVE IndInv'
<1>1. PICK r \in Found(Visible(s), tx[s].row) :
        tx' = IF r.kind = "venue" THEN [tx EXCEPT ![s].pc = "update", ![s].row = r]
              ELSE [tx EXCEPT ![s].pc = "step", ![s].at = @ + 1,
                              ![s].refs = RefsWith(s, r)]
  BY DEF Again
<1>2. /\ tx[s].pc = "again" /\ tx[s].row.kind # "coach" /\ Keep
      /\ tx[s].at \in Nat /\ tx[s].at >= 1
  BY Typed DEF Again, Placed, Tx
<1>3. r \in Visible(s) /\ r \in Record /\ r.kind # "coach"
  BY <1>2, FoundIs, Typed
<1>4. CASE r.kind = "venue"
  <2> DEFINE x == [tx[s] EXCEPT !.pc = "update", !.row = r]
  <2>1. /\ x \in Tx /\ x.pc = "update" /\ x.item = tx[s].item /\ x.at = tx[s].at
        /\ x.row = r /\ x.refs = tx[s].refs /\ x.w = tx[s].w /\ x.base = tx[s].base
        /\ x.keys = tx[s].keys /\ x.dropped = tx[s].dropped
 /\ x.keys = tx[s].keys /\ x.dropped = tx[s].dropped
    BY <1>3, Typed DEF Tx
  <2>2. tx' = [tx EXCEPT ![s] = x]
    BY <1>1, <1>4
  <2> HIDE DEF x
  <2>3. Placed(s, x)
    BY <1>2, <1>3, <2>1, Typed DEF Placed
  <2>4. Finds(Db, x)
    BY <1>3, <2>1, Typed DEF Finds
  <2>5. QED
    BY <1>2, <2>1, <2>2, <2>3, <2>4, Moving
<1>5. CASE r.kind # "venue"
  <2>1. PICK at \in Nat : at = tx[s].at + 1 /\ at >= 1
    BY <1>2
  <2>2. PICK refs \in SUBSET Record :
          refs = RefsWith(s, r) /\ refs \subseteq tx[s].refs \cup {r}
    BY <1>3, RefsWithIs
  <2> DEFINE x == [tx[s] EXCEPT !.pc = "step", !.at = at, !.refs = refs]
  <2>3. /\ x \in Tx /\ x.pc = "step" /\ x.item = tx[s].item /\ x.at = at
        /\ x.refs = refs /\ x.w = tx[s].w /\ x.base = tx[s].base
        /\ x.keys = tx[s].keys /\ x.dropped = tx[s].dropped
    BY Typed DEF Tx
  <2>4. tx' = [tx EXCEPT ![s] = x]
    BY <1>1, <1>5, <2>1, <2>2, Typed DEF Tx
  <2> HIDE DEF x
  <2>5. Placed(s, x)
    BY <1>2, <2>1, <2>3, NextStep
  <2>6. Finds(Db, x)
    BY <1>3, <2>2, <2>3, Typed DEF Finds
  <2>7. QED
    BY <1>2, <2>3, <2>4, <2>5, <2>6, Moving
<1>6. QED
  BY <1>4, <1>5

-----------------------------------------------------------------------------
(* What is written stays sound if rows and locks are added to it.          *)
LEMMA SoundGrows ==
    ASSUME NEW db, NEW w, NEW v, Sound(db, w), v.coach = w.coach, v.match = w.match,
           w.new \subseteq v.new, w.locks \subseteq v.locks
    PROVE  Sound(db, v)
BY DEF Sound, Seen, Assigned

LEMMA NoWait ==
    ASSUME NEW s \in Syncer, NEW u \in Syncer \ {s}, Waits(s) = {}
    PROVE  /\ tx[s].pc = "update" => tx[s].row \notin tx[u].w.locks
           /\ tx[s].pc = "assign" /\ tx[s].had # {tx[s].row} => ~AssignWaits(s, u)
           /\ Does(s, "match") \/ Does(s, "context") => At(s).of \notin tx[u].w.locks
BY DEF Waits

(* A step that adds rows and one lock, which nobody else has.              *)
LEMMA Growing ==
    ASSUME IndInv, Keep, NEW s \in Syncer, NEW x \in Tx, tx' = [tx EXCEPT ![s] = x],
           x.base = tx[s].base, x.w.coach = tx[s].w.coach, x.w.match = tx[s].w.match,
           tx[s].w.new \subseteq x.w.new,
           NEW locked, x.w.locks = tx[s].w.locks \cup locked,
           \A u \in Syncer \ {s} : locked \cap tx[u].w.locks = {},
           Placed(s, x), Finds(Db, x),
           x.keys = tx[s].keys, x.dropped = tx[s].dropped, x.pc \notin {"idle", "between"}
    PROVE  IndInv'
<1>1. Sound(Db, x.w)
  BY Typed, SoundGrows
<1>2. TxOk(Db, s, x)
  BY <1>1, Typed DEF TxOk, Drops
<1>3. \A u \in Syncer \ {s} : Apart(x, tx[u])
  BY DEF IndInv, Apart
<1>4. QED
  BY <1>2, <1>3, Local

LEMMA MoreRows ==
    ASSUME NEW w \in Writes, NEW more \in SUBSET Record
    PROVE  [w EXCEPT !.new = @ \cup more] \in Writes
BY DEF Writes

LEMMA MoreLocks ==
    ASSUME NEW w \in Writes, NEW more \in SUBSET (Record \cup Team \cup Match)
    PROVE  [w EXCEPT !.locks = @ \cup more] \in Writes
BY DEF Writes

LEMMA InsertStep == ASSUME IndInv, NEW s \in Syncer, Insert(s) PROVE IndInv'
<1> DEFINE row == tx[s].row
<1>1. /\ tx[s].pc = "insert" /\ row \in Record /\ Keep
      /\ tx[s].at \in Nat /\ tx[s].at >= 1
  BY Typed DEF Insert, Placed, Tx
<1>2. PICK w \in Writes : w = [tx[s].w EXCEPT !.new = @ \cup {row}]
  <2> DEFINE w == [tx[s].w EXCEPT !.new = @ \cup {row}]
  <2>1. w \in Writes
    <3>1. {row} \in SUBSET Record
      BY <1>1
    <3>2. QED
      BY <3>1, Typed, MoreRows
  <2> HIDE DEF w
  <2>2. \E v \in Writes : v = w
    BY <2>1
  <2>3. QED
    BY <2>2 DEF w
<1>3. PICK refs \in SUBSET Record :
        refs = RefsWith(s, row) /\ refs \subseteq tx[s].refs \cup {row}
  BY <1>1, RefsWithIs
<1>4. PICK pc \in {"assign", "step"}, at \in Nat :
        /\ pc = IF row.kind = "coach" THEN "assign" ELSE "step"
        /\ at = IF row.kind = "coach" THEN tx[s].at ELSE tx[s].at + 1
        /\ at >= 1
  BY <1>1
<1> DEFINE x == [tx[s] EXCEPT !.w = w, !.pc = pc, !.at = at, !.refs = refs]
<1>5. /\ x \in Tx /\ x.pc = pc /\ x.item = tx[s].item /\ x.at = at
      /\ x.refs = refs /\ x.w = w /\ x.base = tx[s].base /\ x.row = row
      /\ x.keys = tx[s].keys /\ x.dropped = tx[s].dropped
  BY Typed DEF Tx
<1>6. tx' = [tx EXCEPT ![s] = x]
  BY <1>2, <1>3, <1>4, Typed DEF Insert, Tx, Writes
<1>7. /\ w.new = tx[s].w.new \cup {row} /\ w.coach = tx[s].w.coach
      /\ w.match = tx[s].w.match /\ w.locks = tx[s].w.locks
  BY <1>2, Typed DEF Writes
<1> HIDE DEF x
<1>8. Placed(s, x)
  <2>1. CASE row.kind = "coach"
    BY <1>1, <1>4, <1>5, <2>1, Typed DEF Placed
  <2>2. CASE row.kind # "coach"
    BY <1>1, <1>4, <1>5, <2>2, NextStep
  <2>3. QED
    BY <2>1, <2>2
<1>9. Finds(Db, x)
  BY <1>3, <1>5, <1>7, Typed DEF Finds
<1>10. /\ x.w.new = tx[s].w.new \cup {row} /\ x.w.coach = tx[s].w.coach
       /\ x.w.match = tx[s].w.match /\ x.w.locks = tx[s].w.locks
  BY <1>5, <1>7
<1>11. \A u \in Syncer \ {s} : Apart(x, tx[u])
  BY <1>5, <1>10 DEF IndInv, Apart
<1>12. Sound(Db, x.w)
  BY <1>10, Typed, SoundGrows
<1>13. TxOk(Db, s, x)
  <2>1. Drops(x)
    BY <1>5, <1>10, Typed DEF Drops
  <2>2. QED
    BY <1>5, <1>8, <1>9, <1>10, <1>12, <2>1, Typed DEF TxOk
<1>14. QED
  BY <1>1, <1>5, <1>6, <1>11, <1>13, Local

LEMMA UpdateStep == ASSUME IndInv, NEW s \in Syncer, Update(s) PROVE IndInv'
<1> DEFINE row == tx[s].row
<1>1. /\ tx[s].pc = "update" /\ row \in Record /\ Keep /\ Waits(s) = {}
      /\ tx[s].at \in Nat /\ tx[s].at >= 1 /\ row \in Visible(s)
  BY Typed DEF Update, Placed, Tx, Finds
<1>2. PICK locked \in {{}, {row}} :
        tx' = [tx EXCEPT ![s].w.locks = @ \cup locked,
                         ![s].pc = IF row.kind = "coach" THEN "assign" ELSE "step",
                         ![s].at = IF row.kind = "coach" THEN @ ELSE @ + 1,
                         ![s].refs = RefsWith(s, row)]
  BY DEF Update
<1>3. PICK w \in Writes : w = [tx[s].w EXCEPT !.locks = @ \cup locked]
  <2> DEFINE w == [tx[s].w EXCEPT !.locks = @ \cup locked]
  <2>1. w \in Writes
    <3>1. locked \in SUBSET (Record \cup Team \cup Match)
      BY <1>1, <1>2
    <3>2. QED
      BY <3>1, Typed, MoreLocks
  <2> HIDE DEF w
  <2>2. \E v \in Writes : v = w
    BY <2>1
  <2>3. QED
    BY <2>2 DEF w
<1>4. PICK refs \in SUBSET Record :
        refs = RefsWith(s, row) /\ refs \subseteq tx[s].refs \cup {row}
  BY <1>1, RefsWithIs
<1>5. PICK pc \in {"assign", "step"}, at \in Nat :
        /\ pc = IF row.kind = "coach" THEN "assign" ELSE "step"
        /\ at = IF row.kind = "coach" THEN tx[s].at ELSE tx[s].at + 1
        /\ at >= 1
  BY <1>1
<1> DEFINE x == [tx[s] EXCEPT !.w = w, !.pc = pc, !.at = at, !.refs = refs]
<1>6. /\ x \in Tx /\ x.pc = pc /\ x.item = tx[s].item /\ x.at = at
      /\ x.refs = refs /\ x.w = w /\ x.base = tx[s].base /\ x.row = row
      /\ x.keys = tx[s].keys /\ x.dropped = tx[s].dropped
  BY Typed DEF Tx
<1>7. tx' = [tx EXCEPT ![s] = x]
  BY <1>2, <1>3, <1>4, <1>5, Typed DEF Tx, Writes
<1>8. /\ w.new = tx[s].w.new /\ w.coach = tx[s].w.coach
      /\ w.match = tx[s].w.match /\ w.locks = tx[s].w.locks \cup locked
  BY <1>3, Typed DEF Writes
<1>9. \A u \in Syncer \ {s} : locked \cap tx[u].w.locks = {}
  BY <1>1, <1>2, NoWait
<1> HIDE DEF x
<1>10. Placed(s, x)
  <2>1. CASE row.kind = "coach"
    BY <1>1, <1>5, <1>6, <2>1, Typed DEF Placed
  <2>2. CASE row.kind # "coach"
    BY <1>1, <1>5, <1>6, <2>2, NextStep
  <2>3. QED
    BY <2>1, <2>2
<1>11. Finds(Db, x)
  BY <1>1, <1>4, <1>5, <1>6, <1>8, Typed DEF Finds
<1>12. QED
  BY <1>1, <1>6, <1>7, <1>8, <1>9, <1>10, <1>11, Growing

LEMMA ContextStep == ASSUME IndInv, NEW s \in Syncer, Context(s) PROVE IndInv'
<1>1. /\ tx[s].pc = "step" /\ tx[s].at <= Len(Steps(s)) /\ At(s).do = "context"
      /\ Keep /\ Waits(s) = {} /\ tx[s].at \in Nat /\ tx[s].at >= 1
  BY Typed DEF Context, Does, Tx, Placed
<1>2. At(s).of \in Team
  BY <1>1, StepAt
<1>3. PICK w \in Writes : w = [tx[s].w EXCEPT !.locks = @ \cup {At(s).of}]
  <2> DEFINE w == [tx[s].w EXCEPT !.locks = @ \cup {At(s).of}]
  <2>1. w \in Writes
    BY <1>2, Typed DEF Writes
  <2> HIDE DEF w
  <2>2. \E v \in Writes : v = w
    BY <2>1
  <2>3. QED
    BY <2>2 DEF w
<1>4. PICK at \in Nat : at = tx[s].at + 1 /\ at >= 1
  BY <1>1
<1> DEFINE x == [tx[s] EXCEPT !.at = at, !.w = w]
<1>5. /\ x \in Tx /\ x.pc = "step" /\ x.item = tx[s].item /\ x.at = at
      /\ x.refs = tx[s].refs /\ x.w = w /\ x.base = tx[s].base
      /\ x.keys = tx[s].keys /\ x.dropped = tx[s].dropped
  BY <1>1, Typed DEF Tx
<1>6. tx' = [tx EXCEPT ![s] = x]
  BY <1>3, <1>4, Typed DEF Context, Tx, Writes
<1>7. /\ w.new = tx[s].w.new /\ w.coach = tx[s].w.coach
      /\ w.match = tx[s].w.match /\ w.locks = tx[s].w.locks \cup {At(s).of}
  BY <1>3, Typed DEF Writes
<1>8. \A u \in Syncer \ {s} : {At(s).of} \cap tx[u].w.locks = {}
  BY <1>1, NoWait DEF Does
<1> HIDE DEF x
<1>9. Placed(s, x)
  BY <1>1, <1>4, <1>5, NextStep
<1>10. Finds(Db, x)
  BY <1>5, <1>7, Typed DEF Finds
<1>11. QED
  BY <1>1, <1>5, <1>6, <1>7, <1>8, <1>9, <1>10, Growing

-----------------------------------------------------------------------------
(* Savepoints.                                                             *)
BetweenWith(item, w, gone) ==
    [Idle EXCEPT !.pc = "between", !.w = w, !.item = item, !.dropped = gone]

StepWith(item, w, keys, gone) ==
    [Idle EXCEPT !.pc = "step", !.item = item, !.at = 1, !.w = w, !.base = w,
                 !.keys = keys, !.dropped = gone]

LEMMA FreshBetween ==
    ASSUME NEW item \in Nat, NEW w \in Writes, NEW gone \in SUBSET Team
    PROVE  LET x == BetweenWith(item, w, gone) IN
           /\ x \in Tx /\ x.pc = "between" /\ x.item = item /\ x.w = w
           /\ x.base = NoWrites /\ x.refs = {} /\ x.keys = {} /\ x.dropped = gone
<1>1. Idle \in Tx /\ Idle.base = NoWrites /\ Idle.refs = {} /\ Idle.keys = {}
  BY DEF Idle, Tx, NoWrites, Writes
<1>2. QED
  BY <1>1 DEF Tx, BetweenWith

LEMMA IdleFresh == Idle \in Tx /\ Idle.refs = {}
BY DEF Idle, Tx, NoWrites, Writes

LEMMA Between ==
    ASSUME IndInv, Keep, NEW s \in Syncer, NEW w \in {tx[s].w, tx[s].base},
           NEW gone \in SUBSET Team, \A c \in w.coach : c[1] \in gone,
           tx' = [tx EXCEPT ![s] = [Idle EXCEPT !.pc = "between", !.w = w,
                                                !.item = tx[s].item, !.dropped = gone]]
    PROVE  IndInv'
<1> DEFINE x == BetweenWith(tx[s].item, w, gone)
<1>1. w \in Writes /\ tx[s].item \in Nat /\ Sound(Db, w) /\ w.locks \subseteq tx[s].w.locks
  BY Typed DEF Tx
<1>2. /\ x \in Tx /\ x.pc = "between" /\ x.item = tx[s].item /\ x.w = w
      /\ x.base = NoWrites /\ x.refs = {} /\ x.keys = {} /\ x.dropped = gone
  BY <1>1, FreshBetween
<1> HIDE DEF x
<1>3. Idle.base = NoWrites /\ NoWrites.coach = {} /\ NoWrites.locks = {}
  BY DEF Idle, NoWrites
<1>4. Sound(Db, NoWrites)
  <2>1. \A t, u \in Team : t # u => Db.coach[t] \cap Db.coach[u] = {}
    BY DEF IndInv, CoachesAgree, Db
  <2>2. TxOk(Db, s, Idle)
    BY <2>1, IdleOk
  <2>3. QED
    BY <1>3, <2>2 DEF TxOk
<1>5. TxOk(Db, s, x)
  <2>1. Drops(x)
    BY <1>2, <1>3 DEF Drops
  <2>2. QED
    BY <1>1, <1>2, <1>3, <1>4, <2>1 DEF TxOk, Placed, Finds
<1>6. \A u \in Syncer \ {s} : Apart(x, tx[u])
  BY <1>1, <1>2, <1>3 DEF IndInv, Apart
<1>7. QED
  <2>1. tx' = [tx EXCEPT ![s] = x]
    BY DEF x, BetweenWith
  <2>2. QED
    BY <1>2, <1>5, <1>6, <2>1, Local

LEMMA ReleaseStep == ASSUME IndInv, NEW s \in Syncer, Release(s) PROVE IndInv'
<1> DEFINE gone == tx[s].dropped \cup tx[s].keys
<1>1. gone \in SUBSET Team /\ \A c \in tx[s].w.coach : c[1] \in gone
  BY Typed DEF Drops, Tx
<1>2. QED
  BY <1>1, Between DEF Release

LEMMA FailStep == ASSUME IndInv, NEW s \in Syncer, Fail(s) PROVE IndInv'
<1>1. tx[s].dropped \in SUBSET Team /\ \A c \in tx[s].base.coach : c[1] \in tx[s].dropped
  BY Typed DEF Drops, Tx
<1>2. QED
  BY <1>1, Between DEF Fail

LEMMA TakeStep == ASSUME IndInv, NEW s \in Syncer, Take(s) PROVE IndInv'
<1>1. PICK item \in Nat : item = tx[s].item + 1 /\ item \in 1..Len(Response[s])
  <2>1. tx[s].item \in Nat /\ tx[s].item < Len(Response[s])
    BY Typed DEF Take, Tx
  <2>2. Len(Response[s]) \in Nat
    BY MasterDataAssumption
  <2>3. QED
    BY <2>1, <2>2
<1> DEFINE x == StepWith(item, tx[s].w, tx[s].keys, tx[s].dropped)
<1>2. /\ x \in Tx /\ x.pc = "step" /\ x.item = item /\ x.at = 1 /\ x.w = tx[s].w
      /\ x.base = tx[s].w /\ x.refs = {} /\ x.keys = tx[s].keys
      /\ x.dropped = tx[s].dropped
  <2>1. /\ tx[s].keys \in SUBSET Team /\ tx[s].dropped \in SUBSET Team
        /\ tx[s].w \in Writes
    BY Typed DEF Tx
  <2>2. PICK keys \in SUBSET Team, gone \in SUBSET Team, w \in Writes :
          keys = tx[s].keys /\ gone = tx[s].dropped /\ w = tx[s].w
    BY <2>1
  <2>3. x = StepWith(item, w, keys, gone)
    BY <2>2
  <2> HIDE DEF x
  <2>4. QED
    <3>1. /\ x \in Tx /\ x.pc = "step" /\ x.item = item /\ x.at = 1 /\ x.w = w
          /\ x.base = w /\ x.refs = {} /\ x.keys = keys /\ x.dropped = gone
      BY <2>3, IdleFresh DEF Tx, StepWith
    <3>2. QED
      BY <2>2, <3>1
<1>3. tx' = [tx EXCEPT ![s] = x] /\ Keep
  BY <1>1 DEF Take, StepWith
<1> HIDE DEF x
<1>4. Placed(s, x) /\ Finds(Db, x)
  BY <1>1, <1>2 DEF Placed, Finds
<1>5. TxOk(Db, s, x)
  <2>1. tx[s].keys = {}
    BY Typed DEF Take, Drops
  <2>2. Drops(x)
    BY <1>2, <2>1, Typed DEF Drops
  <2>3. QED
    BY <1>2, <1>4, <2>2, Typed DEF TxOk
<1>6. \A u \in Syncer \ {s} : Apart(x, tx[u])
  BY <1>2 DEF IndInv, Apart
<1>7. QED
  BY <1>2, <1>3, <1>5, <1>6, Local

LEMMA AbortStep == ASSUME IndInv, NEW s \in Syncer, Abort(s) PROVE IndInv'
<1>1. \A t, u \in Team : t # u => Db.coach[t] \cap Db.coach[u] = {}
  BY DEF IndInv, CoachesAgree, Db
<1>2. Idle \in Tx /\ TxOk(Db, s, Idle)
  BY <1>1, IdleOk
<1>3. Idle.w.coach = {} /\ Idle.base.coach = {} /\ Idle.w.locks = {}
  BY DEF Idle, NoWrites
<1>4. \A u \in Syncer \ {s} : Apart(Idle, tx[u])
  BY <1>3 DEF Apart
<1>5. QED
  BY <1>2, <1>4, Local DEF Abort

-----------------------------------------------------------------------------
(* The coach of a team, and the match.                                     *)
LEMMA AssignSound ==
    ASSUME NEW db, NEW w \in Writes, NEW v \in Writes, NEW t \in Team, NEW c \in Record,
           Sound(db, w), c \in db.rows \cup w.new, Suits(t, c),
           \A u \in Team \ {t} : c \notin Seen(db, w, u),
           v.new = w.new, v.match = w.match, v.locks = w.locks \cup {t},
           v.coach = {d \in w.coach : d[1] # t} \cup {<<t, c>>}
    PROVE  Sound(db, v)
<1>1. Seen(db, v, t) = {c}
  <2>1. Assigned(v, t) = {c}
    BY DEF Assigned
  <2>2. QED
    BY <2>1 DEF Seen
<1>2. \A u \in Team \ {t} : Seen(db, v, u) = Seen(db, w, u)
  <2>1. \A u \in Team \ {t} : Assigned(v, u) = Assigned(w, u)
    BY DEF Assigned
  <2>2. QED
    BY <2>1 DEF Seen
<1>3. \A u1, u2 \in Team : u1 # u2 => Seen(db, v, u1) \cap Seen(db, v, u2) = {}
  BY <1>1, <1>2 DEF Sound
<1>4. \A d \in v.coach : d[2] \in db.rows \cup v.new /\ Suits(d[1], d[2]) /\ d[1] \in v.locks
  BY DEF Sound
<1>5. \A d, e \in v.coach : d[1] = e[1] => d[2] = e[2]
  BY DEF Sound
<1>6. QED
  BY <1>3, <1>4, <1>5 DEF Sound

LEMMA AssignStep == ASSUME IndInv, NEW s \in Syncer, Assign(s) PROVE IndInv'
<1> DEFINE t == At(s).of
           row == tx[s].row
           same == tx[s].had = {row}
           others == {c \in tx[s].w.coach : c[1] # t}
<1>1. /\ tx[s].pc = "assign" /\ row \in Record /\ row.kind = "coach"
      /\ tx[s].at \in Nat /\ tx[s].at >= 1 /\ tx[s].at <= Len(Steps(s))
      /\ At(s).do = "coach" /\ Suits(t, row) /\ row \in Visible(s)
      /\ Waits(s) = {} /\ (same \/ ~Taken(s)) /\ Keep
  BY Typed DEF Assign, Placed, Finds, Tx, At, Steps
<1>2. t \in Team
  BY <1>1, StepAt
<1>3. tx' = [tx EXCEPT ![s].pc = "step", ![s].at = @ + 1,
                       ![s].w.locks = IF same THEN @ ELSE @ \cup {t},
                       ![s].w.coach = IF same THEN @ ELSE others \cup {<<t, row>>},
                       ![s].keys = IF same THEN @ ELSE @ \cup {t}]
  BY DEF Assign
<1>4. PICK at \in Nat : at = tx[s].at + 1 /\ at >= 1
  BY <1>1
<1>5. ASSUME NEW w \in Writes, NEW keys \in SUBSET Team,
             tx' = [tx EXCEPT ![s] = [tx[s] EXCEPT !.pc = "step", !.at = at, !.w = w,
                                                   !.keys = keys]],
             \A c \in w.coach : c[1] \in keys \cup tx[s].dropped,
             w.new = tx[s].w.new, Sound(Db, w), tx[s].w.locks \subseteq w.locks,
             \A u \in Syncer \ {s} :
                /\ w.locks \cap tx[u].w.locks = {}
                /\ \A c \in w.coach, d \in tx[u].w.coach \cup tx[u].base.coach : c[2] # d[2]
      PROVE  IndInv'
  <2> DEFINE x == [tx[s] EXCEPT !.pc = "step", !.at = at, !.w = w, !.keys = keys]
  <2>1. /\ x \in Tx /\ x.pc = "step" /\ x.at = at /\ x.item = tx[s].item /\ x.w = w
        /\ x.base = tx[s].base /\ x.refs = tx[s].refs
        /\ x.keys = keys /\ x.dropped = tx[s].dropped
    BY Typed DEF Tx
  <2>2. tx' = [tx EXCEPT ![s] = x]
    BY <1>5
  <2> HIDE DEF x
  <2>3. Placed(s, x)
    BY <1>1, <1>4, <2>1, NextStep
  <2>4. Finds(Db, x)
    BY <1>5, <2>1, Typed DEF Finds
  <2>5. TxOk(Db, s, x)
    <3>1. Drops(x)
      BY <1>5, <2>1, Typed DEF Drops
    <3>2. QED
      BY <1>5, <2>1, <2>3, <2>4, <3>1, Typed DEF TxOk
  <2>6. \A u \in Syncer \ {s} : Apart(x, tx[u])
    BY <1>5, <2>1 DEF IndInv, Apart
  <2>7. QED
    BY <1>1, <2>1, <2>2, <2>5, <2>6, Local
<1>6. CASE same
  <2> DEFINE w == [tx[s].w EXCEPT !.locks = @, !.coach = @]
  <2>1. w = tx[s].w
    BY Typed DEF Writes
  <2>2. tx' = [tx EXCEPT ![s] = [tx[s] EXCEPT !.pc = "step", !.at = at, !.w = w,
                                              !.keys = tx[s].keys]]
    BY <1>3, <1>4, <1>6, Typed DEF Tx
  <2>3. tx' = [tx EXCEPT ![s] = [tx[s] EXCEPT !.pc = "step", !.at = at, !.w = tx[s].w,
                                              !.keys = tx[s].keys]]
    BY <2>1, <2>2
  <2>4. /\ tx[s].w \in Writes /\ tx[s].keys \in SUBSET Team /\ Sound(Db, tx[s].w)
        /\ \A c \in tx[s].w.coach : c[1] \in tx[s].keys \cup tx[s].dropped
    BY Typed DEF Tx, Drops
  <2>5. \A u \in Syncer \ {s} :
           /\ tx[s].w.locks \cap tx[u].w.locks = {}
           /\ \A c \in tx[s].w.coach, d \in tx[u].w.coach \cup tx[u].base.coach :
                 c[2] # d[2]
    BY DEF IndInv, Apart
  <2>6. QED
    BY <1>5, <2>3, <2>4, <2>5
<1>7. CASE ~same
  <2>0. PICK keys \in SUBSET Team : keys = tx[s].keys \cup {t}
    <3>1. tx[s].keys \in SUBSET Team /\ {t} \in SUBSET Team
      BY <1>2, Typed DEF Tx
    <3>2. QED
      BY <3>1
  <2> DEFINE w == [tx[s].w EXCEPT !.locks = @ \cup {t}, !.coach = others \cup {<<t, row>>}]
  <2>1. /\ w \in Writes /\ w.new = tx[s].w.new /\ w.match = tx[s].w.match
        /\ w.locks = tx[s].w.locks \cup {t} /\ w.coach = others \cup {<<t, row>>}
    <3>1. tx[s].w \in Writes /\ others \in SUBSET (Team \X Record)
      BY Typed DEF Writes
    <3>2. others \cup {<<t, row>>} \in SUBSET (Team \X Record)
      BY <1>1, <1>2, <3>1
    <3>3. {t} \in SUBSET (Record \cup Team \cup Match)
      BY <1>2
    <3> HIDE DEF others
    <3>4. QED
      BY <3>1, <3>2, <3>3 DEF Writes
  <2>2. tx' = [tx EXCEPT ![s] = [tx[s] EXCEPT !.pc = "step", !.at = at, !.w = w,
                                              !.keys = keys]]
    <3>1. tx' = [tx EXCEPT ![s].pc = "step", ![s].at = @ + 1,
                           ![s].w.locks = @ \cup {t},
                           ![s].w.coach = others \cup {<<t, row>>},
                           ![s].keys = @ \cup {t}]
      BY <1>3, <1>7
    <3> HIDE DEF others, same
    <3>2. tx[s] \in Tx /\ tx[s].w \in Writes /\ tx \in [Syncer -> Tx]
      BY Typed
    <3>3. PICK locks, coaches :
            locks = tx[s].w.locks \cup {t} /\ coaches = others \cup {<<t, row>>}
      OBVIOUS
    <3>4. tx' = [tx EXCEPT ![s].pc = "step", ![s].at = at, ![s].w.locks = locks,
                           ![s].w.coach = coaches, ![s].keys = keys]
      BY <1>4, <2>0, <3>1, <3>3
    <3>5. w = [tx[s].w EXCEPT !.locks = locks, !.coach = coaches]
      BY <3>3
    <3> HIDE DEF w
    <3>6. QED
      BY <3>2, <3>4, <3>5 DEF Tx
  <2> HIDE DEF w
  <2>3. \A u \in Team \ {t} : row \notin Seen(Db, tx[s].w, u)
    BY <1>1, <1>7 DEF Taken, CoachSeen, Seen, Db
  <2>4. Sound(Db, w)
    BY <1>1, <1>2, <2>1, <2>3, Typed, AssignSound
  <2>5. \A u \in Syncer \ {s} : ~AssignWaits(s, u)
    BY <1>1, <1>7, NoWait
  <2>6. \A u \in Syncer \ {s} :
           /\ t \notin tx[u].w.locks
           /\ \A d \in tx[u].w.coach \cup tx[u].base.coach : d[2] # row
    <3> SUFFICES ASSUME NEW u \in Syncer \ {s},
                        NEW d \in tx[u].w.coach \cup tx[u].base.coach, d[2] = row
                 PROVE  FALSE
      BY <2>5 DEF AssignWaits
    <3>1. d \in Team \X Record
      BY Typed DEF Writes
    <3>2. d = <<d[1], row>> /\ d[1] \in Team
      BY <3>1
    <3>3. QED
      BY <2>5, <3>2 DEF AssignWaits
  <2>7. \A u \in Syncer \ {s} :
           /\ w.locks \cap tx[u].w.locks = {}
           /\ \A c \in w.coach, d \in tx[u].w.coach \cup tx[u].base.coach : c[2] # d[2]
    <3> SUFFICES ASSUME NEW u \in Syncer \ {s}
                 PROVE  /\ w.locks \cap tx[u].w.locks = {}
                        /\ \A c \in w.coach,
                              d \in tx[u].w.coach \cup tx[u].base.coach : c[2] # d[2]
      OBVIOUS
    <3>1. Apart(tx[s], tx[u])
      BY DEF IndInv
    <3>2. w.locks \cap tx[u].w.locks = {}
      BY <2>1, <2>6, <3>1 DEF Apart
    <3>3. \A c \in others, d \in tx[u].w.coach \cup tx[u].base.coach : c[2] # d[2]
      BY <3>1 DEF Apart
    <3>4. \A d \in tx[u].w.coach \cup tx[u].base.coach : d[2] # <<t, row>>[2]
      BY <2>6
    <3> HIDE DEF others
    <3>5. QED
      BY <2>1, <3>2, <3>3, <3>4
  <2>8. \A c \in w.coach : c[1] \in keys \cup tx[s].dropped
    <3>1. \A c \in others : c[1] \in tx[s].keys \cup tx[s].dropped
      BY Typed DEF Drops
    <3> HIDE DEF others
    <3>2. QED
      BY <2>0, <2>1, <3>1
  <2>9. QED
    BY <1>5, <2>1, <2>2, <2>4, <2>7, <2>8
<1>8. QED
  BY <1>6, <1>7

(* A match keeps its venue, if the sync has none to put in its place.      *)
Stores(db, w, v, m, refs, kept, before) ==
    /\ w \in Writes /\ v \in Writes /\ m \in Match
    /\ Sound(db, w) /\ refs \subseteq db.rows \cup w.new /\ db.match[m] \subseteq db.rows
    /\ before = IF w.match[m] # {} THEN UNION w.match[m] ELSE db.match[m]
    /\ kept = IF HasVenue(refs) THEN {} ELSE {r \in before : r.kind = "venue"}
    /\ v.new = w.new /\ v.coach = w.coach /\ v.locks = w.locks \cup {m}
    /\ v.match = [w.match EXCEPT ![m] = {refs \cup kept}]

LEMMA StoreSound ==
    ASSUME NEW db, NEW w, NEW v, NEW m, NEW refs, NEW kept, NEW before,
           Stores(db, w, v, m, refs, kept, before)
    PROVE  Sound(db, v)
<1>0. /\ w \in Writes /\ v \in Writes /\ m \in Match
      /\ Sound(db, w) /\ refs \subseteq db.rows \cup w.new /\ db.match[m] \subseteq db.rows
      /\ before = IF w.match[m] # {} THEN UNION w.match[m] ELSE db.match[m]
      /\ kept = IF HasVenue(refs) THEN {} ELSE {r \in before : r.kind = "venue"}
      /\ v.new = w.new /\ v.coach = w.coach /\ v.locks = w.locks \cup {m}
      /\ v.match = [w.match EXCEPT ![m] = {refs \cup kept}]
  BY DEF Stores
<1> USE <1>0
<1>1. w.match \in [Match -> SUBSET (SUBSET Record)]
  BY DEF Writes
<1>2. v.match[m] = {refs \cup kept} /\ \A n \in Match \ {m} : v.match[n] = w.match[n]
  BY <1>1
<1>3. before \subseteq db.rows \cup w.new
  BY DEF Sound
<1>4. \A n \in Match : \A r \in v.match[n] : r \subseteq db.rows \cup v.new
  BY <1>2, <1>3 DEF Sound
<1>5. HasVenue(db.match[m]) => HasVenue(before)
  BY DEF Sound
<1>6. HasVenue(db.match[m]) => HasVenue(refs \cup kept)
  BY <1>5 DEF HasVenue
<1>7. UNION v.match[m] = refs \cup kept
  BY <1>2
<1>8. \A n \in Match : v.match[n] # {} =>
         n \in v.locks /\ (HasVenue(db.match[n]) => HasVenue(UNION v.match[n]))
  BY <1>2, <1>6, <1>7 DEF Sound
<1>9. \A t \in Team : Seen(db, v, t) = Seen(db, w, t)
  BY DEF Seen, Assigned
<1>10. \A c \in v.coach : c[2] \in db.rows \cup v.new /\ Suits(c[1], c[2]) /\ c[1] \in v.locks
  BY DEF Sound
<1>11. /\ \A c, d \in v.coach : c[1] = d[1] => c[2] = d[2]
       /\ \A t, u \in Team : t # u => Seen(db, v, t) \cap Seen(db, v, u) = {}
  BY <1>9 DEF Sound
<1>12. QED
  BY <1>4, <1>8, <1>10, <1>11 DEF Sound

LEMMA StoreStep == ASSUME IndInv, NEW s \in Syncer, Store(s) PROVE IndInv'
<1> DEFINE m == At(s).of
           refs == tx[s].refs
           venue == {r \in refs : r.kind = "venue"}
           before == IF tx[s].w.match[m] # {} THEN UNION tx[s].w.match[m] ELSE match[m]
           kept == IF venue # {} THEN {} ELSE {r \in before : r.kind = "venue"}
<1>1. /\ tx[s].pc = "step" /\ tx[s].at <= Len(Steps(s)) /\ At(s).do = "match"
      /\ tx[s].at \in Nat /\ tx[s].at >= 1 /\ Waits(s) = {} /\ Keep
      /\ refs \subseteq Record /\ refs \subseteq Db.rows \cup tx[s].w.new
  BY Typed DEF Store, Does, Tx, Placed, Finds
<1>2. m \in Match
  BY <1>1, StepAt
<1>3. tx' = [tx EXCEPT ![s].at = @ + 1, ![s].w.locks = @ \cup {m},
                       ![s].w.match = [@ EXCEPT ![m] = {refs \cup kept}]]
  BY DEF Store
<1>4. PICK at \in Nat : at = tx[s].at + 1 /\ at >= 1
  BY <1>1
<1>5. refs \cup kept \in SUBSET Record
  <2>1. match[m] \subseteq Record /\ UNION tx[s].w.match[m] \subseteq Record
    BY <1>2, Typed DEF Writes, IndInv, TypeOK
  <2>2. kept \subseteq Record
    BY <2>1
  <2> HIDE DEF kept
  <2>3. QED
    BY <1>1, <2>2
<1> DEFINE w == [tx[s].w EXCEPT !.locks = @ \cup {m},
                                !.match = [@ EXCEPT ![m] = {refs \cup kept}]]
           x == [tx[s] EXCEPT !.at = at, !.w = w]
<1>6. /\ w \in Writes /\ w.new = tx[s].w.new /\ w.coach = tx[s].w.coach
      /\ w.locks = tx[s].w.locks \cup {m}
      /\ w.match = [tx[s].w.match EXCEPT ![m] = {refs \cup kept}]
  <2>1. tx[s].w \in Writes /\ {m} \in SUBSET (Record \cup Team \cup Match)
    BY <1>2, Typed
  <2>2. [tx[s].w.match EXCEPT ![m] = {refs \cup kept}] \in [Match -> SUBSET (SUBSET Record)]
    BY <1>5, Typed DEF Writes
  <2> HIDE DEF kept
  <2>3. QED
    BY <2>1, <2>2 DEF Writes
<1>7. tx' = [tx EXCEPT ![s] = x]
  BY <1>3, <1>4, Typed DEF Tx
<1> HIDE DEF w
<1>8. /\ x \in Tx /\ x.pc = "step" /\ x.at = at /\ x.item = tx[s].item /\ x.w = w
      /\ x.base = tx[s].base /\ x.refs = refs
      /\ x.keys = tx[s].keys /\ x.dropped = tx[s].dropped
  BY <1>1, <1>6, Typed DEF Tx
<1> HIDE DEF x
<1>9. Sound(Db, w)
  <2>1. Db.match[m] = match[m] /\ Db.match[m] \subseteq Db.rows
    BY <1>2 DEF Db, IndInv, ReferencesResolve
  <2>2. kept = IF HasVenue(refs) THEN {} ELSE {r \in before : r.kind = "venue"}
    BY DEF HasVenue
  <2>3. before = IF tx[s].w.match[m] # {} THEN UNION tx[s].w.match[m] ELSE Db.match[m]
    BY <2>1
  <2>4. tx[s].w \in Writes /\ Sound(Db, tx[s].w) /\ refs \subseteq Db.rows \cup tx[s].w.new
    BY <1>1, Typed
  <2> HIDE DEF kept, before, m, refs
  <2>5. Stores(Db, tx[s].w, w, m, refs, kept, before)
    BY <1>2, <1>6, <2>1, <2>2, <2>3, <2>4 DEF Stores
  <2>6. QED
    BY <2>5, StoreSound
<1>10. Placed(s, x)
  BY <1>1, <1>4, <1>8, NextStep
<1>11. Finds(Db, x)
  BY <1>1, <1>6, <1>8 DEF Finds
<1>12. TxOk(Db, s, x)
  BY <1>6, <1>8, <1>9, <1>10, <1>11, Typed DEF TxOk, Drops
<1>13. \A u \in Syncer \ {s} : m \notin tx[u].w.locks
  BY <1>1, NoWait DEF Does
<1>14. \A u \in Syncer \ {s} : Apart(x, tx[u])
  <2> SUFFICES ASSUME NEW u \in Syncer \ {s} PROVE Apart(x, tx[u])
    OBVIOUS
  <2>1. Apart(tx[s], tx[u])
    BY DEF IndInv
  <2>2. x.w.locks \cap tx[u].w.locks = {}
    BY <1>6, <1>8, <1>13, <2>1 DEF Apart
  <2>3. x.w.coach = tx[s].w.coach /\ x.base.coach = tx[s].base.coach
    BY <1>6, <1>8
  <2>4. QED
    BY <2>1, <2>2, <2>3 DEF Apart
<1>15. QED
  BY <1>1, <1>7, <1>8, <1>12, <1>14, Local

-----------------------------------------------------------------------------
(* The commit of w: what another has written stays sound.                  *)
After(db, w) ==
    [rows |-> db.rows \cup w.new, coach |-> [t \in Team |-> Seen(db, w, t)],
     match |-> [m \in Match |-> IF w.match[m] = {} THEN db.match[m] ELSE UNION w.match[m]]]

LEMMA CommitSound ==
    ASSUME NEW db, NEW w \in Writes, NEW v \in Writes, Sound(db, w), Sound(db, v),
           v.locks \cap w.locks = {}, \A c \in w.coach, d \in v.coach : c[2] # d[2]
    PROVE  Sound(After(db, w), v)
<1> DEFINE e == After(db, w)
<1>1. /\ e.rows = db.rows \cup w.new
      /\ \A t \in Team : e.coach[t] = Seen(db, w, t)
      /\ \A m \in Match : e.match[m] = IF w.match[m] = {} THEN db.match[m]
                                       ELSE UNION w.match[m]
  BY DEF After
<1> HIDE DEF e
<1>2. \A m \in Match : v.match[m] # {} =>
         m \in v.locks /\ (HasVenue(e.match[m]) => HasVenue(UNION v.match[m]))
  <2>1. \A m \in Match : v.match[m] # {} => w.match[m] = {}
    BY DEF Sound
  <2>2. QED
    BY <1>1, <2>1 DEF Sound
<1>3. \A t, u \in Team : t # u => Seen(e, v, t) \cap Seen(e, v, u) = {}
  <2> SUFFICES ASSUME NEW t \in Team, NEW u \in Team, t # u,
                      NEW c \in Seen(e, v, t), c \in Seen(e, v, u)
               PROVE  FALSE
    OBVIOUS
  <2>1. \A x \in Team : Assigned(v, x) = {} => Seen(e, v, x) = Seen(db, w, x)
    BY <1>1 DEF Seen
  <2>2. \A x \in Team : Assigned(v, x) # {} =>
           Seen(e, v, x) = Assigned(v, x) /\ Seen(db, v, x) = Assigned(v, x)
    BY DEF Seen
  <2>3. \A x, y \in Team : Assigned(v, x) \cap Assigned(w, y) = {}
    BY DEF Assigned
  <2>4. ASSUME NEW x \in Team, NEW y \in Team, x # y,
               Assigned(v, x) # {}, Assigned(v, y) = {},
               c \in Seen(e, v, x), c \in Seen(e, v, y)
        PROVE  FALSE
    <3>1. c \in Assigned(v, x) /\ c \in Seen(db, w, y)
      BY <2>1, <2>2, <2>4
    <3>2. c \notin Assigned(w, y)
      BY <2>3, <3>1
    <3>3. c \in db.coach[y]
      BY <3>1, <3>2 DEF Seen
    <3>4. c \in Seen(db, v, x) /\ c \in Seen(db, v, y)
      BY <2>2, <2>4, <3>1, <3>3 DEF Seen
    <3>5. QED
      BY <2>4, <3>4 DEF Sound
  <2>5. CASE Assigned(v, t) # {} /\ Assigned(v, u) # {}
    BY <2>2, <2>5 DEF Sound
  <2>6. CASE Assigned(v, t) = {} /\ Assigned(v, u) = {}
    BY <2>1, <2>6 DEF Sound
  <2>7. QED
    BY <2>4, <2>5, <2>6
<1>4. \A m \in Match : \A refs \in v.match[m] : refs \subseteq e.rows \cup v.new
  BY <1>1 DEF Sound
<1>5. \A c \in v.coach : c[2] \in e.rows \cup v.new /\ Suits(c[1], c[2]) /\ c[1] \in v.locks
  BY <1>1 DEF Sound
<1>6. \A c, d \in v.coach : c[1] = d[1] => c[2] = d[2]
  BY DEF Sound
<1>7. Sound(e, v)
  BY <1>2, <1>3, <1>4, <1>5, <1>6 DEF Sound
<1>8. QED
  BY <1>7 DEF e

LEMMA CommitIs ==
    ASSUME IndInv, NEW s \in Syncer, Commit(s)
    PROVE  /\ Db' = After(Db, tx[s].w) /\ tx' = [tx EXCEPT ![s] = Idle]
           /\ rows' = rows \cup tx[s].w.new
           /\ coach' = [t \in Team |-> Seen(Db, tx[s].w, t)]
           /\ match' = [m \in Match |-> IF tx[s].w.match[m] = {} THEN match[m]
                                        ELSE UNION tx[s].w.match[m]]
<1>1. \A t \in Team : CoachSeen(s, t) = Seen(Db, tx[s].w, t)
  BY DEF CoachSeen, Seen, Db
<1>2. QED
  BY <1>1 DEF Commit, Db, After

LEMMA CommitStep == ASSUME IndInv, NEW s \in Syncer, Commit(s) PROVE IndInv'
<1> DEFINE w == tx[s].w
<1>1. /\ Db' = After(Db, w) /\ tx' = [tx EXCEPT ![s] = Idle] /\ rows' = rows \cup w.new
      /\ coach' = [t \in Team |-> Seen(Db, w, t)]
      /\ match' = [m \in Match |-> IF w.match[m] = {} THEN match[m] ELSE UNION w.match[m]]
  BY CommitIs
<1>2. w \in Writes /\ Sound(Db, w) /\ Db.rows = rows /\ Db.coach = coach
  BY Typed DEF Db
<1>3. \A t \in Team : \A c \in Seen(Db, w, t) :
         \/ c \in Assigned(w, t) /\ <<t, c>> \in w.coach
         \/ Assigned(w, t) = {} /\ c \in coach[t]
  BY <1>2 DEF Seen, Assigned
<1>4. CoachesAgree'
  <2>1. \A t \in Team : \A c \in Seen(Db, w, t) : Suits(t, c)
    <3>1. \A t \in Team : \A c \in coach[t] : Suits(t, c)
      BY DEF IndInv, CoachesAgree, Suits
    <3>2. QED
      BY <1>2, <1>3, <3>1 DEF Sound
  <2>2. \A t \in Team : \A c, d \in Seen(Db, w, t) : c = d
    <3> SUFFICES ASSUME NEW t \in Team, NEW c \in Seen(Db, w, t), NEW d \in Seen(Db, w, t)
                 PROVE  c = d
      OBVIOUS
    <3>1. CASE Assigned(w, t) = {}
      <4>1. c \in coach[t] /\ d \in coach[t]
        BY <1>3, <3>1, <1>2 DEF Seen
      <4>2. (t = t) <=> (c = d)
        BY <4>1 DEF IndInv, CoachesAgree
      <4>3. QED
        BY <4>2
    <3>2. CASE Assigned(w, t) # {}
      <4>1. <<t, c>> \in w.coach /\ <<t, d>> \in w.coach
        BY <1>3, <3>2
      <4>2. <<t, c>>[1] = <<t, d>>[1] => <<t, c>>[2] = <<t, d>>[2]
        BY <1>2, <4>1 DEF Sound
      <4>3. QED
        BY <4>2
    <3>3. QED
      BY <3>1, <3>2
  <2>3. \A t, u \in Team : t # u => Seen(Db, w, t) \cap Seen(Db, w, u) = {}
    BY <1>2 DEF Sound
  <2>4. QED
    BY <1>1, <2>1, <2>2, <2>3 DEF CoachesAgree, Suits
<1>5. ReferencesResolve'
  <2>1. \A m \in Match : match'[m] \subseteq rows'
    BY <1>1, <1>2 DEF IndInv, ReferencesResolve, Sound
  <2>2. \A t \in Team : Seen(Db, w, t) \subseteq rows'
    <3> SUFFICES ASSUME NEW t \in Team, NEW c \in Seen(Db, w, t) PROVE c \in rows'
      OBVIOUS
    <3>1. CASE c \in coach[t]
      BY <1>1, <3>1 DEF IndInv, ReferencesResolve
    <3>2. CASE <<t, c>> \in w.coach
      <4>1. <<t, c>>[2] \in Db.rows \cup w.new
        BY <1>2, <3>2 DEF Sound
      <4>2. QED
        BY <1>1, <1>2, <4>1
    <3>3. QED
      BY <1>3, <3>1, <3>2
  <2>3. QED
    BY <1>1, <2>1, <2>2 DEF ReferencesResolve
<1>6. \A t, u \in Team : t # u => Db'.coach[t] \cap Db'.coach[u] = {}
  BY <1>1, <1>2 DEF After, Sound
<1>7. Idle \in Tx /\ TxOk(Db', s, Idle)
  BY <1>6, IdleOk
<1>8. tx'[s] = Idle /\ (\A u \in Syncer \ {s} : tx'[u] = tx[u]) /\ tx' \in [Syncer -> Tx]
  BY <1>1, <1>7, Typed
<1>9. ASSUME NEW u \in Syncer \ {s} PROVE TxOk(Db', u, tx[u])
  <2> DEFINE y == tx[u]
  <2>1. /\ Placed(u, y) /\ Finds(Db, y) /\ Sound(Db, y.w) /\ Sound(Db, y.base)
        /\ y.w \in Writes /\ y.base \in Writes /\ y.base.locks \subseteq y.w.locks
        /\ Drops(y)
    BY Typed
  <2>2. Apart(tx[s], y)
    BY DEF IndInv
  <2>3. Sound(Db', y.w) /\ Sound(Db', y.base)
    BY <1>1, <1>2, <2>1, <2>2, CommitSound DEF Apart
  <2>4. Db.rows \subseteq Db'.rows
    BY <1>1 DEF After
  <2>5. Finds(Db', y)
    BY <2>1, <2>4 DEF Finds, Found
  <2>6. QED
    BY <2>1, <2>3, <2>5 DEF TxOk
<1>10. \A u \in Syncer : TxOk(Db, u, tx[u])'
  BY <1>7, <1>8, <1>9
<1>11. \A u, v \in Syncer : u # v => Apart(tx[u], tx[v])'
  <2>1. Idle.w.coach = {} /\ Idle.base.coach = {} /\ Idle.w.locks = {}
    BY DEF Idle, NoWrites
  <2>2. QED
    BY <1>8, <2>1 DEF IndInv, Apart
<1>12. TypeOK'
  <2>1. rows' \in SUBSET Record
    BY <1>1, Typed DEF Writes
  <2>2. coach' \in [Team -> SUBSET Record]
    BY <1>1, <1>2 DEF Seen, Assigned, IndInv, TypeOK
  <2>3. match' \in [Match -> SUBSET Record]
    BY <1>1, <1>2 DEF Writes, IndInv, TypeOK
  <2>4. QED
    BY <1>8, <2>1, <2>2, <2>3 DEF TypeOK, Tx
<1>13. QED
  BY <1>4, <1>5, <1>10, <1>11, <1>12 DEF IndInv

LEMMA NextInv == IndInv /\ [Next]_vars => IndInv'
<1> SUFFICES ASSUME IndInv, [Next]_vars PROVE IndInv'
  OBVIOUS
<1>1. CASE UNCHANGED vars
  <2>1. UNCHANGED <<rows, coach, match, tx>>
    BY <1>1 DEF vars
  <2>2. Db' = Db
    BY <2>1 DEF Db
  <2>3. TypeOK' /\ ReferencesResolve' /\ CoachesAgree'
    BY <2>1 DEF IndInv, TypeOK, ReferencesResolve, CoachesAgree
  <2>4. \A s \in Syncer : TxOk(Db, s, tx[s])'
    BY <2>1, <2>2 DEF IndInv
  <2>5. \A s, u \in Syncer : s # u => Apart(tx[s], tx[u])'
    BY <2>1 DEF IndInv
  <2>6. QED
    BY <2>3, <2>4, <2>5 DEF IndInv
<1>2. ASSUME NEW s \in Syncer, Works(s) PROVE IndInv'
  BY <1>2, ReadTeamStep, MissingStep, UnresolvedStep, FindStep, InsertStep,
     InsertConflictsStep, AgainStep, UpdateStep, AssignStep, StoreStep, ContextStep,
     ReleaseStep, FailStep, CommitStep, TakeStep DEF Works
<1>3. QED
  BY <1>1, <1>2, TakeStep, AbortStep DEF Next

LEMMA IndInvHolds == Spec => []IndInv
<1>1. Init => IndInv
  BY InitInv
<1>2. IndInv /\ [Next]_vars => IndInv'
  BY NextInv
<1>3. QED
  BY <1>1, <1>2, PTL DEF Spec

(* Type correctness of the master rows and of the transactions that find   *)
(* and create them (the repositories and models of master data).           *)
THEOREM TypeCorrect == Spec => []TypeOK
<1>1. IndInv => TypeOK
  BY DEF IndInv
<1>2. QED
  BY <1>1, IndInvHolds, PTL

(* A team that an earlier fixture of the transaction gave a coach is not   *)
(* forgotten in the cache because a later one fails, for any number of     *)
(* fixtures (_queue_team_cache_invalidation and the two session hooks).    *)
THEOREM ChangesDroppedHolds == Spec => []ChangesDropped
<1>1. IndInv => ChangesDropped
  BY DEF IndInv, TxOk, Drops, ChangesDropped
<1>2. QED
  BY <1>1, IndInvHolds, PTL

(* The coach of a team is one the provider gave for it, and no coach has   *)
(* two teams, for any number of syncs that assign in any order             *)
(* (sync_team_coach, update_current_coach, uq_teams_coach_id).             *)
THEOREM CoachesAgreeHolds == Spec => []CoachesAgree
<1>1. IndInv => CoachesAgree
  BY DEF IndInv
<1>2. QED
  BY <1>1, IndInvHolds, PTL

(* A sync that lost the race for a referee's or venue's key finds the row  *)
(* that was in its way (sync_fixture_referee, sync_fixture_payload).       *)
THEOREM LosersFindHolds == Spec => []LosersFind
<1>1. IndInv => LosersFind
  BY Typed DEF LosersFind, Finds
<1>2. QED
  BY <1>1, IndInvHolds, PTL

(* A match that has a venue never loses it for none, for any number of     *)
(* syncs of it (the upsert of _process_sync_with_candidates).              *)
THEOREM VenueKeptHolds == Spec => VenueKept
<1> DEFINE Kept == \A m \in Match : (\E r \in match[m] : r.kind = "venue")
                                        => \E r \in match'[m] : r.kind = "venue"
<1>1. IndInv /\ [Next]_vars => [Kept]_vars
  <2> SUFFICES ASSUME IndInv, Next PROVE Kept
    OBVIOUS
  <2>1. CASE UNCHANGED match
    BY <2>1
  <2>2. ASSUME NEW s \in Syncer, Commit(s) PROVE Kept
    <3>1. match' = [m \in Match |-> IF tx[s].w.match[m] = {} THEN match[m]
                                    ELSE UNION tx[s].w.match[m]]
      BY <2>2, CommitIs
    <3>2. Sound(Db, tx[s].w) /\ Db.match = match
      BY Typed DEF Db
    <3>3. QED
      BY <3>1, <3>2 DEF Sound, HasVenue
  <2>3. UNCHANGED match \/ \E s \in Syncer : Commit(s)
    <3>1. ASSUME NEW s \in Syncer, Works(s) PROVE Keep \/ Commit(s)
      BY <3>1 DEF Works, Take, ReadTeam, Missing, Unresolved, Find, Insert,
                  InsertConflicts, Again, Update, Assign, Store, Context, Release,
                  Fail
    <3>2. ASSUME NEW s \in Syncer, Take(s) \/ Abort(s) PROVE Keep
      BY <3>2 DEF Take, Abort
    <3>3. QED
      BY <3>1, <3>2 DEF Next, Keep
  <2>4. QED
    BY <2>1, <2>2, <2>3
<1>2. QED
  BY <1>1, IndInvHolds, PTL DEF Spec, VenueKept
=============================================================================
