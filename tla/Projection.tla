------------------------------- MODULE Projection -------------------------------
(***************************************************************************)
(* The analytics facts of one match or pair of teams beside the source     *)
(* row, or rows, they are projected from (analytics_projection_service.py  *)
(* and the sync services that call it): statistics, lineup, odds and       *)
(* head-to-head.  A sync stores the source, projects it and lets its       *)
(* caller commit both or roll both back.  Standings, where callers share   *)
(* a transaction, have a module of their own.                              *)
(*                                                                         *)
(* The lock of the match or pair is a ResourceMutex; a caller whose sync   *)
(* failed may give it back before it rolls back.  kind says which of the   *)
(* four a behaviour is about.                                              *)
(***************************************************************************)
EXTENDS OddsLines

CONSTANTS Syncer,    \* jobs and routes that refresh the match or pair
          Entry,     \* what an answer lists: teams, players or past fixtures
          Board,     \* the boards of odds a bookmaker may offer
          MaxAnswer  \* bound: changes of the answer at the provider

ASSUME ProjectionAssumption == MaxAnswer \in Nat /\ \A board \in Board : Parsed(board)

VARIABLES
    kind,     \* never changes
    known,    \* the teams and players that have a master row
    answer,   \* what the provider answers
    source,   \* the committed source: the entries or records of one answer
    facts,    \* the committed facts, and the answer they are from
    guard,    \* guard[s]: the lock as far as it excludes others
    pc,
    got,      \* got[s]: what s is to store of the answer it fetched
    new,      \* new[s]: the facts s has written, uncommitted
    writes    \* writes[s]: s has written the source, uncommitted

vars == <<kind, known, answer, source, facts, guard, pc, got, new, writes>>
syncVars == <<guard, pc, got, new, writes>>

Mutex == INSTANCE ResourceMutex
            WITH Session <- Syncer, Resource <- {"match"}, inside <- guard

Kind == {"statistics", "lineup", "odds", "h2h"}
Resolved == {"statistics", "lineup"}     \* every entry needs a master row

\* What makes an answer unfit: an entry listed twice, a value or an id left
\* out; or nothing listed for the teams it names, which is fit and has no facts.
Flaw == {"none", "twice", "invalid", "bare"}

Nothing == [ver |-> 0, rows |-> {}]
NoSource == [ver |-> 0, rows |-> {}, flaw |-> "none"]

\* An answer has data, or is an error or an empty list.  Odds listed twice never
\* reach the projection: the upsert cannot change a row twice, and Fails.
Answers(ver) ==
    IF kind = "odds" THEN {[ver |-> ver, rows |-> board, flaw |-> "none"] : board \in Board}
    ELSE [ver: {ver}, rows: SUBSET Entry,
          flaw: IF kind = "h2h" THEN Flaw \ {"bare"} ELSE Flaw]

Init ==
    /\ kind \in Kind
    /\ known = {}
    /\ answer \in Answers(1)
    /\ source = NoSource
    /\ facts = Nothing
    /\ guard = [s \in Syncer |-> {}]
    /\ pc = [s \in Syncer |-> "idle"]
    /\ got = [s \in Syncer |-> NoSource]
    /\ new = [s \in Syncer |-> Nothing]
    /\ writes = [s \in Syncer |-> FALSE]

Goto(s, label) == pc' = [pc EXCEPT ![s] = label]
Unguard(s) == guard' = [guard EXCEPT ![s] = {}]

ProviderChanges ==
    /\ answer.ver <= MaxAnswer
    /\ answer' \in Answers(answer.ver + 1)
    /\ UNCHANGED <<kind, known, source, facts, syncVars>>

\* A sync commits the master row of a team, or of a player named in an event:
\* no other caller of the app adds players.
Learn ==
    /\ kind \in Resolved
    /\ \E entry \in Entry \ known : known' = known \cup {entry}
    /\ UNCHANGED <<kind, answer, source, facts, syncVars>>

-----------------------------------------------------------------------------
\* run_with_resource_lock(<kind>, match or pair): on conflict it is skipped.
Begin(s) ==
    /\ pc[s] = "idle"
    /\ Mutex!Enter(s, "match")
    /\ Goto(s, "locked")
    /\ UNCHANGED <<kind, known, answer, source, facts, got, new, writes>>

\* Odds refreshed less than their maximal age ago; a lineup whose match ended.
Skip(s) ==
    /\ pc[s] = "locked" /\ kind \in {"odds", "lineup"}
    /\ Unguard(s) /\ Goto(s, "idle")
    /\ UNCHANGED <<kind, known, answer, source, facts, got, new, writes>>

\* The records of a board; a line no label can be found for raises.
FetchOdds(s) ==
    \E main \in Mains(answer.rows) :
       /\ got' = [got EXCEPT ![s] = [answer EXCEPT !.rows = Kept(@, main)]]
       /\ Goto(s, IF Raises(main) THEN "undo"
                  ELSE IF Kept(answer.rows, main) = {} THEN "written" ELSE "fetched")

\* Odds of which nothing is kept leave everything as it is and are committed;
\* an answer that lists nothing is stored for a pair, and fails for a match.
Fetch(s) ==
    /\ pc[s] = "locked"
    /\ IF kind = "odds" THEN FetchOdds(s)
       ELSE /\ got' = [got EXCEPT ![s] = answer]
            /\ Goto(s, IF answer.rows = {} /\ kind # "h2h" THEN "undo" ELSE "fetched")
    /\ UNCHANGED <<kind, known, answer, source, facts, guard, new, writes>>

\* replace_fixture_odds, replace_match_statistics, update_one or create_one,
\* upsert_one, and the flush: waits for the row another one has written.
Store(s) ==
    /\ pc[s] = "fetched"
    /\ \A t \in Syncer \ {s} : ~writes[t]
    /\ writes' = [writes EXCEPT ![s] = TRUE]
    /\ Goto(s, "stored")
    /\ UNCHANGED <<kind, known, answer, source, facts, guard, got, new>>

\* Corners have no facts; other records, and entries, have one each.
FactsIn(content) ==
    IF kind = "odds" THEN {row \in content.rows : row.market # Corners}
    ELSE IF content.flaw = "bare" THEN {} ELSE content.rows

\* (Variant: entries without a master row are left out, not rejected.)
RejectedLenient(content) == content.flaw \in {"twice", "invalid"}

\* The projection raises, or answers that it has not succeeded, and the sync
\* raises: an entry twice, a value left out, odds of zero, no master row.
Rejected(content) ==
    \/ content.flaw \in {"twice", "invalid"}
    \/ kind \in Resolved /\ ~(content.rows \subseteq known)
    \/ kind = "odds" /\ \E row \in FactsIn(content) : row.odd = 0

\* Facts are preserved when there are none to put in their place, but for a
\* pair of teams that has never met.
Preserved(content) == FactsIn(content) = {} /\ kind # "h2h"

\* (Variant: a pair keeps its facts as a match does.)
PutBefore(content) ==
    IF FactsIn(content) = {} THEN facts ELSE [ver |-> content.ver, rows |-> FactsIn(content)]

Put(content) ==
    IF Preserved(content) THEN facts ELSE [ver |-> content.ver, rows |-> FactsIn(content)]

\* The sync of a lineup swallows its exceptions and says it has failed; the
\* others raise: the caller rolls back either way.
Project(s) ==
    /\ pc[s] = "stored"
    /\ IF Rejected(got[s]) THEN Goto(s, "undo") /\ UNCHANGED new
       ELSE /\ new' = [new EXCEPT ![s] = Put(got[s])]
            /\ Goto(s, "written")
    /\ UNCHANGED <<kind, known, answer, source, facts, guard, got, writes>>

\* An error of the provider, an exception in the sync or of the database, as that
\* of an upsert of odds that lists a row twice.
Fails(s) ==
    /\ pc[s] \in {"locked", "fetched", "stored", "written"}
    /\ Goto(s, "undo")
    /\ UNCHANGED <<kind, known, answer, source, facts, guard, got, new, writes>>

\* A job or route that raises, or is told of a failure, leaves the lock first.
Unlock(s) ==
    /\ pc[s] = "undo" /\ guard[s] # {}
    /\ Unguard(s)
    /\ UNCHANGED <<kind, known, answer, source, facts, pc, got, new, writes>>

Ends(s) ==
    /\ Unguard(s) /\ Goto(s, "idle")
    /\ got' = [got EXCEPT ![s] = NoSource]
    /\ new' = [new EXCEPT ![s] = Nothing]
    /\ writes' = [writes EXCEPT ![s] = FALSE]
    /\ UNCHANGED <<kind, known, answer>>

Rollback(s) ==
    /\ pc[s] = "undo"
    /\ Ends(s)
    /\ UNCHANGED <<source, facts>>

\* Without a write of its own a sync commits nothing: odds that kept no line.
WriteBoth(s) ==
    IF writes[s] THEN source' = got[s] /\ facts' = new[s]
    ELSE UNCHANGED <<source, facts>>

Commit(s) ==
    /\ pc[s] = "written"
    /\ Ends(s)
    /\ WriteBoth(s)

\* The replica or its connection is lost; a commit under way may count.
Crash(s) ==
    /\ pc[s] # "idle"
    /\ Ends(s)
    /\ \/ UNCHANGED <<source, facts>>
       \/ pc[s] = "written" /\ WriteBoth(s)

Sync(s) ==
    \/ Begin(s) \/ Skip(s) \/ Fetch(s) \/ Store(s) \/ Project(s)
    \/ Fails(s) \/ Unlock(s) \/ Rollback(s) \/ Commit(s) \/ Crash(s)

Next == ProviderChanges \/ Learn \/ \E s \in Syncer : Sync(s)

Spec == Init /\ [][Next]_vars

-----------------------------------------------------------------------------
\* The types; versions never overtake the ones they are copied from
\* (models/analytics.py, models/odds.py, models/match_*.py).
TypeOK ==
    /\ kind \in Kind
    /\ known \subseteq Entry
    /\ answer.ver \in 1..(MaxAnswer + 1) /\ answer \in Answers(answer.ver)
    /\ source.ver \in 0..answer.ver
    /\ facts.ver \in 0..source.ver
    /\ guard \in [Syncer -> SUBSET {"match"}]
    /\ pc \in [Syncer -> {"idle", "locked", "fetched", "stored", "written", "undo"}]
    /\ writes \in [Syncer -> BOOLEAN]

\* Committed facts are those of the committed source, whoever stored, failed,
\* unlocked early or died on the way; only where the source has none of its own
\* (odds of corners only, lists left empty) are the facts of an older answer
\* preserved, and a pair of teams loses even those (project_*, replace_by_*).
FactsFollowSource ==
    ~Preserved(source) => facts = [ver |-> source.ver, rows |-> FactsIn(source)]

\* What is committed has been accepted as a whole: every team and player it
\* names has a master row, nothing in it is listed twice or lacks its value
\* (project_statistics, project_lineup), although the source is written before
\* the projection rejects it, and the sync of a lineup swallows that.
SourceIsAccepted ==
    /\ source.flaw \notin {"twice", "invalid"}
    /\ kind \in Resolved => source.rows \subseteq known

\* A label is read as the place on the ladder it stands for, to half a rung.
Reads(label, index) ==
    IF index < MinIndex \/ index > MaxIndex THEN label = OutOfRange
    ELSE /\ label.sign # "out" /\ label.offset <= 100
         /\ Gap(200 * label.goal
                  + (IF label.sign = "-" THEN label.offset ELSE -label.offset), index) <= 5

Opposite(a, b) == a = b \/ (a.goal = b.goal /\ a.offset = b.offset /\ a.sign # b.sign)

\* Rows as they are kept are whole lines, and a labelled line reads.
LinesRead(kept) ==
    \A market \in {row.market : row \in kept} :
       LET rows == {row \in kept : row.market = market}
           At(side) == CHOOSE row \in rows : row.side = side
           one == At(FirstSide(market))
           two == At(SecondSide(market))
           winner == {row \in kept : row.market = Winner}
           away == \E h, a \in winner : h.side = "home" /\ a.side = "away" /\ h.odd >= a.odd
           base == 2 * Size(one.line)
       IN  /\ {row.side : row \in rows} = Side[market]
           /\ \A a, b \in rows : a.line = b.line
           /\ market \in Labelled =>
                /\ Opposite(one.label, two.label)
                /\ IF one.line = 0
                   THEN one.odd # two.odd => one.label.offset = Gap(one.odd, two.odd)
                   ELSE IF market = Goals
                   THEN Reads(one.label, base + Gap(one.odd, two.odd))
                   ELSE winner # {} =>
                          IF away THEN Reads(two.label, base + one.odd - two.odd)
                                  ELSE Reads(one.label, base + two.odd - one.odd)

\* The odds kept of a match are whole lines, and a labelled line reads: the
\* favourite gives what the line says, and more the shorter its odds are; the
\* other side has the opposite label (_select_main_line_by_id,
\* convert_to_myanmar_odds).
KeptLinesRead == kind = "odds" => LinesRead(source.rows)
=============================================================================
