------------------------------- MODULE MasterData -------------------------------
(***************************************************************************)
(* The master rows a sync finds or creates on its way: the referee, venue  *)
(* and coaches of a fixture (the *_sync_service.py and *_repository.py of  *)
(* each, team_sync_service.py, _process_sync_with_candidates) and the      *)
(* players of its events (event_sync_service.py, player_repository.py).    *)
(*                                                                         *)
(* A transaction works through items, each in a savepoint of its own: a    *)
(* fixture, or a match whose events are refreshed (its only item).  Fixture*)
(* syncs exclude each other only up to the first commit (ResourceLock),    *)
(* event refreshes only per match, so all of them may meet at a row.       *)
(* PostgreSQL decides: unique keys, row locks, and a victim per deadlock.  *)
(* A team is cached by api/teams.py: when its coach changes its key is     *)
(* queued in the session, for a hook of SQLAlchemy's to delete.            *)
(***************************************************************************)
EXTENDS Naturals, Sequences

CONSTANTS Syncer, Team, Match,
          Record,      \* master rows the provider knows: [kind, key, name]
          Response,    \* Response[s]: items of the response s works through,
                       \* each the steps its payload takes, in order
          Gives,       \* Gives[t]: coaches the provider may give for a team
          NoRow

Kind == {"referee", "venue", "coach", "player"}
Key == UNION {{r.key, r.name} : r \in Record}
Step == {x \in [do: {"referee", "venue", "player"}, of: Record] : x.of.kind = x.do}
            \cup [do: {"coach", "context"}, of: Team]
            \cup [do: {"match"}, of: Match]

ASSUME MasterDataAssumption ==
    /\ Record \subseteq [kind: Kind, key: Key, name: Key]
    /\ Response \in [Syncer -> Seq(Seq(Step))]
    /\ Gives \in [Team -> SUBSET {r \in Record : r.kind = "coach"}]
    /\ NoRow \notin Record
    /\ \A s \in Syncer : \A i \in DOMAIN Response[s] :
          \A j, k \in DOMAIN Response[s][i] :  \* a fixture's coaches come last
             Response[s][i][j].do = "coach" /\ j < k =>
                Response[s][i][k].do \notin {"referee", "venue"}

VARIABLES
    rows,      \* committed master rows
    coach,     \* coach[t]: committed coach of the team: none or one row
    match,     \* match[m]: referee and venue rows the committed match refers to
    tx         \* tx[s]: the transaction of s

vars == <<rows, coach, match, tx>>

\* What a transaction has written: rows, teams' coaches, matches with their
\* references, and the row locks it holds besides.
Writes == [new: SUBSET Record, coach: SUBSET (Team \X Record),
           match: [Match -> SUBSET (SUBSET Record)],
           locks: SUBSET (Record \cup Team \cup Match)]
NoWrites == [new |-> {}, coach |-> {}, match |-> [m \in Match |-> {}], locks |-> {}]

\* had: the team's coach as it was read before the provider was asked; w: written
\* so far; base: written when the item's savepoint began; keys: teams whose cache
\* keys are queued in session.info; dropped: those whose keys have been deleted.
Idle == [pc |-> "idle", item |-> 0, at |-> 0, row |-> NoRow, refs |-> {},
         had |-> {}, w |-> NoWrites, base |-> NoWrites, keys |-> {}, dropped |-> {}]

Init ==
    /\ rows = {}
    /\ coach = [t \in Team |-> {}]
    /\ match = [m \in Match |-> {}]
    /\ tx = [s \in Syncer |-> Idle]

Steps(s) == Response[s][tx[s].item]
At(s) == Steps(s)[tx[s].at]
Does(s, what) == tx[s].pc = "step" /\ tx[s].at <= Len(Steps(s)) /\ At(s).do = what

Visible(s) == rows \cup tx[s].w.new
Assigned(w, t) == {r \in Record : <<t, r>> \in w.coach}
CoachSeen(s, t) ==
    IF Assigned(tx[s].w, t) # {} THEN Assigned(tx[s].w, t) ELSE coach[t]

\* uq_*_provider_provider_id (a fixture names its referee without an id) and
\* uq_*_provider_normalized_name.
SameKey(a, b) == a.kind = b.kind /\ a.kind # "referee" /\ a.key = b.key
SameName(a, b) == a.kind = b.kind /\ a.kind \in {"referee", "coach"} /\ a.name = b.name
Clash(a, b) == SameKey(a, b) \/ SameName(a, b)

\* (Variant: by the provider's id only.)
FoundByKey(seen, r) == {x \in seen : SameKey(x, r)}

\* get_by_provider_id, else get_by_normalized_name.
Found(seen, r) ==
    LET byKey == {x \in seen : SameKey(x, r)} IN
    IF byKey # {} THEN byKey ELSE {x \in seen : SameName(x, r)}

-----------------------------------------------------------------------------
(* Waiting.                                                                *)

\* A unique index makes an insert wait for another of the same key, and an
\* UPDATE of teams.coach_id for a transaction that gives the coach to a team
\* or takes it from one.
InsertWaits(s, x) == \E r \in tx[x].w.new : Clash(r, tx[s].row)
AssignWaits(s, x) ==
    \/ At(s).of \in tx[x].w.locks
    \/ \E t \in Team : \/ <<t, tx[s].row>> \in tx[x].w.coach \cup tx[x].base.coach
                       \/ tx[s].row \in coach[t] /\ Assigned(tx[x].w, t) # {}

Waits(s) ==
    {x \in Syncer \ {s} :
        \/ tx[s].pc = "insert" /\ InsertWaits(s, x)
        \/ tx[s].pc = "update" /\ tx[s].row \in tx[x].w.locks
        \/ tx[s].pc = "assign" /\ tx[s].had # {tx[s].row}
                               /\ AssignWaits(s, x)
        \/ (Does(s, "match") \/ Does(s, "context")) /\ At(s).of \in tx[x].w.locks}

-----------------------------------------------------------------------------
(* Steps of an item.                                                       *)

Goto(s, label) == tx' = [tx EXCEPT ![s].pc = label]
Keep == UNCHANGED <<rows, coach, match>>

\* The step is done; the match will refer to its referee and venue.
RefsWith(s, r) ==
    IF r.kind \in {"referee", "venue"} THEN tx[s].refs \cup {r} ELSE tx[s].refs

\* The savepoint of the next item begins.
Take(s) ==
    /\ tx[s].pc \in {"idle", "between"} /\ tx[s].item < Len(Response[s])
    /\ tx' = [tx EXCEPT ![s] = [Idle EXCEPT !.pc = "step", !.item = tx[s].item + 1,
                                            !.at = 1, !.w = tx[s].w, !.base = tx[s].w,
                                            !.keys = tx[s].keys,
                                            !.dropped = tx[s].dropped]]
    /\ Keep

\* sync_team_coach reads the team, with its coach, then asks the provider.
ReadTeam(s) ==
    /\ Does(s, "coach")
    /\ tx' = [tx EXCEPT ![s].pc = "ask", ![s].had = CoachSeen(s, At(s).of)]
    /\ Keep

\* The provider has no coach for the team; the team's context is as it was.
Missing(s) ==
    /\ tx[s].pc = "ask" \/ Does(s, "context")
    /\ tx' = [tx EXCEPT ![s].pc = "step", ![s].at = @ + 1]
    /\ Keep

\* A team the provider names is no master: the fixture ends without coaches and
\* without a match, what it has written so far stays.
Unresolved(s) ==
    /\ Does(s, "coach") /\ \A i \in 1..(tx[s].at - 1) : Steps(s)[i].do # "coach"
    /\ tx' = [tx EXCEPT ![s].at = Len(Steps(s)) + 1]
    /\ Keep

\* The lookup: a player that is found is only read, others are updated.
Find(s) ==
    /\ \/ Does(s, "referee") \/ Does(s, "venue") \/ Does(s, "player")
       \/ tx[s].pc = "ask"
    /\ \E r \in IF tx[s].pc = "ask" THEN Gives[At(s).of] ELSE {At(s).of} :
          IF Found(Visible(s), r) = {}
          THEN tx' = [tx EXCEPT ![s].pc = "insert", ![s].row = r]
          ELSE \E x \in Found(Visible(s), r) :
                  tx' = IF r.kind = "player" THEN [tx EXCEPT ![s].at = @ + 1]
                        ELSE [tx EXCEPT ![s].pc = "update", ![s].row = x]
    /\ Keep

Conflict(s) == \E r \in Visible(s) : Clash(r, tx[s].row)

\* The savepoint of a referee or a venue is released at once; no key is queued yet.
Insert(s) ==
    /\ tx[s].pc = "insert" /\ Waits(s) = {} /\ ~Conflict(s)
    /\ tx' = [tx EXCEPT ![s].w.new = @ \cup {tx[s].row},
                        ![s].pc = IF tx[s].row.kind = "coach" THEN "assign" ELSE "step",
                        ![s].at = IF tx[s].row.kind = "coach" THEN @ ELSE @ + 1,
                        ![s].refs = RefsWith(s, tx[s].row)]
    /\ Keep

\* Somebody has committed the row since the lookup.  A player's ON CONFLICT
\* updates it; referees and venues, inserted in a savepoint of their own, are
\* looked up again; a coach has none, and the fixture is lost (Fail).
InsertConflicts(s) ==
    /\ tx[s].pc = "insert" /\ Waits(s) = {} /\ Conflict(s)
    /\ tx[s].row.kind # "coach"
    /\ IF tx[s].row.kind = "player"
       THEN \E r \in Visible(s) :
               /\ Clash(r, tx[s].row)
               /\ tx' = [tx EXCEPT ![s].pc = "update", ![s].row = r]
       ELSE Goto(s, "again")
    /\ Keep

\* A referee is taken as it is, a venue is updated.
Again(s) ==
    /\ tx[s].pc = "again"
    /\ \E r \in Found(Visible(s), tx[s].row) :
          tx' = IF r.kind = "venue" THEN [tx EXCEPT ![s].pc = "update", ![s].row = r]
                ELSE [tx EXCEPT ![s].pc = "step", ![s].at = @ + 1,
                                ![s].refs = RefsWith(s, r)]
    /\ Keep

\* UPDATE by the fields that are known; that of a venue may find no change.
Update(s) ==
    LET r == tx[s].row IN
    /\ tx[s].pc = "update" /\ Waits(s) = {}
    /\ \E locked \in {{}, {r}} :
          /\ locked = {} => r.kind = "venue"
          /\ tx' = [tx EXCEPT ![s].w.locks = @ \cup locked,
                              ![s].pc = IF r.kind = "coach" THEN "assign" ELSE "step",
                              ![s].at = IF r.kind = "coach" THEN @ ELSE @ + 1,
                              ![s].refs = RefsWith(s, r)]
    /\ Keep

\* The coach has another team, as far as s can see: uq_teams_coach_id, Fail.
Taken(s) == \E t \in Team \ {At(s).of} : tx[s].row \in CoachSeen(s, t)

\* (Variant: the UPDATE of teams has no WHERE.)
AssignEverywhere(s) ==
    LET t == At(s).of IN
    /\ tx[s].pc = "assign" /\ Waits(s) = {}
    /\ tx[s].had = {tx[s].row} \/ ~Taken(s)
    /\ tx' = [tx EXCEPT ![s].pc = "step", ![s].at = @ + 1,
                        ![s].w.locks = @ \cup {t},
                        ![s].w.coach = @ \cup {<<u, tx[s].row>> : u \in Team},
                        ![s].keys = @ \cup {t}]
    /\ Keep

\* sync_team_coach of the team: nothing to do, or update_current_coach and the
\* team's cache key queued.
Assign(s) ==
    LET t == At(s).of
        others == {c \in tx[s].w.coach : c[1] # t}
        same == tx[s].had = {tx[s].row}
    IN
    /\ tx[s].pc = "assign" /\ Waits(s) = {}
    /\ same \/ ~Taken(s)
    /\ tx' = [tx EXCEPT ![s].pc = "step", ![s].at = @ + 1,
                        ![s].w.locks = IF same THEN @ ELSE @ \cup {t},
                        ![s].w.coach =
                            IF same THEN @ ELSE others \cup {<<t, tx[s].row>>},
                        ![s].keys = IF same THEN @ ELSE @ \cup {t}]
    /\ Keep

\* (Variant: what is kept is read before the row is locked.)
StoreUnlocked(s) ==
    LET m == At(s).of
        venue == {r \in tx[s].refs : r.kind = "venue"}
        kept == IF venue # {} THEN {} ELSE {r \in match[m] : r.kind = "venue"}
    IN
    /\ Does(s, "match")
    /\ tx' = [tx EXCEPT ![s].at = @ + 1,
                        ![s].w.match = [@ EXCEPT ![m] = {tx[s].refs \cup kept}]]
    /\ Keep

\* The upsert of the match: its referee is overwritten even by none, its venue
\* only by another.  Its foreign keys also lock the rows it names for share; that
\* wait is left out, as it only takes interleavings away (its deadlocks: Fail).
Store(s) ==
    LET m == At(s).of
        venue == {r \in tx[s].refs : r.kind = "venue"}
        before == IF tx[s].w.match[m] # {} THEN UNION tx[s].w.match[m] ELSE match[m]
        kept == IF venue # {} THEN {} ELSE {r \in before : r.kind = "venue"}
    IN
    /\ Does(s, "match") /\ Waits(s) = {}
    /\ tx' = [tx EXCEPT ![s].at = @ + 1,
                        ![s].w.locks = @ \cup {m},
                        ![s].w.match = [@ EXCEPT ![m] = {tx[s].refs \cup kept}]]
    /\ Keep

\* update_team_context.
Context(s) ==
    /\ Does(s, "context") /\ Waits(s) = {}
    /\ tx' = [tx EXCEPT ![s].at = @ + 1, ![s].w.locks = @ \cup {At(s).of}]
    /\ Keep

\* (Variant: the hook runs at the transaction's commit only.)
ReleaseQuietly(s) ==
    /\ tx[s].pc = "step" /\ tx[s].at > Len(Steps(s))
    /\ tx' = [tx EXCEPT ![s] = [Idle EXCEPT !.pc = "between", !.w = tx[s].w,
                                            !.item = tx[s].item, !.keys = tx[s].keys,
                                            !.dropped = tx[s].dropped]]
    /\ Keep

\* The savepoint is released.  SQLAlchemy runs after_commit for it, as it does for
\* a transaction: the queued keys are deleted now.
Release(s) ==
    /\ tx[s].pc = "step" /\ tx[s].at > Len(Steps(s))
    /\ tx' = [tx EXCEPT ![s] = [Idle EXCEPT !.pc = "between", !.w = tx[s].w,
                                            !.item = tx[s].item,
                                            !.dropped = tx[s].dropped \cup tx[s].keys]]
    /\ Keep

\* Whatever is raised in a fixture rolls its savepoint back, after_rollback clears
\* the queue, and the next fixture is taken: a provider that answers an error, a
\* coach without a name, a statement that fails, as that of PostgreSQL's victim in
\* a circle of waits, and the unique key of a coach (Conflict, Taken).
Fail(s) ==
    /\ tx[s].pc \notin {"idle", "between"}
    /\ tx' = [tx EXCEPT ![s] = [Idle EXCEPT !.pc = "between", !.w = tx[s].base,
                                            !.item = tx[s].item,
                                            !.dropped = tx[s].dropped]]
    /\ Keep

-----------------------------------------------------------------------------
(* The end of the transaction.                                             *)

Commit(s) ==
    /\ tx[s].pc = "between" /\ tx[s].item = Len(Response[s])
    /\ rows' = rows \cup tx[s].w.new
    /\ coach' = [t \in Team |-> CoachSeen(s, t)]
    /\ match' = [m \in Match |-> IF tx[s].w.match[m] = {} THEN match[m]
                                 ELSE UNION tx[s].w.match[m]]
    /\ tx' = [tx EXCEPT ![s] = Idle]

\* An error outside the items, a lost connection, the death of the replica.
Abort(s) ==
    /\ tx[s].pc # "idle"
    /\ tx' = [tx EXCEPT ![s] = Idle]
    /\ Keep

Works(s) ==
    \/ ReadTeam(s) \/ Missing(s) \/ Unresolved(s) \/ Find(s) \/ Insert(s) \/ InsertConflicts(s)
    \/ Again(s) \/ Update(s) \/ Assign(s) \/ Store(s) \/ Context(s) \/ Release(s)
    \/ Fail(s) \/ Commit(s)
    \/ (tx[s].pc = "between" /\ Take(s))

Next ==
    \E s \in Syncer : Take(s) \/ Works(s) \/ Abort(s)

Spec == Init /\ [][Next]_vars

-----------------------------------------------------------------------------
\* The types: writes in their tables, references to referees and venues.
TypeOK ==
    /\ rows \in SUBSET Record
    /\ coach \in [Team -> SUBSET Record]
    /\ match \in [Match -> SUBSET Record]
    /\ tx \in [Syncer -> [pc: {"idle", "between", "step", "insert", "update",
                               "again", "ask", "assign"},
                          item: Nat, at: Nat,
                          row: Record \cup {NoRow}, refs: SUBSET Record,
                          had: SUBSET Record,
                          w: Writes, base: Writes,
                          keys: SUBSET Team, dropped: SUBSET Team]]

\* A fixture that fails, in a session whose queue its rollback clears, does not
\* cost a team that an earlier fixture gave a coach its place in the queue: what
\* the transaction may commit has its cache key deleted or queued
\* (_queue_team_cache_invalidation, _clear_team_post_commit_cache_invalidation).
ChangesDropped ==
    \A s \in Syncer : \A c \in tx[s].w.coach : c[1] \in tx[s].keys \cup tx[s].dropped

\* "test_team_cache_invalidation_runs_only_after_commit": the key of a team is not
\* deleted while its new coach is uncommitted, when a reader would put the old one
\* back into the cache (_run_team_post_commit_cache_invalidation).
DroppedAfterCommit ==
    \A s \in Syncer : \A c \in tx[s].w.coach : c[1] \notin tx[s].dropped

\* Rows are found, created and passed on by many syncs: a team's coach is one
\* the provider gave for it, by id or by name, and in what is committed no coach
\* has two teams and no team two coaches (sync_team_coach).
CoachesAgree ==
    \A t, u \in Team : \A c \in coach[t], d \in coach[u] :
        /\ \E g \in Gives[t] : SameKey(g, c) \/ SameName(g, c)
        /\ t = u <=> c = d

\* A lost race for a referee or a venue never costs the fixture: the row that
\* was in the way is there to be found (VENUE_UNIQUE_CONFLICT_RETRY,
\* REFEREE_UNIQUE_CONFLICT_RETRY).
LosersFind ==
    \A s \in Syncer : tx[s].pc = "again" => Found(Visible(s), tx[s].row) # {}

\* A match that has a venue never loses it for none: of two syncs of a match,
\* one with a venue in its payload and one without, whichever is first
\* (venue_id only if not None; the upsert of the match holds its row).
VenueKept ==
    [][\A m \in Match : (\E r \in match[m] : r.kind = "venue")
                           => \E r \in match'[m] : r.kind = "venue"]_vars
=============================================================================
