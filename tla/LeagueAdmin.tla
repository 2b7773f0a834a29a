------------------------------- MODULE LeagueAdmin -------------------------------
(***************************************************************************)
(* The admin's hold on leagues (admin_leagues.py, league_service.py,       *)
(* allowed_league_service.py): registration, the allow-list, visibility;   *)
(* the sync of all leagues and their seasons (league_sync_service.py,      *)
(* league_season_sync_service.py); and the two cached readers of           *)
(* leagues.py, which race the deletion of their keys after each commit.    *)
(*                                                                         *)
(* A league is its local id; a registered one takes the provider's.  What  *)
(* a payload shows of a league is the version of its metadata.  The sync   *)
(* runs under the lock league:all and commits once: one process.           *)
(***************************************************************************)
EXTENDS Naturals, Sequences, FiniteSets

CONSTANTS Admin, Reader, League, Name, Season,
          Seed,        \* rows before: [League -> [of: League, name: Name] or NoRow]
          Table,       \* Table[l]: seasons the provider may give for l
          Asked,       \* keys that readers ask for
          Grouped,     \* the cache key of the grouped list
          NoRow, NoTable,
          MaxView      \* MaxView[l]: how often l is patched (a bound)

Key == League \cup {Grouped}
Row == [of: League, name: Name]

ASSUME LeagueAdminAssumption ==
    /\ Grouped \notin League /\ NoRow \notin Row /\ Asked \subseteq Key
    /\ Seed \in [League -> Row \cup {NoRow}]
    /\ Table \in [League -> SUBSET [listed: SUBSET Season, current: SUBSET Season]]
    /\ \A l \in League : \A t \in Table[l] : t.current \subseteq t.listed
    /\ \A l \in League : NoTable \notin Table[l]
    /\ MaxView \in [League -> Nat]

VARIABLES
    row,       \* row[l]: provider's league and name of the committed row
    view,      \* view[l]: version of display_order and is_featured
    allowed,   \* committed allow-list
    seasons,   \* seasons[l][s]: "absent", "current" or "other"
    last,      \* last[l]: the table of the last committed sync of l
    cache,     \* cache[k]: {} or one entry [has, raced]
    req,       \* req[a]: the request of an admin
    said,      \* said[l]: how often "created" has been answered for l
    rd,        \* rd[r]: a reader, with what it has read
    sync       \* the sync of all leagues

vars == <<row, view, allowed, seasons, last, cache, req, said, rd, sync>>

NoRequest == [pc |-> "idle", what |-> "none", of |-> NoRow, name |-> NoRow, drops |-> <<>>]
NotReading == [pc |-> "idle", key |-> Grouped, ids |-> {}, got |-> {}, raced |-> FALSE]
NotSyncing == [pc |-> "idle", todo |-> {}, drops |-> {}]

Init ==
    /\ row = Seed
    /\ view = [l \in League |-> 0]
    /\ allowed = {}
    /\ seasons = [l \in League |-> [s \in Season |-> "absent"]]
    /\ last = [l \in League |-> NoTable]
    /\ cache = [k \in Key |-> {}]
    /\ req = [a \in Admin |-> NoRequest]
    /\ said = [l \in League |-> 0]
    /\ rd = [r \in Reader |-> NotReading]
    /\ sync = NotSyncing

Exists(l) == row[l] # NoRow

\* What a query for a key returns to a reader who has read the allow-list ids.
Content(k, ids) ==
    {<<l, view[l]>> : l \in {l \in ids : Exists(l) /\ k \in {l, Grouped}}}

Pending(k) ==
    \/ \E a \in Admin : \E i \in 1..Len(req[a].drops) : req[a].drops[i] = k
    \/ k \in sync.drops

\* A reader that has read something is overtaken by a commit.
Overtaken ==
    [r \in Reader |-> [rd[r] EXCEPT !.raced = rd[r].pc \notin {"idle", "list"}]]

RowVars == <<row, view, allowed>>
SeasonVars == <<seasons, last>>

-----------------------------------------------------------------------------
(* Requests of admins.                                                     *)

Request(a, pc, what, l) ==
    req' = [req EXCEPT ![a] = [NoRequest EXCEPT !.pc = pc, !.what = what, !.of = l]]
KeepRows == UNCHANGED <<RowVars, SeasonVars, cache, said, rd, sync>>

\* POST leagues: neither registered nor the local id taken; the provider is
\* asked next.
Register(a, l) ==
    /\ req[a].pc = "idle"
    /\ ~Exists(l) /\ \A m \in League : Exists(m) => row[m].of # l
    /\ Request(a, "ask", "register", l)
    /\ KeepRows

\* The provider answers with the league's name, or not with this league: 503,
\* 404 or 422.
Offered(a) ==
    /\ req[a].pc = "ask"
    /\ \/ \E n \in Name : req' = [req EXCEPT ![a].pc = "insert", ![a].name = n]
       \/ req' = [req EXCEPT ![a] = NoRequest]
    /\ KeepRows

\* POST allowed-leagues: the league exists and is not yet allowed.
Allow(a, l) ==
    /\ req[a].pc = "idle" /\ l \notin allowed /\ Exists(l)
    /\ Request(a, "insert", "allow", l)
    /\ KeepRows

\* Rows of req[a] that are in the way of its insert: leagues_pkey,
\* uq_leagues_provider_provider_id, the unique name; allowed_leagues_pkey.
Clashes(a) ==
    IF req[a].what = "allow" THEN req[a].of \in allowed
    ELSE \E m \in League : Exists(m) /\ (m = req[a].of \/ row[m].of = req[a].of
                                                       \/ row[m].name = req[a].name)

\* Another admin's row, flushed but not committed: the insert waits.
InTheWay(a, b) ==
    /\ b # a /\ req[b].pc = "commit" /\ req[b].what = req[a].what
    /\ \/ req[b].of = req[a].of
       \/ req[a].what = "register" /\ req[b].name = req[a].name

\* (Variant: no constraint.)
InsertUnchecked(a) ==
    /\ req[a].pc = "insert"
    /\ req' = [req EXCEPT ![a].pc = "commit"]
    /\ KeepRows

\* The flush; an IntegrityError is answered with 409.
Insert(a) ==
    /\ req[a].pc = "insert" /\ \A b \in Admin : ~InTheWay(a, b)
    /\ req' = IF Clashes(a) THEN [req EXCEPT ![a] = NoRequest]
              ELSE [req EXCEPT ![a].pc = "commit"]
    /\ KeepRows

\* DELETE allowed-leagues: the row is deleted and flushed, and waits for
\* another's deletion of it.
Remove(a, l) ==
    /\ req[a].pc = "idle" /\ l \in allowed
    /\ \A b \in Admin : ~(req[b].pc = "answered" /\ req[b].of = l)
    /\ Request(a, "answered", "remove", l)
    /\ KeepRows

\* The answer says that it is removed; the session of the request closes and
\* rolls back (get_db).
Close(a) ==
    /\ req[a].pc = "answered"
    /\ req' = [req EXCEPT ![a] = NoRequest]
    /\ KeepRows

\* PATCH leagues/{league_id}.
Patch(a, l) ==
    /\ req[a].pc = "idle" /\ Exists(l) /\ view[l] < MaxView[l]
    /\ Request(a, "commit", "patch", l)
    /\ KeepRows

\* (Variant: visibility is patched without the grouped key.)
DropsOfMissing(what, l) ==
    IF what = "allow" THEN <<Grouped>> ELSE IF what = "patch" THEN <<l>>
    ELSE <<l, Grouped>>

DropsOf(what, l) == IF what = "allow" THEN <<Grouped>> ELSE <<l, Grouped>>

\* The commit, after which the keys are to be deleted.
Commit(a) ==
    LET l == req[a].of IN
    /\ req[a].pc = "commit"
    /\ row' = IF req[a].what = "register"
              THEN [row EXCEPT ![l] = [of |-> l, name |-> req[a].name]] ELSE row
    /\ allowed' = IF req[a].what = "allow" THEN allowed \cup {l} ELSE allowed
    /\ view' = IF req[a].what = "patch" /\ view[l] < MaxView[l]
               THEN [view EXCEPT ![l] = @ + 1] ELSE view
    /\ req' = [req EXCEPT ![a].pc = "drop", ![a].drops = DropsOf(req[a].what, l)]
    /\ rd' = Overtaken
    /\ UNCHANGED <<SeasonVars, cache, said, sync>>

\* A key is deleted, or Redis fails and cache_delete swallows it: then what is
\* there outlives the change.
Deleted(k) == cache' = [cache EXCEPT ![k] = {}]
Undeleted(k) ==
    cache' = [cache EXCEPT ![k] = {[e EXCEPT !.raced = TRUE] : e \in @}]

Drop(a) ==
    /\ req[a].pc = "drop" /\ req[a].drops # <<>>
    /\ Deleted(Head(req[a].drops)) \/ Undeleted(Head(req[a].drops))
    /\ req' = [req EXCEPT ![a].drops = Tail(@)]
    /\ UNCHANGED <<RowVars, SeasonVars, said, rd, sync>>

Answer(a) ==
    /\ req[a].pc = "drop" /\ req[a].drops = <<>>
    /\ req' = [req EXCEPT ![a] = NoRequest]
    /\ said' = IF req[a].what = "register"
               THEN [said EXCEPT ![req[a].of] = @ + 1] ELSE said
    /\ UNCHANGED <<RowVars, SeasonVars, cache, rd, sync>>

\* An error or the end of the process before the commit: rolled back.
Fail(a) ==
    /\ req[a].pc \in {"ask", "insert", "commit"}
    /\ req' = [req EXCEPT ![a] = NoRequest]
    /\ KeepRows

\* ... or after it: no key is deleted any more.
Die(a) ==
    LET left == {req[a].drops[i] : i \in 1..Len(req[a].drops)} IN
    /\ req[a].pc = "drop"
    /\ cache' = [k \in Key |-> IF k \in left
                               THEN {[e EXCEPT !.raced = TRUE] : e \in cache[k]}
                               ELSE cache[k]]
    /\ req' = [req EXCEPT ![a] = NoRequest]
    /\ UNCHANGED <<RowVars, SeasonVars, said, rd, sync>>

-----------------------------------------------------------------------------
(* Readers.                                                                *)

KeepReaders == UNCHANGED <<RowVars, SeasonVars, cache, req, said, sync>>

\* GET grouped reads the allow-list, then the cache ...
List(r) ==
    /\ rd[r].pc = "idle" /\ Grouped \in Asked
    /\ rd' = [rd EXCEPT ![r] = [NotReading EXCEPT !.pc = "look", !.ids = allowed]]
    /\ KeepReaders

LookGrouped(r) ==
    /\ rd[r].pc = "look"
    /\ rd' = IF cache[Grouped] = {} THEN [rd EXCEPT ![r].pc = "query"]
             ELSE [rd EXCEPT ![r] = NotReading]
    /\ KeepReaders

\* ... and GET /{league_id} the cache, where it misses, then the allow-list.
Look(r, k) ==
    /\ rd[r].pc = "idle" /\ k # Grouped /\ cache[k] = {}
    /\ rd' = [rd EXCEPT ![r] = [NotReading EXCEPT !.pc = "list", !.key = k]]
    /\ KeepReaders

ListAllowed(r) ==
    /\ rd[r].pc = "list"
    /\ rd' = [rd EXCEPT ![r].pc = "query", ![r].ids = allowed]
    /\ KeepReaders

\* The rows, among those allowed; a league that is not there is not cached.
Query(r) ==
    LET got == Content(rd[r].key, rd[r].ids) IN
    /\ rd[r].pc = "query"
    /\ rd' = IF got = {} /\ rd[r].key # Grouped THEN [rd EXCEPT ![r] = NotReading]
             ELSE [rd EXCEPT ![r].pc = "fill", ![r].got = got]
    /\ KeepReaders

Fill(r) ==
    /\ rd[r].pc = "fill"
    /\ cache' = [cache EXCEPT ![rd[r].key] = {[has |-> rd[r].got, raced |-> rd[r].raced]}]
    /\ rd' = [rd EXCEPT ![r] = NotReading]
    /\ UNCHANGED <<RowVars, SeasonVars, req, said, sync>>

\* REDIS_TTL_LEAGUE_TEAM.
Expire(k) ==
    /\ cache[k] # {}
    /\ Deleted(k)
    /\ UNCHANGED <<RowVars, SeasonVars, req, said, rd, sync>>

-----------------------------------------------------------------------------
(* The sync of all leagues.                                                *)

KeepAdmins == UNCHANGED <<RowVars, req, said, rd>>

\* (Variant: whatever is registered is synchronised.)
BeginAll ==
    /\ sync.pc = "idle"
    /\ \E some \in SUBSET {l \in League : Exists(l)} :
          /\ some # {}
          /\ sync' = [sync EXCEPT !.pc = "write", !.todo = some]
    /\ UNCHANGED <<SeasonVars, cache>> /\ KeepAdmins

\* The provider's leagues; those of them that are registered and allowed.
Begin ==
    /\ sync.pc = "idle"
    /\ \E some \in SUBSET {l \in allowed : Exists(l)} :
          /\ some # {}
          /\ sync' = [sync EXCEPT !.pc = "write", !.todo = some]
    /\ UNCHANGED <<SeasonVars, cache>> /\ KeepAdmins

\* (Variant: seasons that are there are left as they are.)
UpsertedInserting(l, t) ==
    [s \in Season |-> IF s \in t.listed /\ seasons[l][s] = "absent"
                      THEN IF s \in t.current THEN "current" ELSE "other"
                      ELSE seasons[l][s]]

\* The rows of a league after the upserts: a season not listed stays.
Upserted(l, t) ==
    [s \in Season |-> IF s \in t.current THEN "current"
                      ELSE IF s \in t.listed THEN "other" ELSE seasons[l][s]]

\* More than one current season is a ValueError, and the whole sync is rolled
\* back.
Valid(tables) == \A l \in DOMAIN tables : Cardinality(tables[l].current) <= 1

\* sync_league_seasons of each league, in a transaction nobody sees before its
\* commit.
SyncCommit ==
    /\ sync.pc = "write"
    /\ \E tables \in [sync.todo -> UNION {Table[l] : l \in League}] :
          /\ \A l \in sync.todo : tables[l] \in Table[l]
          /\ Valid(tables)
          /\ seasons' = [l \in League |-> IF l \in sync.todo THEN Upserted(l, tables[l])
                                          ELSE seasons[l]]
          /\ last' = [l \in League |-> IF l \in sync.todo THEN tables[l] ELSE last[l]]
    /\ sync' = [pc |-> "drop", todo |-> {}, drops |-> sync.todo \cup {Grouped}]
    /\ UNCHANGED cache /\ KeepAdmins

\* The listener after the commit, then the lock is free again.
SyncDrop(k) ==
    /\ sync.pc = "drop" /\ k \in sync.drops
    /\ Deleted(k) \/ Undeleted(k)
    /\ sync' = IF sync.drops = {k} THEN NotSyncing ELSE [sync EXCEPT !.drops = @ \ {k}]
    /\ UNCHANGED SeasonVars /\ KeepAdmins

\* An invalid table, or any error before the commit.
SyncFail ==
    /\ sync.pc = "write"
    /\ sync' = NotSyncing
    /\ UNCHANGED <<SeasonVars, cache>> /\ KeepAdmins

-----------------------------------------------------------------------------
Next ==
    \/ \E a \in Admin :
          \/ \E l \in League : Register(a, l) \/ Allow(a, l) \/ Remove(a, l) \/ Patch(a, l)
          \/ Offered(a) \/ Insert(a) \/ Close(a) \/ Commit(a) \/ Drop(a) \/ Answer(a)
          \/ Fail(a) \/ Die(a)
    \/ \E r \in Reader :
          \/ List(r) \/ LookGrouped(r) \/ (\E k \in Asked : Look(r, k)) \/ ListAllowed(r)
          \/ Query(r) \/ Fill(r)
    \/ \E k \in Key : Expire(k) \/ SyncDrop(k)
    \/ Begin \/ SyncCommit \/ SyncFail

Spec == Init /\ [][Next]_vars

-----------------------------------------------------------------------------
Entry == [has: SUBSET (League \X Nat), raced: BOOLEAN]

\* The types.
TypeOK ==
    /\ row \in [League -> Row \cup {NoRow}]
    /\ view \in [League -> Nat]
    /\ allowed \in SUBSET League
    /\ seasons \in [League -> [Season -> {"absent", "current", "other"}]]
    /\ \A l \in League : last[l] \in Table[l] \cup {NoTable}
    /\ cache \in [Key -> SUBSET Entry]
    /\ req \in [Admin -> [pc: {"idle", "ask", "insert", "commit", "answered", "drop"},
                          what: {"none", "register", "allow", "remove", "patch"},
                          of: League \cup {NoRow}, name: Name \cup {NoRow},
                          drops: Seq(Key)]]
    /\ said \in [League -> Nat]
    /\ rd \in [Reader -> [pc: {"idle", "look", "list", "query", "fill"}, key: Key,
                          ids: SUBSET League, got: SUBSET (League \X Nat), raced: BOOLEAN]]
    /\ sync \in [pc: {"idle", "write", "drop"}, todo: SUBSET League, drops: SUBSET Key]

\* "created" is answered at most once for a league, and of a row that is
\* committed under its own id: two registrations in flight at once both find
\* nothing and both ask the provider (register_league of the route).
CreatedOnce ==
    \A l \in League : said[l] <= 1 /\ (said[l] = 1 => Exists(l) /\ row[l].of = l)

\* "Register a provider League without authorizing synchronization": seasons
\* are there only of leagues that an admin has allowed.
SeasonsOnlyOfAllowed ==
    \A l \in League : (\E s \in Season : seasons[l][s] # "absent") => l \in allowed

\* Among the seasons of the last table the one the provider calls current is
\* current, and no other; any other current season is one the provider has
\* stopped to list (sync_league_seasons never looks at those).
CurrentIsProviders ==
    \A l \in League : last[l] # NoTable =>
        /\ {s \in last[l].listed : seasons[l][s] = "current"} = last[l].current
        /\ Cardinality(last[l].current) <= 1

\* A cached answer shows the committed leagues, unless its key is still to be
\* deleted, or a commit overtook the reader that stored it, or its deletion
\* failed: no other path leaves a stale answer.
StaleIsExplained ==
    \A k \in Key : \A e \in cache[k] :
        e.raced \/ Pending(k) \/ e.has = Content(k, allowed)

\* A removal that was answered stands: the league is off the list
\* (test_allowed_league_repository_delete_commits).
RemovalCommits ==
    [][\A a \in Admin : req[a].pc = "answered" /\ req'[a].pc = "idle"
                            => req[a].of \notin allowed']_vars
=============================================================================
