---------------------------- MODULE LeagueAdminProofs ----------------------------
(***************************************************************************)
(* Proofs about LeagueAdmin, for any number of admins, leagues, seasons    *)
(* and readers: types, one creation of a league, seasons of allowed        *)
(* leagues only, the provider's current season, and what may be cached.    *)
(***************************************************************************)
EXTENDS LeagueAdmin, TLAPS

\* A request is about a league, and names the row that it registers.
Asks ==
    \A a \in Admin :
        /\ req[a].pc # "idle" => req[a].of \in League
        /\ req[a].pc \in {"insert", "commit"} /\ req[a].what = "register"
              => req[a].name \in Name

Registering(a, pc) == req[a].pc = pc /\ req[a].what = "register"

\* A registration that is flushed has the league for itself, and one that is
\* committed has its row there and is not yet answered.
Registrations ==
    /\ \A a \in Admin : Registering(a, "commit") => ~Exists(req[a].of)
    /\ \A a \in Admin : Registering(a, "drop") =>
          Exists(req[a].of) /\ row[req[a].of].of = req[a].of /\ said[req[a].of] = 0
    /\ \A a, b \in Admin :
          (\/ Registering(a, "commit") /\ Registering(b, "commit")
           \/ Registering(a, "drop") /\ Registering(b, "drop"))
             => (a # b => req[a].of # req[b].of)

\* A sync that writes does so for allowed leagues.
SyncsAllowed == sync.pc = "write" => sync.todo \subseteq allowed

Requests == [pc: {"idle", "ask", "insert", "commit", "answered", "drop"},
             what: {"none", "register", "allow", "remove", "patch"},
             of: League \cup {NoRow}, name: Name \cup {NoRow}, drops: Seq(Key)]

IndInv ==
    /\ TypeOK /\ Asks /\ Registrations /\ SyncsAllowed
    /\ CreatedOnce /\ SeasonsOnlyOfAllowed /\ CurrentIsProviders

-----------------------------------------------------------------------------
LEMMA InitInv == Init => IndInv
<1> SUFFICES ASSUME Init PROVE IndInv
  OBVIOUS
<1> USE LeagueAdminAssumption
<1>1. TypeOK
  <2>1. req \in [Admin -> [pc: {"idle", "ask", "insert", "commit", "answered", "drop"},
                           what: {"none", "register", "allow", "remove", "patch"},
                           of: League \cup {NoRow}, name: Name \cup {NoRow},
                           drops: Seq(Key)]]
    BY DEF Init, NoRequest
  <2>2. rd \in [Reader -> [pc: {"idle", "look", "list", "query", "fill"}, key: Key,
                           ids: SUBSET League, got: SUBSET (League \X Nat),
                           raced: BOOLEAN]]
    BY DEF Init, NotReading, Key
  <2>3. sync \in [pc: {"idle", "write", "drop"}, todo: SUBSET League, drops: SUBSET Key]
    BY DEF Init, NotSyncing
  <2>4. QED
    BY <2>1, <2>2, <2>3 DEF Init, TypeOK, Entry
<1>2. Asks /\ Registrations /\ SyncsAllowed
  BY DEF Init, Asks, Registrations, Registering, SyncsAllowed, NoRequest, NotSyncing
<1>3. CreatedOnce /\ SeasonsOnlyOfAllowed /\ CurrentIsProviders
  BY DEF Init, CreatedOnce, SeasonsOnlyOfAllowed, CurrentIsProviders
<1>4. QED
  BY <1>1, <1>2, <1>3 DEF IndInv

-----------------------------------------------------------------------------
(* Each part holds on if what it is about stays.                           *)
LEMMA Frame ==
    ASSUME IndInv
    PROVE  /\ UNCHANGED req => Asks'
           /\ UNCHANGED <<req, row, said>> => Registrations'
           /\ UNCHANGED <<sync, allowed>> => SyncsAllowed'
           /\ UNCHANGED <<row, said>> => CreatedOnce'
           /\ UNCHANGED <<seasons, allowed>> => SeasonsOnlyOfAllowed'
           /\ UNCHANGED <<seasons, last>> => CurrentIsProviders'
<1>1. UNCHANGED req => Asks'
  BY DEF IndInv, Asks
<1>2. UNCHANGED <<req, row, said>> => Registrations'
  BY DEF IndInv, Registrations, Registering, Exists
<1>3. UNCHANGED <<sync, allowed>> => SyncsAllowed'
  BY DEF IndInv, SyncsAllowed
<1>4. UNCHANGED <<row, said>> => CreatedOnce'
  BY DEF IndInv, CreatedOnce, Exists
<1>5. UNCHANGED <<seasons, allowed>> => SeasonsOnlyOfAllowed'
  BY DEF IndInv, SeasonsOnlyOfAllowed
<1>6. UNCHANGED <<seasons, last>> => CurrentIsProviders'
  BY DEF IndInv, CurrentIsProviders
<1>7. QED
  BY <1>1, <1>2, <1>3, <1>4, <1>5, <1>6

(* A step that only moves a request, before its commit.                    *)
LEMMA Requested ==
    ASSUME IndInv, KeepRows, NEW a \in Admin, NEW r \in Requests,
           req' = [req EXCEPT ![a] = r],
           r.pc # "idle" => r.of \in League,
           r.pc \in {"insert", "commit"} /\ r.what = "register" => r.name \in Name,
           r.pc # "drop",
           r.pc = "commit" /\ r.what = "register" =>
              /\ ~Exists(r.of)
              /\ \A b \in Admin : b # a /\ Registering(b, "commit") => req[b].of # r.of
    PROVE  IndInv'
<1>1. req \in [Admin -> Requests]
  BY DEF IndInv, TypeOK, Requests
<1>2. req'[a] = r /\ \A b \in Admin \ {a} : req'[b] = req[b]
  BY <1>1
<1>3. UNCHANGED <<row, view, allowed, seasons, last, cache, said, rd, sync>>
  BY DEF KeepRows, RowVars, SeasonVars
<1>4. TypeOK'
  BY <1>3 DEF IndInv, TypeOK, Requests
<1>5. Asks'
  BY <1>2 DEF IndInv, Asks
<1>6. Registrations'
  BY <1>2, <1>3 DEF IndInv, Registrations, Registering, Exists
<1>7. QED
  BY <1>3, <1>4, <1>5, <1>6, Frame DEF IndInv

LEMMA RequestStep ==
    ASSUME IndInv, NEW a \in Admin, NEW l \in League,
           Register(a, l) \/ Allow(a, l) \/ Remove(a, l) \/ Patch(a, l)
    PROVE  IndInv'
<1>1. PICK pc \in {"ask", "insert", "answered", "commit"},
           what \in {"register", "allow", "remove", "patch"} :
        /\ Request(a, pc, what, l) /\ KeepRows
        /\ pc \in {"insert", "commit"} => what # "register"
  BY DEF Register, Allow, Remove, Patch
<1> DEFINE r == [NoRequest EXCEPT !.pc = pc, !.what = what, !.of = l]
<1>2. NoRequest \in Requests
  BY DEF NoRequest, Requests
<1>3. r \in Requests /\ r.pc = pc /\ r.what = what /\ r.of = l
  BY <1>2 DEF Requests
<1>4. req' = [req EXCEPT ![a] = r]
  BY <1>1 DEF Request
<1> HIDE DEF r
<1>5. QED
  BY <1>1, <1>3, <1>4, Requested

LEMMA DroppedRequest ==
    ASSUME IndInv, KeepRows, NEW a \in Admin, req' = [req EXCEPT ![a] = NoRequest]
    PROVE  IndInv'
<1>1. NoRequest \in Requests /\ NoRequest.pc = "idle"
  BY DEF NoRequest, Requests
<1>2. QED
  BY <1>1, Requested

LEMMA OfferedStep == ASSUME IndInv, NEW a \in Admin, Offered(a) PROVE IndInv'
<1>1. CASE req' = [req EXCEPT ![a] = NoRequest]
  BY <1>1, DroppedRequest DEF Offered
<1>2. ASSUME NEW n \in Name, req' = [req EXCEPT ![a].pc = "insert", ![a].name = n]
      PROVE  IndInv'
  <2> DEFINE r == [req[a] EXCEPT !.pc = "insert", !.name = n]
  <2>1. req[a] \in Requests /\ req[a].pc = "ask" /\ KeepRows
    BY DEF IndInv, TypeOK, Requests, Offered
  <2>2. /\ r \in Requests /\ r.pc = "insert" /\ r.name = n /\ r.of = req[a].of
        /\ req' = [req EXCEPT ![a] = r]
    BY <1>2, <2>1 DEF Requests
  <2>3. r.of \in League
    BY <2>1, <2>2 DEF IndInv, Asks
  <2>4. QED
    BY <2>1, <2>2, <2>3, Requested
<1>3. QED
  BY <1>1, <1>2 DEF Offered

LEMMA InsertStep == ASSUME IndInv, NEW a \in Admin, Insert(a) PROVE IndInv'
<1>1. CASE Clashes(a)
  BY <1>1, DroppedRequest DEF Insert
<1>2. CASE ~Clashes(a)
  <2> DEFINE r == [req[a] EXCEPT !.pc = "commit"]
  <2>1. /\ req[a] \in Requests /\ req[a].pc = "insert" /\ KeepRows
        /\ req[a].of \in League
        /\ req[a].what = "register" => req[a].name \in Name
        /\ \A b \in Admin : ~InTheWay(a, b)
    BY DEF IndInv, TypeOK, Requests, Insert, Asks
  <2>2. /\ r \in Requests /\ r.pc = "commit" /\ r.what = req[a].what
        /\ r.name = req[a].name /\ r.of = req[a].of
        /\ req' = [req EXCEPT ![a] = r]
    BY <1>2, <2>1 DEF Requests, Insert
  <2>3. ASSUME req[a].what = "register" PROVE ~Exists(req[a].of)
    BY <1>2, <2>1, <2>3 DEF Clashes
  <2>4. \A b \in Admin : b # a /\ Registering(b, "commit") /\ req[a].what = "register"
                           => req[b].of # req[a].of
    BY <2>1 DEF InTheWay, Registering
  <2> HIDE DEF r
  <2>5. QED
    BY <2>1, <2>2, <2>3, <2>4, Requested
<1>3. QED
  BY <1>1, <1>2

LEMMA CloseStep == ASSUME IndInv, NEW a \in Admin, Close(a) \/ Fail(a) PROVE IndInv'
BY DroppedRequest DEF Close, Fail

-----------------------------------------------------------------------------
LEMMA KeyLists ==
    ASSUME NEW k1 \in Key, NEW k2 \in Key
    PROVE  <<k1>> \in Seq(Key) /\ <<k1, k2>> \in Seq(Key)
OBVIOUS

Reads == [pc: {"idle", "look", "list", "query", "fill"}, key: Key,
          ids: SUBSET League, got: SUBSET (League \X Nat), raced: BOOLEAN]

LEMMA OvertakenReads == IndInv => Overtaken \in [Reader -> Reads]
<1> SUFFICES ASSUME IndInv, NEW r \in Reader
             PROVE  [rd[r] EXCEPT !.raced = rd[r].pc \notin {"idle", "list"}] \in Reads
  BY DEF Overtaken
<1>1. rd[r] \in Reads
  BY DEF IndInv, TypeOK, Reads
<1>2. PICK b \in BOOLEAN : b = (rd[r].pc \notin {"idle", "list"})
  OBVIOUS
<1>3. [rd[r] EXCEPT !.raced = b] \in Reads
  BY <1>1 DEF Reads
<1>4. QED
  BY <1>2, <1>3

LEMMA CommitStep == ASSUME IndInv, NEW a \in Admin, Commit(a) PROVE IndInv'
<1> DEFINE l == req[a].of
           what == req[a].what
<1>1. /\ req \in [Admin -> Requests] /\ l \in League /\ req[a].pc = "commit"
      /\ what = "register" => req[a].name \in Name
  BY DEF IndInv, TypeOK, Requests, Commit, Asks
<1>2. /\ row' = IF what = "register"
                THEN [row EXCEPT ![l] = [of |-> l, name |-> req[a].name]] ELSE row
      /\ allowed' = IF what = "allow" THEN allowed \cup {l} ELSE allowed
      /\ view' = IF what = "patch" /\ view[l] < MaxView[l]
                 THEN [view EXCEPT ![l] = @ + 1] ELSE view
      /\ req' = [req EXCEPT ![a].pc = "drop", ![a].drops = DropsOf(what, l)]
      /\ rd' = Overtaken
      /\ UNCHANGED <<seasons, last, cache, said, sync>>
  BY DEF Commit, SeasonVars
<1>3. PICK drops \in Seq(Key) : drops = DropsOf(what, l)
  BY <1>1, KeyLists DEF DropsOf, Key
<1>4. /\ req'[a].pc = "drop" /\ req'[a].what = what /\ req'[a].of = l
      /\ req'[a].name = req[a].name
      /\ \A b \in Admin \ {a} : req'[b] = req[b]
  BY <1>1, <1>2 DEF Requests
<1>5. req' \in [Admin -> Requests]
  <2> DEFINE r == [req[a] EXCEPT !.pc = "drop", !.drops = drops]
  <2>1. r \in Requests
    BY <1>1, <1>3 DEF Requests
  <2>2. req' = [req EXCEPT ![a] = r]
    BY <1>1, <1>2, <1>3
  <2> HIDE DEF r
  <2>3. QED
    BY <1>1, <2>1, <2>2
<1>6. rd' \in [Reader -> Reads]
  BY <1>2, OvertakenReads
<1>7. view' \in [League -> Nat] /\ allowed' \in SUBSET League
  BY <1>1, <1>2 DEF IndInv, TypeOK
<1>8. row' \in [League -> Row \cup {NoRow}]
  BY <1>1, <1>2 DEF IndInv, TypeOK, Row
<1>9. TypeOK'
  BY <1>2, <1>5, <1>6, <1>7, <1>8 DEF IndInv, TypeOK, Requests, Reads
<1>10. Asks'
  BY <1>1, <1>4 DEF IndInv, Asks
<1>11. SyncsAllowed' /\ SeasonsOnlyOfAllowed'
  BY <1>2 DEF IndInv, SyncsAllowed, SeasonsOnlyOfAllowed
<1>12. CurrentIsProviders'
  BY <1>2, Frame
<1>13. CASE what = "register"
  <2>1. ~Exists(l) /\ said[l] = 0
    BY <1>1, <1>13 DEF IndInv, TypeOK, Registrations, Registering, CreatedOnce
  <2>2. /\ row'[l] = [of |-> l, name |-> req[a].name]
        /\ \A m \in League \ {l} : row'[m] = row[m]
        /\ row'[l] # NoRow
    BY <1>1, <1>2, <1>13, LeagueAdminAssumption DEF IndInv, TypeOK, Row
  <2>3. CreatedOnce'
    BY <1>2, <2>1, <2>2 DEF IndInv, CreatedOnce, Exists
  <2>4. \A b \in Admin \ {a} :
          (Registering(b, "commit") \/ Registering(b, "drop")) => req[b].of # l
    BY <1>1, <1>13, <2>1 DEF IndInv, Registrations, Registering
  <2>5. \A b \in Admin \ {a} : req[b].pc # "idle" => req[b].of \in League
    BY DEF IndInv, Asks
  <2>6. Registrations'
    BY <1>1, <1>2, <1>4, <2>1, <2>2, <2>4, <2>5 DEF IndInv, Registrations, Registering, Exists
  <2>7. QED
    BY <1>9, <1>10, <1>11, <1>12, <2>3, <2>6 DEF IndInv
<1>14. CASE what # "register"
  <2>1. row' = row
    BY <1>2, <1>14
  <2>2. CreatedOnce'
    BY <1>2, <2>1, Frame
  <2>3. Registrations'
    <3>1. said' = said
      BY <1>2
    <3>2. \A b \in Admin, pc \in {"commit", "drop"} :
            Registering(b, pc)' => b # a /\ Registering(b, pc) /\ req'[b] = req[b]
      BY <1>4, <1>14 DEF Registering
    <3>3. QED
      BY <2>1, <3>1, <3>2 DEF IndInv, Registrations, Exists
  <2>4. QED
    BY <1>9, <1>10, <1>11, <1>12, <2>2, <2>3 DEF IndInv
<1>15. QED
  BY <1>13, <1>14

(* What is said of an entry that outlives its deletion is that it was raced. *)
LEMMA RacedEntries ==
    ASSUME NEW entries \in SUBSET Entry
    PROVE  {[e EXCEPT !.raced = TRUE] : e \in entries} \in SUBSET Entry
BY DEF Entry

LEMMA CacheTyped ==
    ASSUME IndInv, NEW k \in Key, Deleted(k) \/ Undeleted(k)
    PROVE  cache' \in [Key -> SUBSET Entry]
<1>1. cache \in [Key -> SUBSET Entry]
  BY DEF IndInv, TypeOK
<1>2. CASE Deleted(k)
  BY <1>1, <1>2 DEF Deleted
<1>3. CASE Undeleted(k)
  <2>1. PICK entries \in SUBSET Entry :
          entries = {[e EXCEPT !.raced = TRUE] : e \in cache[k]}
    BY <1>1, RacedEntries
  <2>2. cache' = [cache EXCEPT ![k] = entries]
    BY <1>3, <2>1 DEF Undeleted
  <2>3. QED
    BY <1>1, <2>2
<1>4. QED
  BY <1>2, <1>3

(* A step after a request's commit that leaves rows and answers as they    *)
(* are: what the request is about stays, or it is over.                    *)
LEMMA Finishing ==
    ASSUME IndInv, NEW a \in Admin, NEW r \in Requests,
           req[a].pc = "drop", req' = [req EXCEPT ![a] = r],
           \/ r.pc = "idle"
           \/ r.pc = "drop" /\ r.what = req[a].what /\ r.of = req[a].of,
           UNCHANGED <<row, said>>
    PROVE  req' \in [Admin -> Requests] /\ Asks' /\ Registrations'
<1>1. req \in [Admin -> Requests]
  BY DEF IndInv, TypeOK, Requests
<1>2. req'[a] = r /\ \A b \in Admin \ {a} : req'[b] = req[b]
  BY <1>1
<1>3. req' \in [Admin -> Requests]
  BY <1>1
<1>4. Asks'
  BY <1>2 DEF IndInv, Asks
<1>5. Registrations'
  BY <1>2 DEF IndInv, Registrations, Registering, Exists
<1>6. QED
  BY <1>3, <1>4, <1>5

LEMMA DropStep == ASSUME IndInv, NEW a \in Admin, Drop(a) PROVE IndInv'
<1> DEFINE r == [req[a] EXCEPT !.drops = Tail(@)]
<1>1. /\ req[a] \in Requests /\ req[a].pc = "drop" /\ req[a].drops # <<>>
      /\ UNCHANGED <<row, view, allowed, seasons, last, said, rd, sync>>
  BY DEF IndInv, TypeOK, Requests, Drop, RowVars, SeasonVars
<1>2. PICK drops \in Seq(Key) : drops = req[a].drops /\ drops # <<>>
  BY <1>1 DEF Requests
<1>3. Head(drops) \in Key /\ Tail(drops) \in Seq(Key)
  BY <1>2
<1>4. cache' \in [Key -> SUBSET Entry]
  BY <1>2, <1>3, CacheTyped DEF Drop
<1>5. r \in Requests /\ r.pc = "drop" /\ r.what = req[a].what /\ r.of = req[a].of
  BY <1>1, <1>2, <1>3 DEF Requests
<1>6. req' = [req EXCEPT ![a] = r]
  BY DEF Drop
<1> HIDE DEF r
<1>7. req' \in [Admin -> Requests] /\ Asks' /\ Registrations'
  BY <1>1, <1>5, <1>6, Finishing
<1>8. TypeOK'
  BY <1>1, <1>4, <1>7 DEF IndInv, TypeOK, Requests
<1>9. QED
  BY <1>1, <1>7, <1>8, Frame DEF IndInv

LEMMA DieStep == ASSUME IndInv, NEW a \in Admin, Die(a) PROVE IndInv'
<1> DEFINE left == {req[a].drops[i] : i \in 1..Len(req[a].drops)}
<1>1. /\ req[a].pc = "drop" /\ req' = [req EXCEPT ![a] = NoRequest]
      /\ cache' = [k \in Key |-> IF k \in left
                                 THEN {[e EXCEPT !.raced = TRUE] : e \in cache[k]}
                                 ELSE cache[k]]
      /\ UNCHANGED <<row, view, allowed, seasons, last, said, rd, sync>>
  BY DEF Die, RowVars, SeasonVars
<1> HIDE DEF left
<1>2. cache' \in [Key -> SUBSET Entry]
  BY <1>1, RacedEntries DEF IndInv, TypeOK
<1>3. NoRequest \in Requests /\ NoRequest.pc = "idle"
  BY DEF NoRequest, Requests
<1>4. req' \in [Admin -> Requests] /\ Asks' /\ Registrations'
  BY <1>1, <1>3, Finishing
<1>5. TypeOK'
  BY <1>1, <1>2, <1>4 DEF IndInv, TypeOK, Requests
<1>6. QED
  BY <1>1, <1>4, <1>5, Frame DEF IndInv

LEMMA AnswerStep == ASSUME IndInv, NEW a \in Admin, Answer(a) PROVE IndInv'
<1>1. /\ req \in [Admin -> Requests] /\ req[a].pc = "drop"
      /\ req' = [req EXCEPT ![a] = NoRequest]
      /\ said' = IF req[a].what = "register"
                 THEN [said EXCEPT ![req[a].of] = @ + 1] ELSE said
      /\ UNCHANGED <<row, view, allowed, seasons, last, cache, rd, sync>>
  BY DEF IndInv, TypeOK, Requests, Answer, RowVars, SeasonVars
<1>2. NoRequest \in Requests /\ NoRequest.pc = "idle"
  BY DEF NoRequest, Requests
<1>3. req'[a] = NoRequest /\ \A b \in Admin \ {a} : req'[b] = req[b]
  BY <1>1
<1>4. CASE req[a].what # "register"
  <2>1. req' \in [Admin -> Requests] /\ Asks' /\ Registrations'
    BY <1>1, <1>2, <1>4, Finishing
  <2>2. TypeOK'
    BY <1>1, <1>4, <2>1 DEF IndInv, TypeOK, Requests
  <2>3. QED
    BY <1>1, <1>4, <2>1, <2>2, Frame DEF IndInv
<1>5. CASE req[a].what = "register"
  <2> DEFINE l == req[a].of
  <2>1. /\ l \in League /\ Exists(l) /\ row[l].of = l /\ said[l] = 0
    BY <1>1, <1>5 DEF IndInv, Asks, Registrations, Registering
  <2>2. /\ said'[l] = 1 /\ \A m \in League \ {l} : said'[m] = said[m]
        /\ said' \in [League -> Nat]
    BY <1>1, <1>5, <2>1 DEF IndInv, TypeOK
  <2>3. TypeOK'
    BY <1>1, <1>2, <2>2 DEF IndInv, TypeOK, Requests
  <2>4. Asks'
    BY <1>2, <1>3 DEF IndInv, Asks
  <2>5. CreatedOnce'
    BY <1>1, <2>1, <2>2 DEF IndInv, CreatedOnce, Exists
  <2>6. \A b \in Admin \ {a} : Registering(b, "drop") => req[b].of # l
    BY <1>1, <1>5 DEF IndInv, Registrations, Registering
  <2>7. Registrations'
    <3>1. \A b \in Admin, pc \in {"commit", "drop"} :
            Registering(b, pc)' => b # a /\ Registering(b, pc) /\ req'[b] = req[b]
      BY <1>2, <1>3 DEF Registering
    <3>2. \A b \in Admin : Registering(b, "drop") => req[b].of \in League
      BY DEF IndInv, Asks, Registering
    <3>3. QED
      BY <1>1, <2>2, <2>6, <3>1, <3>2 DEF IndInv, Registrations, Exists
  <2>8. QED
    BY <1>1, <2>3, <2>4, <2>5, <2>7, Frame DEF IndInv
<1>6. QED
  BY <1>4, <1>5

-----------------------------------------------------------------------------
(* Readers and the expiry of keys touch nothing but the cache.             *)
LEMMA ReaderStep ==
    ASSUME IndInv, UNCHANGED <<row, view, allowed, seasons, last, req, said, sync>>,
           cache' \in [Key -> SUBSET Entry], rd' \in [Reader -> Reads]
    PROVE  IndInv'
<1>1. TypeOK'
  BY DEF IndInv, TypeOK, Reads
<1>2. QED
  BY <1>1, Frame DEF IndInv

LEMMA LookStep ==
    ASSUME IndInv, NEW r \in Reader,
           List(r) \/ LookGrouped(r) \/ (\E k \in Asked : Look(r, k)) \/ ListAllowed(r)
    PROVE  IndInv'
<1>1. NotReading \in Reads /\ rd \in [Reader -> Reads] /\ allowed \in SUBSET League
  BY DEF NotReading, Reads, Key, IndInv, TypeOK
<1>2. rd' \in [Reader -> Reads]
  <2>1. CASE List(r)
    BY <1>1, <2>1 DEF List, Reads
  <2>2. CASE LookGrouped(r)
    BY <1>1, <2>2 DEF LookGrouped, Reads
  <2>3. ASSUME NEW k \in Asked, Look(r, k) PROVE rd' \in [Reader -> Reads]
    BY <1>1, <2>3, LeagueAdminAssumption DEF Look, Reads
  <2>4. CASE ListAllowed(r)
    BY <1>1, <2>4 DEF ListAllowed, Reads
  <2>5. QED
    BY <2>1, <2>2, <2>3, <2>4
<1>3. KeepReaders
  BY DEF List, LookGrouped, Look, ListAllowed
<1>4. QED
  BY <1>2, <1>3, ReaderStep DEF KeepReaders, RowVars, SeasonVars, IndInv, TypeOK

LEMMA QueryStep == ASSUME IndInv, NEW r \in Reader, Query(r) PROVE IndInv'
<1> DEFINE got == Content(rd[r].key, rd[r].ids)
<1>1. rd \in [Reader -> Reads]
  BY DEF IndInv, TypeOK, Reads
<1>2. NotReading \in Reads
  BY DEF NotReading, Reads, Key
<1>3. got \in SUBSET (League \X Nat)
  BY <1>1 DEF Content, Reads, IndInv, TypeOK
<1>4. rd' = [rd EXCEPT ![r] = NotReading]
      \/ rd' = [rd EXCEPT ![r].pc = "fill", ![r].got = got]
  BY DEF Query
<1> HIDE DEF got
<1>5. rd' \in [Reader -> Reads]
  BY <1>1, <1>2, <1>3, <1>4 DEF Reads
<1>6. QED
  BY <1>5, ReaderStep DEF Query, KeepReaders, RowVars, SeasonVars, IndInv, TypeOK

LEMMA FillStep == ASSUME IndInv, NEW r \in Reader, Fill(r) PROVE IndInv'
<1>1. rd \in [Reader -> Reads]
  BY DEF IndInv, TypeOK, Reads
<1>2. NotReading \in Reads
  BY DEF NotReading, Reads, Key
<1>3. PICK e \in Entry : e = [has |-> rd[r].got, raced |-> rd[r].raced]
  BY <1>1 DEF Reads, Entry
<1>4. cache' = [cache EXCEPT ![rd[r].key] = {e}] /\ rd' = [rd EXCEPT ![r] = NotReading]
  BY <1>3 DEF Fill
<1>5. cache' \in [Key -> SUBSET Entry] /\ rd' \in [Reader -> Reads]
  BY <1>1, <1>2, <1>4 DEF IndInv, TypeOK, Reads
<1>6. QED
  BY <1>5, ReaderStep DEF Fill, RowVars, SeasonVars

LEMMA ExpireStep == ASSUME IndInv, NEW k \in Key, Expire(k) PROVE IndInv'
BY CacheTyped, ReaderStep DEF Expire, RowVars, SeasonVars, IndInv, TypeOK, Reads

-----------------------------------------------------------------------------
(* A step of the sync that writes no season.                               *)
LEMMA SyncMoves ==
    ASSUME IndInv, KeepAdmins, UNCHANGED <<seasons, last>>,
           cache' \in [Key -> SUBSET Entry],
           sync' \in [pc: {"idle", "write", "drop"}, todo: SUBSET League,
                      drops: SUBSET Key],
           sync'.pc = "write" => sync'.todo \subseteq allowed
    PROVE  IndInv'
<1>1. UNCHANGED <<row, view, allowed, req, said, rd>>
  BY DEF KeepAdmins, RowVars
<1>2. TypeOK'
  BY <1>1 DEF IndInv, TypeOK
<1>3. SyncsAllowed'
  BY <1>1 DEF SyncsAllowed
<1>4. QED
  BY <1>1, <1>2, <1>3, Frame DEF IndInv

LEMMA BeginStep == IndInv /\ Begin => IndInv'
<1> SUFFICES ASSUME IndInv, Begin PROVE IndInv'
  OBVIOUS
<1>1. PICK some \in SUBSET {l \in allowed : Exists(l)} :
        sync' = [sync EXCEPT !.pc = "write", !.todo = some]
  BY DEF Begin
<1>2. some \subseteq allowed /\ allowed \subseteq League
  BY DEF IndInv, TypeOK
<1>3. /\ sync' \in [pc: {"idle", "write", "drop"}, todo: SUBSET League,
                    drops: SUBSET Key]
      /\ sync'.todo = some
  BY <1>1, <1>2 DEF IndInv, TypeOK
<1>4. QED
  BY <1>2, <1>3, SyncMoves DEF Begin, SeasonVars, IndInv, TypeOK

LEMMA SyncFailStep == IndInv /\ SyncFail => IndInv'
<1> SUFFICES ASSUME IndInv, SyncFail PROVE IndInv'
  OBVIOUS
<1>1. /\ sync' \in [pc: {"idle", "write", "drop"}, todo: SUBSET League,
                    drops: SUBSET Key]
      /\ sync'.pc = "idle"
  BY DEF SyncFail, NotSyncing
<1>2. QED
  BY <1>1, SyncMoves DEF SyncFail, SeasonVars, IndInv, TypeOK

LEMMA SyncDropStep == ASSUME IndInv, NEW k \in Key, SyncDrop(k) PROVE IndInv'
<1>1. /\ sync' \in [pc: {"idle", "write", "drop"}, todo: SUBSET League,
                    drops: SUBSET Key]
      /\ sync'.pc # "write"
  BY DEF SyncDrop, NotSyncing, IndInv, TypeOK
<1>2. cache' \in [Key -> SUBSET Entry]
  BY CacheTyped DEF SyncDrop
<1>3. QED
  BY <1>1, <1>2, SyncMoves DEF SyncDrop, SeasonVars

(* After the upserts the listed seasons are the table's, whatever was there. *)
LEMMA UpsertsFollow ==
    ASSUME NEW l \in League, NEW t \in Table[l],
           seasons[l] \in [Season -> {"absent", "current", "other"}]
    PROVE  /\ Upserted(l, t) \in [Season -> {"absent", "current", "other"}]
           /\ {s \in t.listed : Upserted(l, t)[s] = "current"} = t.current
<1>1. t \in [listed: SUBSET Season, current: SUBSET Season]
  BY LeagueAdminAssumption
<1>2. t.current \subseteq t.listed
  BY LeagueAdminAssumption
<1>3. QED
  BY <1>1, <1>2 DEF Upserted

LEMMA SyncCommitStep == IndInv /\ SyncCommit => IndInv'
<1> SUFFICES ASSUME IndInv, SyncCommit PROVE IndInv'
  OBVIOUS
<1>1. PICK tables \in [sync.todo -> UNION {Table[l] : l \in League}] :
        /\ \A l \in sync.todo : tables[l] \in Table[l]
        /\ Valid(tables)
        /\ seasons' = [l \in League |-> IF l \in sync.todo THEN Upserted(l, tables[l])
                                        ELSE seasons[l]]
        /\ last' = [l \in League |-> IF l \in sync.todo THEN tables[l] ELSE last[l]]
  BY DEF SyncCommit
<1>2. /\ sync.pc = "write" /\ sync.todo \subseteq League /\ sync.todo \subseteq allowed
      /\ sync' = [pc |-> "drop", todo |-> {}, drops |-> sync.todo \cup {Grouped}]
      /\ UNCHANGED <<row, view, allowed, cache, req, said, rd>>
  BY DEF SyncCommit, KeepAdmins, RowVars, IndInv, TypeOK, SyncsAllowed
<1>3. \A l \in sync.todo : Cardinality(tables[l].current) <= 1
  BY <1>1 DEF Valid
<1>4. \A l \in League : seasons[l] \in [Season -> {"absent", "current", "other"}]
  BY DEF IndInv, TypeOK
<1>5. \A l \in sync.todo :
        /\ Upserted(l, tables[l]) \in [Season -> {"absent", "current", "other"}]
        /\ {s \in tables[l].listed : Upserted(l, tables[l])[s] = "current"}
              = tables[l].current
  BY <1>1, <1>2, <1>4, UpsertsFollow
<1>6. \A l \in League : IF l \in sync.todo
        THEN seasons'[l] = Upserted(l, tables[l]) /\ last'[l] = tables[l]
        ELSE seasons'[l] = seasons[l] /\ last'[l] = last[l]
  BY <1>1
<1>7. seasons' \in [League -> [Season -> {"absent", "current", "other"}]]
  BY <1>1, <1>4, <1>5
<1>8. \A l \in League : last'[l] \in Table[l] \cup {NoTable}
  BY <1>1, <1>6 DEF IndInv, TypeOK
<1>9. TypeOK'
  BY <1>2, <1>7, <1>8 DEF IndInv, TypeOK, Key
<1>10. SyncsAllowed'
  BY <1>2 DEF SyncsAllowed
<1>11. SeasonsOnlyOfAllowed'
  BY <1>2, <1>6 DEF IndInv, SeasonsOnlyOfAllowed
<1>12. CurrentIsProviders'
  <2> SUFFICES ASSUME NEW l \in League, last'[l] # NoTable
               PROVE  /\ {s \in last'[l].listed : seasons'[l][s] = "current"}
                           = last'[l].current
                      /\ Cardinality(last'[l].current) <= 1
    BY DEF CurrentIsProviders
  <2>1. CASE l \in sync.todo
    BY <1>3, <1>5, <1>6, <2>1
  <2>2. CASE l \notin sync.todo
    BY <1>6, <2>2 DEF IndInv, CurrentIsProviders
  <2>3. QED
    BY <2>1, <2>2
<1>13. QED
  BY <1>2, <1>9, <1>10, <1>11, <1>12, Frame DEF IndInv

-----------------------------------------------------------------------------
LEMMA NextInv == IndInv /\ [Next]_vars => IndInv'
<1> SUFFICES ASSUME IndInv, [Next]_vars PROVE IndInv'
  OBVIOUS
<1>1. CASE UNCHANGED vars
  <2>1. UNCHANGED <<row, view, allowed, seasons, last, cache, req, said, rd, sync>>
    BY <1>1 DEF vars
  <2>2. TypeOK'
    BY <2>1 DEF IndInv, TypeOK
  <2>3. QED
    BY <2>1, <2>2, Frame DEF IndInv
<1>2. ASSUME NEW a \in Admin, NEW l \in League,
             Register(a, l) \/ Allow(a, l) \/ Remove(a, l) \/ Patch(a, l)
      PROVE  IndInv'
  BY <1>2, RequestStep
<1>3. ASSUME NEW a \in Admin,
             \/ Offered(a) \/ Insert(a) \/ Close(a) \/ Commit(a) \/ Drop(a)
             \/ Answer(a) \/ Fail(a) \/ Die(a)
      PROVE  IndInv'
  BY <1>3, OfferedStep, InsertStep, CloseStep, CommitStep, DropStep, AnswerStep, DieStep
<1>4. ASSUME NEW r \in Reader, List(r) \/ LookGrouped(r) \/ (\E k \in Asked : Look(r, k))
             \/ ListAllowed(r) \/ Query(r) \/ Fill(r)
      PROVE  IndInv'
  BY <1>4, LookStep, QueryStep, FillStep
<1>5. ASSUME NEW k \in Key, Expire(k) \/ SyncDrop(k) PROVE IndInv'
  BY <1>5, ExpireStep, SyncDropStep
<1>6. QED
  BY <1>1, <1>2, <1>3, <1>4, <1>5, BeginStep, SyncCommitStep, SyncFailStep DEF Next

LEMMA IndInvHolds == Spec => []IndInv
<1>1. Init => IndInv
  BY InitInv
<1>2. IndInv /\ [Next]_vars => IndInv'
  BY NextInv
<1>3. QED
  BY <1>1, <1>2, PTL DEF Spec

(* Type correctness of leagues, seasons, requests, readers and the sync    *)
(* (models/league.py, models/allowed_league.py, admin_leagues.py).         *)
THEOREM TypeCorrect == Spec => []TypeOK
<1>1. IndInv => TypeOK
  BY DEF IndInv
<1>2. QED
  BY <1>1, IndInvHolds, PTL

(* A registration is answered with "created" once for a league, however    *)
(* many admins ask for it at once (register_league: the unique keys of     *)
(* leagues decide, and the loser gets a 409).                              *)
THEOREM CreatedOnceHolds == Spec => []CreatedOnce
<1>1. IndInv => CreatedOnce
  BY DEF IndInv
<1>2. QED
  BY <1>1, IndInvHolds, PTL

(* Seasons are only stored of leagues an admin has allowed                 *)
(* (sync_all_leagues filters by the allow-list, which never shrinks: a     *)
(* removal is not committed).                                              *)
THEOREM SeasonsOnlyOfAllowedHolds == Spec => []SeasonsOnlyOfAllowed
<1>1. IndInv => SeasonsOnlyOfAllowed
  BY DEF IndInv
<1>2. QED
  BY <1>1, IndInvHolds, PTL

(* Of the seasons the provider listed last, its current one is current and *)
(* no other (sync_league_seasons).                                         *)
THEOREM CurrentIsProvidersHolds == Spec => []CurrentIsProviders
<1>1. IndInv => CurrentIsProviders
  BY DEF IndInv
<1>2. QED
  BY <1>1, IndInvHolds, PTL

-----------------------------------------------------------------------------
(* What is cached.  Beside the invariant above this needs to know that     *)
(* keys wait to be deleted only after a commit, that a league is not       *)
(* cached as missing, and what a reader holds that no commit overtook.     *)
NoLeftovers ==
    /\ \A a \in Admin : req[a].pc # "drop" => req[a].drops = <<>>
    /\ sync.pc # "drop" => sync.drops = {}

Found == \A l \in League : \A e \in cache[l] : e.has # {}

Reading ==
    \A r \in Reader :
        /\ rd[r].pc \in {"look", "query"} => rd[r].raced \/ rd[r].ids = allowed
        /\ rd[r].pc = "fill" =>
              /\ rd[r].raced \/ rd[r].got = Content(rd[r].key, allowed)
              /\ rd[r].key # Grouped => rd[r].got # {}

CacheInv == NoLeftovers /\ Found /\ Reading /\ StaleIsExplained

\* The keys that a request has still to delete.
Left(a) == {req[a].drops[i] : i \in 1..Len(req[a].drops)}

\* Entries stay as they were, go, or are known to be raced from now on.
Aged ==
    \A k \in Key : \A e \in cache'[k] :
        \E f \in cache[k] : e.has = f.has /\ (e.raced \/ e = f)

LEMMA PendingLeft ==
    ASSUME NEW k
    PROVE  Pending(k) <=> (\E a \in Admin : k \in Left(a)) \/ k \in sync.drops
BY DEF Pending, Left

LEMMA PendingLeftNext ==
    ASSUME NEW k
    PROVE  Pending(k)' <=> (\E a \in Admin : k \in Left(a)') \/ k \in sync'.drops
BY DEF Pending, Left

LEMMA EntriesAge ==
    ASSUME IndInv, NEW k \in Key, NEW e \in cache[k]
    PROVE  LET f == [e EXCEPT !.raced = TRUE] IN f.has = e.has /\ f.raced
<1>1. e \in Entry
  BY DEF IndInv, TypeOK
<1>2. QED
  BY <1>1 DEF Entry

LEMMA DeletionAges ==
    ASSUME IndInv, NEW k \in Key, Deleted(k) \/ Undeleted(k)
    PROVE  Aged /\ \A e \in cache'[k] : e.raced
<1>1. cache \in [Key -> SUBSET Entry]
  BY DEF IndInv, TypeOK
<1>2. CASE Deleted(k)
  BY <1>1, <1>2 DEF Deleted, Aged
<1>3. CASE Undeleted(k)
  <2>1. /\ cache'[k] = {[e EXCEPT !.raced = TRUE] : e \in cache[k]}
        /\ \A j \in Key \ {k} : cache'[j] = cache[j]
    BY <1>1, <1>3 DEF Undeleted
  <2>2. \A e \in cache'[k] : e.raced /\ \E f \in cache[k] : e.has = f.has
    BY <2>1, EntriesAge
  <2>3. QED
    BY <2>1, <2>2 DEF Aged
<1>4. QED
  BY <1>2, <1>3

(* Rows and readers stay, entries age, and where a key is no longer to be  *)
(* deleted, what is still there is raced.                                  *)
LEMMA Ageing ==
    ASSUME IndInv, CacheInv, UNCHANGED <<row, view, allowed, rd>>, Aged, NoLeftovers',
           \A k \in Key : Pending(k) => Pending(k)' \/ \A e \in cache'[k] : e.raced
    PROVE  CacheInv'
<1>1. \A k \in Key, ids \in SUBSET League : Content(k, ids)' = Content(k, ids)
  BY DEF Content, Exists
<1>2. Found'
  BY DEF CacheInv, Found, Aged, Key
<1>3. Reading'
  <2>1. \A r \in Reader : rd[r] \in Reads
    BY DEF IndInv, TypeOK, Reads
  <2>2. allowed' = allowed /\ allowed \in SUBSET League /\ rd' = rd
    BY DEF IndInv, TypeOK
  <2>3. \A r \in Reader : Content(rd'[r].key, allowed') = Content(rd[r].key, allowed)
    BY <2>1, <2>2
  <2>4. \A r \in Reader : Content(rd[r].key, allowed)' = Content(rd[r].key, allowed)
    BY <1>1, <2>1, <2>2 DEF Reads
  <2>5. QED
    BY <2>2, <2>4 DEF CacheInv, Reading
<1>4. \A k \in Key : Content(k, allowed)' = Content(k, allowed)
  BY <1>1 DEF IndInv, TypeOK
<1>5. StaleIsExplained'
  <2> SUFFICES ASSUME NEW k \in Key, NEW e \in cache'[k], ~e.raced, ~Pending(k)'
               PROVE  e.has = Content(k, allowed)'
    BY DEF StaleIsExplained
  <2>1. ~Pending(k) /\ e \in cache[k]
    BY DEF Aged
  <2>2. e.has = Content(k, allowed)
    BY <2>1 DEF CacheInv, StaleIsExplained
  <2>3. QED
    BY <1>4, <2>2
<1>6. QED
  BY <1>2, <1>3, <1>5 DEF CacheInv

-----------------------------------------------------------------------------
(* A request before its commit.                                            *)
LEMMA RequestMoves ==
    ASSUME IndInv, CacheInv, KeepRows, NEW a \in Admin, NEW r,
           req[a].pc # "drop", req' = [req EXCEPT ![a] = r],
           r.pc # "drop", r.drops = <<>>
    PROVE  CacheInv'
<1>1. UNCHANGED <<row, view, allowed, cache, rd, sync>>
  BY DEF KeepRows, RowVars
<1>2. req'[a] = r /\ \A b \in Admin \ {a} : req'[b] = req[b]
  BY DEF IndInv, TypeOK
<1>3. \A b \in Admin : req'[b].drops = req[b].drops
  BY <1>2 DEF CacheInv, NoLeftovers
<1>4. NoLeftovers'
  BY <1>1, <1>2 DEF CacheInv, NoLeftovers
<1>5. \A k \in Key : Pending(k) => Pending(k)'
  BY <1>1, <1>3 DEF Pending
<1>6. Aged
  BY <1>1 DEF Aged
<1>7. QED
  BY <1>1, <1>4, <1>5, <1>6, Ageing

LEMMA NoRequestDrops == NoRequest.pc = "idle" /\ NoRequest.drops = <<>>
BY DEF NoRequest

LEMMA RequestStepCache ==
    ASSUME IndInv, CacheInv, NEW a \in Admin, NEW l \in League,
           Register(a, l) \/ Allow(a, l) \/ Remove(a, l) \/ Patch(a, l)
    PROVE  CacheInv'
<1>1. PICK pc \in {"ask", "insert", "answered", "commit"},
           what \in {"register", "allow", "remove", "patch"} :
        Request(a, pc, what, l) /\ KeepRows /\ req[a].pc = "idle"
  BY DEF Register, Allow, Remove, Patch
<1> DEFINE r == [NoRequest EXCEPT !.pc = pc, !.what = what, !.of = l]
<1>2. r.pc = pc /\ r.drops = <<>>
  BY DEF NoRequest
<1>3. req' = [req EXCEPT ![a] = r]
  BY <1>1 DEF Request
<1> HIDE DEF r
<1>4. QED
  BY <1>1, <1>2, <1>3, RequestMoves

LEMMA WaitingStepCache ==
    ASSUME IndInv, CacheInv, NEW a \in Admin,
           Offered(a) \/ Insert(a) \/ Close(a) \/ Fail(a)
    PROVE  CacheInv'
<1>1. KeepRows /\ req[a].pc # "drop" /\ req[a] \in Requests /\ req[a].drops = <<>>
  BY DEF Offered, Insert, Close, Fail, CacheInv, NoLeftovers, IndInv, TypeOK, Requests
<1>2. CASE req' = [req EXCEPT ![a] = NoRequest]
  BY <1>1, <1>2, NoRequestDrops, RequestMoves
<1>3. ASSUME NEW n \in Name, req' = [req EXCEPT ![a].pc = "insert", ![a].name = n]
      PROVE  CacheInv'
  <2> DEFINE r == [req[a] EXCEPT !.pc = "insert", !.name = n]
  <2>1. r.pc = "insert" /\ r.drops = <<>> /\ req' = [req EXCEPT ![a] = r]
    BY <1>1, <1>3 DEF Requests
  <2> HIDE DEF r
  <2>2. QED
    BY <1>1, <2>1, RequestMoves
<1>4. CASE req' = [req EXCEPT ![a].pc = "commit"]
  <2> DEFINE r == [req[a] EXCEPT !.pc = "commit"]
  <2>1. r.pc = "commit" /\ r.drops = <<>> /\ req' = [req EXCEPT ![a] = r]
    BY <1>1, <1>4 DEF Requests
  <2> HIDE DEF r
  <2>2. QED
    BY <1>1, <2>1, RequestMoves
<1>5. QED
  BY <1>2, <1>3, <1>4 DEF Offered, Insert, Close, Fail

-----------------------------------------------------------------------------
LEMMA KeysToDrop ==
    ASSUME NEW what, NEW l
    PROVE  LET ds == DropsOf(what, l)
               keys == {ds[i] : i \in 1..Len(ds)}
           IN  Grouped \in keys /\ (what # "allow" => l \in keys)
<1>1. CASE what = "allow"
  <2>1. DropsOf(what, l) = <<Grouped>>
    BY <1>1 DEF DropsOf
  <2>2. <<Grouped>>[1] = Grouped /\ 1 \in 1..Len(<<Grouped>>)
    OBVIOUS
  <2>3. QED
    BY <1>1, <2>1, <2>2
<1>2. CASE what # "allow"
  <2>1. DropsOf(what, l) = <<l, Grouped>>
    BY <1>2 DEF DropsOf
  <2>2. /\ <<l, Grouped>>[1] = l /\ 1 \in 1..Len(<<l, Grouped>>)
        /\ <<l, Grouped>>[2] = Grouped /\ 2 \in 1..Len(<<l, Grouped>>)
    OBVIOUS
  <2>3. QED
    BY <2>1, <2>2
<1>3. QED
  BY <1>1, <1>2

(* A commit changes what is shown of one league.  Its keys are to be       *)
(* deleted, but for the league's own when it is allowed: nothing is cached *)
(* there of a league that is not on the list.                              *)
LEMMA CommitStepCache ==
    ASSUME IndInv, CacheInv, NEW a \in Admin, Commit(a) PROVE CacheInv'
<1>0. PICK l \in League, what \in {"none", "register", "allow", "remove", "patch"} :
        l = req[a].of /\ what = req[a].what
  BY DEF IndInv, TypeOK, Commit, Asks
<1>1. req \in [Admin -> Requests] /\ req[a].pc = "commit"
  BY DEF IndInv, TypeOK, Requests, Commit
<1>2. /\ row' = IF what = "register"
                THEN [row EXCEPT ![l] = [of |-> l, name |-> req[a].name]] ELSE row
      /\ allowed' = IF what = "allow" THEN allowed \cup {l} ELSE allowed
      /\ view' = IF what = "patch" /\ view[l] < MaxView[l]
                 THEN [view EXCEPT ![l] = @ + 1] ELSE view
      /\ req' = [req EXCEPT ![a].pc = "drop", ![a].drops = DropsOf(what, l)]
      /\ rd' = Overtaken
      /\ UNCHANGED <<cache, sync>>
  BY <1>0 DEF Commit
<1>3. /\ req'[a].pc = "drop" /\ req'[a].drops = DropsOf(what, l)
      /\ \A b \in Admin \ {a} : req'[b] = req[b]
  BY <1>1, <1>2 DEF Requests
<1>4. NoLeftovers'
  BY <1>2, <1>3 DEF CacheInv, NoLeftovers
<1>5. Found'
  BY <1>2 DEF CacheInv, Found
<1>6. \A r \in Reader : rd'[r].pc \notin {"idle", "list"} => rd'[r].raced
  <2> SUFFICES ASSUME NEW r \in Reader
               PROVE  rd'[r].pc \notin {"idle", "list"} => rd'[r].raced
    OBVIOUS
  <2>1. rd[r] \in Reads /\ rd'[r] = [rd[r] EXCEPT !.raced = rd[r].pc \notin {"idle", "list"}]
    BY <1>2 DEF IndInv, TypeOK, Reads, Overtaken
  <2>2. rd'[r].pc = rd[r].pc /\ rd'[r].raced = (rd[r].pc \notin {"idle", "list"})
    BY <2>1 DEF Reads
  <2>3. QED
    BY <2>2
<1>7. \A r \in Reader : rd'[r].got = rd[r].got /\ rd'[r].key = rd[r].key
                                               /\ rd'[r].pc = rd[r].pc
  BY <1>2 DEF IndInv, TypeOK, Overtaken
<1>8. Reading'
  BY <1>6, <1>7 DEF CacheInv, Reading
<1>9. \A k \in Key : Pending(k) => Pending(k)'
  <2> SUFFICES ASSUME NEW k \in Key, Pending(k) PROVE Pending(k)'
    OBVIOUS
  <2>1. req[a].drops = <<>>
    BY <1>1 DEF CacheInv, NoLeftovers
  <2>2. k \notin Left(a)
    BY <2>1 DEF Left
  <2>3. \A b \in Admin \ {a} : Left(b)' = Left(b)
    BY <1>3 DEF Left
  <2>4. QED
    BY <1>2, <2>2, <2>3, PendingLeft, PendingLeftNext
<1>10. Left(a)' = {DropsOf(what, l)[i] : i \in 1..Len(DropsOf(what, l))}
  BY <1>3 DEF Left
<1>11. Pending(Grouped)' /\ (what # "allow" => Pending(l)')
  <2>1. Grouped \in Left(a)' /\ (what # "allow" => l \in Left(a)')
    BY <1>10, KeysToDrop
  <2>2. QED
    BY <2>1, PendingLeftNext
<1>12. \A m \in League \ {l} : /\ Exists(m)' = Exists(m) /\ view'[m] = view[m]
                               /\ m \in allowed' <=> m \in allowed
  BY <1>1, <1>2 DEF IndInv, TypeOK, Exists
<1>13. allowed \subseteq League /\ allowed' \subseteq League
  BY <1>1, <1>2 DEF IndInv, TypeOK
<1>14. \A m \in League \ {l} : Content(m, allowed)' = Content(m, allowed)
  <2> SUFFICES ASSUME NEW m \in League \ {l}
               PROVE  Content(m, allowed)' = Content(m, allowed)
    OBVIOUS
  <2>1. Content(m, allowed) = {<<n, view[n]>> : n \in {n \in allowed : Exists(n) /\ n = m}}
    BY <1>13, LeagueAdminAssumption DEF Content
  <2>2. Content(m, allowed)'
          = {<<n, view'[n]>> : n \in {n \in allowed' : Exists(n)' /\ n = m}}
    BY <1>13, LeagueAdminAssumption DEF Content
  <2>3. {n \in allowed' : Exists(n)' /\ n = m} = {n \in allowed : Exists(n) /\ n = m}
    BY <1>12
  <2>4. QED
    BY <1>12, <2>1, <2>2, <2>3
<1>15. ASSUME what = "allow", NEW e \in cache[l], ~e.raced, ~Pending(l)
       PROVE  e.has = Content(l, allowed)'
  <2>1. e.has = Content(l, allowed) /\ e.has # {}
    BY <1>1, <1>15 DEF CacheInv, StaleIsExplained, Found, Key
  <2>2. l \in allowed
    BY <1>1, <1>13, <2>1, LeagueAdminAssumption DEF Content
  <2>3. allowed' = allowed /\ row' = row /\ view' = view
    BY <1>2, <1>15, <2>2
  <2>4. QED
    BY <2>1, <2>3 DEF Content, Exists
<1>16. StaleIsExplained'
  <2> SUFFICES ASSUME NEW k \in Key, NEW e \in cache[k], ~e.raced, ~Pending(k)'
               PROVE  e.has = Content(k, allowed)'
    BY <1>2 DEF StaleIsExplained
  <2>1. ~Pending(k) /\ k \in League
    BY <1>9, <1>11 DEF Key
  <2>2. CASE k = l
    BY <1>11, <1>15, <2>1, <2>2
  <2>3. CASE k # l
    BY <1>14, <2>1, <2>3 DEF CacheInv, StaleIsExplained
  <2>4. QED
    BY <2>2, <2>3
<1>17. QED
  BY <1>4, <1>5, <1>8, <1>16 DEF CacheInv

LEMMA DropStepCache ==
    ASSUME IndInv, CacheInv, NEW a \in Admin, Drop(a) PROVE CacheInv'
<1>1. /\ req \in [Admin -> Requests] /\ req[a].pc = "drop" /\ req[a].drops # <<>>
      /\ UNCHANGED <<row, view, allowed, rd, sync>>
  BY DEF IndInv, TypeOK, Requests, Drop, RowVars
<1>2. PICK drops \in Seq(Key) : drops = req[a].drops /\ drops # <<>>
  BY <1>1 DEF Requests
<1>3. /\ Head(drops) \in Key /\ Tail(drops) \in Seq(Key)
      /\ \A i \in 1..Len(drops) : drops[i] = Head(drops)
            \/ \E j \in 1..Len(Tail(drops)) : Tail(drops)[j] = drops[i]
  <2>1. /\ Head(drops) \in Key /\ Tail(drops) \in Seq(Key) /\ Head(drops) = drops[1]
        /\ Len(Tail(drops)) = Len(drops) - 1 /\ Len(drops) \in Nat
        /\ \A j \in 1..Len(Tail(drops)) : Tail(drops)[j] = drops[j + 1]
    BY <1>2
  <2>2. ASSUME NEW i \in 1..Len(drops), i # 1
        PROVE  i - 1 \in 1..Len(Tail(drops)) /\ Tail(drops)[i - 1] = drops[i]
    <3>1. i - 1 \in 1..Len(Tail(drops))
      BY <2>1, <2>2
    <3>2. Tail(drops)[i - 1] = drops[(i - 1) + 1]
      BY <2>1, <3>1
    <3>3. (i - 1) + 1 = i
      BY <2>1
    <3>4. QED
      BY <3>1, <3>2, <3>3
  <2>3. QED
    BY <2>1, <2>2
<1>4. /\ req'[a].pc = "drop" /\ req'[a].drops = Tail(drops)
      /\ \A b \in Admin \ {a} : req'[b] = req[b]
  <2>1. req' = [req EXCEPT ![a] = [req[a] EXCEPT !.drops = Tail(drops)]]
    BY <1>1, <1>2 DEF Drop
  <2>2. QED
    BY <1>1, <2>1 DEF Requests
<1>5. Aged /\ \A e \in cache'[Head(drops)] : e.raced
  BY <1>2, <1>3, DeletionAges DEF Drop
<1>6. NoLeftovers'
  BY <1>1, <1>4 DEF CacheInv, NoLeftovers
<1>7. ASSUME NEW k \in Key, Pending(k), k # Head(drops) PROVE Pending(k)'
  <2>1. \A b \in Admin \ {a} : Left(b)' = Left(b)
    BY <1>4 DEF Left
  <2>2. Left(a) = {drops[i] : i \in 1..Len(drops)}
    BY <1>2 DEF Left
  <2>3. Left(a)' = {Tail(drops)[i] : i \in 1..Len(Tail(drops))}
    BY <1>4 DEF Left
  <2>4. k \in Left(a) => k \in Left(a)'
    BY <1>3, <1>7, <2>2, <2>3
  <2>5. QED
    BY <1>1, <1>7, <2>1, <2>4, PendingLeft, PendingLeftNext
<1>8. QED
  BY <1>1, <1>5, <1>6, <1>7, Ageing

LEMMA DieStepCache ==
    ASSUME IndInv, CacheInv, NEW a \in Admin, Die(a) PROVE CacheInv'
<1>1. /\ req[a].pc = "drop" /\ req' = [req EXCEPT ![a] = NoRequest]
      /\ cache' = [k \in Key |-> IF k \in Left(a)
                                 THEN {[e EXCEPT !.raced = TRUE] : e \in cache[k]}
                                 ELSE cache[k]]
      /\ UNCHANGED <<row, view, allowed, rd, sync>>
  BY DEF Die, RowVars, Left
<1>2. req'[a] = NoRequest /\ \A b \in Admin \ {a} : req'[b] = req[b]
  BY <1>1 DEF IndInv, TypeOK
<1>3. \A k \in Key : \A e \in cache'[k] :
        /\ k \in Left(a) => e.raced
        /\ \E f \in cache[k] : e.has = f.has /\ (e.raced \/ e = f)
  BY <1>1, EntriesAge
<1>4. Aged
  BY <1>3 DEF Aged
<1>5. NoLeftovers'
  BY <1>1, <1>2, NoRequestDrops DEF CacheInv, NoLeftovers
<1>6. ASSUME NEW k \in Key, Pending(k), k \notin Left(a) PROVE Pending(k)'
  <2>1. \A b \in Admin \ {a} : Left(b)' = Left(b)
    BY <1>2 DEF Left
  <2>2. QED
    BY <1>1, <1>6, <2>1, PendingLeft, PendingLeftNext
<1>7. QED
  BY <1>1, <1>3, <1>4, <1>5, <1>6, Ageing

LEMMA AnswerStepCache ==
    ASSUME IndInv, CacheInv, NEW a \in Admin, Answer(a) PROVE CacheInv'
<1>1. /\ req[a].drops = <<>> /\ req' = [req EXCEPT ![a] = NoRequest]
      /\ UNCHANGED <<row, view, allowed, cache, rd, sync>>
  BY DEF Answer, RowVars
<1>2. req'[a] = NoRequest /\ \A b \in Admin \ {a} : req'[b] = req[b]
  BY <1>1 DEF IndInv, TypeOK
<1>3. \A b \in Admin : req'[b].drops = req[b].drops
  BY <1>1, <1>2, NoRequestDrops
<1>4. NoLeftovers'
  BY <1>1, <1>2, NoRequestDrops DEF CacheInv, NoLeftovers
<1>5. \A k \in Key : Pending(k) => Pending(k)'
  BY <1>1, <1>3 DEF Pending
<1>6. Aged
  BY <1>1 DEF Aged
<1>7. QED
  BY <1>1, <1>4, <1>5, <1>6, Ageing

-----------------------------------------------------------------------------
(* Readers: what is read is what is there, unless a commit comes between.  *)
LEMMA Fields ==
    ASSUME IndInv, NEW r \in Reader, NEW x, rd' = [rd EXCEPT ![r] = x]
    PROVE  rd'[r] = x /\ \A q \in Reader \ {r} : rd'[q] = rd[q]
BY DEF IndInv, TypeOK

LEMMA ContentStays ==
    UNCHANGED <<row, view, allowed>> =>
        \A k : Content(k, allowed)' = Content(k, allowed)
BY DEF Content, Exists

LEMMA ReaderMoves ==
    ASSUME IndInv, CacheInv, UNCHANGED <<row, view, allowed, cache, req, sync>>,
           NEW r \in Reader, NEW x, rd' = [rd EXCEPT ![r] = x],
           x.pc \in {"look", "query"} => x.raced \/ x.ids = allowed,
           x.pc = "fill" => /\ x.raced \/ x.got = Content(x.key, allowed)
                            /\ x.key # Grouped => x.got # {}
    PROVE  CacheInv'
<1>1. NoLeftovers' /\ Found'
  BY DEF CacheInv, NoLeftovers, Found
<1>2. \A k : Content(k, allowed)' = Content(k, allowed)
  BY ContentStays
<1>3. StaleIsExplained'
  <2>1. \A k \in Key : Pending(k)' <=> Pending(k)
    BY DEF Pending
  <2>2. QED
    BY <1>2, <2>1 DEF CacheInv, StaleIsExplained
<1>4. Reading'
  <2> SUFFICES ASSUME NEW q \in Reader
               PROVE  /\ rd'[q].pc \in {"look", "query"} =>
                            rd'[q].raced \/ rd'[q].ids = allowed'
                      /\ rd'[q].pc = "fill" =>
                            /\ rd'[q].raced \/ rd'[q].got = Content(rd[q].key, allowed)'
                            /\ rd'[q].key # Grouped => rd'[q].got # {}
    BY DEF Reading
  <2>1. CASE q = r
    <3>1. rd'[q] = x
      BY <2>1, Fields
    <3>2. Content(rd[q].key, allowed)' = Content(x.key, allowed)
      BY <3>1 DEF Content, Exists
    <3>3. QED
      BY <3>1, <3>2
  <2>2. CASE q # r
    <3>1. rd'[q] = rd[q]
      BY <2>2, Fields
    <3>2. Content(rd[q].key, allowed)' = Content(rd[q].key, allowed)
      BY <3>1 DEF Content, Exists
    <3>3. QED
      BY <3>1, <3>2 DEF CacheInv, Reading
  <2>3. QED
    BY <2>1, <2>2
<1>5. QED
  BY <1>1, <1>3, <1>4 DEF CacheInv

LEMMA NotReadingPc == NotReading.pc = "idle"
BY DEF NotReading

LEMMA LookStepCache ==
    ASSUME IndInv, CacheInv, NEW r \in Reader,
           List(r) \/ LookGrouped(r) \/ (\E k \in Asked : Look(r, k)) \/ ListAllowed(r)
    PROVE  CacheInv'
<1>1. /\ rd \in [Reader -> Reads] /\ rd[r] \in Reads
      /\ UNCHANGED <<row, view, allowed, cache, req, sync>>
  BY DEF List, LookGrouped, Look, ListAllowed, KeepReaders, RowVars, IndInv, TypeOK, Reads
<1>2. CASE List(r)
  <2> DEFINE x == [NotReading EXCEPT !.pc = "look", !.ids = allowed]
  <2>1. x.pc = "look" /\ x.ids = allowed /\ rd' = [rd EXCEPT ![r] = x]
    BY <1>2 DEF List, NotReading
  <2> HIDE DEF x
  <2>2. QED
    BY <1>1, <2>1, ReaderMoves
<1>3. CASE LookGrouped(r)
  <2> DEFINE x == [rd[r] EXCEPT !.pc = "query"]
  <2>1. x.pc = "query" /\ x.ids = rd[r].ids /\ x.raced = rd[r].raced
    BY <1>1 DEF Reads
  <2>2. rd[r].raced \/ rd[r].ids = allowed
    BY <1>3 DEF LookGrouped, CacheInv, Reading
  <2>3. rd' = [rd EXCEPT ![r] = NotReading] \/ rd' = [rd EXCEPT ![r] = x]
    BY <1>1, <1>3 DEF LookGrouped
  <2> HIDE DEF x
  <2>4. QED
    BY <1>1, <2>1, <2>2, <2>3, NotReadingPc, ReaderMoves
<1>4. ASSUME NEW k \in Asked, Look(r, k) PROVE CacheInv'
  <2> DEFINE x == [NotReading EXCEPT !.pc = "list", !.key = k]
  <2>1. x.pc = "list" /\ rd' = [rd EXCEPT ![r] = x]
    BY <1>4 DEF Look, NotReading
  <2> HIDE DEF x
  <2>2. QED
    BY <1>1, <2>1, ReaderMoves
<1>5. CASE ListAllowed(r)
  <2> DEFINE x == [rd[r] EXCEPT !.pc = "query", !.ids = allowed]
  <2>1. x.pc = "query" /\ x.ids = allowed /\ rd' = [rd EXCEPT ![r] = x]
    BY <1>1, <1>5 DEF ListAllowed, Reads
  <2> HIDE DEF x
  <2>2. QED
    BY <1>1, <2>1, ReaderMoves
<1>6. QED
  BY <1>2, <1>3, <1>4, <1>5

LEMMA QueryStepCache ==
    ASSUME IndInv, CacheInv, NEW r \in Reader, Query(r) PROVE CacheInv'
<1> DEFINE got == Content(rd[r].key, rd[r].ids)
           x == [rd[r] EXCEPT !.pc = "fill", !.got = got]
<1>1. /\ rd[r] \in Reads /\ rd[r].pc = "query"
      /\ UNCHANGED <<row, view, allowed, cache, req, sync>>
  BY DEF IndInv, TypeOK, Reads, Query, KeepReaders, RowVars
<1>2. CASE rd' = [rd EXCEPT ![r] = NotReading]
  BY <1>1, <1>2, NotReadingPc, ReaderMoves
<1>3. CASE rd' = [rd EXCEPT ![r].pc = "fill", ![r].got = got]
           /\ ~(got = {} /\ rd[r].key # Grouped)
  <2>1. /\ x.pc = "fill" /\ x.got = got /\ x.key = rd[r].key /\ x.raced = rd[r].raced
        /\ rd' = [rd EXCEPT ![r] = x]
    BY <1>1, <1>3 DEF Reads
  <2>2. rd[r].raced \/ rd[r].ids = allowed
    BY <1>1 DEF CacheInv, Reading
  <2>3. x.raced \/ x.got = Content(x.key, allowed)
    BY <2>1, <2>2
  <2>4. x.key # Grouped => x.got # {}
    BY <1>3, <2>1
  <2> HIDE DEF x
  <2>5. QED
    BY <1>1, <2>1, <2>3, <2>4, ReaderMoves
<1>4. QED
  BY <1>2, <1>3 DEF Query

LEMMA FillStepCache ==
    ASSUME IndInv, CacheInv, NEW r \in Reader, Fill(r) PROVE CacheInv'
<1> DEFINE e == [has |-> rd[r].got, raced |-> rd[r].raced]
           k == rd[r].key
<1>1. /\ rd[r].pc = "fill" /\ k \in Key
      /\ rd' = [rd EXCEPT ![r] = NotReading]
      /\ UNCHANGED <<row, view, allowed, req, sync>>
  BY DEF IndInv, TypeOK, Fill, RowVars
<1>2. cache'[k] = {e} /\ \A j \in Key \ {k} : cache'[j] = cache[j]
  BY <1>1 DEF Fill, IndInv, TypeOK
<1>3. /\ e.raced \/ e.has = Content(k, allowed)
      /\ k # Grouped => e.has # {}
  BY <1>1 DEF CacheInv, Reading
<1>4. NoLeftovers'
  BY <1>1 DEF CacheInv, NoLeftovers
<1>5. Found'
  <2> SUFFICES ASSUME NEW l \in League, NEW f \in cache'[l] PROVE f.has # {}
    BY DEF Found
  <2>1. CASE l = k
    BY <1>2, <1>3, <2>1, LeagueAdminAssumption
  <2>2. CASE l # k
    BY <1>2, <2>2 DEF CacheInv, Found, Key
  <2>3. QED
    BY <2>1, <2>2
<1>6. StaleIsExplained'
  <2> SUFFICES ASSUME NEW j \in Key, NEW f \in cache'[j]
               PROVE  f.raced \/ Pending(j)' \/ f.has = Content(j, allowed)'
    BY DEF StaleIsExplained
  <2>1. Content(j, allowed)' = Content(j, allowed)
    BY <1>1, ContentStays
  <2>2. Pending(j)' <=> Pending(j)
    BY <1>1 DEF Pending
  <2>3. CASE j = k
    BY <1>2, <1>3, <2>1, <2>3
  <2>4. CASE j # k
    BY <1>2, <2>1, <2>2, <2>4 DEF CacheInv, StaleIsExplained
  <2>5. QED
    BY <2>3, <2>4
<1>7. Reading'
  <2> SUFFICES ASSUME NEW q \in Reader
               PROVE  /\ rd'[q].pc \in {"look", "query"} =>
                            rd'[q].raced \/ rd'[q].ids = allowed'
                      /\ rd'[q].pc = "fill" =>
                            /\ rd'[q].raced \/ rd'[q].got = Content(rd[q].key, allowed)'
                            /\ rd'[q].key # Grouped => rd'[q].got # {}
    BY DEF Reading
  <2>1. CASE q = r
    <3>1. rd'[q].pc = "idle"
      BY <1>1, <2>1, Fields, NotReadingPc
    <3>2. QED
      BY <3>1
  <2>2. CASE q # r
    <3>1. rd'[q] = rd[q]
      BY <1>1, <2>2, Fields
    <3>2. Content(rd[q].key, allowed)' = Content(rd[q].key, allowed)
      BY <1>1, <3>1 DEF Content, Exists
    <3>3. QED
      BY <1>1, <3>1, <3>2 DEF CacheInv, Reading
  <2>3. QED
    BY <2>1, <2>2
<1>8. QED
  BY <1>4, <1>5, <1>6, <1>7 DEF CacheInv

LEMMA ExpireStepCache ==
    ASSUME IndInv, CacheInv, NEW k \in Key, Expire(k) PROVE CacheInv'
<1>1. UNCHANGED <<row, view, allowed, req, rd, sync>>
  BY DEF Expire, RowVars
<1>2. NoLeftovers' /\ \A j \in Key : Pending(j) => Pending(j)'
  BY <1>1 DEF CacheInv, NoLeftovers, Pending
<1>3. Aged
  BY DeletionAges DEF Expire
<1>4. QED
  BY <1>1, <1>2, <1>3, Ageing

-----------------------------------------------------------------------------
LEMMA SyncStepCache ==
    ASSUME IndInv, CacheInv, Begin \/ SyncCommit \/ SyncFail PROVE CacheInv'
<1>1. UNCHANGED <<row, view, allowed, req, rd, cache>>
  BY DEF Begin, SyncCommit, SyncFail, KeepAdmins, RowVars
<1>2. sync.pc # "drop" /\ sync.drops = {}
  BY DEF Begin, SyncCommit, SyncFail, CacheInv, NoLeftovers
<1>3. sync'.pc # "drop" => sync'.drops = {}
  <2>1. CASE Begin
    BY <1>2, <2>1 DEF Begin, IndInv, TypeOK
  <2>2. CASE SyncCommit
    <3>1. sync' = [pc |-> "drop", todo |-> {}, drops |-> sync.todo \cup {Grouped}]
      BY <2>2 DEF SyncCommit
    <3>2. QED
      BY <3>1
  <2>3. CASE SyncFail
    BY <2>3 DEF SyncFail, NotSyncing
  <2>4. QED
    BY <2>1, <2>2, <2>3
<1>4. NoLeftovers' /\ \A k \in Key : Pending(k) => Pending(k)'
  BY <1>1, <1>2, <1>3 DEF CacheInv, NoLeftovers, Pending
<1>5. Aged
  BY <1>1 DEF Aged
<1>6. QED
  BY <1>1, <1>4, <1>5, Ageing

LEMMA SyncDropStepCache ==
    ASSUME IndInv, CacheInv, NEW k \in Key, SyncDrop(k) PROVE CacheInv'
<1>1. UNCHANGED <<row, view, allowed, req, rd>>
  BY DEF SyncDrop, KeepAdmins, RowVars
<1>2. Aged /\ \A e \in cache'[k] : e.raced
  BY DeletionAges DEF SyncDrop
<1>3. /\ sync'.drops = sync.drops \ {k}
      /\ sync'.pc # "drop" => sync'.drops = {}
  BY DEF SyncDrop, NotSyncing, IndInv, TypeOK
<1>4. NoLeftovers'
  BY <1>1, <1>3 DEF CacheInv, NoLeftovers
<1>5. \A j \in Key \ {k} : Pending(j) => Pending(j)'
  BY <1>1, <1>3 DEF Pending
<1>6. QED
  BY <1>1, <1>2, <1>4, <1>5, Ageing

LEMMA InitCache == Init => CacheInv
BY DEF Init, CacheInv, NoLeftovers, Found, Reading, StaleIsExplained, NoRequest,
       NotReading, NotSyncing, Key

LEMMA NextCache == IndInv /\ CacheInv /\ [Next]_vars => CacheInv'
<1> SUFFICES ASSUME IndInv, CacheInv, [Next]_vars PROVE CacheInv'
  OBVIOUS
<1>1. CASE UNCHANGED vars
  <2>1. UNCHANGED <<row, view, allowed, cache, req, rd, sync>>
    BY <1>1 DEF vars
  <2>2. NoLeftovers' /\ (\A k \in Key : Pending(k) => Pending(k)') /\ Aged
    BY <2>1 DEF CacheInv, NoLeftovers, Pending, Aged
  <2>3. QED
    BY <2>1, <2>2, Ageing
<1>2. ASSUME NEW a \in Admin, NEW l \in League,
             Register(a, l) \/ Allow(a, l) \/ Remove(a, l) \/ Patch(a, l)
      PROVE  CacheInv'
  BY <1>2, RequestStepCache
<1>3. ASSUME NEW a \in Admin,
             \/ Offered(a) \/ Insert(a) \/ Close(a) \/ Commit(a) \/ Drop(a)
             \/ Answer(a) \/ Fail(a) \/ Die(a)
      PROVE  CacheInv'
  BY <1>3, WaitingStepCache, CommitStepCache, DropStepCache, AnswerStepCache, DieStepCache
<1>4. ASSUME NEW r \in Reader, List(r) \/ LookGrouped(r) \/ (\E k \in Asked : Look(r, k))
             \/ ListAllowed(r) \/ Query(r) \/ Fill(r)
      PROVE  CacheInv'
  BY <1>4, LookStepCache, QueryStepCache, FillStepCache
<1>5. ASSUME NEW k \in Key, Expire(k) \/ SyncDrop(k) PROVE CacheInv'
  BY <1>5, ExpireStepCache, SyncDropStepCache
<1>6. QED
  BY <1>1, <1>2, <1>3, <1>4, <1>5, SyncStepCache DEF Next

(* A cached answer that shows something else than the committed leagues    *)
(* has its key still to be deleted, was stored by a reader whom a commit   *)
(* overtook, or outlived a deletion that failed (admin_leagues.py deletes  *)
(* after each commit; cache_delete swallows errors; leagues.py fills).     *)
THEOREM StaleIsExplainedHolds == Spec => []StaleIsExplained
<1>1. Init => CacheInv
  BY InitCache
<1>2. IndInv /\ CacheInv /\ [Next]_vars => CacheInv'
  BY NextCache
<1>3. CacheInv => StaleIsExplained
  BY DEF CacheInv
<1>4. QED
  BY <1>1, <1>2, <1>3, IndInvHolds, PTL DEF Spec
=============================================================================
