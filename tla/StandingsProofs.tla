---------------------------- MODULE StandingsProofs ----------------------------
(***************************************************************************)
(* Proofs about Standings: a table holds the rows of one answer wherever a *)
(* job or route wrote them, with their facts, and moves forward only; the  *)
(* flag of a replica is explained by its prewarms.  For any number of      *)
(* replicas, jobs, routes, prewarms, teams and versions of the table.      *)
(***************************************************************************)
EXTENDS Standings, TLAPS

-----------------------------------------------------------------------------
(* The inductive invariant.                                                *)

Writing == {"clear", "upsert", "project", "decide", "commit"}

\* A sync holds the lock from its acquisition to the end of its writes (a job
\* or route to the end of its transaction), and no two syncs hold it.
Locked ==
    /\ \A s \in Syncer : job[s].pc \in {"look", "ask"} \cup Writing => guard[s] # {}
    /\ \A s, x \in Syncer : guard[s] # {} /\ guard[x] # {} => s = x

\* Which syncs come to which step.
Placed ==
    /\ \A d \in Daily : job[d].pc \notin {"commit", "undo"}
    /\ \A s \in Direct : job[s].pc \notin {"flagged", "look", "restore", "open"}

\* What a sync has deleted and written at each of its steps.
Shaped ==
    \A s \in Syncer :
        /\ job[s].pc \in {"idle", "flagged", "look", "ask", "clear", "purge"} =>
              job[s].drop = {} /\ job[s].put = {}
        /\ job[s].pc = "upsert" => job[s].put = {}
        /\ job[s].pc \notin {"decide", "commit", "restore", "open"} =>
              job[s].gone = {} /\ job[s].filed = {}
        /\ job[s].pc \in {"project", "decide", "commit"} => job[s].put = Named(s)
        /\ job[s].pc \in {"decide", "commit"} => job[s].filed = Teams(s)
        /\ job[s].pc \in Writing => job[s].ver # 0
        /\ job[s].put # {} => job[s].ver # 0

\* Two open transactions never hold rows or facts of one team.
Apart ==
    \A s, x \in Syncer : s # x => Held(s) \cap Held(x) = {}

\* No row or fact is ahead of the provider; a sync that has the lock and has
\* fetched is behind no row and no other sync; what a sync overwrites is older.
InOrder ==
    /\ \A t \in Team : rows[t] <= latest
    /\ \A s \in Syncer : job[s].ver <= latest
    /\ \A s \in Syncer : job[s].pc \in Writing =>
          /\ \A t \in Team : rows[t] <= job[s].ver
          /\ \A x \in Syncer : job[x].ver <= job[s].ver
    /\ \A s \in Syncer : \A t \in job[s].put : rows[t] <= job[s].ver

\* A job or route replaces every row a job or route stored.
Replacing ==
    \A s \in Direct : job[s].pc \in {"upsert", "project", "decide", "commit"} =>
        own \subseteq job[s].drop \cup Named(s)

\* A prewarm that writes has found no rows, and until it commits those that
\* jobs and routes store are none that it holds.
Harmless ==
    \A d \in Daily :
        /\ job[d].pc \in {"ask"} \cup Writing => own = {}
        /\ own \cap Held(d) = {}

\* While no two prewarms have run at once in a replica, its flag is set exactly
\* by the one that runs, which found it clear.
FlagOfOne ==
    \A p \in Replica : ~overlap[p] =>
        /\ \A d, e \in Prewarming(p) : d = e
        /\ \A d \in Prewarming(p) : ~job[d].saved
        /\ defer[p] => Prewarming(p) # {}

\* A job or route that met no prewarm runs under a clear flag and its clear copy.
Untouched ==
    \A s \in Direct :
        /\ job[s].pc \in {"ask"} \cup Writing /\ ~job[s].touched =>
              ~defer[Home[s]] /\ ~copied[Home[s]] /\ Prewarming(Home[s]) = {}
        /\ job[s].pc = "commit" /\ ~job[s].keyed => job[s].touched

IndInv ==
    /\ TypeOK /\ Locked /\ Placed /\ Shaped /\ Apart /\ InOrder /\ Replacing
    /\ Harmless /\ FlagOfOne /\ Untouched /\ MixedOnlyByPrewarm
    /\ FactsFollowOwnRows

-----------------------------------------------------------------------------
(* What a step does to locks, steps, writes and table.                     *)

Kept(x) ==
    /\ job'[x].ver = job[x].ver
    /\ job'[x].drop = job[x].drop /\ job'[x].put = job[x].put
    /\ job'[x].gone = job[x].gone /\ job'[x].filed = job[x].filed

Same(x) == Kept(x) /\ job'[x].pc = job[x].pc /\ guard'[x] = guard[x]
Alone(s) == \A x \in Syncer \ {s} : Same(x)

Quiet ==
    /\ \A x \in Syncer : Same(x)
    /\ latest <= latest' /\ \A v \in 1..latest : answers'[v] = answers[v]
    /\ UNCHANGED table

\* Only s moves, and keeps what it has written.
Move(s, from, to) ==
    /\ Alone(s) /\ Kept(s) /\ job[s].pc \in from /\ job'[s].pc = to
    /\ UNCHANGED <<provider, table>>

Takes(s) ==
    /\ \A x \in Syncer : guard[x] = {}
    /\ guard'[s] # {}
    /\ \/ s \in Direct /\ Move(s, {"idle"}, "ask")
       \/ s \in Daily /\ Move(s, {"flagged"}, "look")

Goes(s) ==
    /\ guard'[s] = guard[s]
    /\ \/ s \in Daily /\ Move(s, {"idle"}, "flagged")
       \/ s \in Daily /\ Move(s, {"look"}, "ask") /\ \A t \in Team : rows[t] = 0
       \/ s \in Daily /\ Move(s, {"restore"}, "open")
       \/ s \in Direct /\ Move(s, {"decide"}, "commit")
       \/ s \in Direct /\ Move(s, {"ask", "project"}, "undo")

Leaves(s) ==
    /\ guard'[s] = {}
    /\ \/ s \in Daily /\ Move(s, {"flagged", "look", "ask", "project", "decide"},
                                "restore")
       \/ s \in Direct /\ Move(s, {"undo"}, "undo")

Fetches(s) ==
    /\ Alone(s) /\ guard'[s] = guard[s] /\ UNCHANGED <<provider, table>>
    /\ job[s].pc = "ask" /\ job'[s].pc = "clear"
    /\ job'[s].ver = latest
    /\ job'[s].drop = job[s].drop /\ job'[s].put = job[s].put
    /\ job'[s].gone = job[s].gone /\ job'[s].filed = job[s].filed

\* Clear, Upsert or Project: s holds more rows, or facts, that were free.
Writes(s) ==
    /\ Alone(s) /\ guard'[s] = guard[s] /\ UNCHANGED <<provider, table>>
    /\ job'[s].ver = job[s].ver
    /\ \/ /\ job[s].pc = "clear" /\ job'[s].pc = "upsert"
          /\ job'[s].drop = {t \in Team : rows[t] # 0} \ Named(s)
          /\ job'[s].put = job[s].put
          /\ job'[s].gone = job[s].gone /\ job'[s].filed = job[s].filed
          /\ Free(s, job'[s].drop)
       \/ /\ job[s].pc = "upsert" /\ job'[s].pc = "project"
          /\ job'[s].drop = job[s].drop /\ job'[s].put = Named(s)
          /\ job'[s].gone = job[s].gone /\ job'[s].filed = job[s].filed
          /\ Free(s, Named(s))
       \/ /\ job[s].pc = "project" /\ job'[s].pc = "decide"
          /\ job'[s].drop = job[s].drop /\ job'[s].put = job[s].put
          /\ job'[s].gone = {t \in Team : facts[t] # 0}
          /\ job'[s].filed = Teams(s)
          /\ Free(s, job'[s].gone \cup Teams(s))

Fails(s) ==
    /\ Alone(s) /\ UNCHANGED <<provider, table>>
    /\ job[s].pc \in {"clear", "upsert", "project"}
    /\ \/ s \in Direct /\ job'[s].pc = "undo" /\ guard'[s] = guard[s]
       \/ s \in Daily /\ job'[s].pc = "restore" /\ guard'[s] = {}
    /\ job'[s].ver = 0 /\ job'[s].drop = {} /\ job'[s].put = {}
    /\ job'[s].gone = job[s].gone /\ job'[s].filed = job[s].filed

Blank(x) ==
    /\ job'[x].pc \in {"idle", "purge"} /\ job'[x].ver = 0 /\ job'[x].drop = {}
    /\ job'[x].put = {} /\ job'[x].gone = {} /\ job'[x].filed = {}

Commits(s) ==
    /\ Alone(s) /\ Blank(s) /\ guard'[s] = {} /\ UNCHANGED provider
    /\ job[s].pc = IF s \in Daily THEN "open" ELSE "commit"
    /\ rows' = RowsAfter(s) /\ facts' = FactsAfter(s) /\ own' = OwnAfter(s)

\* Rollback, Purge or Crash: these syncs are idle, nothing of them is stored.
Ends ==
    /\ \A x \in Syncer : Same(x) \/ (Blank(x) /\ guard'[x] \in {{}, guard[x]})
    /\ UNCHANGED <<provider, table>>

Effect(s) ==
    \/ Takes(s) \/ Goes(s) \/ Leaves(s) \/ Fetches(s) \/ Writes(s) \/ Fails(s)
    \/ Commits(s)

LEMMA Effects ==
    ASSUME TypeOK, Placed, [Next]_vars
    PROVE  Quiet \/ Ends \/ \E s \in Syncer : Effect(s)
<1> USE StandingsAssumption DEF TypeOK, JobType, Syncer, Alone, Same, Kept
<1>1. CASE ProviderChanges
  <2>1. latest <= latest' /\ \A v \in 1..latest : answers'[v] = answers[v]
    BY <1>1 DEF ProviderChanges, Version
  <2>2. QED
    BY <1>1, <2>1 DEF ProviderChanges, Quiet, table
<1>2. ASSUME UNCHANGED <<provider, table, guard, job>> PROVE Quiet
  BY <1>2 DEF Quiet, provider, table, Version
<1>3. ASSUME NEW s \in Direct, BeginDirect(s) PROVE Takes(s)
  BY <1>3 DEF BeginDirect, Takes, Move, Mutex!Enter
<1>4. ASSUME NEW d \in Daily, SetFlag(d) PROVE Goes(d)
  <2>1. /\ job[d].pc = "idle" /\ guard' = guard /\ UNCHANGED <<provider, table>>
        /\ job'[d] = [job[d] EXCEPT !.pc = "flagged", !.saved = defer[Home[d]]]
        /\ \A x \in Syncer \ {d} :
              job'[x] = job[x] \/ job'[x] = [job[x] EXCEPT !.touched = TRUE]
    BY <1>4 DEF SetFlag
  <2>2. /\ job'[d].pc = "flagged" /\ Kept(d)
    BY <2>1
  <2>3. ASSUME NEW x \in Syncer \ {d} PROVE Same(x)
    <3>1. CASE job'[x] = job[x]
      BY <2>1, <3>1
    <3>2. CASE job'[x] = [job[x] EXCEPT !.touched = TRUE]
      <4>1. job[x] \in JobType
        OBVIOUS
      <4>2. QED
        BY <2>1, <3>2, <4>1
    <3>3. QED
      BY <2>1, <3>1, <3>2
  <2>4. QED
    BY <2>1, <2>2, <2>3 DEF Goes, Move
<1>5. ASSUME NEW d \in Daily, BeginPrewarm(d) PROVE Takes(d)
  BY <1>5 DEF BeginPrewarm, Takes, Move, Mutex!Enter
<1>6. ASSUME NEW d \in Daily, SkipPrewarm(d) PROVE Leaves(d)
  BY <1>6 DEF SkipPrewarm, Leaves, Move, Unguard
<1>7. ASSUME NEW d \in Daily, Look(d) \/ Restore(d) PROVE Goes(d)
  BY <1>7 DEF Look, Restore, Goes, Move
<1>8. ASSUME NEW s \in Syncer, Fetch(s) PROVE Fetches(s)
  BY <1>8 DEF Fetch, Fetches
<1>9. ASSUME NEW s \in Syncer, Clear(s) PROVE Writes(s)
  BY <1>9 DEF Clear, Writes
<1>10. ASSUME NEW s \in Syncer, Upsert(s) PROVE Writes(s)
  BY <1>10 DEF Upsert, Writes
<1>11. ASSUME NEW s \in Syncer, Project(s) PROVE Writes(s)
  <2> DEFINE present == {t \in Team : facts[t] # 0}
  <2>1. /\ job[s].pc = "project" /\ guard' = guard /\ UNCHANGED <<provider, table>>
        /\ Free(s, present \cup Teams(s))
        /\ job' = [job EXCEPT ![s].pc = "decide", ![s].gone = present,
                              ![s].filed = Teams(s)]
    BY <1>11 DEF Project
  <2> HIDE DEF present
  <2>2. /\ job'[s].pc = "decide" /\ job'[s].gone = present
        /\ job'[s].filed = Teams(s)
        /\ job'[s].ver = job[s].ver
        /\ job'[s].drop = job[s].drop /\ job'[s].put = job[s].put
        /\ guard'[s] = guard[s] /\ Alone(s)
    BY <2>1
  <2>3. QED
    BY <2>1, <2>2 DEF Writes, present
<1>12. ASSUME NEW s \in Syncer, Decide(s) PROVE Goes(s) \/ Leaves(s)
  BY <1>12 DEF Decide, Goes, Leaves, Move, Unguard
<1>13. ASSUME NEW s \in Syncer, Rejected(s) PROVE Goes(s) \/ Leaves(s)
  BY <1>13 DEF Rejected, Goes, Leaves, Move, Unguard
<1>14. ASSUME NEW s \in Syncer, StatementFails(s) PROVE Fails(s)
  BY <1>14 DEF StatementFails, Fails, Unguard
<1>15. ASSUME NEW s \in Syncer, Commit(s) PROVE Commits(s)
  BY <1>15 DEF Commit, Commits, Unguard, Blank, Idle
<1>16. ASSUME NEW s \in Syncer, Unlock(s) PROVE Leaves(s)
  BY <1>16 DEF Unlock, Leaves, Move, Unguard, Placed
<1>17. ASSUME NEW s \in Syncer, Rollback(s) PROVE Ends
  BY <1>17 DEF Rollback, Ends, Unguard, Blank, Idle
<1>18. ASSUME NEW s \in Syncer, Purge(s) PROVE Ends
  BY <1>18 DEF Purge, Ends, Blank, Idle
<1>19. ASSUME NEW p \in Replica, Crash(p) PROVE Ends
  BY <1>19 DEF Crash, Ends, Blank, Idle
<1>20. CASE Expire \/ \E r \in Reader : Load(r) \/ Fill(r)
  BY <1>2, <1>20 DEF Expire, Load, Fill
<1>21. CASE UNCHANGED vars
  BY <1>2, <1>21 DEF vars, provider, table
<1>22. QED
  BY <1>1, <1>3, <1>4, <1>5, <1>6, <1>7, <1>8, <1>9, <1>10, <1>11, <1>12, <1>13,
     <1>14, <1>15, <1>16, <1>17, <1>18, <1>19, <1>20, <1>21
  DEF Next, Prewarm, Sync, Effect

-----------------------------------------------------------------------------
(* Types.                                                                  *)

LEMMA AfterTypes ==
    ASSUME TypeOK, NEW s \in Syncer
    PROVE  /\ RowsAfter(s) \in [Team -> 0..MaxVersion]
           /\ FactsAfter(s) \in [Team -> 0..MaxVersion]
           /\ OwnAfter(s) \in SUBSET Team
<1>1. job[s].ver \in 0..MaxVersion /\ job[s].put \subseteq Team
  BY DEF TypeOK, JobType
<1>2. 0 \in 0..MaxVersion
  BY StandingsAssumption
<1>3. RowsAfter(s) \in [Team -> 0..MaxVersion]
  BY <1>1, <1>2 DEF RowsAfter, TypeOK
<1>4. FactsAfter(s) \in [Team -> 0..MaxVersion]
  BY <1>1, <1>2 DEF FactsAfter, TypeOK
<1>5. OwnAfter(s) \in SUBSET Team
  BY <1>1 DEF OwnAfter, TypeOK
<1>6. QED
  BY <1>3, <1>4, <1>5

\* A job with one field changed is a job.
LEMMA JobFields ==
    ASSUME NEW j \in JobType
    PROVE  /\ \A pc \in Label : [j EXCEPT !.pc = pc] \in JobType
           /\ \A v \in 0..MaxVersion : [j EXCEPT !.ver = v] \in JobType
           /\ \A T \in SUBSET Team :
                /\ [j EXCEPT !.drop = T] \in JobType
                /\ [j EXCEPT !.put = T] \in JobType
                /\ [j EXCEPT !.gone = T] \in JobType
                /\ [j EXCEPT !.filed = T] \in JobType
           /\ \A b \in BOOLEAN :
                /\ [j EXCEPT !.sound = b] \in JobType
                /\ [j EXCEPT !.keyed = b] \in JobType
                /\ [j EXCEPT !.saved = b] \in JobType
                /\ [j EXCEPT !.touched = b] \in JobType
BY DEF JobType

\* What a sync does that has to do with its own job only.
LEMMA OwnMoveType ==
    ASSUME TypeOK, NEW s \in Syncer, NEW j \in JobType,
           job' = [job EXCEPT ![s] = j], guard' \in [Syncer -> SUBSET {"standing"}],
           UNCHANGED <<provider, table, flags, copies>>
    PROVE  TypeOK'
BY DEF TypeOK, provider, table, flags, copies

LEMMA AnswerTypes ==
    ASSUME TypeOK, NEW s \in Syncer, job[s].ver # 0
    PROVE  Named(s) \subseteq Teams(s) /\ Teams(s) \subseteq Team
<1>1. job[s].ver \in Version
  BY DEF TypeOK, JobType, Version
<1>2. answers[job[s].ver] \in Answer
  BY <1>1 DEF TypeOK
<1>3. QED
  BY <1>2, StandingsAssumption DEF Named, Teams, AnswerType

LEMMA TypeStep == ASSUME TypeOK, Shaped, [Next]_vars PROVE TypeOK'
<1>t. /\ job \in [Syncer -> JobType] /\ \A s \in Syncer : job[s] \in JobType
      /\ guard \in [Syncer -> SUBSET {"standing"}]
      /\ defer \in [Replica -> BOOLEAN] /\ copied \in [Replica -> BOOLEAN]
      /\ overlap \in [Replica -> BOOLEAN]
  BY DEF TypeOK
<1>h. \A s \in Syncer : Home[s] \in Replica
  BY StandingsAssumption
<1>s. Direct \subseteq Syncer /\ Daily \subseteq Syncer
  BY DEF Syncer
<1>v. latest \in 0..MaxVersion /\ 0 \in 0..MaxVersion
  BY StandingsAssumption DEF TypeOK, Version
<1>g. ASSUME NEW s \in Syncer, Unguard(s) \/ UNCHANGED guard
      PROVE  guard' \in [Syncer -> SUBSET {"standing"}]
  BY <1>g, <1>t DEF Unguard
<1>m. ASSUME NEW s \in Syncer, Mutex!Enter(s, "standing")
      PROVE  guard' \in [Syncer -> SUBSET {"standing"}]
  BY <1>m, <1>t DEF Mutex!Enter
<1>f. ASSUME NEW s \in Syncer, CopyFlag(Home[s])
      PROVE  copied' \in [Replica -> BOOLEAN]
  BY <1>f, <1>t, <1>h DEF CopyFlag
<1>1. CASE ProviderChanges
  <2>1. latest' \in Version /\ answers' \in [Version -> Answer]
    BY <1>1, StandingsAssumption DEF ProviderChanges, Version, TypeOK
  <2>2. QED
    BY <1>1, <2>1 DEF ProviderChanges, TypeOK, table, flags, copies
<1>2. ASSUME NEW d \in Daily, SetFlag(d) PROVE TypeOK'
  <2>1. d \in Syncer /\ Home[d] \in Replica
    BY <1>s, <1>h
  <2>2. ASSUME NEW s \in Syncer PROVE job'[s] \in JobType
    <3> DEFINE flagged == [job[d] EXCEPT !.pc = "flagged", !.saved = defer[Home[d]]]
               touched == [job[s] EXCEPT !.touched = TRUE]
    <3>0. job'[s] = IF s = d THEN flagged
                    ELSE IF Runs(s, Home[d]) THEN touched ELSE job[s]
      BY <1>2 DEF SetFlag
    <3> HIDE DEF flagged, touched
    <3>1. job'[s] = job[s] \/ job'[s] = touched \/ job'[s] = flagged
      BY <3>0
    <3> USE DEF flagged, touched
    <3>2. "flagged" \in Label /\ defer[Home[d]] \in BOOLEAN
      BY <1>t, <2>1 DEF Label
    <3>3. touched \in JobType
      BY <1>t, JobFields
    <3>4. [job[d] EXCEPT !.pc = "flagged"] \in JobType
      BY <1>t, <2>1, <3>2, JobFields
    <3>5. flagged \in JobType
      BY <3>2, <3>4, JobFields
    <3> HIDE DEF flagged, touched
    <3>6. QED
      BY <3>1, <3>3, <3>5, <1>t
  <2>3. job' \in [Syncer -> JobType]
    BY <1>2, <2>2 DEF SetFlag
  <2>4. defer' \in [Replica -> BOOLEAN] /\ overlap' \in [Replica -> BOOLEAN]
    BY <1>2, <1>t, <2>1 DEF SetFlag
  <2>5. QED
    BY <1>2, <2>3, <2>4 DEF SetFlag, TypeOK, provider, table, copies
<1>3. ASSUME NEW s \in Direct, BeginDirect(s) PROVE TypeOK'
  <2> DEFINE met == defer[Home[s]] \/ Prewarming(Home[s]) # {}
  <2>1. s \in Syncer /\ "ask" \in Label /\ met \in BOOLEAN
    BY <1>s DEF Label
  <2>2. job' = [job EXCEPT ![s] = [job[s] EXCEPT !.pc = "ask", !.touched = met]]
    BY <1>3 DEF BeginDirect
  <2> HIDE DEF met
  <2>3. job' \in [Syncer -> JobType]
    BY <1>t, <2>1, <2>2, JobFields
  <2>4. QED
    BY <1>3, <1>m, <1>f, <2>1, <2>3 DEF BeginDirect, TypeOK, provider, table, copies
<1>4. ASSUME NEW d \in Daily, BeginPrewarm(d) PROVE TypeOK'
  <2>1. d \in Syncer /\ "look" \in Label
    BY <1>s DEF Label
  <2>2. job' = [job EXCEPT ![d] = [job[d] EXCEPT !.pc = "look"]]
    BY <1>4 DEF BeginPrewarm
  <2>3. [job[d] EXCEPT !.pc = "look"] \in JobType
    BY <1>t, <2>1, JobFields
  <2>4. QED
    BY <1>4, <1>m, <2>1, <2>2, <2>3, OwnMoveType DEF BeginPrewarm
<1>5. ASSUME NEW d \in Daily, SkipPrewarm(d) PROVE TypeOK'
  <2>1. d \in Syncer /\ "restore" \in Label
    BY <1>s DEF Label
  <2>2. job' = [job EXCEPT ![d] = [job[d] EXCEPT !.pc = "restore"]]
    BY <1>5 DEF SkipPrewarm
  <2>3. [job[d] EXCEPT !.pc = "restore"] \in JobType
    BY <1>t, <2>1, JobFields
  <2>4. QED
    BY <1>5, <1>g, <2>1, <2>2, <2>3, OwnMoveType DEF SkipPrewarm
<1>6. ASSUME NEW d \in Daily, Look(d) PROVE TypeOK'
  <2>1. d \in Syncer /\ "ask" \in Label
    BY <1>s DEF Label
  <2>2. job' = [job EXCEPT ![d] = [job[d] EXCEPT !.pc = "ask"]]
    BY <1>6 DEF Look
  <2>3. job' \in [Syncer -> JobType]
    BY <1>t, <2>1, <2>2, JobFields
  <2>4. QED
    BY <1>6, <1>f, <2>1, <2>3 DEF Look, TypeOK, provider, table, copies
<1>7. ASSUME NEW s \in Syncer, Fetch(s) PROVE TypeOK'
  <2>1. job' = [job EXCEPT ![s] = [job[s] EXCEPT !.pc = "clear", !.ver = latest]]
    BY <1>7 DEF Fetch
  <2>2. "clear" \in Label
    BY DEF Label
  <2>3. job' \in [Syncer -> JobType]
    BY <1>t, <1>v, <2>1, <2>2, JobFields
  <2>4. QED
    BY <1>7, <1>f, <2>3 DEF Fetch, TypeOK, provider, table, copies
<1>8. ASSUME NEW s \in Syncer, Clear(s) PROVE TypeOK'
  <2> DEFINE others == {t \in Team : rows[t] # 0} \ Named(s)
  <2>1. job' = [job EXCEPT ![s] = [job[s] EXCEPT !.pc = "upsert", !.drop = others]]
    BY <1>8 DEF Clear
  <2>2. "upsert" \in Label /\ others \in SUBSET Team
    BY DEF Label
  <2> HIDE DEF others
  <2>3. [job[s] EXCEPT !.pc = "upsert", !.drop = others] \in JobType
    BY <1>t, <2>2, JobFields
  <2>4. QED
    BY <1>8, <1>g, <2>1, <2>3, OwnMoveType DEF Clear
<1>9. ASSUME NEW s \in Syncer, Upsert(s) PROVE TypeOK'
  <2>1. job' = [job EXCEPT ![s] = [job[s] EXCEPT !.pc = "project", !.put = Named(s)]]
    BY <1>9 DEF Upsert
  <2>2. job[s].ver # 0
    BY <1>9 DEF Upsert, Shaped, Writing
  <2>3. "project" \in Label /\ Named(s) \in SUBSET Team
    BY <2>2, AnswerTypes DEF Label
  <2>4. [job[s] EXCEPT !.pc = "project", !.put = Named(s)] \in JobType
    BY <1>t, <2>3, JobFields
  <2>5. QED
    BY <1>9, <1>g, <2>1, <2>4, OwnMoveType DEF Upsert
<1>10. ASSUME NEW s \in Syncer, Project(s) PROVE TypeOK'
  <2> DEFINE present == {t \in Team : facts[t] # 0}
  <2>1. job' = [job EXCEPT ![s] = [job[s] EXCEPT !.pc = "decide", !.gone = present,
                                                !.filed = Teams(s)]]
    BY <1>10 DEF Project
  <2>2. job[s].ver # 0
    BY <1>10 DEF Project, Shaped, Writing
  <2>3. "decide" \in Label /\ present \in SUBSET Team /\ Teams(s) \in SUBSET Team
    BY <2>2, AnswerTypes DEF Label
  <2> HIDE DEF present
  <2>4. [job[s] EXCEPT !.pc = "decide", !.gone = present, !.filed = Teams(s)] \in JobType
    BY <1>t, <2>3, JobFields
  <2>5. QED
    BY <1>10, <1>g, <2>1, <2>4, OwnMoveType DEF Project
<1>11. ASSUME NEW s \in Syncer, Decide(s) PROVE TypeOK'
  <2> DEFINE pc == IF s \in Daily THEN "restore" ELSE "commit"
             keyed == ~copied[Home[s]]
  <2>1. job' = [job EXCEPT ![s] = [job[s] EXCEPT !.pc = pc, !.keyed = keyed]]
    BY <1>11 DEF Decide
  <2>2. pc \in Label /\ keyed \in BOOLEAN
    BY DEF Label
  <2>g. Unguard(s) \/ UNCHANGED guard
    BY <1>11 DEF Decide
  <2>u. UNCHANGED <<provider, table, flags, copies>>
    BY <1>11 DEF Decide
  <2> HIDE DEF pc, keyed
  <2>3. [job[s] EXCEPT !.pc = pc, !.keyed = keyed] \in JobType
    BY <1>t, <2>2, JobFields
  <2>4. QED
    BY <1>g, <2>g, <2>u, <2>1, <2>3, OwnMoveType
<1>12. ASSUME NEW s \in Syncer, Rejected(s) PROVE TypeOK'
  <2> DEFINE pc == IF s \in Daily THEN "restore" ELSE "undo"
  <2>1. job' = [job EXCEPT ![s] = [job[s] EXCEPT !.pc = pc]]
    BY <1>12 DEF Rejected
  <2>2. pc \in Label
    BY DEF Label
  <2>g. Unguard(s) \/ UNCHANGED guard
    BY <1>12 DEF Rejected
  <2>u. UNCHANGED <<provider, table, flags, copies>>
    BY <1>12 DEF Rejected
  <2> HIDE DEF pc
  <2>3. [job[s] EXCEPT !.pc = pc] \in JobType
    BY <1>t, <2>2, JobFields
  <2>4. QED
    BY <1>g, <2>g, <2>u, <2>1, <2>3, OwnMoveType
<1>13. ASSUME NEW s \in Syncer, StatementFails(s) PROVE TypeOK'
  <2> DEFINE pc == IF s \in Daily THEN "restore" ELSE "undo"
  <2>1. job' = [job EXCEPT ![s] = [job[s] EXCEPT !.pc = pc, !.sound = FALSE,
                                      !.ver = 0, !.drop = {}, !.put = {}]]
    BY <1>13 DEF StatementFails
  <2>2. pc \in Label
    BY DEF Label
  <2>g. Unguard(s) \/ UNCHANGED guard
    BY <1>13 DEF StatementFails
  <2>u. UNCHANGED <<provider, table, flags, copies>>
    BY <1>13 DEF StatementFails
  <2> HIDE DEF pc
  <2>3. [job[s] EXCEPT !.pc = pc, !.sound = FALSE, !.ver = 0] \in JobType
    BY <1>t, <1>v, <2>2, JobFields
  <2>4. [job[s] EXCEPT !.pc = pc, !.sound = FALSE, !.ver = 0, !.drop = {},
                       !.put = {}] \in JobType
    BY <2>3, JobFields
  <2>5. QED
    BY <1>g, <2>g, <2>u, <2>1, <2>4, OwnMoveType
<1>14. ASSUME NEW d \in Daily, Restore(d) PROVE TypeOK'
  <2>1. d \in Syncer /\ "open" \in Label /\ Home[d] \in Replica
    BY <1>s, <1>h DEF Label
  <2>2. job' = [job EXCEPT ![d] = [job[d] EXCEPT !.pc = "open", !.saved = FALSE]]
    BY <1>14 DEF Restore
  <2>3. job' \in [Syncer -> JobType]
    BY <1>t, <2>1, <2>2, JobFields
  <2>4. job[d].saved \in BOOLEAN
    BY <1>t, <2>1 DEF JobType
  <2>5. defer' \in [Replica -> BOOLEAN]
    BY <1>14, <1>t, <2>1, <2>4 DEF Restore
  <2>6. QED
    BY <1>14, <2>3, <2>5 DEF Restore, TypeOK, provider, table, copies
<1>i. Idle \in JobType /\ [Idle EXCEPT !.pc = "purge"] \in JobType
      /\ [Idle EXCEPT !.pc = "idle"] \in JobType
  <2>1. Idle \in JobType
    BY <1>v DEF Idle, JobType, Label
  <2>2. "purge" \in Label /\ "idle" \in Label
    BY DEF Label
  <2>3. QED
    BY <2>1, <2>2, JobFields
<1>15. ASSUME NEW s \in Syncer, Commit(s) PROVE TypeOK'
  <2>1. job' = [job EXCEPT ![s] =
                  [Idle EXCEPT !.pc = IF job[s].keyed THEN "purge" ELSE "idle"]]
    BY <1>15 DEF Commit
  <2>2. job' \in [Syncer -> JobType]
    BY <1>t, <1>i, <2>1
  <2>3. cache' \in Copy /\ read' \in [Reader -> Copy]
    BY <1>15 DEF Commit, copies, Overtaken, Copy, TypeOK
  <2>4. QED
    BY <1>15, <1>g, <2>2, <2>3, AfterTypes DEF Commit, TypeOK, provider, flags
<1>16. ASSUME NEW s \in Syncer, Unlock(s) PROVE TypeOK'
  <2>1. job' = [job EXCEPT ![s] = job[s]]
    BY <1>16, <1>t DEF Unlock
  <2>2. QED
    BY <1>16, <1>g, <1>t, <2>1, OwnMoveType DEF Unlock
<1>17. ASSUME NEW s \in Syncer, Rollback(s) PROVE TypeOK'
  BY <1>17, <1>g, <1>i, OwnMoveType DEF Rollback
<1>18. ASSUME NEW s \in Syncer, Purge(s) PROVE TypeOK'
  <2>1. job' \in [Syncer -> JobType]
    BY <1>18, <1>t, <1>i DEF Purge
  <2>2. cache' \in Copy
    BY <1>18 DEF Purge, Copy, TypeOK
  <2>3. QED
    BY <1>18, <2>1, <2>2 DEF Purge, TypeOK, provider, table, flags
<1>19. ASSUME NEW p \in Replica, Crash(p) PROVE TypeOK'
  <2>1. job' \in [Syncer -> JobType] /\ guard' \in [Syncer -> SUBSET {"standing"}]
    BY <1>19, <1>t, <1>i DEF Crash
  <2>2. /\ defer' \in [Replica -> BOOLEAN] /\ copied' \in [Replica -> BOOLEAN]
        /\ overlap' \in [Replica -> BOOLEAN]
    BY <1>19, <1>t DEF Crash
  <2>3. QED
    BY <1>19, <2>1, <2>2 DEF Crash, TypeOK, provider, table, copies
<1>20. ASSUME NEW r \in Reader, Load(r) \/ Fill(r) PROVE TypeOK'
  <2>1. cache' \in Copy /\ read' \in [Reader -> Copy]
    BY <1>20 DEF Load, Fill, TypeOK, Copy
  <2>2. QED
    BY <1>20, <2>1 DEF Load, Fill, TypeOK, provider, table, flags
<1>21. CASE Expire
  BY <1>21 DEF Expire, TypeOK, Copy, provider, table, flags
<1>22. CASE UNCHANGED vars
  BY <1>22 DEF vars, TypeOK
<1>23. QED
  BY <1>1, <1>2, <1>3, <1>4, <1>5, <1>6, <1>7, <1>8, <1>9, <1>10, <1>11, <1>12,
     <1>13, <1>14, <1>15, <1>16, <1>17, <1>18, <1>19, <1>20, <1>21, <1>22
  DEF Next, Prewarm, Sync

-----------------------------------------------------------------------------
(* The parts of the invariant, one by one.                                 *)

LEMMA Facts ==
    ASSUME TypeOK
    PROVE  /\ latest \in Nat /\ \A t \in Team : rows[t] \in Nat /\ facts[t] \in Nat
           /\ \A s \in Syncer : /\ job[s].ver \in Nat
                                /\ job[s].drop \subseteq Team /\ job[s].put \subseteq Team
                                /\ job[s].gone \subseteq Team /\ job[s].filed \subseteq Team
           /\ own \subseteq Team
           /\ Syncer = Direct \cup Daily /\ Direct \cap Daily = {}
BY StandingsAssumption DEF TypeOK, JobType, Version, Syncer

\* An answer a sync has fetched stays what it was.
LEMMA AnswersStay ==
    ASSUME IndInv, UNCHANGED provider \/ Quiet,
           NEW s \in Syncer, job'[s].ver = job[s].ver, job[s].ver # 0
    PROVE  Named(s)' = Named(s) /\ Teams(s)' = Teams(s)
<1>1. job[s].ver \in 1..latest
  BY Facts DEF IndInv, InOrder
<1>2. answers'[job[s].ver] = answers[job[s].ver]
  BY <1>1 DEF provider, Quiet
<1>3. QED
  BY <1>2 DEF Named, Teams

LEMMA LockedStep == ASSUME IndInv, [Next]_vars PROVE Locked'
<1>1. Quiet \/ Ends \/ \E s \in Syncer : Effect(s)
  BY Effects DEF IndInv
<1>l. Locked
  BY DEF IndInv
<1> USE DEF Locked, Writing, Alone, Same
<1>2. CASE Quiet
  BY <1>l, <1>2 DEF Quiet
<1>3. CASE Ends
  BY <1>l, <1>3 DEF Ends, Blank
<1>4. ASSUME NEW s \in Syncer, Takes(s) PROVE Locked'
  BY <1>l, <1>4 DEF Takes, Move
<1>5. ASSUME NEW s \in Syncer, Goes(s) PROVE Locked'
  BY <1>l, <1>5 DEF Goes, Move
<1>6. ASSUME NEW s \in Syncer, Leaves(s) PROVE Locked'
  BY <1>l, <1>6 DEF Leaves, Move
<1>7. ASSUME NEW s \in Syncer, Fetches(s) PROVE Locked'
  BY <1>l, <1>7 DEF Fetches
<1>8. ASSUME NEW s \in Syncer, Writes(s) PROVE Locked'
  BY <1>l, <1>8 DEF Writes
<1>9. ASSUME NEW s \in Syncer, Fails(s) PROVE Locked'
  BY <1>l, <1>9 DEF Fails
<1>10. ASSUME NEW s \in Syncer, Commits(s) PROVE Locked'
  BY <1>l, <1>10 DEF Commits, Blank
<1>11. QED
  BY <1>1, <1>2, <1>3, <1>4, <1>5, <1>6, <1>7, <1>8, <1>9, <1>10 DEF Effect

LEMMA PlacedStep == ASSUME IndInv, [Next]_vars PROVE Placed'
<1>1. Quiet \/ Ends \/ \E s \in Syncer : Effect(s)
  BY Effects DEF IndInv
<1>p. Placed /\ Syncer = Direct \cup Daily /\ Direct \cap Daily = {}
  BY Facts DEF IndInv
<1> USE DEF Placed, Alone, Same
<1>2. CASE Quiet
  BY <1>p, <1>2 DEF Quiet
<1>3. CASE Ends
  BY <1>p, <1>3 DEF Ends, Blank
<1>4. ASSUME NEW s \in Syncer, Takes(s) \/ Goes(s) \/ Leaves(s) PROVE Placed'
  BY <1>p, <1>4 DEF Takes, Goes, Leaves, Move
<1>5. ASSUME NEW s \in Syncer, Fetches(s) \/ Writes(s) \/ Fails(s) PROVE Placed'
  BY <1>p, <1>5 DEF Fetches, Writes, Fails
<1>6. ASSUME NEW s \in Syncer, Commits(s) PROVE Placed'
  BY <1>p, <1>6 DEF Commits, Blank
<1>7. QED
  BY <1>1, <1>2, <1>3, <1>4, <1>5, <1>6 DEF Effect

\* The same of one sync, so that a step need only look at the one that moves.
ShapeOf(s) ==
    /\ job[s].pc \in {"idle", "flagged", "look", "ask", "clear", "purge"} =>
          job[s].drop = {} /\ job[s].put = {}
    /\ job[s].pc = "upsert" => job[s].put = {}
    /\ job[s].pc \notin {"decide", "commit", "restore", "open"} =>
          job[s].gone = {} /\ job[s].filed = {}
    /\ job[s].pc \in {"project", "decide", "commit"} => job[s].put = Named(s)
    /\ job[s].pc \in {"decide", "commit"} => job[s].filed = Teams(s)
    /\ job[s].pc \in Writing => job[s].ver # 0
    /\ job[s].put # {} => job[s].ver # 0

LEMMA ShapedStep == ASSUME IndInv, [Next]_vars PROVE Shaped'
<1>1. Quiet \/ Ends \/ \E s \in Syncer : Effect(s)
  BY Effects DEF IndInv
<1>s. \A x \in Syncer : ShapeOf(x)
  BY DEF IndInv, Shaped, ShapeOf
<1>g. SUFFICES \A x \in Syncer : ShapeOf(x)'
  BY DEF Shaped, ShapeOf
<1>p. Placed
  BY DEF IndInv
<1>l. latest # 0
  BY DEF IndInv, TypeOK, Version
<1>a. ASSUME UNCHANGED provider \/ Quiet, NEW x \in Syncer,
             job'[x].ver = job[x].ver
      PROVE  job[x].ver # 0 => Named(x)' = Named(x) /\ Teams(x)' = Teams(x)
  BY <1>a, AnswersStay
<1>2. ASSUME UNCHANGED provider \/ Quiet, NEW x \in Syncer, Same(x)
      PROVE  ShapeOf(x)'
  <2>1. job[x].ver # 0 => Named(x)' = Named(x) /\ Teams(x)' = Teams(x)
    BY <1>2, <1>a DEF Same, Kept
  <2>2. ShapeOf(x)
    BY <1>s
  <2>3. QED
    BY <1>2, <2>1, <2>2 DEF ShapeOf, Same, Kept, Writing
<1>b. ASSUME NEW x \in Syncer, Blank(x) PROVE ShapeOf(x)'
  BY <1>b DEF ShapeOf, Blank, Writing
<1>3. CASE Quiet
  BY <1>2, <1>3 DEF Quiet
<1>4. CASE Ends
  BY <1>2, <1>b, <1>4 DEF Ends
<1>5. ASSUME NEW s \in Syncer, Effect(s), UNCHANGED provider, ShapeOf(s)'
      PROVE  \A x \in Syncer : ShapeOf(x)'
  <2>1. Alone(s)
    BY <1>5 DEF Effect, Takes, Goes, Leaves, Move, Fetches, Writes, Fails, Commits
  <2>2. QED
    BY <1>2, <1>5, <2>1 DEF Alone
<1>6. ASSUME NEW s \in Syncer, Effect(s) PROVE UNCHANGED provider
  BY <1>6
  DEF Effect, Takes, Goes, Leaves, Move, Fetches, Writes, Fails, Commits, provider
<1>7. ASSUME NEW s \in Syncer, Effect(s) PROVE ShapeOf(s)'
  <2>1. job'[s].ver = job[s].ver /\ job[s].ver # 0
          => Named(s)' = Named(s) /\ Teams(s)' = Teams(s)
    BY <1>7, <1>6, <1>a
  <2>s. ShapeOf(s)
    BY <1>s
  <2>2. CASE Takes(s)
    BY <2>2, <2>s DEF Takes, Move, Kept, ShapeOf, Writing
  <2>3. CASE Goes(s)
    BY <2>1, <2>3, <2>s DEF Goes, Move, Kept, ShapeOf, Writing
  <2>4. CASE Leaves(s)
    BY <2>1, <2>4, <2>s DEF Leaves, Move, Kept, ShapeOf, Writing
  <2>5. CASE Fetches(s)
    BY <2>5, <2>s, <1>l DEF Fetches, ShapeOf, Writing
  <2>6. CASE Writes(s)
    BY <2>1, <2>6, <2>s DEF Writes, ShapeOf, Writing
  <2>7. CASE Fails(s)
    BY <2>7, <2>s DEF Fails, ShapeOf, Writing
  <2>8. CASE Commits(s)
    BY <2>8, <1>b DEF Commits
  <2>9. QED
    BY <1>7, <2>2, <2>3, <2>4, <2>5, <2>6, <2>7, <2>8 DEF Effect
<1>8. QED
  BY <1>1, <1>3, <1>4, <1>5, <1>6, <1>7

LEMMA ApartStep == ASSUME IndInv, [Next]_vars PROVE Apart'
<1>1. Quiet \/ Ends \/ \E s \in Syncer : Effect(s)
  BY Effects DEF IndInv
<1>a. \A s, x \in Syncer : s # x => Held(s) \cap Held(x) = {}
  BY DEF IndInv, Apart
<1>2. ASSUME NEW x \in Syncer, Kept(x) PROVE Held(x)' = Held(x)
  BY <1>2 DEF Kept, Held
<1>3. ASSUME NEW x \in Syncer, Blank(x) PROVE Held(x)' = {}
  BY <1>3 DEF Blank, Held
<1>4. ASSUME \A x \in Syncer : Held(x)' \subseteq Held(x) PROVE Apart'
  BY <1>a, <1>4 DEF Apart
<1>5. CASE Quiet
  BY <1>2, <1>4, <1>5 DEF Quiet, Same
<1>6. CASE Ends
  <2>1. \A x \in Syncer : Held(x)' = Held(x) \/ Held(x)' = {}
    BY <1>2, <1>3, <1>6 DEF Ends, Same
  <2>2. QED
    BY <1>4, <2>1
<1>7. ASSUME NEW s \in Syncer, Takes(s) \/ Goes(s) \/ Leaves(s) PROVE Apart'
  <2>1. Alone(s) /\ Kept(s)
    BY <1>7 DEF Takes, Goes, Leaves, Move
  <2>2. QED
    BY <1>2, <1>4, <2>1 DEF Alone, Same
<1>8. ASSUME NEW s \in Syncer, Fetches(s) \/ Fails(s) \/ Commits(s) PROVE Apart'
  <2>1. Alone(s) /\ Held(s)' \subseteq Held(s)
    BY <1>8, <1>3 DEF Fetches, Fails, Commits, Held
  <2>2. QED
    BY <1>2, <1>4, <2>1 DEF Alone, Same
<1>9. ASSUME NEW s \in Syncer, Writes(s) PROVE Apart'
  <2>1. PICK more : Held(s)' \subseteq Held(s) \cup more /\ Free(s, more)
    <3>1. CASE job[s].pc = "clear"
      <4>1. Held(s)' \subseteq Held(s) \cup job'[s].drop /\ Free(s, job'[s].drop)
        BY <1>9, <3>1 DEF Writes, Held
      <4>2. QED
        BY <4>1
    <3>2. CASE job[s].pc = "upsert"
      <4>1. Held(s)' \subseteq Held(s) \cup Named(s) /\ Free(s, Named(s))
        BY <1>9, <3>2 DEF Writes, Held
      <4>2. QED
        BY <4>1
    <3>3. CASE job[s].pc = "project"
      <4> DEFINE both == job'[s].gone \cup Teams(s)
      <4>1. Held(s)' \subseteq Held(s) \cup both /\ Free(s, both)
        BY <1>9, <3>3 DEF Writes, Held
      <4>2. QED
        BY <4>1
    <3>4. QED
      BY <1>9, <3>1, <3>2, <3>3 DEF Writes
  <2>2. \A x \in Syncer \ {s} : Held(x)' = Held(x)
    BY <1>2, <1>9 DEF Writes, Alone, Same
  <2>3. \A x \in Syncer \ {s} : Held(s)' \cap Held(x)' = {}
    BY <1>a, <2>1, <2>2 DEF Free
  <2>4. QED
    BY <1>a, <2>2, <2>3 DEF Apart
<1>10. QED
  BY <1>1, <1>5, <1>6, <1>7, <1>8, <1>9 DEF Effect

\* What a commit does to a row: its own write, or none of its business.
LEMMA RowsCommitted ==
    ASSUME TypeOK, NEW s \in Syncer, NEW t \in Team
    PROVE  /\ t \in job[s].put => RowsAfter(s)[t] = job[s].ver
           /\ t \notin job[s].put /\ t \in job[s].drop => RowsAfter(s)[t] = 0
           /\ t \notin job[s].put \cup job[s].drop => RowsAfter(s)[t] = rows[t]
           /\ t \in job[s].filed => FactsAfter(s)[t] = job[s].ver
           /\ t \notin job[s].gone \cup job[s].filed => FactsAfter(s)[t] = facts[t]
BY DEF RowsAfter, FactsAfter

LEMMA InOrderStep == ASSUME IndInv, [Next]_vars PROVE InOrder'
<1>1. Quiet \/ Ends \/ \E s \in Syncer : Effect(s)
  BY Effects DEF IndInv
<1>t. /\ latest \in Nat /\ \A t \in Team : rows[t] \in Nat
      /\ \A s \in Syncer : job[s].ver \in Nat /\ job[s].put \subseteq Team
  BY Facts DEF IndInv
<1>o. InOrder
  BY DEF IndInv
<1>l. Locked
  BY DEF IndInv
<1>s. \A s \in Syncer : ShapeOf(s)
  BY DEF IndInv, Shaped, ShapeOf
<1>2. CASE Quiet
  <2>1. latest' \in Nat
    <3>1. TypeOK'
      BY TypeStep DEF IndInv
    <3>2. QED
      BY <3>1 DEF TypeOK, Version
  <2>2. QED
    BY <1>t, <1>o, <1>2, <2>1 DEF Quiet, InOrder, Same, Kept, table
\* Steps after which less is under way.
<1>3. ASSUME UNCHANGED <<provider, table>>,
             \A x \in Syncer : /\ job'[x].ver = job[x].ver \/ job'[x].ver = 0
                               /\ \/ job'[x].put = job[x].put /\ job'[x].ver = job[x].ver
                                  \/ job'[x].put = {}
                               /\ job'[x].pc \in Writing =>
                                     job[x].pc \in Writing /\ job'[x].ver = job[x].ver
      PROVE  InOrder'
  BY <1>t, <1>o, <1>3 DEF InOrder, provider, table
<1>4. CASE Ends
  BY <1>3, <1>4 DEF Ends, Same, Kept, Blank, Writing
<1>5. ASSUME NEW s \in Syncer, Takes(s) \/ Goes(s) \/ Leaves(s) PROVE InOrder'
  <2>1. /\ Alone(s) /\ Kept(s) /\ UNCHANGED <<provider, table>>
        /\ job'[s].pc \in Writing => job[s].pc \in Writing
    BY <1>5 DEF Takes, Goes, Leaves, Move, Writing
  <2>2. QED
    BY <1>3, <2>1 DEF Alone, Same, Kept
<1>6. ASSUME NEW s \in Syncer, Fails(s) PROVE InOrder'
  BY <1>3, <1>6 DEF Fails, Alone, Same, Kept, Writing
<1>7. ASSUME NEW s \in Syncer, Fetches(s) PROVE InOrder'
  <2>1. /\ job[s].put = {} /\ job'[s].put = {} /\ job'[s].ver = latest
        /\ UNCHANGED <<provider, table>> /\ Alone(s)
    BY <1>7, <1>s DEF Fetches, ShapeOf
  <2>2. \A x \in Syncer \ {s} : job[x].pc \notin Writing
    BY <1>7, <1>l DEF Fetches, Locked
  <2>3. QED
    BY <1>t, <1>o, <2>1, <2>2 DEF InOrder, Alone, Same, Kept, provider, table
<1>8. ASSUME NEW s \in Syncer, Writes(s) PROVE InOrder'
  <2>1. /\ Alone(s) /\ UNCHANGED <<provider, table>> /\ job'[s].ver = job[s].ver
        /\ job[s].pc \in Writing /\ job'[s].pc \in Writing
        /\ job'[s].put = job[s].put \/ job'[s].put = Named(s)
    BY <1>8 DEF Writes, Writing
  <2>2. job'[s].put \subseteq Team
    BY TypeStep DEF IndInv, TypeOK, JobType
  <2>3. \A t \in Team : rows[t] <= job[s].ver
    BY <1>o, <2>1 DEF InOrder
  <2>4. QED
    BY <1>t, <1>o, <2>1, <2>2, <2>3 DEF InOrder, Alone, Same, Kept, provider, table
<1>9. ASSUME NEW s \in Syncer, Commits(s) PROVE InOrder'
  <2>1. /\ Alone(s) /\ Blank(s) /\ latest' = latest
        /\ \A t \in Team : rows'[t] = RowsAfter(s)[t]
    BY <1>9 DEF Commits, provider
  <2>2. \A t \in Team : rows'[t] \in {rows[t], 0, job[s].ver}
    BY <2>1, RowsCommitted DEF IndInv
  <2>3. \A x \in Syncer : job'[x].pc \in Writing =>
            job'[x].pc = job[x].pc /\ job'[x].ver = job[x].ver /\ x # s
    BY <2>1 DEF Alone, Same, Kept, Blank, Writing
  <2>4. \A x \in Syncer : job'[x].ver = job[x].ver \/ job'[x].ver = 0
    BY <2>1 DEF Alone, Same, Kept, Blank
  <2>5. ASSUME NEW x \in Syncer, NEW t \in job'[x].put PROVE rows'[t] <= job'[x].ver
    <3>1. x # s /\ t \in job[x].put /\ t \in Team /\ job'[x].ver = job[x].ver
      BY <1>t, <2>1, <2>5 DEF Alone, Same, Kept, Blank
    <3>2. t \notin Held(s)
      BY <3>1 DEF IndInv, Apart, Held
    <3>3. rows'[t] = rows[t]
      BY <2>1, <3>1, <3>2, RowsCommitted DEF Held, IndInv
    <3>4. QED
      BY <1>o, <3>1, <3>3 DEF InOrder
  <2>6. \A t \in Team : rows'[t] <= latest'
    BY <1>t, <1>o, <2>1, <2>2 DEF InOrder
  <2>7. \A x \in Syncer : job'[x].ver <= latest'
    BY <1>t, <1>o, <2>1, <2>4 DEF InOrder
  <2>8. ASSUME NEW x \in Syncer, job'[x].pc \in Writing
        PROVE  /\ \A t \in Team : rows'[t] <= job'[x].ver
               /\ \A y \in Syncer : job'[y].ver <= job'[x].ver
    <3>1. job[x].pc \in Writing /\ job'[x].ver = job[x].ver
      BY <2>3, <2>8
    <3>2. /\ \A t \in Team : rows[t] <= job[x].ver
          /\ \A y \in Syncer : job[y].ver <= job[x].ver
      BY <1>o, <3>1 DEF InOrder
    <3>3. QED
      BY <1>t, <2>2, <2>4, <3>1, <3>2
  <2>9. QED
    BY <2>5, <2>6, <2>7, <2>8 DEF InOrder
<1>10. QED
  BY <1>1, <1>2, <1>4, <1>5, <1>6, <1>7, <1>8, <1>9 DEF Effect

\* Only a commit changes the table.
LEMMA TableStays ==
    ASSUME NEW s \in Syncer, Effect(s), ~Commits(s)
    PROVE  UNCHANGED <<provider, table>> /\ Alone(s)
BY DEF Effect, Takes, Goes, Leaves, Move, Fetches, Writes, Fails

\* What a commit leaves of the rows stored by jobs and routes.
LEMMA OwnCommitted ==
    ASSUME IndInv, NEW s \in Syncer, Commits(s)
    PROVE  /\ s \in Daily => own' \subseteq own /\ own \cap Held(s) = {}
           /\ s \in Direct => own' \subseteq job[s].put
           /\ s \in Direct => own' \subseteq own \cup job[s].put
           /\ \A t \in own' : t \in Team /\ rows'[t] = RowsAfter(s)[t] /\ rows'[t] # 0
<1>1. Syncer = Direct \cup Daily /\ Direct \cap Daily = {} /\ own \subseteq Team
      /\ job[s].put \subseteq Team
  BY Facts DEF IndInv
<1>2. own' = OwnAfter(s) /\ rows' = RowsAfter(s)
  BY DEF Commits
<1>3. s \in Daily => own' \subseteq own /\ own \cap Held(s) = {}
  BY <1>1, <1>2 DEF OwnAfter, IndInv, Harmless
<1>4. \A t \in own' : t \in Team /\ rows'[t] = RowsAfter(s)[t] /\ rows'[t] # 0
  BY <1>1, <1>2 DEF OwnAfter
<1>5. ASSUME s \in Direct PROVE own' \subseteq own \cup job[s].put
  BY <1>1, <1>2, <1>5 DEF OwnAfter
<1>6. ASSUME s \in Direct, NEW t \in own' PROVE t \in job[s].put
  <2>1. job[s].pc = "commit"
    BY <1>1, <1>6 DEF Commits
  <2>2. t \in own => t \in job[s].drop \cup job[s].put
    BY <1>6, <2>1 DEF IndInv, Replacing, Shaped
  <2>3. t \in job[s].put \/ t \in own
    BY <1>5, <1>6
  <2>4. t \in job[s].drop /\ t \notin job[s].put => rows'[t] = 0
    BY <1>4, <1>6, RowsCommitted DEF IndInv
  <2>5. QED
    BY <1>4, <1>6, <2>2, <2>3, <2>4
<1>7. QED
  BY <1>3, <1>4, <1>5, <1>6

LEMMA ReplacingStep == ASSUME IndInv, [Next]_vars PROVE Replacing'
<1>1. Quiet \/ Ends \/ \E s \in Syncer : Effect(s)
  BY Effects DEF IndInv
<1>d. Syncer = Direct \cup Daily /\ Direct \cap Daily = {}
  BY Facts DEF IndInv
<1> DEFINE Replaces(x) ==
      job[x].pc \in {"upsert", "project", "decide", "commit"} =>
          own \subseteq job[x].drop \cup Named(x)
<1>g. SUFFICES \A x \in Direct : Replaces(x)'
  BY DEF Replacing
<1>r. \A x \in Direct : Replaces(x)
  BY DEF IndInv, Replacing
<1>a. ASSUME UNCHANGED provider \/ Quiet, NEW x \in Direct, job'[x].ver = job[x].ver,
             job[x].pc \in Writing
      PROVE  Named(x)' = Named(x)
  BY <1>a, <1>d, AnswersStay DEF IndInv, Shaped
<1>2. ASSUME UNCHANGED provider \/ Quiet, own' \subseteq own, NEW x \in Direct,
             Same(x)
      PROVE  Replaces(x)'
  <2>1. Named(x)' = Named(x) \/ job[x].pc \notin Writing
    BY <1>2, <1>a DEF Same, Kept
  <2>2. QED
    BY <1>2, <1>r, <2>1 DEF Same, Kept, Writing
<1>b. ASSUME NEW x \in Direct, Blank(x) PROVE Replaces(x)'
  BY <1>b DEF Blank
<1>3. CASE Quiet
  BY <1>2, <1>3, <1>d DEF Quiet, table
<1>4. CASE Ends
  BY <1>2, <1>b, <1>4, <1>d DEF Ends, table
<1>5. ASSUME NEW s \in Syncer, Effect(s), ~Commits(s), s \in Direct => Replaces(s)'
      PROVE  \A x \in Direct : Replaces(x)'
  <2>1. UNCHANGED provider /\ own' = own /\ Alone(s)
    BY <1>5, TableStays DEF table, provider
  <2>2. QED
    BY <1>2, <1>5, <1>d, <2>1 DEF Alone
<1>6. ASSUME NEW s \in Syncer, Effect(s), ~Commits(s), s \in Direct
      PROVE  Replaces(s)'
  <2>u. UNCHANGED provider /\ own' = own
    BY <1>6, TableStays DEF table, provider
  <2>1. CASE Takes(s) \/ Leaves(s) \/ Fetches(s) \/ Fails(s)
    BY <2>1, <1>6, <1>d DEF Takes, Leaves, Move, Fetches, Fails
  <2>2. CASE Goes(s)
    <3>1. CASE job'[s].pc = "commit"
      <4>1. job[s].pc = "decide" /\ Kept(s)
        BY <1>6, <1>d, <2>2, <3>1 DEF Goes, Move
      <4>2. Named(s)' = Named(s)
        BY <1>6, <1>a, <2>u, <4>1 DEF Kept, Writing
      <4>3. QED
        BY <1>6, <1>r, <2>u, <3>1, <4>1, <4>2 DEF Kept
    <3>2. CASE job'[s].pc # "commit"
      BY <1>6, <1>d, <2>2, <3>2 DEF Goes, Move
    <3>3. QED
      BY <3>1, <3>2
  <2>3. CASE Writes(s)
    <3>1. Named(s)' = Named(s)
      BY <1>6, <1>a, <2>u, <2>3 DEF Writes, Writing
    <3>2. CASE job[s].pc = "clear"
      <4>1. \A t \in own : t \in Team /\ rows[t] # 0
        BY Facts DEF IndInv, FactsFollowOwnRows
      <4>2. job'[s].drop = {t \in Team : rows[t] # 0} \ Named(s)
        BY <2>3, <3>2 DEF Writes
      <4>3. QED
        BY <2>u, <3>1, <4>1, <4>2
    <3>3. CASE job[s].pc # "clear"
      <4>1. job[s].pc \in {"upsert", "project"} /\ job'[s].drop = job[s].drop
        BY <2>3, <3>3 DEF Writes
      <4>2. QED
        BY <1>6, <1>r, <2>u, <3>1, <4>1
    <3>4. QED
      BY <3>2, <3>3
  <2>4. QED
    BY <1>6, <2>1, <2>2, <2>3 DEF Effect
<1>7. ASSUME NEW s \in Syncer, Commits(s), NEW x \in Direct PROVE Replaces(x)'
  <2>1. UNCHANGED provider /\ Alone(s) /\ Blank(s) /\ guard'[s] = {}
    BY <1>7 DEF Commits
  <2>2. CASE x = s
    BY <1>b, <2>1, <2>2
  <2>3. CASE x # s /\ s \in Daily
    <3>1. own' \subseteq own
      BY <1>7, <2>3, OwnCommitted
    <3>2. QED
      BY <1>2, <1>d, <2>1, <2>3, <3>1 DEF Alone
  <2>4. CASE x # s /\ s \in Direct
    <3>1. job[s].pc = "commit"
      BY <1>7, <1>d, <2>4 DEF Commits
    <3>2. job[x].pc \notin Writing
      BY <1>d, <2>4, <3>1 DEF IndInv, Locked, Writing
    <3>3. job'[x].pc = job[x].pc
      BY <1>d, <2>1, <2>4 DEF Alone, Same
    <3>4. QED
      BY <3>2, <3>3 DEF Writing
  <2>5. QED
    BY <1>d, <1>7, <2>2, <2>3, <2>4
<1>8. QED
  BY <1>1, <1>3, <1>4, <1>5, <1>6, <1>7

LEMMA HarmlessStep == ASSUME IndInv, [Next]_vars PROVE Harmless'
<1>1. Quiet \/ Ends \/ \E s \in Syncer : Effect(s)
  BY Effects DEF IndInv
<1>d. Syncer = Direct \cup Daily /\ Direct \cap Daily = {}
  BY Facts DEF IndInv
<1> DEFINE Harms(x) == \/ job[x].pc \in {"ask"} \cup Writing /\ own # {}
                       \/ own \cap Held(x) # {}
<1>g. SUFFICES \A x \in Daily : ~Harms(x)'
  BY DEF Harmless
<1>h. \A x \in Daily : ~Harms(x)
  BY DEF IndInv, Harmless
<1>2. ASSUME own' \subseteq own, NEW x \in Daily, Same(x) PROVE ~Harms(x)'
  BY <1>2, <1>h DEF Same, Kept, Held
<1>b. ASSUME NEW x \in Daily, Blank(x) PROVE ~Harms(x)'
  BY <1>b DEF Blank, Held, Writing
<1>3. CASE Quiet
  BY <1>2, <1>3, <1>d DEF Quiet, table
<1>4. CASE Ends
  BY <1>2, <1>b, <1>4, <1>d DEF Ends, table
<1>5. ASSUME NEW s \in Syncer, Effect(s), ~Commits(s), s \in Daily => ~Harms(s)'
      PROVE  \A x \in Daily : ~Harms(x)'
  <2>1. own' = own /\ Alone(s)
    BY <1>5, TableStays DEF table
  <2>2. QED
    BY <1>2, <1>5, <1>d, <2>1 DEF Alone
<1>6. ASSUME NEW s \in Syncer, Effect(s), ~Commits(s), s \in Daily PROVE ~Harms(s)'
  <2>u. own' = own
    BY <1>6, TableStays DEF table
  <2>1. CASE Takes(s) \/ Leaves(s)
    <3>1. Kept(s) /\ job'[s].pc \notin {"ask"} \cup Writing
      BY <2>1, <1>6, <1>d DEF Takes, Leaves, Move, Writing
    <3>2. QED
      BY <1>6, <1>h, <2>u, <3>1 DEF Kept, Held
  <2>2. CASE Goes(s)
    <3>1. Kept(s)
      BY <2>2 DEF Goes, Move
    <3>2. CASE \A t \in Team : rows[t] = 0
      <4>1. own = {}
        BY <3>2, Facts DEF IndInv, FactsFollowOwnRows
      <4>2. QED
        BY <4>1, <2>u
    <3>3. CASE ~ \A t \in Team : rows[t] = 0
      <4>1. job'[s].pc \notin {"ask"} \cup Writing
        BY <2>2, <1>6, <1>d, <3>3 DEF Goes, Move, Writing
      <4>2. QED
        BY <1>6, <1>h, <2>u, <3>1, <4>1 DEF Kept, Held
    <3>4. QED
      BY <3>2, <3>3
  <2>3. CASE Fetches(s) \/ Writes(s)
    <3>1. own = {}
      BY <2>3, <1>6, <1>h DEF Fetches, Writes, Writing
    <3>2. QED
      BY <3>1, <2>u
  <2>4. CASE Fails(s)
    BY <2>4, <1>6, <1>d, <1>h, <2>u DEF Fails, Held, Writing
  <2>5. QED
    BY <1>6, <2>1, <2>2, <2>3, <2>4 DEF Effect
<1>7. ASSUME NEW s \in Syncer, Commits(s), NEW x \in Daily PROVE ~Harms(x)'
  <2>1. Alone(s) /\ Blank(s)
    BY <1>7 DEF Commits
  <2>2. CASE x = s
    BY <1>b, <2>1, <2>2
  <2>3. CASE x # s /\ s \in Daily
    <3>1. own' \subseteq own
      BY <1>7, <2>3, OwnCommitted
    <3>2. QED
      BY <1>2, <1>d, <2>1, <2>3, <3>1 DEF Alone
  <2>4. CASE x # s /\ s \in Direct
    <3>1. job[s].pc = "commit"
      BY <1>7, <1>d, <2>4 DEF Commits
    <3>2. job[x].pc \notin {"ask"} \cup Writing
      BY <1>d, <2>4, <3>1 DEF IndInv, Locked, Writing
    <3>3. own' \subseteq own \cup job[s].put
      BY <1>7, <2>4, OwnCommitted
    <3>4. Held(x)' = Held(x) /\ job'[x].pc = job[x].pc
      BY <1>d, <2>1, <2>4 DEF Alone, Same, Kept, Held
    <3>5. job[s].put \cap Held(x) = {}
      BY <1>d, <2>4 DEF IndInv, Apart, Held
    <3>6. QED
      BY <1>h, <3>2, <3>3, <3>4, <3>5
  <2>5. QED
    BY <1>d, <1>7, <2>2, <2>3, <2>4
<1>8. QED
  BY <1>1, <1>3, <1>4, <1>5, <1>6, <1>7

\* A commit of a prewarm touches no row of a job, one of a job leaves no other.
LEMMA TableStep ==
    ASSUME IndInv, [Next]_vars
    PROVE  MixedOnlyByPrewarm' /\ FactsFollowOwnRows'
<1>1. Quiet \/ Ends \/ \E s \in Syncer : Effect(s)
  BY Effects DEF IndInv
<1>d. Syncer = Direct \cup Daily /\ own \subseteq Team
  BY Facts DEF IndInv
<1>i. MixedOnlyByPrewarm /\ FactsFollowOwnRows
  BY DEF IndInv
<1>2. ASSUME UNCHANGED table PROVE MixedOnlyByPrewarm' /\ FactsFollowOwnRows'
  BY <1>2, <1>i DEF table, MixedOnlyByPrewarm, FactsFollowOwnRows
<1>3. ASSUME NEW s \in Syncer, Commits(s), s \in Daily
      PROVE  MixedOnlyByPrewarm' /\ FactsFollowOwnRows'
  <2>1. own' \subseteq own /\ own \cap Held(s) = {}
    BY <1>3, OwnCommitted
  <2>2. \A t \in own' : rows'[t] = rows[t] /\ facts'[t] = facts[t]
    BY <1>3, <1>d, <2>1, RowsCommitted DEF Commits, Held, IndInv
  <2>3. QED
    BY <1>i, <2>1, <2>2 DEF MixedOnlyByPrewarm, FactsFollowOwnRows
<1>4. ASSUME NEW s \in Syncer, Commits(s), s \in Direct
      PROVE  MixedOnlyByPrewarm' /\ FactsFollowOwnRows'
  <2>1. /\ own' \subseteq job[s].put
        /\ \A t \in own' : t \in Team /\ rows'[t] # 0
    BY <1>4, OwnCommitted
  <2>2. job[s].pc = "commit"
    BY <1>4, Facts DEF Commits, IndInv
  <2>3. job[s].put \subseteq job[s].filed
    <3>1. job[s].put = Named(s) /\ job[s].filed = Teams(s) /\ job[s].ver # 0
      BY <2>2 DEF IndInv, Shaped, Writing
    <3>2. QED
      BY <3>1, AnswerTypes DEF IndInv
  <2>4. \A t \in own' : rows'[t] = job[s].ver /\ facts'[t] = job[s].ver
    BY <1>4, <2>1, <2>3, RowsCommitted DEF Commits, IndInv
  <2>5. QED
    BY <2>1, <2>4 DEF MixedOnlyByPrewarm, FactsFollowOwnRows
<1>5. ASSUME NEW s \in Syncer, Effect(s), ~Commits(s) PROVE UNCHANGED table
  BY <1>5, TableStays
<1>6. QED
  BY <1>1, <1>2, <1>3, <1>4, <1>5, <1>d DEF Quiet, Ends

\* What a step writes into a row is no older than what it finds there.
LEMMA RowsStep ==
    ASSUME IndInv, [Next]_vars
    PROVE  \A t \in Team : rows'[t] # 0 => rows'[t] >= rows[t]
<1>1. Quiet \/ Ends \/ \E s \in Syncer : Effect(s)
  BY Effects DEF IndInv
<1>t. \A t \in Team : rows[t] \in Nat
  BY Facts DEF IndInv
<1>2. CASE UNCHANGED rows
  BY <1>2, <1>t
<1>3. ASSUME NEW s \in Syncer, Commits(s), NEW t \in Team, rows'[t] # 0
      PROVE  rows'[t] >= rows[t]
  <2>1. rows'[t] = RowsAfter(s)[t]
    BY <1>3 DEF Commits
  <2>2. CASE t \in job[s].put
    <3>1. rows'[t] = job[s].ver /\ rows[t] <= job[s].ver
      BY <2>1, <2>2, RowsCommitted DEF IndInv, InOrder
    <3>2. QED
      BY <1>t, <3>1, Facts DEF IndInv
  <2>3. CASE t \notin job[s].put
    BY <1>t, <1>3, <2>1, <2>3, RowsCommitted DEF IndInv
  <2>4. QED
    BY <2>2, <2>3
<1>4. ASSUME NEW s \in Syncer, Effect(s), ~Commits(s) PROVE UNCHANGED rows
  BY <1>4, TableStays DEF table
<1>5. QED
  BY <1>1, <1>2, <1>3, <1>4 DEF Quiet, Ends, table

-----------------------------------------------------------------------------
(* The flag.                                                               *)

Inside(d) == job[d].pc \notin {"idle", "open", "purge"}

\* A job or route at work, and how it goes on: it meets no prewarm, and decides
\* by the copy of the flag.
AtWork(s) == job[s].pc \in {"ask"} \cup Writing

GoesOn(s) ==
    /\ AtWork(s)' => AtWork(s) /\ job'[s].touched = job[s].touched
    /\ job'[s].pc = "commit" =>
          \/ job[s].pc = "commit" /\ job'[s].keyed = job[s].keyed
          \/ job'[s].keyed = ~copied[Home[s]]

Sees(s) ==
    /\ job'[s].pc = "ask" /\ copied'[Home[s]] = defer[Home[s]]
    /\ job'[s].touched = (defer[Home[s]] \/ Prewarming(Home[s]) # {})

\* Steps that neither set the flag nor restore it.
Steady ==
    /\ UNCHANGED <<defer, overlap>>
    /\ \A p \in Replica : copied'[p] = copied[p] \/ copied'[p] = defer[p]
    /\ \A d \in Daily : /\ Inside(d)' <=> Inside(d)
                        /\ Inside(d) => job'[d].saved = job[d].saved
    /\ \A s \in Direct : GoesOn(s) \/ Sees(s)

LEMMA FlagEffects ==
    ASSUME TypeOK, Placed, [Next]_vars
    PROVE  \/ Steady
           \/ \E d \in Daily : SetFlag(d) \/ Restore(d)
           \/ \E p \in Replica : Crash(p)
<1>t. /\ job \in [Syncer -> JobType] /\ \A s \in Syncer : job[s] \in JobType
      /\ copied \in [Replica -> BOOLEAN] /\ defer \in [Replica -> BOOLEAN]
      /\ \A s \in Syncer : Home[s] \in Replica
      /\ Syncer = Direct \cup Daily /\ Direct \cap Daily = {}
  BY StandingsAssumption DEF TypeOK, Syncer
<1>p. Placed
  OBVIOUS
<1> USE DEF Steady, GoesOn, Inside, AtWork, Writing
<1>1. ASSUME UNCHANGED <<job, flags>> PROVE Steady
  BY <1>1 DEF flags
<1>c. ASSUME NEW s \in Syncer, CopyFlag(Home[s]) \/ UNCHANGED copied
      PROVE  \A p \in Replica : copied'[p] = copied[p] \/ copied'[p] = defer[p]
  BY <1>c, <1>t DEF CopyFlag
<1>2. ASSUME NEW s \in Direct, BeginDirect(s) PROVE Steady
  <2> DEFINE met == defer[Home[s]] \/ Prewarming(Home[s]) # {}
  <2>1. /\ job[s].pc = "idle" /\ UNCHANGED <<defer, overlap>> /\ CopyFlag(Home[s])
        /\ job' = [job EXCEPT ![s] = [job[s] EXCEPT !.pc = "ask", !.touched = met]]
    BY <1>2 DEF BeginDirect
  <2> HIDE DEF met
  <2>2. s \in Syncer /\ s \notin Daily
    BY <1>t
  <2>3. \A x \in Syncer \ {s} : job'[x] = job[x]
    BY <2>1, <1>t
  <2>4. job'[s].pc = "ask" /\ job'[s].touched = met
    BY <2>1, <2>2, <1>t DEF JobType
  <2>5. copied'[Home[s]] = defer[Home[s]]
    BY <2>1, <2>2, <1>t DEF CopyFlag
  <2>6. Sees(s)
    BY <2>4, <2>5 DEF Sees, met
  <2>7. \A p \in Replica : copied'[p] = copied[p] \/ copied'[p] = defer[p]
    BY <1>c, <2>1, <2>2
  <2>8. QED
    BY <2>1, <2>2, <2>3, <2>6, <2>7, <1>t
\* Only s moves, from one step to another on the same side of the flag.
<1>3. ASSUME NEW s \in Syncer, UNCHANGED <<defer, overlap>>,
             CopyFlag(Home[s]) \/ UNCHANGED copied,
             \A x \in Syncer \ {s} : job'[x] = job[x],
             s \in Daily => /\ Inside(s)' <=> Inside(s)
                            /\ Inside(s) => job'[s].saved = job[s].saved,
             s \in Direct => GoesOn(s)
      PROVE  Steady
  <2>1. \A p \in Replica : copied'[p] = copied[p] \/ copied'[p] = defer[p]
    BY <1>3, <1>c
  <2>2. QED
    BY <1>3, <2>1, <1>t
<1>4. ASSUME NEW d \in Daily, BeginPrewarm(d) \/ SkipPrewarm(d) \/ Look(d)
      PROVE  Steady
  <2>1. d \in Syncer /\ d \notin Direct
    BY <1>t
  <2>2. PICK pc \in {"look", "restore", "ask"} :
            job' = [job EXCEPT ![d] = [job[d] EXCEPT !.pc = pc]]
    BY <1>4 DEF BeginPrewarm, SkipPrewarm, Look
  <2>3. /\ job[d].pc \in {"flagged", "look"} /\ UNCHANGED <<defer, overlap>>
        /\ (CopyFlag(Home[d]) \/ UNCHANGED copied)
    BY <1>4 DEF BeginPrewarm, SkipPrewarm, Look, flags
  <2>4. /\ \A x \in Syncer \ {d} : job'[x] = job[x]
        /\ job'[d].pc = pc /\ job'[d].saved = job[d].saved
    BY <2>1, <2>2, <1>t DEF JobType
  <2>5. QED
    BY <1>3, <2>1, <2>3, <2>4
<1>5. ASSUME NEW s \in Syncer,
             \/ Fetch(s) \/ Clear(s) \/ Upsert(s) \/ Project(s) \/ Rejected(s)
             \/ StatementFails(s) \/ Unlock(s)
      PROVE  Steady
  <2>1. /\ job[s].pc \in {"ask", "clear", "upsert", "project", "undo"}
        /\ UNCHANGED <<defer, overlap>> /\ (CopyFlag(Home[s]) \/ UNCHANGED copied)
    BY <1>5 DEF Fetch, Clear, Upsert, Project, Rejected, StatementFails, Unlock, flags
  <2> DEFINE Turned ==
        /\ \A x \in Syncer \ {s} : job'[x] = job[x]
        /\ job'[s].saved = job[s].saved /\ job'[s].touched = job[s].touched
        /\ job'[s].pc \in {"clear", "upsert", "project", "decide", "restore", "undo"}
        /\ job'[s].pc = "undo" \/ job[s].pc # "undo"
  <2>2. ASSUME Fetch(s) \/ Clear(s) PROVE Turned
    BY <2>2, <1>t DEF Fetch, Clear, JobType
  <2>3. ASSUME Upsert(s) PROVE Turned
    BY <2>3, <1>t DEF Upsert, JobType
  <2>4. ASSUME Project(s) PROVE Turned
    BY <2>4, <1>t DEF Project, JobType
  <2>5. ASSUME Rejected(s) PROVE Turned
    BY <2>5, <1>t DEF Rejected, JobType
  <2>6. ASSUME StatementFails(s) PROVE Turned
    BY <2>6, <1>t DEF StatementFails, JobType
  <2>7. ASSUME Unlock(s) PROVE Turned
    BY <2>7, <1>t DEF Unlock
  <2>8. Turned
    BY <1>5, <2>2, <2>3, <2>4, <2>5, <2>6, <2>7
  <2> HIDE DEF Turned
  <2>9. GoesOn(s)
    BY <2>1, <2>8 DEF Turned
  <2>10. Inside(s)' <=> Inside(s)
    BY <2>1, <2>8 DEF Turned
  <2>11. /\ \A x \in Syncer \ {s} : job'[x] = job[x]
         /\ job'[s].saved = job[s].saved
    BY <2>8 DEF Turned
  <2>12. QED
    BY <1>3, <2>1, <2>9, <2>10, <2>11
<1>6. ASSUME NEW s \in Syncer, Decide(s) PROVE Steady
  <2> DEFINE pc == IF s \in Daily THEN "restore" ELSE "commit"
             keyed == ~copied[Home[s]]
  <2>1. /\ job[s].pc = "decide" /\ UNCHANGED flags
        /\ job' = [job EXCEPT ![s] = [job[s] EXCEPT !.pc = pc, !.keyed = keyed]]
    BY <1>6 DEF Decide
  <2>2. \A x \in Syncer \ {s} : job'[x] = job[x]
    BY <2>1, <1>t
  <2> HIDE DEF keyed, pc
  <2>3. /\ job'[s].pc = pc /\ job'[s].keyed = keyed
        /\ job'[s].saved = job[s].saved /\ job'[s].touched = job[s].touched
    BY <2>1, <1>t DEF JobType
  <2>4. pc \in {"restore", "commit"}
    BY DEF pc
  <2>5. GoesOn(s)
    BY <2>1, <2>3, <2>4 DEF keyed
  <2>6. QED
    BY <1>3, <2>1, <2>2, <2>3, <2>4, <2>5 DEF flags
<1>7. ASSUME NEW s \in Syncer, Commit(s) \/ Rollback(s) \/ Purge(s) PROVE Steady
  <2>1. /\ UNCHANGED flags
        /\ \/ job' = [job EXCEPT ![s] = Idle]
           \/ job' = [job EXCEPT ![s] = [Idle EXCEPT !.pc = "idle"]]
           \/ job' = [job EXCEPT ![s] = [Idle EXCEPT !.pc = "purge"]]
    BY <1>7 DEF Commit, Rollback, Purge, flags
  <2>2. /\ \A x \in Syncer \ {s} : job'[x] = job[x]
        /\ job'[s].pc \in {"idle", "purge"}
    BY <2>1, <1>t DEF Idle
  <2>3. s \in Daily => ~Inside(s)
    BY <1>7, <1>p DEF Commit, Rollback, Purge, Placed
  <2>4. QED
    BY <1>3, <2>1, <2>2, <2>3 DEF flags
<1>8. CASE ProviderChanges \/ Expire \/ \E r \in Reader : Load(r) \/ Fill(r)
  BY <1>1, <1>8 DEF ProviderChanges, Expire, Load, Fill
<1>9. CASE UNCHANGED vars
  BY <1>1, <1>9 DEF vars, flags
<1>10. QED
  BY <1>2, <1>4, <1>5, <1>6, <1>7, <1>8, <1>9 DEF Next, Prewarm, Sync

LEMMA SteadyPrewarming ==
    ASSUME Steady
    PROVE  \A p \in Replica : Prewarming(p)' = Prewarming(p)
BY DEF Steady, Prewarming, Inside

\* What setting, restoring and crashing do in one replica, and not in others.
LEMMA SetFlagEffect ==
    ASSUME TypeOK, NEW d \in Daily, SetFlag(d), NEW p \in Replica
    PROVE  /\ copied' = copied /\ Home[d] \in Replica
           /\ p # Home[d] => /\ defer'[p] = defer[p] /\ overlap'[p] = overlap[p]
                             /\ Prewarming(p)' = Prewarming(p)
           /\ p = Home[d] => /\ defer'[p] = TRUE
                             /\ ~overlap'[p] => ~overlap[p] /\ Prewarming(p) = {}
                             /\ Prewarming(p)' = Prewarming(p) \cup {d}
           /\ job'[d].saved = defer[Home[d]]
           /\ \A x \in Daily \ {d} : job'[x].saved = job[x].saved
           /\ \A s \in Direct :
                 /\ job'[s].pc = job[s].pc /\ job'[s].keyed = job[s].keyed
                 /\ job'[s].touched = (job[s].touched \/ Runs(s, Home[d]))
<1>t. /\ job \in [Syncer -> JobType] /\ \A s \in Syncer : job[s] \in JobType
      /\ overlap \in [Replica -> BOOLEAN] /\ defer \in [Replica -> BOOLEAN]
      /\ \A s \in Syncer : Home[s] \in Replica
      /\ Syncer = Direct \cup Daily /\ Direct \cap Daily = {}
  BY StandingsAssumption DEF TypeOK, Syncer
<1> DEFINE flagged == [job[d] EXCEPT !.pc = "flagged", !.saved = defer[Home[d]]]
<1>1. \A x \in Syncer : job'[x] = IF x = d THEN flagged
                                  ELSE IF Runs(x, Home[d])
                                       THEN [job[x] EXCEPT !.touched = TRUE]
                                       ELSE job[x]
  BY DEF SetFlag
<1>2. job'[d].pc = "flagged" /\ job'[d].saved = defer[Home[d]] /\ job[d].pc = "idle"
  <2>1. job'[d] = flagged /\ job[d] \in JobType
    BY <1>1, <1>t
  <2>2. flagged.pc = "flagged" /\ flagged.saved = defer[Home[d]]
    BY <2>1 DEF JobType
  <2>3. job[d].pc = "idle"
    BY DEF SetFlag
  <2> HIDE DEF flagged
  <2>4. QED
    BY <2>1, <2>2, <2>3
<1> HIDE DEF flagged
<1>3. ASSUME NEW x \in Syncer \ {d}
      PROVE  /\ job'[x].pc = job[x].pc /\ job'[x].saved = job[x].saved
             /\ job'[x].keyed = job[x].keyed
             /\ job'[x].touched = (job[x].touched \/ Runs(x, Home[d]))
  <2>1. CASE Runs(x, Home[d])
    <3>1. job'[x] = [job[x] EXCEPT !.touched = TRUE] /\ job[x] \in JobType
      BY <1>1, <1>t, <2>1
    <3>2. QED
      BY <2>1, <3>1 DEF JobType
  <2>2. CASE ~Runs(x, Home[d])
    <3>1. job'[x] = job[x] /\ job[x] \in JobType
      BY <1>1, <1>t, <2>2
    <3>2. QED
      BY <2>2, <3>1 DEF JobType, Runs
  <2>3. QED
    BY <2>1, <2>2
<1>4. /\ p # Home[d] => Prewarming(p)' = Prewarming(p)
      /\ p = Home[d] => Prewarming(p)' = Prewarming(p) \cup {d}
  BY <1>2, <1>3, <1>t DEF Prewarming
<1>5. /\ copied' = copied
      /\ defer'[p] = IF p = Home[d] THEN TRUE ELSE defer[p]
      /\ overlap'[p] = IF p = Home[d] THEN overlap[p] \/ Prewarming(p) # {}
                                      ELSE overlap[p]
  BY <1>t DEF SetFlag
<1>6. QED
  BY <1>2, <1>3, <1>4, <1>5, <1>t

LEMMA RestoreEffect ==
    ASSUME TypeOK, NEW d \in Daily, Restore(d), NEW p \in Replica
    PROVE  /\ UNCHANGED <<copied, overlap>> /\ d \in Prewarming(Home[d])
           /\ p # Home[d] => defer'[p] = defer[p] /\ Prewarming(p)' = Prewarming(p)
           /\ p = Home[d] => /\ defer'[p] = job[d].saved
                             /\ Prewarming(p)' = Prewarming(p) \ {d}
           /\ \A x \in Daily \ {d} : job'[x].saved = job[x].saved
           /\ \A s \in Direct : job'[s] = job[s]
<1>t. /\ job \in [Syncer -> JobType] /\ \A s \in Syncer : job[s] \in JobType
      /\ defer \in [Replica -> BOOLEAN]
      /\ \A s \in Syncer : Home[s] \in Replica
      /\ Syncer = Direct \cup Daily /\ Direct \cap Daily = {}
  BY StandingsAssumption DEF TypeOK, Syncer
<1>1. /\ \A x \in Syncer \ {d} : job'[x] = job[x]
      /\ job'[d].pc = "open" /\ job[d].pc = "restore"
  BY <1>t DEF Restore, JobType
<1>2. /\ p # Home[d] => Prewarming(p)' = Prewarming(p)
      /\ p = Home[d] => Prewarming(p)' = Prewarming(p) \ {d}
      /\ d \in Prewarming(Home[d])
  BY <1>1, <1>t DEF Prewarming
<1>3. UNCHANGED <<copied, overlap>>
      /\ defer'[p] = IF p = Home[d] THEN job[d].saved ELSE defer[p]
  BY <1>t DEF Restore
<1>4. QED
  BY <1>1, <1>2, <1>3, <1>t

LEMMA CrashEffect ==
    ASSUME TypeOK, NEW q \in Replica, Crash(q), NEW p \in Replica
    PROVE  /\ p # q => /\ defer'[p] = defer[p] /\ overlap'[p] = overlap[p]
                       /\ copied'[p] = copied[p] /\ Prewarming(p)' = Prewarming(p)
           /\ p = q => ~defer'[p] /\ Prewarming(p)' = {}
           /\ \A s \in Syncer : /\ Home[s] = q => job'[s].pc = "idle"
                                /\ Home[s] # q => job'[s] = job[s]
<1>t. /\ overlap \in [Replica -> BOOLEAN] /\ defer \in [Replica -> BOOLEAN]
      /\ copied \in [Replica -> BOOLEAN] /\ Daily \subseteq Syncer
  BY DEF TypeOK, Syncer
<1>1. \A s \in Syncer : /\ Home[s] = q => job'[s].pc = "idle"
                        /\ Home[s] # q => job'[s] = job[s]
  BY DEF Crash, Idle
<1>2. /\ p # q => Prewarming(p)' = Prewarming(p)
      /\ p = q => Prewarming(p)' = {}
  BY <1>1, <1>t DEF Prewarming
<1>3. /\ p # q => /\ defer'[p] = defer[p] /\ overlap'[p] = overlap[p]
                  /\ copied'[p] = copied[p]
      /\ p = q => ~defer'[p]
  BY <1>t DEF Crash
<1>4. QED
  BY <1>1, <1>2, <1>3

LEMMA FlagOfOneStep == ASSUME IndInv, [Next]_vars PROVE FlagOfOne'
<1>t. TypeOK /\ Placed /\ FlagOfOne
  BY DEF IndInv
<1>g. SUFFICES ASSUME NEW p \in Replica, ~overlap'[p]
               PROVE  /\ \A d, e \in Prewarming(p)' : d = e
                      /\ \A d \in Prewarming(p)' : ~job'[d].saved
                      /\ defer'[p] => Prewarming(p)' # {}
  BY DEF FlagOfOne
<1>o. ~overlap[p] => /\ \A d, e \in Prewarming(p) : d = e
                     /\ \A d \in Prewarming(p) : ~job[d].saved
                     /\ defer[p] => Prewarming(p) # {}
  BY <1>t DEF FlagOfOne
<1>d. Prewarming(p) \subseteq Daily /\ Prewarming(p)' \subseteq Daily
      /\ \A d \in Prewarming(p) : Home[d] = p /\ Inside(d)
  BY DEF Prewarming, Inside
<1>1. CASE Steady
  BY <1>1, <1>g, <1>o, <1>d, SteadyPrewarming DEF Steady
<1>2. ASSUME NEW d \in Daily, SetFlag(d)
      PROVE  /\ \A x, e \in Prewarming(p)' : x = e
             /\ \A x \in Prewarming(p)' : ~job'[x].saved
             /\ defer'[p] => Prewarming(p)' # {}
  <2>1. CASE p = Home[d]
    <3>0. ~overlap'[p] => ~overlap[p] /\ Prewarming(p) = {}
      BY <1>2, <1>t, <2>1, SetFlagEffect
    <3>p. Prewarming(p)' = Prewarming(p) \cup {d}
      BY <1>2, <1>t, <2>1, SetFlagEffect
    <3>1. ~overlap[p] /\ Prewarming(p) = {} /\ Prewarming(p)' = {d}
      BY <1>g, <3>0, <3>p
    <3>s. job'[d].saved = defer[p]
      BY <1>2, <1>t, <2>1, SetFlagEffect
    <3>2. ~job'[d].saved
      BY <1>o, <3>1, <3>s
    <3>3. QED
      BY <3>1, <3>2
  <2>2. CASE p # Home[d]
    <3>1. /\ ~overlap[p] /\ Prewarming(p)' = Prewarming(p) /\ defer'[p] = defer[p]
          /\ \A x \in Daily \ {d} : job'[x].saved = job[x].saved
      BY <1>2, <1>g, <1>t, <2>2, SetFlagEffect
    <3>2. d \notin Prewarming(p)
      BY <1>d, <2>2
    <3>3. QED
      BY <1>o, <1>d, <3>1, <3>2
  <2>3. QED
    BY <2>1, <2>2
<1>3. ASSUME NEW d \in Daily, Restore(d)
      PROVE  /\ \A x, e \in Prewarming(p)' : x = e
             /\ \A x \in Prewarming(p)' : ~job'[x].saved
             /\ defer'[p] => Prewarming(p)' # {}
  <2>0. ~overlap[p]
    BY <1>3, <1>g, <1>t, RestoreEffect
  <2>1. CASE p = Home[d]
    <3>1. d \in Prewarming(p) /\ Prewarming(p)' = Prewarming(p) \ {d}
          /\ defer'[p] = job[d].saved
      BY <1>3, <1>t, <2>1, RestoreEffect
    <3>2. Prewarming(p)' = {} /\ ~defer'[p]
      BY <1>o, <2>0, <3>1
    <3>3. QED
      BY <3>2
  <2>2. CASE p # Home[d]
    <3>1. /\ Prewarming(p)' = Prewarming(p) /\ defer'[p] = defer[p]
          /\ \A x \in Daily \ {d} : job'[x].saved = job[x].saved
      BY <1>3, <1>t, <2>2, RestoreEffect
    <3>2. d \notin Prewarming(p)
      BY <1>d, <2>2
    <3>3. QED
      BY <1>o, <1>d, <2>0, <3>1, <3>2
  <2>3. QED
    BY <2>1, <2>2
<1>4. ASSUME NEW q \in Replica, Crash(q)
      PROVE  /\ \A x, e \in Prewarming(p)' : x = e
             /\ \A x \in Prewarming(p)' : ~job'[x].saved
             /\ defer'[p] => Prewarming(p)' # {}
  <2>1. CASE p = q
    BY <1>4, <1>t, <2>1, CrashEffect
  <2>2. CASE p # q
    <3>1. /\ ~overlap[p] /\ Prewarming(p)' = Prewarming(p) /\ defer'[p] = defer[p]
          /\ \A s \in Syncer : Home[s] = p => job'[s] = job[s]
      BY <1>4, <1>g, <1>t, <2>2, CrashEffect
    <3>2. \A x \in Prewarming(p) : job'[x] = job[x]
      BY <1>d, <3>1 DEF Syncer
    <3>3. QED
      BY <1>o, <3>1, <3>2
  <2>3. QED
    BY <2>1, <2>2
<1>5. QED
  BY <1>1, <1>2, <1>3, <1>4, <1>t, FlagEffects

LEMMA UntouchedStep == ASSUME IndInv, [Next]_vars PROVE Untouched'
<1>t. TypeOK /\ Placed /\ Untouched
  BY DEF IndInv
<1>b. /\ \A s \in Direct : Home[s] \in Replica /\ s \in Syncer
      /\ \A d \in Daily : Home[d] \in Replica
  BY StandingsAssumption DEF Syncer
<1> DEFINE Clean(p) == ~defer[p] /\ ~copied[p] /\ Prewarming(p) = {}
           OkOf(s) == /\ AtWork(s) /\ ~job[s].touched => Clean(Home[s])
                      /\ job[s].pc = "commit" /\ ~job[s].keyed => job[s].touched
<1>g. SUFFICES ASSUME NEW s \in Direct PROVE OkOf(s)'
  BY DEF Untouched, AtWork
<1>o. OkOf(s)
  BY <1>t DEF Untouched, AtWork
<1>c. job[s].pc = "commit" => AtWork(s)
  BY DEF AtWork, Writing
<1>1. CASE Steady
  <2>1. Prewarming(Home[s])' = Prewarming(Home[s]) /\ defer' = defer
        /\ (copied'[Home[s]] = copied[Home[s]] \/ copied'[Home[s]] = defer[Home[s]])
    BY <1>1, <1>b, SteadyPrewarming DEF Steady
  <2>2. Clean(Home[s]) => Clean(Home[s])'
    BY <2>1
  <2>3. CASE Sees(s)
    BY <2>1, <2>3 DEF Sees
  <2>4. CASE GoesOn(s)
    <3>1. AtWork(s)' /\ ~job'[s].touched => Clean(Home[s])'
      BY <1>o, <2>2, <2>4 DEF GoesOn
    <3>2. ASSUME job'[s].pc = "commit", ~job'[s].keyed PROVE job'[s].touched
      <4>1. AtWork(s)' /\ AtWork(s) /\ job'[s].touched = job[s].touched
        BY <2>4, <3>2 DEF GoesOn, AtWork, Writing
      <4>2. CASE job[s].pc = "commit" /\ job'[s].keyed = job[s].keyed
        BY <1>o, <3>2, <4>1, <4>2
      <4>3. CASE job'[s].keyed = ~copied[Home[s]]
        <5>1. copied[Home[s]]
          BY <3>2, <4>3
        <5>2. QED
          BY <1>o, <4>1, <5>1
      <4>4. QED
        BY <2>4, <3>2, <4>2, <4>3 DEF GoesOn
    <3>3. QED
      BY <3>1, <3>2
  <2>5. QED
    BY <1>1, <2>3, <2>4 DEF Steady
<1>2. ASSUME NEW d \in Daily, SetFlag(d) PROVE OkOf(s)'
  <2>1. /\ job'[s].pc = job[s].pc /\ job'[s].keyed = job[s].keyed
        /\ job'[s].touched = (job[s].touched \/ Runs(s, Home[d]))
    BY <1>2, <1>t, <1>b, SetFlagEffect
  <2>2. CASE Home[s] = Home[d]
    <3>1. AtWork(s) => job'[s].touched
      BY <1>g, <2>1, <2>2 DEF Runs, AtWork, Writing
    <3>2. QED
      BY <1>c, <2>1, <3>1 DEF AtWork
  <2>3. CASE Home[s] # Home[d]
    <3>1. Clean(Home[s]) => Clean(Home[s])'
      BY <1>2, <1>t, <1>b, <2>3, SetFlagEffect
    <3>2. QED
      BY <1>o, <2>1, <3>1 DEF AtWork
  <2>4. QED
    BY <2>2, <2>3
<1>3. ASSUME NEW d \in Daily, Restore(d) PROVE OkOf(s)'
  <2>1. job'[s] = job[s]
    BY <1>3, <1>t, <1>b, RestoreEffect
  <2>2. Clean(Home[s]) => Clean(Home[s])'
    BY <1>3, <1>t, <1>b, RestoreEffect
  <2>3. QED
    BY <1>o, <2>1, <2>2 DEF AtWork
<1>4. ASSUME NEW q \in Replica, Crash(q) PROVE OkOf(s)'
  <2>1. CASE Home[s] = q
    BY <1>4, <1>t, <1>b, <2>1, CrashEffect DEF AtWork, Writing
  <2>2. CASE Home[s] # q
    <3>1. job'[s] = job[s] /\ (Clean(Home[s]) => Clean(Home[s])')
      BY <1>4, <1>t, <1>b, <2>2, CrashEffect
    <3>2. QED
      BY <1>o, <3>1 DEF AtWork
  <2>3. QED
    BY <2>1, <2>2
<1>5. QED
  BY <1>1, <1>2, <1>3, <1>4, <1>t, FlagEffects

-----------------------------------------------------------------------------
(* The results.                                                            *)

LEMMA InitInv == Init => IndInv
<1> SUFFICES ASSUME Init PROVE IndInv
  OBVIOUS
<1> USE StandingsAssumption DEF Init
<1>1. TypeOK
  <2>1. Idle \in JobType
    BY DEF Idle, JobType, Label
  <2>2. QED
    BY <2>1 DEF TypeOK, Version, Copy
<1>i. \A s \in Syncer : job[s] = Idle
  OBVIOUS
<1>s. Daily \subseteq Syncer /\ Direct \subseteq Syncer
  BY DEF Syncer
<1>2. Locked /\ Placed /\ Shaped
  BY <1>i, <1>s DEF Idle, Locked, Placed, Shaped, Writing
<1>3. Apart /\ InOrder /\ Replacing /\ Harmless
  BY <1>i, <1>s DEF Idle, Apart, Held, InOrder, Replacing, Harmless, Writing
<1>4. FlagOfOne /\ Untouched
  BY <1>i, <1>s DEF Idle, FlagOfOne, Untouched, Prewarming, Writing
<1>5. MixedOnlyByPrewarm /\ FactsFollowOwnRows
  BY DEF MixedOnlyByPrewarm, FactsFollowOwnRows
<1>6. QED
  BY <1>1, <1>2, <1>3, <1>4, <1>5 DEF IndInv

LEMMA IndInvStep == IndInv /\ [Next]_vars => IndInv'
<1> SUFFICES ASSUME IndInv, [Next]_vars PROVE IndInv'
  OBVIOUS
<1>1. TypeOK'
  BY TypeStep DEF IndInv
<1>2. QED
  BY <1>1, LockedStep, PlacedStep, ShapedStep, ApartStep, InOrderStep, ReplacingStep,
     HarmlessStep, FlagOfOneStep, UntouchedStep, TableStep DEF IndInv

LEMMA IndInvHolds == Spec => []IndInv
BY InitInv, IndInvStep, PTL DEF Spec

(* The variables keep their types (standing_repository.py,                 *)
(* standing_sync_service.py, the flag of standing_service.py).             *)
THEOREM TypeCorrect == Spec => []TypeOK
<1>1. IndInv => TypeOK
  BY DEF IndInv
<1>2. QED
  BY <1>1, IndInvHolds, PTL

(* Rows that jobs and routes stored are of one answer, whatever prewarms   *)
(* commit behind them (upsert_standings, _prewarm_missing_standings).      *)
THEOREM MixedOnlyByPrewarmHolds == Spec => []MixedOnlyByPrewarm
<1>1. IndInv => MixedOnlyByPrewarm
  BY DEF IndInv
<1>2. QED
  BY <1>1, IndInvHolds, PTL

(* A row that a job or route stored has its fact, of the same answer       *)
(* (upsert_standings, project_standing).                                   *)
THEOREM FactsFollowOwnRowsHolds == Spec => []FactsFollowOwnRows
<1>1. IndInv => FactsFollowOwnRows
  BY DEF IndInv
<1>2. QED
  BY <1>1, IndInvHolds, PTL

(* The flag of a replica is set only while a prewarm runs there or when    *)
(* two have overlapped, and a commit that queues no cache key met one      *)
(* (sync_daily_fixtures, upsert_standings).                                *)
THEOREM FlagExplainedHolds == Spec => []FlagExplained
<1>1. IndInv => FlagExplained
  BY DEF IndInv, FlagOfOne, Untouched, FlagExplained
<1>2. QED
  BY <1>1, IndInvHolds, PTL

(* No row is overwritten by an older answer (run_with_resource_lock in the *)
(* prewarm, upsert_standings).                                             *)
THEOREM RowsMoveForwardHolds == Spec => RowsMoveForward
<1>1. IndInv /\ [Next]_vars => [\A t \in Team : rows[t]' # 0 => rows[t]' >= rows[t]]_rows
  BY RowsStep
<1>2. QED
  BY <1>1, IndInvHolds, PTL DEF Spec, RowsMoveForward
=============================================================================
