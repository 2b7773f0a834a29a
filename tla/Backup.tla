---------------------------------- MODULE Backup ----------------------------------
(***************************************************************************)
(* The database backup (ops/backup/backup.py): dump, encryption, upload,   *)
(* records, retention and the stale check; the asset backup beside it      *)
(* (asset_backup.py), which races uploads of news images (services/        *)
(* upload.py); and what restore_verify.py accepts.                         *)
(*                                                                         *)
(* A run is one invocation, by the timer or by hand.  Its id is the time   *)
(* of its start, so two runs may share one, and with it their files.  The  *)
(* content of an artifact is the run whose dump it is, or Torn.            *)
(***************************************************************************)
EXTENDS Naturals, FiniteSets

CONSTANTS Run, Asset, File,
          Torn, None,
          Keep,        \* BACKUP_RETENTION_DAYS, in ticks of the clock
          Stale,       \* BACKUP_STALE_HOURS, in ticks
          Longest,     \* ticks a run may take
          MaxTime

Time == 0..MaxTime
Content == Run \cup {Torn}

\* A record (the JSON beside an artifact), and an artifact, with the time its
\* file was written: copy2 takes that along.
Record == [ok: BOOLEAN, done: Time, sum: Content \cup {None}]
Stored == [has: Content, mtime: Time]

ASSUME BackupAssumption ==
    /\ Torn \notin Run /\ None \notin Content /\ None \notin Record \cup Stored
    /\ Keep \in Nat /\ Stale \in Nat /\ Longest \in Nat /\ MaxTime \in Nat
    /\ Stale + Longest <= Keep

VARIABLES
    now,
    run,       \* run[r]: [pc, id, sum, ok] of an invocation
    dumped,    \* dumped[r]: image references in the dump of r
    local,     \* local[t]: encrypted file of id t in BACKUP_LOCAL_DIR
    record,    \* record[t]: its record there
    store,     \* store[t]: the artifact in the separate storage
    away,      \* away[t]: the record uploaded beside it
    image,     \* news images on disk
    refs,      \* images that committed news refer to
    asset      \* asset[b]: [pc, sum, arch, refs] of an asset backup

backupVars == <<now, run, dumped, local, record, store, away, image, refs, asset>>

BackupInit ==
    /\ now = 0
    /\ run = [r \in Run |-> [pc |-> "idle", id |-> 0, sum |-> None, ok |-> FALSE]]
    /\ dumped = [r \in Run |-> {}]
    /\ local = [t \in Time |-> None]
    /\ record = [t \in Time |-> None]
    /\ store = [t \in Time |-> None]
    /\ away = [t \in Time |-> None]
    /\ image = {}
    /\ refs = {}
    /\ asset = [b \in Asset |-> [pc |-> "idle", sum |-> {}, arch |-> {}, refs |-> {}]]

Ends == {"idle", "done", "failed"}
Twins(r) == {q \in Run \ {r} : run[q].pc # "idle" /\ run[q].id = run[r].id}
Files == <<local, record, store, away>>
Assets == <<image, refs, asset>>

-----------------------------------------------------------------------------
(* create_backup.                                                          *)

BackupGoto(r, label) == run' = [run EXCEPT ![r].pc = label]
End(r, label) == run' = [run EXCEPT ![r] = [pc |-> label, id |-> @.id,
                                            sum |-> None, ok |-> FALSE]]

Start(r) ==
    /\ run[r].pc = "idle"
    /\ run' = [run EXCEPT ![r].pc = "dump", ![r].id = now]
    /\ UNCHANGED <<now, dumped, Files, Assets>>

\* pg_dump sees one snapshot of the database.
Dump(r) ==
    /\ run[r].pc = "dump"
    /\ dumped' = [dumped EXCEPT ![r] = refs]
    /\ BackupGoto(r, "encrypt")
    /\ UNCHANGED <<now, Files, Assets>>

Encrypt(r) ==
    /\ run[r].pc = "encrypt"
    /\ local' = [local EXCEPT ![run[r].id] = [has |-> r, mtime |-> now]]
    /\ BackupGoto(r, "sum")
    /\ UNCHANGED <<now, dumped, record, store, away, Assets>>

\* The checksum of what is there now.
Checksum(r) ==
    /\ run[r].pc = "sum" /\ local[run[r].id] # None
    /\ run' = [run EXCEPT ![r].pc = "upload", ![r].sum = local[run[r].id].has]
    /\ UNCHANGED <<now, dumped, Files, Assets>>

\* The copy, which may come out torn.
Upload(r) ==
    LET t == run[r].id IN
    /\ run[r].pc = "upload" /\ local[t] # None
    /\ store' \in {[store EXCEPT ![t] = local[t]],
                  [store EXCEPT ![t] = [local[t] EXCEPT !.has = Torn]]}
    /\ BackupGoto(r, "verify")
    /\ UNCHANGED <<now, dumped, local, record, away, Assets>>

\* (Variant: what was uploaded is not verified.)
SeenWholeNever(r) == TRUE

\* Size and hash of the copy.
SeenWhole(r) ==
    LET t == run[r].id IN
    /\ local[t] # None /\ store[t] # None
    /\ store[t].has = local[t].has /\ store[t].has = run[r].sum

Verify(r) ==
    /\ run[r].pc = "verify" /\ SeenWhole(r)
    /\ run' = [run EXCEPT ![r].pc = "record", ![r].ok = TRUE]
    /\ UNCHANGED <<now, dumped, Files, Assets>>

\* write_metadata, with status SUCCESS.
WriteRecord(r) ==
    /\ run[r].pc = "record"
    /\ record' = [record EXCEPT ![run[r].id] = [ok |-> TRUE, done |-> now, sum |-> run[r].sum]]
    /\ BackupGoto(r, "send")
    /\ UNCHANGED <<now, dumped, local, store, away, Assets>>

UploadRecord(r) ==
    /\ run[r].pc = "send"
    /\ away' = [away EXCEPT ![run[r].id] = record[run[r].id]]
    /\ BackupGoto(r, "retain")
    /\ UNCHANGED <<now, dumped, local, record, store, Assets>>

\* Records of failures and old ones are removed; no local artifact is.
Retain(r) ==
    /\ run[r].pc = "retain"
    /\ record' = [t \in Time |->
                    IF /\ record[t] # None /\ t # run[r].id
                       /\ ~record[t].ok \/ t + Keep < now
                    THEN None ELSE record[t]]
    /\ BackupGoto(r, "retain_remote")
    /\ UNCHANGED <<now, dumped, local, store, away, Assets>>

\* The newest artifact of the storage, and what is older than the retention;
\* the removals are one step.
Newest == {t \in Time : /\ store[t] # None
                        /\ \A u \in Time : store[u] # None => store[u].mtime <= store[t].mtime}
Old(t) == store[t] # None /\ store[t].mtime + Keep < now
Retained(kept) ==
    /\ store' = [t \in Time |-> IF Old(t) /\ t # kept THEN None ELSE store[t]]
    /\ away' = [t \in Time |-> IF Old(t) /\ t # kept THEN None ELSE away[t]]

RetainRemote(r) ==
    /\ run[r].pc = "retain_remote"
    /\ \E kept \in Newest : Retained(kept)
    /\ End(r, "done")
    /\ UNCHANGED <<now, dumped, local, record, Assets>>

\* Any step fails: pg_dump, the disk, the storage, the network, a verification.
\* What was begun may be left torn.
Break(r) ==
    LET t == run[r].id IN
    /\ run[r].pc \notin Ends \cup {"handler"}
    /\ BackupGoto(r, "handler")
    /\ local' \in IF run[r].pc = "encrypt" THEN {local, [local EXCEPT ![t] = [has |-> Torn, mtime |-> now]]}
                  ELSE {local}
    /\ store' \in IF run[r].pc = "upload"
                  THEN {store, [store EXCEPT ![t] = [has |-> Torn, mtime |-> now]]}
                  ELSE {store}
    /\ UNCHANGED <<now, dumped, record, away, Assets>>

\* (Variant: retention runs after a failure as well.)
HandleRetaining(r) ==
    /\ run[r].pc = "handler"
    /\ \E kept \in Newest : Retained(kept)
    /\ End(r, "failed")
    /\ UNCHANGED <<now, dumped, local, record, Assets>>

\* The exception handler writes the record, SUCCESS if the status was set, and
\* then removes the local artifact.  It may fail at either; a record that is torn
\* is none to its readers.  The alert is sent in any case.
Handle(r) ==
    LET t == run[r].id
        written == [record EXCEPT ![t] = [ok |-> run[r].ok, done |-> now, sum |-> run[r].sum]]
    IN
    /\ run[r].pc = "handler"
    /\ \/ record' = written /\ local' \in {local, [local EXCEPT ![t] = None]}
       \/ record' \in {record, [record EXCEPT ![t] = None]} /\ UNCHANGED local
    /\ End(r, "failed")
    /\ UNCHANGED <<now, dumped, store, away, Assets>>

\* The process is killed: no handler, no alert.
Die(r) ==
    LET t == run[r].id IN
    /\ run[r].pc \notin Ends
    /\ End(r, "failed")
    /\ local' \in IF run[r].pc = "encrypt" THEN {local, [local EXCEPT ![t] = [has |-> Torn, mtime |-> now]]}
                  ELSE {local}
    /\ store' \in IF run[r].pc = "upload"
                  THEN {store, [store EXCEPT ![t] = [has |-> Torn, mtime |-> now]]}
                  ELSE {store}
    /\ UNCHANGED <<now, dumped, record, away, Assets>>

-----------------------------------------------------------------------------
(* News images and the asset backup.                                       *)

KeepRuns == UNCHANGED <<now, run, dumped, Files>>

\* upload_news_image: the file is written, and only then has a URL.
WriteImage(f) ==
    /\ f \notin image
    /\ image' = image \cup {f}
    /\ UNCHANGED <<refs, asset>> /\ KeepRuns

\* (Variant: the URL is given before the file is written.)
PublishEarly(f) ==
    /\ f \notin refs
    /\ refs' = refs \cup {f}
    /\ UNCHANGED <<image, asset>> /\ KeepRuns

\* A news item with the URL is committed.
Publish(f) ==
    /\ f \in image /\ f \notin refs
    /\ refs' = refs \cup {f}
    /\ UNCHANGED <<image, asset>> /\ KeepRuns

\* create_asset_backup: the checksum of the tree ...
AssetSum(b) ==
    /\ asset[b].pc = "idle"
    /\ asset' = [asset EXCEPT ![b] = [pc |-> "archive", sum |-> image, arch |-> {},
                                     refs |-> refs]]
    /\ UNCHANGED <<image, refs>> /\ KeepRuns

\* ... then the archive, and the record: SUCCESS.
AssetArchive(b) ==
    /\ asset[b].pc = "archive"
    /\ asset' = [asset EXCEPT ![b].pc = "done", ![b].arch = image]
    /\ UNCHANGED <<image, refs>> /\ KeepRuns

-----------------------------------------------------------------------------
\* A day is long for a run, and far from the retention.
Tick ==
    /\ now < MaxTime
    /\ \A r \in Run : run[r].pc \notin Ends => now < run[r].id + Longest
    /\ now' = now + 1
    /\ UNCHANGED <<run, dumped, Files, Assets>>

Works(r) ==
    \/ Start(r) \/ Dump(r) \/ Encrypt(r) \/ Checksum(r) \/ Upload(r) \/ Verify(r)
    \/ WriteRecord(r) \/ UploadRecord(r) \/ Retain(r) \/ RetainRemote(r)
    \/ Break(r) \/ Handle(r) \/ Die(r)

BackupNext ==
    \/ \E r \in Run : Works(r)
    \/ \E f \in File : WriteImage(f) \/ Publish(f)
    \/ \E b \in Asset : AssetSum(b) \/ AssetArchive(b)
    \/ Tick

BackupSpec == BackupInit /\ [][BackupNext]_backupVars

-----------------------------------------------------------------------------
(* What restore_verify accepts: the record beside the artifact, if there   *)
(* is one, decryption (AES-GCM authenticates), pg_restore.                 *)
Accepted(t) ==
    /\ store[t] # None /\ store[t].has # Torn
    /\ away[t] # None => away[t].ok /\ away[t].sum = store[t].has

\* ... and with an asset backup: the trees agree and hold what news refer to.
PairAccepted(t, b) ==
    /\ Accepted(t) /\ asset[b].pc = "done"
    /\ asset[b].arch = asset[b].sum
    /\ dumped[store[t].has] \subseteq asset[b].arch

\* The types.
BackupTypeOK ==
    /\ now \in Time
    /\ run \in [Run -> [pc: Ends \cup {"dump", "encrypt", "sum", "upload", "verify", "record",
                                      "send", "retain", "retain_remote", "handler"},
                        id: Time, sum: Content \cup {None}, ok: BOOLEAN]]
    /\ dumped \in [Run -> SUBSET File]
    /\ local \in [Time -> Stored \cup {None}] /\ store \in [Time -> Stored \cup {None}]
    /\ record \in [Time -> Record \cup {None}] /\ away \in [Time -> Record \cup {None}]
    /\ image \in SUBSET File /\ refs \in SUBSET File
    /\ asset \in [Asset -> [pc: {"idle", "archive", "done"}, sum: SUBSET File,
                            arch: SUBSET File, refs: SUBSET File]]

\* A record that says SUCCESS within the retention stands for a whole artifact
\* in the storage, also when a later step of that run failed and its handler
\* wrote the record again, so that the stale check can be trusted; but for runs
\* that started in the same second.
SuccessIsStored ==
    \A r \in Run :
        LET t == run[r].id IN
        (/\ run[r].pc # "idle" /\ Twins(r) = {}
         /\ record[t] # None /\ record[t].ok /\ now <= record[t].done + Stale)
            => store[t] # None /\ store[t].has = r

\* "Do not delete the last valid backup": whatever runs fail, die or overlap,
\* retention leaves one that can be restored (retain_remote keeps the newest
\* and is reached only by a run whose upload was verified); only a torn
\* artifact of the same second replaces one.
LastValidKept ==
    [][ (\E t \in Time : store[t] # None /\ store[t].has # Torn)
        /\ (\A r \in Run : run[r].pc # "idle" => Twins(r) = {})
            => \E t \in Time : store'[t] # None /\ store'[t].has # Torn ]_backupVars

\* A database backup whose run ended with 0, while its artifact is in the
\* storage, and an asset backup begun when the news in the dump were there
\* restore together (restore_verify, restore_asset_backup), unless an image was
\* written between the checksum of the tree and its archive: the record says
\* SUCCESS, but the trees differ.
PairsRestore ==
    \A r \in Run, b \in Asset :
        (/\ run[r].pc = "done" /\ Twins(r) = {} /\ store[run[r].id] # None
         /\ asset[b].pc = "done" /\ dumped[r] \subseteq asset[b].refs)
            => PairAccepted(run[r].id, b) \/ asset[b].sum # asset[b].arch
=============================================================================
