-------------------------------- MODULE JobProofs --------------------------------
(***************************************************************************)
(* Proofs about the two jobs that write unattended: the database backup    *)
(* (Backup: what a record that says SUCCESS stands for, that retention     *)
(* leaves one to restore, what restores together) and the fixture sync     *)
(* (FixtureSync: decisions are based on the current row as long as no      *)
(* unguarded round overlaps, lineup records appear only with the end of    *)
(* their match), for any number of runs, syncs and matches.                *)
(***************************************************************************)
EXTENDS FixtureSync, Backup, TLAPS

(***************************************************************************)
(* The backup.  Of a run whose id is its own: how far it has come tells    *)
(* what there is under its id, locally and in the storage.                 *)
(***************************************************************************)
Uploading == {"dump", "encrypt", "sum", "upload"}
Recording == {"record", "send", "retain", "retain_remote"}

\* Artifacts and records are those of runs that have begun.
Traces ==
    \A t \in Time : store[t] # None \/ record[t] # None =>
        \E q \in Run : run[q].pc # "idle" /\ run[q].id = t

InTime ==
    \A r \in Run :
        /\ run[r].pc # "idle" => run[r].id <= now
        /\ run[r].pc \notin Ends => now <= run[r].id + Longest

Verified == \A r \in Run : run[r].ok => run[r].pc \in Recording \cup {"handler"}

Uploaded(r) ==
    LET t == run[r].id IN store[t] # None /\ store[t].has = r /\ t <= store[t].mtime

AtWork(r) ==
    LET t == run[r].id
        stage == run[r].pc
    IN  /\ stage \in Uploading => store[t] = None
        /\ stage \in {"sum", "upload", "verify"} \cup Recording =>
              local[t] # None /\ local[t].has = r /\ t <= local[t].mtime
        /\ stage \in {"upload", "verify"} \cup Recording => run[r].sum = r
        /\ stage = "verify" /\ store[t] # None => t <= store[t].mtime
        /\ stage \in Recording => run[r].ok
        /\ run[r].ok => Uploaded(r)
        /\ stage = "send" => record[t] # None /\ record[t].ok /\ record[t].sum = r
        /\ record[t] # None /\ record[t].ok =>
              record[t].done <= t + Longest /\ (Uploaded(r) \/ t + Keep < now)
        /\ stage \in {"retain", "retain_remote", "done"} /\ away[t] # None =>
              away[t].ok /\ away[t].sum = r
        /\ stage = "done" /\ store[t] # None => store[t].has = r

Alone == \A r \in Run : run[r].pc # "idle" /\ Twins(r) = {} => AtWork(r)

\* News refer to images that are there, and an asset backup has seen them.
Trees ==
    /\ refs \subseteq image
    /\ \A b \in Asset : asset[b].pc # "idle" => asset[b].refs \subseteq asset[b].sum

BackupInv == BackupTypeOK /\ Traces /\ InTime /\ Verified /\ Alone /\ Trees

Runs == [pc: Ends \cup {"dump", "encrypt", "sum", "upload", "verify", "record",
                        "send", "retain", "retain_remote", "handler"},
         id: Time, sum: Content \cup {None}, ok: BOOLEAN]

-----------------------------------------------------------------------------
LEMMA BackupInitInv == BackupInit => BackupInv
<1> SUFFICES ASSUME BackupInit PROVE BackupInv
  OBVIOUS
<1>1. 0 \in Time
  BY BackupAssumption DEF Time
<1>2. run \in [Run -> Runs]
  BY <1>1 DEF BackupInit, Runs, Ends
<1>3. BackupTypeOK
  BY <1>1, <1>2 DEF BackupInit, BackupTypeOK, Runs
<1>4. Traces /\ Trees
  BY DEF BackupInit, Traces, Trees
<1>5. InTime /\ Verified /\ Alone
  BY DEF BackupInit, InTime, Verified, Alone, Ends
<1>6. QED
  BY <1>3, <1>4, <1>5 DEF BackupInv

(* How a run moves on, and how it ends.                                    *)
LEMMA RunGoes ==
    ASSUME BackupTypeOK, NEW r \in Run, NEW label, BackupGoto(r, label)
    PROVE  /\ run'[r].pc = label /\ run'[r].id = run[r].id
           /\ run'[r].sum = run[r].sum /\ run'[r].ok = run[r].ok
           /\ \A q \in Run \ {r} : run'[q] = run[q]
           /\ label \in Ends \cup {"dump", "encrypt", "sum", "upload", "verify", "record",
                                   "send", "retain", "retain_remote", "handler"}
                => run' \in [Run -> Runs]
<1>1. run \in [Run -> Runs]
  BY DEF BackupTypeOK, Runs
<1>2. run' = [run EXCEPT ![r] = [run[r] EXCEPT !.pc = label]]
  BY <1>1 DEF BackupGoto
<1>3. run[r] \in Runs
  BY <1>1
<1>4. QED
  BY <1>1, <1>2, <1>3 DEF Runs

LEMMA RunEnds ==
    ASSUME BackupTypeOK, NEW r \in Run, NEW label \in {"done", "failed"}, End(r, label)
    PROVE  /\ run'[r].pc = label /\ run'[r].id = run[r].id /\ ~run'[r].ok
           /\ \A q \in Run \ {r} : run'[q] = run[q]
           /\ run' \in [Run -> Runs]
<1>1. run \in [Run -> Runs]
  BY DEF BackupTypeOK, Runs
<1> DEFINE x == [pc |-> label, id |-> run[r].id, sum |-> None, ok |-> FALSE]
<1>2. run' = [run EXCEPT ![r] = x]
  BY <1>1 DEF End
<1>3. x \in Runs
  BY <1>1 DEF Runs, Ends
<1>4. QED
  BY <1>1, <1>2, <1>3

LEMMA StartGoes ==
    ASSUME BackupTypeOK, NEW r \in Run, Start(r)
    PROVE  /\ run'[r].pc = "dump" /\ run'[r].id = now /\ run'[r].ok = run[r].ok
           /\ \A q \in Run \ {r} : run'[q] = run[q]
           /\ run' \in [Run -> Runs]
<1>1. run \in [Run -> Runs] /\ now \in Time
  BY DEF BackupTypeOK, Runs
<1> DEFINE x == [run[r] EXCEPT !.pc = "dump", !.id = now]
<1>2. run' = [run EXCEPT ![r] = x]
  BY <1>1 DEF Start
<1>3. x \in Runs /\ x.pc = "dump" /\ x.id = now /\ x.ok = run[r].ok
  BY <1>1 DEF Runs
<1>4. QED
  BY <1>1, <1>2, <1>3

LEMMA ChecksumGoes ==
    ASSUME BackupTypeOK, NEW r \in Run, Checksum(r)
    PROVE  /\ run'[r].pc = "upload" /\ run'[r].id = run[r].id /\ run'[r].ok = run[r].ok
           /\ run'[r].sum = local[run[r].id].has
           /\ \A q \in Run \ {r} : run'[q] = run[q]
           /\ run' \in [Run -> Runs]
<1>1. run \in [Run -> Runs]
  BY DEF BackupTypeOK, Runs
<1>2. run[r] \in Runs /\ run[r].id \in Time
  BY <1>1 DEF Runs
<1>3. PICK c \in Content : c = local[run[r].id].has
  BY <1>2 DEF Checksum, BackupTypeOK, Stored
<1> DEFINE x == [run[r] EXCEPT !.pc = "upload", !.sum = c]
<1>4. run' = [run EXCEPT ![r] = x]
  BY <1>1, <1>3 DEF Checksum
<1>5. x \in Runs /\ x.pc = "upload" /\ x.id = run[r].id /\ x.ok = run[r].ok /\ x.sum = c
  BY <1>2 DEF Runs
<1>6. QED
  BY <1>1, <1>3, <1>4, <1>5

LEMMA VerifyGoes ==
    ASSUME BackupTypeOK, NEW r \in Run, Verify(r)
    PROVE  /\ run'[r].pc = "record" /\ run'[r].id = run[r].id /\ run'[r].ok
           /\ run'[r].sum = run[r].sum
           /\ \A q \in Run \ {r} : run'[q] = run[q]
           /\ run' \in [Run -> Runs]
<1>1. run \in [Run -> Runs]
  BY DEF BackupTypeOK, Runs
<1> DEFINE x == [run[r] EXCEPT !.pc = "record", !.ok = TRUE]
<1>2. run' = [run EXCEPT ![r] = x]
  BY <1>1 DEF Verify
<1>3. x \in Runs /\ x.pc = "record" /\ x.id = run[r].id /\ x.ok = TRUE /\ x.sum = run[r].sum
  BY <1>1 DEF Runs
<1>4. QED
  BY <1>1, <1>2, <1>3

-----------------------------------------------------------------------------
(* Files under an id: what one is set to, and what retention removes.      *)
LEMMA IdTyped == BackupTypeOK => \A r \in Run : run[r] \in Runs /\ run[r].id \in Time
BY DEF BackupTypeOK, Runs

\* What a step does outside the id of the run that takes it.
Elsewhere(id) ==
    \A t \in Time \ {id} :
        /\ local'[t] = local[t]
        /\ \/ record'[t] = record[t]
           \/ record'[t] = None /\ record[t] # None /\ (~record[t].ok \/ t + Keep < now)
        /\ store'[t] = store[t] \/ (store'[t] = None /\ Old(t))
        /\ away'[t] = away[t] \/ away'[t] = None

FilesTyped ==
    /\ local' \in [Time -> Stored \cup {None}] /\ store' \in [Time -> Stored \cup {None}]
    /\ record' \in [Time -> Record \cup {None}] /\ away' \in [Time -> Record \cup {None}]

LEMMA FilesStay ==
    ASSUME BackupTypeOK, UNCHANGED <<local, record, store, away>>, NEW id
    PROVE  FilesTyped /\ Elsewhere(id)
BY DEF BackupTypeOK, FilesTyped, Elsewhere

LEMMA TornTyped ==
    ASSUME BackupTypeOK, NEW x \in Stored
    PROVE  /\ [x EXCEPT !.has = Torn] \in Stored
           /\ [x EXCEPT !.has = Torn].has = Torn /\ [x EXCEPT !.has = Torn].mtime = x.mtime
           /\ [has |-> Torn, mtime |-> now] \in Stored
BY DEF Stored, Content, BackupTypeOK

(* The storage keeps its newest artifact and what is not old.              *)
LEMMA RetainedFiles ==
    ASSUME BackupTypeOK, NEW kept, Retained(kept)
    PROVE  /\ store' \in [Time -> Stored \cup {None}] /\ away' \in [Time -> Record \cup {None}]
           /\ \A t \in Time : /\ store'[t] = store[t] \/ (store'[t] = None /\ Old(t))
                              /\ away'[t] = away[t] \/ away'[t] = None
BY DEF Retained, BackupTypeOK

(* What Break and Die may leave behind.                                    *)
LEMMA LeftTorn ==
    ASSUME BackupTypeOK, NEW r \in Run, UNCHANGED <<record, away>>,
           local' \in IF run[r].pc = "encrypt"
                      THEN {local, [local EXCEPT ![run[r].id] = [has |-> Torn, mtime |-> now]]}
                      ELSE {local},
           store' \in IF run[r].pc = "upload"
                      THEN {store, [store EXCEPT ![run[r].id] = [has |-> Torn, mtime |-> now]]}
                      ELSE {store}
    PROVE  /\ FilesTyped /\ Elsewhere(run[r].id)
           /\ run[r].pc # "upload" => store' = store
<1> DEFINE t == run[r].id
           torn == [has |-> Torn, mtime |-> now]
<1>1. t \in Time
  BY IdTyped
<1>2. torn \in Stored
  BY DEF Stored, Content, BackupTypeOK
<1>3. local' = local \/ local' = [local EXCEPT ![t] = torn]
  OBVIOUS
<1>4. store' = store \/ store' = [store EXCEPT ![t] = torn]
  OBVIOUS
<1> HIDE DEF t, torn
<1>5. FilesTyped
  BY <1>1, <1>2, <1>3, <1>4 DEF FilesTyped, BackupTypeOK
<1>6. Elsewhere(t)
  BY <1>3, <1>4 DEF Elsewhere, BackupTypeOK
<1>7. QED
  BY <1>5, <1>6 DEF t

-----------------------------------------------------------------------------
(* Every step of a run: it has an id from its start on, which it keeps;    *)
(* other runs and the files of other ids are left alone, but for what      *)
(* retention may remove.                                                   *)
Step(r) ==
    /\ run' \in [Run -> Runs] /\ FilesTyped
    /\ \A q \in Run \ {r} : run'[q] = run[q]
    /\ run'[r].pc # "idle"
    /\ run'[r].id = IF run[r].pc = "idle" THEN now ELSE run[r].id
    /\ run[r].pc = "idle" => run'[r].pc = "dump"
    /\ run'[r].pc \notin Ends => run[r].pc = "idle" \/ run[r].pc \notin Ends
    /\ Elsewhere(run'[r].id)
    /\ UNCHANGED <<now, image, refs, asset>>
    /\ dumped' \in [Run -> SUBSET File]

LEMMA StartStep == ASSUME BackupInv, NEW r \in Run, Start(r) PROVE Step(r)
<1>1. BackupTypeOK
  BY DEF BackupInv
<1>2. UNCHANGED <<now, dumped, image, refs, asset, local, record, store, away>>
  BY DEF Start, Files, Assets
<1>3. QED
  BY <1>1, <1>2, StartGoes, FilesStay DEF Start, Step, BackupTypeOK, Ends

LEMMA DumpStep == ASSUME BackupInv, NEW r \in Run, Dump(r) PROVE Step(r)
<1>1. BackupTypeOK
  BY DEF BackupInv
<1>2. UNCHANGED <<now, image, refs, asset, local, record, store, away>>
  BY DEF Dump, Files, Assets
<1>3. dumped' \in [Run -> SUBSET File]
  BY <1>1 DEF Dump, BackupTypeOK
<1>4. QED
  BY <1>1, <1>2, <1>3, RunGoes, FilesStay DEF Dump, Step, Ends

LEMMA EncryptFiles ==
    ASSUME BackupTypeOK, NEW r \in Run, Encrypt(r)
    PROVE  LET t == run[r].id IN
           /\ FilesTyped /\ Elsewhere(t)
           /\ local'[t] # None /\ local'[t].has = r /\ local'[t].mtime = now
<1>1. run[r].id \in Time
  BY IdTyped
<1>2. PICK x \in Stored : x = [has |-> r, mtime |-> now]
  BY DEF Stored, Content, BackupTypeOK
<1>3. x # None
  BY BackupAssumption
<1>4. local' = [local EXCEPT ![run[r].id] = x] /\ UNCHANGED <<record, store, away>>
  BY <1>2 DEF Encrypt
<1>5. QED
  BY <1>1, <1>2, <1>3, <1>4 DEF FilesTyped, Elsewhere, BackupTypeOK

LEMMA EncryptStep == ASSUME BackupInv, NEW r \in Run, Encrypt(r) PROVE Step(r)
<1>1. BackupTypeOK
  BY DEF BackupInv
<1>2. UNCHANGED <<now, dumped, image, refs, asset>>
  BY DEF Encrypt, Assets
<1>3. QED
  <2>1. /\ run[r].pc = "encrypt" /\ run'[r].pc = "sum" /\ run'[r].id = run[r].id
        /\ run' \in [Run -> Runs] /\ \A q \in Run \ {r} : run'[q] = run[q]
    BY <1>1, RunGoes DEF Encrypt
  <2>2. FilesTyped /\ Elsewhere(run[r].id)
    BY <1>1, EncryptFiles
  <2>3. QED
    BY <1>1, <1>2, <2>1, <2>2 DEF Step, BackupTypeOK, Ends

LEMMA ChecksumStep == ASSUME BackupInv, NEW r \in Run, Checksum(r) PROVE Step(r)
<1>1. BackupTypeOK
  BY DEF BackupInv
<1>2. UNCHANGED <<now, dumped, image, refs, asset, local, record, store, away>>
  BY DEF Checksum, Files, Assets
<1>3. QED
  BY <1>1, <1>2, ChecksumGoes, FilesStay DEF Checksum, Step, BackupTypeOK, Ends

LEMMA UploadFiles ==
    ASSUME BackupTypeOK, NEW r \in Run, Upload(r)
    PROVE  LET t == run[r].id IN
           /\ FilesTyped /\ Elsewhere(t) /\ UNCHANGED <<local, record, away>>
           /\ store'[t] # None /\ store'[t].mtime = local[t].mtime
           /\ \A u \in Time \ {t} : store'[u] = store[u]
<1> DEFINE t == run[r].id
<1>1. t \in Time /\ local[t] \in Stored
  BY IdTyped DEF Upload, BackupTypeOK
<1>2. PICK x \in Stored : store' = [store EXCEPT ![t] = x] /\ x.mtime = local[t].mtime
  <2>1. CASE store' = [store EXCEPT ![t] = local[t]]
    BY <1>1, <2>1
  <2>2. CASE store' = [store EXCEPT ![t] = [local[t] EXCEPT !.has = Torn]]
    BY <1>1, <2>2, TornTyped
  <2>3. QED
    BY <2>1, <2>2 DEF Upload
<1>3. x # None
  BY BackupAssumption
<1>4. UNCHANGED <<local, record, away>>
  BY DEF Upload
<1> HIDE DEF t
<1>5. QED
  BY <1>1, <1>2, <1>3, <1>4 DEF FilesTyped, Elsewhere, BackupTypeOK, t

LEMMA UploadStep == ASSUME BackupInv, NEW r \in Run, Upload(r) PROVE Step(r)
<1>1. BackupTypeOK
  BY DEF BackupInv
<1>2. UNCHANGED <<now, dumped, image, refs, asset>>
  BY DEF Upload, Assets
<1>3. QED
  BY <1>1, <1>2, RunGoes, UploadFiles DEF Upload, Step, BackupTypeOK, Ends

LEMMA VerifyStep == ASSUME BackupInv, NEW r \in Run, Verify(r) PROVE Step(r)
<1>1. BackupTypeOK
  BY DEF BackupInv
<1>2. UNCHANGED <<now, dumped, image, refs, asset, local, record, store, away>>
  BY DEF Verify, Files, Assets
<1>3. QED
  BY <1>1, <1>2, VerifyGoes, FilesStay DEF Verify, Step, BackupTypeOK, Ends

(* A record is written over what was there.                                *)
LEMMA RecordSet ==
    ASSUME BackupTypeOK, NEW r \in Run, NEW ok \in BOOLEAN,
           record' = [record EXCEPT ![run[r].id] =
                         [ok |-> ok, done |-> now, sum |-> run[r].sum]]
    PROVE  LET t == run[r].id IN
           /\ record' \in [Time -> Record \cup {None}]
           /\ record'[t] # None /\ record'[t].ok = ok /\ record'[t].done = now
           /\ record'[t].sum = run[r].sum
           /\ \A u \in Time \ {t} : record'[u] = record[u]
<1>1. run[r].id \in Time /\ run[r].sum \in Content \cup {None}
  BY IdTyped DEF Runs
<1>2. PICK x \in Record : x = [ok |-> ok, done |-> now, sum |-> run[r].sum]
  BY <1>1 DEF Record, BackupTypeOK
<1>3. x # None
  BY BackupAssumption
<1>4. QED
  BY <1>1, <1>2, <1>3 DEF BackupTypeOK

LEMMA RecordedFiles ==
    ASSUME BackupTypeOK, NEW r \in Run, WriteRecord(r)
    PROVE  LET t == run[r].id IN
           /\ FilesTyped /\ Elsewhere(t) /\ UNCHANGED <<local, store, away>>
           /\ record'[t] # None /\ record'[t].ok /\ record'[t].done = now
           /\ record'[t].sum = run[r].sum
<1>1. UNCHANGED <<local, store, away>>
  BY DEF WriteRecord
<1>2. QED
  BY <1>1, RecordSet DEF WriteRecord, FilesTyped, Elsewhere, BackupTypeOK

LEMMA WriteRecordStep == ASSUME BackupInv, NEW r \in Run, WriteRecord(r) PROVE Step(r)
<1>1. BackupTypeOK
  BY DEF BackupInv
<1>2. UNCHANGED <<now, dumped, image, refs, asset>>
  BY DEF WriteRecord, Assets
<1>3. QED
  <2>1. /\ run[r].pc = "record" /\ run'[r].pc = "send" /\ run'[r].id = run[r].id
        /\ run' \in [Run -> Runs] /\ \A q \in Run \ {r} : run'[q] = run[q]
    BY <1>1, RunGoes DEF WriteRecord
  <2>2. FilesTyped /\ Elsewhere(run[r].id)
    BY <1>1, RecordedFiles
  <2>3. QED
    BY <1>1, <1>2, <2>1, <2>2 DEF Step, BackupTypeOK, Ends

LEMMA UploadRecordStep == ASSUME BackupInv, NEW r \in Run, UploadRecord(r) PROVE Step(r)
<1>1. BackupTypeOK /\ run[r].id \in Time
  BY IdTyped DEF BackupInv
<1>2. UNCHANGED <<now, dumped, image, refs, asset, local, record, store>>
  BY DEF UploadRecord, Assets
<1>3. FilesTyped /\ Elsewhere(run[r].id)
  BY <1>1, <1>2 DEF UploadRecord, FilesTyped, Elsewhere, BackupTypeOK
<1>4. QED
  BY <1>1, <1>2, <1>3, RunGoes DEF UploadRecord, Step, BackupTypeOK, Ends

LEMMA RetainStep == ASSUME BackupInv, NEW r \in Run, Retain(r) PROVE Step(r)
<1>1. BackupTypeOK /\ run[r].id \in Time
  BY IdTyped DEF BackupInv
<1>2. UNCHANGED <<now, dumped, image, refs, asset, local, store, away>>
  BY DEF Retain, Assets
<1>3. FilesTyped /\ Elsewhere(run[r].id)
  BY <1>1, <1>2 DEF Retain, FilesTyped, Elsewhere, BackupTypeOK
<1>4. QED
  BY <1>1, <1>2, <1>3, RunGoes DEF Retain, Step, BackupTypeOK, Ends

LEMMA RetainRemoteStep == ASSUME BackupInv, NEW r \in Run, RetainRemote(r) PROVE Step(r)
<1>1. BackupTypeOK
  BY DEF BackupInv
<1>2. UNCHANGED <<now, dumped, image, refs, asset, local, record>>
  BY DEF RetainRemote, Assets
<1>3. FilesTyped /\ Elsewhere(run[r].id)
  BY <1>1, <1>2, RetainedFiles DEF RetainRemote, FilesTyped, Elsewhere, BackupTypeOK
<1>4. QED
  BY <1>1, <1>2, <1>3, RunEnds DEF RetainRemote, Step, BackupTypeOK, Ends

LEMMA BreakStep == ASSUME BackupInv, NEW r \in Run, Break(r) PROVE Step(r)
<1>1. BackupTypeOK
  BY DEF BackupInv
<1>2. UNCHANGED <<now, dumped, image, refs, asset>>
  BY DEF Break, Assets
<1>3. FilesTyped /\ Elsewhere(run[r].id)
  BY <1>1, LeftTorn DEF Break
<1>4. QED
  BY <1>1, <1>2, <1>3, RunGoes DEF Break, Step, BackupTypeOK, Ends

LEMMA HandledFiles ==
    ASSUME BackupTypeOK, NEW r \in Run, Handle(r)
    PROVE  LET t == run[r].id IN
           /\ FilesTyped /\ Elsewhere(t) /\ UNCHANGED <<store, away>>
           /\ \/ record' = record \/ record'[t] = None
              \/ record'[t].ok = run[r].ok /\ record'[t].done = now
<1>1. UNCHANGED <<store, away>> /\ run[r].id \in Time /\ run[r].ok \in BOOLEAN
  BY IdTyped DEF Handle, Runs
<1>2. CASE UNCHANGED <<record, local>>
  BY <1>1, <1>2, FilesStay
<1>3. CASE record' = [record EXCEPT ![run[r].id] = None] /\ local' = local
  BY <1>1, <1>3 DEF FilesTyped, Elsewhere, BackupTypeOK
<1>4. CASE /\ record' = [record EXCEPT ![run[r].id] =
                            [ok |-> run[r].ok, done |-> now, sum |-> run[r].sum]]
           /\ local' \in {local, [local EXCEPT ![run[r].id] = None]}
  BY <1>1, <1>4, RecordSet DEF FilesTyped, Elsewhere, BackupTypeOK
<1>5. QED
  BY <1>1, <1>2, <1>3, <1>4 DEF Handle

LEMMA HandleStep == ASSUME BackupInv, NEW r \in Run, Handle(r) PROVE Step(r)
<1>1. BackupTypeOK
  BY DEF BackupInv
<1>2. UNCHANGED <<now, dumped, image, refs, asset>>
  BY DEF Handle, Assets
<1>3. QED
  BY <1>1, <1>2, HandledFiles, RunEnds DEF Handle, Step, BackupTypeOK, Ends

LEMMA DieStep == ASSUME BackupInv, NEW r \in Run, Die(r) PROVE Step(r)
<1>1. BackupTypeOK
  BY DEF BackupInv
<1>2. UNCHANGED <<now, dumped, image, refs, asset>>
  BY DEF Die, Assets
<1>3. FilesTyped /\ Elsewhere(run[r].id)
  BY <1>1, LeftTorn DEF Die
<1>4. QED
  BY <1>1, <1>2, <1>3, RunEnds DEF Die, Step, BackupTypeOK, Ends

LEMMA WorksStep == ASSUME BackupInv, NEW r \in Run, Works(r) PROVE Step(r)
BY StartStep, DumpStep, EncryptStep, ChecksumStep, UploadStep, VerifyStep, WriteRecordStep,
   UploadRecordStep, RetainStep, RetainRemoteStep, BreakStep, HandleStep, DieStep DEF Works

-----------------------------------------------------------------------------
(* Runs that have begun keep their ids: who shares an id does so for good. *)
LEMMA StepTyped == ASSUME BackupInv, NEW r \in Run, Step(r) PROVE BackupTypeOK'
BY DEF Step, FilesTyped, Runs, BackupInv, BackupTypeOK, Ends

LEMMA IdsStay ==
    ASSUME BackupInv, NEW r \in Run, Step(r)
    PROVE  /\ \A q \in Run : run[q].pc # "idle" =>
                run'[q].pc # "idle" /\ run'[q].id = run[q].id
           /\ \A q \in Run : run[q].pc # "idle" /\ Twins(q)' = {} => Twins(q) = {}
<1>1. \A q \in Run : run[q].pc # "idle" => run'[q].pc # "idle" /\ run'[q].id = run[q].id
  BY DEF Step
<1>2. QED
  BY <1>1 DEF Twins

LEMMA TracesStep == ASSUME BackupInv, NEW r \in Run, Step(r) PROVE Traces'
<1> SUFFICES ASSUME NEW t \in Time, store'[t] # None \/ record'[t] # None
             PROVE  \E q \in Run : run'[q].pc # "idle" /\ run'[q].id = t
  BY DEF Traces, Time
<1>1. CASE t = run'[r].id
  BY <1>1 DEF Step
<1>2. CASE t # run'[r].id
  <2>1. store[t] # None \/ record[t] # None
    BY <1>2 DEF Step, Elsewhere
  <2>2. PICK q \in Run : run[q].pc # "idle" /\ run[q].id = t
    BY <2>1 DEF BackupInv, Traces
  <2>3. QED
    BY <2>2, IdsStay
<1>3. QED
  BY <1>1, <1>2

LEMMA InTimeStep == ASSUME BackupInv, NEW r \in Run, Step(r) PROVE InTime'
<1>1. now \in Nat /\ Longest \in Nat /\ now' = now
  BY BackupAssumption DEF BackupInv, BackupTypeOK, Time, Step
<1> SUFFICES ASSUME NEW q \in Run
             PROVE  /\ run'[q].pc # "idle" => run'[q].id <= now
                    /\ run'[q].pc \notin Ends => now <= run'[q].id + Longest
  BY <1>1 DEF InTime, Ends
<1>2. CASE q # r
  BY <1>2 DEF Step, BackupInv, InTime
<1>3. CASE q = r /\ run[r].pc = "idle"
  BY <1>1, <1>3 DEF Step
<1>4. CASE q = r /\ run[r].pc # "idle"
  BY <1>1, <1>4 DEF Step, BackupInv, InTime
<1>5. QED
  BY <1>2, <1>3, <1>4

(* What is said of a run holds on as long as its files stay, or go as      *)
(* retention takes them: a run at work is too young for that.              *)
LEMMA Undisturbed ==
    ASSUME BackupInv, NEW q \in Run, run[q].pc # "idle", AtWork(q), run'[q] = run[q],
           now' \in Nat, now <= now', NEW t \in Time, t = run[q].id,
           local'[t] = local[t],
           \/ record'[t] = record[t]
           \/ record'[t] = None /\ record[t] # None /\ (~record[t].ok \/ t + Keep < now),
           store'[t] = store[t] \/ (store'[t] = None /\ Old(t)),
           away'[t] = away[t] \/ away'[t] = None
    PROVE  AtWork(q)'
<1> DEFINE stage == run[q].pc
<1>1. /\ now \in Nat /\ t \in Nat /\ Longest \in Nat /\ Keep \in Nat /\ Longest <= Keep
      /\ run[q].ok \in BOOLEAN
  BY BackupAssumption, IdTyped DEF BackupInv, BackupTypeOK, Time, Runs
<1>2. stage \notin Ends => now <= t + Keep
  BY <1>1 DEF BackupInv, InTime
<1>3. store[t] # None => store[t].mtime \in Nat
  BY DEF BackupInv, BackupTypeOK, Stored, Time
<1>4. record[t] # None => record[t].done \in Nat
  BY DEF BackupInv, BackupTypeOK, Record, Time
<1>5. Uploaded(q) => Uploaded(q)' \/ t + Keep < now
  <2>1. CASE store'[t] = store[t]
    BY <2>1 DEF Uploaded
  <2>2. CASE Old(t)
    BY <1>1, <1>3, <2>2 DEF Old, Uploaded
  <2>3. QED
    BY <2>1, <2>2
<1>6. run[q].ok => stage \notin Ends
  BY DEF BackupInv, Verified, Recording, Ends
<1>7. run[q].ok => Uploaded(q)'
  BY <1>1, <1>2, <1>5, <1>6 DEF AtWork
<1>8. record'[t] # None => record'[t] = record[t]
  OBVIOUS
<1>9. record'[t] # None /\ record'[t].ok =>
         record'[t].done <= t + Longest /\ (Uploaded(q)' \/ t + Keep < now')
  BY <1>1, <1>5, <1>8 DEF AtWork
<1>10. stage = "send" => record'[t] # None /\ record'[t].ok /\ record'[t].sum = q
  BY <1>1, <1>2 DEF AtWork, Ends
<1>11. away'[t] # None => away'[t] = away[t]
  OBVIOUS
<1>12. store'[t] # None => store'[t] = store[t]
  OBVIOUS
<1>13. stage \in Uploading => store'[t] = None
  BY DEF AtWork
<1>14. QED
  BY <1>7, <1>9, <1>10, <1>11, <1>12, <1>13 DEF AtWork, Uploading, Recording

LEMMA OthersAtWork ==
    ASSUME BackupInv, NEW r \in Run, Step(r), NEW q \in Run \ {r},
           run'[q].pc # "idle", Twins(q)' = {}
    PROVE  AtWork(q)'
<1>1. run'[q] = run[q] /\ run[q].pc # "idle" /\ run[q].id \in Time
  BY IdTyped DEF Step, BackupInv
<1>2. AtWork(q)
  BY <1>1, IdsStay DEF BackupInv, Alone
<1>3. run'[r].id # run[q].id
  BY <1>1 DEF Step, Twins
<1>4. now' = now /\ now \in Nat
  BY DEF Step, BackupInv, BackupTypeOK, Time
<1> DEFINE t == run[q].id
<1>5. /\ local'[t] = local[t]
      /\ \/ record'[t] = record[t]
         \/ record'[t] = None /\ record[t] # None /\ (~record[t].ok \/ t + Keep < now)
      /\ store'[t] = store[t] \/ (store'[t] = None /\ Old(t))
      /\ away'[t] = away[t] \/ away'[t] = None
  BY <1>1, <1>3 DEF Step, Elsewhere
<1>6. QED
  BY <1>1, <1>2, <1>4, <1>5, Undisturbed

-----------------------------------------------------------------------------
(* The run that takes the step, when its id is its own.                    *)
LEMMA StartAtWork ==
    ASSUME BackupInv, NEW r \in Run, Start(r), Twins(r)' = {} PROVE AtWork(r)'
<1>1. /\ run'[r].pc = "dump" /\ run'[r].id = now /\ run'[r].ok = run[r].ok
      /\ \A q \in Run \ {r} : run'[q] = run[q]
      /\ run[r].pc = "idle" /\ UNCHANGED <<local, record, store, away>> /\ now \in Time
  BY StartGoes DEF BackupInv, Start, Files, BackupTypeOK
<1>2. ~run[r].ok
  BY <1>1 DEF BackupInv, Verified, Recording
<1>3. \A q \in Run : run[q].pc # "idle" => run[q].id # now
  BY <1>1 DEF Twins
<1>4. store[now] = None /\ record[now] = None
  BY <1>1, <1>3 DEF BackupInv, Traces
<1>5. QED
  BY <1>1, <1>2, <1>4 DEF AtWork, Recording, Uploading

LEMMA EarlyAtWork ==
    ASSUME BackupInv, NEW r \in Run, Dump(r) \/ Encrypt(r) \/ Checksum(r), AtWork(r)
    PROVE  AtWork(r)'
<1> DEFINE t == run[r].id
<1>0. run[r].pc \in {"dump", "encrypt", "sum"}
  BY DEF Dump, Encrypt, Checksum
<1>1. /\ BackupTypeOK /\ t \in Time /\ now \in Nat /\ t <= now
      /\ run[r].pc \in {"dump", "encrypt", "sum"} /\ ~run[r].ok
  <2>1. BackupTypeOK /\ InTime /\ Verified
    BY DEF BackupInv
  <2>2. t <= now /\ ~run[r].ok
    BY <1>0, <2>1 DEF InTime, Verified, Recording
  <2>3. now \in Nat /\ t \in Time
    BY <2>1, IdTyped DEF BackupTypeOK, Time
  <2>4. QED
    BY <1>0, <2>1, <2>2, <2>3
<1>2. UNCHANGED <<now, record, store, away>>
  BY DEF Dump, Encrypt, Checksum, Files
<1>3. run'[r].id = t /\ run'[r].ok = run[r].ok
  BY <1>1, RunGoes, ChecksumGoes DEF Dump, Encrypt
<1>4. store[t] = None
  BY <1>1 DEF AtWork, Uploading
<1>5. record[t] # None /\ record[t].ok =>
         record[t].done <= t + Longest /\ (Uploaded(r) \/ t + Keep < now)
  BY DEF AtWork
<1>6. Uploaded(r)' = Uploaded(r)
  BY <1>2, <1>3 DEF Uploaded
<1>7. CASE Dump(r)
  <2>1. run'[r].pc = "encrypt"
    BY <1>1, <1>7, RunGoes DEF Dump
  <2>2. QED
    BY <1>1, <1>2, <1>3, <1>4, <1>5, <1>6, <2>1 DEF AtWork, Uploading, Recording
<1>8. CASE Encrypt(r)
  <2>1. run'[r].pc = "sum"
    BY <1>1, <1>8, RunGoes DEF Encrypt
  <2>2. local'[t] # None /\ local'[t].has = r /\ local'[t].mtime = now
    BY <1>1, <1>8, EncryptFiles
  <2>3. QED
    BY <1>1, <1>2, <1>3, <1>4, <1>5, <1>6, <2>1, <2>2 DEF AtWork, Uploading, Recording
<1>9. CASE Checksum(r)
  <2>1. run'[r].pc = "upload" /\ run'[r].sum = local[t].has
    BY <1>1, <1>9, ChecksumGoes
  <2>2. local' = local /\ local[t] # None /\ local[t].has = r /\ t <= local[t].mtime
    BY <1>9 DEF Checksum, Files, AtWork
  <2>3. QED
    BY <1>1, <1>2, <1>3, <1>4, <1>5, <1>6, <2>1, <2>2 DEF AtWork, Uploading, Recording
<1>10. QED
  BY <1>7, <1>8, <1>9

LEMMA UploadAtWork ==
    ASSUME BackupInv, NEW r \in Run, Upload(r), AtWork(r) PROVE AtWork(r)'
<1> DEFINE t == run[r].id
<1>1. BackupTypeOK /\ t \in Time /\ ~run[r].ok /\ run[r].pc = "upload" /\ now' = now
  BY IdTyped DEF BackupInv, Upload, Verified, Recording
<1>2. /\ run'[r].pc = "verify" /\ run'[r].id = t /\ run'[r].ok = run[r].ok
      /\ run'[r].sum = run[r].sum
  BY <1>1, RunGoes DEF Upload
<1>3. /\ local[t] # None /\ local[t].has = r /\ t <= local[t].mtime
      /\ run[r].sum = r /\ store[t] = None
  BY <1>1 DEF AtWork, Uploading
<1>4. UNCHANGED <<local, record>> /\ store'[t].mtime = local[t].mtime
  BY <1>1, UploadFiles
<1>5. record[t] # None /\ record[t].ok =>
         record[t].done <= t + Longest /\ t + Keep < now
  BY <1>3 DEF AtWork, Uploaded
<1>6. QED
  BY <1>1, <1>2, <1>3, <1>4, <1>5 DEF AtWork, Uploading, Recording

LEMMA VerifyAtWork ==
    ASSUME BackupInv, NEW r \in Run, Verify(r), AtWork(r) PROVE AtWork(r)'
<1> DEFINE t == run[r].id
<1>1. BackupTypeOK /\ run[r].pc = "verify" /\ SeenWhole(r)
      /\ UNCHANGED <<now, local, record, store, away>>
  BY DEF BackupInv, Verify, Files
<1>2. /\ run'[r].pc = "record" /\ run'[r].id = t /\ run'[r].ok /\ run'[r].sum = run[r].sum
  BY <1>1, VerifyGoes
<1>3. run[r].sum = r /\ (store[t] # None => t <= store[t].mtime)
      /\ local[t] # None /\ local[t].has = r /\ t <= local[t].mtime
  BY <1>1 DEF AtWork
<1>4. Uploaded(r)
  BY <1>1, <1>3 DEF SeenWhole, Uploaded
<1>5. Uploaded(r)'
  BY <1>1, <1>2, <1>4 DEF Uploaded
<1>6. record[t] # None /\ record[t].ok => record[t].done <= t + Longest
  BY DEF AtWork
<1>7. QED
  BY <1>1, <1>2, <1>3, <1>5, <1>6 DEF AtWork, Uploading, Recording

LEMMA WriteRecordAtWork ==
    ASSUME BackupInv, NEW r \in Run, WriteRecord(r), AtWork(r) PROVE AtWork(r)'
<1> DEFINE t == run[r].id
<1>1. BackupTypeOK /\ run[r].pc = "record" /\ now' = now
      /\ now <= t + Longest
  BY DEF BackupInv, WriteRecord, InTime, Ends
<1>2. /\ run'[r].pc = "send" /\ run'[r].id = t /\ run'[r].ok = run[r].ok
      /\ run'[r].sum = run[r].sum
  BY <1>1, RunGoes DEF WriteRecord
<1>3. /\ UNCHANGED <<local, store>>
      /\ record'[t] # None /\ record'[t].ok /\ record'[t].done = now
      /\ record'[t].sum = run[r].sum
  BY <1>1, RecordedFiles
<1>4. /\ run[r].sum = r /\ run[r].ok /\ Uploaded(r)
      /\ local[t] # None /\ local[t].has = r /\ t <= local[t].mtime
  BY <1>1 DEF AtWork, Recording
<1>5. Uploaded(r)'
  BY <1>2, <1>3, <1>4 DEF Uploaded
<1>6. QED
  BY <1>1, <1>2, <1>3, <1>4, <1>5 DEF AtWork, Uploading, Recording

LEMMA SentAtWork ==
    ASSUME BackupInv, NEW r \in Run, UploadRecord(r) \/ Retain(r), AtWork(r)
    PROVE  AtWork(r)'
<1> DEFINE t == run[r].id
<1>1. BackupTypeOK /\ t \in Time /\ run[r].pc \in {"send", "retain"}
      /\ UNCHANGED <<now, local, store>>
  BY IdTyped DEF BackupInv, UploadRecord, Retain
<1>2. /\ run'[r].pc = IF run[r].pc = "send" THEN "retain" ELSE "retain_remote"
      /\ run'[r].id = t /\ run'[r].ok = run[r].ok /\ run'[r].sum = run[r].sum
  BY <1>1, RunGoes DEF UploadRecord, Retain
<1>3. record'[t] = record[t]
  BY <1>1 DEF UploadRecord, Retain, BackupTypeOK
<1>4. /\ run[r].sum = r /\ run[r].ok /\ Uploaded(r)
      /\ local[t] # None /\ local[t].has = r /\ t <= local[t].mtime
  BY <1>1 DEF AtWork, Recording
<1>5. Uploaded(r)'
  BY <1>1, <1>2, <1>4 DEF Uploaded
<1>6. away'[t] # None => away'[t].ok /\ away'[t].sum = r
  <2>1. CASE UploadRecord(r)
    <3>1. away'[t] = record[t] /\ run[r].pc = "send"
      BY <1>1, <2>1 DEF UploadRecord, BackupTypeOK
    <3>2. QED
      BY <3>1 DEF AtWork
  <2>2. CASE Retain(r)
    BY <2>2 DEF Retain, AtWork
  <2>3. QED
    BY <2>1, <2>2
<1>7. record[t] # None /\ record[t].ok => record[t].done <= t + Longest
  BY DEF AtWork
<1>8. QED
  BY <1>1, <1>2, <1>3, <1>4, <1>5, <1>6, <1>7 DEF AtWork, Uploading, Recording

(* What a run has uploaded is not old while it is at work.                 *)
LEMMA NotYetOld ==
    ASSUME BackupInv, NEW r \in Run, run[r].pc \notin Ends, Uploaded(r)
    PROVE  ~Old(run[r].id)
<1> DEFINE t == run[r].id
<1>1. /\ now \in Nat /\ t \in Nat /\ Longest \in Nat /\ Keep \in Nat /\ Longest <= Keep
      /\ t \in Time
  BY BackupAssumption, IdTyped DEF BackupInv, BackupTypeOK, Time
<1>2. store[t].mtime \in Nat /\ t <= store[t].mtime
  BY <1>1 DEF BackupInv, BackupTypeOK, Stored, Time, Uploaded
<1>3. now <= t + Longest
  BY DEF BackupInv, InTime
<1> HIDE DEF t
<1>4. QED
  BY <1>1, <1>2, <1>3 DEF Old, t

LEMMA RetainRemoteAtWork ==
    ASSUME BackupInv, NEW r \in Run, RetainRemote(r), AtWork(r) PROVE AtWork(r)'
<1> DEFINE t == run[r].id
<1>1. BackupTypeOK /\ t \in Time /\ run[r].pc = "retain_remote"
      /\ UNCHANGED <<now, local, record>>
  BY IdTyped DEF BackupInv, RetainRemote
<1>2. run'[r].pc = "done" /\ run'[r].id = t /\ ~run'[r].ok
  BY <1>1, RunEnds DEF RetainRemote
<1>3. run[r].ok /\ Uploaded(r)
  BY <1>1 DEF AtWork, Recording
<1>4. ~Old(t)
  BY <1>1, <1>3, NotYetOld DEF Ends
<1>5. store'[t] = store[t] /\ (away'[t] = away[t] \/ away'[t] = None)
  BY <1>1, <1>4, RetainedFiles DEF RetainRemote
<1>6. Uploaded(r)'
  BY <1>2, <1>3, <1>5 DEF Uploaded
<1>7. away[t] # None => away[t].ok /\ away[t].sum = r
  BY <1>1 DEF AtWork
<1>8. record[t] # None /\ record[t].ok => record[t].done <= t + Longest
  BY DEF AtWork
<1>9. store'[t].has = r
  BY <1>3, <1>5 DEF Uploaded
<1>10. QED
  BY <1>1, <1>2, <1>5, <1>6, <1>7, <1>8, <1>9 DEF AtWork, Uploading, Recording

(* A run that breaks or dies after its upload leaves it there.             *)
LEMMA BrokenAtWork ==
    ASSUME BackupInv, NEW r \in Run, Break(r) \/ Die(r), AtWork(r) PROVE AtWork(r)'
<1> DEFINE t == run[r].id
<1>1. BackupTypeOK /\ t \in Time /\ UNCHANGED <<now, record>>
  BY IdTyped DEF BackupInv, Break, Die
<1>2. /\ run'[r].pc \in {"handler", "failed"} /\ run'[r].id = t
      /\ run'[r].ok => run[r].ok
  BY <1>1, RunGoes, RunEnds DEF Break, Die
<1>3. run[r].pc # "upload" => store' = store
  BY <1>1, LeftTorn DEF Break, Die
<1>4. Uploaded(r) => Uploaded(r)'
  <2>1. Uploaded(r) => run[r].pc # "upload"
    BY DEF AtWork, Uploading, Uploaded
  <2>2. QED
    BY <1>2, <1>3, <2>1 DEF Uploaded
<1>5. run[r].ok => Uploaded(r)
  BY DEF AtWork
<1>6. record[t] # None /\ record[t].ok =>
         record[t].done <= t + Longest /\ (Uploaded(r) \/ t + Keep < now)
  BY DEF AtWork
<1>7. QED
  BY <1>1, <1>2, <1>4, <1>5, <1>6 DEF AtWork, Uploading, Recording

LEMMA HandleAtWork ==
    ASSUME BackupInv, NEW r \in Run, Handle(r), AtWork(r) PROVE AtWork(r)'
<1> DEFINE t == run[r].id
<1>1. BackupTypeOK /\ run[r].pc = "handler" /\ UNCHANGED <<now, store, away>>
  BY DEF BackupInv, Handle
<1>2. run'[r].pc = "failed" /\ run'[r].id = t /\ ~run'[r].ok
  BY <1>1, RunEnds DEF Handle
<1>3. \/ record' = record \/ record'[t] = None
      \/ record'[t].ok = run[r].ok /\ record'[t].done = now
  BY <1>1, HandledFiles
<1>4. now <= t + Longest /\ (run[r].ok => Uploaded(r))
  BY <1>1 DEF BackupInv, InTime, Ends, AtWork
<1>5. Uploaded(r)' <=> Uploaded(r)
  BY <1>1, <1>2 DEF Uploaded
<1>6. record[t] # None /\ record[t].ok =>
         record[t].done <= t + Longest /\ (Uploaded(r) \/ t + Keep < now)
  BY DEF AtWork
<1>7. record'[t] # None /\ record'[t].ok =>
         record'[t].done <= t + Longest /\ (Uploaded(r)' \/ t + Keep < now)
  BY <1>3, <1>4, <1>5, <1>6
<1>8. QED
  BY <1>1, <1>2, <1>7 DEF AtWork, Uploading, Recording

LEMMA WorksAtWork ==
    ASSUME BackupInv, NEW r \in Run, Works(r), Twins(r)' = {} PROVE AtWork(r)'
<1>1. CASE Start(r)
  BY <1>1, StartAtWork
<1>2. CASE ~Start(r)
  <2>1. Step(r)
    BY WorksStep
  <2>2. run[r].pc # "idle"
    BY <1>2 DEF Works, Dump, Encrypt, Checksum, Upload, Verify, WriteRecord, UploadRecord,
                Retain, RetainRemote, Break, Handle, Die, Ends
  <2>3. AtWork(r)
    BY <2>1, <2>2, IdsStay DEF BackupInv, Alone
  <2>4. QED
    BY <1>2, <2>3, EarlyAtWork, UploadAtWork, VerifyAtWork, WriteRecordAtWork, SentAtWork,
       RetainRemoteAtWork, BrokenAtWork, HandleAtWork DEF Works
<1>3. QED
  BY <1>1, <1>2

LEMMA VerifiedStep == ASSUME BackupInv, NEW r \in Run, Works(r) PROVE Verified'
<1>1. BackupTypeOK /\ Step(r)
  BY WorksStep DEF BackupInv
<1>2. \A q \in Run \ {r} : run'[q] = run[q]
  BY <1>1 DEF Step
<1>3. run'[r].ok => run'[r].pc \in Recording \cup {"handler"}
  <2>1. run[r].ok => run[r].pc \in Recording \cup {"handler"}
    BY DEF BackupInv, Verified
  <2>2. CASE Start(r)
    BY <1>1, <2>1, <2>2, StartGoes DEF Start, Recording
  <2>3. CASE Dump(r) \/ Encrypt(r) \/ Upload(r)
    BY <1>1, <2>1, <2>3, RunGoes DEF Dump, Encrypt, Upload, Recording
  <2>4. CASE Checksum(r)
    BY <1>1, <2>1, <2>4, ChecksumGoes DEF Checksum, Recording
  <2>5. CASE Verify(r)
    BY <1>1, <2>5, VerifyGoes DEF Recording
  <2>6. CASE WriteRecord(r) \/ UploadRecord(r) \/ Retain(r) \/ Break(r)
    BY <1>1, <2>6, RunGoes DEF WriteRecord, UploadRecord, Retain, Break, Recording
  <2>7. CASE RetainRemote(r) \/ Handle(r) \/ Die(r)
    BY <1>1, <2>7, RunEnds DEF RetainRemote, Handle, Die
  <2>8. QED
    BY <2>2, <2>3, <2>4, <2>5, <2>6, <2>7 DEF Works
<1>4. QED
  BY <1>2, <1>3 DEF BackupInv, Verified

LEMMA WorksInv == ASSUME BackupInv, NEW r \in Run, Works(r) PROVE BackupInv'
<1>1. Step(r)
  BY WorksStep
<1>2. Alone'
  <2> SUFFICES ASSUME NEW q \in Run, run'[q].pc # "idle", Twins(q)' = {} PROVE AtWork(q)'
    BY DEF Alone
  <2>1. QED
    BY <1>1, OthersAtWork, WorksAtWork
<1>3. Trees'
  BY <1>1 DEF Step, BackupInv, Trees
<1>4. QED
  BY <1>1, <1>2, <1>3, StepTyped, TracesStep, InTimeStep, VerifiedStep DEF BackupInv

LEMMA TickInv == BackupInv /\ Tick => BackupInv'
<1> SUFFICES ASSUME BackupInv, Tick PROVE BackupInv'
  OBVIOUS
<1>1. /\ now < MaxTime /\ now' = now + 1 /\ now \in Nat /\ MaxTime \in Nat /\ Longest \in Nat
      /\ UNCHANGED <<run, dumped, local, record, store, away, image, refs, asset>>
  BY BackupAssumption DEF Tick, Files, Assets, BackupInv, BackupTypeOK, Time
<1>2. BackupTypeOK'
  BY <1>1 DEF BackupInv, BackupTypeOK, Time
<1>3. Traces' /\ Trees' /\ Verified'
  BY <1>1 DEF BackupInv, Traces, Trees, Verified
<1>4. InTime'
  <2> SUFFICES ASSUME NEW r \in Run
               PROVE  /\ run[r].pc # "idle" => run[r].id <= now + 1
                      /\ run[r].pc \notin Ends => now + 1 <= run[r].id + Longest
    BY <1>1 DEF InTime
  <2>1. run[r].id \in Nat
    BY IdTyped DEF BackupInv, Time
  <2>2. QED
    BY <1>1, <2>1 DEF Tick, BackupInv, InTime
<1>5. Alone'
  <2> SUFFICES ASSUME NEW q \in Run, run'[q].pc # "idle", Twins(q)' = {} PROVE AtWork(q)'
    BY DEF Alone
  <2>1. run[q].pc # "idle" /\ AtWork(q) /\ run[q].id \in Time
    BY <1>1, IdTyped DEF BackupInv, Alone, Twins
  <2>2. QED
    BY <1>1, <2>1, Undisturbed
<1>6. QED
  BY <1>2, <1>3, <1>4, <1>5 DEF BackupInv

(* Images, news and asset backups do not touch the runs.                   *)
LEMMA TreesInv ==
    ASSUME BackupInv, KeepRuns, Trees',
           image' \in SUBSET File, refs' \in SUBSET File,
           asset' \in [Asset -> [pc: {"idle", "archive", "done"}, sum: SUBSET File,
                                 arch: SUBSET File, refs: SUBSET File]]
    PROVE  BackupInv'
<1>1. UNCHANGED <<now, run, dumped, local, record, store, away>>
  BY DEF KeepRuns, Files
<1>2. BackupTypeOK'
  BY <1>1 DEF BackupInv, BackupTypeOK
<1>3. Traces' /\ InTime' /\ Verified'
  BY <1>1 DEF BackupInv, Traces, InTime, Verified
<1>4. Alone'
  BY <1>1 DEF BackupInv, Alone, Twins, AtWork, Uploaded
<1>5. QED
  BY <1>2, <1>3, <1>4 DEF BackupInv

LEMMA ImageInv ==
    ASSUME BackupInv, NEW f \in File, WriteImage(f) \/ Publish(f) PROVE BackupInv'
<1>1. /\ KeepRuns /\ asset' = asset /\ image' \in SUBSET File /\ refs' \in SUBSET File
      /\ refs' \subseteq image'
  BY DEF WriteImage, Publish, BackupInv, BackupTypeOK, Trees
<1>2. Trees'
  BY <1>1 DEF BackupInv, Trees
<1>3. QED
  BY <1>1, <1>2, TreesInv DEF BackupInv, BackupTypeOK

LEMMA AssetInv ==
    ASSUME BackupInv, NEW b \in Asset, AssetSum(b) \/ AssetArchive(b) PROVE BackupInv'
<1> DEFINE Backups == [pc: {"idle", "archive", "done"}, sum: SUBSET File,
                       arch: SUBSET File, refs: SUBSET File]
<1>1. /\ KeepRuns /\ image' = image /\ refs' = refs
      /\ image \in SUBSET File /\ refs \in SUBSET File /\ asset \in [Asset -> Backups]
  BY DEF AssetSum, AssetArchive, BackupInv, BackupTypeOK
<1>2. PICK x \in Backups : /\ asset' = [asset EXCEPT ![b] = x]
                           /\ x.refs \subseteq x.sum
  <2>1. CASE AssetSum(b)
    <3> DEFINE x == [pc |-> "archive", sum |-> image, arch |-> {}, refs |-> refs]
    <3>1. x \in Backups /\ x.refs \subseteq x.sum /\ asset' = [asset EXCEPT ![b] = x]
      BY <1>1, <2>1 DEF AssetSum, BackupInv, Trees
    <3> HIDE DEF x
    <3>2. QED
      BY <3>1
  <2>2. CASE AssetArchive(b)
    <3> DEFINE x == [asset[b] EXCEPT !.pc = "done", !.arch = image]
    <3>1. x \in Backups /\ x.refs = asset[b].refs /\ x.sum = asset[b].sum
      BY <1>1
    <3>2. asset' = [asset EXCEPT ![b] = x]
      BY <1>1, <2>2 DEF AssetArchive
    <3>3. asset[b].refs \subseteq asset[b].sum
      BY <2>2 DEF AssetArchive, BackupInv, Trees
    <3> HIDE DEF x
    <3>4. QED
      BY <3>1, <3>2, <3>3
  <2>3. QED
    BY <2>1, <2>2
<1>3. asset' \in [Asset -> Backups]
  BY <1>1, <1>2
<1>4. Trees'
  BY <1>1, <1>2 DEF BackupInv, Trees
<1>5. QED
  BY <1>1, <1>3, <1>4, TreesInv

LEMMA BackupNextInv == BackupInv /\ [BackupNext]_backupVars => BackupInv'
<1> SUFFICES ASSUME BackupInv, [BackupNext]_backupVars PROVE BackupInv'
  OBVIOUS
<1>1. CASE UNCHANGED backupVars
  <2>1. KeepRuns /\ UNCHANGED <<image, refs, asset>>
    BY <1>1 DEF backupVars, KeepRuns, Files
  <2>2. Trees'
    BY <2>1 DEF BackupInv, Trees
  <2>3. QED
    BY <2>1, <2>2, TreesInv DEF BackupInv, BackupTypeOK
<1>2. CASE BackupNext
  BY <1>2, WorksInv, ImageInv, AssetInv, TickInv DEF BackupNext
<1>3. QED
  BY <1>1, <1>2

LEMMA BackupInvHolds == BackupSpec => []BackupInv
<1>1. BackupInit => BackupInv
  BY BackupInitInv
<1>2. BackupInv /\ [BackupNext]_backupVars => BackupInv'
  BY BackupNextInv
<1>3. QED
  BY <1>1, <1>2, PTL DEF BackupSpec

(* Type correctness of the backup runs, their files and the assets         *)
(* (ops/backup/backup.py, asset_backup.py).                                *)
THEOREM BackupTypeCorrect == BackupSpec => []BackupTypeOK
<1>1. BackupInv => BackupTypeOK
  BY DEF BackupInv
<1>2. QED
  BY <1>1, BackupInvHolds, PTL

(* A record that says SUCCESS within the time of the stale check stands    *)
(* for a whole artifact of its run in the storage, for any number of runs  *)
(* that overlap, break and die; but for runs of the same second            *)
(* (create_backup, its exception handler, retain_remote).                  *)
THEOREM SuccessIsStoredHolds == BackupSpec => []SuccessIsStored
<1>1. BackupInv => SuccessIsStored
  <2> SUFFICES ASSUME BackupInv, NEW r \in Run, NEW t \in Time, t = run[r].id,
                      run[r].pc # "idle", Twins(r) = {},
                      record[t] # None, record[t].ok, now <= record[t].done + Stale
               PROVE  store[t] # None /\ store[t].has = r
    BY IdTyped DEF SuccessIsStored, BackupInv
  <2>1. AtWork(r)
    BY DEF BackupInv, Alone
  <2>2. record[t].done <= t + Longest /\ (Uploaded(r) \/ t + Keep < now)
    BY <2>1 DEF AtWork
  <2>3. /\ now \in Nat /\ t \in Nat /\ record[t].done \in Nat
        /\ Keep \in Nat /\ Stale \in Nat /\ Longest \in Nat /\ Stale + Longest <= Keep
    BY BackupAssumption DEF BackupInv, BackupTypeOK, Time, Record
  <2>4. Uploaded(r)
    BY <2>2, <2>3
  <2>5. QED
    BY <2>4 DEF Uploaded
<1>2. QED
  BY <1>1, BackupInvHolds, PTL

(* "Do not delete the last valid backup": as long as no two runs share an  *)
(* id, there is one to restore after every step if there was one before.   *)
(* Retention is reached by a run whose own upload is there and not old,    *)
(* and an upload never replaces an artifact (retain_remote).               *)
LEMMA RetentionLeavesOne ==
    ASSUME BackupInv, NEW r \in Run, RetainRemote(r), Twins(r) = {}
    PROVE  \E t \in Time : store'[t] # None /\ store'[t].has # Torn
<1> DEFINE t == run[r].id
<1>1. BackupTypeOK /\ t \in Time /\ run[r].pc = "retain_remote"
  BY IdTyped DEF BackupInv, RetainRemote
<1>2. AtWork(r)
  BY <1>1 DEF BackupInv, Alone
<1>3. Uploaded(r)
  BY <1>1, <1>2 DEF AtWork, Recording
<1>4. ~Old(t)
  BY <1>1, <1>3, NotYetOld DEF Ends
<1>5. store'[t] = store[t]
  BY <1>1, <1>4, RetainedFiles DEF RetainRemote
<1>6. store[t] # None /\ store[t].has = r /\ r # Torn
  BY <1>3, BackupAssumption DEF Uploaded
<1>7. QED
  BY <1>1, <1>5, <1>6

LEMMA UploadsReplaceNothing ==
    ASSUME BackupInv, NEW r \in Run, Upload(r) \/ Break(r) \/ Die(r), Twins(r) = {},
           NEW t \in Time, store[t] # None
    PROVE  store'[t] = store[t]
<1>1. BackupTypeOK /\ run[r].pc # "idle"
  BY DEF BackupInv, Upload, Break, Die, Ends
<1>2. AtWork(r)
  BY <1>1 DEF BackupInv, Alone
<1>3. run[r].pc = "upload" => t # run[r].id
  BY <1>2 DEF AtWork, Uploading
<1>4. CASE Upload(r)
  BY <1>1, <1>3, <1>4, UploadFiles DEF Upload
<1>5. CASE Break(r) \/ Die(r)
  <2>1. store' = store
          \/ (run[r].pc = "upload"
                /\ store' = [store EXCEPT ![run[r].id] = [has |-> Torn, mtime |-> now]])
    BY <1>5 DEF Break, Die
  <2>2. QED
    BY <1>1, <1>3, <2>1 DEF BackupTypeOK
<1>6. QED
  BY <1>4, <1>5

THEOREM LastValidKeptHolds == BackupSpec => LastValidKept
<1> DEFINE Valid == \E t \in Time : store[t] # None /\ store[t].has # Torn
           Apart == \A r \in Run : run[r].pc # "idle" => Twins(r) = {}
<1>1. ASSUME BackupInv, [BackupNext]_backupVars, Valid, Apart PROVE Valid'
  <2>1. CASE store' = store
    BY <1>1, <2>1
  <2>2. ASSUME NEW r \in Run, Works(r), run[r].pc # "idle" PROVE Valid'
    <3>1. Twins(r) = {}
      BY <1>1, <2>2
    <3>2. PICK t \in Time : store[t] # None /\ store[t].has # Torn
      BY <1>1
    <3>3. CASE RetainRemote(r)
      BY <1>1, <3>1, <3>3, RetentionLeavesOne
    <3>4. CASE Upload(r) \/ Break(r) \/ Die(r)
      BY <1>1, <3>1, <3>2, <3>4, UploadsReplaceNothing
    <3>5. CASE ~(RetainRemote(r) \/ Upload(r) \/ Break(r) \/ Die(r))
      <4>1. store' = store
        BY <2>2, <3>5 DEF Works, Start, Dump, Encrypt, Checksum, Verify, WriteRecord,
                          UploadRecord, Retain, Handle, Files
      <4>2. QED
        BY <2>1, <4>1
    <3>6. QED
      BY <3>3, <3>4, <3>5
  <2>3. ASSUME NEW r \in Run, Works(r), run[r].pc = "idle" PROVE store' = store
    BY <2>3 DEF Works, Start, Dump, Encrypt, Checksum, Upload, Verify, WriteRecord,
                UploadRecord, Retain, RetainRemote, Break, Handle, Die, Ends, Files
  <2>4. CASE \/ UNCHANGED backupVars \/ Tick
             \/ \E f \in File : WriteImage(f) \/ Publish(f)
             \/ \E b \in Asset : AssetSum(b) \/ AssetArchive(b)
    <3>1. store' = store
      BY <2>4 DEF backupVars, Tick, WriteImage, Publish, AssetSum, AssetArchive, KeepRuns, Files
    <3>2. QED
      BY <2>1, <3>1
  <2>5. QED
    BY <1>1, <2>1, <2>2, <2>3, <2>4 DEF BackupNext
<1>2. BackupInv /\ [BackupNext]_backupVars
        => [(\E t \in Time : store[t] # None /\ store[t].has # Torn)
            /\ (\A r \in Run : run[r].pc # "idle" => Twins(r) = {})
                => \E t \in Time : store'[t] # None /\ store'[t].has # Torn]_backupVars
  BY <1>1
<1>3. QED
  BY <1>2, BackupInvHolds, PTL DEF BackupSpec, LastValidKept

(* A database backup that ended with 0 and an asset backup begun after its *)
(* news were there restore together, unless an image was written between   *)
(* the checksum of the tree and its archive (restore_verify.py,            *)
(* asset_backup.py, services/upload.py).                                   *)
THEOREM PairsRestoreHolds == BackupSpec => []PairsRestore
<1>1. BackupInv => PairsRestore
  <2> SUFFICES ASSUME BackupInv, NEW r \in Run, NEW b \in Asset, NEW t \in Time,
                      t = run[r].id, run[r].pc = "done", Twins(r) = {}, store[t] # None,
                      asset[b].pc = "done", dumped[r] \subseteq asset[b].refs,
                      asset[b].sum = asset[b].arch
               PROVE  PairAccepted(t, b)
    BY IdTyped DEF PairsRestore, BackupInv
  <2>1. AtWork(r)
    BY DEF BackupInv, Alone
  <2>2. store[t].has = r /\ (away[t] # None => away[t].ok /\ away[t].sum = r) /\ r # Torn
    BY <2>1, BackupAssumption DEF AtWork
  <2>3. Accepted(t)
    BY <2>2 DEF Accepted
  <2>4. asset[b].refs \subseteq asset[b].sum
    BY DEF BackupInv, Trees
  <2>5. QED
    BY <2>2, <2>3, <2>4 DEF PairAccepted
<1>2. QED
  BY <1>1, BackupInvHolds, PTL

-----------------------------------------------------------------------------
(***************************************************************************)
(* The fixture sync.                                                       *)
(***************************************************************************)
USE DEF NoRow

LEMMA FollowStatus == \A status : Follow(status) \in SUBSET Status
BY DEF Follow, Status

LEMMA TypeStep == TypeOK /\ [Next]_vars => TypeOK'
<1> SUFFICES ASSUME TypeOK, [Next]_vars PROVE TypeOK'
  OBVIOUS
<1> USE DEF TypeOK, Goto
<1>1. ASSUME NEW m \in Match, ProviderMoves(m) PROVE TypeOK'
  <2>1. PICK status \in Follow(provider[m].status) :
           provider' = [provider EXCEPT ![m] = [status |-> status, age |-> @.age + 1]]
    BY <1>1 DEF ProviderMoves
  <2>2. status \in Status
    BY FollowStatus
  <2>3. [status |-> status, age |-> provider[m].age + 1] \in [status: Status, age: Nat]
    BY <2>2
  <2>4. provider' \in [Match -> [status: Status, age: Nat]]
    BY <2>1, <2>3
  <2>5. QED
    BY <1>1, <2>4 DEF ProviderMoves
<1>2. ASSUME NEW m \in Match, Heartbeat(m) \/ Expire(m) PROVE TypeOK'
  BY <1>2 DEF Heartbeat, Expire
<1>3. ASSUME NEW s \in Syncer, Begin(s) PROVE TypeOK'
  BY <1>3 DEF Begin, Mutex!Enter
<1>4. ASSUME NEW s \in Syncer, Fetch(s) PROVE TypeOK'
  BY <1>4 DEF Fetch
<1>n. ASSUME NEW s \in Syncer, NextRound(s)
      PROVE  /\ round' \in [Syncer -> 1..2]
             /\ alone' \in [Syncer -> BOOLEAN]
             /\ pc' \in [Syncer -> {"idle", "fetch", "next", "upsert", "finish",
                                    "release"}]
  <2>1. CASE s \in Repair /\ round[s] = 1
    <3>1. /\ round' = [round EXCEPT ![s] = 2]
          /\ alone' = [t \in Syncer |-> FALSE]
          /\ pc' = [pc EXCEPT ![s] = "fetch"]
      BY <1>n, <2>1 DEF NextRound
    <3>2. alone' \in [Syncer -> BOOLEAN]
      BY <3>1 DEF TypeOK
    <3>3. round' \in [Syncer -> 1..2]
      BY <3>1
    <3>4. QED
      BY <3>1, <3>2, <3>3
  <2>2. CASE ~(s \in Repair /\ round[s] = 1)
    BY <1>n, <2>2 DEF NextRound
  <2>3. QED
    BY <2>1, <2>2
<1>e. ASSUME NEW s \in Syncer, EndTransaction(s)
      PROVE  /\ guard' \in [Syncer -> SUBSET {"global"}]
             /\ staged' \in [Syncer -> SUBSET Match]
             /\ stagedReq' \in [Syncer -> SUBSET Match]
             /\ todo' \in [Syncer -> SUBSET Match]
  BY <1>e DEF EndTransaction
<1>5. ASSUME NEW s \in Syncer, FetchFails(s) PROVE TypeOK'
  <2>1. NextRound(s) /\ EndTransaction(s)
    BY <1>5 DEF FetchFails
  <2>2. UNCHANGED <<provider, row, required, active, snap, cur, prev>>
    BY <1>5 DEF FetchFails
  <2>3. QED
    BY <2>1, <2>2, <1>n, <1>e
<1>6. ASSUME NEW s \in Syncer, Upsert(s) \/ ReleaseSavepoint(s) PROVE TypeOK'
  <2>1. CASE Upsert(s)
    BY <2>1 DEF Upsert
  <2>2. CASE ReleaseSavepoint(s)
    BY <2>2 DEF ReleaseSavepoint
  <2>3. QED
    BY <1>6, <2>1, <2>2
<1>7. ASSUME NEW s \in Syncer, Finish(s) PROVE TypeOK'
  BY <1>7 DEF Finish, Register
<1>8. ASSUME NEW s \in Syncer, FixtureFails(s) PROVE TypeOK'
  BY <1>8 DEF FixtureFails, Undone
<1>w. ASSUME NEW s \in Syncer, WriteStaged(s)
      PROVE  /\ row' \in [Match -> [status: Status, age: Nat] \cup {NoRow}]
             /\ required' \in SUBSET Match
  BY <1>w DEF WriteStaged
<1>9. ASSUME NEW s \in Syncer, Commit(s) PROVE TypeOK'
  <2>1. NextRound(s) /\ EndTransaction(s) /\ WriteStaged(s)
    BY <1>9 DEF Commit
  <2>2. UNCHANGED <<provider, active, snap, cur, prev>>
    BY <1>9 DEF Commit
  <2>3. QED
    BY <2>1, <2>2, <1>n, <1>e, <1>w
<1>10. ASSUME NEW s \in Syncer, Abort(s) PROVE TypeOK'
  <2>1. EndTransaction(s) /\ (WriteStaged(s) \/ UNCHANGED <<row, required>>)
    BY <1>10 DEF Abort
  <2>2. /\ pc' \in [Syncer -> {"idle", "fetch", "next", "upsert", "finish",
                               "release"}]
        /\ UNCHANGED <<provider, active, round, snap, cur, prev, alone>>
    BY <1>10 DEF Abort
  <2>3. QED
    BY <2>1, <2>2, <1>e, <1>w
<1>11. ASSUME NEW s \in Syncer, NEW m \in Match, Skip(s, m) PROVE TypeOK'
  BY <1>11 DEF Skip
<1>12. ASSUME NEW s \in Syncer, NEW m \in Match, ReadPrevious(s, m) PROVE TypeOK'
  BY <1>12 DEF ReadPrevious
<1>13. CASE UNCHANGED vars
  BY <1>13 DEF vars
<1>14. QED
  BY <1>1, <1>2, <1>3, <1>4, <1>5, <1>6, <1>7, <1>8, <1>9, <1>10, <1>11,
     <1>12, <1>13 DEF Next

(* The variables keep their types (fixture_sync_service.py:311-522).       *)
THEOREM TypeCorrect == Spec => []TypeOK
<1>1. Init => TypeOK
  BY DEF Init, TypeOK, Status
<1>2. QED
  BY <1>1, TypeStep, PTL DEF Spec

-----------------------------------------------------------------------------
(* The inductive invariant.                                                *)

\* A sync nobody overlaps holds the lock, and no other sync is under way.
Solo ==
    \A s \in Syncer : alone[s] /\ pc[s] # "idle" =>
        /\ guard[s] = {"global"}
        /\ \A t \in Syncer : t # s => pc[t] = "idle"

\* Nothing is staged outside the processing of fixtures, and a record only
\* together with a row that says the match has ended.
StagedTogether ==
    \A s \in Syncer :
        /\ pc[s] \in {"idle", "fetch"} => staged[s] = {} /\ stagedReq[s] = {}
        /\ pc[s] \in {"finish", "release"} => cur[s] \in staged[s]
        /\ \A m \in stagedReq[s] :
              m \in staged[s] /\ snap[s][m].status \in FinalLineupTerminal

\* Neither a snapshot nor a row is ahead of the provider, and no row is ahead
\* of the snapshot of a sync nobody overlaps.
InOrder ==
    /\ \A m \in Match : row[m].age <= provider[m].age
    /\ \A s \in Syncer, m \in Match : snap[s][m].age <= provider[m].age
    /\ \A s \in Syncer, m \in Match :
          alone[s] /\ pc[s] \notin {"idle", "fetch"} => row[m].age <= snap[s][m].age

IndInv == TypeOK /\ Solo /\ StagedTogether /\ InOrder /\ PreviousIsCurrent

\* No other sync is under way when one starts a round in which it is alone, or
\* while it is: so a step of another one finds it idle, or not alone.
LEMMA SoloStep == ASSUME IndInv, [Next]_vars PROVE Solo'
<1> USE DEF IndInv, TypeOK, Solo, Goto
<1>1. ASSUME NEW s \in Syncer, Begin(s) PROVE Solo'
  BY <1>1 DEF Begin, Mutex!Enter
<1>2. ASSUME NEW s \in Syncer, NextRound(s), guard' = [guard EXCEPT ![s] = {}]
      PROVE  Solo'
  <2>1. CASE s \in Repair /\ round[s] = 1
    BY <1>2, <2>1 DEF NextRound
  <2>2. CASE ~(s \in Repair /\ round[s] = 1)
    BY <1>2, <2>2 DEF NextRound
  <2>3. QED
    BY <2>1, <2>2
<1>3. ASSUME NEW s \in Syncer, FetchFails(s) \/ Commit(s) PROVE Solo'
  BY <1>3, <1>2 DEF FetchFails, Commit, EndTransaction
<1>4. ASSUME NEW s \in Syncer, Abort(s) PROVE Solo'
  BY <1>4 DEF Abort, EndTransaction
\* Steps within a round.
<1>5. ASSUME NEW s \in Syncer, pc[s] # "idle", NEW label, pc' = [pc EXCEPT ![s] = label],
             UNCHANGED <<guard, alone>>
      PROVE  Solo'
  BY <1>5
<1>6. ASSUME NEW s \in Syncer,
             Fetch(s) \/ Upsert(s) \/ Finish(s) \/ ReleaseSavepoint(s)
                \/ FixtureFails(s) \/ \E m \in Match : ReadPrevious(s, m)
      PROVE  Solo'
  <2>1. pc[s] # "idle" /\ UNCHANGED <<guard, alone>>
    BY <1>6 DEF Fetch, Upsert, Finish, ReleaseSavepoint, FixtureFails, ReadPrevious
  <2>2. \E label : pc' = [pc EXCEPT ![s] = label]
    BY <1>6 DEF Fetch, Upsert, Finish, ReleaseSavepoint, FixtureFails, ReadPrevious
  <2>3. QED
    BY <1>5, <2>1, <2>2
<1>7. ASSUME UNCHANGED <<pc, guard, alone>> PROVE Solo'
  BY <1>7
<1>8. ASSUME NEW m \in Match,
             ProviderMoves(m) \/ Heartbeat(m) \/ Expire(m)
                \/ \E s \in Syncer : Skip(s, m)
      PROVE  Solo'
  BY <1>7, <1>8 DEF ProviderMoves, Heartbeat, Expire, Skip
<1>9. CASE UNCHANGED vars
  BY <1>7, <1>9 DEF vars
<1>10. QED
  BY <1>1, <1>3, <1>4, <1>6, <1>8, <1>9 DEF Next

LEMMA StagedStep == ASSUME IndInv, [Next]_vars PROVE StagedTogether'
<1> USE DEF IndInv, TypeOK, StagedTogether, Goto
<1>1. ASSUME NEW s \in Syncer, Begin(s) PROVE StagedTogether'
  BY <1>1 DEF Begin
<1>2. ASSUME NEW s \in Syncer, Fetch(s) PROVE StagedTogether'
  BY <1>2 DEF Fetch
<1>3. ASSUME NEW s \in Syncer, EndTransaction(s), UNCHANGED <<snap, cur>>,
             NEW label \in {"idle", "fetch"}, pc' = [pc EXCEPT ![s] = label]
      PROVE  StagedTogether'
  BY <1>3 DEF EndTransaction
<1>4. ASSUME NEW s \in Syncer, FetchFails(s) \/ Commit(s) \/ Abort(s)
      PROVE  StagedTogether'
  <2>1. EndTransaction(s) /\ UNCHANGED <<snap, cur>>
    BY <1>4 DEF FetchFails, Commit, Abort
  <2>2. \E label \in {"idle", "fetch"} : pc' = [pc EXCEPT ![s] = label]
    BY <1>4 DEF FetchFails, Commit, Abort, NextRound
  <2>3. QED
    BY <1>3, <2>1, <2>2
<1>5. ASSUME NEW s \in Syncer, NEW m \in Match, Skip(s, m) \/ ReadPrevious(s, m)
      PROVE  StagedTogether'
  BY <1>5 DEF Skip, ReadPrevious
<1>6. ASSUME NEW s \in Syncer, Upsert(s) PROVE StagedTogether'
  BY <1>6 DEF Upsert
<1>7. ASSUME NEW s \in Syncer, Finish(s) PROVE StagedTogether'
  BY <1>7 DEF Finish, AsksLineup
<1>8. ASSUME NEW s \in Syncer, ReleaseSavepoint(s) PROVE StagedTogether'
  BY <1>8 DEF ReleaseSavepoint
<1>9. ASSUME NEW s \in Syncer, FixtureFails(s) PROVE StagedTogether'
  BY <1>9 DEF FixtureFails, Undone
<1>10. ASSUME NEW m \in Match, ProviderMoves(m) \/ Heartbeat(m) \/ Expire(m)
       PROVE  StagedTogether'
  BY <1>10 DEF ProviderMoves, Heartbeat, Expire
<1>11. CASE UNCHANGED vars
  BY <1>11 DEF vars
<1>12. QED
  BY <1>1, <1>2, <1>4, <1>5, <1>6, <1>7, <1>8, <1>9, <1>10, <1>11 DEF Next

\* Rows change only when a sync writes what it staged; by Solo that is a sync
\* which is on its own or one that has lost its aloneness.
Writes(s) ==
    /\ pc[s] = "next" /\ WriteStaged(s)
    /\ EndTransaction(s)
    /\ UNCHANGED <<provider, snap, cur, prev>>
    /\ \E label \in {"idle", "fetch"} : pc' = [pc EXCEPT ![s] = label]
    /\ \A t \in Syncer : alone'[t] => alone[t]

LEMMA WhoWrites ==
    ASSUME TypeOK, [Next]_vars
    PROVE  UNCHANGED <<row, required>> \/ \E s \in Syncer : Writes(s)
<1>1. ASSUME NEW s \in Syncer, Commit(s) PROVE Writes(s)
  <2>1. \E label \in {"idle", "fetch"} : pc' = [pc EXCEPT ![s] = label]
    BY <1>1 DEF Commit, NextRound, Goto
  <2>2. \A t \in Syncer : alone'[t] => alone[t]
    BY <1>1 DEF Commit, NextRound
  <2>3. QED
    BY <1>1, <2>1, <2>2 DEF Commit, Writes
<1>2. ASSUME NEW s \in Syncer, Abort(s)
      PROVE  UNCHANGED <<row, required>> \/ Writes(s)
  BY <1>2 DEF Abort, Writes, Goto
<1>3. QED
  BY <1>1, <1>2
  DEF Next, vars, ProviderMoves, Heartbeat, Expire, Begin, Fetch, FetchFails,
      Upsert, Finish, ReleaseSavepoint, FixtureFails, Skip, ReadPrevious

LEMMA InOrderStep == ASSUME IndInv, TypeOK', [Next]_vars PROVE InOrder'
<1> USE DEF IndInv, InOrder, Goto
<1>t. /\ row \in [Match -> [status: Status, age: Nat] \cup {NoRow}]
      /\ provider \in [Match -> [status: Status, age: Nat]]
      /\ snap \in [Syncer -> [Match -> [status: Status, age: Nat]]]
      /\ \A m \in Match : row[m].age \in Nat /\ provider[m].age \in Nat
      /\ \A s \in Syncer, m \in Match : snap[s][m].age \in Nat
      /\ pc \in [Syncer -> {"idle", "fetch", "next", "upsert", "finish", "release"}]
      /\ alone \in [Syncer -> BOOLEAN]
  BY DEF TypeOK
<1>1. ASSUME NEW m \in Match, ProviderMoves(m) PROVE InOrder'
  <2>1. /\ \A n \in Match : provider'[n].age \in Nat /\ provider[n].age <= provider'[n].age
        /\ UNCHANGED <<row, snap, alone, pc>>
    BY <1>1, <1>t DEF ProviderMoves
  <2>2. QED
    BY <2>1, <1>t
<1>2. ASSUME NEW s \in Syncer, Begin(s) PROVE InOrder'
  BY <1>2, <1>t DEF Begin
<1>3. ASSUME NEW s \in Syncer, Fetch(s) PROVE InOrder'
  BY <1>3, <1>t DEF Fetch
<1>4. ASSUME NEW s \in Syncer, Writes(s) PROVE InOrder'
  <2>1. \A m \in Match : row'[m].age <= provider'[m].age
    BY <1>4, <1>t DEF Writes, WriteStaged
  <2>2. \A t \in Syncer, m \in Match : snap'[t][m].age <= provider'[m].age
    BY <1>4 DEF Writes
  <2>3. ASSUME NEW t \in Syncer, alone'[t], pc'[t] \notin {"idle", "fetch"}
        PROVE  FALSE
    <3>1. pc[t] \notin {"idle", "fetch"} /\ alone[t] /\ t # s
      BY <1>4, <2>3, <1>t DEF Writes
    <3>2. QED
      BY <1>4, <3>1 DEF Writes, Solo
  <2>4. QED
    BY <2>1, <2>2, <2>3
\* The rest changes neither rows nor snapshots, and starts no processing.
<1>5. ASSUME UNCHANGED <<row, snap, provider>>,
             \A t \in Syncer : alone'[t] /\ pc'[t] \notin {"idle", "fetch"}
                => alone[t] /\ pc[t] \notin {"idle", "fetch"}
      PROVE  InOrder'
  BY <1>5
<1>6. ASSUME NEW s \in Syncer, FetchFails(s) PROVE InOrder'
  <2>1. /\ \E label \in {"idle", "fetch"} : pc' = [pc EXCEPT ![s] = label]
        /\ \A t \in Syncer : alone'[t] => alone[t]
        /\ UNCHANGED <<row, snap, provider>>
    BY <1>6 DEF FetchFails, NextRound
  <2>2. QED
    BY <2>1, <1>5, <1>t
<1>7. ASSUME NEW s \in Syncer, Abort(s), UNCHANGED row PROVE InOrder'
  BY <1>7, <1>5, <1>t DEF Abort
<1>8. ASSUME NEW s \in Syncer,
             Upsert(s) \/ Finish(s) \/ ReleaseSavepoint(s) \/ FixtureFails(s)
                \/ \E m \in Match : Skip(s, m) \/ ReadPrevious(s, m)
      PROVE  InOrder'
  <2>1. /\ UNCHANGED <<row, snap, provider, alone>>
        /\ pc[s] \notin {"idle", "fetch"}
        /\ pc' = pc \/ \E label : pc' = [pc EXCEPT ![s] = label]
    BY <1>8 DEF Upsert, Finish, ReleaseSavepoint, FixtureFails, Skip, ReadPrevious
  <2>2. QED
    BY <2>1, <1>5, <1>t
<1>9. ASSUME NEW m \in Match, Heartbeat(m) \/ Expire(m) PROVE InOrder'
  BY <1>9 DEF Heartbeat, Expire
<1>10. CASE UNCHANGED vars
  BY <1>10 DEF vars
<1>11. ASSUME NEW s \in Syncer, Commit(s) \/ (Abort(s) /\ ~UNCHANGED row)
       PROVE  InOrder'
  <2>1. ASSUME Commit(s) PROVE UNCHANGED row \/ \E t \in Syncer : Writes(t)
    BY WhoWrites
  <2>2. Commit(s) => Writes(s)
    <3>1. ASSUME Commit(s)
          PROVE  /\ \E label \in {"idle", "fetch"} : pc' = [pc EXCEPT ![s] = label]
                 /\ \A t \in Syncer : alone'[t] => alone[t]
      BY <3>1 DEF Commit, NextRound
    <3>2. QED
      BY <3>1 DEF Commit, Writes
  <2>3. Abort(s) /\ ~UNCHANGED row => Writes(s)
    BY DEF Abort, Writes
  <2>4. QED
    BY <1>11, <1>4, <2>2, <2>3
<1>12. QED
  BY <1>1, <1>2, <1>3, <1>6, <1>7, <1>8, <1>9, <1>10, <1>11 DEF Next

LEMMA PreviousStep == ASSUME IndInv, [Next]_vars PROVE PreviousIsCurrent'
<1> USE DEF IndInv, PreviousIsCurrent, Goto
<1> SUFFICES ASSUME NEW s \in Syncer, alone'[s], pc'[s] \in {"upsert", "finish"}
             PROVE  prev'[s] = row'[cur'[s]].status
  OBVIOUS
<1>t. TypeOK
  OBVIOUS
<1>1. ASSUME NEW t \in Syncer, Writes(t) PROVE FALSE
  <2>1. s # t /\ alone[s] /\ pc[s] \in {"upsert", "finish"}
    BY <1>1, <1>t DEF Writes, TypeOK
  <2>2. QED
    BY <1>1, <2>1 DEF Writes, Solo
<1>2. UNCHANGED row
  BY <1>1, WhoWrites
<1>3. ASSUME NEW m \in Match, ReadPrevious(s, m)
      PROVE  prev'[s] = row'[cur'[s]].status
  BY <1>3, <1>t DEF ReadPrevious, TypeOK
<1>4. ASSUME UNCHANGED <<prev[s], cur[s], pc[s], alone[s]>>
      PROVE  prev'[s] = row'[cur'[s]].status
  BY <1>2, <1>4
<1>5. ASSUME Upsert(s) PROVE prev'[s] = row'[cur'[s]].status
  BY <1>2, <1>5, <1>t DEF Upsert, TypeOK
<1>6. ASSUME NEW t \in Syncer \ {s},
             \/ Fetch(t) \/ Upsert(t) \/ Finish(t) \/ Begin(t)
             \/ ReleaseSavepoint(t) \/ FixtureFails(t) \/ Abort(t)
             \/ \E m \in Match : Skip(t, m) \/ ReadPrevious(t, m)
      PROVE  UNCHANGED <<prev[s], cur[s], pc[s], alone[s]>>
  BY <1>6, <1>t
  DEF TypeOK, Begin, Fetch, Upsert, Finish, ReleaseSavepoint, FixtureFails,
      Abort, Skip, ReadPrevious
<1>7. ASSUME NEW t \in Syncer, FetchFails(t) \/ Commit(t)
      PROVE  UNCHANGED <<prev[s], cur[s], pc[s], alone[s]>>
  <2>1. alone'[s] => alone[s]
    BY <1>7 DEF FetchFails, Commit, NextRound
  <2>2. \E label \in {"idle", "fetch"} : pc' = [pc EXCEPT ![t] = label]
    BY <1>7 DEF FetchFails, Commit, NextRound
  <2>3. QED
    BY <1>7, <2>1, <2>2, <1>t DEF TypeOK, FetchFails, Commit
<1>8. ASSUME Begin(s) \/ Fetch(s) \/ Finish(s) \/ ReleaseSavepoint(s)
                \/ FixtureFails(s) \/ Abort(s)
      PROVE  FALSE
  BY <1>8, <1>t
  DEF TypeOK, Begin, Fetch, Finish, ReleaseSavepoint, FixtureFails, Abort
<1>9. ASSUME NEW m \in Match, ProviderMoves(m) \/ Heartbeat(m) \/ Expire(m) \/ Skip(s, m)
      PROVE  UNCHANGED <<prev[s], cur[s], pc[s], alone[s]>>
  BY <1>9 DEF ProviderMoves, Heartbeat, Expire, Skip
<1>10. CASE UNCHANGED vars
  BY <1>4, <1>10 DEF vars
<1>11. ASSUME NEW t \in Syncer,
              \/ Begin(t) \/ Fetch(t) \/ FetchFails(t) \/ Upsert(t) \/ Finish(t)
              \/ ReleaseSavepoint(t) \/ FixtureFails(t) \/ Commit(t) \/ Abort(t)
              \/ \E m \in Match : Skip(t, m) \/ ReadPrevious(t, m)
       PROVE  prev'[s] = row'[cur'[s]].status
  <2>1. CASE t # s
    <3>1. CASE FetchFails(t) \/ Commit(t)
      BY <3>1, <1>4, <1>7
    <3>2. CASE ~(FetchFails(t) \/ Commit(t))
      <4>1. t \in Syncer \ {s}
        BY <2>1
      <4>2. QED
        BY <1>11, <3>2, <4>1, <1>4, <1>6
    <3>3. QED
      BY <3>1, <3>2
  <2>2. CASE t = s
    BY <1>11, <2>2, <1>3, <1>4, <1>5, <1>7, <1>8, <1>9
  <2>3. QED
    BY <2>1, <2>2
<1>12. QED
  BY <1>4, <1>9, <1>10, <1>11 DEF Next

LEMMA IndInvHolds == Spec => []IndInv
<1>1. Init => IndInv
  <2>1. Init => TypeOK
    BY DEF Init, TypeOK, Status
  <2>2. Init => InOrder
    BY DEF Init, InOrder
  <2>3. QED
    BY <2>1, <2>2 DEF Init, IndInv, Solo, StagedTogether, PreviousIsCurrent
<1>2. IndInv /\ [Next]_vars => IndInv'
  BY TypeStep, SoloStep, StagedStep, InOrderStep, PreviousStep DEF IndInv
<1>3. QED
  BY <1>1, <1>2, PTL DEF Spec

(* previous_status is read before the upsert and used after it and after    *)
(* the provider call for the events (fixture_sync_service.py:414-490): it   *)
(* is still the committed status then, unless an unguarded round overlaps.  *)
THEOREM PreviousIsCurrentHolds == Spec => []PreviousIsCurrent
BY IndInvHolds, PTL DEF IndInv

(* A lineup record is committed only together with a row that says the      *)
(* match has ended (fixture_sync_service.py:485-512).                       *)
THEOREM RecordWithEndHolds == Spec => RecordWithEnd
<1>1. ASSUME IndInv, [Next]_vars
      PROVE  [\A m \in required' \ required :
                 row'[m].status \in FinalLineupTerminal]_<<row, required>>
  <2>1. ASSUME NEW s \in Syncer, Writes(s), NEW m \in required' \ required
        PROVE  row'[m].status \in FinalLineupTerminal
    <3>1. m \in stagedReq[s]
      BY <2>1 DEF Writes, WriteStaged
    <3>2. m \in staged[s] /\ snap[s][m].status \in FinalLineupTerminal
      BY <1>1, <3>1 DEF IndInv, StagedTogether
    <3>3. m \in Match
      BY <1>1, <3>2 DEF IndInv, TypeOK
    <3>4. QED
      BY <2>1, <3>2, <3>3 DEF Writes, WriteStaged
  <2>2. QED
    BY <1>1, <2>1, WhoWrites DEF IndInv
<1>2. QED
  BY <1>1, IndInvHolds, PTL DEF Spec, RecordWithEnd

(* As long as no unguarded round overlaps it, a sync's commit takes no row  *)
(* back to an older snapshot: what "fixture_query:global" is there for.     *)
THEOREM RowsMoveForwardHolds == Spec => RowsMoveForward
<1>1. ASSUME IndInv, [Next]_vars,
             NEW s \in Syncer, alone[s], staged[s] # {}, staged'[s] = {},
             NEW m \in Match
      PROVE  row'[m].age >= row[m].age
  <2>t. row[m].age \in Nat
    BY <1>1 DEF IndInv, TypeOK
  <2>1. CASE UNCHANGED row
    BY <2>1, <2>t
  <2>2. CASE \E t \in Syncer : Writes(t)
    <3>1. PICK t \in Syncer : Writes(t)
      BY <2>2
    <3>2. pc[s] \notin {"idle", "fetch"}
      BY <1>1 DEF IndInv, StagedTogether
    <3>3. t = s
      BY <1>1, <3>1, <3>2 DEF Writes, IndInv, Solo
    <3>4. row[m].age <= snap[s][m].age /\ snap[s][m].age \in Nat
      BY <1>1, <3>2 DEF IndInv, InOrder, TypeOK
    <3>5. QED
      BY <3>1, <3>3, <3>4, <2>t DEF Writes, WriteStaged
  <2>3. QED
    BY <1>1, <2>1, <2>2, WhoWrites DEF IndInv
<1>2. IndInv /\ [Next]_vars
         => [(\E s \in Syncer : alone[s] /\ staged[s] # {} /\ staged'[s] = {})
                => \A m \in Match : row'[m].age >= row[m].age]_vars
  BY <1>1
<1>3. QED
  BY <1>2, IndInvHolds, PTL DEF Spec, RowsMoveForward
================================================================================
