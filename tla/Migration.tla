----------------------------- MODULE Migration -----------------------------
(* The migration of a release that was imported unmanaged into the library    *)
(* Lidarr manages (internal/pipeline/application/migration_check.go,          *)
(* migration.go, migration_mutation.go, migration_runtime.go): an operator    *)
(* asks for a check, confirms its exact match, and a worker stages the        *)
(* directory, writes canonical tags over backups, has Lidarr import it and    *)
(* verifies the result.                                                       *)
(*                                                                           *)
(* One release; each item is a migration of it, of another batch.  A worker   *)
(* is cut at each transaction, rename and copy, and at each call of Lidarr.   *)
(* Its lease is not renewed: the recovery deletes it under a worker that      *)
(* takes longer, and the next pass starts another one on the same item.  The  *)
(* identity of the match is abstracted to whether the check still gives it.   *)
EXTENDS Naturals, FiniteSets

CONSTANTS
  Items,        \* migration items that name the release
  Workers,      \* goroutines that may process items at the same time
  TrackCount,   \* FLAC files of the release
  MaxTroubles   \* bound: crashes, failing calls and failing writes

ASSUME TrackCountAssumption == TrackCount \in Nat \ {0}
ASSUME MaxTroublesAssumption == MaxTroubles \in Nat

Tracks == 1..TrackCount

VARIABLES
  item,       \* Items -> state, and resume_state of a failed one
  worker,     \* Workers -> a goroutine: its item, its place in the code, the file it is
              \* at, MigrationMutationResult.Files (for each file what it knows of the
              \* original's bytes), the manifest and the plan of its submission
  stale,      \* workers whose item was updated since they read it: its state_revision
              \* is not theirs
  lease,      \* items with a row in leases
  due,        \* items that the pass of the runtime has still to start
  running,    \* the pipeline process is up
  woken,      \* the runtime's notification channel is full
  dirs,       \* the directories of the release that exist
  copy,       \* place -> file -> what is there
  intent,     \* the files of the stored import intent's manifest, or NoIntent
  request,    \* the files of its request
  commands,   \* ManualImport commands that Lidarr has accepted
  queue,      \* files that the commands Lidarr is executing have still to move
  overlapped, \* two workers were at the same time between having found no intent and
              \* storing their own
  troubles

itemVars == <<item, stale>>
runtimeVars == <<lease, due, running, woken>>
fileVars == <<dirs, copy>>
intentVars == <<intent, request>>
commandVars == <<commands, queue>>
importVars == <<intentVars, commandVars, overlapped>>
vars == <<itemVars, worker, runtimeVars, fileVars, importVars, troubles>>

MigrationStates ==
  {"CHECK_PENDING", "CHECKING", "NO_MATCH", "AMBIGUOUS", "EXACT_MATCH", "CONFIRMED",
   "LIDARR_CATALOG_READY", "IMPORT_SUBMITTED", "RECONCILING", "MIGRATED",
   "FAILED_RETRYABLE"}

\* the transitions but those out of FAILED_RETRYABLE, which go to resume_state
allowedMigrationTransition ==
  {"CHECK_PENDING"} \X {"CHECKING"}
  \cup {"CHECKING"} \X {"NO_MATCH", "AMBIGUOUS", "EXACT_MATCH", "FAILED_RETRYABLE"}
  \cup {"EXACT_MATCH"} \X {"CONFIRMED"}
  \cup {"CONFIRMED"} \X {"LIDARR_CATALOG_READY", "FAILED_RETRYABLE"}
  \cup {"LIDARR_CATALOG_READY"} \X {"IMPORT_SUBMITTED", "FAILED_RETRYABLE"}
  \cup {"IMPORT_SUBMITTED"} \X {"RECONCILING"}
  \cup {"RECONCILING"} \X {"MIGRATED", "FAILED_RETRYABLE"}

Places == {"unmanaged", "approved", "backup", "managed"}
Contents == {"none", "cut", "old", "new"}
NoFiles == [t \in Tracks |-> "none"]
NoIntent == [t \in Tracks |-> "unstored"]
NoItem == [state |-> "none", resume |-> "none"]
NoWorker == [item |-> "none", pc |-> "idle", at |-> 1, files |-> NoFiles,
             manifest |-> NoFiles, plan |-> {}]
There(files) == {t \in Tracks : files[t] # "none"}

Init ==
  /\ item = [i \in Items |-> NoItem]
  /\ worker = [w \in Workers |-> NoWorker] /\ stale = {}
  /\ lease = {} /\ due = {} /\ running = TRUE /\ woken = FALSE
  /\ dirs = {"unmanaged"}
  /\ copy = [p \in Places |-> IF p = "unmanaged" THEN [t \in Tracks |-> "old"]
                              ELSE NoFiles]
  /\ intent = NoIntent /\ request = {} /\ commands = 0 /\ queue = {}
  /\ overlapped = FALSE /\ troubles = 0

Trouble == troubles < MaxTroubles /\ troubles' = troubles + 1
Smooth == UNCHANGED troubles

\* an update of an item, by the worker in "by" or by nobody who works on it
Updated(i, row, by) ==
  /\ item' = [item EXCEPT ![i] = row]
  /\ stale' = stale \cup {v \in Workers \ by : worker[v].item = i}
Moved(state, i, by) == Updated(i, [state |-> state, resume |-> "none"], by)
Resumed(i) == IF item[i].state = "FAILED_RETRYABLE" THEN item[i].resume ELSE item[i].state
FailedNext(i, by) ==
  Updated(i, [state |-> "FAILED_RETRYABLE",
              resume |-> CASE item[i].state = "CHECKING" -> "EXACT_MATCH"
                           [] item[i].state = "CONFIRMED" -> "LIDARR_CATALOG_READY"
                           [] item[i].state = "LIDARR_CATALOG_READY" -> "IMPORT_SUBMITTED"
                           [] OTHER -> "MIGRATED"], by)
Failed(i, by) == Updated(i, [state |-> "FAILED_RETRYABLE", resume |-> item[i].state], by)

-----------------------------------------------------------------------------
(* What an operator does on the pages of a batch.                            *)

\* a batch is made for a release whatever other batches name it
CreateBatch(i) ==
  /\ running /\ item[i] = NoItem
  /\ Moved("CHECK_PENDING", i, {}) /\ woken' = TRUE
  /\ UNCHANGED <<worker, lease, due, running, fileVars, importVars, troubles>>

ConfirmSelected(i) ==
  /\ running /\ item[i].state = "EXACT_MATCH"
  /\ Moved("CONFIRMED", i, {}) /\ woken' = TRUE
  /\ UNCHANGED <<worker, lease, due, running, fileVars, importVars, troubles>>

Retry(i) ==
  /\ running /\ item[i].state = "FAILED_RETRYABLE"
  /\ Moved(item[i].resume, i, {}) /\ woken' = TRUE
  /\ UNCHANGED <<worker, lease, due, running, fileVars, importVars, troubles>>

-----------------------------------------------------------------------------
(* The runtime: it looks for work when it starts and when it is notified.    *)

ReadyMigrationChecks ==
  {i \in Items \ lease :
     Resumed(i) \in {"CHECK_PENDING", "CHECKING", "CONFIRMED", "LIDARR_CATALOG_READY",
                     "IMPORT_SUBMITTED", "RECONCILING"}}

Dispatch ==
  /\ running /\ woken /\ due = {}
  /\ woken' = FALSE /\ due' = ReadyMigrationChecks
  /\ UNCHANGED <<itemVars, worker, lease, running, fileVars, importVars, troubles>>

\* a pass goes on when there is room for a worker, and skips what is leased by then
AcquireMigrationLease(i, w) ==
  /\ running /\ i \in due /\ worker[w] = NoWorker
  /\ due' = due \ {i}
  /\ lease' = lease \cup {i}
  /\ worker' = IF i \in lease THEN worker
               ELSE [worker EXCEPT ![w] = [NoWorker EXCEPT !.item = i, !.pc = "start"]]
  /\ UNCHANGED <<itemVars, running, woken, fileVars, importVars, troubles>>

\* the worker returned; the row is the process's, and may be another worker's
ReleaseMigrationLease(w) ==
  /\ running /\ worker[w].pc = "end"
  /\ lease' = lease \ {worker[w].item}
  /\ worker' = [worker EXCEPT ![w] = NoWorker] /\ stale' = stale \ {w}
  /\ UNCHANGED <<item, due, woken, running, fileVars, importVars, troubles>>

\* the periodic recovery: a lease expires whether its worker is dead or only slow
DeleteExpiredLease(i) ==
  /\ running /\ i \in lease
  /\ lease' = lease \ {i}
  /\ UNCHANGED <<itemVars, worker, due, running, woken, fileVars, importVars, troubles>>

Crash ==
  /\ running /\ Trouble
  /\ running' = FALSE /\ woken' = FALSE /\ due' = {}
  /\ worker' = [w \in Workers |-> NoWorker] /\ stale' = {}
  /\ UNCHANGED <<item, lease, fileVars, importVars>>

\* recovery deletes the leases that expired by then, and the runtime dispatches
Restart ==
  /\ ~running
  /\ running' = TRUE /\ woken' = TRUE
  /\ lease' \in SUBSET lease
  /\ UNCHANGED <<itemVars, worker, due, fileVars, importVars, troubles>>

-----------------------------------------------------------------------------
(* The worker of an item.                                                    *)

At(w, pc) == running /\ worker[w].pc = pc
Goes(w, pc) == worker' = [worker EXCEPT ![w].pc = pc]
GoesTo(w, pc, at) == worker' = [worker EXCEPT ![w].pc = pc, ![w].at = at]
\* ... and needs nothing any more of what the mutation and the submission returned
Leaves(w, pc) ==
  worker' = [worker EXCEPT ![w] = [NoWorker EXCEPT !.item = worker[w].item, !.pc = pc]]

\* fail: the state before is kept in resume_state, unless the item has moved on; that
\* even this write fails is the same as a crash before it
FailsBefore(w) ==
  /\ IF w \in stale THEN UNCHANGED itemVars ELSE Failed(worker[w].item, {w})
  /\ Leaves(w, "end")
\* a transaction that may fail: the worker then returns, or goes where said
Writes(w, state, pc) ==
  \/ w \notin stale /\ Moved(state, worker[w].item, {w}) /\ Goes(w, pc) /\ Smooth
  \/ w \in stale /\ UNCHANGED itemVars /\ Leaves(w, "end") /\ Smooth
  \/ UNCHANGED itemVars /\ Leaves(w, "end") /\ Trouble

\* a failed item is resumed, and the worker has read it as it is now
Reads(w, state) ==
  LET i == worker[w].item IN
  IF state = item[i].state
  THEN UNCHANGED item /\ stale' = stale \ {w}
  ELSE /\ item' = [item EXCEPT ![i] = [state |-> state, resume |-> "none"]]
       /\ stale' = (stale \ {w}) \cup {v \in Workers \ {w} : worker[v].item = i}

\* MigrationCoordinator.CheckItem, and what Process and CheckItem begin with
Start(w) ==
  LET state == Resumed(worker[w].item) IN
  /\ At(w, "start")
  /\ Goes(w, CASE state \in {"CHECK_PENDING", "CHECKING"} -> "check"
               [] state = "CONFIRMED" -> "identity"
               [] state = "LIDARR_CATALOG_READY" -> "stage"
               [] state \in {"IMPORT_SUBMITTED", "RECONCILING"} -> "reconcile"
               [] OTHER -> "end")
  /\ Reads(w, IF state = "CHECK_PENDING" THEN "CHECKING" ELSE state)
  /\ UNCHANGED <<runtimeVars, fileVars, importVars, troubles>>

CheckItem(w) ==
  /\ At(w, "check")
  /\ \/ \E state \in {"NO_MATCH", "AMBIGUOUS", "EXACT_MATCH"} : Writes(w, state, "end")
     \/ FailsBefore(w) /\ Trouble
  /\ UNCHANGED <<runtimeVars, fileVars, importVars>>

SavesAfterStaging(w) ==
  /\ At(w, "identity")
  /\ Goes(w, "stage")
  /\ UNCHANGED <<itemVars, runtimeVars, fileVars, importVars, troubles>>

\* the match is checked again, and the catalog of Lidarr has the release
DecideAgain(w) ==
  /\ At(w, "identity")
  /\ \/ Writes(w, "LIDARR_CATALOG_READY", "stage")
     \/ FailsBefore(w) /\ Trouble
  /\ UNCHANGED <<runtimeVars, fileVars, importVars>>

Stage(w) ==
  /\ At(w, "stage")
  /\ \/ /\ "unmanaged" \in dirs /\ "approved" \notin dirs
        /\ dirs' = (dirs \ {"unmanaged"}) \cup {"approved"}
        /\ copy' = [copy EXCEPT !["approved"] = copy["unmanaged"],
                                !["unmanaged"] = NoFiles]
        /\ GoesTo(w, "backup", 1) /\ UNCHANGED itemVars
     \/ /\ "unmanaged" \notin dirs /\ "approved" \in dirs
        /\ GoesTo(w, "backup", 1) /\ UNCHANGED <<fileVars, itemVars>>
     \/ /\ ("unmanaged" \in dirs) = ("approved" \in dirs)
        /\ FailsBefore(w) /\ UNCHANGED fileVars
  /\ UNCHANGED <<runtimeVars, importVars, troubles>>

StageFails(w) ==
  /\ At(w, "stage")
  /\ FailsBefore(w) /\ Trouble
  /\ UNCHANGED <<runtimeVars, fileVars, importVars>>

\* no plan of tags, or no directory for the backups: there is nothing to restore
ApplyFails(w) ==
  /\ At(w, "backup") /\ worker[w].at = 1
  /\ Goes(w, "return") /\ Trouble
  /\ UNCHANGED <<itemVars, runtimeVars, fileVars, importVars>>

(* Apply, file by file.  originalEvidence trusts a backup that is there, even *)
(* the beginning of one (its tags, pictures and MD5 are in the file's head),  *)
(* and makes one with a plain copy otherwise.  "unread" is evidence that is   *)
(* incomplete or of other bytes than the backup's.                            *)
Evidence(w, pc, known) ==
  worker' = [worker EXCEPT ![w].pc = pc, ![w].files[worker[w].at] = known]
RollsBack(w) == GoesTo(w, "restore", 1)
Unread(w) ==
  worker' = [worker EXCEPT ![w].pc = "restore", ![w].at = 1,
                           ![w].files[worker[w].at] = "unread"]

OriginalEvidence(w) ==
  LET t == worker[w].at
      kept == copy["backup"][t] IN
  /\ At(w, "backup")
  /\ \/ kept # "none" /\ Evidence(w, "tag", kept) /\ Smooth /\ UNCHANGED copy
     \/ kept = "cut" /\ Unread(w) /\ Smooth /\ UNCHANGED copy
     \/ kept # "none" /\ Unread(w) /\ Trouble /\ UNCHANGED copy
     \/ /\ kept = "none" /\ copy["approved"][t] # "none"
        /\ Evidence(w, "copying", copy["approved"][t]) /\ Smooth
        /\ copy' = [copy EXCEPT !["backup"][t] = "cut"]
     \/ kept = "none" /\ copy["approved"][t] = "none" /\ Unread(w) /\ Smooth /\ UNCHANGED copy
  /\ UNCHANGED <<itemVars, runtimeVars, dirs, importVars>>

\* The bytes go to the file that was opened, which another worker may have removed, or
\* removed and made anew, since; tags, pictures and MD5 are read from the original.
CopyMigrationFile(w) ==
  LET t == worker[w].at
      opened == worker[w].files[t]
      there == copy["backup"][t]
      anew == \E v \in Workers \ {w} : At(v, "copying") /\ worker[v].at = t IN
  /\ At(w, "copying")
  /\ \/ \E kept \in IF there # "cut" THEN {there} ELSE IF anew THEN {opened, "cut"}
                                                  ELSE {opened} :
          /\ copy' = [copy EXCEPT !["backup"][t] = kept]
          /\ \/ "none" \in {kept, copy["approved"][t]} /\ Unread(w)
             \/ /\ "none" \notin {kept, copy["approved"][t]}
                /\ Evidence(w, "tag", IF copy["approved"][t] = kept THEN kept ELSE "unread")
          /\ Smooth
     \/ /\ copy' = [copy EXCEPT !["backup"][t] = "none"]
        /\ Unread(w) /\ Trouble
  /\ UNCHANGED <<itemVars, runtimeVars, dirs, importVars>>

\* metaflac writes the tags; a file that Lidarr has moved is not there to be written
ApplySelected(w) ==
  LET t == worker[w].at IN
  /\ At(w, "tag")
  /\ \/ /\ copy["approved"][t] \in {"old", "new"}
        /\ copy' = [copy EXCEPT !["approved"][t] = "new"]
        /\ IF t < TrackCount THEN GoesTo(w, "backup", t + 1) ELSE Goes(w, "save")
        /\ Smooth
     \/ /\ copy["approved"][t] \in {"none", "cut"}
        /\ RollsBack(w) /\ Smooth /\ UNCHANGED copy
     \/ /\ \/ UNCHANGED copy
           \/ /\ copy["approved"][t] = "old"
              /\ copy' = [copy EXCEPT !["approved"][t] = "new"]
        /\ RollsBack(w) /\ Trouble
  /\ UNCHANGED <<itemVars, runtimeVars, dirs, importVars>>

\* mutant of Looked: a worker submits whatever is stored
LookedAway(w) == At(w, "save")

\* the evidence is saved and the intent of the candidate looked for
Looked(w) == intent = NoIntent
Submitting == {"submit", "prepare", "store"}
SaveMigrationEvidence(w) ==
  /\ At(w, "save")
  /\ \/ /\ w \notin stale /\ Looked(w)
        /\ Goes(w, "submit") /\ Smooth
        /\ overlapped' =
             (overlapped \/ \E v \in Workers \ {w} : worker[v].pc \in Submitting)
     \/ /\ w \notin stale /\ ~Looked(w)
        /\ Leaves(w, "importing") /\ Smooth /\ UNCHANGED overlapped
     \/ w \in stale /\ RollsBack(w) /\ Smooth /\ UNCHANGED overlapped
     \/ RollsBack(w) /\ Trouble /\ UNCHANGED overlapped
  /\ UNCHANGED <<itemVars, runtimeVars, fileVars, intentVars, commandVars>>

\* ImportService.Submit: the configuration of Lidarr is verified and the manifest made
Manifest(w) ==
  LET files == copy["approved"] IN
  /\ At(w, "submit")
  /\ \/ /\ files # NoFiles
        /\ worker' = [worker EXCEPT ![w].pc = "prepare", ![w].manifest = files]
        /\ Smooth
     \/ files = NoFiles /\ RollsBack(w) /\ Smooth
     \/ RollsBack(w) /\ Trouble
  /\ UNCHANGED <<itemVars, runtimeVars, fileVars, importVars>>

\* ManualImporter.Prepare: Lidarr lists as many files as the manifest has
Prepare(w) ==
  LET listed == There(copy["approved"])
      counted == Cardinality(listed) = Cardinality(There(worker[w].manifest)) IN
  /\ At(w, "prepare")
  /\ \/ /\ counted
        /\ worker' = [worker EXCEPT ![w].pc = "store", ![w].plan = listed]
        /\ Smooth
     \/ ~counted /\ RollsBack(w) /\ Smooth
     \/ RollsBack(w) /\ Trouble
  /\ UNCHANGED <<itemVars, runtimeVars, fileVars, importVars>>

\* When the insert fails or meets another request, the submission still names an
\* intent, and the item goes on as if it were stored; the same request of another
\* worker is taken for its own, whatever its manifest.
Sends(w, pc) ==
  worker' = [worker EXCEPT ![w] = [NoWorker EXCEPT !.item = worker[w].item, !.pc = pc,
                                                   !.plan = worker[w].plan]]
PutImportIntent(w) ==
  /\ At(w, "store")
  /\ \/ /\ intent = NoIntent
        /\ intent' = worker[w].manifest /\ request' = worker[w].plan
        /\ Sends(w, "command") /\ Smooth
     \/ /\ intent # NoIntent /\ request = worker[w].plan
        /\ Sends(w, "repeat") /\ Smooth /\ UNCHANGED intentVars
     \/ /\ intent # NoIntent /\ request # worker[w].plan
        /\ Leaves(w, "unsure") /\ Smooth /\ UNCHANGED intentVars
     \/ Leaves(w, "unsure") /\ Trouble /\ UNCHANGED intentVars
  /\ UNCHANGED <<itemVars, runtimeVars, fileVars, commandVars, overlapped>>

\* Lidarr moves the files the command lists
Accepted(w) ==
  /\ commands' = commands + 1
  /\ queue' = queue \cup worker[w].plan

\* the answer of Lidarr does not matter, the item is reconciled either way; that
\* the intent could not be marked submitted does
SubmitCommand(w) ==
  /\ At(w, "command")
  /\ \/ Accepted(w) /\ Leaves(w, "importing") /\ Smooth
     \/ Accepted(w) /\ Leaves(w, "unsure") /\ Trouble
     \/ UNCHANGED commandVars /\ Leaves(w, "importing") /\ Trouble
  /\ UNCHANGED <<itemVars, runtimeVars, fileVars, intentVars, overlapped>>

\* the intent this worker would mark is not the one that is stored
RepeatCommand(w) ==
  /\ At(w, "repeat")
  /\ \/ Accepted(w) /\ Leaves(w, "unsure") /\ Smooth
     \/ (Accepted(w) \/ UNCHANGED commandVars) /\ Leaves(w, "importing") /\ Trouble
  /\ UNCHANGED <<itemVars, runtimeVars, fileVars, intentVars, overlapped>>

Importing(w) ==
  /\ \/ At(w, "importing") /\ Writes(w, "IMPORT_SUBMITTED", "submitted")
     \/ At(w, "unsure") /\ Writes(w, "IMPORT_SUBMITTED", "submitted unsure")
  /\ UNCHANGED <<runtimeVars, fileVars, importVars>>

Reconciling(w) ==
  /\ \/ At(w, "submitted") /\ Writes(w, "RECONCILING", "reconcile")
     \/ At(w, "submitted unsure") /\ Writes(w, "RECONCILING", "end")
  /\ UNCHANGED <<runtimeVars, fileVars, importVars>>

\* MigrationService.Reconcile reads the item again
Reconcile(w) ==
  LET state == Resumed(worker[w].item)
      reconciled == state \in {"IMPORT_SUBMITTED", "RECONCILING"} IN
  /\ At(w, "reconcile")
  /\ IF reconciled
     THEN Reads(w, "RECONCILING") /\ Goes(w, "verify")
     ELSE Leaves(w, "end") /\ UNCHANGED itemVars
  /\ UNCHANGED <<runtimeVars, fileVars, importVars, troubles>>

TakesAny == TRUE

\* LibraryVerifier: the library has every file of the manifest, unchanged
Complete == \A t \in Tracks : intent[t] # "none" => copy["managed"][t] = intent[t]

\* ImportService.Reconcile; an incomplete import stays as it is
ReconcileImport(w) ==
  /\ At(w, "verify")
  /\ \/ /\ intent # NoIntent /\ Complete
        /\ dirs' = dirs \ {"approved"} /\ copy' = [copy EXCEPT !["approved"] = NoFiles]
        /\ Goes(w, "scan") /\ UNCHANGED itemVars /\ Smooth
     \/ /\ intent # NoIntent /\ Complete
        /\ dirs' = dirs \ {"approved"} /\ copy' = [copy EXCEPT !["approved"] = NoFiles]
        /\ FailsBefore(w) /\ Trouble
     \/ /\ intent # NoIntent /\ ~Complete
        /\ Leaves(w, "end") /\ UNCHANGED <<itemVars, fileVars>> /\ Smooth
     \/ intent = NoIntent /\ FailsBefore(w) /\ UNCHANGED fileVars /\ Smooth
     \/ FailsBefore(w) /\ UNCHANGED fileVars /\ Trouble
  /\ UNCHANGED <<runtimeVars, importVars>>

\* a release is visible in a library of Navidrome with all its tracks
Visible(place) == \A t \in Tracks : copy[place][t] # "none"

EnsureVisible(w) ==
  /\ At(w, "scan")
  /\ \/ Visible("managed") /\ ~Visible("unmanaged") /\ Writes(w, "MIGRATED", "cleanup")
     \/ ~(Visible("managed") /\ ~Visible("unmanaged")) /\ FailsBefore(w) /\ Smooth
     \/ FailsBefore(w) /\ Trouble
  /\ UNCHANGED <<runtimeVars, fileVars, importVars>>

Cleanup(w) ==
  /\ At(w, "cleanup")
  /\ copy' = [copy EXCEPT !["backup"] = NoFiles]
  /\ Leaves(w, "end")
  /\ UNCHANGED <<itemVars, runtimeVars, dirs, importVars, troubles>>

(* rollback: Restore, file by file, makes the directory it needs, and compares *)
(* what it has put back with what it knows of the original.  When all is       *)
(* restored the backups are removed and the directory goes back.              *)
Restore(w) ==
  LET t == worker[w].at
      kept == copy["backup"][t]
      known == worker[w].files[t] IN
  /\ At(w, "restore")
  /\ \/ /\ kept # "none"
        /\ copy' = [copy EXCEPT !["approved"][t] = kept]
        /\ dirs' = dirs \cup {"approved"}
        /\ \/ /\ kept = known /\ UNCHANGED itemVars /\ Smooth
              /\ IF t < TrackCount /\ worker[w].files[t + 1] # "none"
                 THEN GoesTo(w, "restore", t + 1) ELSE Goes(w, "restored")
           \/ kept = known /\ FailsBefore(w) /\ Trouble
           \/ (kept # known \/ kept = "cut") /\ FailsBefore(w) /\ Smooth
     \/ kept = "none" /\ FailsBefore(w) /\ Smooth /\ UNCHANGED fileVars
  /\ UNCHANGED <<runtimeVars, importVars>>

RestoreEnds(w) ==
  /\ At(w, "restored")
  /\ copy' = [copy EXCEPT !["backup"] = NoFiles]
  /\ Goes(w, "return")
  /\ UNCHANGED <<itemVars, runtimeVars, dirs, importVars, troubles>>

Return(w) ==
  /\ At(w, "return")
  /\ IF "approved" \in dirs /\ "unmanaged" \notin dirs
     THEN /\ dirs' = (dirs \ {"approved"}) \cup {"unmanaged"}
          /\ copy' = [copy EXCEPT !["unmanaged"] = copy["approved"],
                                  !["approved"] = NoFiles]
     ELSE UNCHANGED fileVars
  /\ FailsBefore(w)
  /\ UNCHANGED <<runtimeVars, importVars, troubles>>

-----------------------------------------------------------------------------
(* Lidarr moves the files of a command one by one, and may stop early.       *)

\* a file that several commands list is looked for again
LidarrImports(t) ==
  /\ t \in queue /\ copy["approved"][t] # "none"
  /\ queue' \in {queue \ {t}} \cup {q \in {queue} : commands > 1}
  /\ copy' = [copy EXCEPT !["managed"][t] = copy["approved"][t],
                          !["approved"][t] = "none"]
  /\ UNCHANGED <<itemVars, worker, runtimeVars, dirs, intentVars, commands, overlapped,
                 troubles>>

LidarrEnds ==
  /\ queue # {} /\ queue' = {}
  /\ UNCHANGED <<itemVars, worker, runtimeVars, fileVars, intentVars, commands, overlapped,
                 troubles>>

Next ==
  \/ \E i \in Items :
       \/ CreateBatch(i) \/ ConfirmSelected(i) \/ Retry(i) \/ DeleteExpiredLease(i)
       \/ \E w \in Workers : AcquireMigrationLease(i, w)
  \/ \E w \in Workers :
       \/ ReleaseMigrationLease(w) \/ Start(w) \/ CheckItem(w) \/ DecideAgain(w)
       \/ Stage(w) \/ StageFails(w) \/ ApplyFails(w)
       \/ OriginalEvidence(w) \/ CopyMigrationFile(w) \/ ApplySelected(w)
       \/ SaveMigrationEvidence(w) \/ Manifest(w) \/ Prepare(w) \/ PutImportIntent(w)
       \/ SubmitCommand(w) \/ RepeatCommand(w)
       \/ Importing(w) \/ Reconciling(w) \/ Reconcile(w)
       \/ ReconcileImport(w) \/ EnsureVisible(w)
       \/ Cleanup(w) \/ Restore(w) \/ RestoreEnds(w) \/ Return(w)
  \/ Dispatch \/ Crash \/ Restart
  \/ \E t \in Tracks : LidarrImports(t)
  \/ LidarrEnds

Spec == Init /\ [][Next]_vars

-----------------------------------------------------------------------------
(* Properties.                                                               *)

\* Every variable has its type, an item fails only from a state it can resume, and a
\* worker that copies a file knows what it copies.
TypeOK ==
  /\ item \in [Items -> [state : MigrationStates \cup {"none"},
                         resume : MigrationStates \cup {"none"}]]
  /\ \A i \in Items :
       (item[i].resume # "none") <=> (item[i].state = "FAILED_RETRYABLE")
  /\ worker \in [Workers -> [item : Items \cup {"none"},
                             pc : {"idle", "start", "check", "identity", "stage", "backup",
                                   "copying", "tag", "save", "submit", "prepare", "store",
                                   "command", "repeat", "importing", "unsure", "submitted",
                                   "submitted unsure", "reconcile", "verify", "scan",
                                   "cleanup", "restore", "restored", "return", "end"},
                             at : Tracks, files : [Tracks -> Contents \cup {"unread"}],
                             manifest : [Tracks -> Contents], plan : SUBSET Tracks]]
  /\ \A w \in Workers :
       /\ worker[w].pc # "idle" => worker[w].item \in Items
       /\ worker[w].pc = "copying" => worker[w].files[worker[w].at] # "unread"
  /\ stale \subseteq Workers /\ lease \subseteq Items /\ due \subseteq Items
  /\ running \in BOOLEAN /\ woken \in BOOLEAN
  /\ dirs \subseteq {"unmanaged", "approved"}
  /\ copy \in [Places -> [Tracks -> Contents]]
  /\ intent \in [Tracks -> Contents \cup {"unstored"}] /\ request \subseteq Tracks
  /\ commands \in Nat /\ queue \subseteq Tracks /\ overlapped \in BOOLEAN
  /\ troubles \in 0..MaxTroubles

Begun == {"LIDARR_CATALOG_READY", "IMPORT_SUBMITTED", "RECONCILING", "MIGRATED"}

\* A check, whatever it finds, and a migration whose identity or catalog step fails
\* leave the unmanaged release as it is: nothing is moved or written and no Manual
\* Import is sent before an item has got to LIDARR_CATALOG_READY (the calls that make
\* the artist and the album known to Lidarr are sent before).
UntouchedUntilCatalog ==
  (\A i \in Items : Resumed(i) \notin Begun) =>
    /\ copy["unmanaged"] = [t \in Tracks |-> "old"]
    /\ intent = NoIntent /\ commands = 0

\* An item is reported as migrated only when the library Lidarr manages has every FLAC
\* file of the release (its artwork is not looked at, by the code either), whatever
\* crashed or failed before, however often it was resumed and whatever another item did
\* with the directories.
MigratedInLibrary ==
  (\E i \in Items : item[i].state = "MIGRATED") =>
    \A t \in Tracks : copy["managed"][t] # "none"

\* What Lidarr is asked to import is the whole release ("Move the whole release with
\* no-replace into an item-specific approved path"); nothing is asked while no intent
\* is stored.
WholeSubmitted == \A t \in Tracks : intent[t] # "none"

\* While that is so, no step of a migration, of a rollback or of a cleanup leaves a FLAC
\* file of the release in its backup only, or nowhere.  (It may be a cut file; cover.jpg
\* is removed with the approved directory.)
CopyLeft ==
  WholeSubmitted =>
    \A t \in Tracks : \E p \in Places \ {"backup"} : copy[p][t] # "none"

\* What a rollback has put back in the library of unmanaged releases is not the
\* beginning of a file ("failure before Manual Import returns the exact manifest to
\* unmanaged root").  That it may be tagged is another matter: README, section 6.
ReturnedWhole == \A t \in Tracks : copy["unmanaged"][t] # "cut"

\* Lidarr is asked to import the release once, whatever fails after the intent is stored
\* and however often the release's items are resumed, retried or rolled back; unless two
\* workers, of one item or of two, looked for the intent before either stored it, which
\* then both send it (README, section 6).
OneCommand == commands <= 1 \/ overlapped

\* Once Lidarr has a file of the release, the file is not put back in the library of
\* unmanaged releases ("Denyra does not create another unmanaged copy").  No run checks
\* this: one item breaks it with a crash between SubmitCommand and Importing, and several
\* items of one release break it, and WholeSubmitted, without one (README, section 6).
NoSecondCopy ==
  \A t \in Tracks : copy["managed"][t] = "none" \/ copy["unmanaged"][t] = "none"
=============================================================================
