--------------------------- MODULE MigrationProofs ---------------------------
(* Proofs about Migration: for any number of items, workers and tracks, a     *)
(* release that nobody confirmed is left alone, an item that is reported      *)
(* migrated has its files in the library, Lidarr gets a second command only   *)
(* from workers that overlapped, and a file of a release that is imported     *)
(* whole is never left in its backup only.                                    *)
EXTENDS Migration, TLAPS

-----------------------------------------------------------------------------
(* The inductive invariant *)

Pcs == {"idle", "start", "check", "identity", "stage", "backup", "copying", "tag", "save",
        "submit", "prepare", "store", "command", "repeat", "importing", "unsure",
        "submitted", "submitted unsure", "reconcile", "verify", "scan", "cleanup",
        "restore", "restored", "return", "end"}
\* where a worker stages, writes, submits, verifies or rolls back ...
Mutating == Pcs \ {"idle", "start", "check", "identity", "end"}
\* ... and where it has read, or made, the state of its item
Sure == Pcs \ {"idle", "start", "reconcile", "end"}
Mutation == {"stage", "backup", "copying", "tag", "save", "submit", "prepare", "store",
             "command", "repeat", "importing", "unsure", "restore", "restored", "return"}

\* The state of an item follows the place of a worker that is not stale.
StateAt(pc) ==
  CASE pc = "check" -> "CHECKING"
    [] pc = "identity" -> "CONFIRMED"
    [] pc \in {"submitted", "submitted unsure"} -> "IMPORT_SUBMITTED"
    [] pc \in {"verify", "scan"} -> "RECONCILING"
    [] pc = "cleanup" -> "MIGRATED"
    [] OTHER -> "LIDARR_CATALOG_READY"
\* An item can only be resumed where a worker of it may have failed.
FailsFrom == {"CHECKING", "CONFIRMED", "LIDARR_CATALOG_READY", "RECONCILING"}

ResumedAt(state, resume) == IF state = "FAILED_RETRYABLE" THEN resume ELSE state
ItemFits(i) == item[i].state = "FAILED_RETRYABLE" => item[i].resume \in FailsFrom
\* A worker that others have overtaken may be anywhere, but its item has not gone back
\* before the mutation.
WorkerFits(w) ==
  /\ worker[w].pc \in Sure /\ w \notin stale =>
       item[worker[w].item].state = StateAt(worker[w].pc)
  /\ worker[w].pc \in Mutating => Resumed(worker[w].item) \in Begun
Fits == /\ \A i \in Items : ItemFits(i)
        /\ \A w \in Workers : WorkerFits(w)

\* Unless workers have overlapped, one at most is between finding no intent and storing
\* its own, none has found another's, and one at most has still to send the only command.
SendersFit(w) ==
  /\ worker[w].pc \in Submitting => intent = NoIntent /\ commands = 0
  /\ worker[w].pc = "command" => intent # NoIntent /\ commands = 0
  /\ worker[w].pc # "repeat"
  /\ \A v \in Workers \ {w} :
       /\ worker[w].pc \in Submitting => worker[v].pc \notin Submitting
       /\ worker[w].pc = "command" => worker[v].pc # "command"
CommandsFit ==
  ~overlapped =>
    /\ commands \in {0, 1} /\ (commands = 1 => intent # NoIntent)
    /\ \A w \in Workers : SendersFit(w)

ItemType ==
  /\ item \in [Items -> [state : MigrationStates \cup {"none"},
                         resume : MigrationStates \cup {"none"}]]
  /\ \A i \in Items : (item[i].resume # "none") <=> (item[i].state = "FAILED_RETRYABLE")
\* What a worker can know of a file, and what a worker can be.
Known == Contents \cup {"unread"}
WorkerRecords == [item : Items \cup {"none"}, pc : Pcs, at : Tracks,
                  files : [Tracks -> Known], manifest : [Tracks -> Contents],
                  plan : SUBSET Tracks]
Knows(row) ==
  /\ row.pc # "idle" => row.item \in Items
  /\ row.pc = "copying" => row.files[row.at] # "unread"
WorkerType ==
  /\ worker \in [Workers -> WorkerRecords] /\ \A w \in Workers : Knows(worker[w])
  /\ stale \subseteq Workers
RuntimeType ==
  lease \subseteq Items /\ due \subseteq Items /\ running \in BOOLEAN /\ woken \in BOOLEAN
FileType ==
  /\ dirs \subseteq {"unmanaged", "approved"}
  /\ copy \in [Places -> [Tracks -> Contents]]
ImportType ==
  /\ intent \in [Tracks -> Contents \cup {"unstored"}] /\ request \subseteq Tracks
  /\ commands \in Nat /\ queue \subseteq Tracks /\ overlapped \in BOOLEAN
  /\ troubles \in 0..MaxTroubles

\* Nothing is in a directory that does not exist: a directory that a rename replaces
\* has nothing to lose.
DirsFit == \A p \in {"unmanaged", "approved"} : p \notin dirs => copy[p] = NoFiles

IInv == /\ TypeOK /\ Fits /\ CommandsFit /\ UntouchedUntilCatalog /\ MigratedInLibrary
        /\ DirsFit /\ CopyLeft

LEMMA TypeParts ==
  TypeOK <=> ItemType /\ WorkerType /\ RuntimeType /\ FileType /\ ImportType
BY DEF TypeOK, ItemType, WorkerType, WorkerRecords, Knows, Known, RuntimeType, FileType,
       ImportType, Pcs

\* The disjuncts of Next that are steps of an operator, or of a worker.
OperatorNext(i) == CreateBatch(i) \/ ConfirmSelected(i) \/ Retry(i)
WorkerNext(w) ==
  \/ Start(w) \/ CheckItem(w) \/ DecideAgain(w) \/ Stage(w) \/ StageFails(w)
  \/ ApplyFails(w) \/ OriginalEvidence(w) \/ CopyMigrationFile(w) \/ ApplySelected(w)
  \/ SaveMigrationEvidence(w) \/ Manifest(w) \/ Prepare(w) \/ PutImportIntent(w)
  \/ SubmitCommand(w) \/ RepeatCommand(w) \/ Importing(w) \/ Reconciling(w)
  \/ Reconcile(w) \/ ReconcileImport(w) \/ EnsureVisible(w) \/ Cleanup(w) \/ Restore(w)
  \/ RestoreEnds(w) \/ Return(w)
RuntimeNext ==
  \/ \E i \in Items : DeleteExpiredLease(i) \/ \E w \in Workers : AcquireMigrationLease(i, w)
  \/ \E w \in Workers : ReleaseMigrationLease(w)
  \/ Dispatch \/ Crash \/ Restart
LidarrNext == (\E t \in Tracks : LidarrImports(t)) \/ LidarrEnds

LEMMA NextCases ==
  ASSUME [Next]_vars
  PROVE  \/ \E i \in Items : OperatorNext(i)
         \/ \E w \in Workers : WorkerNext(w)
         \/ RuntimeNext \/ LidarrNext \/ UNCHANGED vars
BY DEF Next, OperatorNext, WorkerNext, RuntimeNext, LidarrNext

-----------------------------------------------------------------------------
(* Workers *)

\* What a step leaves of a worker.
Turned(w, pc) ==
  /\ worker' \in [Workers -> WorkerRecords] /\ \A v \in Workers : Knows(worker'[v])
  /\ worker'[w].pc = pc /\ worker'[w].item = worker[w].item
  /\ \A v \in Workers \ {w} : worker'[v] = worker[v]

LEMMA KnownPcs ==
  \A pc \in {"idle", "start", "check", "identity", "stage", "backup", "copying", "tag",
             "save", "submit", "prepare", "store", "command", "repeat", "importing",
             "unsure", "submitted", "submitted unsure", "reconcile", "verify", "scan",
             "cleanup", "restore", "restored", "return", "end"} : pc \in Pcs
BY DEF Pcs

LEMMA FirstFile == 1 \in Tracks
BY TrackCountAssumption DEF Tracks

LEMMA OtherWorker ==
  ASSUME WorkerType, NEW w \in Workers, NEW next \in WorkerRecords, Knows(next),
         next.item = worker[w].item, worker' = [worker EXCEPT ![w] = next]
  PROVE  Turned(w, next.pc)
BY DEF WorkerType, Turned

LEMMA IdleWorker ==
  NoWorker \in WorkerRecords /\ Knows(NoWorker) /\ NoWorker.pc = "idle"
BY FirstFile DEF NoWorker, WorkerRecords, Knows, NoFiles, Known, Contents, Pcs

NewWorker(i, pc, plan) ==
  [item |-> i, pc |-> pc, at |-> 1, files |-> NoFiles, manifest |-> NoFiles, plan |-> plan]

LEMMA NewWorkers ==
  ASSUME NEW pc \in Pcs \ {"copying"}, NEW i \in Items, NEW plan \in SUBSET Tracks
  PROVE  /\ NewWorker(i, pc, plan) \in WorkerRecords /\ Knows(NewWorker(i, pc, plan))
         /\ NewWorker(i, pc, plan).pc = pc /\ NewWorker(i, pc, plan).item = i
<1>1. NoFiles \in [Tracks -> Known] /\ NoFiles \in [Tracks -> Contents]
  BY DEF NoFiles, Known, Contents
<1> QED BY <1>1, FirstFile DEF NewWorker, WorkerRecords, Knows

LEMMA NewIs ==
  ASSUME NEW pc, NEW i
  PROVE  [NoWorker EXCEPT !.item = i, !.pc = pc] = NewWorker(i, pc, {})
<1>1. [NoWorker EXCEPT !.item = i] =
        [item |-> i, pc |-> "idle", at |-> 1, files |-> NoFiles, manifest |-> NoFiles,
         plan |-> {}]
  BY DEF NoWorker
<1>2. [[item |-> i, pc |-> "idle", at |-> 1, files |-> NoFiles, manifest |-> NoFiles,
        plan |-> {}] EXCEPT !.pc = pc] = NewWorker(i, pc, {})
  BY DEF NewWorker
<1>3. [NoWorker EXCEPT !.item = i, !.pc = pc] = [[NoWorker EXCEPT !.item = i] EXCEPT !.pc = pc]
  OBVIOUS
<1> QED BY <1>1, <1>2, <1>3

LEMMA Turning ==
  ASSUME WorkerType, NEW w \in Workers, worker[w].item \in Items,
         NEW pc \in Pcs \ {"copying"}
  PROVE  /\ Goes(w, pc) => Turned(w, pc)
         /\ \A at \in Tracks : GoesTo(w, pc, at) => Turned(w, pc)
         /\ Leaves(w, pc) => Turned(w, pc)
         /\ Sends(w, pc) => Turned(w, pc)
         /\ \A known \in Known : Evidence(w, pc, known) => Turned(w, pc)
<1>0. /\ worker \in [Workers -> WorkerRecords] /\ worker[w] \in WorkerRecords
      /\ worker[w].at \in Tracks /\ worker[w].files \in [Tracks -> Known]
      /\ worker[w].plan \in SUBSET Tracks
  BY DEF WorkerType, WorkerRecords
<1>1. ASSUME Goes(w, pc)
      PROVE  Turned(w, pc)
  <2>1. PICK next : next = [worker[w] EXCEPT !.pc = pc]
    OBVIOUS
  <2>2. worker' = [worker EXCEPT ![w] = next]
    BY <1>0, <1>1, <2>1 DEF Goes
  <2>3. next \in WorkerRecords /\ next.pc = pc /\ next.item = worker[w].item
    BY <1>0, <2>1 DEF WorkerRecords
  <2> QED BY <2>2, <2>3, OtherWorker DEF Knows
<1>2. ASSUME NEW at \in Tracks, GoesTo(w, pc, at)
      PROVE  Turned(w, pc)
  <2>1. PICK next : next = [worker[w] EXCEPT !.pc = pc, !.at = at]
    OBVIOUS
  <2>2. worker' = [worker EXCEPT ![w] = next]
    BY <1>0, <1>2, <2>1 DEF GoesTo
  <2>3. next \in WorkerRecords /\ next.pc = pc /\ next.item = worker[w].item
    BY <1>0, <2>1 DEF WorkerRecords
  <2> QED BY <2>2, <2>3, OtherWorker DEF Knows
<1>3. ASSUME Leaves(w, pc)
      PROVE  Turned(w, pc)
  <2>1. PICK plan \in SUBSET Tracks : plan = {}
    OBVIOUS
  <2>2. worker' = [worker EXCEPT ![w] = NewWorker(worker[w].item, pc, plan)]
    BY <1>3, <2>1, NewIs DEF Leaves
  <2>3. /\ NewWorker(worker[w].item, pc, plan) \in WorkerRecords
        /\ Knows(NewWorker(worker[w].item, pc, plan))
        /\ NewWorker(worker[w].item, pc, plan).pc = pc
        /\ NewWorker(worker[w].item, pc, plan).item = worker[w].item
    BY NewWorkers
  <2> QED BY <2>2, <2>3, OtherWorker
<1>4. ASSUME Sends(w, pc)
      PROVE  Turned(w, pc)
  <2>1. worker' = [worker EXCEPT ![w] = NewWorker(worker[w].item, pc, worker[w].plan)]
    <3>1. PICK next : next = [NoWorker EXCEPT !.item = worker[w].item, !.pc = pc,
                                              !.plan = worker[w].plan]
      OBVIOUS
    <3>2. next = [[NoWorker EXCEPT !.item = worker[w].item, !.pc = pc]
                    EXCEPT !.plan = worker[w].plan]
      BY <3>1
    <3>3. [NoWorker EXCEPT !.item = worker[w].item, !.pc = pc] = NewWorker(worker[w].item, pc, {})
      BY NewIs
    <3>4. next = NewWorker(worker[w].item, pc, worker[w].plan)
      <4>1. next = [NewWorker(worker[w].item, pc, {}) EXCEPT !.plan = worker[w].plan]
        BY Zenon, <3>2, <3>3
      <4> QED BY <4>1 DEF NewWorker
    <3> QED BY <1>4, <3>1, <3>4 DEF Sends
  <2>2. /\ NewWorker(worker[w].item, pc, worker[w].plan) \in WorkerRecords
        /\ Knows(NewWorker(worker[w].item, pc, worker[w].plan))
        /\ NewWorker(worker[w].item, pc, worker[w].plan).pc = pc
        /\ NewWorker(worker[w].item, pc, worker[w].plan).item = worker[w].item
    BY <1>0, NewWorkers
  <2> QED BY <2>1, <2>2, OtherWorker
<1>5. ASSUME NEW known \in Known, Evidence(w, pc, known)
      PROVE  Turned(w, pc)
  <2>1. PICK next : next = [worker[w] EXCEPT !.pc = pc, !.files[worker[w].at] = known]
    OBVIOUS
  <2>2. worker' = [worker EXCEPT ![w] = next]
    BY <1>0, <1>5, <2>1 DEF Evidence
  <2>3. next \in WorkerRecords /\ next.pc = pc /\ next.item = worker[w].item
    BY <1>0, <2>1 DEF WorkerRecords
  <2> QED BY <2>2, <2>3, OtherWorker DEF Knows
<1> QED BY <1>1, <1>2, <1>3, <1>4, <1>5

\* The steps that need more than a place in the code.
LEMMA Applying ==
  ASSUME WorkerType, NEW w \in Workers, worker[w].item \in Items
  PROVE  /\ \A known \in Contents : Evidence(w, "copying", known) => Turned(w, "copying")
         /\ RollsBack(w) => Turned(w, "restore")
         /\ Unread(w) => Turned(w, "restore")
         /\ \A files \in [Tracks -> Contents] :
              worker' = [worker EXCEPT ![w].pc = "prepare", ![w].manifest = files]
                => Turned(w, "prepare")
         /\ \A plan \in SUBSET Tracks :
              worker' = [worker EXCEPT ![w].pc = "store", ![w].plan = plan]
                => Turned(w, "store")
<1>0. /\ worker \in [Workers -> WorkerRecords] /\ worker[w] \in WorkerRecords
      /\ worker[w].at \in Tracks /\ worker[w].files \in [Tracks -> Known]
  BY DEF WorkerType, WorkerRecords
<1>1. ASSUME NEW known \in Contents, Evidence(w, "copying", known)
      PROVE  Turned(w, "copying")
  <2>1. PICK next : next = [worker[w] EXCEPT !.pc = "copying", !.files[worker[w].at] = known]
    OBVIOUS
  <2>2. worker' = [worker EXCEPT ![w] = next]
    BY <1>0, <1>1, <2>1 DEF Evidence
  <2>3. /\ next \in WorkerRecords /\ next.pc = "copying" /\ next.item = worker[w].item
        /\ next.files[next.at] = known
    BY <1>0, <2>1, KnownPcs DEF WorkerRecords, Known
  <2>4. known # "unread"
    BY DEF Contents
  <2> QED BY <2>2, <2>3, <2>4, OtherWorker DEF Knows
<1>2. RollsBack(w) => Turned(w, "restore")
  BY FirstFile, KnownPcs, Turning DEF RollsBack
<1>3. ASSUME Unread(w)
      PROVE  Turned(w, "restore")
  <2>1. PICK next : next = [worker[w] EXCEPT !.pc = "restore", !.at = 1,
                                             !.files[worker[w].at] = "unread"]
    OBVIOUS
  <2>2. worker' = [worker EXCEPT ![w] = next]
    BY <1>0, <1>3, <2>1 DEF Unread
  <2>3. next \in WorkerRecords /\ next.pc = "restore" /\ next.item = worker[w].item
    BY <1>0, <2>1, FirstFile, KnownPcs DEF WorkerRecords, Known
  <2> QED BY <2>2, <2>3, OtherWorker DEF Knows
<1>4. ASSUME NEW files \in [Tracks -> Contents],
             worker' = [worker EXCEPT ![w].pc = "prepare", ![w].manifest = files]
      PROVE  Turned(w, "prepare")
  <2>1. PICK next : next = [worker[w] EXCEPT !.pc = "prepare", !.manifest = files]
    OBVIOUS
  <2>2. worker' = [worker EXCEPT ![w] = next]
    BY <1>0, <1>4, <2>1
  <2>3. next \in WorkerRecords /\ next.pc = "prepare" /\ next.item = worker[w].item
    BY <1>0, <2>1, KnownPcs DEF WorkerRecords
  <2> QED BY <2>2, <2>3, OtherWorker DEF Knows
<1>5. ASSUME NEW plan \in SUBSET Tracks,
             worker' = [worker EXCEPT ![w].pc = "store", ![w].plan = plan]
      PROVE  Turned(w, "store")
  <2>1. PICK next : next = [worker[w] EXCEPT !.pc = "store", !.plan = plan]
    OBVIOUS
  <2>2. worker' = [worker EXCEPT ![w] = next]
    BY <1>0, <1>5, <2>1
  <2>3. next \in WorkerRecords /\ next.pc = "store" /\ next.item = worker[w].item
    BY <1>0, <2>1, KnownPcs DEF WorkerRecords
  <2> QED BY <2>2, <2>3, OtherWorker DEF Knows
<1> QED BY <1>1, <1>2, <1>3, <1>4, <1>5

-----------------------------------------------------------------------------
(* Items and their workers *)

\* What every step keeps: an item that has begun stays begun, is migrated only when its
\* files are in the library, and what it is follows its workers.
Followed ==
  /\ ItemType' /\ WorkerType' /\ Fits'
  /\ \A i \in Items :
       /\ Resumed(i) \in Begun => Resumed(i)' \in Begun
       /\ item'[i].state = "MIGRATED" => item[i].state = "MIGRATED" \/ Visible("managed")

\* An item becomes (state, resume).
Placed(i, state, resume) ==
  /\ ItemType' /\ item'[i].state = state /\ item'[i].resume = resume
  /\ \A j \in Items \ {i} : item'[j] = item[j]
Moves(i, state, resume) ==
  /\ Resumed(i) \in Begun => ResumedAt(state, resume) \in Begun
  /\ state = "FAILED_RETRYABLE" => resume \in FailsFrom
  /\ state = "MIGRATED" => item[i].state = "MIGRATED" \/ Visible("managed")

LEMMA Placing ==
  ASSUME ItemType, NEW i \in Items
  PROVE  /\ \A state \in MigrationStates \ {"FAILED_RETRYABLE"} :
              item' = [item EXCEPT ![i] = [state |-> state, resume |-> "none"]]
                => Placed(i, state, "none")
         /\ item[i].state \in MigrationStates
            /\ item' = [item EXCEPT ![i] = [state |-> "FAILED_RETRYABLE",
                                            resume |-> item[i].state]]
              => Placed(i, "FAILED_RETRYABLE", item[i].state)
         /\ item' = item => Placed(i, item[i].state, item[i].resume)
<1>1. ASSUME NEW state \in MigrationStates, NEW resume \in MigrationStates \cup {"none"},
             (resume # "none") <=> (state = "FAILED_RETRYABLE"),
             item' = [item EXCEPT ![i] = [state |-> state, resume |-> resume]]
      PROVE  Placed(i, state, resume)
  BY <1>1 DEF Placed, ItemType
<1>2. "none" \notin MigrationStates /\ "FAILED_RETRYABLE" \in MigrationStates
  BY DEF MigrationStates
<1>3. item' = item => Placed(i, item[i].state, item[i].resume)
  BY DEF Placed, ItemType
<1> QED BY <1>1, <1>2, <1>3

\* What an item has become does not disturb the workers: the others of it are stale, or
\* it is as it was.
LEMMA Others ==
  ASSUME ItemType, WorkerType, Fits, NEW i \in Items, NEW state, NEW resume,
         Placed(i, state, resume), Moves(i, state, resume)
  PROVE  /\ \A j \in Items : /\ ItemFits(j)'
                             /\ Resumed(j) \in Begun => Resumed(j)' \in Begun
                             /\ item'[j].state = "MIGRATED" =>
                                  item[j].state = "MIGRATED" \/ Visible("managed")
         /\ \A v \in Workers :
              /\ worker'[v] = worker[v]
              /\ v \notin stale' =>
                   v \notin stale /\ (item' = item \/ worker[v].item # i)
              => WorkerFits(v)'
<1>1. ASSUME NEW j \in Items
      PROVE  /\ ItemFits(j)'
             /\ Resumed(j) \in Begun => Resumed(j)' \in Begun
             /\ item'[j].state = "MIGRATED" =>
                  item[j].state = "MIGRATED" \/ Visible("managed")
  <2>1. CASE j = i
    BY <2>1 DEF Placed, Moves, ItemFits, Resumed, ResumedAt
  <2>2. CASE j # i
    BY <2>2 DEF Placed, ItemFits, Resumed, Fits
  <2> QED BY <2>1, <2>2
<1>2. ASSUME NEW v \in Workers, worker'[v] = worker[v],
             v \notin stale' => v \notin stale /\ (item' = item \/ worker[v].item # i)
      PROVE  WorkerFits(v)'
  <2>1. WorkerFits(v)
    BY DEF Fits
  <2>2. CASE worker[v].pc \notin Sure \cup Mutating
    BY <1>2, <2>2 DEF WorkerFits
  <2>3. CASE worker[v].pc \in Sure \cup Mutating
    <3>1. PICK j \in Items : j = worker[v].item
      BY <2>3 DEF WorkerType, Knows, Sure, Mutating
    <3>2. worker[v].pc \in Mutating => Resumed(j)' \in Begun
      BY <1>1, <2>1, <3>1 DEF WorkerFits
    <3>3. ASSUME worker[v].pc \in Sure, v \notin stale'
          PROVE  item'[j].state = StateAt(worker[v].pc)
      <4>1. item'[j] = item[j]
        BY <1>2, <3>1, <3>3 DEF Placed
      <4> QED BY <1>2, <2>1, <3>1, <3>3, <4>1 DEF WorkerFits
    <3> QED BY <1>2, <3>1, <3>2, <3>3 DEF WorkerFits, Resumed
  <2> QED BY <2>2, <2>3
<1> QED BY <1>1, <1>2

LEMMA Following ==
  ASSUME ItemType, WorkerType, Fits, NEW w \in Workers, NEW i \in Items, NEW pc \in Pcs,
         NEW state, NEW resume, worker[w].item = i, Turned(w, pc),
         Placed(i, state, resume), Moves(i, state, resume),
         stale \ {w} \subseteq stale', stale' \subseteq Workers,
         item' = item \/ \A v \in Workers \ {w} : worker[v].item = i => v \in stale',
         pc \in Sure /\ w \notin stale' => state = StateAt(pc),
         pc \in Mutating => ResumedAt(state, resume) \in Begun
  PROVE  Followed
<1>1. WorkerFits(w)'
  BY DEF WorkerFits, Turned, Placed, Resumed, ResumedAt
<1>2. ASSUME NEW v \in Workers \ {w}
      PROVE  WorkerFits(v)'
  <2>1. worker'[v] = worker[v]
    BY DEF Turned
  <2>2. v \notin stale' => v \notin stale /\ (item' = item \/ worker[v].item # i)
    OBVIOUS
  <2> QED BY <2>1, <2>2, Others
<1>3. ItemType' /\ WorkerType'
  BY DEF Placed, Turned, WorkerType
<1> QED BY <1>1, <1>2, <1>3, Others DEF Followed, Fits

\* A worker goes on without a look at its item.
LEMMA Keeping ==
  ASSUME ItemType, WorkerType, Fits, NEW w \in Workers, NEW pc \in Pcs,
         worker[w].item \in Items, Turned(w, pc), UNCHANGED itemVars,
         pc = "end" \/ {worker[w].pc, pc} \subseteq Mutation
                    \/ {worker[w].pc, pc} \subseteq {"verify", "scan"}
  PROVE  Followed
<1>1. PICK i \in Items : i = worker[w].item
  OBVIOUS
<1>2. /\ item' = item /\ stale' = stale
      /\ Placed(i, item[i].state, item[i].resume)
  BY Placing DEF itemVars
<1>3. Moves(i, item[i].state, item[i].resume)
  BY DEF Fits, ItemFits, Moves, Resumed, ResumedAt
<1>4. /\ pc \in Sure /\ w \notin stale => item[i].state = StateAt(pc)
      /\ pc \in Mutating => ResumedAt(item[i].state, item[i].resume) \in Begun
  <2>1. pc # "end" => {worker[w].pc, pc} \subseteq Sure \cap Mutating
    <3>1. Mutation \subseteq Sure \cap Mutating
      <4>1. \A x \in Mutation : x \in Pcs
        BY DEF Mutation, Pcs
      <4>2. \A x \in Mutation : x \notin {"idle", "start", "check", "identity", "reconcile", "end"}
        BY DEF Mutation
      <4> QED BY <4>1, <4>2 DEF Sure, Mutating
    <3>2. {"verify", "scan"} \subseteq Sure \cap Mutating
      BY DEF Sure, Mutating, Pcs
    <3> QED BY <3>1, <3>2
  <2>2. pc # "end" => StateAt(pc) = StateAt(worker[w].pc)
    BY DEF Mutation, StateAt
  <2>3. pc = "end" => pc \notin Sure \cup Mutating
    BY DEF Sure, Mutating
  <2>4. WorkerFits(w)
    BY DEF Fits
  <2> QED BY <1>1, <2>1, <2>2, <2>3, <2>4 DEF WorkerFits, Resumed, ResumedAt
<1> QED BY <1>1, <1>2, <1>3, <1>4, Following DEF WorkerType

\* A worker writes a state that comes after the one it has read.
LEMMA Writing ==
  ASSUME ItemType, WorkerType, Fits, NEW w \in Workers, worker[w].pc \in Sure,
         NEW state \in MigrationStates \ {"FAILED_RETRYABLE"}, NEW pc \in Pcs \ {"copying"},
         Writes(w, state, pc),
         pc \in Sure => state = StateAt(pc), pc \in Mutating => state \in Begun,
         StateAt(worker[w].pc) \in Begun => state \in Begun,
         state = "MIGRATED" => Visible("managed")
  PROVE  Followed
<1>1. PICK i \in Items : i = worker[w].item
  BY DEF WorkerType, Knows, Sure
<1>2. CASE UNCHANGED itemVars /\ Leaves(w, "end")
  BY <1>1, <1>2, Turning, KnownPcs, Keeping
<1>3. CASE w \notin stale /\ Moved(state, i, {w}) /\ Goes(w, pc)
  <2>1. /\ item' = [item EXCEPT ![i] = [state |-> state, resume |-> "none"]]
        /\ stale' = stale \cup {v \in Workers \ {w} : worker[v].item = i}
    BY <1>3 DEF Moved, Updated
  <2>2. Placed(i, state, "none") /\ Turned(w, pc)
    BY <1>1, <1>3, <2>1, Placing, Turning
  <2>3. item[i].state = StateAt(worker[w].pc) /\ StateAt(worker[w].pc) # "FAILED_RETRYABLE"
    BY <1>1, <1>3 DEF Fits, WorkerFits, StateAt
  <2>4. Moves(i, state, "none")
    BY <2>3 DEF Moves, Resumed, ResumedAt
  <2> QED BY <1>1, <1>3, <2>1, <2>2, <2>4, Following DEF WorkerType, ResumedAt
<1> QED BY <1>1, <1>2, <1>3 DEF Writes

\* A worker fails where its item can be resumed.
LEMMA Failing ==
  ASSUME ItemType, WorkerType, Fits, NEW w \in Workers, worker[w].pc \in Sure,
         StateAt(worker[w].pc) \in FailsFrom, FailsBefore(w)
  PROVE  Followed
<1>1. PICK i \in Items : i = worker[w].item
  BY DEF WorkerType, Knows, Sure
<1>2. Turned(w, "end")
  BY <1>1, Turning, KnownPcs DEF FailsBefore
<1>3. CASE w \in stale
  BY <1>1, <1>2, <1>3, KnownPcs, Keeping DEF FailsBefore
<1>4. CASE w \notin stale
  <2>1. /\ item' = [item EXCEPT ![i] = [state |-> "FAILED_RETRYABLE", resume |-> item[i].state]]
        /\ stale' = stale \cup {v \in Workers \ {w} : worker[v].item = i}
    BY <1>1, <1>4 DEF FailsBefore, Failed, Updated
  <2>2. item[i].state \in FailsFrom
    BY <1>1, <1>4 DEF Fits, WorkerFits
  <2>3. item[i].state \in MigrationStates /\ item[i].state # "FAILED_RETRYABLE"
    BY <2>2 DEF FailsFrom, MigrationStates
  <2>4. Placed(i, "FAILED_RETRYABLE", item[i].state)
    BY <2>1, <2>3, Placing
  <2>5. Moves(i, "FAILED_RETRYABLE", item[i].state)
    BY <2>2, <2>3 DEF Moves, Resumed, ResumedAt
  <2>6. "end" \notin Sure \cup Mutating
    BY DEF Sure, Mutating
  <2> QED BY <1>1, <1>2, <2>1, <2>4, <2>5, <2>6, KnownPcs, Following DEF WorkerType
<1> QED BY <1>3, <1>4

\* A worker reads its item, and resumes one that has failed.
LEMMA Reading ==
  ASSUME ItemType, WorkerType, Fits, NEW w \in Workers, NEW pc \in Pcs, NEW state,
         worker[w].item \in Items, Turned(w, pc), Reads(w, state),
         \/ state = item[worker[w].item].state /\ state # "FAILED_RETRYABLE"
         \/ state \in MigrationStates \ {"FAILED_RETRYABLE", "MIGRATED"},
         Resumed(worker[w].item) \in Begun => state \in Begun,
         pc \in Sure => state = StateAt(pc), pc \in Mutating => state \in Begun
  PROVE  Followed
<1>1. PICK i \in Items : i = worker[w].item
  OBVIOUS
<1>2. CASE state = item[i].state
  <2>1. item' = item /\ stale' = stale \ {w}
    BY <1>1, <1>2 DEF Reads
  <2>2. Placed(i, item[i].state, item[i].resume)
    BY <2>1, Placing
  <2>3. Moves(i, item[i].state, item[i].resume)
    BY DEF Fits, ItemFits, Moves, Resumed, ResumedAt
  <2>4. state # "FAILED_RETRYABLE"
    BY <1>1
  <2> QED BY <1>1, <1>2, <2>1, <2>2, <2>3, <2>4, Following DEF WorkerType, ResumedAt
<1>3. CASE state # item[i].state
  <2>1. /\ item' = [item EXCEPT ![i] = [state |-> state, resume |-> "none"]]
        /\ stale' = (stale \ {w}) \cup {v \in Workers \ {w} : worker[v].item = i}
    BY <1>1, <1>3 DEF Reads
  <2>2. state \in MigrationStates \ {"FAILED_RETRYABLE", "MIGRATED"}
    BY <1>1, <1>3
  <2>3. Placed(i, state, "none")
    BY <2>1, <2>2, Placing
  <2>4. Moves(i, state, "none")
    BY <1>1, <2>2 DEF Moves, Resumed, ResumedAt
  <2> QED BY <1>1, <2>1, <2>2, <2>3, <2>4, Following DEF WorkerType, ResumedAt
<1> QED BY <1>2, <1>3

LEMMA OperatorFollows ==
  ASSUME ItemType, WorkerType, Fits, NEW i \in Items, OperatorNext(i)
  PROVE  Followed
<1>1. PICK state \in MigrationStates \ {"FAILED_RETRYABLE", "MIGRATED"} :
        Moved(state, i, {}) /\ (Resumed(i) \in Begun => state \in Begun)
  <2>1. CASE CreateBatch(i)
    <3>1. Resumed(i) \notin Begun /\ "CHECK_PENDING" \in MigrationStates
      BY <2>1 DEF CreateBatch, NoItem, Resumed, Begun, MigrationStates
    <3> QED BY <2>1, <3>1 DEF CreateBatch
  <2>2. CASE ConfirmSelected(i)
    <3>1. Resumed(i) \notin Begun /\ "CONFIRMED" \in MigrationStates
      BY <2>2 DEF ConfirmSelected, Resumed, Begun, MigrationStates
    <3> QED BY <2>2, <3>1 DEF ConfirmSelected
  <2>3. CASE Retry(i)
    <3>1. item[i].resume \in FailsFrom /\ Resumed(i) = item[i].resume
      BY <2>3 DEF Retry, Fits, ItemFits, Resumed
    <3>2. item[i].resume \in MigrationStates \ {"FAILED_RETRYABLE", "MIGRATED"}
      BY <3>1 DEF FailsFrom, MigrationStates
    <3> QED BY <2>3, <3>1, <3>2 DEF Retry
  <2> QED BY <2>1, <2>2, <2>3 DEF OperatorNext
<1>2. /\ item' = [item EXCEPT ![i] = [state |-> state, resume |-> "none"]]
      /\ stale' = stale \cup {v \in Workers \ {} : worker[v].item = i}
      /\ worker' = worker
  BY <1>1 DEF Moved, Updated, OperatorNext, CreateBatch, ConfirmSelected, Retry
<1>3. Placed(i, state, "none") /\ Moves(i, state, "none")
  BY <1>1, <1>2, Placing DEF Moves, ResumedAt
<1>4. \A v \in Workers : WorkerFits(v)'
  BY <1>2, <1>3, Others
<1>5. ItemType' /\ WorkerType'
  BY <1>2, <1>3 DEF Placed, WorkerType
<1> QED BY <1>3, <1>4, <1>5, Others DEF Followed, Fits

LEMMA RuntimeFollows ==
  ASSUME ItemType, WorkerType, RuntimeType, Fits, RuntimeNext
  PROVE  Followed
<1>1. item' = item
  BY DEF RuntimeNext, DeleteExpiredLease, AcquireMigrationLease, ReleaseMigrationLease,
         Dispatch, Crash, Restart, itemVars
<1>2. ASSUME WorkerType', stale \subseteq stale',
             \A v \in Workers : worker'[v] = worker[v] \/ worker'[v].pc \in {"idle", "start"}
      PROVE  Followed
  <2>1. ASSUME NEW v \in Workers
        PROVE  WorkerFits(v)'
    <3>1. CASE worker'[v] = worker[v]
      BY <1>1, <1>2, <3>1 DEF Fits, WorkerFits, Resumed
    <3>2. CASE worker'[v].pc \in {"idle", "start"}
      BY <3>2 DEF WorkerFits, Sure, Mutating
    <3> QED BY <1>2, <3>1, <3>2
  <2> QED BY <1>1, <1>2, <2>1 DEF Followed, Fits, ItemFits, ItemType, Resumed
<1>3. CASE UNCHANGED <<worker, stale>>
  BY <1>2, <1>3 DEF WorkerType
<1>4. ASSUME NEW i \in Items, NEW w \in Workers, AcquireMigrationLease(i, w)
      PROVE  Followed
  <2>1. CASE i \in lease
    BY <1>3, <1>4, <2>1 DEF AcquireMigrationLease, itemVars
  <2>2. CASE i \notin lease
    <3>1. PICK next, plan : plan = {} /\ next = NewWorker(i, "start", plan)
      OBVIOUS
    <3>2. worker' = [worker EXCEPT ![w] = next] /\ stale' = stale
      <4>1. [NoWorker EXCEPT !.item = i, !.pc = "start"] = next
        BY <3>1, NewIs
      <4> QED BY <1>4, <2>2, <4>1 DEF AcquireMigrationLease, itemVars
    <3>3. next \in WorkerRecords /\ Knows(next) /\ next.pc = "start"
      <4>1. "start" \in Pcs \ {"copying"} /\ plan \in SUBSET Tracks
        BY <3>1, KnownPcs
      <4> QED BY <3>1, <4>1, NewWorkers
    <3> QED BY <1>2, <3>2, <3>3 DEF WorkerType
  <2> QED BY <2>1, <2>2
<1>5. ASSUME NEW w \in Workers, ReleaseMigrationLease(w)
      PROVE  Followed
  <2>1. worker' = [worker EXCEPT ![w] = NoWorker] /\ stale' = stale \ {w}
    BY <1>5 DEF ReleaseMigrationLease
  <2>2. WorkerType' /\ worker'[w].pc = "idle" /\ \A v \in Workers \ {w} : worker'[v] = worker[v]
    BY <2>1, IdleWorker DEF WorkerType
  <2>3. WorkerFits(w)'
    BY <2>2 DEF WorkerFits, Sure, Mutating
  <2>4. \A v \in Workers \ {w} : WorkerFits(v)'
    BY <1>1, <2>1, <2>2 DEF Fits, WorkerFits, Resumed
  <2> QED BY <1>1, <2>2, <2>3, <2>4 DEF Followed, Fits, ItemFits, ItemType, Resumed
<1>6. CASE Crash
  <2>1. WorkerType' /\ \A v \in Workers : worker'[v].pc = "idle"
    BY <1>6, IdleWorker DEF Crash, WorkerType
  <2>2. \A v \in Workers : WorkerFits(v)'
    BY <2>1 DEF WorkerFits, Sure, Mutating
  <2> QED BY <1>1, <2>1, <2>2 DEF Followed, Fits, ItemFits, ItemType, Resumed
<1>7. (\E i \in Items : DeleteExpiredLease(i)) \/ Dispatch \/ Restart
        => UNCHANGED <<worker, stale>>
  BY DEF DeleteExpiredLease, Dispatch, Restart, itemVars
<1> QED BY <1>3, <1>4, <1>5, <1>6, <1>7 DEF RuntimeNext

\* The disjuncts of a step that leave the item alone, and those that fail, are the same
\* for every action of the mutation.
LEMMA MutationFollows ==
  ASSUME ItemType, WorkerType, Fits, NEW w \in Workers, worker[w].pc \in Mutation,
         \/ FailsBefore(w)
         \/ UNCHANGED itemVars /\ \E pc \in Mutation : Turned(w, pc)
  PROVE  Followed
<1>1. worker[w].pc \in Sure /\ worker[w].item \in Items /\ \A pc \in Mutation : pc \in Pcs
  BY DEF Mutation, Sure, Pcs, WorkerType, Knows
<1>2. StateAt(worker[w].pc) \in FailsFrom
  BY DEF Mutation, StateAt, FailsFrom
<1>3. ASSUME UNCHANGED itemVars, NEW pc \in Mutation, Turned(w, pc)
      PROVE  Followed
  BY <1>1, <1>3, Keeping
<1> QED BY <1>1, <1>2, <1>3, Failing

LEMMA WorkerFollows ==
  ASSUME TypeOK, Fits, NEW w \in Workers, WorkerNext(w)
  PROVE  Followed
<1>0. ItemType /\ WorkerType /\ FileType
  BY TypeParts
<1>1. /\ worker[w].at \in Tracks /\ worker[w].files \in [Tracks -> Known]
      /\ worker[w].at < TrackCount => worker[w].at + 1 \in Tracks
      /\ 1 \in Tracks
  BY <1>0, TrackCountAssumption, FirstFile DEF WorkerType, WorkerRecords, Tracks
<1>2. worker[w].pc # "idle" => worker[w].item \in Items
  BY <1>0 DEF WorkerType, Knows
<1>3. ASSUME worker[w].pc # "idle", NEW pc \in Pcs \ {"copying"}
      PROVE  /\ Goes(w, pc) \/ Leaves(w, pc) \/ Sends(w, pc) => Turned(w, pc)
             /\ \A at \in Tracks : GoesTo(w, pc, at) => Turned(w, pc)
             /\ \A known \in Known : Evidence(w, pc, known) => Turned(w, pc)
  BY <1>0, <1>2, <1>3, Turning
<1>4. ASSUME worker[w].pc # "idle"
      PROVE  /\ \A known \in Contents : Evidence(w, "copying", known) => Turned(w, "copying")
             /\ RollsBack(w) \/ Unread(w) => Turned(w, "restore")
  BY <1>0, <1>2, <1>4, Applying
<1>5. \A p \in {"backup", "approved"}, t \in Tracks :
        copy[p][t] \in Contents /\ copy[p][t] \in Known /\ "unread" \in Known
  BY <1>0 DEF FileType, Places, Known
<1>6. CASE Start(w)
  <2>1. PICK i \in Items : i = worker[w].item /\ worker[w].pc = "start"
    BY <1>2, <1>6 DEF Start, At
  <2>2. PICK state : state = IF Resumed(i) = "CHECK_PENDING" THEN "CHECKING" ELSE Resumed(i)
    OBVIOUS
  <2>3. Reads(w, state)
    BY <1>6, <2>1, <2>2 DEF Start
  <2>4. \/ state = item[i].state /\ state # "FAILED_RETRYABLE"
        \/ state \in MigrationStates \ {"FAILED_RETRYABLE", "MIGRATED"}
    BY <2>2 DEF Fits, ItemFits, Resumed, FailsFrom, MigrationStates
  <2>5. Resumed(i) \in Begun => state \in Begun
    BY <2>2 DEF Begun
  <2>6. PICK pc \in {"check", "identity", "stage", "reconcile", "end"} :
          /\ Goes(w, pc)
          /\ pc \in Sure => state = StateAt(pc)
          /\ pc \in Mutating => state \in Begun
    BY <1>6, <2>1, <2>2 DEF Start, Sure, Mutating, StateAt, Begun, Pcs
  <2>7. pc \in Pcs \ {"copying"} /\ Turned(w, pc)
    BY <1>3, <2>1, <2>6, KnownPcs
  <2> QED BY <1>0, <2>1, <2>3, <2>4, <2>5, <2>6, <2>7, Reading
<1>7. CASE CheckItem(w)
  <2>1. worker[w].pc = "check" /\ "check" \in Sure /\ StateAt("check") = "CHECKING"
    BY <1>7 DEF CheckItem, At, Sure, Pcs, StateAt
  <2>2. ASSUME NEW state \in {"NO_MATCH", "AMBIGUOUS", "EXACT_MATCH"}, Writes(w, state, "end")
        PROVE  Followed
    <3>1. state \in MigrationStates \ {"FAILED_RETRYABLE"} /\ state # "MIGRATED"
      BY DEF MigrationStates
    <3>2. /\ "end" \in Pcs \ {"copying"} /\ "end" \notin Sure \cup Mutating
          /\ "CHECKING" \notin Begun
      BY DEF Pcs, Sure, Mutating, Begun
    <3> QED BY <1>0, <2>1, <2>2, <3>1, <3>2, Writing
  <2>3. "CHECKING" \in FailsFrom
    BY DEF FailsFrom
  <2> QED BY <1>0, <1>7, <2>1, <2>2, <2>3, Failing DEF CheckItem
<1>8. CASE DecideAgain(w)
  <2>1. worker[w].pc = "identity" /\ "identity" \in Sure /\ StateAt("identity") = "CONFIRMED"
    BY <1>8 DEF DecideAgain, At, Sure, Pcs, StateAt
  <2>2. ASSUME Writes(w, "LIDARR_CATALOG_READY", "stage")
        PROVE  Followed
    <3>1. /\ "LIDARR_CATALOG_READY" \in MigrationStates \ {"FAILED_RETRYABLE"}
          /\ "LIDARR_CATALOG_READY" \in Begun /\ "stage" \in Pcs \ {"copying"}
          /\ StateAt("stage") = "LIDARR_CATALOG_READY"
      BY DEF MigrationStates, Begun, Pcs, StateAt
    <3> QED BY <1>0, <2>1, <2>2, <3>1, Writing
  <2>3. "CONFIRMED" \in FailsFrom
    BY DEF FailsFrom
  <2> QED BY <1>0, <1>8, <2>1, <2>2, <2>3, Failing DEF DecideAgain
<1>9. CASE Stage(w)
  <2>1. worker[w].pc = "stage" /\ "stage" \in Mutation
    BY <1>9 DEF Stage, At, Mutation
  <2>2. \/ UNCHANGED itemVars /\ Turned(w, "backup")
        \/ FailsBefore(w)
    BY <1>1, <1>3, <1>4, <1>5, <1>9, <2>1, KnownPcs DEF Stage
  <2>4. \A pc \in {"backup"} : pc \in Mutation
    BY DEF Mutation
  <2> QED BY <1>0, <2>1, <2>2, <2>4, MutationFollows
<1>10. CASE StageFails(w)
  <2>1. worker[w].pc = "stage" /\ "stage" \in Mutation
    BY <1>10 DEF StageFails, At, Mutation
  <2> QED BY <1>0, <1>10, <2>1, MutationFollows DEF StageFails
<1>11. CASE ApplyFails(w)
  <2>1. worker[w].pc = "backup" /\ "backup" \in Mutation
    BY <1>11 DEF ApplyFails, At, Mutation
  <2>2. UNCHANGED itemVars /\ Turned(w, "return")
    BY <1>1, <1>3, <1>4, <1>5, <1>11, <2>1, KnownPcs DEF ApplyFails
  <2>4. \A pc \in {"return"} : pc \in Mutation
    BY DEF Mutation
  <2> QED BY <1>0, <2>1, <2>2, <2>4, MutationFollows
<1>12. CASE OriginalEvidence(w)
  <2>1. worker[w].pc = "backup" /\ "backup" \in Mutation
    BY <1>12 DEF OriginalEvidence, At, Mutation
  <2>2. \/ UNCHANGED itemVars /\ Turned(w, "tag")
        \/ UNCHANGED itemVars /\ Turned(w, "copying")
        \/ UNCHANGED itemVars /\ Turned(w, "restore")
    BY <1>1, <1>3, <1>4, <1>5, <1>12, <2>1, KnownPcs DEF OriginalEvidence
  <2>4. \A pc \in {"tag", "copying", "restore"} : pc \in Mutation
    BY DEF Mutation
  <2> QED BY <1>0, <2>1, <2>2, <2>4, MutationFollows
<1>13. CASE CopyMigrationFile(w)
  <2>1. worker[w].pc = "copying" /\ "copying" \in Mutation
    BY <1>13 DEF CopyMigrationFile, At, Mutation
  <2>2. \/ UNCHANGED itemVars /\ Turned(w, "tag")
        \/ UNCHANGED itemVars /\ Turned(w, "restore")
    BY <1>1, <1>3, <1>4, <1>5, <1>13, <2>1, KnownPcs DEF CopyMigrationFile
  <2>4. \A pc \in {"tag", "restore"} : pc \in Mutation
    BY DEF Mutation
  <2> QED BY <1>0, <2>1, <2>2, <2>4, MutationFollows
<1>14. CASE ApplySelected(w)
  <2>1. worker[w].pc = "tag" /\ "tag" \in Mutation
    BY <1>14 DEF ApplySelected, At, Mutation
  <2>2. \/ UNCHANGED itemVars /\ Turned(w, "backup")
        \/ UNCHANGED itemVars /\ Turned(w, "save")
        \/ UNCHANGED itemVars /\ Turned(w, "restore")
    BY <1>1, <1>3, <1>4, <1>5, <1>14, <2>1, KnownPcs DEF ApplySelected
  <2>4. \A pc \in {"backup", "save", "restore"} : pc \in Mutation
    BY DEF Mutation
  <2> QED BY <1>0, <2>1, <2>2, <2>4, MutationFollows
<1>15. CASE SaveMigrationEvidence(w)
  <2>1. worker[w].pc = "save" /\ "save" \in Mutation
    BY <1>15 DEF SaveMigrationEvidence, At, Mutation
  <2>2. \/ UNCHANGED itemVars /\ Turned(w, "submit")
        \/ UNCHANGED itemVars /\ Turned(w, "importing")
        \/ UNCHANGED itemVars /\ Turned(w, "restore")
    BY <1>1, <1>3, <1>4, <1>5, <1>15, <2>1, KnownPcs DEF SaveMigrationEvidence
  <2>4. \A pc \in {"submit", "importing", "restore"} : pc \in Mutation
    BY DEF Mutation
  <2> QED BY <1>0, <2>1, <2>2, <2>4, MutationFollows
<1>16. CASE Manifest(w)
  <2>1. worker[w].pc = "submit" /\ "submit" \in Mutation
    BY <1>16 DEF Manifest, At, Mutation
  <2>3. copy["approved"] \in [Tracks -> Contents]
    BY <1>0 DEF FileType, Places
  <2>2. \/ UNCHANGED itemVars /\ Turned(w, "prepare")
        \/ UNCHANGED itemVars /\ Turned(w, "restore")
    BY <1>0, <1>2, <1>4, <1>16, <2>1, <2>3, Applying DEF Manifest
  <2>4. \A pc \in {"prepare", "restore"} : pc \in Mutation
    BY DEF Mutation
  <2> QED BY <1>0, <2>1, <2>2, <2>4, MutationFollows
<1>17. CASE Prepare(w)
  <2>1. worker[w].pc = "prepare" /\ "prepare" \in Mutation
    BY <1>17 DEF Prepare, At, Mutation
  <2>3. There(copy["approved"]) \in SUBSET Tracks
    BY DEF There
  <2>2. \/ UNCHANGED itemVars /\ Turned(w, "store")
        \/ UNCHANGED itemVars /\ Turned(w, "restore")
    BY <1>0, <1>2, <1>4, <1>17, <2>1, <2>3, Applying DEF Prepare
  <2>4. \A pc \in {"store", "restore"} : pc \in Mutation
    BY DEF Mutation
  <2> QED BY <1>0, <2>1, <2>2, <2>4, MutationFollows
<1>18. CASE PutImportIntent(w)
  <2>1. worker[w].pc = "store" /\ "store" \in Mutation
    BY <1>18 DEF PutImportIntent, At, Mutation
  <2>2. \/ UNCHANGED itemVars /\ Turned(w, "command")
        \/ UNCHANGED itemVars /\ Turned(w, "repeat")
        \/ UNCHANGED itemVars /\ Turned(w, "unsure")
    BY <1>1, <1>3, <1>4, <1>5, <1>18, <2>1, KnownPcs DEF PutImportIntent
  <2>4. \A pc \in {"command", "repeat", "unsure"} : pc \in Mutation
    BY DEF Mutation
  <2> QED BY <1>0, <2>1, <2>2, <2>4, MutationFollows
<1>19. CASE SubmitCommand(w)
  <2>1. worker[w].pc = "command" /\ "command" \in Mutation
    BY <1>19 DEF SubmitCommand, At, Mutation
  <2>2. \/ UNCHANGED itemVars /\ Turned(w, "importing")
        \/ UNCHANGED itemVars /\ Turned(w, "unsure")
    BY <1>1, <1>3, <1>4, <1>5, <1>19, <2>1, KnownPcs DEF SubmitCommand
  <2>4. \A pc \in {"importing", "unsure"} : pc \in Mutation
    BY DEF Mutation
  <2> QED BY <1>0, <2>1, <2>2, <2>4, MutationFollows
<1>20. CASE RepeatCommand(w)
  <2>1. worker[w].pc = "repeat" /\ "repeat" \in Mutation
    BY <1>20 DEF RepeatCommand, At, Mutation
  <2>2. \/ UNCHANGED itemVars /\ Turned(w, "importing")
        \/ UNCHANGED itemVars /\ Turned(w, "unsure")
    BY <1>1, <1>3, <1>4, <1>5, <1>20, <2>1, KnownPcs DEF RepeatCommand
  <2>4. \A pc \in {"importing", "unsure"} : pc \in Mutation
    BY DEF Mutation
  <2> QED BY <1>0, <2>1, <2>2, <2>4, MutationFollows
<1>21. CASE Restore(w)
  <2>1. worker[w].pc = "restore" /\ "restore" \in Mutation
    BY <1>21 DEF Restore, At, Mutation
  <2>2. \/ UNCHANGED itemVars /\ Turned(w, "restore")
        \/ UNCHANGED itemVars /\ Turned(w, "restored")
        \/ FailsBefore(w)
    BY <1>1, <1>3, <1>4, <1>5, <1>21, <2>1, KnownPcs DEF Restore
  <2>4. \A pc \in {"restore", "restored"} : pc \in Mutation
    BY DEF Mutation
  <2> QED BY <1>0, <2>1, <2>2, <2>4, MutationFollows
<1>22. CASE RestoreEnds(w)
  <2>1. worker[w].pc = "restored" /\ "restored" \in Mutation
    BY <1>22 DEF RestoreEnds, At, Mutation
  <2>2. UNCHANGED itemVars /\ Turned(w, "return")
    BY <1>1, <1>3, <1>4, <1>5, <1>22, <2>1, KnownPcs DEF RestoreEnds
  <2>4. \A pc \in {"return"} : pc \in Mutation
    BY DEF Mutation
  <2> QED BY <1>0, <2>1, <2>2, <2>4, MutationFollows
<1>23. CASE Return(w)
  <2>1. worker[w].pc = "return" /\ "return" \in Mutation
    BY <1>23 DEF Return, At, Mutation
  <2> QED BY <1>0, <1>23, <2>1, MutationFollows DEF Return
<1>24. CASE Importing(w)
  <2>1. worker[w].pc \in {"importing", "unsure"} /\ \A pc \in {"importing", "unsure"} : pc \in Sure
    BY <1>24 DEF Importing, At, Sure, Pcs
  <2>2. PICK pc \in {"submitted", "submitted unsure"} : Writes(w, "IMPORT_SUBMITTED", pc)
    BY <1>24 DEF Importing
  <2>3. /\ "IMPORT_SUBMITTED" \in MigrationStates \ {"FAILED_RETRYABLE"}
        /\ "IMPORT_SUBMITTED" \in Begun /\ pc \in Pcs \ {"copying"}
        /\ StateAt(pc) = "IMPORT_SUBMITTED"
    BY DEF MigrationStates, Begun, Pcs, StateAt
  <2> QED BY <1>0, <2>1, <2>2, <2>3, Writing
<1>25. CASE Reconciling(w)
  <2>1. /\ worker[w].pc \in {"submitted", "submitted unsure"}
        /\ \A pc \in {"submitted", "submitted unsure"} : pc \in Sure
    BY <1>25 DEF Reconciling, At, Sure, Pcs
  <2>2. PICK pc \in {"reconcile", "end"} : Writes(w, "RECONCILING", pc)
    BY <1>25 DEF Reconciling
  <2>3. /\ "RECONCILING" \in MigrationStates \ {"FAILED_RETRYABLE"}
        /\ "RECONCILING" \in Begun /\ pc \in Pcs \ {"copying"} /\ pc \notin Sure
    BY DEF MigrationStates, Begun, Pcs, Sure
  <2> QED BY <1>0, <2>1, <2>2, <2>3, Writing
<1>26. CASE Reconcile(w)
  <2>1. worker[w].pc = "reconcile" /\ worker[w].item \in Items
    BY <1>2, <1>26 DEF Reconcile, At
  <2>2. CASE UNCHANGED itemVars /\ Leaves(w, "end")
    BY <1>0, <1>3, <2>1, <2>2, KnownPcs, Keeping
  <2>3. CASE Reads(w, "RECONCILING") /\ Goes(w, "verify")
    <3>1. /\ "RECONCILING" \in MigrationStates \ {"FAILED_RETRYABLE", "MIGRATED"}
          /\ "RECONCILING" \in Begun /\ "verify" \in Pcs /\ StateAt("verify") = "RECONCILING"
      BY DEF MigrationStates, Begun, Pcs, StateAt
    <3>2. Turned(w, "verify")
      BY <1>3, <2>1, <2>3, <3>1
    <3> QED BY <1>0, <2>1, <2>3, <3>1, <3>2, Reading
  <2> QED BY <1>26, <2>2, <2>3 DEF Reconcile
<1>27. CASE ReconcileImport(w)
  <2>1. /\ worker[w].pc = "verify" /\ "verify" \in Sure
        /\ StateAt("verify") \in FailsFrom
    BY <1>27 DEF ReconcileImport, At, Sure, Pcs, StateAt, FailsFrom
  <2>2. \/ FailsBefore(w)
        \/ UNCHANGED itemVars /\ (Turned(w, "scan") \/ Turned(w, "end"))
    BY <1>3, <1>27, <2>1, KnownPcs DEF ReconcileImport
  <2> QED BY <1>0, <1>2, <2>1, <2>2, KnownPcs, Keeping, Failing
<1>28. CASE EnsureVisible(w)
  <2>1. /\ worker[w].pc = "scan" /\ "scan" \in Sure /\ StateAt("scan") = "RECONCILING"
        /\ "RECONCILING" \in FailsFrom
    BY <1>28 DEF EnsureVisible, At, Sure, Pcs, StateAt, FailsFrom
  <2>2. ASSUME Visible("managed"), Writes(w, "MIGRATED", "cleanup")
        PROVE  Followed
    <3>1. /\ "MIGRATED" \in MigrationStates \ {"FAILED_RETRYABLE"}
          /\ "MIGRATED" \in Begun /\ "cleanup" \in Pcs \ {"copying"}
          /\ StateAt("cleanup") = "MIGRATED"
      BY DEF MigrationStates, Begun, Pcs, StateAt
    <3> QED BY <1>0, <2>1, <2>2, <3>1, Writing
  <2> QED BY <1>0, <1>28, <2>1, <2>2, Failing DEF EnsureVisible
<1>29. CASE Cleanup(w)
  <2>1. worker[w].pc = "cleanup" /\ UNCHANGED itemVars /\ Leaves(w, "end")
    BY <1>29 DEF Cleanup, At
  <2> QED BY <1>0, <1>2, <1>3, <2>1, KnownPcs, Keeping
<1> QED BY <1>6, <1>7, <1>8, <1>9, <1>10, <1>11, <1>12, <1>13, <1>14, <1>15, <1>16, <1>17,
           <1>18, <1>19, <1>20, <1>21, <1>22, <1>23, <1>24, <1>25, <1>26, <1>27, <1>28, <1>29
           DEF WorkerNext

LEMMA FollowedKept ==
  TypeOK /\ Fits /\ [Next]_vars => Followed
<1> SUFFICES ASSUME TypeOK, Fits, [Next]_vars
             PROVE  Followed
  OBVIOUS
<1>0. ItemType /\ WorkerType /\ RuntimeType
  BY TypeParts
<1>1. ASSUME UNCHANGED <<item, stale, worker>>
      PROVE  Followed
  BY <1>0, <1>1
     DEF Followed, Fits, ItemFits, WorkerFits, ItemType, WorkerType, Resumed
<1>2. LidarrNext \/ UNCHANGED vars => UNCHANGED <<item, stale, worker>>
  BY DEF LidarrNext, LidarrImports, LidarrEnds, vars, itemVars
<1> QED BY <1>0, <1>1, <1>2, NextCases, OperatorFollows, WorkerFollows, RuntimeFollows

-----------------------------------------------------------------------------
(* What a step does to the leases, to the files and to the import *)

LEMMA RuntimeKept == TypeOK /\ [Next]_vars => RuntimeType'
<1> SUFFICES ASSUME TypeOK, [Next]_vars
             PROVE  RuntimeType'
  OBVIOUS
<1>0. RuntimeType
  BY TypeParts
<1>1. UNCHANGED runtimeVars => RuntimeType'
  BY <1>0 DEF runtimeVars, RuntimeType
<1>2. ASSUME NEW i \in Items, OperatorNext(i)
      PROVE  RuntimeType'
  BY <1>0, <1>2 DEF OperatorNext, CreateBatch, ConfirmSelected, Retry, RuntimeType
<1>3. ASSUME NEW w \in Workers, WorkerNext(w)
      PROVE  UNCHANGED runtimeVars
  <2>1. Start(w) \/ CheckItem(w) \/ DecideAgain(w) \/ Stage(w) \/ StageFails(w)
        \/ ApplyFails(w) \/ OriginalEvidence(w) \/ CopyMigrationFile(w) \/ ApplySelected(w)
          => UNCHANGED runtimeVars
    BY DEF Start, CheckItem, DecideAgain, Stage, StageFails, ApplyFails, OriginalEvidence,
           CopyMigrationFile, ApplySelected
  <2>2. SaveMigrationEvidence(w) \/ Manifest(w) \/ Prepare(w) \/ PutImportIntent(w)
        \/ SubmitCommand(w) \/ RepeatCommand(w) \/ Importing(w) \/ Reconciling(w)
          => UNCHANGED runtimeVars
    BY DEF SaveMigrationEvidence, Manifest, Prepare, PutImportIntent, SubmitCommand,
           RepeatCommand, Importing, Reconciling
  <2>3. Reconcile(w) \/ ReconcileImport(w) \/ EnsureVisible(w) \/ Cleanup(w) \/ Restore(w)
        \/ RestoreEnds(w) \/ Return(w) => UNCHANGED runtimeVars
    BY DEF Reconcile, ReconcileImport, EnsureVisible, Cleanup, Restore, RestoreEnds, Return
  <2> QED BY <1>3, <2>1, <2>2, <2>3 DEF WorkerNext
<1>4. ASSUME RuntimeNext
      PROVE  RuntimeType'
  <2>1. ASSUME NEW i \in Items, NEW w \in Workers, AcquireMigrationLease(i, w)
        PROVE  RuntimeType'
    BY <1>0, <2>1 DEF AcquireMigrationLease, RuntimeType
  <2>2. ASSUME NEW i \in Items, DeleteExpiredLease(i)
        PROVE  RuntimeType'
    BY <1>0, <2>2 DEF DeleteExpiredLease, RuntimeType
  <2>3. ASSUME NEW w \in Workers, ReleaseMigrationLease(w)
        PROVE  RuntimeType'
    BY <1>0, <2>3 DEF ReleaseMigrationLease, RuntimeType
  <2>4. CASE Dispatch \/ Crash \/ Restart
    BY <1>0, <2>4 DEF Dispatch, ReadyMigrationChecks, Crash, Restart, RuntimeType
  <2> QED BY <1>4, <2>1, <2>2, <2>3, <2>4 DEF RuntimeNext
<1>5. LidarrNext \/ UNCHANGED vars => UNCHANGED runtimeVars
  BY DEF LidarrNext, LidarrImports, LidarrEnds, vars
<1> QED BY <1>1, <1>2, <1>3, <1>4, <1>5, NextCases

\* The ways in which a worker changes the files of the release.
Staged ==
  /\ "approved" \notin dirs /\ dirs' = (dirs \ {"unmanaged"}) \cup {"approved"}
  /\ copy' = [copy EXCEPT !["approved"] = copy["unmanaged"], !["unmanaged"] = NoFiles]
Returned ==
  /\ "unmanaged" \notin dirs /\ dirs' = (dirs \ {"approved"}) \cup {"unmanaged"}
  /\ copy' = [copy EXCEPT !["unmanaged"] = copy["approved"], !["approved"] = NoFiles]
Removed ==
  /\ Complete /\ dirs' = dirs \ {"approved"} /\ copy' = [copy EXCEPT !["approved"] = NoFiles]
BackedUp(t, kept) == UNCHANGED dirs /\ copy' = [copy EXCEPT !["backup"][t] = kept]
CleanedUp == UNCHANGED dirs /\ copy' = [copy EXCEPT !["backup"] = NoFiles]
Tagged(t) ==
  /\ UNCHANGED dirs /\ copy["approved"][t] # "none"
  /\ copy' = [copy EXCEPT !["approved"][t] = "new"]
PutBack(t) ==
  /\ copy["backup"][t] # "none" /\ dirs' = dirs \cup {"approved"}
  /\ copy' = [copy EXCEPT !["approved"][t] = copy["backup"][t]]

LEMMA FileSteps ==
  ASSUME TypeOK, NEW w \in Workers, WorkerNext(w)
  PROVE  \/ UNCHANGED fileVars \/ Staged \/ Returned \/ Removed \/ CleanedUp
         \/ \E t \in Tracks, kept \in Contents : BackedUp(t, kept)
         \/ \E t \in Tracks : Tagged(t) \/ PutBack(t)
<1>0. FileType /\ worker[w].at \in Tracks
  BY TypeParts DEF WorkerType, WorkerRecords
<1>1. PICK t \in Tracks : t = worker[w].at
  BY <1>0
<1>2. Start(w) \/ CheckItem(w) \/ DecideAgain(w) \/ StageFails(w) \/ ApplyFails(w)
      \/ SaveMigrationEvidence(w) \/ Manifest(w) \/ Prepare(w) \/ PutImportIntent(w)
        => UNCHANGED fileVars
  BY DEF Start, CheckItem, DecideAgain, StageFails, ApplyFails, SaveMigrationEvidence,
         Manifest, Prepare, PutImportIntent
<1>3. SubmitCommand(w) \/ RepeatCommand(w) \/ Importing(w) \/ Reconciling(w) \/ Reconcile(w)
      \/ EnsureVisible(w) => UNCHANGED fileVars
  BY DEF SubmitCommand, RepeatCommand, Importing, Reconciling, Reconcile, EnsureVisible
<1>4. Stage(w) => UNCHANGED fileVars \/ Staged
  BY DEF Stage, Staged, fileVars
<1>5. Return(w) => UNCHANGED fileVars \/ Returned
  BY DEF Return, Returned, fileVars
<1>6. ReconcileImport(w) => UNCHANGED fileVars \/ Removed
  BY DEF ReconcileImport, Removed, fileVars
<1>7. Cleanup(w) \/ RestoreEnds(w) => CleanedUp
  BY DEF Cleanup, RestoreEnds, CleanedUp
<1>8. OriginalEvidence(w) => UNCHANGED fileVars \/ BackedUp(t, "cut")
  BY <1>1 DEF OriginalEvidence, BackedUp, fileVars
<1>9. ASSUME CopyMigrationFile(w)
      PROVE  \E kept \in Contents : BackedUp(t, kept)
  <2>1. worker[w].files[t] \in Contents /\ copy["backup"][t] \in Contents
    BY <1>0, <1>1, <1>9, TypeParts
       DEF CopyMigrationFile, At, WorkerType, WorkerRecords, Knows, Known, FileType, Places
  <2>2. "cut" \in Contents /\ "none" \in Contents
    BY DEF Contents
  <2> QED BY <1>1, <1>9, <2>1, <2>2 DEF CopyMigrationFile, BackedUp
<1>10. ApplySelected(w) => UNCHANGED fileVars \/ Tagged(t)
  BY <1>1 DEF ApplySelected, Tagged, fileVars
<1>11. Restore(w) => UNCHANGED fileVars \/ PutBack(t)
  BY <1>1 DEF Restore, PutBack, fileVars
<1>12. "cut" \in Contents
  BY DEF Contents
<1> QED BY <1>2, <1>3, <1>4, <1>5, <1>6, <1>7, <1>8, <1>9, <1>10, <1>11, <1>12
           DEF WorkerNext

\* A worker takes nothing from the library, and keeps the files where they are found: in
\* a directory that exists, and not in the backup only while the whole release is what
\* Lidarr is asked to import.
LEMMA FileEffects ==
  ASSUME TypeOK, NEW w \in Workers, WorkerNext(w)
  PROVE  /\ FileType' /\ copy'["managed"] = copy["managed"]
         /\ DirsFit => DirsFit'
         /\ DirsFit /\ UNCHANGED intent /\ CopyLeft => CopyLeft'
<1> DEFINE FilesLeft == \A t \in Tracks : \E p \in Places \ {"backup"} : copy[p][t] # "none"
           Kept == /\ FileType' /\ copy'["managed"] = copy["managed"]
                   /\ DirsFit => DirsFit'
                   /\ DirsFit /\ WholeSubmitted /\ FilesLeft => FilesLeft'
<1>0. /\ FileType /\ copy \in [Places -> [Tracks -> Contents]]
      /\ "unmanaged" \in Places /\ "approved" \in Places /\ "managed" \in Places
      /\ "backup" \in Places
      /\ NoFiles \in [Tracks -> Contents] /\ \A t \in Tracks : NoFiles[t] = "none"
  BY TypeParts DEF FileType, Places, NoFiles, Contents
<1>1. ASSUME UNCHANGED fileVars
      PROVE  Kept
  BY <1>0, <1>1 DEF fileVars, FileType, DirsFit, NoFiles
<1>2. ASSUME Staged
      PROVE  Kept
  <2>1. /\ copy' \in [Places -> [Tracks -> Contents]]
        /\ copy'["approved"] = copy["unmanaged"] /\ copy'["unmanaged"] = NoFiles
        /\ copy'["managed"] = copy["managed"] /\ (DirsFit => copy["approved"] = NoFiles)
    BY <1>0, <1>2 DEF Staged, DirsFit, Places
  <2>2. FileType'
    BY <1>0, <1>2, <2>1 DEF Staged, FileType
  <2>3. DirsFit => DirsFit'
    BY <1>2, <2>1 DEF Staged, DirsFit, NoFiles
  <2>4. DirsFit /\ FilesLeft => FilesLeft'
    BY <1>0, <2>1 DEF Places
  <2> QED BY <2>1, <2>2, <2>3, <2>4
<1>3. ASSUME Returned
      PROVE  Kept
  <2>1. /\ copy' \in [Places -> [Tracks -> Contents]]
        /\ copy'["unmanaged"] = copy["approved"] /\ copy'["approved"] = NoFiles
        /\ copy'["managed"] = copy["managed"] /\ (DirsFit => copy["unmanaged"] = NoFiles)
    BY <1>0, <1>3 DEF Returned, DirsFit, Places
  <2>2. FileType'
    BY <1>0, <1>3, <2>1 DEF Returned, FileType
  <2>3. DirsFit => DirsFit'
    BY <1>3, <2>1 DEF Returned, DirsFit, NoFiles
  <2>4. DirsFit /\ FilesLeft => FilesLeft'
    BY <1>0, <2>1 DEF Places
  <2> QED BY <2>1, <2>2, <2>3, <2>4
<1>4. ASSUME Removed
      PROVE  Kept
  <2>1. /\ copy' \in [Places -> [Tracks -> Contents]]
        /\ copy'["approved"] = NoFiles
        /\ \A p \in Places \ {"approved"} : copy'[p] = copy[p]
    BY <1>0, <1>4 DEF Removed
  <2>2. FileType'
    BY <1>0, <1>4, <2>1 DEF Removed, FileType
  <2>3. DirsFit => DirsFit'
    BY <1>0, <1>4, <2>1 DEF Removed, DirsFit, NoFiles
  <2>4. WholeSubmitted => FilesLeft'
    BY <1>0, <1>4, <2>1 DEF Removed, WholeSubmitted, Complete, Places
  <2> QED BY <1>0, <2>1, <2>2, <2>3, <2>4
<1>5. ASSUME UNCHANGED dirs, copy' \in [Places -> [Tracks -> Contents]],
             \A p \in Places \ {"backup"} : copy'[p] = copy[p]
      PROVE  Kept
  <2>1. FileType' /\ copy'["managed"] = copy["managed"]
    BY <1>0, <1>5 DEF FileType
  <2>2. DirsFit => DirsFit'
    BY <1>0, <1>5 DEF DirsFit, NoFiles
  <2>3. FilesLeft => FilesLeft'
    BY <1>5
  <2> QED BY <2>1, <2>2, <2>3
<1>6. ASSUME CleanedUp
      PROVE  Kept
  BY <1>0, <1>5, <1>6 DEF CleanedUp
<1>7. ASSUME NEW t \in Tracks, NEW kept \in Contents, BackedUp(t, kept)
      PROVE  Kept
  BY <1>0, <1>5, <1>7 DEF BackedUp
<1>8. ASSUME NEW t \in Tracks, NEW written \in Contents \ {"none"},
             dirs' = dirs \cup {"approved"},
             copy' = [copy EXCEPT !["approved"][t] = written]
      PROVE  Kept
  <2>1. /\ copy' \in [Places -> [Tracks -> Contents]]
        /\ copy'["approved"] = [copy["approved"] EXCEPT ![t] = written]
        /\ \A p \in Places \ {"approved"} : copy'[p] = copy[p]
    BY <1>0, <1>8
  <2>2. FileType'
    BY <1>0, <1>8, <2>1 DEF FileType
  <2>3. DirsFit => DirsFit'
    BY <1>0, <1>8, <2>1 DEF DirsFit, NoFiles
  <2>4. FilesLeft => FilesLeft'
    BY SMTT(60), <1>0, <2>1
  <2> QED BY <1>0, <2>1, <2>2, <2>3, <2>4
<1>9. ASSUME NEW t \in Tracks, Tagged(t)
      PROVE  FileType' /\ copy'["managed"] = copy["managed"]
             /\ (DirsFit => DirsFit') /\ (FilesLeft => FilesLeft')
  <2>1. /\ copy' \in [Places -> [Tracks -> Contents]]
        /\ copy'["approved"] = [copy["approved"] EXCEPT ![t] = "new"]
        /\ \A p \in Places \ {"approved"} : copy'[p] = copy[p]
    BY <1>0, <1>9 DEF Tagged, Contents
  <2>2. DirsFit => "approved" \in dirs
    BY <1>0, <1>9 DEF Tagged, DirsFit
  <2>3. FileType'
    BY <1>0, <1>9, <2>1 DEF Tagged, FileType
  <2>4. DirsFit => DirsFit'
    BY <1>0, <1>9, <2>1, <2>2 DEF Tagged, DirsFit, NoFiles
  <2>5. FilesLeft => FilesLeft'
    BY <1>0, <2>1
  <2> QED BY <1>0, <2>1, <2>3, <2>4, <2>5
<1>10. ASSUME NEW t \in Tracks, PutBack(t)
       PROVE  Kept
  <2>1. PICK written \in Contents \ {"none"} : written = copy["backup"][t]
    BY <1>0, <1>10 DEF PutBack
  <2> QED BY <1>8, <1>10, <2>1 DEF PutBack
<1>11. FileType' /\ copy'["managed"] = copy["managed"] /\ (DirsFit => DirsFit')
       /\ (DirsFit /\ WholeSubmitted /\ FilesLeft => FilesLeft')
  BY <1>1, <1>2, <1>3, <1>4, <1>6, <1>7, <1>9, <1>10, FileSteps
<1>12. UNCHANGED intent => (WholeSubmitted' <=> WholeSubmitted)
  BY DEF WholeSubmitted
<1> QED BY <1>11, <1>12 DEF CopyLeft

LEMMA LidarrEffects ==
  ASSUME TypeOK, NEW t \in Tracks, LidarrImports(t)
  PROVE  /\ FileType' /\ copy'["unmanaged"] = copy["unmanaged"]
         /\ \A s \in Tracks : copy["managed"][s] # "none" => copy'["managed"][s] # "none"
         /\ DirsFit => DirsFit'
         /\ CopyLeft => CopyLeft'
<1>0. /\ FileType /\ copy \in [Places -> [Tracks -> Contents]]
      /\ "unmanaged" \in Places /\ "approved" \in Places /\ "managed" \in Places
  BY TypeParts DEF FileType, Places
<1>1. /\ copy["approved"][t] # "none" /\ UNCHANGED <<dirs, intent>>
      /\ copy' = [copy EXCEPT !["managed"][t] = copy["approved"][t],
                              !["approved"][t] = "none"]
  BY DEF LidarrImports, intentVars
<1>2. /\ copy' \in [Places -> [Tracks -> Contents]]
      /\ copy'["managed"] = [copy["managed"] EXCEPT ![t] = copy["approved"][t]]
      /\ copy'["approved"] = [copy["approved"] EXCEPT ![t] = "none"]
      /\ copy'["unmanaged"] = copy["unmanaged"]
  BY <1>0, <1>1 DEF Places, Contents
<1>3. FileType'
  BY <1>0, <1>1, <1>2 DEF FileType
<1>4. \A s \in Tracks : copy["managed"][s] # "none" => copy'["managed"][s] # "none"
  BY <1>0, <1>1, <1>2
<1>5. DirsFit => DirsFit'
  <2>1. DirsFit => "approved" \in dirs
    BY <1>0, <1>1 DEF DirsFit, NoFiles
  <2> QED BY <1>1, <1>2, <2>1 DEF DirsFit, NoFiles
<1>6. CopyLeft => CopyLeft'
  <2>1. WholeSubmitted' <=> WholeSubmitted
    BY <1>1 DEF WholeSubmitted
  <2>2. (\A s \in Tracks : \E p \in Places \ {"backup"} : copy[p][s] # "none")
          => \A s \in Tracks : \E p \in Places \ {"backup"} : copy'[p][s] # "none"
    BY <1>0, <1>1, <1>2 DEF Places
  <2> QED BY <2>1, <2>2 DEF CopyLeft
<1> QED BY <1>2, <1>3, <1>4, <1>5, <1>6

LEMMA TroubleSteps == [Next]_vars => troubles' = troubles \/ Trouble
<1> SUFFICES ASSUME [Next]_vars
             PROVE  troubles' = troubles \/ Trouble
  OBVIOUS
<1> USE DEF Smooth
<1>1. ASSUME NEW i \in Items, OperatorNext(i)
      PROVE  troubles' = troubles
  BY <1>1 DEF OperatorNext, CreateBatch, ConfirmSelected, Retry
<1>2. ASSUME NEW w \in Workers, WorkerNext(w)
      PROVE  troubles' = troubles \/ Trouble
  <2>1. Start(w) \/ CheckItem(w) \/ DecideAgain(w) \/ Stage(w) \/ StageFails(w)
        \/ ApplyFails(w) => troubles' = troubles \/ Trouble
    BY DEF Start, CheckItem, DecideAgain, Stage, StageFails, ApplyFails, Writes
  <2>2. OriginalEvidence(w) \/ CopyMigrationFile(w) \/ ApplySelected(w)
          => troubles' = troubles \/ Trouble
    BY DEF OriginalEvidence, CopyMigrationFile, ApplySelected
  <2>3. SaveMigrationEvidence(w) \/ Manifest(w) \/ Prepare(w) \/ PutImportIntent(w)
        \/ SubmitCommand(w) \/ RepeatCommand(w) => troubles' = troubles \/ Trouble
    BY DEF SaveMigrationEvidence, Manifest, Prepare, PutImportIntent, SubmitCommand,
           RepeatCommand
  <2>4. Importing(w) \/ Reconciling(w) \/ Reconcile(w) \/ EnsureVisible(w)
          => troubles' = troubles \/ Trouble
    BY DEF Importing, Reconciling, Reconcile, EnsureVisible, Writes
  <2>5. ReconcileImport(w) \/ Cleanup(w) \/ Restore(w) \/ RestoreEnds(w) \/ Return(w)
          => troubles' = troubles \/ Trouble
    BY DEF ReconcileImport, Cleanup, Restore, RestoreEnds, Return
  <2> QED BY <1>2, <2>1, <2>2, <2>3, <2>4, <2>5 DEF WorkerNext
<1>3. RuntimeNext => troubles' = troubles \/ Trouble
  BY DEF RuntimeNext, DeleteExpiredLease, AcquireMigrationLease, ReleaseMigrationLease,
         Dispatch, Crash, Restart
<1>4. LidarrNext \/ UNCHANGED vars => troubles' = troubles
  BY DEF LidarrNext, LidarrImports, LidarrEnds, vars
<1> QED BY <1>1, <1>2, <1>3, <1>4, NextCases

\* The steps that do not submit leave the import alone.
LEMMA ImportSteps ==
  ASSUME NEW w \in Workers, WorkerNext(w)
  PROVE  \/ UNCHANGED importVars \/ SaveMigrationEvidence(w) \/ PutImportIntent(w)
         \/ SubmitCommand(w) \/ RepeatCommand(w)
<1>1. Start(w) \/ CheckItem(w) \/ DecideAgain(w) \/ Stage(w) \/ StageFails(w)
      \/ ApplyFails(w) \/ OriginalEvidence(w) \/ CopyMigrationFile(w) \/ ApplySelected(w)
        => UNCHANGED importVars
  BY DEF Start, CheckItem, DecideAgain, Stage, StageFails, ApplyFails, OriginalEvidence,
         CopyMigrationFile, ApplySelected
<1>2. Manifest(w) \/ Prepare(w) \/ Importing(w) \/ Reconciling(w) \/ Reconcile(w)
        => UNCHANGED importVars
  BY DEF Manifest, Prepare, Importing, Reconciling, Reconcile
<1>3. ReconcileImport(w) \/ EnsureVisible(w) \/ Cleanup(w) \/ Restore(w)
      \/ RestoreEnds(w) \/ Return(w) => UNCHANGED importVars
  BY DEF ReconcileImport, EnsureVisible, Cleanup, Restore, RestoreEnds, Return
<1> QED BY <1>1, <1>2, <1>3 DEF WorkerNext

LEMMA ImportKept == TypeOK /\ [Next]_vars => ImportType'
<1> SUFFICES ASSUME TypeOK, [Next]_vars
             PROVE  ImportType'
  OBVIOUS
<1> DEFINE Importable ==
             /\ intent \in [Tracks -> Contents \cup {"unstored"}] /\ request \subseteq Tracks
             /\ commands \in Nat /\ queue \subseteq Tracks /\ overlapped \in BOOLEAN
<1>0. ImportType /\ Importable
  BY TypeParts DEF ImportType
<1>1. troubles' \in 0..MaxTroubles
  BY <1>0, TroubleSteps, MaxTroublesAssumption DEF ImportType, Trouble
<1>2. UNCHANGED importVars => Importable'
  BY <1>0 DEF importVars, intentVars, commandVars
<1>3. ASSUME NEW i \in Items, OperatorNext(i)
      PROVE  UNCHANGED importVars
  BY <1>3 DEF OperatorNext, CreateBatch, ConfirmSelected, Retry
<1>4. ASSUME NEW w \in Workers, WorkerNext(w)
      PROVE  Importable'
  <2>0. worker[w].plan \in SUBSET Tracks /\ worker[w].manifest \in [Tracks -> Contents]
    BY TypeParts DEF WorkerType, WorkerRecords
  <2>1. SaveMigrationEvidence(w) => Importable'
    BY <1>0 DEF SaveMigrationEvidence, intentVars, commandVars
  <2>2. PutImportIntent(w) => Importable'
    BY <1>0, <2>0 DEF PutImportIntent, intentVars, commandVars
  <2>3. SubmitCommand(w) \/ RepeatCommand(w) => Importable'
    BY <1>0, <2>0 DEF SubmitCommand, RepeatCommand, Accepted, intentVars, commandVars
  <2> QED BY <1>2, <1>4, <2>1, <2>2, <2>3, ImportSteps
<1>5. RuntimeNext \/ UNCHANGED vars => UNCHANGED importVars
  BY DEF RuntimeNext, DeleteExpiredLease, AcquireMigrationLease, ReleaseMigrationLease,
         Dispatch, Crash, Restart, vars
<1>6. LidarrNext => Importable'
  BY <1>0 DEF LidarrNext, LidarrImports, LidarrEnds, intentVars
<1>7. Importable'
  BY <1>2, <1>3, <1>4, <1>5, <1>6, NextCases
<1> QED BY <1>1, <1>7 DEF ImportType

LEMMA FilesKept ==
  TypeOK /\ DirsFit /\ CopyLeft /\ [Next]_vars => FileType' /\ DirsFit' /\ CopyLeft'
<1> SUFFICES ASSUME TypeOK, DirsFit, CopyLeft, [Next]_vars
             PROVE  FileType' /\ DirsFit' /\ CopyLeft'
  OBVIOUS
<1>0. FileType
  BY TypeParts
<1>1. ASSUME UNCHANGED fileVars, WholeSubmitted' => WholeSubmitted
      PROVE  FileType' /\ DirsFit' /\ CopyLeft'
  BY <1>0, <1>1 DEF fileVars, FileType, DirsFit, NoFiles, CopyLeft
<1>2. UNCHANGED intent => (WholeSubmitted' => WholeSubmitted)
  BY DEF WholeSubmitted
<1>3. ASSUME NEW i \in Items, OperatorNext(i)
      PROVE  UNCHANGED <<fileVars, intent>>
  BY <1>3 DEF OperatorNext, CreateBatch, ConfirmSelected, Retry, importVars, intentVars
<1>4. ASSUME NEW w \in Workers, WorkerNext(w)
      PROVE  FileType' /\ DirsFit' /\ CopyLeft'
  <2>1. CASE PutImportIntent(w)
    <3>1. UNCHANGED fileVars /\ (UNCHANGED intent \/ intent = NoIntent)
      BY <2>1 DEF PutImportIntent, intentVars
    <3>2. WholeSubmitted' => WholeSubmitted
      BY <3>1 DEF WholeSubmitted, NoIntent
    <3> QED BY <1>1, <3>1, <3>2
  <2>2. SaveMigrationEvidence(w) \/ SubmitCommand(w) \/ RepeatCommand(w)
        \/ UNCHANGED importVars => UNCHANGED intent
    BY DEF SaveMigrationEvidence, SubmitCommand, RepeatCommand, importVars, intentVars
  <2> QED BY <1>4, <2>1, <2>2, ImportSteps, FileEffects
<1>5. RuntimeNext \/ LidarrEnds \/ UNCHANGED vars => UNCHANGED <<fileVars, intent>>
  BY DEF RuntimeNext, DeleteExpiredLease, AcquireMigrationLease, ReleaseMigrationLease,
         Dispatch, Crash, Restart, LidarrEnds, vars, importVars, intentVars
<1>6. ASSUME NEW t \in Tracks, LidarrImports(t)
      PROVE  FileType' /\ DirsFit' /\ CopyLeft'
  BY <1>6, LidarrEffects
<1> QED BY <1>1, <1>2, <1>3, <1>4, <1>5, <1>6, NextCases DEF LidarrNext

-----------------------------------------------------------------------------
(* An item that has not begun, and one that is migrated *)

LEMMA QuietSteps ==
  ASSUME NEW w \in Workers, WorkerNext(w), worker[w].pc \notin Mutating
  PROVE  UNCHANGED <<fileVars, importVars>>
<1>1. Start(w) \/ CheckItem(w) \/ DecideAgain(w) => UNCHANGED <<fileVars, importVars>>
  BY DEF Start, CheckItem, DecideAgain
<1>2. ~(Stage(w) \/ StageFails(w) \/ ApplyFails(w) \/ OriginalEvidence(w)
        \/ CopyMigrationFile(w) \/ ApplySelected(w) \/ SaveMigrationEvidence(w))
  BY DEF Stage, StageFails, ApplyFails, OriginalEvidence, CopyMigrationFile, ApplySelected,
         SaveMigrationEvidence, At, Mutating, Pcs
<1>3. ~(Manifest(w) \/ Prepare(w) \/ PutImportIntent(w) \/ SubmitCommand(w)
        \/ RepeatCommand(w) \/ Importing(w) \/ Reconciling(w) \/ Reconcile(w))
  BY DEF Manifest, Prepare, PutImportIntent, SubmitCommand, RepeatCommand, Importing,
         Reconciling, Reconcile, At, Mutating, Pcs
<1>4. ~(ReconcileImport(w) \/ EnsureVisible(w) \/ Cleanup(w) \/ Restore(w)
        \/ RestoreEnds(w) \/ Return(w))
  BY DEF ReconcileImport, EnsureVisible, Cleanup, Restore, RestoreEnds, Return, At,
         Mutating, Pcs
<1> QED BY <1>1, <1>2, <1>3, <1>4 DEF WorkerNext

LEMMA UntouchedKept ==
  TypeOK /\ Fits /\ UntouchedUntilCatalog /\ [Next]_vars => UntouchedUntilCatalog'
<1> SUFFICES ASSUME TypeOK, Fits, UntouchedUntilCatalog, [Next]_vars,
                    \A i \in Items : Resumed(i)' \notin Begun
             PROVE  /\ copy'["unmanaged"] = [t \in Tracks |-> "old"]
                    /\ intent' = NoIntent /\ commands' = 0
  BY DEF UntouchedUntilCatalog, NoIntent
<1>1. \A i \in Items : Resumed(i) \notin Begun
  BY FollowedKept DEF Followed
<1>2. \A w \in Workers : worker[w].pc \notin Mutating
  <2>1. ASSUME NEW w \in Workers, worker[w].pc \in Mutating
        PROVE  FALSE
    <3>1. worker[w].item \in Items
      BY <2>1, TypeParts DEF WorkerType, Knows, Mutating
    <3> QED BY <1>1, <2>1, <3>1 DEF Fits, WorkerFits
  <2> QED BY <2>1
<1>3. copy'["unmanaged"] = copy["unmanaged"] /\ UNCHANGED <<intent, commands>>
  <2>1. ASSUME NEW i \in Items, OperatorNext(i)
        PROVE  UNCHANGED <<fileVars, importVars>>
    BY <2>1 DEF OperatorNext, CreateBatch, ConfirmSelected, Retry
  <2>2. ASSUME NEW w \in Workers, WorkerNext(w)
        PROVE  UNCHANGED <<fileVars, importVars>>
    BY <1>2, <2>2, QuietSteps
  <2>3. RuntimeNext \/ UNCHANGED vars => UNCHANGED <<fileVars, importVars>>
    BY DEF RuntimeNext, DeleteExpiredLease, AcquireMigrationLease, ReleaseMigrationLease,
           Dispatch, Crash, Restart, vars
  <2>4. ASSUME NEW t \in Tracks, LidarrImports(t)
        PROVE  copy'["unmanaged"] = copy["unmanaged"] /\ UNCHANGED <<intent, commands>>
    BY <2>4, LidarrEffects DEF LidarrImports, intentVars
  <2>5. LidarrEnds => copy'["unmanaged"] = copy["unmanaged"] /\ UNCHANGED <<intent, commands>>
    BY DEF LidarrEnds, fileVars, intentVars
  <2>6. UNCHANGED <<fileVars, importVars>> =>
          copy'["unmanaged"] = copy["unmanaged"] /\ UNCHANGED <<intent, commands>>
    BY DEF fileVars, importVars, intentVars, commandVars
  <2> QED BY <2>1, <2>2, <2>3, <2>4, <2>5, <2>6, NextCases DEF LidarrNext
<1> QED BY <1>1, <1>3 DEF UntouchedUntilCatalog

LEMMA MigratedKept ==
  TypeOK /\ Fits /\ MigratedInLibrary /\ [Next]_vars => MigratedInLibrary'
<1> SUFFICES ASSUME TypeOK, Fits, MigratedInLibrary, [Next]_vars
             PROVE  MigratedInLibrary'
  OBVIOUS
<1>1. \A s \in Tracks : copy["managed"][s] # "none" => copy'["managed"][s] # "none"
  <2>1. ASSUME NEW i \in Items, OperatorNext(i)
        PROVE  UNCHANGED copy
    BY <2>1 DEF OperatorNext, CreateBatch, ConfirmSelected, Retry, fileVars
  <2>2. RuntimeNext \/ LidarrEnds \/ UNCHANGED vars => UNCHANGED copy
    BY DEF RuntimeNext, DeleteExpiredLease, AcquireMigrationLease, ReleaseMigrationLease,
           Dispatch, Crash, Restart, LidarrEnds, vars, fileVars
  <2> QED BY <2>1, <2>2, NextCases, FileEffects, LidarrEffects DEF LidarrNext
<1>2. \A i \in Items : item'[i].state = "MIGRATED" =>
                         item[i].state = "MIGRATED" \/ Visible("managed")
  BY FollowedKept DEF Followed
<1> QED BY <1>1, <1>2 DEF MigratedInLibrary, Visible

-----------------------------------------------------------------------------
(* The import command *)

Sending == Submitting \cup {"command", "repeat"}

LEMMA StoredIntent ==
  ASSUME NEW files \in [Tracks -> Contents]
  PROVE  files # NoIntent
BY FirstFile DEF Contents, NoIntent

\* Nobody sends or stores anything, and nobody gets closer to it.
SendsNothing ==
  /\ UNCHANGED <<intent, commands, overlapped>>
  /\ \A v \in Workers :
       \/ worker'[v] = worker[v] \/ worker'[v].pc \notin Sending
       \/ worker[v].pc \in Submitting /\ worker'[v].pc \in Submitting

LEMMA QuietCommands ==
  ASSUME CommandsFit, SendsNothing
  PROVE  CommandsFit'
<1>1. \A v \in Workers :
        /\ worker'[v].pc \in Submitting => worker[v].pc \in Submitting
        /\ worker'[v].pc \in {"command", "repeat"} => worker'[v].pc = worker[v].pc
  BY DEF SendsNothing, Sending, Submitting
<1> QED BY <1>1 DEF CommandsFit, SendersFit, SendsNothing

LEMMA SendingSteps ==
  ASSUME TypeOK, NEW w \in Workers, WorkerNext(w)
  PROVE  /\ \/ UNCHANGED importVars /\ SendsNothing
            \/ SaveMigrationEvidence(w) \/ PutImportIntent(w)
            \/ SubmitCommand(w) \/ RepeatCommand(w)
         /\ SaveMigrationEvidence(w) =>
              \E pc \in {"submit", "importing", "restore"} :
                /\ Turned(w, pc)
                /\ pc = "submit" =>
                     /\ intent = NoIntent /\ UNCHANGED <<intent, commands>>
                     /\ overlapped' = (overlapped \/ \E v \in Workers \ {w} :
                                                       worker[v].pc \in Submitting)
         /\ PutImportIntent(w) => \E pc \in {"command", "repeat", "unsure"} : Turned(w, pc)
                                  /\ (pc = "command" => intent = NoIntent
                                                        /\ intent' = worker[w].manifest)
                                  /\ (pc = "repeat" => intent # NoIntent)
                                  /\ (pc # "command" => UNCHANGED intent)
         /\ SubmitCommand(w) \/ RepeatCommand(w) =>
              \E pc \in {"importing", "unsure"} : Turned(w, pc)
<1>0. ItemType /\ WorkerType /\ FileType
  BY TypeParts
<1>1. /\ worker[w].at \in Tracks /\ worker[w].files \in [Tracks -> Known]
      /\ worker[w].at < TrackCount => worker[w].at + 1 \in Tracks
      /\ 1 \in Tracks
  BY <1>0, TrackCountAssumption, FirstFile DEF WorkerType, WorkerRecords, Tracks
<1>2. worker[w].pc # "idle"
  <2>1. Start(w) \/ CheckItem(w) \/ DecideAgain(w) \/ Stage(w) \/ StageFails(w)
        \/ ApplyFails(w) \/ OriginalEvidence(w) \/ CopyMigrationFile(w) \/ ApplySelected(w)
          => worker[w].pc # "idle"
    BY DEF Start, CheckItem, DecideAgain, Stage, StageFails, ApplyFails, OriginalEvidence,
           CopyMigrationFile, ApplySelected, At
  <2>2. SaveMigrationEvidence(w) \/ Manifest(w) \/ Prepare(w) \/ PutImportIntent(w)
        \/ SubmitCommand(w) \/ RepeatCommand(w) \/ Importing(w) \/ Reconciling(w)
          => worker[w].pc # "idle"
    BY DEF SaveMigrationEvidence, Manifest, Prepare, PutImportIntent, SubmitCommand,
           RepeatCommand, Importing, Reconciling, At
  <2>3. Reconcile(w) \/ ReconcileImport(w) \/ EnsureVisible(w) \/ Cleanup(w) \/ Restore(w)
        \/ RestoreEnds(w) \/ Return(w) => worker[w].pc # "idle"
    BY DEF Reconcile, ReconcileImport, EnsureVisible, Cleanup, Restore, RestoreEnds, Return,
           At
  <2> QED BY <2>1, <2>2, <2>3 DEF WorkerNext
<1>3. ASSUME NEW pc \in Pcs \ {"copying"}
      PROVE  /\ Goes(w, pc) \/ Leaves(w, pc) \/ Sends(w, pc) => Turned(w, pc)
             /\ \A at \in Tracks : GoesTo(w, pc, at) => Turned(w, pc)
             /\ \A known \in Known : Evidence(w, pc, known) => Turned(w, pc)
  BY <1>0, <1>2, Turning DEF WorkerType, Knows
<1>4. /\ \A known \in Contents : Evidence(w, "copying", known) => Turned(w, "copying")
      /\ RollsBack(w) \/ Unread(w) => Turned(w, "restore")
  BY <1>0, <1>2, Applying DEF WorkerType, Knows
<1>5. \A p \in {"backup", "approved"}, t \in Tracks :
        copy[p][t] \in Contents /\ copy[p][t] \in Known /\ "unread" \in Known
  BY <1>0 DEF FileType, Places, Known
<1>6. FailsBefore(w) => Turned(w, "end")
  BY <1>3, KnownPcs DEF FailsBefore
<1>7. ASSUME UNCHANGED importVars, NEW pc \in Pcs \ Sending, Turned(w, pc)
      PROVE  SendsNothing
  BY <1>7 DEF SendsNothing, Turned, importVars, intentVars, commandVars
<1>8. ASSUME UNCHANGED importVars, worker[w].pc \in Submitting, NEW pc \in Submitting,
             Turned(w, pc)
      PROVE  SendsNothing
  BY <1>8 DEF SendsNothing, Turned, importVars, intentVars, commandVars
<1>9. CASE Start(w)
  <2>1. \E pc \in {"check", "identity", "stage", "reconcile", "end"} : Turned(w, pc)
    BY <1>1, <1>3, <1>9, KnownPcs DEF Start
  <2>2. \A pc \in {"check", "identity", "stage", "reconcile", "end"} : pc \in Pcs \ Sending
    BY DEF Pcs, Sending, Submitting
  <2>3. UNCHANGED importVars /\ worker[w].pc \notin {"save", "store", "command", "repeat"}
    BY <1>9 DEF Start, At
  <2> QED BY <1>7, <2>1, <2>2, <2>3
       DEF SaveMigrationEvidence, PutImportIntent, SubmitCommand, RepeatCommand, At
<1>10. CASE CheckItem(w)
  <2>1. \E pc \in {"end"} : Turned(w, pc)
    BY <1>1, <1>3, <1>6, <1>10, KnownPcs DEF Writes, CheckItem
  <2>2. \A pc \in {"end"} : pc \in Pcs \ Sending
    BY DEF Pcs, Sending, Submitting
  <2>3. UNCHANGED importVars /\ worker[w].pc \notin {"save", "store", "command", "repeat"}
    BY <1>10 DEF CheckItem, At
  <2> QED BY <1>7, <2>1, <2>2, <2>3
       DEF SaveMigrationEvidence, PutImportIntent, SubmitCommand, RepeatCommand, At
<1>11. CASE DecideAgain(w)
  <2>1. \E pc \in {"stage", "end"} : Turned(w, pc)
    BY <1>1, <1>3, <1>6, <1>11, KnownPcs DEF Writes, DecideAgain
  <2>2. \A pc \in {"stage", "end"} : pc \in Pcs \ Sending
    BY DEF Pcs, Sending, Submitting
  <2>3. UNCHANGED importVars /\ worker[w].pc \notin {"save", "store", "command", "repeat"}
    BY <1>11 DEF DecideAgain, At
  <2> QED BY <1>7, <2>1, <2>2, <2>3
       DEF SaveMigrationEvidence, PutImportIntent, SubmitCommand, RepeatCommand, At
<1>12. CASE Stage(w)
  <2>1. \E pc \in {"backup", "end"} : Turned(w, pc)
    BY <1>1, <1>3, <1>6, <1>12, KnownPcs DEF Stage
  <2>2. \A pc \in {"backup", "end"} : pc \in Pcs \ Sending
    BY DEF Pcs, Sending, Submitting
  <2>3. UNCHANGED importVars /\ worker[w].pc \notin {"save", "store", "command", "repeat"}
    BY <1>12 DEF Stage, At
  <2> QED BY <1>7, <2>1, <2>2, <2>3
       DEF SaveMigrationEvidence, PutImportIntent, SubmitCommand, RepeatCommand, At
<1>13. CASE StageFails(w)
  <2>1. \E pc \in {"end"} : Turned(w, pc)
    BY <1>1, <1>3, <1>6, <1>13, KnownPcs DEF StageFails
  <2>2. \A pc \in {"end"} : pc \in Pcs \ Sending
    BY DEF Pcs, Sending, Submitting
  <2>3. UNCHANGED importVars /\ worker[w].pc \notin {"save", "store", "command", "repeat"}
    BY <1>13 DEF StageFails, At
  <2> QED BY <1>7, <2>1, <2>2, <2>3
       DEF SaveMigrationEvidence, PutImportIntent, SubmitCommand, RepeatCommand, At
<1>14. CASE ApplyFails(w)
  <2>1. \E pc \in {"return"} : Turned(w, pc)
    BY <1>1, <1>3, <1>14, KnownPcs DEF ApplyFails
  <2>2. \A pc \in {"return"} : pc \in Pcs \ Sending
    BY DEF Pcs, Sending, Submitting
  <2>3. UNCHANGED importVars /\ worker[w].pc \notin {"save", "store", "command", "repeat"}
    BY <1>14 DEF ApplyFails, At
  <2> QED BY <1>7, <2>1, <2>2, <2>3
       DEF SaveMigrationEvidence, PutImportIntent, SubmitCommand, RepeatCommand, At
<1>15. CASE OriginalEvidence(w)
  <2>1. \E pc \in {"tag", "copying", "restore"} : Turned(w, pc)
    BY <1>1, <1>3, <1>4, <1>5, <1>15, KnownPcs DEF OriginalEvidence
  <2>2. \A pc \in {"tag", "copying", "restore"} : pc \in Pcs \ Sending
    BY DEF Pcs, Sending, Submitting
  <2>3. UNCHANGED importVars /\ worker[w].pc \notin {"save", "store", "command", "repeat"}
    BY <1>15 DEF OriginalEvidence, At
  <2> QED BY <1>7, <2>1, <2>2, <2>3
       DEF SaveMigrationEvidence, PutImportIntent, SubmitCommand, RepeatCommand, At
<1>16. CASE CopyMigrationFile(w)
  <2>1. \E pc \in {"tag", "restore"} : Turned(w, pc)
    BY <1>1, <1>3, <1>4, <1>5, <1>16, KnownPcs DEF CopyMigrationFile
  <2>2. \A pc \in {"tag", "restore"} : pc \in Pcs \ Sending
    BY DEF Pcs, Sending, Submitting
  <2>3. UNCHANGED importVars /\ worker[w].pc \notin {"save", "store", "command", "repeat"}
    BY <1>16 DEF CopyMigrationFile, At
  <2> QED BY <1>7, <2>1, <2>2, <2>3
       DEF SaveMigrationEvidence, PutImportIntent, SubmitCommand, RepeatCommand, At
<1>17. CASE ApplySelected(w)
  <2>1. \E pc \in {"backup", "save", "restore"} : Turned(w, pc)
    BY <1>1, <1>3, <1>4, <1>17, KnownPcs DEF ApplySelected
  <2>2. \A pc \in {"backup", "save", "restore"} : pc \in Pcs \ Sending
    BY DEF Pcs, Sending, Submitting
  <2>3. UNCHANGED importVars /\ worker[w].pc \notin {"save", "store", "command", "repeat"}
    BY <1>17 DEF ApplySelected, At
  <2> QED BY <1>7, <2>1, <2>2, <2>3
       DEF SaveMigrationEvidence, PutImportIntent, SubmitCommand, RepeatCommand, At
<1>18. CASE Importing(w)
  <2>1. \E pc \in {"submitted", "submitted unsure", "end"} : Turned(w, pc)
    BY <1>1, <1>3, <1>18, KnownPcs DEF Writes, Importing
  <2>2. \A pc \in {"submitted", "submitted unsure", "end"} : pc \in Pcs \ Sending
    BY DEF Pcs, Sending, Submitting
  <2>3. UNCHANGED importVars /\ worker[w].pc \notin {"save", "store", "command", "repeat"}
    BY <1>18 DEF Importing, At
  <2> QED BY <1>7, <2>1, <2>2, <2>3
       DEF SaveMigrationEvidence, PutImportIntent, SubmitCommand, RepeatCommand, At
<1>19. CASE Reconciling(w)
  <2>1. \E pc \in {"reconcile", "end"} : Turned(w, pc)
    BY <1>1, <1>3, <1>19, KnownPcs DEF Writes, Reconciling
  <2>2. \A pc \in {"reconcile", "end"} : pc \in Pcs \ Sending
    BY DEF Pcs, Sending, Submitting
  <2>3. UNCHANGED importVars /\ worker[w].pc \notin {"save", "store", "command", "repeat"}
    BY <1>19 DEF Reconciling, At
  <2> QED BY <1>7, <2>1, <2>2, <2>3
       DEF SaveMigrationEvidence, PutImportIntent, SubmitCommand, RepeatCommand, At
<1>20. CASE Reconcile(w)
  <2>1. \E pc \in {"verify", "end"} : Turned(w, pc)
    BY <1>1, <1>3, <1>20, KnownPcs DEF Reconcile
  <2>2. \A pc \in {"verify", "end"} : pc \in Pcs \ Sending
    BY DEF Pcs, Sending, Submitting
  <2>3. UNCHANGED importVars /\ worker[w].pc \notin {"save", "store", "command", "repeat"}
    BY <1>20 DEF Reconcile, At
  <2> QED BY <1>7, <2>1, <2>2, <2>3
       DEF SaveMigrationEvidence, PutImportIntent, SubmitCommand, RepeatCommand, At
<1>21. CASE ReconcileImport(w)
  <2>1. \E pc \in {"scan", "end"} : Turned(w, pc)
    BY <1>1, <1>3, <1>6, <1>21, KnownPcs DEF ReconcileImport
  <2>2. \A pc \in {"scan", "end"} : pc \in Pcs \ Sending
    BY DEF Pcs, Sending, Submitting
  <2>3. UNCHANGED importVars /\ worker[w].pc \notin {"save", "store", "command", "repeat"}
    BY <1>21 DEF ReconcileImport, At
  <2> QED BY <1>7, <2>1, <2>2, <2>3
       DEF SaveMigrationEvidence, PutImportIntent, SubmitCommand, RepeatCommand, At
<1>22. CASE EnsureVisible(w)
  <2>1. \E pc \in {"cleanup", "end"} : Turned(w, pc)
    BY <1>1, <1>3, <1>6, <1>22, KnownPcs DEF Writes, EnsureVisible
  <2>2. \A pc \in {"cleanup", "end"} : pc \in Pcs \ Sending
    BY DEF Pcs, Sending, Submitting
  <2>3. UNCHANGED importVars /\ worker[w].pc \notin {"save", "store", "command", "repeat"}
    BY <1>22 DEF EnsureVisible, At
  <2> QED BY <1>7, <2>1, <2>2, <2>3
       DEF SaveMigrationEvidence, PutImportIntent, SubmitCommand, RepeatCommand, At
<1>23. CASE Cleanup(w)
  <2>1. \E pc \in {"end"} : Turned(w, pc)
    BY <1>1, <1>3, <1>23, KnownPcs DEF Cleanup
  <2>2. \A pc \in {"end"} : pc \in Pcs \ Sending
    BY DEF Pcs, Sending, Submitting
  <2>3. UNCHANGED importVars /\ worker[w].pc \notin {"save", "store", "command", "repeat"}
    BY <1>23 DEF Cleanup, At
  <2> QED BY <1>7, <2>1, <2>2, <2>3
       DEF SaveMigrationEvidence, PutImportIntent, SubmitCommand, RepeatCommand, At
<1>24. CASE Restore(w)
  <2>1. \E pc \in {"restore", "restored", "end"} : Turned(w, pc)
    BY <1>1, <1>3, <1>6, <1>24, KnownPcs DEF Restore
  <2>2. \A pc \in {"restore", "restored", "end"} : pc \in Pcs \ Sending
    BY DEF Pcs, Sending, Submitting
  <2>3. UNCHANGED importVars /\ worker[w].pc \notin {"save", "store", "command", "repeat"}
    BY <1>24 DEF Restore, At
  <2> QED BY <1>7, <2>1, <2>2, <2>3
       DEF SaveMigrationEvidence, PutImportIntent, SubmitCommand, RepeatCommand, At
<1>25. CASE RestoreEnds(w)
  <2>1. \E pc \in {"return"} : Turned(w, pc)
    BY <1>1, <1>3, <1>25, KnownPcs DEF RestoreEnds
  <2>2. \A pc \in {"return"} : pc \in Pcs \ Sending
    BY DEF Pcs, Sending, Submitting
  <2>3. UNCHANGED importVars /\ worker[w].pc \notin {"save", "store", "command", "repeat"}
    BY <1>25 DEF RestoreEnds, At
  <2> QED BY <1>7, <2>1, <2>2, <2>3
       DEF SaveMigrationEvidence, PutImportIntent, SubmitCommand, RepeatCommand, At
<1>26. CASE Return(w)
  <2>1. \E pc \in {"end"} : Turned(w, pc)
    BY <1>1, <1>3, <1>6, <1>26, KnownPcs DEF Return
  <2>2. \A pc \in {"end"} : pc \in Pcs \ Sending
    BY DEF Pcs, Sending, Submitting
  <2>3. UNCHANGED importVars /\ worker[w].pc \notin {"save", "store", "command", "repeat"}
    BY <1>26 DEF Return, At
  <2> QED BY <1>7, <2>1, <2>2, <2>3
       DEF SaveMigrationEvidence, PutImportIntent, SubmitCommand, RepeatCommand, At
<1>27. CASE Manifest(w)
  <2>1. copy["approved"] \in [Tracks -> Contents] /\ worker[w].item \in Items
    BY <1>0, <1>2 DEF FileType, Places, WorkerType, Knows
  <2>2. Turned(w, "prepare") \/ Turned(w, "restore")
    BY <1>0, <1>4, <1>27, <2>1, Applying DEF Manifest
  <2>3. UNCHANGED importVars /\ worker[w].pc \in Submitting /\ "prepare" \in Submitting
    BY <1>27 DEF Manifest, At, Submitting
  <2>4. "restore" \in Pcs \ Sending
    BY DEF Pcs, Sending, Submitting
  <2>5. worker[w].pc \notin {"save", "store", "command", "repeat"}
    BY <1>27 DEF Manifest, At
  <2> QED BY <1>7, <1>8, <2>2, <2>3, <2>4, <2>5
       DEF SaveMigrationEvidence, PutImportIntent, SubmitCommand, RepeatCommand, At
<1>28. CASE Prepare(w)
  <2>1. There(copy["approved"]) \in SUBSET Tracks /\ worker[w].item \in Items
    BY <1>0, <1>2 DEF There, WorkerType, Knows
  <2>2. Turned(w, "store") \/ Turned(w, "restore")
    BY <1>0, <1>4, <1>28, <2>1, Applying DEF Prepare
  <2>3. UNCHANGED importVars /\ worker[w].pc \in Submitting /\ "store" \in Submitting
    BY <1>28 DEF Prepare, At, Submitting
  <2>4. "restore" \in Pcs \ Sending
    BY DEF Pcs, Sending, Submitting
  <2>5. worker[w].pc \notin {"save", "store", "command", "repeat"}
    BY <1>28 DEF Prepare, At
  <2> QED BY <1>7, <1>8, <2>2, <2>3, <2>4, <2>5
       DEF SaveMigrationEvidence, PutImportIntent, SubmitCommand, RepeatCommand, At
<1>29. CASE SaveMigrationEvidence(w)
  <2>1. worker[w].pc = "save"
    BY <1>29 DEF SaveMigrationEvidence, At
  <2>2. \/ /\ Turned(w, "submit") /\ intent = NoIntent /\ UNCHANGED <<intent, commands>>
           /\ overlapped' = (overlapped \/ \E v \in Workers \ {w} :
                                             worker[v].pc \in Submitting)
        \/ Turned(w, "importing") \/ Turned(w, "restore")
    BY <1>3, <1>4, <1>29, KnownPcs
       DEF SaveMigrationEvidence, Looked, intentVars, commandVars
  <2> QED BY <1>29, <2>1, <2>2 DEF PutImportIntent, SubmitCommand, RepeatCommand, At
<1>30. CASE PutImportIntent(w)
  <2>1. worker[w].pc = "store"
    BY <1>30 DEF PutImportIntent, At
  <2>2. \/ Turned(w, "command") /\ intent = NoIntent /\ intent' = worker[w].manifest
        \/ Turned(w, "repeat") /\ intent # NoIntent /\ UNCHANGED intent
        \/ Turned(w, "unsure") /\ UNCHANGED intent
    BY <1>3, <1>30, KnownPcs DEF PutImportIntent, intentVars
  <2> QED BY <1>30, <2>1, <2>2 DEF SaveMigrationEvidence, SubmitCommand, RepeatCommand, At
<1>31. CASE SubmitCommand(w) \/ RepeatCommand(w)
  <2>1. worker[w].pc \in {"command", "repeat"}
    BY <1>31 DEF SubmitCommand, RepeatCommand, At
  <2>2. Turned(w, "importing") \/ Turned(w, "unsure")
    BY <1>3, <1>31, KnownPcs DEF SubmitCommand, RepeatCommand
  <2> QED BY <1>31, <2>1, <2>2 DEF SaveMigrationEvidence, PutImportIntent, At
<1> QED BY <1>9, <1>10, <1>11, <1>12, <1>13, <1>14, <1>15, <1>16, <1>17, <1>18, <1>19, <1>20,
           <1>21, <1>22, <1>23, <1>24, <1>25, <1>26, <1>27, <1>28, <1>29, <1>30, <1>31
           DEF WorkerNext

LEMMA CommandsKept == TypeOK /\ Fits /\ CommandsFit /\ [Next]_vars => CommandsFit'
<1> SUFFICES ASSUME TypeOK, Fits, CommandsFit, [Next]_vars
             PROVE  CommandsFit'
  OBVIOUS
<1> USE DEF CommandsFit, SendersFit
<1>0. WorkerType /\ ImportType
  BY TypeParts
<1>1. ASSUME NEW i \in Items, OperatorNext(i)
      PROVE  SendsNothing
  BY <1>1 DEF OperatorNext, CreateBatch, ConfirmSelected, Retry, SendsNothing, importVars,
              intentVars, commandVars
<1>2. ASSUME NEW w \in Workers, SaveMigrationEvidence(w), WorkerNext(w)
      PROVE  CommandsFit'
  <2>1. PICK pc \in {"submit", "importing", "restore"} :
          /\ Turned(w, pc)
          /\ pc = "submit" =>
               /\ intent = NoIntent /\ UNCHANGED <<intent, commands>>
               /\ overlapped' = (overlapped \/ \E v \in Workers \ {w} :
                                                 worker[v].pc \in Submitting)
    BY <1>2, SendingSteps
  <2>2. UNCHANGED <<intent, commands>> /\ (overlapped => overlapped')
    <3>1. UNCHANGED <<intent, commands>>
      BY <1>2 DEF SaveMigrationEvidence, intentVars, commandVars
    <3>2. \/ UNCHANGED overlapped
          \/ overlapped' = (overlapped \/ \E v \in Workers \ {w} :
                                             worker[v].pc \in Submitting)
      BY <1>2, Zenon DEF SaveMigrationEvidence
    <3>3. overlapped => overlapped'
      <4>1. CASE UNCHANGED overlapped
        BY <4>1
      <4>2. CASE overlapped' = (overlapped \/ \E v \in Workers \ {w} :
                                               worker[v].pc \in Submitting)
        BY <4>2
      <4> QED BY <3>2, <4>1, <4>2
    <3> QED BY <3>1, <3>3
  <2>3. CASE pc = "submit"
    <3>1. /\ worker'[w].pc = "submit" /\ "submit" \in Submitting
          /\ \A v \in Workers \ {w} : worker'[v] = worker[v]
      BY <2>1, <2>3 DEF Turned, Submitting
    <3> QED BY <2>1, <2>2, <2>3, <3>1
  <2>4. CASE pc \in {"importing", "restore"}
    <3>1. /\ worker'[w].pc = pc /\ pc \notin Sending
          /\ \A v \in Workers \ {w} : worker'[v] = worker[v]
      BY <2>1, <2>4 DEF Turned, Sending, Submitting
    <3> QED BY <2>2, <3>1 DEF Sending
  <2> QED BY <2>1, <2>3, <2>4
<1>3. ASSUME NEW w \in Workers, PutImportIntent(w), WorkerNext(w)
      PROVE  CommandsFit'
  <2>1. PICK pc \in {"command", "repeat", "unsure"} :
          /\ Turned(w, pc)
          /\ pc = "command" => intent = NoIntent /\ intent' = worker[w].manifest
          /\ pc = "repeat" => intent # NoIntent
          /\ pc # "command" => UNCHANGED intent
    BY <1>3, SendingSteps
  <2>2. /\ UNCHANGED <<commands, overlapped>> /\ worker[w].pc = "store"
        /\ worker[w].pc \in Submitting
    BY <1>3 DEF PutImportIntent, commandVars, At, Submitting
  <2>3. /\ worker'[w].pc = pc /\ pc \notin Submitting
        /\ \A v \in Workers \ {w} : worker'[v] = worker[v]
    BY <2>1 DEF Turned, Submitting
  <2>4. worker[w].manifest # NoIntent
    BY <1>0, StoredIntent DEF WorkerType, WorkerRecords
  <2>5. ASSUME ~overlapped
        PROVE  intent = NoIntent /\ commands = 0 /\ pc # "repeat"
               /\ \A v \in Workers \ {w} : worker[v].pc \notin Submitting \cup {"command"}
    BY <2>1, <2>2, <2>5
  <2>6. CASE pc = "command"
    BY <2>1, <2>2, <2>3, <2>4, <2>5, <2>6
  <2>7. CASE pc = "unsure"
    BY <2>1, <2>2, <2>3, <2>5, <2>7
  <2>8. CASE pc = "repeat"
    BY <2>2, <2>5, <2>8
  <2> QED BY <2>1, <2>6, <2>7, <2>8
<1>4. ASSUME NEW w \in Workers, SubmitCommand(w) \/ RepeatCommand(w), WorkerNext(w)
      PROVE  CommandsFit'
  <2>1. PICK pc \in {"importing", "unsure"} : Turned(w, pc)
    BY <1>4, SendingSteps
  <2>2. /\ UNCHANGED <<intent, overlapped>> /\ commands' \in {commands, commands + 1}
        /\ worker[w].pc \in {"command", "repeat"}
    BY <1>4 DEF SubmitCommand, RepeatCommand, Accepted, intentVars, commandVars, At
  <2>3. /\ worker'[w].pc = pc /\ pc \notin Sending
        /\ \A v \in Workers \ {w} : worker'[v] = worker[v]
    BY <2>1 DEF Turned, Sending, Submitting
  <2>4. ASSUME ~overlapped
        PROVE  /\ commands = 0 /\ intent # NoIntent
               /\ \A v \in Workers \ {w} : worker[v].pc \notin Sending
    BY <2>2, <2>4 DEF Sending
  <2>5. ~overlapped => commands' \in {0, 1}
    BY <2>2, <2>4
  <2> QED BY <2>2, <2>3, <2>4, <2>5 DEF Sending
<1>5. RuntimeNext => SendsNothing
  <2>1. ASSUME NEW i \in Items, NEW w \in Workers, AcquireMigrationLease(i, w)
        PROVE  SendsNothing
    <3>1. \A v \in Workers : worker'[v] = worker[v] \/ worker'[v].pc = "start"
      BY <1>0, <2>1 DEF AcquireMigrationLease, WorkerType, NoWorker
    <3> QED BY <2>1, <3>1 DEF AcquireMigrationLease, SendsNothing, Sending, Submitting,
                              importVars, intentVars, commandVars
  <2>2. ASSUME NEW w \in Workers, ReleaseMigrationLease(w)
        PROVE  SendsNothing
    <3>1. \A v \in Workers : worker'[v] = worker[v] \/ worker'[v].pc = "idle"
      BY <1>0, <2>2, IdleWorker DEF ReleaseMigrationLease, WorkerType
    <3> QED BY <2>2, <3>1 DEF ReleaseMigrationLease, SendsNothing, Sending, Submitting,
                              importVars, intentVars, commandVars
  <2>3. Crash => SendsNothing
    BY IdleWorker DEF Crash, SendsNothing, Sending, Submitting, importVars, intentVars,
                      commandVars
  <2>4. (\E i \in Items : DeleteExpiredLease(i)) \/ Dispatch \/ Restart => SendsNothing
    BY DEF DeleteExpiredLease, Dispatch, Restart, SendsNothing, importVars, intentVars,
           commandVars
  <2> QED BY <2>1, <2>2, <2>3, <2>4 DEF RuntimeNext
<1>6. LidarrNext \/ UNCHANGED vars => SendsNothing
  BY DEF LidarrNext, LidarrImports, LidarrEnds, vars, SendsNothing, importVars, intentVars,
         commandVars
<1> QED BY <1>1, <1>2, <1>3, <1>4, <1>5, <1>6, NextCases, SendingSteps, QuietCommands

-----------------------------------------------------------------------------
(* The theorems *)

LEMMA InitHolds == Init => IInv
<1> SUFFICES ASSUME Init
             PROVE  IInv
  OBVIOUS
<1> USE DEF Init
<1>1. ItemType /\ RuntimeType /\ \A i \in Items : Resumed(i) \notin Begun
  BY DEF ItemType, RuntimeType, NoItem, Resumed, Begun
<1>2. WorkerType
  BY IdleWorker DEF WorkerType
<1>3. FileType
  BY DEF FileType, Places, Contents, NoFiles
<1>4. ImportType
  <2>1. intent \in [Tracks -> Contents \cup {"unstored"}]
    BY DEF NoIntent
  <2>2. request \subseteq Tracks /\ commands \in Nat /\ queue \subseteq Tracks
    OBVIOUS
  <2>3. overlapped \in BOOLEAN
    BY Zenon
  <2>4. troubles \in 0..MaxTroubles
    BY MaxTroublesAssumption
  <2> QED BY <2>1, <2>2, <2>3, <2>4, Zenon DEF ImportType
<1>5. \A w \in Workers : worker[w].pc = "idle"
  BY IdleWorker
<1>6. Fits
  BY <1>5 DEF Fits, ItemFits, WorkerFits, NoItem, Sure, Mutating
<1>7. CommandsFit
  BY <1>5 DEF CommandsFit, SendersFit, Submitting
<1>8. UntouchedUntilCatalog
  BY DEF UntouchedUntilCatalog, Places
<1>9. MigratedInLibrary
  BY DEF MigratedInLibrary, NoItem
<1>10. DirsFit /\ CopyLeft
  BY DEF DirsFit, CopyLeft, Places
<1> QED BY <1>1, <1>2, <1>3, <1>4, <1>6, <1>7, <1>8, <1>9, <1>10, TypeParts DEF IInv

LEMMA TypeKept ==
  TypeOK /\ Fits /\ DirsFit /\ CopyLeft /\ [Next]_vars => TypeOK' /\ Fits'
<1> SUFFICES ASSUME TypeOK, Fits, DirsFit, CopyLeft, [Next]_vars
             PROVE  TypeOK' /\ Fits'
  OBVIOUS
<1>1. ItemType' /\ WorkerType' /\ Fits' /\ RuntimeType' /\ FileType' /\ ImportType'
  BY FollowedKept, RuntimeKept, FilesKept, ImportKept DEF Followed
<1> QED BY <1>1 DEF TypeOK, ItemType, WorkerType, WorkerRecords, Knows, Known, RuntimeType,
           FileType, ImportType, Pcs

LEMMA Invariance == Spec => []IInv
<1>1. IInv /\ [Next]_vars => IInv'
  BY TypeKept, CommandsKept, UntouchedKept, MigratedKept, FilesKept DEF IInv
<1> QED BY <1>1, InitHolds, PTL DEF Spec

\* Every variable keeps its type, and a failed item can be resumed.
THEOREM TypeCorrect == Spec => []TypeOK
<1>1. IInv => TypeOK
  BY DEF IInv
<1> QED BY <1>1, Invariance, PTL

\* The release stays as it is until an item of it has got to its import: no check and
\* no failed identity or catalog step moves or writes anything or sends its import, with
\* any number of workers, overtaken or not.
THEOREM UntouchedCorrect == Spec => []UntouchedUntilCatalog
<1>1. IInv => UntouchedUntilCatalog
  BY DEF IInv
<1> QED BY <1>1, Invariance, PTL

\* What is reported migrated has its tracks in the library, with any number of items,
\* workers, crashes and failures: Lidarr never takes a file back, and only the scan of a
\* worker that nobody has overtaken settles an item.
THEOREM MigratedCorrect == Spec => []MigratedInLibrary
<1>1. IInv => MigratedInLibrary
  BY DEF IInv
<1> QED BY <1>1, Invariance, PTL

\* Whatever leases expire, processes crash and steps fail, a second command needs two
\* workers that both looked for the intent before either stored its own: whoever looks
\* later finds the intent and does not send.
THEOREM OneCommandCorrect == Spec => []OneCommand
<1>0. 0 <= 1 /\ 1 <= 1
  OBVIOUS
<1>1. IInv => OneCommand
  BY <1>0 DEF IInv, CommandsFit, OneCommand
<1> QED BY <1>1, Invariance, PTL

\* While the whole release is what Lidarr is asked to import, no crash, failure, rollback
\* or cleanup leaves a track in its backup only: the approved directory is removed when
\* the library has the track, and the directory of the release is moved, never replaced.
THEOREM CopyLeftCorrect == Spec => []CopyLeft
<1>1. IInv => CopyLeft
  BY DEF IInv
<1> QED BY <1>1, Invariance, PTL
=============================================================================
