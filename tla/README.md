# Denyra: specifications, model checking and proofs

Denyra fetches music releases that Lidarr wants, validates them and has Lidarr
import them.  Two Go services share the work, each with its own SQLite database:

- the **Acquisition Gateway** (`internal/gateway`) searches for an album and
  decides *which* downloaded candidate of it is used;
- the **Media Pipeline** (`internal/pipeline`) takes candidates and operators'
  uploads, validates them and changes files.

They talk over HTTP with idempotency keys and revisions.  A third program,
`denyra-reconcile`, configures Lidarr, SFTPGo and Navidrome at set-up.  This
directory holds TLA+ modules of the parts where order, concurrency and failure
matter, the TLC configurations that check them, and proofs for TLAPS.

Run from this directory, for instance, `tlc -config arb_safety.cfg MCArbitration`
and `tlapm ArbitrationProofs.tla`.  `PROJECT.json` maps each definition to the
lines it models and lists runs, mutants, findings, hazards and theorems.

## 1. Inventory

Sources are under `src/internal`.

| Component | State it keeps | Operations | What is hard | What makes it correct |
|---|---|---|---|---|
| **Arbitration**: `gateway/application/arbitration.go`, `domain/arbitration.go`, `persistence/arbitration.go`, `effects.go` | `arbitrations`, `candidate_approvals`, `external_effects`, `idempotency_records` | record an approval, decide, lock, deliver, acknowledge, answer | callbacks and worker at once, out-of-order approvals, crash between lock and delivery, lost answers | one winner, the best in time; only it is imported, only the others superseded; answers agree |
| Acquisition job: `gateway/domain/state.go`, `application/primary_search.go`, `reconcile_primary.go`, `primary_completion.go` | `acquisition_jobs` (state, revision, attempts, deadlines, watermarks) | start and resume a search, poll, correlate queue and history, retry, restart the 24 h cycle | answers after a deadline, a crash between a command and its record, stale revisions, a selection that comes back | only grabs for the job's release are adopted; a search ends |
| Fallback: `gateway/application/fallback.go`, `adapters/spotiflac` | `attempts`, child process, output directory | run the providers, stop, classify, store | cancellation racing with completion, leftovers of earlier attempts, reuse of an attempt number | a candidate is stored whole; a run ends |
| Late primary: `gateway/application/candidates.go` | `candidates`, `pending_acquisition_candidates` | detect, cancel the fallback, register | arrives in any state up to the lock | the engine is stopped first; an approved candidate is not lost |
| Wanted cycles, discovery: `gateway/application/discovery.go`, `persistence/wanted_cycles.go` | `wanted_cycles` | open, close, re-select the release | the wish changes under a job far along | what is delivered is for the release selected last |
| Worker, leases, recovery: `gateway/application/worker.go`, `recovery.go`, `runtime.go` | `leases` | acquire, renew, release, reconcile at start | expiry under the owner, restart before expiry | one owner at a time |
| Hand-off: `gateway/application/handoff.go`, `pipeline/persistence/handoff.go` | effects; `candidates`, `completion_evidence` | accept completed, replay, directives | lost answers, replay under the same key | a completed download reaches the pipeline; a directive is applied once |
| Controlled workflow: `pipeline/application/workflow.go` and the services it calls, `import.go` | `candidates`, `submissions`, `import_intents`, four directories per candidate | claim, validate, match, enrich, mutate, publish, import | no transaction covers a rename and a row; operators and directives at the same time | files are where the state says; what is imported is matched, tagged and what was sealed; one import command |
| Review: `pipeline/application/review.go` | `candidates`, files | approve, retry, reject, cancel | move and state change are two steps | a refused decision leaves nothing moved |
| Uploads, submissions: `pipeline/application/uploads.go`, `discovery.go`, `preview.go`, `submissions.go`, `adapters/filesystem/upload.go` | `upload_sessions`, `upload_entries`, `submissions`, `submission_previews`, files | create, put, finalize, delete, scan, preview, seal, resubmit | concurrent PUTs of one file, a truncation or a rename under an open descriptor, stale pages | what is finalized is whole; what is claimed is what was decided |
| Unmanaged import: `pipeline/application/unmanaged.go` | `unmanaged_import_intents`, `unmanaged_releases`, staged layout, library | tag, lay out, rename, verify, resume | crash at every step, periodic recovery at the same time, occupied destination | nothing overwritten or lost, resumed to completion |
| Migration: `pipeline/application/migration*.go` | `migration_batches`, `migration_items`, `import_intents`, backups | check, confirm, stage, back up, tag, import, verify, roll back, retry | failure after the import command, several items of one release, a lease that expires under its worker, a backup cut off | nothing touched before the catalogue agreed; MIGRATED means it is there; one command; no file left in its backup only |
| Matching and metadata: `pipeline/domain/duration.go`, `application/matching.go`, `adapters/musicbrainz/client.go`, `application/identity.go`, `metadata.go` | none | thresholds, match, identity, plan, layout | rounding and overflow, truncated searches, names that collide | the verdict is the policy's; an exact match stays one; the plan is read back |
| Lidarr's catalogue: `pipeline/adapters/lidarr/catalog.go` | Lidarr's artists and albums | ensure a release | concurrent callers, lost answers, merged releases | the release is monitored, nothing else is |
| `denyra-reconcile`: `reconcile/*.go` | settings of three services | read, compare, write | lost answers, the operator edits meanwhile | set up when it reports success; preferences kept |
| Pages, sessions, artwork and lyrics, configuration, plumbing | | | | not modelled, section 7 |

Interactions.  Lidarr and slskd feed the gateway by polling and events; the
gateway hands completed candidates to the pipeline (`CANDIDATE_COMPLETED`), and
operators hand it sealed submissions; the pipeline calls the gateway back when a
candidate is APPROVED and waits for the answer; the gateway locks a winner and
sends `WINNER_LOCKED` and `SUPERSEDED` directives; the pipeline has Lidarr import
the winner.  Releases that MusicBrainz does not know go the unmanaged way into a
library of their own, and may be migrated from there later.  Operators act on the
pipeline's pages at any time.

```
 Wanted    +----------------+  completed   +--------------------+
 Lidarr -->| AcquisitionJob |------------->|                    |   import  +--------+
           | FallbackRunner |              | CandidateWorkflow  |---------->| Lidarr |
           +----------------+              |                    |  Catalog  +--------+
                   | opening               +--------------------+               ^
                   v                        ^ sealed  | unmanaged               |
           +----------------+   approval    |         v                         |
           |  Arbitration   |<----------->  |   UnmanagedImport --> Migration --+
           +----------------+  directives  UploadIntake
```

The hazards of this code, one by one at their lines with the properties that
would expose them, are in `PROJECT.json` under `hazards`.

## 2. Plan

| | Module | Content | Abstract specification or reference | Runs | Proofs |
|---|---|---|---|---|---|
| done | `GatewayStates`, `PipelineStates` | the two transition tables | | | |
| done | `ArbitrationOrder`, `ArbitrationRules` | the decision rule | the stated preference | `rules` | the order is total and transitive; the winner is preferred, late approvals change nothing |
| done | `Arbitration` | gateway and pipeline around one job | `WinnerAuthority` (refinement) | `arb_safety`, `arb_liveness`, `late_primary` | all safety, refinement |
| done | `AcquisitionJob`, `FallbackRunner` | a job up to its candidates | | `acquisition`, `acquisition_liveness`, `fallback_repeat` | all safety |
| done | `CandidateWorkflow` | a candidate in the pipeline | `ReleaseCustody` (refinement) | `workflow` | all safety, refinement |
| done | `UploadIntake` | a release on its way in | `SealedDelivery` (refinement) | `intake` | all safety, refinement |
| done | `UnmanagedImport` | publication in the unmanaged library | `Publication` (refinement) | `unmanaged` | all safety, refinement |
| done | `Migration` | from there to Lidarr's library | | `migration`, `cut_backup` | all safety |
| done | `ReleaseMatch`, `ReleaseIdentity`, `SubmissionPlan` | rules without state | the policy in exact arithmetic, the design's sentences | `rules` | what is stated of them, for every input |
| done | `Catalog`, `Reconcile` | requests to other services | | `rules` | all safety |
| left | several jobs and candidates | order of the work queues, admission by space | | | starvation by the first failing job |
| left | artwork and lyrics | choice of the files | the design | | |

Each module takes its parameters as CONSTANTS with named assumptions, one action
per operation, and no RECURSIVE operator, so that it can be proved about.

## 3. Modules and how they correspond to the code

In all state modules a database transaction is one action, a remote call is one
action, a rename, write or removal of a file is one action, and what a call read
before is kept with the call.  A goroutine's place in the code is `pc` (or the
field `pc` of its record).  A crash ends every call of a process and leaves files
and tables as they are.

**`GatewayStates`, `PipelineStates`** are the tables `transitions` and
`allowedTransitions` with `CanTransition`.

**`ArbitrationOrder`** is `CompareQuality` (`Merit`: the six ranks, warnings
counted downwards, compared lexicographically), `betterApproved` (quality, source
priority, completion time, identifier) and the reason it records.
**`ArbitrationRules`** is `DecideArbitration` on the growing rows of
`candidate_approvals` with `RecordApproval`'s deadline (`first_approved_at` only moves
back).  A list that is queried or sorted in an order is `InOrder` of its elements.  Both
are stated on numbers where the code has vectors and times.

**`Arbitration`** is one job with its candidates, in both services.

| Variable | In the code |
|---|---|
| `job`, `arb`, `approvals`, `response`, `effect`, `acked`, `lease` | gateway tables `acquisition_jobs`, `arbitrations`, `candidate_approvals`, `idempotency_records`, `external_effects`, `leases` |
| `phase` | where `GatewayRuntime.Run` is: recovery at start, loops, or returned with an error |
| `pc`, `seen`, `todo` | each running call: an approval handler per candidate, and the worker (or startup recovery); the values it read |
| `state`, `revision`, `approvedAt`, `directives` | pipeline tables `candidates` and `idempotency_records` |
| `queued` | the downloads Lidarr lists in its queue |
| `now`, `troubles` | clock; number of disturbances so far |

The approval handler is `Record` (or `Replay`), then `Decide`/`Undecided`,
`LockCommit`/`LockAgreed`/`LockRefused`, the delivery (`BeginDelivery`, one
`DeliverDirective`/`CancelTransfer` and `Acknowledge` per effect, `CheckHandOff`,
`HandOff`, `EndDelivery`) and `Answer`.  The worker and startup recovery run the
same `Evaluate` path.  Abstractions, each chosen so that no property depends on
what is left out: quality is a fixed order `Place` (`ArbitrationOrder` and its
proofs show that the code's order is total, which is all that is used); `View` reads
arbitration and approvals in one step (`RecordApproval` advances the revision
whenever the deadline moves, and the lock compares it); the candidate's states
before APPROVED are one state "RECEIVED"; IMPORT_RECONCILING is folded into
`FinishImport`; the retries of a directive inside one call are one delivery whose
answer may be lost (`AnswerLost`); the release selected for the job is fixed.

**`WinnerAuthority`** is its abstract specification: one choice, authorization of
the chosen, discarding of the others, closing after the authorization.

**`AcquisitionJob`** is the job before that, and extends **`FallbackRunner`**, one call
of the SpotiFLAC runner.  `job`, `due`, `search`, `past`, `overall`, `release`,
`attempt` are the columns of `acquisition_jobs` (the watermarks and deadlines by what
they say: which search they belong to, which have passed); `attempts`, `pending`,
`stored`, `offers`, `delivered`, `cancel` the other tables; `pc`, `seen`, `fresh` the
workers and the late-primary monitor; `status`, `grab`, `selected` Lidarr; `held` the
pipeline.  Every update of the job compares its revision with the one the caller read;
`fresh` is the set of callers for which it still agrees, so that no counter is needed.
`Take` is `ProcessOne`; `Request` … `PrimaryError` are `primary_search.go`;
`ReadEvidence`, `GraceCheck`, `ReconcileUncertain`, `Adopt` are `reconcile_primary.go`;
`StartFallback` … `RetryFallback` are `fallback.go` around the runner; `LateEvidence` …
`RegisterLate` are `candidates.go`; `Discover` and `Unwanted` are discovery and the
wanted cycles; `CompletePrimary` and `DeliverPrimary` the completion monitor, `Offer`
the request it hands over, under the job's release revision, with what it says of the
evidence; `Storable` is `PutEffect`, `Takes` the pipeline's `AcceptCandidate`, `Replay`
the recovery of a stored request. A user may select releases of the album in any order
(`SelectRelease`); `Match` compares with the one selected now, as the code does, and the
history variable `strayed` says that the selection has left the job's release and come
back before discovery saw it.  In `FallbackRunner`, `run` is the loop over the
providers, `child` the process and how it ended, `output` the kinds of files in the
job's directory, which no attempt empties.  `Panic` is what happens when a process that
is being stopped has ended with exit code 0: `failedExecution` uses the text of an error
that is nil.  Arbitration is one step (`Arbitrate`).

**`CandidateWorkflow`** is one candidate in the pipeline: `ControlledWorkflow`, the
review service, the directive and recovery around one row and four directories
(`dir`: source, work, quarantine, approved).  A step of the workflow is cut at each
rename, write and remote call; `Transition` compares the revision that the step
read.  `Scan`, `Stable`, `Claim`, `SetWorkLocation` are the claim, `Evaluate` and
`SaveMatch` the match, `Enrich`, `Mutate`, `RecordMutation` the tags, `PublishApproval`
and `SettleApproval` the callback, `SubmitExisting` … `MarkImported` the import.
`ReturnMove`, `ReturnCommit`, `ReturnBack` are the operator's retry with the move it
takes back.  `torn` is a history variable: some call was cut off between a rename
and the change of state that belongs to it.

**`ReleaseCustody`** is its abstract specification, what the operator, the gateway and
Lidarr may rely on: the release is written to and moved only while its candidate is open
or closed; it is approved in the work tree, with what the operator sealed and all tags;
Lidarr is asked once, after the decision to import and for the approved tree; and a
candidate ends once, imported when the library has the release, or closed when Lidarr
was not asked.  `Stage` maps the 23 states to five, `Holders` the directories and the
library to the set of places that have the release.  What the code does not exclude is
in it: once a call was cut off (`cut`, mapped to `torn`) the release may be elsewhere
than its stage says, and be closed while Lidarr imports it.

**`UploadIntake`** is the way in: `session`, `entry`, `row`, `cache` are tables;
`place`, `file`, `partial`, `tree` the directory; `put`, `final`, `deletion`, `scan`,
`tab` the running requests, each with the descriptor or the values it holds.  A file is
the set of its written parts; a PUT writes `Size` of them one by one, at its own offset,
and opening truncates to part 0 alone, so that what another PUT goes on to write leaves a
hole below it (`mixed` remembers such files).  A descriptor survives a rename of its file
and of its directory (`Reopened`).  A page
sends what it shows (`SendForm`), the server inspects, compares (`SubmitScan`) and
seals (`SealSubmission`).  The pipeline's claim is one step, its refusal of a changed
tree two, as in `persistence/workflow.go`.
**`SealedDelivery`** is its abstract specification, for the operator and the workflow
behind: a release comes into the incoming directory whole and stays so unless its deletion
was asked for; it is decided about there; a decision is replaced only after it was refused
because the tree had changed; the workflow takes the release once, as the very tree of the
last decision.  `Where` maps the five places to three, `Whole` says that every file is
stored and recorded.

**`UnmanagedImport`** is the release that goes to the unmanaged library, with the
worker and the periodic recovery as two drivers of the same code.  The history variable
`mixed` says that both have been at work at once, `torn` that a crash has cut a copy of
the artwork, of which the beginning then stays in the layout.
**`Publication`** is its abstract specification, for readers of the library and for the
operator: the place is taken in one step by the whole release, if it is free and no
track was set aside; the publication is recorded after it and that record stays; the
candidate ends once and as the library shows.  Only after worker and recovery have been
at work together (`met`) may the record be lost, by the older copy of an intent, and
a candidate be dismissed whose release is there.

**`Migration`** is the way from there to the library Lidarr manages: several items
that name one release, and several workers; `copy` says what each directory (unmanaged,
approved, backup, managed) holds of each track, `intent` and `request` are the stored
manifest and plan, `queue` what Lidarr's commands have still to move.  A failed item
resumes in `resume`.  The lease of an item is a row that nobody renews:
`DeleteExpiredLease` is the periodic recovery, which may come while its worker is still
at work, and `AcquireMigrationLease` then starts another one.  A worker whose item was
updated by somebody else is `stale`; its next update of the row is refused, while the
files and Lidarr do not ask.  A submission is four steps, as each meets what others did
since the last: the look for an intent with the saved evidence (`SaveMigrationEvidence`),
the manifest of the approved directory (`Manifest`), Lidarr's answer (`Prepare`), the
insert of the intent (`PutImportIntent`, which takes an equal request of another worker for
its own), and then the command (`SubmitCommand`, `RepeatCommand`).  `overlapped` remembers
that two workers were between look and insert at the same time.  A worker's `files` are
what `originalEvidence` told it of each original, with which `Restore` compares what it
has put back; a backup is written in two steps, between which it is "cut", and the
tools that read a file's head take a cut one for whole or refuse it.

**`ReleaseMatch`** (`thresholdMS`, `EvaluateDuration`, `MatchRelease`),
**`ReleaseIdentity`** (the searches of the MusicBrainz client and `Decide`) and
**`SubmissionPlan`** (plan from tags, its validation, the tags written, the layout)
keep no state.  Each states next to the translation what the design asks, in other
terms: `MatchAsStatedFor` in exact arithmetic, `IdentityAsStatedFor` by extending the
answers, `PlanReadBackFor` by reading back what was written.

**`Catalog`** is `EnsureRelease` by concurrent callers, **`Reconcile`** the set-up tool
run by `setup.sh`; each request is one action, and the operator edits the same
resources in between.

## 4. Runs, bounds and what they show

| Run | Instance | Shows |
|---|---|---|
| `arb_safety` | two candidates, one per source, each opening, the late primary; either one trouble (crash, lost answer, operator's cancel, closed wish, transfer gone from the queue) or approvals at two instants around the deadline | only the locked winner is imported; an acknowledged effect has been done; the answers name the winner; the winner met the deadline; `WinnerAuthority` is implemented |
| `arb_liveness` | both complete, or the fallback alone; one crash, lost answer or failed call | an approval leads to a winner, a winner to import and hand-off |
| `late_primary` | fallback approved, then a primary grab | counterexample |
| `acquisition` | two workers, two providers, two searches, two releases; either two re-selections or one trouble (crash, failed call, stalled renewal, no longer wanted) | one worker at a time; only grabs for the job's release become candidates, unless its selection came back; the primary stops the engine first, unless one was cancelled before; candidates are stored whole |
| `acquisition_liveness` | one worker, one provider, one search; one re-selection and one crash or lost answer | searches and fallback runs end; a completed download is accepted for the release selected last, unless the pipeline has a candidate under an earlier revision or an unanswered offer named an event |
| `fallback_repeat` | one worker, two searches, no trouble | counterexample |
| `workflow` | manual or gateway; two changes of the files, two troubles, two decisions | files follow the state; Lidarr is asked once; `ReleaseCustody` is implemented, so that what is approved or imported is matched, tagged and as sealed; the candidate comes to rest |
| `intake` | one file of two writes and two PUTs, or an SFTP release on two pages; one trouble, one change | a finalized session is whole, but for a file that was truncated under its writer; `SealedDelivery` is implemented, so that the claimed tree is the decided one; an upload ends |
| `unmanaged` | two tracks, two drivers, two troubles, one retry | no track lost, intent and state tell the truth, the artwork is whole unless drivers met or a crash cut its copy; `Publication` is implemented, so that nothing in the library is overwritten; the import is resumed |
| `migration` | two items, two workers, one release of two tracks, leases that expire; two troubles, after the first of which one worker goes at a time | untouched until the catalogue agreed; MIGRATED is in the library; one command for the release, unless two workers overlapped between look and record; a release submitted whole has each track outside the backups |
| `cut_backup` | one item, one track, two troubles | counterexample |
| `rules` | every list of up to three approvals; matches, identities and plans on boundary inputs; set-up and catalogue with lost calls, lost answers and edits | see the properties' comments |

Bounds.

- `arb_*`: the gateway has at most one candidate in progress per source and every
  property relates at most two; the decision rule itself is run with three.  `Window` = 1
  and `LastApproval` = 1 give approvals before, at and after the deadline, in both
  recording orders; the constraint `Apart` leaves out only the product of two approval
  instants with troubles.  "abort" is left out of `arb_safety`, where a crash already ends a
  call at each step; it is in `arb_liveness`, where what happens next differs.
- `acquisition`: two searches, so that a grab of the first meets the watermarks of the
  second; two releases and two turns, for a selection that leaves a release and comes
  back; two workers, so that a stale one meets a fresh one; `MaxAttempts` = 1, so that
  an engine runs after one that was stopped.  The constraint `Apart` leaves out
  products: troubles with re-selections, the second turn with the second search, and the
  retry with either.  Lost answers are in `acquisition_liveness`, where what follows
  them differs, and recovery's refusal of an offer (`RecoveryFails`) with them.  Its
  exception in `SearchEnds` and `FallbackEnds` is needed from two searches on only; the
  run has one, and `MaxAttempts` = 0 still gives a first attempt and, by the restart of
  the cycle, a second call of the runner in the same directory.
- `workflow`: two troubles, so that what a crash left is itself interrupted; two changes,
  one before and one after the seal is renewed; two decisions.
- `intake`: two PUTs share a ".partial"; two writes, so that a truncation falls between
  them; one finalization is enough beside them because a
  second one finds either the row or the renamed directory (the proofs take any number).
  The operator's pages are run for SFTP releases only (`Reviewed`): after the rename both
  origins take the same code.
- `unmanaged`: two tracks, so that a crash falls between two moves; two troubles, so that a
  resumption is itself disturbed.
- `migration`: two items, so that one resumes under the other; two workers, so that one
  starts on an item under another whose lease ran out; two tracks, for a partial import;
  two troubles, so that a resumption is itself disturbed.  Items and workers differ in
  nothing (`SYMMETRY`).  The constraint `Apart` leaves out: a lease that runs out while the
  other item is under way too; what another worker does to a second file while one copies
  the first; and, after a trouble, interleavings of two workers, items that wait for the
  lease of a dead worker, and, after the second trouble, the second item.  Without the
  condition on workers after a trouble alone the run has more than 14 million states for
  one trouble.
- `rules`: `Basis` = 10 and `MaxInt` = 200 put rounding and overflow next to small
  numbers; the inputs lie on both sides of each limit.

Deadlock is not checked: each of these processes ends.  The proofs of section 5 have
none of these bounds.

Fairness.

- `Arbitration`: a call that has started goes on (nothing in the code waits for another
  call); the pipeline's worker scans every interval, so publication, settlement and import
  continue; the gateway's worker looks for due jobs every safety interval; time passes.
  Nothing makes a transfer complete or a validation end; only `late_primary` adds that
  (`ProgressSpec`).
- `AcquisitionJob`: a worker's call goes on and some worker takes a due job (`Work`,
  `Take`); the runner's loop ticks; a signalled or finished engine ends (`EngineEnds`:
  SIGKILL after the grace time); deadlines pass (`Clock`); a panic ends the process and
  recovery runs at the start (`Recover`, `Replay`); the completion monitor delivers
  (`DeliverPrimary`).  Lidarr owes nothing: a search ends by its deadlines.
- `CandidateWorkflow`: the worker dispatches and goes on, a review call goes on, recovery's
  ticker fires, and Lidarr executes an accepted command.  The operator owes nothing.
- `UploadIntake`: requests go on once they are sent; the browser sends a pending file
  again and the page again while they are refused (strong fairness on `PutStart` and
  `SendForm`, since other requests disable them in between: this is the upload page's
  retry, and an operator who goes on).
- `UnmanagedImport`: the worker takes up a ready candidate, a started driver goes on and
  comes back (the worker on its scan, recovery on its ticker), the process is started
  again.
- `Migration`, `Catalog` and `Reconcile` state no liveness: a migration waits for an
  operator after each failure, and the set-up tool gives up after its attempts.

Every property of a passing run has a mutant in `PROJECT.json`: a definition changed
the way a plausible mistake would change the code, under which TLC finds the property
violated.  The mutated forms stand in the modules before the definition they replace,
marked "Mutant".

## 5. Proofs

Every proof is of `Spec`, for every value of the constants that satisfies the named
assumptions of the module; the sets of callers, items, tracks and files and the
numbers of troubles are arbitrary.  Of the rules that keep no state it is of every
input.

**`ArbitrationProofs`** (candidates finite and without the reserved names, `Place`
injective, `Window` positive): `TypeCorrect`; `SafetyCorrect`, the inductive
invariant; from it `WinnerAloneImported`, `LosersAloneSuperseded`,
`AcknowledgementsTrue`, `HandOffSound`, `WinnerMetDeadline`, `AnswersSound`, the action
property `DecisionsFinal`, and `Refinement`: every behaviour is one of `WinnerAuthority`.
The properties are not inductive: what a call may write depends on what it read steps
ago.  `SafetyInv` is `DataSafe` (facts about the two databases: the locked winner is an
approval in time; effects exist only after a lock and are of the right kind; an applied
directive belongs to an effect; acknowledged effects are done) and, for every call,
`CallSafe` (what it has read is still good where its next step needs it).  That a step
of one call preserves `CallSafe` of another follows from how the databases evolve
(`Evolves`: a winner, an effect, an acknowledgement or an applied directive never goes
away, the revision grows when the deadline moves), shown for each action.

**`UnmanagedImportProofs`**: `TypeCorrect`; `SafetyCorrect`; from it `TracksCorrect`,
`ReleaseCorrect`, `IntentCorrect`, `StateCorrect`, and the action property
`LibraryCorrect`.  The invariant joins these parts: `FilesSafe` (each track in one place, a
layout exists only after all tracks are tagged), `CallSafe` (what a driver may rely on
at each place of its call, and that its copy of the intent is true of the files: this is
what makes the unguarded update of the whole intent harmless, because a copy that was
true stays true, however old), `IntentSafe` (the same of the stored intent), and `Calm`
(while the drivers have not met, the one that runs holds the stored intent, so a resumed
import recognises its own release).  `ReleaseCorrect` needs `CoverSafe` besides: while the
drivers have not met and no crash has cut the copy of the artwork, artwork that is in a
layout in part is being written, and the one in the library is whole.
`Refinement`: every behaviour is one of `Publication`.  The record stays because, as long as
the drivers have not met, a driver that is past the publication finds it recorded
(`Lasting`) and the writes of the intent that do not repeat it are passed before
(`RecordKept`); readers see all tracks or none because a release in its place is complete
and tagged (`ShownWhole`).

**`UploadIntakeProofs`**: `TypeCorrect`; `DecidedCorrect`, from `DecidedInv` (a scanned
page sends the tree it shows, what is sealed is what was decided, the release is in its
place while a page submits, and only the claim takes it); `WholeCorrect`, from
`WholeInv`.  The point of the latter is that a finalization verifies the files, then
renames the directory, while PUTs run: after the check every file has its size and is
COMPLETE, and no PUT can make such a file short, because a file that is there is only
compared and a rename puts a whole one there unless the session's record says
otherwise.  That a file of the right size is the file follows from `OffsetInv`: what
lies before the offset of a request is written, in a ".partial" as under a rename, so a
file has no hole as long as nobody truncated it while another wrote (`mixed`);
`RequestInv` bounds the requests' own fields. `DeliveryRefinement`: every behaviour is
one of `SealedDelivery`, from both invariants: a verified session that is renamed is
whole (`WholeInv`), a page that seals finds the release in the incoming directory, and a
claim compares the tree with what was decided (`DecidedInv`).  All other steps write
files only (`Writes`).

**`MigrationProofs`**: `TypeCorrect`, `UntouchedCorrect`, `MigratedCorrect`,
`OneCommandCorrect`, `CopyLeftCorrect`.  `Fits` ties each item's state to the place of its
worker and a failed item's `resume` to the places where it can have failed; of a worker
that others have overtaken (`stale`) it says only that its item has not gone back before
the mutation.  `CommandsFit` says that, unless workers overlapped between finding no
intent and storing one, at most one of them is there, at most one has still to send the
only command, and none goes on with an intent it found; nothing removes an intent.
`CopyLeft` holds only while what is submitted is the whole release (`WholeSubmitted` in
section 6).  With `DirsFit` (nothing is in a directory that does not exist) it is
inductive: an intent is never replaced, the directory of the release is moved without
replacing one, and the approved directory is removed only when the library has each
file of the intent.

**`CandidateWorkflowProofs`**: `TypeCorrect`, `ApprovedCorrect` (`ApprovedPrepared`),
`ImportCorrect` (`ImportAgrees`) and `FilesCorrect` (`FilesFollowState`).  `CallFits`
lists, for each place of the worker's call, the states in which it may find the
candidate there (an operator's cancel and a directive are all that can come between);
`ClaimedOnce` says that a release that left its source is never written to again;
`Prepared` that tags can be cut off only before the approval; `AskedOnce` that the
intent goes before the command and the command before the library. `OneRelease` and
`Kept` carry `FilesCorrect`: the release is in one directory only, nothing but a
reviewed or moved candidate's release is ever in quarantine, and an operator's call that
is on its way back from there finds it in work. `CustodyRefinement`: every behaviour is
one of `ReleaseCustody`, from all of these and `Placed` (while the worker asks for the
import, the release is in the approved tree: Lidarr alone takes it from there, and only
after the command).  `StageMoves` reads the table of transitions off as moves between
stages; the steps that rename or write (`FileSteps`), that import (`ImportSteps`) and
that change the row alone (`RowSteps`) are mapped one by one.

**`AcquisitionJobProofs`** (the monitor is no worker, the fallback's name no number):
`OneWorkerCorrect` and `StoredWholeCorrect`.  `Owned` says that a worker that does
something holds the lease and that after a crash nobody does, so that an expired lease is
removed only when its owner is gone; `Answered` that the engine runs only under a polling
runner, the runner only under the worker that called it, and that a result "candidate"
exists only in the end, with whole files, which no engine can then touch.

**`AcquisitionPrimaryProofs`**: `PrimaryCorrelatedCorrect`,
`PrimaryStopsFallbackCorrect` and `TypeCorrect`.  `Context` says of a grab under the
present search that it is of the job's release, or that the album's selection has
strayed from that release and come back, or that it is elsewhere now, so that the
comparison in `Match` refuses the grab; `Known` says that who holds the current revision
and searches or reconciles has a search context (without one, grabs of a forgotten
search would match); `Correlated` that what such a caller, and the monitor, goes on with
is of the job's release or `strayed`; `Stopping` that the monitor reaches the
registration over a running fallback with an acknowledged cancellation only, any update
of the job in between taking its revision away.  That the workers cannot do so follows
from `OneWorkerCorrect`'s invariant: the one worker is with the engine.  `Counted`
bounds attempts and searches.

**`RulesProofs`** holds what can be proved of the parts of `MCRules`, each by itself.
*Decision* (approvals of any number; `Window` positive): `Better` is total on different
approvals and transitive (`BetterTotal`, `BetterTransitive`), so the best of a set exists
and is unique, which also justifies `Place`; a set with such an order has exactly one
sequence (`InOrderPlaces`, by counting what comes before each element: an injection into
as many places as there are elements is onto); hence `WinnerIsPreferred` and
`LateApprovalsLeaveDecisions`.
*Catalogue* (any callers, releases and profiles): `CatalogIsAsAsked`, from `CatalogInv`:
a caller that has come past the artist sees it there, holds a profile that exists, and
a monitored album is one somebody asked for or the operator wished.
*Setup*: `SetupDoesConfigure` and `PreferencesAreKept`, from `ReconcileInv`: `Passed` says
that what the tool has been through is as wanted but for what was edited, `Holds` that
an answer it holds is what the service has but for the edits since, `Untouched` that a
run that began with everything right has nothing to write.

*Plans, comparison and search* (no state; for every input that has the form the code
can see: `PlanForm`, `FilesForm`, `MatchForm`, `IdentityForm`, of which TLC checks in
`InputsForm` that the inputs of the run have it).  `PlansAreLaidOut`: the paths and names
of a valid plan differ because the numbers of its tracks do, lyrics and pictures by the
track or the directory they belong to, and `preflightUnmanaged` refuses the rest.
`PlansAreReadBack`: a tag is single again after `TagsOf`, and the last disc and number
are found among the files by taking the largest.  `MatchIsAsStated`: `RoundsUp` says of
`thresholdMS` that it is the least whole above the exact share, `ThresholdFits` when it
is computed without overflow; `Tallied` is the invariant of `MatchRelease`'s loop (what
it has added up is the sum over the places it has seen, its status the strictest so
far), proved over the number of tracks; that places which are as many and none twice
are all places is counted with the library's facts on injections.  Induction is on the
set of the numbers that are reached, which has a least missing one (`LeastNumber`,
`StepByStep`); `StepsDefine` shows that a function given by its start and steps exists.
For these proofs `Loop` and `Sums` are recursive functions.  `IdentityIsAsStated`: what
longer answers name contains what shorter ones named, through the recordings that are
looked up in turn.  `MatchesAreAsStated`, `IdentitiesAreAsStated`, `TargetsAreDistinct`
and `PlansReadBack` carry this over to the run's properties.  Lengths that
MusicBrainz gives are taken to be no negative numbers; those of files are measured.

Every invariant, every action property and every refinement of the passing runs is
stated by a theorem.  `ApprovedPrepared`, `NothingOverwritten` and `DecidedTree` are
theorems and no separate properties of a run, because `ImplementsCustody`,
`ImplementsPublication` and `ImplementsDelivery` imply them.  A leaf that names a prover
and a time (`ZenonT(60)`) is one to which the default times leave little room on a slow
machine. Only model-checked is liveness, which is out of the prover's reach:
`ApprovalDecided`, `WinnerImported`, `SearchEnds`, `FallbackEnds`, `CompletedDelivered`,
`CandidateSettles`, `ImportResumed` and `UploadEnds`.

## 6. Disagreements between the code and its documents

### What runs show

Each of these runs ends in a violation.  Of the acquisition orchestration design
(`docs/superpowers/specs/2026-08-24-acquisition-orchestration-design.md`):

- `late_primary` (line 178, "If the window expires first, the already approved candidate
  wins."): a late primary takes an ARBITRATING job with an approval to DUAL_CANDIDATE; the
  worker evaluates only ARBITRATING and WINNER_LOCKED, so if the primary is rejected
  nobody ever decides.
- `fallback_repeat` (line 80, "the gateway repeats the complete primary then fallback cycle
  every 24h"): the attempts of the first cycle stay in their table and the second cycle
  counts from the same number, so its fallback never starts.

Of the plan of the unmanaged ingestion
(`docs/superpowers/plans/2026-08-24-unmanaged-flac-ingestion-implementation.md`):

- `cut_backup` (line 1010, "failure before Manual Import returns the exact manifest to
  unmanaged root"): a crash cuts the copy of a file to its backup; the next run takes the
  backup as it is, because it exists and its head can be read, and takes its checksum for
  the original's.  A failure then overwrites the untouched file with the beginning of it,
  finds the checksum right, removes the backup and returns the directory.

### What properties excuse

The models contain the following behaviour too, and the documents speak against it.  A
property that would fail of it names the case as its excuse, so that it says something
about all the others; no run repeats these cases, and TLC finds each when the excuse is
taken out of the property.

*Acquisition* (line numbers of the orchestration design, unless said otherwise):

- **A grab of another release is registered** (`strayed` in `PrimaryCorrelated`).  `Match`
  compares a grab with the release the album has selected now
  (`reconcile_primary.go:243-246`).  When the selection goes from R1 to R2 and back while
  one search lasts, a grab made for R2 in between passes as one of R1.  The plan
  `docs/superpowers/plans/2026-08-25-acquisition-recovery-and-fallback-runtime.md` says
  (line 18): "Only evidence matched to the original album ID, release-group MBID, selected
  release MBID, and persisted watermarks may create a primary candidate."
- **A release that is revised is not delivered again** (`held` in
  `CompletedDelivered`).  The selection "may change while the job exists" (line 26).
  The candidate the pipeline has accepted before is offered again under a new key, and
  its plain INSERT (`pipeline/persistence/handoff.go:75`) meets its own `candidate_id`,
  on every pass; the pass stops there for all jobs (`primary_completion.go:62-64`), and
  the recovery of the next start fails on it (`RecoveryFails` in `SearchEnds` and
  `FallbackEnds`).
- **An offer made by an event is not repeated** (`how = "event"` in `CompletedDelivered`).
  A completion by slskd's durable event stores a request with another observed status than
  the pass that repeats it, and `PutEffect` refuses the different request
  (`effects.go:18-44`) until a restart sends the stored one.
- **An engine runs on under the primary** (`cancel = "acked"` in
  `PrimaryStopsFallback`).  The key of a cancellation, `spotiflac-cancel-<job>`, is the
  same for each engine of a job: once one is acknowledged, a later engine is not
  signalled and the primary takes over while it runs.  Line 92: "the gateway cancels
  fallback and continues the primary path."
- **A lease outlives its gateway** (`lease = "orphan"` in `SearchEnds` and
  `FallbackEnds`; the exception in `ApprovalDecided` and `WinnerImported`).  One that
  had not expired at the restart is never removed later, and the job waits for another
  restart.  Line 214: "Restart resumes from persisted intent, lease, watermark,
  deadlines, and configuration snapshot."

*The controlled pipeline.*  The operations design
(`docs/superpowers/specs/2026-08-24-operations-and-clients-design.md`, line 167) promises
that "restart from every durable state neither loses work nor duplicates import".  A
call cut off between a rename and its change of state leaves a candidate that no step can
take further (`torn` in `CandidateSettles`); so does a seal that `SetWaitingResubmit` takes
back (`SealLost`), and an intent whose command Lidarr never carried out (`ImportLost`).

*Ingestion* (line numbers of the design
`docs/superpowers/specs/2026-08-24-unmanaged-flac-ingestion-design.md`, unless said
otherwise):

- **An upload with a hole is complete** (`mixed` in `UploadWhole`).  The second PUT of
  an entry truncates the ".partial" (`filesystem/upload.go:82`) between two writes of the first
  (87), which goes on at its own offset.  The file has its size and a hole;
  `verifyUploadTree` (231-249), which compares sizes, lets the session through.  Lines
  151 and 152: "the server verifies the byte count"; "Retrying the same session and file
  entry replaces only its incomplete temporary file."
- **A session that can only be deleted** (`Wedged` in `UploadEnds`): a cut upload under
  another request's rename, a ".partial" next to its file, a tree that was decided on or
  changed after the rename and before the session's row was written.  Lines 159 ("lets
  the administrator resume or delete them"), 318 and 365 ("A browser folder upload
  survives a dropped file request and resumes.") promise more.
- **Cut artwork is published** (`torn` in `PublishedComplete`).  A crash in `copyNoReplace`
  (`unmanaged.go:352-373`) leaves the beginning of `cover.jpg`; the resumed import takes it
  because it exists (324-327), hashes it as it is and ends in UNMANAGED_IMPORTED.  Line 253
  "requires all expected files and checksums at the destination"; line 744 of the plan
  wants "matching checksums" after each failure.
- **Worker and recovery import at once** (`mixed` in `PublishedComplete` and
  `ImportResumed`): the one that comes second may send a published release to review, or
  remove the artwork the other has found.  A crash before the intent is stored leaves a
  candidate that recovery cannot resume, and a retry after a quarantine finds no files
  and stays UNMANAGED_IMPORTING (`ImportResumed` starts at the intent, and excepts the
  quarantine). The plan (line 744) wants "eventual `UNMANAGED_IMPORTED`".

*Migration* (lines of the same design, "plan" for the plan of the ingestion):

- **Two commands for one release** (`overlapped` in `OneCommand`).  An item's lease lasts 15
  minutes and is not renewed (`migration_runtime.go:78`, `config/defaults.go:51`); the
  periodic recovery deletes it under the worker (`application/recovery.go:66-78`), and the
  next notification starts a second one.  Both find no intent, both store the same one,
  which `PutImportIntent` takes for a repetition, and both send it.  Two items that name
  one release (`PutMigrationBatch` only refuses a release that is not IMPORTED) do the same
  without any lease running out.  Plan, line 1016: "every intent must produce at most one";
  lines 355 and 389 say so too.
- **Tagged files go back** (`ReturnedWhole` asks only that no file is cut).  After a
  crash that follows the tags, a resumed item that fails before `Apply` has read the
  first backup (the directory cannot be made, the plan of the tags fails) rolls back
  without restoring.  Plan, line 1010: "returns the exact manifest".
- **Part of a release is submitted** (`WholeSubmitted`, the condition of `CopyLeft`), with
  three items, the default concurrency, and two tracks: one item's rollback moves the
  directory away between the tagging and the submission of another, a third one's
  restoration makes it again with the first file alone, and the manifest of that part is
  what is submitted.  When Lidarr has imported it, the verification is complete and
  `ImportService.Reconcile` removes the approved directory with whatever the manifest does
  not name.  Plan, line 1044: "Move the whole release with no-replace into an item-specific
  approved path."
- **An unmanaged copy comes back** (`NoSecondCopy`, which no run checks).  With one item: a
  crash between the command and the record of the state IMPORT_SUBMITTED makes the resumed
  item start again from the tags, and a failure there restores the release that Lidarr has
  imported.  With two: the failure of the second restores what the first has migrated.
  Line 292: "Denyra does not create another unmanaged copy".
- **Artwork is not verified** (`MigratedInLibrary` is about tracks).  `LibraryVerifier`
  compares the checksums of FLAC files and the number of lyrics.  Line 282: "Verify the
  final Lidarr track files, checksums, lyrics, and artwork."

### What nothing promises otherwise

- A process that ends with exit code 0 while it is being stopped makes the gateway panic
  (`Panic`); it is restarted.
- A setting that the operator edits between the set-up tool's read and its write is
  overwritten (`raced` in `PreferencesKept`).

## 7. Not modelled, and why

- **Several jobs or candidates at once**: the order of the work queues, admission by free
  space, and that `LatePrimaryMonitor` stops at the first job that fails.  Every module is
  about one job, candidate or release; what they share (Lidarr's catalogue) is `Catalog`.
- **CANDIDATE_PENDING** is folded into the registration of the primary: its delivery has the
  control of `CANDIDATE_COMPLETED`.
- **The first start's backfill** of albums: one transaction per album without control of its
  own.
- **Writes after the last scan of a claim** through a descriptor that is still open: neither
  the code nor the model sees them.
- **The steps inside the mutation of one track** (`mutate.go:126-184`: copy, tag, check,
  rename, about nine calls on one path): one step, `MutateTrack`; worker and recovery
  interleave between tracks and not within one.
- **The artwork of a migrated release**: `MigratedInLibrary` and `CopyLeft` are about FLAC
  tracks; `cover.jpg` is removed with the approved directory (`import_reconcile.go:39`).
- **The contents of the files a migration's request names**: its hash covers paths and
  identifiers, and so the model compares which files two requests name.
- **The order of a pass over completed downloads** (by `completed_at`): any order.
- **Which release an operator approved**, read from the latest audit event: one target
  release per candidate.
- **Lidarr's own fields of an album** that a PUT of `MonitorAlbum` leaves out.
- **Artwork, lyrics, media tools**: choice and conversion of data, wrappers of external
  programs.  That a tool fails or is cut off is in the models.
- **Administration pages, sessions, templates** (`*_templ.go` is generated), **slskd's event
  log, maintenance, health and read models, configuration, SQLite and HTTP plumbing,
  containers, the acceptance fixture**: no control that the properties could be about.

`PROJECT.json` gives the status of each component.
