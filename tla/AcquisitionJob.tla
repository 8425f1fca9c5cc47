--------------------------- MODULE AcquisitionJob ---------------------------
(* One acquisition job of the gateway, from its discovery in Lidarr's Wanted  *)
(* list until its candidates are with the pipeline: the primary search in     *)
(* Lidarr, the correlation of Lidarr's grabs with that search, the fallback   *)
(* engine with its retries, and the hand-off of completed candidates.         *)
(*                                                                           *)
(* The acquisition workers (application/worker.go), the loop that discovers   *)
(* wanted albums and late grabs (runtime.go, discovery.go, candidates.go),    *)
(* the completion monitor (primary_completion.go), startup recovery and       *)
(* Lidarr interleave.  Every update of the job is a transaction that compares *)
(* the job's revision with the one its caller read: "fresh" holds the callers *)
(* whose revision is still the job's.  What follows the first approval is the *)
(* module Arbitration; here it is one step.                                   *)
EXTENDS FallbackRunner, FiniteSets, GatewayStates

CONSTANTS
  Workers,       \* goroutines that may process the job at the same time
  Monitor,       \* the discovery and late-primary loop
  Fallback,      \* the candidate of the fallback engine
  MaxSearches,   \* bound: searches started for the job
  MaxAttempts,   \* bound: retries of the fallback in a cycle; a restart adds one
  MaxReleases,   \* bound: releases of the album in Lidarr
  MaxTurns,      \* bound: how often another of them is selected
  Troubles,      \* which of these may happen: "crash", "abort", "stall",
                 \* "unwanted", "lost"
  MaxTroubles    \* bound: how many of them in one behaviour

ASSUME BoundsAssumption ==
  /\ MaxSearches \in Nat \ {0} /\ MaxAttempts \in Nat
  /\ MaxReleases \in Nat \ {0} /\ MaxTurns \in Nat /\ MaxTroubles \in Nat
ASSUME NamesAssumption ==
  /\ Monitor \notin Workers
  /\ Fallback \notin Nat
  /\ {"free", "orphan"} \cap Workers = {}

VARIABLES
  \* gateway database
  job,        \* acquisition_jobs.state
  due,        \* next_retry_at is NULL or has passed
  search,     \* search context: number of the search, 0 if the columns are NULL
  overall,    \* overall_deadline: "none", "ahead" or "past"
  past,       \* which of the deadlines "command" and "grace" have passed
  release,    \* the job's selected release
  revision,   \* selected_release_revision: how often it was changed, from 1
  attempt,    \* fallback_attempt
  attempts,   \* numbers in the table of fallback attempts
  pending,    \* grabs registered as pending candidates
  stored,     \* completed candidates
  offers,     \* effects PIPELINE_ACCEPT without an acknowledgement
  delivered,  \* <<candidate, release>> of the acknowledged ones
  cancel,     \* effect spotiflac-cancel-<job>: "none", "put" or "acked"
  lease, expired,
  \* gateway processes
  phase,      \* "recovering" or "running"
  pc,         \* where each worker and the monitor are
  seen,       \* grabs a caller found to be correlated
  fresh,      \* callers that hold the current revision of the job
  \* Lidarr
  status,     \* of the last AlbumSearch command: "none", "running", "completed", "failed"
  grab,       \* search -> the grab it led to, NoGrab if none
  selected,   \* the release selected in Lidarr
  \* the pipeline
  held,       \* the revision under which it accepted a candidate, 0 if it did not
  \* history and bounds
  strayed,    \* Lidarr's selection left the job's release and came back to it
  turns, troubles, searches

jobVars == <<job, due, search, past, overall, release, attempt>>
deliveryVars == <<offers, delivered, held>>
tableVars == <<attempts, pending, stored, deliveryVars, cancel>>
processVars == <<phase, pc, seen, fresh, lease, expired>>
selectionVars == <<selected, revision, strayed, turns>>
lidarrVars == <<status, grab, selectionVars>>
vars == <<runnerVars, jobVars, tableVars, processVars, lidarrVars, troubles, searches>>

Searches == 1..MaxSearches
Candidates == Searches \cup {Fallback}
Revisions == 1..(MaxTurns + 1)
Callers == Workers \cup {Monitor}
NoGrab == [search |-> 0, release |-> 0, when |-> "never"]
Grabs == {n \in Searches : grab[n] # NoGrab}

Init ==
  /\ RunnerInit
  /\ job = "DISCOVERED" /\ due = TRUE
  /\ search = 0 /\ past = {} /\ overall = "none"
  /\ release = 1 /\ attempt = 0 /\ attempts = {}
  /\ pending = {} /\ stored = {} /\ cancel = "none"
  /\ offers = {} /\ delivered = {} /\ held = [c \in Candidates |-> 0]
  /\ lease = "free" /\ expired = FALSE
  /\ phase = "running"
  /\ pc = [c \in Callers |-> "idle"]
  /\ seen = [c \in Callers |-> {}]
  /\ fresh = {}
  /\ status = "none"
  /\ grab = [n \in Searches |-> NoGrab]
  /\ selected = 1 /\ revision = 1 /\ strayed = FALSE
  /\ turns = 0 /\ troubles = 0 /\ searches = 0

-----------------------------------------------------------------------------
(* Updates of the job                                                        *)

\* UpdateState: the state table and the revision decide; next_retry_at is the
\* given one, or NULL.
Transition(c, to) ==
  /\ c \in fresh
  /\ CanTransition(job, to)
  /\ job' = to
UpdateState(c, to, ready) ==
  /\ Transition(c, to)
  /\ due' = ready
  /\ UNCHANGED <<search, past, release>>

\* RestartAcquisitionCycle
ClearContext ==
  /\ search' = 0 /\ past' = {} /\ overall' = "none"
RestartCycle(c) ==
  /\ Transition(c, "PRIMARY_RETRYABLE_ERROR")
  /\ due' = FALSE
  /\ attempt' = 0
  /\ ClearContext
  /\ UNCHANGED release

\* The caller goes on, or is done with the job, with or without an error; the
\* second of each pair follows an update of the job.
Goto(c, step) == pc' = [pc EXCEPT ![c] = step] /\ UNCHANGED <<seen, phase, lease, expired>>
At(c, step) == Goto(c, step) /\ UNCHANGED fresh
AtMoved(c, step) == Goto(c, step) /\ fresh' = {c}
Release(c) ==
  /\ pc' = [pc EXCEPT ![c] = "idle"]
  /\ seen' = [seen EXCEPT ![c] = {}]
  /\ lease' = IF lease = c THEN "free" ELSE lease
  /\ expired' = IF lease = c THEN FALSE ELSE expired
  /\ UNCHANGED phase
Leave(c) == Release(c) /\ fresh' = fresh \ {c}
LeaveMoved(c) == Release(c) /\ fresh' = {}

-----------------------------------------------------------------------------
(* The worker takes the job                                                  *)

StepOf(state) ==
  CASE state \in {"DISCOVERED", "PRIMARY_RETRYABLE_ERROR", "NO_CANDIDATE"} -> "request"
    [] state = "PRIMARY_SEARCH_REQUESTED" -> "uncertain"
    [] state = "PRIMARY_SEARCH_RUNNING" -> "poll"
    [] state = "PRIMARY_RECONCILING" -> "reconcile"
    [] state = "FALLBACK_RUNNING" -> "fallback"
    [] state = "FALLBACK_RETRYABLE_ERROR" -> "retry"
    [] OTHER -> "none"

\* AcquireLease: a lease that is held, or left behind, refuses; an expired one
\* does so too until recovery has removed it.
\* Mutant: a worker takes over an expired lease.
StealExpired(w) == lease = "free" \/ expired
LeaseFree(w) == lease = "free"

\* ProcessOne.  The loop of processLeased over the inline transitions is
\* taking the job again.
Take(w) ==
  /\ phase = "running" /\ pc[w] = "idle"
  /\ due /\ StepOf(job) # "none"
  /\ StepOf(job) = "request" => searches < MaxSearches
  /\ LeaseFree(w)
  /\ lease' = w /\ expired' = FALSE
  /\ pc' = [pc EXCEPT ![w] = StepOf(job)]
  /\ fresh' = fresh \cup {w}
  /\ UNCHANGED <<runnerVars, jobVars, tableVars, phase, seen, lidarrVars, troubles, searches>>

\* A transaction finds another revision, or a state it may not leave that way:
\* the caller returns the error.
Writing == {"request", "watermarks", "started", "accepted", "completed", "adopt",
            "error", "grace", "graced",
            "fallback", "retry"}
StaleWrite(w) ==
  /\ pc[w] \in Writing /\ w \notin fresh
  /\ Leave(w)
  /\ UNCHANGED <<runnerVars, jobVars, tableVars, lidarrVars, troubles, searches>>

-----------------------------------------------------------------------------
(* Primary search (primary_search.go)                                        *)

Request(w) ==
  /\ pc[w] = "request"
  /\ UpdateState(w, "PRIMARY_SEARCH_REQUESTED", TRUE)
  /\ AtMoved(w, "watermarks")
  /\ UNCHANGED <<runnerVars, overall, attempt, tableVars, lidarrVars, troubles, searches>>

\* The watermarks of queue and history are read and stored with the deadlines;
\* every grab seen so far is behind them.
SetInitialSearchContext(w) ==
  /\ w \in fresh
  /\ search' = searches + 1 /\ searches' = searches + 1
  /\ past' = {}
Watermarks(w) ==
  /\ pc[w] = "watermarks"
  /\ \/ /\ SetInitialSearchContext(w)
        /\ At(w, "search")
     \/ /\ At(w, "error")
        /\ UNCHANGED <<search, searches, past>>
  /\ UNCHANGED <<runnerVars, job, due, overall, release, attempt, tableVars, lidarrVars, troubles>>

\* AlbumSearch.  The command may have started although the call failed.
StartSearch(w) ==
  /\ pc[w] = "search"
  /\ \/ status' = "running" /\ At(w, "started")
     \/ status' \in {status, "running"} /\ At(w, "error")
  /\ UNCHANGED <<runnerVars, jobVars, tableVars, grab, selectionVars, troubles, searches>>

SetSearchCommandID(w) ==
  /\ pc[w] = "started" /\ w \in fresh
  /\ At(w, "accepted")
  /\ UNCHANGED <<runnerVars, jobVars, tableVars, lidarrVars, troubles, searches>>

SearchAccepted(w) ==
  /\ pc[w] = "accepted"
  /\ UpdateState(w, "PRIMARY_SEARCH_RUNNING", TRUE)
  /\ LeaveMoved(w)
  /\ UNCHANGED <<runnerVars, overall, attempt, tableVars, lidarrVars, troubles, searches>>

\* pollCommand, until the command ends, fails or its deadline passes.
PollCommand(w) ==
  /\ pc[w] = "poll"
  /\ \/ "command" \notin past /\ status = "completed" /\ At(w, "completed")
     \/ At(w, "error")
  /\ UNCHANGED <<runnerVars, jobVars, tableVars, lidarrVars, troubles, searches>>

SetGraceDeadline(w) ==
  /\ w \in fresh
  /\ past' = past \ {"grace"}
SearchCompleted(w) ==
  /\ pc[w] = "completed"
  /\ SetGraceDeadline(w)
  /\ At(w, "graced")
  /\ UNCHANGED <<runnerVars, job, due, search, overall, release, attempt, tableVars, lidarrVars,
                 troubles, searches>>
BeginReconciling(w) ==
  /\ pc[w] = "graced"
  /\ UpdateState(w, "PRIMARY_RECONCILING", TRUE)
  /\ LeaveMoved(w)
  /\ UNCHANGED <<runnerVars, overall, attempt, tableVars, lidarrVars, troubles, searches>>

\* primaryError of the search and retryableError of the reconciliation
RetryableError(w) == UpdateState(w, "PRIMARY_RETRYABLE_ERROR", FALSE)
PrimaryError(w) ==
  /\ pc[w] = "error"
  /\ RetryableError(w)
  /\ LeaveMoved(w)
  /\ UNCHANGED <<runnerVars, overall, attempt, tableVars, lidarrVars, troubles, searches>>

-----------------------------------------------------------------------------
(* Correlation of grabs (reconcile_primary.go, domain/correlation.go)         *)

\* Match: the record is beyond the watermark, Lidarr's album still has the
\* release of the job selected, and the grab lies in the window, which for a
\* late grab reaches to the overall deadline.
\* Mutant: the watermark of an earlier search is used.
MatchAnyWatermark(n, afterGrace) ==
  /\ n \in Grabs
  /\ selected = release
  /\ grab[n].when = "early" \/ (afterGrace /\ overall # "none" /\ grab[n].when = "late")
Match(n, afterGrace) ==
  /\ n \in Grabs
  /\ grab[n].search = search
  /\ selected = release
  /\ grab[n].when = "early" \/ (afterGrace /\ overall # "none" /\ grab[n].when = "late")
Evidence(afterGrace) == {n \in Searches : Match(n, afterGrace)}

\* The queue and the history are read before the deadline is looked at.
ReadEvidence(w) ==
  /\ pc[w] = "reconcile"
  /\ \/ /\ seen' = [seen EXCEPT ![w] = Evidence(FALSE)]
        /\ pc' = [pc EXCEPT ![w] = IF Evidence(FALSE) # {} THEN "adopt" ELSE "grace"]
        /\ UNCHANGED <<phase, fresh, lease, expired>>
     \/ At(w, "error")
  /\ UNCHANGED <<runnerVars, jobVars, tableVars, lidarrVars, troubles, searches>>

\* Before the grace deadline the job is read again after a pause.
GraceCheck(w) ==
  /\ pc[w] = "grace" /\ w \in fresh
  /\ IF "grace" \in past
       THEN /\ UpdateState(w, "FALLBACK_RUNNING", TRUE)
            /\ LeaveMoved(w)
       ELSE /\ At(w, "reconcile")
            /\ UNCHANGED <<job, due, search, past, release>>
  /\ UNCHANGED <<runnerVars, overall, attempt, tableVars, lidarrVars, troubles, searches>>

\* ReconcileUncertain: whether the search was started is not known; nothing is
\* done until every grab of it would have been seen.
\* Mutant: without a stored context the worker waits as before the deadline.
UncertainWaits(w) ==
  /\ pc[w] = "uncertain"
  /\ IF search = 0 \/ "grace" \notin past THEN Leave(w)
     ELSE /\ seen' = [seen EXCEPT ![w] = Evidence(FALSE)]
          /\ pc' = [pc EXCEPT ![w] = IF Evidence(FALSE) # {} THEN "adopt" ELSE "error"]
          /\ UNCHANGED <<phase, fresh, lease, expired>>
  /\ UNCHANGED <<runnerVars, jobVars, tableVars, lidarrVars, troubles, searches>>
ReconcileUncertain(w) ==
  /\ pc[w] = "uncertain"
  /\ IF search = 0 THEN At(w, "error")
     ELSE IF "grace" \notin past THEN Leave(w)
     ELSE /\ seen' = [seen EXCEPT ![w] = Evidence(FALSE)]
          /\ pc' = [pc EXCEPT ![w] = IF Evidence(FALSE) # {} THEN "adopt" ELSE "error"]
          /\ UNCHANGED <<phase, fresh, lease, expired>>
  /\ UNCHANGED <<runnerVars, jobVars, tableVars, lidarrVars, troubles, searches>>

\* RegisterPrimaryCandidate: state, evidence and pending candidate in one
\* transaction.  A grab is a pending candidate of the job only once.
Oldest(S) == CHOOSE n \in S : \A k \in S : n <= k
AlreadyPending(n) == n \in pending
RegisterPrimary(c, to) ==
  /\ ~AlreadyPending(Oldest(seen[c]))
  /\ UpdateState(c, to, TRUE)
  /\ pending' = pending \cup {Oldest(seen[c])}
Adopt(w) ==
  /\ pc[w] = "adopt"
  /\ RegisterPrimary(w, "PRIMARY_ACTIVE")
  /\ LeaveMoved(w)
  /\ UNCHANGED <<runnerVars, overall, attempt, attempts, stored, deliveryVars, cancel,
                 lidarrVars, troubles, searches>>

-----------------------------------------------------------------------------
(* Fallback (fallback.go)                                                    *)

\* The overall deadline is set once, by the first run of the cycle.
SetOverallDeadline == overall' = IF overall = "none" THEN "ahead" ELSE overall
StartFallback(w) ==
  /\ pc[w] = "fallback" /\ w \in fresh
  /\ IF overall = "past"
       THEN /\ RestartCycle(w)
            /\ LeaveMoved(w)
       ELSE /\ SetOverallDeadline
            /\ At(w, "attempt")
            /\ UNCHANGED <<job, due, search, past, release, attempt>>
  /\ UNCHANGED <<runnerVars, tableVars, lidarrVars, troubles, searches>>

\* InsertAttempt: the number must be new, the start time of another run never
\* is the stored one.
AttemptConflict == attempt \in attempts
RunAttempt(w) ==
  /\ pc[w] = "attempt"
  /\ IF AttemptConflict
       THEN Leave(w) /\ UNCHANGED <<attempts, run>>
       ELSE /\ attempts' = attempts \cup {attempt}
            /\ Begin
            /\ At(w, "engine")
  /\ UNCHANGED <<child, superseded, output, late, jobVars, pending, stored, deliveryVars, cancel,
                 lidarrVars, troubles, searches>>

\* ClassifyFallback
ClassifyFallback(results) ==
  IF \E i \in DOMAIN results : results[i] = "CANDIDATE" THEN "ARBITRATING"
  ELSE IF \A i \in DOMAIN results : results[i] = "LEGITIMATE_NO_RESULT" THEN "NO_CANDIDATE"
  ELSE "FALLBACK_RETRYABLE_ERROR"
Classified == ClassifyFallback(run.results)

\* The runner returned.  A completed candidate is stored before the job is
\* updated; another one of the job under the same identifier is a conflict.
InsertCandidate(c) == c \notin stored /\ stored' = stored \cup {c}
RunnerReturned(w) ==
  /\ pc[w] = "engine" /\ run.at = "done"
  /\ IF Classified = "ARBITRATING" /\ Fallback \in stored
       THEN Leave(w) /\ run' = Idle /\ UNCHANGED stored
       ELSE /\ IF Classified = "ARBITRATING" THEN InsertCandidate(Fallback) ELSE UNCHANGED stored
            /\ At(w, "classified")
            /\ UNCHANGED run
  /\ UNCHANGED <<child, superseded, output, late, jobVars, attempts, pending, deliveryVars,
                 cancel, lidarrVars, troubles, searches>>

\* After an error a retry that would lie past the overall deadline restarts the
\* cycle instead; at the bound on attempts it always does.
RetryFits == overall # "past" /\ attempt < MaxAttempts
FallbackRetry(w) ==
  \/ /\ RetryFits
     /\ UpdateState(w, "FALLBACK_RETRYABLE_ERROR", FALSE)
     /\ attempt' = attempt + 1
     /\ UNCHANGED overall
  \/ RestartCycle(w)
FallbackEnded(w) ==
  /\ pc[w] = "classified"
  /\ run' = Idle
  /\ CASE Classified = "ARBITRATING" ->
            /\ UpdateState(w, "ARBITRATING", TRUE)
            /\ AtMoved(w, "handoff")
            /\ UNCHANGED <<attempt, overall>>
       [] Classified = "NO_CANDIDATE" ->
            UpdateState(w, "NO_CANDIDATE", FALSE) /\ LeaveMoved(w) /\ UNCHANGED <<attempt, overall>>
       [] OTHER -> FallbackRetry(w) /\ LeaveMoved(w)
  /\ UNCHANGED <<child, superseded, output, late, tableVars, lidarrVars, troubles, searches>>
\* The job was changed meanwhile: the outcome of the run is dropped.
FallbackStale(w) ==
  /\ pc[w] = "classified" /\ w \notin fresh
  /\ run' = Idle
  /\ Leave(w)
  /\ UNCHANGED <<child, superseded, output, late, jobVars, tableVars, lidarrVars,
                 troubles, searches>>

\* AcceptCompleted: the request is stored as an effect under a key of the
\* candidate and of the job's release revision, where another request under
\* the same key is a conflict, and sent to the pipeline.
Offer(c, how) == [of |-> c, revision |-> revision, release |-> release, how |-> how]
Storable(o) == \A x \in offers : x.of = o.of /\ x.revision = o.revision => x = o
\* AcceptCandidate of the pipeline: what is repeated under its key is answered
\* again, and a candidate it has under another key is an error.
Takes(o) == held[o.of] \in {0, o.revision}
\* The answer comes, and an acceptance is acknowledged in the effect.
Deliver(o) ==
  IF Takes(o)
    THEN /\ held' = [held EXCEPT ![o.of] = o.revision]
         /\ offers' = offers \ {o}
         /\ delivered' = delivered \cup {<<o.of, o.release>>}
    ELSE offers' = offers \cup {o} /\ UNCHANGED <<held, delivered>>
\* No answer comes: the pipeline may have accepted, and nothing is known of it.
Unanswered(o) ==
  /\ offers' = offers \cup {o}
  /\ \/ Takes(o) /\ held' = [held EXCEPT ![o.of] = o.revision]
     \/ UNCHANGED held
  /\ UNCHANGED delivered

HandOffFallback(w) ==
  /\ pc[w] = "handoff"
  /\ Deliver(Offer(Fallback, "engine"))
  /\ Leave(w)
  /\ UNCHANGED <<runnerVars, jobVars, attempts, pending, stored, cancel, lidarrVars,
                 troubles, searches>>

\* FALLBACK_RETRYABLE_ERROR is due: once more, or the whole cycle again.
RetryFallback(w) ==
  /\ pc[w] = "retry"
  /\ IF overall = "past"
       THEN RestartCycle(w)
       ELSE UpdateState(w, "FALLBACK_RUNNING", TRUE) /\ UNCHANGED <<attempt, overall>>
  /\ LeaveMoved(w)
  /\ UNCHANGED <<runnerVars, tableVars, lidarrVars, troubles, searches>>

-----------------------------------------------------------------------------
(* Late grabs (candidates.go).  The monitor and discovery are one goroutine.  *)

LateStates == {"FALLBACK_RUNNING", "FALLBACK_RETRYABLE_ERROR", "NO_CANDIDATE", "ARBITRATING"}

LateEvidence ==
  /\ phase = "running" /\ pc[Monitor] = "idle"
  /\ job \in LateStates /\ search # 0
  /\ Evidence(TRUE) # {}
  /\ seen' = [seen EXCEPT ![Monitor] = Evidence(TRUE)]
  /\ pc' = [pc EXCEPT ![Monitor] = "handle"]
  /\ UNCHANGED <<runnerVars, jobVars, tableVars, phase, fresh, lease, expired, lidarrVars,
                 troubles, searches>>

\* Handle reads the job again and chooses what the grab means for it.
HandleStep ==
  CASE job \notin LateStates -> "idle"
    [] job \in LateStates /\ Fallback \in stored -> "dual"
    [] job = "FALLBACK_RUNNING" /\ Fallback \notin stored -> "cancel"
    [] job = "ARBITRATING" /\ Fallback \notin stored -> "idle"
    [] OTHER -> "active"
Handle ==
  /\ pc[Monitor] = "handle"
  /\ pc' = [pc EXCEPT ![Monitor] = HandleStep]
  /\ seen' = IF HandleStep = "idle" THEN [seen EXCEPT ![Monitor] = {}] ELSE seen
  /\ fresh' = IF HandleStep = "idle" THEN fresh \ {Monitor} ELSE fresh \cup {Monitor}
  /\ UNCHANGED <<runnerVars, jobVars, tableVars, phase, lease, expired, lidarrVars,
                 troubles, searches>>

\* cancelFallback: the effect is recorded, the process group signalled, the
\* effect acknowledged; once acknowledged it is never sent again.
\* Mutant: the grab is registered without stopping the engine.
CancelNothing ==
  /\ pc[Monitor] = "cancel"
  /\ At(Monitor, "active")
  /\ UNCHANGED <<runnerVars, jobVars, tableVars, lidarrVars, troubles, searches>>
CancelFallback ==
  /\ pc[Monitor] = "cancel"
  /\ IF cancel = "acked"
       THEN At(Monitor, "active") /\ UNCHANGED <<cancel, runnerVars>>
       ELSE /\ cancel' = "put"
            /\ \/ Supersede /\ At(Monitor, "ack")
               \/ ~Active /\ Leave(Monitor) /\ UNCHANGED runnerVars
  /\ UNCHANGED <<jobVars, attempts, pending, stored, deliveryVars, lidarrVars,
                 troubles, searches>>
AcknowledgeCancel ==
  /\ pc[Monitor] = "ack"
  /\ cancel' = "acked"
  /\ At(Monitor, "active")
  /\ UNCHANGED <<runnerVars, jobVars, attempts, pending, stored, deliveryVars, lidarrVars,
                 troubles, searches>>

RegisterLate ==
  /\ pc[Monitor] \in {"active", "dual"}
  /\ \/ /\ RegisterPrimary(Monitor,
             IF pc[Monitor] = "dual" THEN "DUAL_CANDIDATE" ELSE "PRIMARY_ACTIVE")
        /\ LeaveMoved(Monitor)
     \/ /\ \/ Monitor \notin fresh \/ AlreadyPending(Oldest(seen[Monitor]))
           \/ pc[Monitor] = "dual" /\ job \in LateStates \ {"FALLBACK_RUNNING", "ARBITRATING"}
        /\ Leave(Monitor)
        /\ UNCHANGED <<job, due, search, past, release, pending>>
  /\ UNCHANGED <<runnerVars, overall, attempt, attempts, stored, deliveryVars, cancel,
                 lidarrVars, troubles, searches>>

-----------------------------------------------------------------------------
(* Discovery and completed downloads                                         *)

\* Another release is selected in Lidarr: the job starts again.
ReviseSelectedRelease ==
  /\ release' = selected /\ revision' = revision + 1 /\ strayed' = FALSE
  /\ job' = "DISCOVERED" /\ due' = TRUE /\ attempt' = 0
  /\ ClearContext
  /\ fresh' = {}
Discover ==
  /\ phase = "running" /\ pc[Monitor] = "idle"
  /\ job \notin JobTerminal /\ release # selected
  /\ ReviseSelectedRelease
  /\ UNCHANGED <<runnerVars, tableVars, phase, pc, seen, lease, expired,
                 status, grab, selected, turns, troubles, searches>>

\* A pass over the completed downloads first offers, again and in any order
\* here, each completed primary candidate that has no acknowledgement for the
\* release now selected; one that is refused ends the pass.
\* Mutant: a candidate that was offered before is left out.
WithoutOffer(n) ==
  n \in stored /\ <<n, release>> \notin delivered /\ \A o \in offers : o.of # n
CandidateWithoutEffect(n) == n \in stored /\ <<n, release>> \notin delivered
Again(n) == Offer(n, "queue")
DeliverPrimary(n) ==
  /\ phase = "running"
  /\ CandidateWithoutEffect(n) /\ Storable(Again(n))
  /\ Deliver(Again(n))
  /\ UNCHANGED <<runnerVars, jobVars, attempts, pending, stored, cancel, processVars, lidarrVars,
                 troubles, searches>>

\* Then each pending candidate whose download is complete is stored and
\* offered.  Lidarr's queue shows the completion or, once the record is gone,
\* an event of slskd, and the request says which of them it was.
Passing == \A n \in Searches :
             CandidateWithoutEffect(n) => Storable(Again(n)) /\ Takes(Again(n))
CompletePrimary(n) ==
  /\ phase = "running" /\ Passing
  /\ n \in pending
  /\ InsertCandidate(n)
  /\ Deliver(Offer(n, "queue"))
  /\ UNCHANGED <<runnerVars, jobVars, attempts, pending, cancel, processVars, lidarrVars,
                 troubles, searches>>

\* The first approval opens the arbitration, the winner ends the job.
Arbitrate ==
  /\ phase = "running"
  /\ \E c \in Candidates : held[c] # 0
  /\ job' = IF job = "ARBITRATING" THEN "HANDED_OFF" ELSE "ARBITRATING"
  /\ job \in {"PRIMARY_ACTIVE", "DUAL_CANDIDATE", "ARBITRATING"}
  /\ fresh' = {}
  /\ UNCHANGED <<runnerVars, due, search, past, overall, release, attempt, tableVars, phase, pc,
                 seen, lease, expired, lidarrVars, troubles, searches>>

-----------------------------------------------------------------------------
(* Lidarr and the clock                                                      *)

CommandEnds ==
  /\ status = "running"
  /\ status' \in {"completed", "failed"}
  /\ UNCHANGED <<runnerVars, jobVars, tableVars, processVars, grab, selectionVars, troubles,
                 searches>>

\* A search leads Lidarr to grab a release, at any time after it started.
GrabAppears(n) ==
  /\ status # "none" /\ n = searches /\ grab[n] = NoGrab
  /\ grab' = [grab EXCEPT ![n] =
       [search |-> search, release |-> selected,
        when |-> IF "grace" \notin past THEN "early"
                 ELSE IF overall # "past" THEN "late" ELSE "over"]]
  /\ UNCHANGED <<runnerVars, jobVars, tableVars, processVars, status, selectionVars, troubles,
                 searches>>

RetryDue ==
  /\ ~due
  /\ due' = TRUE
  /\ UNCHANGED <<runnerVars, job, search, past, overall, release, attempt, tableVars,
                 processVars, lidarrVars, troubles, searches>>

SearchDeadlinePasses ==
  /\ search # 0
  /\ \/ "command" \notin past /\ past' = past \cup {"command"}
     \/ /\ "command" \in past \/ job \notin {"PRIMARY_SEARCH_REQUESTED", "PRIMARY_SEARCH_RUNNING"}
        /\ "grace" \notin past
        /\ past' = past \cup {"grace"}
  /\ UNCHANGED <<runnerVars, job, due, search, overall, release, attempt, tableVars,
                 processVars, lidarrVars, troubles, searches>>

OverallPasses ==
  /\ overall = "ahead"
  /\ overall' = "past"
  /\ IF Running THEN DeadlinePasses ELSE UNCHANGED runnerVars
  /\ UNCHANGED <<job, due, search, past, release, attempt, tableVars, processVars,
                 lidarrVars, troubles, searches>>

Trouble(kind) ==
  /\ kind \in Troubles
  /\ troubles < MaxTroubles
  /\ troubles' = troubles + 1

\* A user selects another release of the album in Lidarr.
SelectRelease ==
  /\ turns < MaxTurns /\ turns' = turns + 1
  /\ selected' \in (1..MaxReleases) \ {selected}
  /\ strayed' = (strayed \/ selected' = release)
  /\ UNCHANGED <<runnerVars, jobVars, tableVars, processVars, status, grab, revision, troubles,
                 searches>>

\* The album leaves the Wanted list (ReconcileWantedCycles).
Unwanted ==
  /\ Trouble("unwanted")
  /\ phase = "running" /\ pc[Monitor] = "idle"
  /\ CanTransition(job, "CANCELLED")
  /\ job' = "CANCELLED" /\ due' = TRUE
  /\ fresh' = {}
  /\ UNCHANGED <<runnerVars, search, past, overall, release, attempt, tableVars, phase, pc,
                 seen, lease, expired, lidarrVars, searches>>

-----------------------------------------------------------------------------
(* Failures                                                                  *)

\* A database or HTTP call of the worker or the monitor fails.
Abort(c) ==
  /\ Trouble("abort")
  /\ pc[c] \notin {"idle", "engine"}
  /\ Leave(c)
  /\ run' = IF pc[c] = "classified" THEN Idle ELSE run
  /\ UNCHANGED <<child, superseded, output, late, jobVars, tableVars, lidarrVars, searches>>

\* An offer is not made, or the answer of the pipeline to it is lost: in
\* either part of a pass, and when the worker makes it.
LoseAnswer(n) ==
  /\ Trouble("lost")
  /\ phase = "running" /\ Passing
  /\ \/ /\ n \in pending /\ InsertCandidate(n)
        /\ \/ \E how \in {"queue", "event"} : Unanswered(Offer(n, how))
           \/ UNCHANGED deliveryVars
     \/ /\ CandidateWithoutEffect(n)
        /\ Unanswered(Again(n))
        /\ UNCHANGED stored
  /\ UNCHANGED <<runnerVars, jobVars, attempts, pending, cancel, processVars, lidarrVars, searches>>
LoseHandOff(w) ==
  /\ Trouble("lost")
  /\ pc[w] = "handoff"
  /\ Unanswered(Offer(Fallback, "engine"))
  /\ Leave(w)
  /\ UNCHANGED <<runnerVars, jobVars, attempts, pending, stored, cancel, lidarrVars, searches>>

\* The lease runs out while the worker goes on: its renewals come too late.
LeaseStalls ==
  /\ Trouble("stall")
  /\ lease \in Workers /\ ~expired
  /\ expired' = TRUE
  /\ UNCHANGED <<runnerVars, jobVars, tableVars, phase, pc, seen, fresh, lease, lidarrVars,
                 searches>>

\* The gateway process dies and starts again; the engine dies with it.  The
\* lease of an interrupted worker stays.
Restart ==
  /\ phase' = "recovering"
  /\ pc' = [c \in Callers |-> "idle"]
  /\ seen' = [c \in Callers |-> {}]
  /\ fresh' = {}
  /\ lease' = IF lease = "free" THEN "free" ELSE "orphan"
  /\ expired' \in IF lease = "free" THEN {FALSE} ELSE {expired, TRUE}
  /\ run' = Idle /\ child' = "none" /\ superseded' = FALSE /\ late' = FALSE
  /\ UNCHANGED <<output, jobVars, tableVars, lidarrVars, searches>>
Crash == Trouble("crash") /\ Restart

\* The runner uses the error of a process that ended without one: the gateway
\* process ends with a panic.  It is the last trouble of a behaviour.
Panic == StoppedWithoutError /\ Restart /\ troubles' = MaxTroubles

\* Recovery offers again what is not acknowledged (recovery.go): under the old
\* key if it was for the release now selected, and under the job's revision
\* if it was for another.  A refusal ends the process, and the next one meets it.
Acceptance(o) == {<<o.of, o.release>>, <<o.of, release>>}
Renewed(o) == IF o.release = release THEN o ELSE Offer(o.of, o.how)
Replay(o) ==
  /\ phase = "recovering"
  /\ IF <<o.of, release>> \in delivered
       THEN /\ offers' = offers \ {o}
            /\ delivered' = delivered \cup Acceptance(o)
            /\ UNCHANGED held
       ELSE /\ Storable(Renewed(o))
            /\ IF Takes(Renewed(o))
                 THEN /\ held' = [held EXCEPT ![o.of] = Renewed(o).revision]
                      /\ offers' = offers \ {o, Renewed(o)}
                      /\ delivered' = delivered \cup Acceptance(o)
                 ELSE offers' = offers \cup {Renewed(o)} /\ UNCHANGED <<held, delivered>>
  /\ UNCHANGED <<runnerVars, jobVars, attempts, pending, stored, cancel, processVars, lidarrVars,
                 troubles, searches>>

\* It removes an expired lease, settles a cancellation and takes the fallback
\* that has lost its process to its next attempt.
Recover ==
  /\ phase = "recovering" /\ offers = {}
  /\ phase' = "running"
  /\ lease' = IF expired THEN "free" ELSE lease
  /\ expired' = FALSE
  /\ cancel' = IF cancel = "put" THEN "acked" ELSE cancel
  /\ IF job = "FALLBACK_RUNNING"
       THEN job' = "FALLBACK_RETRYABLE_ERROR" /\ due' = FALSE
            /\ attempt' = attempt + 1
       ELSE UNCHANGED <<job, due, attempt>>
  /\ UNCHANGED <<runnerVars, search, past, overall, release, attempts, pending, stored,
                 deliveryVars, pc, seen, fresh, lidarrVars, troubles, searches>>

-----------------------------------------------------------------------------
(* The specification                                                         *)

outsideRunner == <<jobVars, tableVars, processVars, lidarrVars, troubles, searches>>
Bounded == StoppedWithoutError' => troubles < MaxTroubles    \* bound on panics
Runner == RunnerStep /\ Bounded /\ UNCHANGED outsideRunner
Engine == EngineStep /\ Bounded /\ UNCHANGED outsideRunner
EngineEnds == Signalled /\ Exit /\ Bounded /\ UNCHANGED outsideRunner
\* The job has no overall deadline any more; the request of the run keeps its own.
RunDeadlinePasses == overall # "ahead" /\ DeadlinePasses /\ UNCHANGED outsideRunner

Searching(w) == \/ Request(w) \/ Watermarks(w) \/ StartSearch(w) \/ SetSearchCommandID(w)
                \/ SearchAccepted(w) \/ PollCommand(w) \/ SearchCompleted(w)
                \/ BeginReconciling(w) \/ PrimaryError(w)
Correlating(w) == \/ ReadEvidence(w) \/ GraceCheck(w) \/ ReconcileUncertain(w)
                  \/ Adopt(w)
FallingBack(w) == \/ StartFallback(w) \/ RunAttempt(w) \/ RunnerReturned(w) \/ FallbackEnded(w)
                  \/ FallbackStale(w) \/ HandOffFallback(w) \/ RetryFallback(w)
Work(w) == StaleWrite(w) \/ Searching(w) \/ Correlating(w) \/ FallingBack(w)
Monitoring == \/ LateEvidence \/ Handle \/ CancelFallback \/ AcknowledgeCancel \/ RegisterLate
Clock == \/ RetryDue \/ SearchDeadlinePasses \/ OverallPasses \/ RunDeadlinePasses

Next ==
  \/ \E w \in Workers : Take(w) \/ Work(w)
  \/ Runner \/ Engine \/ Panic
  \/ Monitoring \/ Discover \/ Arbitrate
  \/ \E n \in Searches : CompletePrimary(n) \/ DeliverPrimary(n) \/ GrabAppears(n)
  \/ (\E n \in Searches : LoseAnswer(n)) \/ \E w \in Workers : LoseHandOff(w)
  \/ CommandEnds \/ SelectRelease \/ Unwanted
  \/ Clock
  \/ \E c \in Callers : Abort(c)
  \/ LeaseStalls \/ Crash \/ Recover \/ \E o \in offers : Replay(o)

Fairness ==
  /\ \A w \in Workers : WF_vars(Work(w))
  /\ WF_vars(\E w \in Workers : Take(w))
  /\ WF_vars(Runner) /\ WF_vars(EngineEnds) /\ WF_vars(Panic)
  /\ WF_vars(Recover) /\ WF_vars(\E o \in offers : Replay(o))
  /\ WF_vars(Clock)
  /\ \A n \in Searches : WF_vars(DeliverPrimary(n))

Spec == Init /\ [][Next]_vars
FairSpec == Spec /\ Fairness

-----------------------------------------------------------------------------
(* Properties                                                                *)

Steps == {"idle", "request", "watermarks", "search", "started", "accepted", "poll", "completed",
          "graced", "error", "reconcile", "grace", "uncertain", "adopt", "fallback", "attempt",
          "engine", "classified", "handoff", "retry", "handle", "cancel", "ack", "active", "dual"}

\* Every variable keeps its type.
TypeOK ==
  /\ RunnerTypeOK
  /\ job \in JobStates /\ due \in BOOLEAN
  /\ search \in 0..MaxSearches /\ searches \in 0..MaxSearches
  /\ past \subseteq {"command", "grace"}
  /\ overall \in {"none", "ahead", "past"}
  /\ release \in 1..MaxReleases /\ selected \in 1..MaxReleases
  /\ turns \in 0..MaxTurns /\ revision \in Revisions /\ strayed \in BOOLEAN
  /\ attempt \in 0..(MaxAttempts + MaxTroubles)
  /\ attempts \subseteq 0..(MaxAttempts + MaxTroubles)
  /\ pending \subseteq Searches /\ stored \subseteq Candidates
  /\ delivered \subseteq Candidates \X (1..MaxReleases)
  /\ offers \subseteq [of : Candidates, revision : Revisions, release : 1..MaxReleases,
                       how : {"queue", "event", "engine"}]
  /\ held \in [Candidates -> {0} \cup Revisions]
  /\ cancel \in {"none", "put", "acked"}
  /\ lease \in Workers \cup {"free", "orphan"} /\ expired \in BOOLEAN
  /\ phase \in {"recovering", "running"}
  /\ pc \in [Callers -> Steps]
  /\ seen \in [Callers -> SUBSET Searches]
  /\ fresh \subseteq Callers
  /\ status \in {"none", "running", "completed", "failed"}
  /\ grab \in [Searches -> [search : 0..MaxSearches, release : 0..MaxReleases,
                            when : {"never", "early", "late", "over"}]]
  /\ troubles \in 0..MaxTroubles

\* Only one goroutine works on the job at a time, even when a lease ran out
\* under its owner or was left behind by a crash.
OneWorker == \A v, w \in Workers : pc[v] # "idle" /\ pc[w] # "idle" => v = w

\* A grab becomes the job's primary candidate only if Lidarr made it for the
\* release the job is about, however searches, re-selections, restarts and the
\* late-primary monitor interleave, unless a user selected another release of
\* the album and went back to the job's.
PrimaryCorrelated ==
  [][\A n \in pending' \ pending :
       (grab[n].release = release \/ strayed) /\ grab[n].when # "over"]_vars

\* A fallback candidate is stored only when no engine writes any more and
\* every file of the job's directory is complete.
StoredWhole ==
  [][(Fallback \in stored' \ stored) =>
       child = "none" /\ "flac" \in output /\ "part" \notin output]_vars

\* The primary takes over a running fallback only once its engine is signalled
\* or has no process, or a cancellation of the job was acknowledged before,
\* of whichever engine: there is one effect of cancellation for all of them.
PrimaryStopsFallback ==
  [][job = "FALLBACK_RUNNING" /\ job' = "PRIMARY_ACTIVE" /\ child = "alive" =>
       superseded \/ cancel = "acked"]_vars

\* Startup recovery meets an offer that cannot be stored or is refused.
RecoveryFails ==
  /\ phase = "recovering"
  /\ \E o \in offers : /\ <<o.of, release>> \notin delivered
                       /\ ~(Storable(Renewed(o)) /\ Takes(Renewed(o)))

\* A search ends, in a grab, in the fallback or in a retry, unless a restart
\* left the lease of its worker behind, or its recovery never ends.
SearchStates == {"PRIMARY_SEARCH_REQUESTED", "PRIMARY_SEARCH_RUNNING", "PRIMARY_RECONCILING"}
SearchEnds == job \in SearchStates ~> job \notin SearchStates \/ lease = "orphan" \/ RecoveryFails

\* So does a fallback run: in a candidate, an empty answer or a retry.
FallbackEnds ==
  job = "FALLBACK_RUNNING" ~> job # "FALLBACK_RUNNING" \/ lease = "orphan" \/ RecoveryFails

\* A completed primary candidate is accepted for the release selected last,
\* and the gateway knows it, even if answers are lost and it restarts, unless
\* a candidate was accepted before the release was revised, or an offer that
\* named an event as its evidence was not answered.
CompletedDelivered ==
  \A n \in Searches : n \in stored ~>
    \/ <<n, release>> \in delivered
    \/ \E c \in Candidates : held[c] \notin {0, revision}
    \/ \E o \in offers : o.how = "event"

-----------------------------------------------------------------------------
(* What the design says and the code does not keep                           *)

\* "the gateway repeats the complete primary then fallback cycle": a fallback
\* that is due to run does not find its attempt number taken.
FallbackRepeats == \A w \in Workers : pc[w] = "attempt" => attempt \notin attempts
=============================================================================
