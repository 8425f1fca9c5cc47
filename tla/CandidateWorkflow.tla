-------------------------- MODULE CandidateWorkflow --------------------------
(* One candidate release in the pipeline: from its acceptance or its sealed   *)
(* submission through claim, technical validation, matching, enrichment and   *)
(* mutation of its tags to the import by Lidarr, with the reviews of an       *)
(* operator in between (internal/pipeline/application/workflow.go).           *)
(*                                                                           *)
(* The candidate's row says in which state it is; the release itself is a     *)
(* directory that ControlledWorkflow, the review service and Lidarr rename    *)
(* from one tree to another.  No transaction covers both, so each step of the *)
(* workflow is cut here at its renames, its writes and its calls to others.   *)
(* "torn" records that a call which had renamed the release ended before its  *)
(* change of state.  The unmanaged branch ends here where UnmanagedImport     *)
(* begins, the arbitration is one directive of the gateway (Arbitration).     *)
EXTENDS PipelineStates, Naturals, FiniteSets

CONSTANTS
  Sources,       \* where a candidate comes from: "manual", "gateway"
  MaxChanges,    \* bound: changes of the files before the claim
  MaxTroubles,   \* bound: crashes, failed calls and lost answers
  MaxDecisions   \* bound: decisions of the operator

ASSUME SourcesAssumption == Sources \subseteq {"manual", "gateway"}
ASSUME BoundsAssumption ==
  MaxChanges \in Nat /\ MaxTroubles \in Nat /\ MaxDecisions \in Nat

VARIABLES
  source,      \* candidates.source
  verdict,     \* what the files are worth, which no step changes
  state, rev,  \* candidates.state and state_revision
  submission,  \* submissions.status: "none", "SEALED" or "WAITING_RESUBMIT"
  sealed,      \* submissions.sealed_fingerprint
  intent,      \* import_intents.status, "none" without a row
  lease,       \* "free", "held" by the worker, "stale" after a crash
  tree,        \* fingerprint of the release's files
  dir,         \* tree -> what is at this candidate's place in it
  tags,        \* tags of the files: "original", "partial" or "canonical"
  lidarr,      \* the command given to Lidarr: "none", "accepted", "done", "failed"
  library,     \* the release is in the library
  sent,        \* commands given to Lidarr
  call,        \* the worker's goroutine for this candidate
  review,      \* the call of the operator that returns the release to work
  torn, changes, troubles, decisions

rowVars == <<state, rev>>
tableVars == <<submission, sealed, intent>>
fileVars == <<tree, dir, tags>>
lidarrVars == <<lidarr, library, sent>>
budgetVars == <<changes, troubles, decisions>>
vars == <<source, verdict, rowVars, tableVars, lease, fileVars, lidarrVars,
          call, review, torn, budgetVars>>

Places == {"source", "work", "quarantine", "approved"}
\* "leftover" is a directory without the release: sidecars, or what Lidarr left
Contents == {"absent", "release", "leftover"}
Verdicts == {"auto", "review", "reject", "unreadable", "corrupt", "unmanaged"}
IntentStates ==
  {"none", "PENDING", "IMPORT_SUBMITTED", "IMPORT_RECONCILING", "IMPORTED"}
CallSteps ==
  {"idle", "ready", "scanned", "stable", "claimed", "resubmit", "rejected",
   "evaluated", "recorded", "enriched", "mutated", "reported", "catalogued",
   "placed", "prepared", "verified", "removed"}

Idle == [pc |-> "idle", rev |-> 0, to |-> "none", tree |-> 0]

NoReview == [pc |-> "idle", rev |-> 0]

Init ==
  /\ source \in Sources
  /\ verdict \in (IF source = "manual" THEN Verdicts ELSE Verdicts \ {"unmanaged"})
  /\ state = "RECEIVED" /\ rev = 0
  /\ submission = IF source = "manual" THEN "SEALED" ELSE "none"
  /\ sealed = 0 /\ intent = "none"
  /\ lease = "free"
  /\ tree = 0 /\ tags = "original"
  /\ dir = [p \in Places |-> IF p = "source" THEN "release" ELSE "absent"]
  /\ lidarr = "none" /\ library = FALSE /\ sent = 0
  /\ call = Idle
  /\ review = NoReview
  /\ torn = FALSE
  /\ changes = 0 /\ troubles = 0 /\ decisions = 0

-----------------------------------------------------------------------------
(* Renames and changes of state.                                             *)

\* mutant of Movable: only the source is looked at
MovableOver(from, to) == dir[from] # "absent"

\* os.Rename refuses a target that is a directory
Movable(from, to) == dir[from] # "absent" /\ dir[to] = "absent"
Move(from, to) == dir' = [dir EXCEPT ![to] = dir[from], ![from] = "absent"]

\* a step of the call has renamed the release and not yet changed the state
Moved(c) ==
  \/ c.pc = "claimed"
  \/ /\ c.pc \in {"evaluated", "recorded", "mutated"}
     /\ c.to \in {"REVIEW_REQUIRED", "REJECTED", "QUARANTINED"}

Finished == call' = Idle /\ lease' = "free"
\* Process returns an error: the lease is released, the state stays
GiveUp == Finished /\ torn' = (torn \/ Moved(call))

Legal(to) == call.rev = rev /\ CandidateCanTransition(state, to)
Transition(to) ==
  /\ Legal(to)
  /\ state' = to /\ rev' = rev + 1

\* the loop of Process: the next state is read, unless the candidate waits
Continue(to) ==
  IF to \in CandidateTerminal \cup {"ARBITRATION_PENDING", "REVIEW_REQUIRED"}
  THEN Finished
  ELSE call' = [Idle EXCEPT !.pc = "ready"] /\ UNCHANGED lease

\* the last write of a step: refused when someone else changed the state
EndStep(to) ==
  \/ /\ Transition(to)
     /\ Continue(to)
     /\ UNCHANGED torn
  \/ /\ ~Legal(to)
     /\ GiveUp
     /\ UNCHANGED rowVars

At(pc) == call.pc = pc
Goto(pc) == call' = [call EXCEPT !.pc = pc]
StepOf(s) == At("ready") /\ state = s
Read(pc, to) == call' = [pc |-> pc, rev |-> rev, to |-> to, tree |-> tree]

-----------------------------------------------------------------------------
(* The worker takes the candidate and runs its steps.                        *)

Claimable ==
  {"RECEIVED", "CLAIMED", "STABILIZING", "WORKING", "TECHNICAL_VALIDATION",
   "RELEASE_MATCHING", "ENRICHING", "APPROVED", "IMPORT_READY",
   "IMPORT_SUBMITTED", "IMPORT_RECONCILING"}

\* ReadyWork and AcquireWorkLease: only a candidate without a lease
Dispatch ==
  /\ state \in Claimable
  /\ lease = "free" /\ At("idle")
  /\ lease' = "held"
  /\ call' = [Idle EXCEPT !.pc = "ready"]
  /\ UNCHANGED <<source, verdict, rowVars, tableVars, fileVars, lidarrVars,
                 review, torn, budgetVars>>

\* the states whose step is only a transition
Advance ==
  /\ At("ready")
  /\ LET next == CASE state = "RECEIVED" -> "CLAIMED"
                   [] state = "CLAIMED" -> "STABILIZING"
                   [] state = "WORKING" -> "TECHNICAL_VALIDATION"
                   [] state = "IMPORT_SUBMITTED" -> "IMPORT_RECONCILING"
                   [] OTHER -> "none"
     IN /\ next # "none"
        /\ state' = next /\ rev' = rev + 1
        /\ Continue(next)
  /\ UNCHANGED <<source, verdict, tableVars, fileVars, lidarrVars, review, torn,
                 budgetVars>>

\* what MatchRelease says of the files against TargetRelease, which is the release
\* the candidate was asked for: one that an approval names is in audit_events only,
\* and TargetRelease reads that last
Match == CASE verdict = "auto" -> "ENRICHING"
           [] verdict = "reject" -> "REJECTED"
           [] OTHER -> "REVIEW_REQUIRED"

Quarantines == verdict # "unmanaged" /\ Match # "ENRICHING"

\* the state has no step here, or what the step needs is not there
Unusable ==
  \/ state \notin Claimable
  \/ state = "STABILIZING" /\ dir["source"] # "release"
  \/ state = "TECHNICAL_VALIDATION" /\ dir["work"] = "absent"
  \/ state \in {"STABILIZING", "RELEASE_MATCHING"} /\ source = "manual" /\ submission # "SEALED"
  \/ state = "RELEASE_MATCHING" /\ Quarantines /\ ~Movable("work", "quarantine")
  \/ state = "IMPORT_READY" /\ intent = "none" /\ "release" \notin {dir["work"], dir["approved"]}

Stop ==
  /\ At("ready") /\ Unusable
  /\ GiveUp
  /\ UNCHANGED <<source, verdict, rowVars, tableVars, fileVars, lidarrVars, review,
                 budgetVars>>

\* ends the steps that only have their change of state left
Record ==
  /\ At("recorded")
  /\ EndStep(call.to)
  /\ UNCHANGED <<source, verdict, tableVars, fileVars, lidarrVars, review, budgetVars>>

-----------------------------------------------------------------------------
(* Claim: the release must be the same tree over an interval, and for a       *)
(* manual submission the tree that was sealed.                               *)

Scan ==
  /\ StepOf("STABILIZING") /\ ~Unusable
  /\ Read("scanned", "WORKING")
  /\ UNCHANGED <<source, verdict, rowVars, tableVars, lease, fileVars, lidarrVars,
                 review, torn, budgetVars>>

Stable == tree = call.tree

\* mutant of AsSealed: stability alone is asked for
AnySeal == TRUE

AsSealed == source = "manual" => tree = sealed

ScanAgain ==
  /\ At("scanned")
  /\ \/ /\ Stable /\ AsSealed
        /\ Goto("stable")
        /\ UNCHANGED <<rowVars, lease, torn>>
     \/ /\ source = "manual" /\ ~(Stable /\ AsSealed)
        /\ \/ /\ Transition("WAITING_RESUBMIT")
              /\ Goto("resubmit")
              /\ UNCHANGED <<lease, torn>>
           \/ /\ ~Legal("WAITING_RESUBMIT")
              /\ GiveUp
              /\ UNCHANGED rowVars
     \/ /\ source = "gateway" /\ ~Stable
        /\ GiveUp
        /\ UNCHANGED rowVars
  /\ UNCHANGED <<source, verdict, tableVars, fileVars, lidarrVars, review, budgetVars>>

\* SetWaitingResubmit writes the submission in a second transaction
SetWaitingResubmit ==
  /\ At("resubmit")
  /\ submission' = "WAITING_RESUBMIT"
  /\ Continue("WAITING_RESUBMIT")
  /\ UNCHANGED <<source, verdict, rowVars, sealed, intent,
                 fileVars, lidarrVars, review, torn, budgetVars>>

Claim ==
  /\ At("stable")
  /\ \/ /\ Stable /\ Movable("source", "work")
        /\ Move("source", "work")
        /\ Goto("claimed")
        /\ UNCHANGED <<lease, torn>>
     \/ /\ ~(Stable /\ Movable("source", "work"))
        /\ GiveUp
        /\ UNCHANGED dir
  /\ UNCHANGED <<source, verdict, rowVars, tableVars, tree, tags, lidarrVars, review,
                 budgetVars>>

\* the moved release is scanned once more
SetWorkLocation ==
  /\ At("claimed")
  /\ \/ Stable /\ EndStep("WORKING")
     \/ ~Stable /\ GiveUp /\ UNCHANGED rowVars
  /\ UNCHANGED <<source, verdict, tableVars, fileVars, lidarrVars, review, budgetVars>>

-----------------------------------------------------------------------------
(* Technical validation and matching.                                        *)

Rejected == verdict = "corrupt" \/ dir["work"] = "leftover"

Validate ==
  /\ StepOf("TECHNICAL_VALIDATION") /\ ~Unusable
  /\ IF Rejected THEN Read("rejected", "REJECTED") ELSE Read("recorded", "RELEASE_MATCHING")
  /\ UNCHANGED <<source, verdict, rowVars, submission, sealed, intent, lease,
                 fileVars, lidarrVars, review, torn, budgetVars>>

\* moveCandidate, before the change of state
MoveRejected ==
  /\ At("rejected")
  /\ \/ /\ Movable("work", "quarantine")
        /\ Move("work", "quarantine")
        /\ Goto("recorded")
        /\ UNCHANGED <<lease, torn>>
     \/ /\ ~Movable("work", "quarantine")
        /\ GiveUp
        /\ UNCHANGED dir
  /\ UNCHANGED <<source, verdict, rowVars, tableVars, tree, tags, lidarrVars, review,
                 budgetVars>>

\* MatchingService.Evaluate renames before anything is stored
Evaluate ==
  /\ StepOf("RELEASE_MATCHING") /\ ~Unusable
  /\ verdict # "unmanaged"
  /\ IF Quarantines THEN Move("work", "quarantine") ELSE UNCHANGED dir
  /\ Read(IF verdict = "unreadable" THEN "recorded" ELSE "evaluated", Match)
  /\ UNCHANGED <<source, verdict, rowVars, tableVars, lease, tree, tags, lidarrVars,
                 review, torn, budgetVars>>

\* SaveWorkflow and RecordMatch; Lidarr's catalogue follows, for any outcome
SaveMatch ==
  /\ At("evaluated")
  /\ Goto("recorded")
  /\ UNCHANGED <<source, verdict, rowVars, submission, sealed, intent, lease,
                 fileVars, lidarrVars, review, torn, budgetVars>>

MatchUnmanaged ==
  /\ StepOf("RELEASE_MATCHING") /\ ~Unusable
  /\ verdict = "unmanaged"
  /\ \E to \in {"UNMANAGED_READY", "UNMANAGED_REVIEW"} : Read("recorded", to)
  /\ UNCHANGED <<source, verdict, rowVars, tableVars, lease, fileVars, lidarrVars,
                 review, torn, budgetVars>>

-----------------------------------------------------------------------------
(* Enrichment, mutation of the tags, and the report of the approval.          *)

\* the lyrics are written with MkdirAll: a missing directory is made again
Enrich ==
  /\ StepOf("ENRICHING")
  /\ dir' = IF dir["work"] = "absent" THEN [dir EXCEPT !["work"] = "leftover"] ELSE dir
  /\ Read("enriched", "APPROVED")
  /\ UNCHANGED <<source, verdict, rowVars, tableVars, lease, tree, tags, lidarrVars,
                 review, torn, budgetVars>>

Mutate ==
  /\ At("enriched")
  /\ dir["work"] = "release"
  /\ tags' = "canonical"
  /\ Goto("mutated")
  /\ UNCHANGED <<source, verdict, rowVars, tableVars, lease, tree, dir, lidarrVars,
                 review, torn, budgetVars>>

\* a file fails: the rest of the release goes to quarantine as it is
MutationFails ==
  /\ At("enriched")
  /\ \/ dir["work"] # "release" /\ UNCHANGED <<tags, troubles>>
     \/ /\ troubles < MaxTroubles /\ troubles' = troubles + 1
        /\ tags' \in {tags, "partial"}
  /\ \/ /\ Movable("work", "quarantine")
        /\ Move("work", "quarantine")
        /\ call' = [call EXCEPT !.pc = "mutated", !.to = "QUARANTINED"]
        /\ UNCHANGED <<lease, torn>>
     \/ /\ ~Movable("work", "quarantine")
        /\ GiveUp
        /\ UNCHANGED dir
  /\ UNCHANGED <<source, verdict, rowVars, tableVars, tree, lidarrVars, review,
                 changes, decisions>>

\* RecordMutation and SaveWorkflow
RecordMutation ==
  /\ At("mutated")
  /\ Goto("recorded")
  /\ UNCHANGED <<source, verdict, rowVars, tableVars, lease, fileVars, lidarrVars,
                 review, torn, budgetVars>>

\* publishApproval: a manual candidate needs no arbitration
PublishApproval ==
  /\ StepOf("APPROVED")
  /\ IF source = "manual" THEN Read("recorded", "IMPORT_READY")
     ELSE Read("reported", "ARBITRATION_PENDING")
  /\ UNCHANGED <<source, verdict, rowVars, tableVars, lease, fileVars, lidarrVars,
                 review, torn, budgetVars>>

\* the candidate is read again: a directive may have come before the answer
SettleApproval ==
  /\ At("reported")
  /\ \/ /\ state = "APPROVED"
        /\ state' = "ARBITRATION_PENDING" /\ rev' = rev + 1
        /\ Finished
     \/ /\ state # "APPROVED"
        /\ Continue(state)
        /\ UNCHANGED rowVars
  /\ UNCHANGED <<source, verdict, tableVars, fileVars, lidarrVars, review, torn,
                 budgetVars>>

\* the gateway's decision, once it has the approval
Directive ==
  /\ source = "gateway"
  /\ \/ state = "ARBITRATION_PENDING"
     \/ state = "APPROVED" /\ At("reported")
  /\ state' \in {"IMPORT_READY", "SUPERSEDED"} /\ rev' = rev + 1
  /\ UNCHANGED <<source, verdict, tableVars, lease, fileVars, lidarrVars, call, review,
                 torn, budgetVars>>

-----------------------------------------------------------------------------
(* Import by Lidarr.                                                         *)

\* mutant of Submitted: only a command that Lidarr confirmed counts
SubmittedForSure == intent \notin {"none", "PENDING", "IMPORT_RECONCILING"}

\* submitImport: an intent of an earlier call is not submitted again
Submitted == intent # "none"

SubmitExisting ==
  /\ StepOf("IMPORT_READY") /\ Submitted
  /\ Read("recorded", "IMPORT_SUBMITTED")
  /\ UNCHANGED <<source, verdict, rowVars, tableVars, lease, fileVars, lidarrVars,
                 review, torn, budgetVars>>

EnsureRelease ==
  /\ StepOf("IMPORT_READY") /\ ~Submitted /\ ~Unusable
  /\ Read("catalogued", "IMPORT_SUBMITTED")
  /\ UNCHANGED <<source, verdict, rowVars, tableVars, lease, fileVars, lidarrVars,
                 review, torn, budgetVars>>

\* the manifest is built, then the release goes to the approved tree
Place ==
  /\ At("catalogued")
  /\ \/ /\ dir["work"] = "absent" /\ dir["approved"] = "release"
        /\ Goto("placed")
        /\ UNCHANGED <<dir, lease, torn>>
     \/ /\ dir["work"] = "release" /\ Movable("work", "approved")
        /\ Move("work", "approved")
        /\ Goto("placed")
        /\ UNCHANGED <<lease, torn>>
     \/ /\ dir["work"] # "absent" /\ ~Movable("work", "approved")
        /\ GiveUp
        /\ UNCHANGED dir
  /\ UNCHANGED <<source, verdict, rowVars, tableVars, tree, tags, lidarrVars, review,
                 budgetVars>>

PutImportIntent ==
  /\ At("placed")
  /\ intent' = "PENDING"
  /\ Goto("prepared")
  /\ UNCHANGED <<source, verdict, rowVars, submission, sealed, lease,
                 fileVars, lidarrVars, review, torn, budgetVars>>

Accept == lidarr' = "accepted" /\ sent' = sent + 1

SubmitCommand ==
  /\ At("prepared")
  /\ Accept
  /\ intent' = "IMPORT_SUBMITTED"
  /\ Goto("recorded")
  /\ UNCHANGED <<source, verdict, rowVars, submission, sealed, lease,
                 fileVars, library, review, torn, budgetVars>>

\* status after a failed call: the outcome is unknown
AfterFailure == "IMPORT_RECONCILING"

\* the call failed, before or after Lidarr took the command
SubmitFails ==
  /\ At("prepared")
  /\ troubles < MaxTroubles /\ troubles' = troubles + 1
  /\ \/ Accept
     \/ UNCHANGED <<lidarr, sent>>
  /\ \/ /\ intent' = AfterFailure
        /\ Goto("recorded")
        /\ UNCHANGED <<lease, torn>>
     \/ /\ GiveUp              \* MarkImportStatus failed
        /\ UNCHANGED intent
  /\ UNCHANGED <<source, verdict, rowVars, submission, sealed, fileVars,
                 library, review, changes, decisions>>

\* Lidarr moves the files into the library, some time after the command
LidarrImports ==
  /\ lidarr = "accepted" /\ dir["approved"] = "release"
  /\ lidarr' = "done" /\ library' = TRUE
  /\ dir' = [dir EXCEPT !["approved"] = "leftover"]
  /\ UNCHANGED <<source, verdict, rowVars, tableVars, lease, tree, tags, sent, call,
                 review, torn, budgetVars>>

LidarrFails ==
  /\ lidarr = "accepted"
  /\ troubles < MaxTroubles /\ troubles' = troubles + 1
  /\ lidarr' = "failed"
  /\ UNCHANGED <<source, verdict, rowVars, tableVars, lease, fileVars, library, sent,
                 call, review, torn, changes, decisions>>

\* LibraryVerifier: every file of the manifest is in the library
Complete == library

VerifyImport ==
  /\ StepOf("IMPORT_RECONCILING")
  /\ \/ /\ Complete
        /\ Read("verified", "IMPORTED")
        /\ UNCHANGED <<intent, lease>>
     \/ /\ ~Complete
        /\ intent' = "IMPORT_RECONCILING"
        /\ Finished
  /\ UNCHANGED <<source, verdict, rowVars, submission, sealed, fileVars,
                 lidarrVars, review, torn, budgetVars>>

RemoveStaging ==
  /\ At("verified")
  /\ dir' = [dir EXCEPT !["approved"] = "absent"]
  /\ Goto("removed")
  /\ UNCHANGED <<source, verdict, rowVars, tableVars, lease, tree, tags, lidarrVars,
                 review, torn, budgetVars>>

MarkImported ==
  /\ At("removed")
  /\ intent' = "IMPORTED"
  /\ Goto("recorded")
  /\ UNCHANGED <<source, verdict, rowVars, submission, sealed, lease,
                 fileVars, lidarrVars, review, torn, budgetVars>>

-----------------------------------------------------------------------------
(* The operator: resubmission, and the decisions of a review.                *)

\* SubmissionService.Submit after WAITING_RESUBMIT
Resubmit ==
  /\ source = "manual" /\ state = "WAITING_RESUBMIT"
  /\ sealed' = tree /\ submission' = "SEALED"
  /\ state' = "RECEIVED" /\ rev' = rev + 1
  /\ UNCHANGED <<source, verdict, intent, lease, fileVars, lidarrVars,
                 call, review, torn, budgetVars>>

\* returnToWork, for Approve and for Retry
ReturnToWork ==
  /\ review.pc = "idle" /\ decisions < MaxDecisions
  /\ CandidateCanTransition(state, "WORKING")
  /\ review' = [pc |-> "checked", rev |-> rev]
  /\ decisions' = decisions + 1
  /\ UNCHANGED <<source, verdict, rowVars, tableVars, lease, fileVars, lidarrVars, call,
                 torn, changes, troubles>>

ReturnMove ==
  /\ review.pc = "checked"
  /\ \/ /\ Movable("quarantine", "work")
        /\ Move("quarantine", "work")
        /\ review' = [review EXCEPT !.pc = "moved"]
     \/ /\ ~Movable("quarantine", "work")
        /\ review' = NoReview
        /\ UNCHANGED dir
  /\ UNCHANGED <<source, verdict, rowVars, tableVars, lease, tree, tags, lidarrVars, call,
                 torn, budgetVars>>

ReturnCommit ==
  /\ review.pc = "moved"
  /\ \/ /\ review.rev = rev /\ CandidateCanTransition(state, "WORKING")
        /\ state' = "WORKING" /\ rev' = rev + 1
        /\ review' = NoReview
        /\ UNCHANGED troubles
     \/ /\ review.rev # rev
        /\ review' = [review EXCEPT !.pc = "refused"]
        /\ UNCHANGED <<rowVars, troubles>>
     \/ /\ troubles < MaxTroubles /\ troubles' = troubles + 1
        /\ review' = [review EXCEPT !.pc = "refused"]
        /\ UNCHANGED rowVars
  /\ UNCHANGED <<source, verdict, submission, sealed, intent, lease, fileVars,
                 lidarrVars, call, torn, changes, decisions>>

ReturnBack ==
  /\ review.pc = "refused"
  /\ \/ Movable("work", "quarantine") /\ Move("work", "quarantine") /\ UNCHANGED torn
     \/ ~Movable("work", "quarantine") /\ torn' = TRUE /\ UNCHANGED dir
  /\ review' = NoReview
  /\ UNCHANGED <<source, verdict, rowVars, tableVars, lease, tree, tags, lidarrVars, call,
                 budgetVars>>

\* Reject and Cancel; in IMPORT_READY the worker may be asking for the import
Dismiss ==
  /\ decisions < MaxDecisions /\ decisions' = decisions + 1
  /\ \E to \in {"REJECTED", "CANCELLED"} :
       CandidateCanTransition(state, to) /\ state' = to
  /\ rev' = rev + 1
  /\ torn' = (torn \/ (state = "IMPORT_READY" /\ (Submitted \/ ~At("idle"))))
  /\ UNCHANGED <<source, verdict, tableVars, lease, fileVars, lidarrVars, call, review,
                 changes, troubles>>

-----------------------------------------------------------------------------
(* The world around the worker.                                              *)

\* an upload or a download writes to the release, also through open files
FilesChange ==
  /\ changes < MaxChanges /\ changes' = changes + 1
  /\ (dir["source"] = "release" \/ At("claimed"))
  /\ tree' = tree + 1
  /\ UNCHANGED <<source, verdict, rowVars, tableVars, lease, dir, tags, lidarrVars, call,
                 review, torn, troubles, decisions>>

\* what a metaflac run that is cut off leaves
CutOff == IF At("enriched") /\ dir["work"] = "release" THEN {tags, "partial"} ELSE {tags}

\* a failed operation, or a tool that did not answer: the step returns an error
Abort ==
  /\ ~At("idle")
  /\ troubles < MaxTroubles /\ troubles' = troubles + 1
  /\ tags' \in CutOff
  /\ GiveUp
  /\ UNCHANGED <<source, verdict, rowVars, tableVars, tree, dir, lidarrVars, review,
                 changes, decisions>>

Crash ==
  /\ ~At("idle") \/ review.pc # "idle"
  /\ troubles < MaxTroubles /\ troubles' = troubles + 1
  /\ tags' \in CutOff
  /\ call' = Idle /\ review' = NoReview
  /\ lease' = IF lease = "held" THEN "stale" ELSE lease
  /\ torn' = (torn \/ Moved(call) \/ review.pc \in {"moved", "refused"})
  /\ UNCHANGED <<source, verdict, rowVars, tableVars, tree, dir, lidarrVars, changes,
                 decisions>>

\* mutant of Recover: a lease that expired stays
LeaseStays ==
  /\ lease = "stale"
  /\ UNCHANGED vars

\* recovery deletes leases that have expired, at the start and periodically
Recover ==
  /\ lease = "stale" /\ lease' = "free"
  /\ UNCHANGED <<source, verdict, rowVars, tableVars, fileVars, lidarrVars, call, review,
                 torn, budgetVars>>

WorkerStep ==
  \/ Advance \/ Stop \/ Record
  \/ Scan \/ ScanAgain \/ SetWaitingResubmit \/ Claim \/ SetWorkLocation
  \/ Validate \/ MoveRejected \/ Evaluate \/ SaveMatch \/ MatchUnmanaged
  \/ Enrich \/ Mutate \/ MutationFails \/ RecordMutation
  \/ PublishApproval \/ SettleApproval
  \/ SubmitExisting \/ EnsureRelease \/ Place \/ PutImportIntent
  \/ SubmitCommand \/ SubmitFails
  \/ VerifyImport \/ RemoveStaging \/ MarkImported

ReviewStep == ReturnMove \/ ReturnCommit \/ ReturnBack

Next ==
  \/ Dispatch \/ WorkerStep \/ ReviewStep \/ Recover
  \/ Directive \/ LidarrImports \/ LidarrFails
  \/ Resubmit \/ ReturnToWork \/ Dismiss
  \/ FilesChange \/ Abort \/ Crash

Spec == Init /\ [][Next]_vars

\* the goroutines go on, the ticker of the recovery fires, Lidarr runs commands
Fairness ==
  /\ WF_vars(Dispatch) /\ WF_vars(WorkerStep) /\ WF_vars(ReviewStep)
  /\ WF_vars(Recover) /\ WF_vars(LidarrImports)

FairSpec == Spec /\ Fairness

-----------------------------------------------------------------------------
(* Properties.                                                               *)

Approval == {"APPROVED", "ARBITRATION_PENDING"}
Import == {"IMPORT_READY", "IMPORT_SUBMITTED", "IMPORT_RECONCILING", "IMPORTED"}

(* Every variable has its type; a call never holds a later revision than the  *)
(* row, and the workflow writes no other status of an intent than these.      *)
TypeOK ==
  /\ source \in Sources /\ verdict \in Verdicts
  /\ state \in CandidateStates /\ rev \in Nat
  /\ submission \in {"none", "SEALED", "WAITING_RESUBMIT"}
  /\ sealed \in 0..MaxChanges /\ tree \in 0..MaxChanges
  /\ intent \in IntentStates
  /\ lease \in {"free", "held", "stale"}
  /\ dir \in [Places -> Contents]
  /\ tags \in {"original", "partial", "canonical"}
  /\ lidarr \in {"none", "accepted", "done", "failed"} /\ library \in BOOLEAN
  /\ sent \in Nat
  /\ call \in [pc : CallSteps, rev : 0..rev, to : CandidateStates \cup {"none"},
               tree : 0..MaxChanges]
  /\ review \in [pc : {"idle", "checked", "moved", "refused"}, rev : 0..rev]
  /\ torn \in BOOLEAN
  /\ changes \in 0..MaxChanges /\ troubles \in 0..MaxTroubles
  /\ decisions \in 0..MaxDecisions

\* nobody is between a rename and the change of state that belongs to it
Quiet == ~torn /\ ~Moved(call) /\ review.pc \notin {"moved", "refused"}

(* The release is in one place, through renames, rollbacks, crashes and the   *)
(* removal of the staging directory; and unless a call was cut off between a  *)
(* rename and its change of state, it is where the next step of its state,    *)
(* the operator's review included, looks for it.                              *)
FilesFollowState ==
  /\ Cardinality({p \in Places : dir[p] = "release"}) = IF library THEN 0 ELSE 1
  /\ Quiet =>
       /\ state \in {"RECEIVED", "CLAIMED", "STABILIZING", "WAITING_RESUBMIT"}
            => dir["source"] = "release"
       /\ state \in {"WORKING", "TECHNICAL_VALIDATION", "RELEASE_MATCHING",
                     "ENRICHING"} \cup Approval
            => dir["work"] = "release"
       /\ state \in {"REVIEW_REQUIRED", "QUARANTINED"} => dir["quarantine"] = "release"
       /\ state \in Import => library \/ "release" \in {dir["work"], dir["approved"]}

(* What is approved, and what is imported, passed the match, has its tags     *)
(* written completely, and is the tree the operator sealed, whatever was      *)
(* written to it before the claim and whatever was cut off since.             *)
ApprovedPrepared ==
  state \in Approval \cup Import =>
    verdict = "auto" /\ tags = "canonical" /\ (source = "manual" => tree = sealed)

(* Lidarr is asked at most once and only with a stored intent; what it put in *)
(* the library belongs to a candidate on the import path, unless an operator  *)
(* cancelled it while the worker was asking; IMPORTED means it is there and   *)
(* the staging directory is gone.                                             *)
ImportAgrees ==
  /\ sent <= 1 /\ (lidarr # "none" => Submitted)
  /\ library /\ ~torn => state \in Import
  /\ state = "IMPORTED" => library /\ dir["approved"] = "absent"

(* The workflow implements ReleaseCustody: however it is interleaved with the *)
(* operator, the gateway and Lidarr, and cut off, the release is handled in   *)
(* step with the stage of its candidate.                                      *)
Stage == CASE state \in Approval -> "approved"
           [] state \in Import \ {"IMPORTED"} -> "importing"
           [] state = "IMPORTED" -> "imported"
           [] state \in {"REJECTED", "CANCELLED", "SUPERSEDED"} -> "closed"
           [] OTHER -> "open"
Holders == {p \in Places : dir[p] = "release"} \cup {p \in {"library"} : library}
Fit == verdict = "auto" /\ tags = "canonical" /\ (source = "manual" => tree = sealed)
Custody == INSTANCE ReleaseCustody
  WITH at <- Holders, stage <- Stage, fit <- Fit, asked <- lidarr # "none", cut <- torn
ImplementsCustody == Custody!CustodySpec

\* where a candidate waits for someone, or has ended
Settled ==
  CandidateTerminal \cup
  {"WAITING_RESUBMIT", "REVIEW_REQUIRED", "QUARANTINED", "ARBITRATION_PENDING",
   "UNMANAGED_READY", "UNMANAGED_REVIEW"}

\* a seal that SetWaitingResubmit took back after the tree was sealed again
SealLost ==
  /\ source = "manual" /\ submission # "SEALED"
  /\ state \in {"RECEIVED", "CLAIMED", "STABILIZING"}

\* an intent whose command Lidarr never got, or did not carry out
ImportLost == Submitted /\ lidarr \in {"none", "failed"}

(* Every candidate ends, or waits for someone, through crashes, lost answers  *)
(* and changing files, except in three dead ends: a torn rename, a lost seal  *)
(* and an import that Lidarr never carried out.                               *)
CandidateSettles == <>[](state \in Settled \/ torn \/ SealLost \/ ImportLost)

=============================================================================
